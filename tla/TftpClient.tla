----------------------------- MODULE TftpClient -----------------------------
(***************************************************************************)
(* src/Internet/TFTP/tftp.c: a read request, the data and option packets   *)
(* that answer it, acknowledgements, the retransmission timer and its ISR, *)
(* over the nonblocking UDP socket of src/Ethernet/socket.c (opened with   *)
(* SF_IO_NONBLOCK) and a network that loses, repeats and reorders.         *)
(*                                                                         *)
(* The build is the one with F_STORAGE, where a block that is taken is     *)
(* saved, for a little-endian host (netutil.h), where a packet whose       *)
(* fields are converted in place is no packet any more.                    *)
(***************************************************************************)
EXTENDS Integers, Sequences

CONSTANTS FileBlocks,      \* DATA packets of the file; the last one is short
          BlockModulus,    \* 65536 in the code: g_block_num is a uint16_t
          TftpTimeout,     \* g_timeout, in ticks of the one second timer
          TftpRetries,     \* 5 in the code
          TftpPorts,       \* server ports: each answers one copy of a request
          MaxRequests,     \* calls of TFTP_read_request
          LatePackets      \* may packets of an earlier request still arrive?

ASSUME TftpAssumption ==
  /\ FileBlocks \in Nat \ {0}
  /\ BlockModulus \in Nat \ {0, 1}
  /\ TftpTimeout \in Nat \ {0}
  /\ TftpRetries \in Nat \ {0}
  /\ MaxRequests \in Nat
  /\ LatePackets \in BOOLEAN

VARIABLES
  tftpAt,        \* where TFTP_run is: its timeout part or its receive part
  tftpState,     \* g_tftp_state
  blockNum,      \* g_block_num
  serverIp,      \* is g_server_ip set?
  serverPort,    \* g_server_port, or 0
  resendFlag,    \* g_resend_flag
  timeCnt,       \* tftp_time_cnt
  retryCnt,      \* tftp_retry_cnt
  progress,      \* g_progress_state
  leftover,      \* a packet in g_tftp_rcv_buf as it arrived, or NoPacket
  spoiled,       \* history: has an old packet misled this transfer?
  stored,        \* blocks given to save_data, by their place in the file
  request,       \* requests made so far
  pending,       \* the socket's datagram: "none", "flying" or "ended"
  asked,         \* requests put on the wire
  acked,         \* acknowledgements sent: <<request, port, number>>
  servedFor,     \* per port: the request it answers, or 0
  served         \* per port: the blocks it has sent; Oack and Error count too

tftpClient == <<tftpState, blockNum, serverIp, serverPort, resendFlag,
                timeCnt, retryCnt, progress, stored>>
tftpOld    == <<leftover, spoiled>>
tftpNet    == <<servedFor, served>>
tftpVars   == <<tftpAt, tftpClient, tftpOld, request, pending, asked, acked,
                tftpNet>>

Oack     == 0
Error    == -1
NoPacket == -2
NoPort   == 0
OldBlock == 0              \* among the blocks stored: one of an old packet

TftpStates == {"NONE", "RRQ", "OACK", "DATA"}

TftpTypeOK ==
  /\ tftpAt \in {"timeout", "receive"}
  /\ tftpState \in TftpStates
  /\ blockNum \in 0 .. BlockModulus - 1
  /\ serverIp \in BOOLEAN
  /\ serverPort \in TftpPorts \cup {NoPort}
  /\ resendFlag \in BOOLEAN
  /\ timeCnt \in 0 .. TftpTimeout
  /\ retryCnt \in 0 .. TftpRetries - 1
  /\ progress \in {"PROGRESS", "FAIL", "SUCCESS"}
  /\ leftover \in NoPacket .. FileBlocks
  /\ spoiled \in BOOLEAN
  /\ stored \in Seq(OldBlock .. FileBlocks)
  /\ request \in 0 .. MaxRequests
  /\ pending \in {"none", "flying", "ended"}
  /\ asked \subseteq 1 .. MaxRequests
  /\ acked \subseteq
       (1 .. MaxRequests) \X (TftpPorts \cup {NoPort}) \X (0 .. BlockModulus - 1)
  /\ servedFor \in [TftpPorts -> 0 .. MaxRequests]
  /\ served \in [TftpPorts -> SUBSET (Error .. FileBlocks)]

TftpInit ==
  /\ tftpAt = "timeout"
  /\ tftpState = "NONE" /\ blockNum = 0
  /\ serverIp = FALSE /\ serverPort = NoPort
  /\ resendFlag = FALSE /\ timeCnt = 0 /\ retryCnt = 0
  /\ progress = "PROGRESS" /\ stored = <<>>
  /\ leftover = NoPacket /\ spoiled = FALSE
  /\ request = 0 /\ pending = "none"
  /\ asked = {} /\ acked = {}
  /\ servedFor = [p \in TftpPorts |-> 0]
  /\ served = [p \in TftpPorts |-> {}]

-----------------------------------------------------------------------------
(* The socket.  sendto on a nonblocking socket transmits and leaves the    *)
(* datagram pending; the next call only asks how that datagram ended, and  *)
(* what it was given is not sent.  send_udp_packet looks at the length     *)
(* returned, and its callers do not look at what it returns.               *)

Transmits == pending = "none"

SendtoNonblocking ==
  pending' = CASE pending = "none"   -> "flying"
               [] pending = "flying" -> "flying"
               [] pending = "ended"  -> "none"

SendRrq ==
  /\ SendtoNonblocking
  /\ asked' = IF Transmits THEN asked \cup {request'} ELSE asked
  /\ UNCHANGED acked

SendAck(port, number) ==
  /\ SendtoNonblocking
  /\ acked' = IF Transmits THEN acked \cup {<<request, port, number>>} ELSE acked
  /\ UNCHANGED asked

SendNothing == UNCHANGED <<pending, asked, acked>>

(* The controller latches SENDOK or TIMEOUT for the datagram.              *)
DatagramEnds ==
  /\ pending = "flying" /\ pending' = "ended"
  /\ UNCHANGED <<tftpAt, tftpClient, tftpOld, request, asked, acked, tftpNet>>

-----------------------------------------------------------------------------
(* tftp_reg_timeout and tftp_cancel_timeout; the two are also called one   *)
(* after the other.                                                        *)

RegTimeout ==
  /\ resendFlag' = TRUE
  /\ timeCnt' = IF resendFlag THEN timeCnt ELSE 0
  /\ retryCnt' = IF resendFlag THEN retryCnt ELSE 0

(* The timer cancelled and not started again.                              *)
CancelTimeout == resendFlag' = FALSE /\ timeCnt' = 0 /\ retryCnt' = 0

CancelAndRegTimeout == resendFlag' = TRUE /\ timeCnt' = 0 /\ retryCnt' = 0

(* init_tftp, followed by the outcome its caller stores.                   *)
InitTftp(outcome) ==
  /\ tftpState' = "NONE" /\ blockNum' = 0
  /\ serverIp' = FALSE /\ serverPort' = NoPort
  /\ resendFlag' = FALSE /\ timeCnt' = 0 /\ retryCnt' = 0
  /\ progress' = outcome

(* TFTP_read_request, once the earlier transfer is over.                   *)
ReadRequest ==
  /\ tftpAt = "timeout" /\ tftpState = "NONE" /\ request < MaxRequests
  /\ request' = request + 1
  /\ serverIp' = TRUE /\ progress' = "PROGRESS"
  /\ SendRrq
  /\ tftpState' = "RRQ"
  /\ RegTimeout
  /\ stored' = <<>> /\ spoiled' = FALSE
  /\ UNCHANGED <<tftpAt, blockNum, serverPort, leftover, tftpNet>>

(* tftp_timeout_handler, called by the one second timer.                   *)
TftpTick ==
  /\ resendFlag /\ timeCnt < TftpTimeout
  /\ timeCnt' = timeCnt + 1
  /\ UNCHANGED <<tftpAt, tftpState, blockNum, serverIp, serverPort, resendFlag,
                 retryCnt, progress, stored, tftpOld, request, pending, asked,
                 acked, tftpNet>>

-----------------------------------------------------------------------------
(* TFTP_run, its first part: the retransmission timer.                     *)

Expired == resendFlag /\ timeCnt >= TftpTimeout

RunNoTimeout ==
  /\ tftpAt = "timeout" /\ ~Expired
  /\ tftpAt' = "receive"
  /\ UNCHANGED <<tftpClient, tftpOld, request, pending, asked, acked, tftpNet>>

Resend ==
  IF tftpState = "RRQ" THEN SendRrq ELSE SendAck(serverPort, blockNum)

(* One retry more than there are.                                          *)
RunTimeoutLate ==
  /\ tftpAt = "timeout" /\ Expired
  /\ tftpAt' = "receive"
  /\ UNCHANGED request
  /\ Resend
  /\ IF retryCnt + 1 > TftpRetries
       THEN InitTftp("FAIL")
       ELSE /\ timeCnt' = 0 /\ retryCnt' = retryCnt + 1
            /\ UNCHANGED <<tftpState, blockNum, serverIp, serverPort,
                           resendFlag, progress>>
  /\ UNCHANGED <<stored, tftpOld, tftpNet>>

RunTimeout ==
  /\ tftpAt = "timeout" /\ Expired
  /\ tftpAt' = "receive"
  /\ UNCHANGED request
  /\ Resend
  /\ IF retryCnt + 1 >= TftpRetries
       THEN InitTftp("FAIL")
       ELSE /\ timeCnt' = 0 /\ retryCnt' = retryCnt + 1
            /\ UNCHANGED <<tftpState, blockNum, serverIp, serverPort,
                           resendFlag, progress>>
  /\ UNCHANGED <<stored, tftpOld, tftpNet>>

-----------------------------------------------------------------------------
(* TFTP_run, its second part: recv_udp_packet and recv_tftp_packet.        *)

RunReceive == tftpAt = "receive" /\ tftpAt' = "timeout" /\ UNCHANGED request

(* A packet of port p: one of those it has sent, in any order and any      *)
(* number of times.                                                        *)
CanArrive(p, i) ==
  /\ i \in served[p]
  /\ LatePackets \/ servedFor[p] = request

(* Any block taken for the next one; the block counted before the look.    *)
ExpectedAny(number) == TRUE
ExpectedAgain(number) ==
  IF tftpState \in {"RRQ", "OACK"} THEN number = 1 ELSE number = blockNum

(* Is this the block recv_tftp_data waits for?  The comparison is made in  *)
(* int: the last number a uint16_t holds has no successor.                 *)
Expected(number) ==
  IF tftpState \in {"RRQ", "OACK"} THEN number = 1 ELSE number = blockNum + 1

(* What recv_tftp_data does with a block that does not end the transfer:   *)
(* the one it expects is saved, as `block', and whatever came is           *)
(* acknowledged.                                                           *)
TakeBlock(number, block, port) ==
  /\ serverPort' = port
  /\ stored' = IF Expected(number) THEN Append(stored, block) ELSE stored
  /\ IF Expected(number)
       THEN tftpState' = "DATA" /\ blockNum' = number /\ CancelAndRegTimeout
       ELSE RegTimeout /\ UNCHANGED <<tftpState, blockNum>>
  /\ UNCHANGED <<serverIp, progress>>

(* Without a packet recv_udp_packet returns -1, which len, a uint16_t,     *)
(* cannot hold: recv_tftp_packet is called with 65535 octets of the old    *)
(* buffer and with an address and a port that were never written.  They    *)
(* may be the server's, or, before a request, the 0 that g_server_ip then  *)
(* is.  A client that waits for its first answer takes the port, too.      *)
UnwrittenPort ==
  serverPort' \in
    IF tftpState = "RRQ" THEN TftpPorts \cup {NoPort} ELSE {serverPort}

(* The address is not the server's, or there is no packet in the buffer.   *)
NothingArrives ==
  /\ RunReceive
  /\ \/ UNCHANGED serverPort
     \/ leftover = NoPacket /\ UnwrittenPort
  /\ UNCHANGED <<tftpState, blockNum, serverIp, resendFlag, timeCnt, retryCnt,
                 progress, stored, tftpOld, pending, asked, acked, tftpNet>>

(* recv_tftp_oack on an OACK that is still there.                          *)
OldOackAgain ==
  /\ RunReceive
  /\ leftover = Oack /\ serverIp /\ tftpState = "RRQ"
  /\ UnwrittenPort /\ SendAck(serverPort', 0)
  /\ tftpState' = "OACK"
  /\ CancelAndRegTimeout
  /\ UNCHANGED <<blockNum, serverIp, progress, stored, tftpOld, tftpNet>>

(* recv_tftp_data on a block that came between two requests: with 65535    *)
(* octets it is never a short one.  It misleads the transfer unless it is  *)
(* one that this transfer has stored already.                              *)
OldDataAgain ==
  LET number == leftover % BlockModulus IN
  /\ RunReceive
  /\ leftover \in 1 .. FileBlocks /\ serverIp /\ tftpState # "NONE"
  /\ UnwrittenPort /\ SendAck(serverPort', number)
  /\ TakeBlock(number, OldBlock, serverPort')
  /\ leftover' = NoPacket
  /\ spoiled' = (spoiled \/ Expected(number) \/ number > Len(stored))
  /\ UNCHANGED tftpNet

(* The same without a transfer: only the conversion in place is left.      *)
OldDataIdle ==
  /\ RunReceive
  /\ leftover \in 1 .. FileBlocks /\ tftpState = "NONE"
  /\ leftover' = NoPacket
  /\ UNCHANGED <<tftpClient, spoiled, pending, asked, acked, tftpNet>>

(* recv_tftp_error on an error that came between two requests.             *)
OldErrorAgain ==
  /\ RunReceive
  /\ leftover = Error /\ leftover' = NoPacket /\ spoiled' = TRUE
  /\ InitTftp("FAIL")
  /\ UNCHANGED <<stored, pending, asked, acked, tftpNet>>

(* A packet nothing is done with: no transfer, or an OACK out of place.    *)
(* It stays in the buffer as it came.                                      *)
RecvIgnored(p, i) ==
  /\ RunReceive /\ CanArrive(p, i)
  /\ \/ tftpState = "NONE"
     \/ i = Oack /\ tftpState # "RRQ"
  /\ leftover' = i
  /\ UNCHANGED <<tftpClient, spoiled, pending, asked, acked, tftpNet>>

RecvOack(p) ==
  /\ RunReceive /\ CanArrive(p, Oack)
  /\ serverIp /\ tftpState = "RRQ"
  /\ serverPort' = p
  /\ tftpState' = "OACK"
  /\ CancelAndRegTimeout
  /\ SendAck(p, 0)
  /\ leftover' = Oack
  /\ UNCHANGED <<blockNum, serverIp, progress, stored, spoiled, tftpNet>>

RecvError(p) ==
  /\ RunReceive /\ CanArrive(p, Error)
  /\ serverIp
  /\ InitTftp("FAIL")
  /\ leftover' = NoPacket
  /\ UNCHANGED <<stored, spoiled, pending, asked, acked, tftpNet>>

(* recv_tftp_data on a packet that has come; a short one ends the          *)
(* transfer.                                                               *)
RecvData(p, i) ==
  LET number == i % BlockModulus
      port   == IF tftpState = "RRQ" THEN p ELSE serverPort
  IN
  /\ RunReceive /\ CanArrive(p, i) /\ i \in 1 .. FileBlocks
  /\ serverIp /\ tftpState # "NONE"
  /\ SendAck(port, number)
  /\ IF i = FileBlocks
       THEN /\ stored' = IF Expected(number) THEN Append(stored, i) ELSE stored
            /\ InitTftp("SUCCESS")
       ELSE TakeBlock(number, i, port)
  /\ leftover' = NoPacket
  /\ UNCHANGED <<spoiled, tftpNet>>

-----------------------------------------------------------------------------
(* The server: each copy of a request that arrives is answered from a port *)
(* of its own, with an OACK, with the first block or with an error; each   *)
(* acknowledgement of the newest block brings the next one.                *)

ServerAnswers(p) ==
  /\ servedFor[p] = 0
  /\ \E r \in asked, first \in {Oack, Error, 1} :
       /\ servedFor' = [servedFor EXCEPT ![p] = r]
       /\ served' = [served EXCEPT ![p] = {first}]
  /\ UNCHANGED <<tftpAt, tftpClient, tftpOld, request, pending, asked, acked>>

ServerContinues(p) ==
  /\ \E i \in served[p] \cap (Oack .. FileBlocks - 1) :
       /\ i + 1 \notin served[p]
       /\ \E r \in 1 .. MaxRequests :
            /\ <<r, p, i % BlockModulus>> \in acked
            /\ LatePackets \/ r = servedFor[p]
       /\ served' = [served EXCEPT ![p] = @ \cup {i + 1}]
  /\ UNCHANGED <<tftpAt, tftpClient, tftpOld, request, pending, asked, acked,
                 servedFor>>

-----------------------------------------------------------------------------
RecvPacket ==
  \E p \in TftpPorts :
    \/ RecvOack(p) \/ RecvError(p)
    \/ \E i \in Error .. FileBlocks : RecvIgnored(p, i) \/ RecvData(p, i)

TftpRunStep ==
  \/ RunNoTimeout \/ RunTimeout \/ NothingArrives \/ RecvPacket
  \/ OldOackAgain \/ OldDataAgain \/ OldDataIdle \/ OldErrorAgain

TftpNext ==
  \/ ReadRequest \/ TftpTick \/ TftpRunStep \/ DatagramEnds
  \/ \E p \in TftpPorts : ServerAnswers(p) \/ ServerContinues(p)

TftpFairness ==
  /\ WF_tftpVars(TftpRunStep) /\ WF_tftpVars(TftpTick)

TftpSpec == TftpInit /\ [][TftpNext]_tftpVars /\ TftpFairness

-----------------------------------------------------------------------------
(* What the client promises: FileTransfer, whatever the network does, as   *)
(* long as block numbers do not wrap and no packet of an earlier request   *)
(* is still under way (ReadRequest, RecvData, RecvError, RunTimeout); and  *)
(* what an old packet in the buffer can still do to it (OldDataAgain,      *)
(* OldErrorAgain).                                                         *)
Transfer == INSTANCE FileTransfer
  WITH file    <- stored,
       outcome <- CASE progress = "SUCCESS" -> "success"
                    [] progress = "FAIL" -> "fail"
                    [] OTHER -> IF tftpState = "NONE" THEN "idle" ELSE "progress"

TransferImplemented == Transfer!Spec

(* Nothing is acknowledged that is not stored: the server throws a block   *)
(* away when its acknowledgement arrives (send_tftp_ack in                 *)
(* recv_tftp_data).  Except after a block or an error that came between    *)
(* two requests was parsed again, which the first request cannot meet.     *)
AckedIsStored ==
  /\ ~spoiled => \A a \in acked : a[1] = request => a[3] <= Len(stored)
  /\ spoiled /\ tftpState # "NONE" => request > 1

(* A transfer ends, well or badly, even if nothing ever arrives: the       *)
(* retransmission timer is never left unarmed (tftp_reg_timeout).          *)
TransferEnds == (tftpState # "NONE") ~> (tftpState = "NONE")

(* What sendto is told to be, "The real sent data size": a success whose   *)
(* last acknowledgement was handed to the socket has put it on the wire.   *)
LastBlockAcked ==
  progress = "SUCCESS" =>
    \E p \in TftpPorts : <<request, p, FileBlocks % BlockModulus>> \in acked
=============================================================================
