---------------------------- MODULE ClientProofs ----------------------------
(***************************************************************************)
(* The two clients that retransmit by a timer, for any number of servers   *)
(* and any wait and retry count.                                           *)
(*                                                                         *)
(* TftpClient implements FileTransfer, whatever the network loses, repeats *)
(* or reorders.  A server sends block i + 1 only when block i has been     *)
(* acknowledged, the client acknowledges only what it has stored, and so   *)
(* no block can come that is further ahead than the next one (ServedInv,   *)
(* AckedIsStored).  A block is then stored exactly when it is the next,    *)
(* and the short one that ends the transfer is the next one when it comes. *)
(* All of that is for a transfer that no old packet has misled: one that   *)
(* came while there was no transfer stays in the buffer, and the next      *)
(* transfer may find it there (LeftInv).                                   *)
(*                                                                         *)
(* The address a DhcpClient uses was acknowledged by the server it chose,  *)
(* and is used only while that server holds it for the client.  The second *)
(* is a matter of time.  An acknowledgement is as old as the request it    *)
(* answers at most, and a request is given up when its retries are used    *)
(* (GrantIsYoung, RequestAge).  What is left of that age when the lease    *)
(* begins, and again when it is renewed, is what the second half of the    *)
(* lease has to cover.                                                     *)
(***************************************************************************)
EXTENDS TftpClient, DhcpClient, TLAPS

(* What the promise depends on: block numbers do not wrap, and nothing of  *)
(* an earlier request is still under way.                                  *)
Undisturbed == FileBlocks < BlockModulus /\ ~LatePackets

StateInv ==
  /\ tftpState = "NONE" => ~resendFlag /\ ~serverIp /\ blockNum = 0
  /\ tftpState # "NONE" => progress = "PROGRESS" /\ request >= 1

PlaceInv ==
  ~spoiled =>
    /\ tftpState # "NONE" => Len(stored) < FileBlocks
    /\ tftpState \in {"RRQ", "OACK"} => Len(stored) = 0 /\ blockNum = 0
    /\ tftpState = "DATA" => blockNum = Len(stored)

AckedInv == \A a \in acked : a[1] <= request

ServedInv ==
  \A p \in TftpPorts : \A i \in served[p] :
    /\ 1 <= servedFor[p] /\ servedFor[p] <= request
    /\ ~spoiled /\ servedFor[p] = request => i <= Len(stored) + 1

AskedInv == \A r \in asked : r <= request

(* A block or an error that is left in the buffer came when there was no   *)
(* transfer: the first request finds none.                                 *)
LeftInv ==
  leftover \notin {NoPacket, Oack} =>
    request >= 1 /\ (tftpState # "NONE" => request >= 2)

TftpInv ==
  /\ TftpTypeOK /\ StateInv /\ PlaceInv /\ LeftInv
  /\ AckedInv /\ AckedIsStored /\ ServedInv /\ AskedInv

(* What the transfer's caller sees.                                        *)
Outcome ==
  CASE progress = "SUCCESS" -> "success"
    [] progress = "FAIL" -> "fail"
    [] OTHER -> IF tftpState = "NONE" THEN "idle" ELSE "progress"

-----------------------------------------------------------------------------
(* What the sending helpers and the timer do.                              *)
LEMMA SendAckAdds ==
  ASSUME NEW port, NEW number, SendAck(port, number), TftpTypeOK
  PROVE  /\ pending' \in {"none", "flying", "ended"} /\ asked' = asked
         /\ acked' \subseteq acked \cup {<<request, port, number>>}
BY DEF SendAck, SendtoNonblocking, Transmits, TftpTypeOK

LEMMA SendRrqAdds ==
  ASSUME SendRrq, TftpTypeOK
  PROVE  /\ pending' \in {"none", "flying", "ended"} /\ acked' = acked
         /\ asked' \subseteq asked \cup {request'}
BY DEF SendRrq, SendtoNonblocking, Transmits, TftpTypeOK

LEMMA TimersTyped ==
  ASSUME TftpTypeOK, RegTimeout \/ CancelAndRegTimeout \/ CancelTimeout
  PROVE  /\ resendFlag' \in BOOLEAN /\ timeCnt' \in 0 .. TftpTimeout
         /\ retryCnt' \in 0 .. TftpRetries - 1
<1>1. 0 \in 0 .. TftpTimeout /\ 0 \in 0 .. TftpRetries - 1
  BY TftpAssumption
<1>2. timeCnt \in 0 .. TftpTimeout /\ retryCnt \in 0 .. TftpRetries - 1
  BY DEF TftpTypeOK
<1>3. CASE RegTimeout
  BY <1>1, <1>2, <1>3 DEF RegTimeout
<1>4. CASE CancelAndRegTimeout
  BY <1>1, <1>4 DEF CancelAndRegTimeout
<1>5. CASE CancelTimeout
  BY <1>1, <1>5 DEF CancelTimeout
<1> QED BY <1>3, <1>4, <1>5

LEMMA InitTftpTyped ==
  ASSUME NEW outcome \in {"PROGRESS", "FAIL", "SUCCESS"}, InitTftp(outcome)
  PROVE  /\ tftpState' \in TftpStates /\ blockNum' \in 0 .. BlockModulus - 1
         /\ serverIp' \in BOOLEAN /\ serverPort' \in TftpPorts \cup {NoPort}
         /\ resendFlag' \in BOOLEAN /\ timeCnt' \in 0 .. TftpTimeout
         /\ retryCnt' \in 0 .. TftpRetries - 1
         /\ progress' \in {"PROGRESS", "FAIL", "SUCCESS"}
<1>1. /\ 0 \in 0 .. TftpTimeout /\ 0 \in 0 .. TftpRetries - 1
      /\ 0 \in 0 .. BlockModulus - 1
  BY TftpAssumption
<1>2. tftpState' \in TftpStates /\ serverPort' \in TftpPorts \cup {NoPort}
  BY DEF InitTftp, TftpStates
<1>3. serverIp' \in BOOLEAN /\ resendFlag' \in BOOLEAN
  BY DEF InitTftp
<1>4. /\ blockNum' = 0 /\ timeCnt' = 0 /\ retryCnt' = 0 /\ progress' = outcome
  BY DEF InitTftp
<1> QED BY <1>1, <1>2, <1>3, <1>4

-----------------------------------------------------------------------------
(* The types, whatever the block numbers and the network do: a request is  *)
(* under way whenever something is sent.                                   *)
WasRequested == tftpState # "NONE" \/ resendFlag => request >= 1
TftpTypes == TftpTypeOK /\ WasRequested

LEMMA TftpTypesInit == TftpInit => TftpTypes
<1> SUFFICES ASSUME TftpInit PROVE TftpTypes
  OBVIOUS
<1>1. /\ 0 \in 0 .. TftpTimeout /\ 0 \in 0 .. TftpRetries - 1
      /\ 0 \in 0 .. BlockModulus - 1 /\ 0 \in 0 .. MaxRequests
  BY TftpAssumption
<1>2. /\ servedFor \in [TftpPorts -> 0 .. MaxRequests]
      /\ served \in [TftpPorts -> SUBSET (Error .. FileBlocks)]
  BY <1>1 DEF TftpInit
<1>3. /\ serverIp \in BOOLEAN /\ resendFlag \in BOOLEAN /\ spoiled \in BOOLEAN
      /\ leftover = NoPacket /\ NoPacket \in NoPacket .. FileBlocks
  <2>1. NoPacket \in NoPacket .. FileBlocks
    BY TftpAssumption DEF NoPacket
  <2> QED BY <2>1 DEF TftpInit
<1>4. stored \in Seq(OldBlock .. FileBlocks)
  BY DEF TftpInit
<1>5. TftpTypeOK
  BY <1>1, <1>2, <1>3, <1>4 DEF TftpInit, TftpTypeOK, TftpStates
<1> QED BY <1>5 DEF TftpInit, TftpTypes, WasRequested

(* An acknowledgement is sent for a request, and names a port and a block. *)
LEMMA AcksTyped ==
  ASSUME TftpTypes, request >= 1, NEW port \in TftpPorts \cup {NoPort},
         NEW number \in 0 .. BlockModulus - 1, SendAck(port, number)
  PROVE  /\ pending' \in {"none", "flying", "ended"} /\ asked' = asked
         /\ acked' \subseteq (1 .. MaxRequests) \X (TftpPorts \cup {NoPort})
                               \X (0 .. BlockModulus - 1)
<1>1. TftpTypeOK /\ request \in 1 .. MaxRequests
  BY TftpAssumption DEF TftpTypes, TftpTypeOK
<1>2. /\ pending' \in {"none", "flying", "ended"} /\ asked' = asked
      /\ acked' \subseteq acked \cup {<<request, port, number>>}
  BY <1>1, SendAckAdds
<1> QED BY <1>1, <1>2 DEF TftpTypeOK

(* What recv_tftp_data does with a block keeps the types.                  *)
LEMMA TakeBlockTyped ==
  ASSUME TftpTypeOK, NEW number \in 0 .. BlockModulus - 1,
         NEW block \in OldBlock .. FileBlocks,
         NEW port \in TftpPorts \cup {NoPort}, TakeBlock(number, block, port)
  PROVE  /\ stored' \in Seq(OldBlock .. FileBlocks)
         /\ tftpState' \in TftpStates /\ blockNum' \in 0 .. BlockModulus - 1
         /\ serverIp' \in BOOLEAN /\ serverPort' \in TftpPorts \cup {NoPort}
         /\ resendFlag' \in BOOLEAN /\ timeCnt' \in 0 .. TftpTimeout
         /\ retryCnt' \in 0 .. TftpRetries - 1
         /\ progress' \in {"PROGRESS", "FAIL", "SUCCESS"}
<1>1. stored \in Seq(OldBlock .. FileBlocks)
  BY DEF TftpTypeOK
<1>2. stored' \in Seq(OldBlock .. FileBlocks)
  <2>1. CASE stored' = Append(stored, block)
    BY <1>1, <2>1
  <2> QED BY <1>1, <2>1 DEF TakeBlock
<1>3. CancelAndRegTimeout \/ RegTimeout
  BY DEF TakeBlock
<1>4. /\ resendFlag' \in BOOLEAN /\ timeCnt' \in 0 .. TftpTimeout
      /\ retryCnt' \in 0 .. TftpRetries - 1
  BY <1>3, TimersTyped
<1>5. /\ tftpState' \in TftpStates /\ blockNum' \in 0 .. BlockModulus - 1
      /\ serverIp' \in BOOLEAN /\ serverPort' \in TftpPorts \cup {NoPort}
      /\ progress' \in {"PROGRESS", "FAIL", "SUCCESS"}
  BY DEF TakeBlock, TftpTypeOK, TftpStates
<1> QED BY <1>2, <1>4, <1>5

LEMMA TftpTypesStep == TftpTypes /\ [TftpNext]_tftpVars => TftpTypes'
<1> SUFFICES ASSUME TftpTypes, [TftpNext]_tftpVars PROVE TftpTypes'
  OBVIOUS
<1>t. /\ TftpTypeOK /\ WasRequested
      /\ request >= 1 => request \in 1 .. MaxRequests
  BY TftpAssumption DEF TftpTypes, TftpTypeOK
<1>1. CASE ReadRequest
  <2>1. /\ request < MaxRequests /\ request' = request + 1
        /\ serverIp' = TRUE /\ progress' = "PROGRESS" /\ tftpState' = "RRQ"
        /\ stored' = <<>> /\ spoiled' = FALSE /\ SendRrq /\ RegTimeout
        /\ UNCHANGED <<tftpAt, blockNum, serverPort, leftover, servedFor, served>>
    BY <1>1 DEF ReadRequest, tftpNet
  <2>2. /\ pending' \in {"none", "flying", "ended"} /\ acked' = acked
        /\ asked' \subseteq asked \cup {request'}
    BY <1>t, <2>1, SendRrqAdds
  <2>3. request' \in 1 .. MaxRequests
    BY <1>t, <2>1, TftpAssumption DEF TftpTypeOK
  <2>4. /\ resendFlag' \in BOOLEAN /\ timeCnt' \in 0 .. TftpTimeout
        /\ retryCnt' \in 0 .. TftpRetries - 1
    BY <1>t, <2>1, TimersTyped
  <2>5. /\ stored' \in Seq(OldBlock .. FileBlocks) /\ asked' \subseteq 1 .. MaxRequests
        /\ request' \in 0 .. MaxRequests /\ request' >= 1
    BY <1>t, <2>1, <2>2, <2>3, TftpAssumption DEF TftpTypeOK
  <2>6. /\ tftpState' \in TftpStates /\ progress' \in {"PROGRESS", "FAIL", "SUCCESS"}
        /\ spoiled' \in BOOLEAN /\ serverIp' \in BOOLEAN
    BY <2>1 DEF TftpStates
  <2> QED BY <1>t, <2>1, <2>2, <2>4, <2>5, <2>6
          DEF TftpTypes, WasRequested, TftpTypeOK
<1>2. CASE TftpTick
  <2>1. /\ timeCnt < TftpTimeout /\ timeCnt' = timeCnt + 1
        /\ UNCHANGED <<tftpAt, tftpState, blockNum, serverIp, serverPort,
                       resendFlag, retryCnt, progress, stored, leftover, spoiled, request,
                       pending, asked, acked, servedFor, served>>
    BY <1>2 DEF TftpTick, tftpNet, tftpOld
  <2> QED BY <1>t, <2>1, TftpAssumption DEF TftpTypes, WasRequested, TftpTypeOK
<1>3. CASE RunNoTimeout
  <2>1. /\ tftpAt' = "receive"
        /\ UNCHANGED <<tftpState, blockNum, serverIp, serverPort, resendFlag,
                       timeCnt, retryCnt, progress, stored, leftover, spoiled, request,
                       pending, asked, acked, servedFor, served>>
    BY <1>3 DEF RunNoTimeout, tftpClient, tftpNet, tftpOld
  <2> QED BY <1>t, <2>1 DEF TftpTypes, WasRequested, TftpTypeOK
<1>4. CASE RunTimeout
  <2>1. /\ resendFlag /\ tftpAt' = "receive" /\ request' = request /\ Resend
        /\ UNCHANGED <<stored, leftover, spoiled, servedFor, served>>
    BY <1>4 DEF RunTimeout, Expired, tftpNet, tftpOld
  <2>2. request \in 1 .. MaxRequests /\ request >= 1
    BY <1>t, <2>1 DEF WasRequested
  <2>3. /\ pending' \in {"none", "flying", "ended"}
        /\ asked' \subseteq asked \cup {request}
        /\ acked' \subseteq (1 .. MaxRequests) \X (TftpPorts \cup {NoPort})
                              \X (0 .. BlockModulus - 1)
    <3>1. CASE tftpState = "RRQ"
      BY <1>t, <2>1, <3>1, SendRrqAdds DEF Resend, TftpTypeOK
    <3>2. CASE tftpState # "RRQ"
      <4>1. /\ SendAck(serverPort, blockNum) /\ blockNum \in 0 .. BlockModulus - 1
            /\ serverPort \in TftpPorts \cup {NoPort}
        BY <1>t, <2>1, <3>2 DEF Resend, TftpTypeOK
      <4> QED BY <2>2, <4>1, AcksTyped
    <3> QED BY <3>1, <3>2
  <2>4. \/ InitTftp("FAIL")
        \/ /\ timeCnt' = 0 /\ retryCnt' = retryCnt + 1
           /\ ~(retryCnt + 1 >= TftpRetries)
           /\ UNCHANGED <<tftpState, blockNum, serverIp, serverPort, resendFlag,
                          progress>>
    BY <1>4 DEF RunTimeout
  <2>5. /\ tftpState' \in TftpStates /\ blockNum' \in 0 .. BlockModulus - 1
        /\ serverIp' \in BOOLEAN /\ serverPort' \in TftpPorts \cup {NoPort}
        /\ resendFlag' \in BOOLEAN
        /\ progress' \in {"PROGRESS", "FAIL", "SUCCESS"}
    BY <1>t, <2>4, InitTftpTyped DEF TftpTypeOK
  <2>6. timeCnt' \in 0 .. TftpTimeout /\ retryCnt' \in 0 .. TftpRetries - 1
    BY <1>t, <2>4, InitTftpTyped, TftpAssumption DEF TftpTypeOK
  <2>7. TftpTypeOK'
    BY <1>t, <2>1, <2>2, <2>3, <2>5, <2>6 DEF TftpTypeOK
  <2> QED BY <2>1, <2>2, <2>7 DEF TftpTypes, WasRequested
<1>5. CASE NothingArrives
  <2>1. /\ tftpAt' = "timeout" /\ request' = request
        /\ serverPort' \in TftpPorts \cup {NoPort, serverPort}
        /\ UNCHANGED <<tftpState, blockNum, serverIp, resendFlag, timeCnt,
                       retryCnt, progress, stored, leftover, spoiled, pending, asked,
                       acked, servedFor, served>>
    BY <1>5 DEF NothingArrives, RunReceive, UnwrittenPort, tftpNet, tftpOld
  <2> QED BY <1>t, <2>1 DEF TftpTypes, WasRequested, TftpTypeOK
<1>6. ASSUME NEW port \in TftpPorts \cup {NoPort}, tftpState = "RRQ",
             tftpAt' = "timeout", request' = request, serverPort' = port,
             SendAck(port, 0), tftpState' = "OACK", CancelAndRegTimeout,
             leftover' \in NoPacket .. FileBlocks, spoiled' \in BOOLEAN,
             UNCHANGED <<blockNum, serverIp, progress, stored, servedFor, served>>
      PROVE  TftpTypes'
  <2>1. request >= 1 /\ 0 \in 0 .. BlockModulus - 1
    BY <1>t, <1>6, TftpAssumption DEF WasRequested
  <2>2. /\ pending' \in {"none", "flying", "ended"} /\ asked' = asked
        /\ acked' \subseteq (1 .. MaxRequests) \X (TftpPorts \cup {NoPort})
                              \X (0 .. BlockModulus - 1)
    BY <1>6, <2>1, AcksTyped
  <2>3. /\ resendFlag' \in BOOLEAN /\ timeCnt' \in 0 .. TftpTimeout
        /\ retryCnt' \in 0 .. TftpRetries - 1
    BY <1>t, <1>6, TimersTyped
  <2> QED BY <1>t, <1>6, <2>1, <2>2, <2>3
          DEF TftpTypes, WasRequested, TftpTypeOK, TftpStates
<1>7. CASE OldOackAgain
  <2>1. /\ tftpState = "RRQ" /\ tftpAt' = "timeout"
        /\ serverPort' \in TftpPorts \cup {NoPort} /\ SendAck(serverPort', 0)
        /\ request' = request /\ tftpState' = "OACK" /\ CancelAndRegTimeout
        /\ UNCHANGED <<blockNum, serverIp, progress, stored, leftover, spoiled,
                       servedFor, served>>
    BY <1>7 DEF OldOackAgain, RunReceive, UnwrittenPort, tftpNet, tftpOld
  <2>2. leftover' \in NoPacket .. FileBlocks /\ spoiled' \in BOOLEAN
    BY <1>t, <2>1 DEF TftpTypeOK
  <2> QED BY <1>6, <2>1, <2>2
<1>8. ASSUME NEW p \in TftpPorts, RecvOack(p) PROVE TftpTypes'
  <2>1. /\ tftpState = "RRQ" /\ tftpAt' = "timeout"
        /\ request' = request /\ serverPort' = p /\ SendAck(p, 0)
        /\ tftpState' = "OACK" /\ CancelAndRegTimeout /\ leftover' = Oack
        /\ UNCHANGED <<blockNum, serverIp, progress, stored, spoiled, servedFor,
                       served>>
    BY <1>8 DEF RecvOack, RunReceive, tftpNet
  <2>2. leftover' \in NoPacket .. FileBlocks /\ spoiled' \in BOOLEAN
    BY <1>t, <2>1, TftpAssumption DEF TftpTypeOK, NoPacket, Oack
  <2> QED BY <1>6, <2>1, <2>2
<1>9. ASSUME tftpAt' = "timeout", request' = request, InitTftp("FAIL"),
             leftover' = NoPacket, spoiled' \in BOOLEAN,
             UNCHANGED <<stored, pending, asked, acked, servedFor, served>>
      PROVE  TftpTypes'
  <2>1. NoPacket \in NoPacket .. FileBlocks
    BY TftpAssumption DEF NoPacket
  <2>2. TftpTypeOK'
    BY <1>t, <1>9, <2>1, InitTftpTyped DEF TftpTypeOK
  <2> QED BY <1>9, <2>2 DEF TftpTypes, WasRequested, InitTftp
<1>10. ASSUME tftpAt' = "timeout", request' = request,
              leftover' \in NoPacket .. FileBlocks,
              UNCHANGED <<tftpState, blockNum, serverIp, serverPort, resendFlag,
                          timeCnt, retryCnt, progress, stored, spoiled, pending,
                          asked, acked, servedFor, served>>
       PROVE  TftpTypes'
  BY <1>t, <1>10 DEF TftpTypes, WasRequested, TftpTypeOK
<1>11. ASSUME NEW number \in 0 .. BlockModulus - 1,
              NEW block \in OldBlock .. FileBlocks,
              NEW port \in TftpPorts \cup {NoPort},
              tftpState # "NONE", tftpAt' = "timeout", request' = request,
              SendAck(port, number), TakeBlock(number, block, port),
              leftover' = NoPacket, spoiled' \in BOOLEAN,
              UNCHANGED <<servedFor, served>>
       PROVE  TftpTypes'
  <2>1. request >= 1 /\ NoPacket \in NoPacket .. FileBlocks
    BY <1>t, <1>11, TftpAssumption DEF WasRequested, NoPacket
  <2>2. /\ pending' \in {"none", "flying", "ended"} /\ asked' = asked
        /\ acked' \subseteq (1 .. MaxRequests) \X (TftpPorts \cup {NoPort})
                              \X (0 .. BlockModulus - 1)
    BY <1>11, <2>1, AcksTyped
  <2>3. TftpTypeOK'
    BY <1>t, <1>11, <2>1, <2>2, TakeBlockTyped DEF TftpTypeOK
  <2> QED BY <1>11, <2>1, <2>3 DEF TftpTypes, WasRequested
<1>17. ASSUME NEW p \in TftpPorts, RecvError(p) PROVE TftpTypes'
  <2>1. spoiled' \in BOOLEAN
    BY <1>t, <1>17 DEF RecvError, TftpTypeOK
  <2> QED BY <1>9, <1>17, <2>1 DEF RecvError, RunReceive, tftpNet
<1>18. CASE OldErrorAgain
  BY <1>9, <1>18 DEF OldErrorAgain, RunReceive, tftpNet
<1>19. ASSUME NEW p \in TftpPorts, NEW i \in Error .. FileBlocks, RecvIgnored(p, i)
       PROVE  TftpTypes'
  <2>1. leftover' \in NoPacket .. FileBlocks
    BY <1>19, TftpAssumption DEF RecvIgnored, NoPacket, Error
  <2> QED BY <1>10, <1>19, <2>1 DEF RecvIgnored, RunReceive, tftpClient, tftpNet
<1>20. CASE OldDataIdle
  <2>1. leftover' \in NoPacket .. FileBlocks
    BY <1>20, TftpAssumption DEF OldDataIdle, NoPacket
  <2> QED BY <1>10, <1>20, <2>1 DEF OldDataIdle, RunReceive, tftpClient, tftpNet
<1>21. ASSUME NEW p \in TftpPorts, NEW i \in Error .. FileBlocks, RecvData(p, i)
       PROVE  TftpTypes'
  <2> DEFINE port   == IF tftpState = "RRQ" THEN p ELSE serverPort
             number == i % BlockModulus
  <2>1. /\ i \in 1 .. FileBlocks /\ i \in OldBlock .. FileBlocks
        /\ tftpState # "NONE" /\ request >= 1
    BY <1>t, <1>21 DEF RecvData, WasRequested, OldBlock
  <2>2. /\ tftpAt' = "timeout" /\ request' = request /\ leftover' = NoPacket
        /\ SendAck(port, number) /\ UNCHANGED <<spoiled, servedFor, served>>
        /\ \/ InitTftp("SUCCESS") /\ stored' \in {Append(stored, i), stored}
           \/ TakeBlock(number, i, port)
    BY <1>21 DEF RecvData, RunReceive, tftpNet
  <2>3. number \in 0 .. BlockModulus - 1
    BY <2>1, TftpAssumption
  <2>4. port \in TftpPorts \cup {NoPort} /\ spoiled' \in BOOLEAN
    BY <1>t, <2>2 DEF TftpTypeOK
  <2> HIDE DEF port, number
  <2>5. CASE InitTftp("SUCCESS") /\ stored' \in {Append(stored, i), stored}
    <3>1. /\ pending' \in {"none", "flying", "ended"} /\ asked' = asked
          /\ acked' \subseteq (1 .. MaxRequests) \X (TftpPorts \cup {NoPort})
                                \X (0 .. BlockModulus - 1)
      BY <2>1, <2>2, <2>3, <2>4, AcksTyped
    <3>2. stored' \in Seq(OldBlock .. FileBlocks)
      <4>1. stored \in Seq(OldBlock .. FileBlocks)
        BY <1>t DEF TftpTypeOK
      <4>2. CASE stored' = Append(stored, i)
        BY <2>1, <4>1, <4>2
      <4> QED BY <2>5, <4>1, <4>2
    <3>3. NoPacket \in NoPacket .. FileBlocks
      BY TftpAssumption DEF NoPacket
    <3>4. TftpTypeOK'
      BY <1>t, <2>2, <2>4, <2>5, <3>1, <3>2, <3>3, InitTftpTyped DEF TftpTypeOK
    <3> QED BY <2>1, <2>2, <3>4 DEF TftpTypes, WasRequested
  <2>6. CASE TakeBlock(number, i, port)
    BY <1>11, <2>1, <2>2, <2>3, <2>4, <2>6
  <2> QED BY <2>2, <2>5, <2>6
<1>22. CASE OldDataAgain
  <2>1. /\ leftover \in 1 .. FileBlocks /\ tftpState # "NONE"
        /\ tftpAt' = "timeout" /\ request' = request /\ leftover' = NoPacket
        /\ SendAck(serverPort', leftover % BlockModulus)
        /\ TakeBlock(leftover % BlockModulus, OldBlock, serverPort')
        /\ UNCHANGED <<servedFor, served>>
    BY <1>22 DEF OldDataAgain, RunReceive, tftpNet
  <2>2. /\ leftover % BlockModulus \in 0 .. BlockModulus - 1
        /\ OldBlock \in OldBlock .. FileBlocks
    BY <2>1, TftpAssumption DEF OldBlock
  <2>3. serverPort' \in TftpPorts \cup {NoPort}
    BY <1>t, <1>22 DEF OldDataAgain, UnwrittenPort, TftpTypeOK
  <2>4. spoiled' \in BOOLEAN
    BY <1>22 DEF OldDataAgain
  <2> QED BY <1>11, <2>1, <2>2, <2>3, <2>4
<1>12. CASE DatagramEnds
  <2>1. /\ pending' = "ended"
        /\ UNCHANGED <<tftpAt, tftpState, blockNum, serverIp, serverPort,
                       resendFlag, timeCnt, retryCnt, progress, stored, leftover, spoiled,
                       request, asked, acked, servedFor, served>>
    BY <1>12 DEF DatagramEnds, tftpClient, tftpNet, tftpOld
  <2> QED BY <1>t, <2>1 DEF TftpTypes, WasRequested, TftpTypeOK
<1>13. ASSUME NEW p \in TftpPorts, ServerAnswers(p) PROVE TftpTypes'
  <2>1. PICK r \in asked, first \in {Oack, Error, 1} :
          /\ servedFor' = [servedFor EXCEPT ![p] = r]
          /\ served' = [served EXCEPT ![p] = {first}]
    BY <1>13 DEF ServerAnswers
  <2>2. UNCHANGED <<tftpAt, tftpState, blockNum, serverIp, serverPort, resendFlag,
                    timeCnt, retryCnt, progress, stored, leftover, spoiled, request,
                    pending, asked, acked>>
    BY <1>13 DEF ServerAnswers, tftpClient, tftpOld
  <2>3. r \in 1 .. MaxRequests /\ first \in Error .. FileBlocks
    BY <1>t, TftpAssumption DEF TftpTypeOK, Oack, Error
  <2> QED BY <1>t, <2>1, <2>2, <2>3 DEF TftpTypes, WasRequested, TftpTypeOK
<1>14. ASSUME NEW p \in TftpPorts, ServerContinues(p) PROVE TftpTypes'
  <2>1. PICK i \in served[p] \cap (Oack .. FileBlocks - 1) :
          served' = [served EXCEPT ![p] = @ \cup {i + 1}]
    BY <1>14 DEF ServerContinues
  <2>2. UNCHANGED <<tftpAt, tftpState, blockNum, serverIp, serverPort, resendFlag,
                    timeCnt, retryCnt, progress, stored, leftover, spoiled, request,
                    pending, asked, acked, servedFor>>
    BY <1>14 DEF ServerContinues, tftpClient, tftpOld
  <2>3. i + 1 \in Error .. FileBlocks
    BY TftpAssumption DEF Oack, Error
  <2> QED BY <1>t, <2>1, <2>2, <2>3 DEF TftpTypes, WasRequested, TftpTypeOK
<1>15. CASE UNCHANGED tftpVars
  BY <1>15, <1>t
     DEF tftpVars, tftpClient, tftpNet, tftpOld, TftpTypes, WasRequested, TftpTypeOK
<1>16. CASE TftpRunStep
  BY <1>3, <1>4, <1>5, <1>7, <1>8, <1>16, <1>17, <1>18, <1>19, <1>20, <1>21, <1>22
     DEF TftpRunStep, RecvPacket
<1> QED
  BY <1>1, <1>2, <1>12, <1>13, <1>14, <1>15, <1>16 DEF TftpNext

-----------------------------------------------------------------------------
LEMMA NoWrap ==
  ASSUME Undisturbed, NEW i \in 0 .. FileBlocks
  PROVE  i % BlockModulus = i
<1>1. i \in Nat /\ i < BlockModulus /\ BlockModulus \in Nat \ {0}
  BY TftpAssumption DEF Undisturbed
<1> QED BY <1>1

(* A block that can arrive is at most the next one, and is stored when it  *)
(* is the next one and only then.                                          *)
LEMMA ArrivesInOrder ==
  ASSUME Undisturbed, TftpInv, NEW p \in TftpPorts, NEW i \in 1 .. FileBlocks,
         CanArrive(p, i), tftpState # "NONE", ~spoiled
  PROVE  /\ i % BlockModulus = i /\ i <= Len(stored) + 1
         /\ Len(stored) \in Nat /\ Len(stored) < FileBlocks
         /\ Expected(i % BlockModulus) <=> i = Len(stored) + 1
<1>1. i % BlockModulus = i
  BY NoWrap, TftpAssumption
<1>2. Len(stored) \in Nat /\ Len(stored) < FileBlocks
  BY DEF TftpInv, TftpTypeOK, PlaceInv
<1>3. i <= Len(stored) + 1
  BY DEF CanArrive, Undisturbed, TftpInv, ServedInv
<1>4. Expected(i) <=> i = Len(stored) + 1
  BY <1>2 DEF Expected, TftpInv, TftpTypeOK, PlaceInv, TftpStates
<1> QED BY <1>1, <1>2, <1>3, <1>4

-----------------------------------------------------------------------------
LEMMA TftpInvInit == TftpInit => TftpInv
BY TftpTypesInit
   DEF TftpInit, TftpTypes, TftpInv, StateInv, PlaceInv, LeftInv, AckedInv,
       AckedIsStored, ServedInv, AskedInv

(* The parts of the invariant that are about acknowledgements.             *)
LEMMA AcksKept ==
  ASSUME TftpInv, request' = request, NEW port, NEW number,
         acked' \subseteq acked \cup {<<request, port, number>>},
         ~spoiled' => /\ ~spoiled /\ number <= Len(stored')
                      /\ Len(stored) <= Len(stored'),
         spoiled' /\ tftpState' # "NONE" => request > 1,
         Len(stored) \in Nat, Len(stored') \in Nat, number \in Nat
  PROVE  AckedInv' /\ AckedIsStored'
<1> SUFFICES ASSUME NEW a \in acked'
             PROVE  /\ a[1] <= request
                    /\ ~spoiled' /\ a[1] = request => a[3] <= Len(stored')
  BY DEF AckedInv, AckedIsStored
<1>1. CASE a \in acked
  <2>1. a[3] \in Int
    BY <1>1 DEF TftpInv, TftpTypeOK
  <2>2. a[1] <= request
    BY <1>1 DEF TftpInv, AckedInv
  <2>3. ~spoiled' /\ a[1] = request => a[3] <= Len(stored)
    BY <1>1 DEF TftpInv, AckedIsStored
  <2> QED BY <2>1, <2>2, <2>3
<1>2. CASE a = <<request, port, number>>
  BY <1>2 DEF TftpInv, TftpTypeOK
<1> QED BY <1>1, <1>2

LEMMA TftpInvStep ==
  ASSUME Undisturbed, TftpInv, [TftpNext]_tftpVars
  PROVE  TftpInv'
<1>t. /\ TftpTypeOK /\ StateInv /\ PlaceInv /\ LeftInv
      /\ AckedInv /\ AckedIsStored /\ ServedInv /\ AskedInv
  BY DEF TftpInv
<1>k. TftpTypeOK'
  <2>1. WasRequested
    BY <1>t DEF StateInv, WasRequested
  <2> QED BY <1>t, <2>1, TftpTypesStep DEF TftpTypes
<1>n. /\ request \in Nat /\ Len(stored) \in Nat
      /\ \A p \in TftpPorts : servedFor[p] \in Nat /\ \A i \in served[p] : i \in Int
  BY <1>t DEF TftpTypeOK
<1>1. CASE ReadRequest
  <2>1. /\ tftpState = "NONE" /\ request < MaxRequests /\ request' = request + 1
        /\ serverIp' = TRUE /\ progress' = "PROGRESS" /\ tftpState' = "RRQ"
        /\ stored' = <<>> /\ spoiled' = FALSE /\ SendRrq /\ RegTimeout
        /\ UNCHANGED <<tftpAt, blockNum, serverPort, leftover, servedFor, served>>
    BY <1>1 DEF ReadRequest, tftpNet
  <2>2. /\ pending' \in {"none", "flying", "ended"} /\ acked' = acked
        /\ asked' \subseteq asked \cup {request'}
    BY <1>t, <2>1, SendRrqAdds
  <2>3. request' \in 1 .. MaxRequests
    BY <1>n, <1>t, <2>1, TftpAssumption DEF TftpTypeOK
  <2>4. /\ resendFlag' \in BOOLEAN /\ timeCnt' \in 0 .. TftpTimeout
        /\ retryCnt' \in 0 .. TftpRetries - 1
    BY <1>t, <2>1, TimersTyped
  <2>6. StateInv' /\ PlaceInv' /\ LeftInv'
    <3>1. Len(stored') = 0 /\ 0 < FileBlocks /\ request' >= 1 /\ blockNum' = 0
      BY <1>t, <2>1, <2>3, TftpAssumption DEF StateInv
    <3>2. LeftInv'
      BY <1>t, <1>n, <2>1 DEF LeftInv
    <3> QED BY <2>1, <3>1, <3>2 DEF StateInv, PlaceInv
  <2>7. AckedInv' /\ AckedIsStored'
    <3> SUFFICES ASSUME NEW a \in acked PROVE a[1] <= request + 1 /\ a[1] # request + 1
      BY <2>1, <2>2 DEF AckedInv, AckedIsStored
    <3>1. a[1] \in Nat /\ a[1] <= request
      BY <1>t DEF TftpTypeOK, AckedInv
    <3> QED BY <1>n, <3>1
  <2>8. ServedInv'
    BY <1>t, <1>n, <2>1 DEF ServedInv
  <2>9. AskedInv'
    BY <1>t, <1>n, <2>1, <2>2 DEF AskedInv, TftpTypeOK
  <2> QED BY <1>k, <2>6, <2>7, <2>8, <2>9 DEF TftpInv
<1>2. CASE TftpTick
  <2>1. /\ timeCnt < TftpTimeout /\ timeCnt' = timeCnt + 1
        /\ UNCHANGED <<tftpAt, tftpState, blockNum, serverIp, serverPort,
                       resendFlag, retryCnt, progress, stored, leftover, spoiled,
                       request, pending, asked, acked, servedFor, served>>
    BY <1>2 DEF TftpTick, tftpOld, tftpNet
  <2> QED BY <1>t, <2>1, <1>k
          DEF TftpInv, StateInv, PlaceInv, LeftInv, AckedInv, AckedIsStored,
              ServedInv, AskedInv
<1>3. CASE RunNoTimeout
  <2>1. /\ tftpAt' = "receive"
        /\ UNCHANGED <<tftpState, blockNum, serverIp, serverPort, resendFlag,
                       timeCnt, retryCnt, progress, stored, leftover, spoiled, request,
                       pending, asked, acked, servedFor, served>>
    BY <1>3 DEF RunNoTimeout, tftpClient, tftpOld, tftpNet
  <2> QED BY <1>t, <2>1, <1>k
          DEF TftpInv, StateInv, PlaceInv, LeftInv, AckedInv, AckedIsStored,
              ServedInv, AskedInv
<1>4. CASE RunTimeout
  <2>1. /\ Expired /\ tftpAt' = "receive" /\ request' = request /\ Resend
        /\ UNCHANGED <<stored, leftover, spoiled, servedFor, served>>
    BY <1>4 DEF RunTimeout, tftpOld, tftpNet
  <2>2. tftpState # "NONE" /\ request \in 1 .. MaxRequests /\ resendFlag
    BY <1>t, <1>n, <2>1 DEF Expired, StateInv, TftpTypeOK
  <2>3. /\ pending' \in {"none", "flying", "ended"}
        /\ asked' \subseteq asked \cup {request}
        /\ \/ acked' = acked
           \/ /\ acked' \subseteq acked \cup {<<request, serverPort, blockNum>>}
              /\ tftpState # "RRQ"
    <3>1. CASE tftpState = "RRQ"
      BY <1>t, <2>1, <3>1, SendRrqAdds DEF Resend
    <3>2. CASE tftpState # "RRQ"
      BY <1>t, <2>1, <3>2, SendAckAdds DEF Resend
    <3> QED BY <3>1, <3>2
  <2>4. \/ InitTftp("FAIL")
        \/ /\ timeCnt' = 0 /\ retryCnt' = retryCnt + 1
           /\ ~(retryCnt + 1 >= TftpRetries)
           /\ UNCHANGED <<tftpState, blockNum, serverIp, serverPort, resendFlag,
                          progress>>
    BY <1>4 DEF RunTimeout
  <2>6. StateInv' /\ PlaceInv' /\ LeftInv'
    BY <1>t, <2>1, <2>4 DEF StateInv, PlaceInv, LeftInv, InitTftp
  <2>7. AckedInv' /\ AckedIsStored'
    <3>a. tftpState' # "NONE" => tftpState # "NONE"
      BY <2>2
    <3>1. CASE acked' = acked
      BY <1>t, <2>1, <3>a, <3>1 DEF AckedInv, AckedIsStored
    <3>2. CASE /\ acked' \subseteq acked \cup {<<request, serverPort, blockNum>>}
               /\ tftpState # "RRQ"
      <4>1. blockNum \in Nat /\ (~spoiled => blockNum <= Len(stored))
        BY <1>t, <1>n, <2>2, <3>2 DEF PlaceInv, TftpTypeOK, TftpStates
      <4>2. /\ Len(stored') \in Nat /\ Len(stored) <= Len(stored')
            /\ ~spoiled' => ~spoiled /\ blockNum <= Len(stored')
            /\ request' = request
        BY <1>n, <2>1, <4>1
      <4>3. spoiled' /\ tftpState' # "NONE" => request > 1
        BY <1>t, <2>1, <3>a DEF AckedIsStored
      <4> QED BY <1>n, <3>2, <4>1, <4>2, <4>3, AcksKept
    <3> QED BY <2>3, <3>1, <3>2
  <2>8. ServedInv' /\ AskedInv'
    BY <1>t, <2>1, <2>2, <2>3 DEF ServedInv, AskedInv, TftpTypeOK
  <2> QED BY <1>k, <2>6, <2>7, <2>8 DEF TftpInv
<1>5. CASE NothingArrives
  <2>1. /\ tftpAt' = "timeout" /\ request' = request
        /\ serverPort' \in TftpPorts \cup {NoPort, serverPort}
        /\ UNCHANGED <<tftpState, blockNum, serverIp, resendFlag, timeCnt,
                       retryCnt, progress, stored, leftover, spoiled, pending,
                       asked, acked, servedFor, served>>
    BY <1>5 DEF NothingArrives, RunReceive, UnwrittenPort, tftpOld, tftpNet
  <2> QED BY <1>t, <2>1, <1>k
          DEF TftpInv, StateInv, PlaceInv, LeftInv, AckedInv, AckedIsStored,
              ServedInv, AskedInv
<1>6. ASSUME NEW port \in TftpPorts \cup {NoPort}, tftpState = "RRQ", serverIp,
             tftpAt' = "timeout", request' = request, serverPort' = port,
             SendAck(port, 0), tftpState' = "OACK", CancelAndRegTimeout,
             leftover' = Oack,
             UNCHANGED <<blockNum, serverIp, progress, stored, spoiled, servedFor,
                         served>>
      PROVE  TftpInv'
  <2>1. /\ pending' \in {"none", "flying", "ended"} /\ asked' = asked
        /\ acked' \subseteq acked \cup {<<request, port, 0>>}
    BY <1>t, <1>6, SendAckAdds
  <2>2. request \in 1 .. MaxRequests
    BY <1>t, <1>n, <1>6 DEF StateInv, TftpTypeOK
  <2>4. StateInv' /\ PlaceInv' /\ LeftInv'
    BY <1>t, <1>6 DEF StateInv, PlaceInv, LeftInv
  <2>5. AckedInv' /\ AckedIsStored'
    <3>1. /\ Len(stored') \in Nat /\ Len(stored) <= Len(stored')
          /\ 0 <= Len(stored') /\ request' = request /\ spoiled' = spoiled
          /\ spoiled' /\ tftpState' # "NONE" => request > 1
      BY <1>t, <1>n, <1>6 DEF AckedIsStored
    <3> QED BY <1>n, <2>1, <3>1, AcksKept
  <2>6. ServedInv' /\ AskedInv'
    BY <1>t, <1>6, <2>1 DEF ServedInv, AskedInv
  <2> QED BY <1>k, <2>4, <2>5, <2>6 DEF TftpInv
<1>7. CASE OldOackAgain
  <2>1. PICK port \in TftpPorts \cup {NoPort} :
          serverPort' = port /\ SendAck(port, 0)
    BY <1>7 DEF OldOackAgain, UnwrittenPort
  <2>2. /\ tftpState = "RRQ" /\ serverIp /\ tftpAt' = "timeout"
        /\ request' = request /\ tftpState' = "OACK" /\ CancelAndRegTimeout
        /\ leftover' = Oack
        /\ UNCHANGED <<blockNum, serverIp, progress, stored, spoiled,
                       servedFor, served>>
    BY <1>7 DEF OldOackAgain, RunReceive, tftpOld, tftpNet
  <2> QED BY <1>6, <2>1, <2>2
<1>8. ASSUME NEW p \in TftpPorts, RecvOack(p) PROVE TftpInv'
  <2>1. /\ tftpState = "RRQ" /\ serverIp /\ tftpAt' = "timeout"
        /\ request' = request /\ serverPort' = p /\ SendAck(p, 0)
        /\ tftpState' = "OACK" /\ CancelAndRegTimeout /\ leftover' = Oack
        /\ UNCHANGED <<blockNum, serverIp, progress, stored, spoiled, servedFor,
                       served>>
    BY <1>8 DEF RecvOack, RunReceive, tftpNet
  <2> QED BY <1>6, <2>1
<1>9. ASSUME NEW p \in TftpPorts, RecvError(p) PROVE TftpInv'
  <2>1. /\ tftpAt' = "timeout" /\ request' = request /\ InitTftp("FAIL")
        /\ leftover' = NoPacket
        /\ UNCHANGED <<stored, spoiled, pending, asked, acked, servedFor, served>>
    BY <1>9 DEF RecvError, RunReceive, tftpNet
  <2>3. StateInv' /\ PlaceInv' /\ LeftInv' /\ tftpState' = "NONE"
    BY <2>1 DEF StateInv, PlaceInv, LeftInv, InitTftp
  <2> QED BY <1>t, <2>1, <1>k, <2>3
          DEF TftpInv, AckedInv, AckedIsStored, ServedInv, AskedInv
<1>10. ASSUME NEW p \in TftpPorts, NEW i \in Error .. FileBlocks, RecvIgnored(p, i)
       PROVE  TftpInv'
  <2>1. /\ tftpAt' = "timeout" /\ request' = request /\ leftover' = i
        /\ i \in served[p] /\ (tftpState = "NONE" \/ i = Oack)
        /\ UNCHANGED <<tftpState, blockNum, serverIp, serverPort, resendFlag,
                       timeCnt, retryCnt, progress, stored, spoiled, pending,
                       asked, acked, servedFor, served>>
    BY <1>10 DEF RecvIgnored, RunReceive, CanArrive, tftpClient, tftpNet
  <2>2. request >= 1
    BY <1>t, <1>n, <2>1 DEF ServedInv
  <2>3. LeftInv'
    BY <2>1, <2>2 DEF LeftInv
  <2> QED BY <1>t, <2>1, <1>k, <2>3
          DEF TftpInv, StateInv, PlaceInv, AckedInv, AckedIsStored, ServedInv,
              AskedInv
<1>11. ASSUME NEW p \in TftpPorts, NEW i \in Error .. FileBlocks, RecvData(p, i)
       PROVE  TftpInv'
  <2> DEFINE port == IF tftpState = "RRQ" THEN p ELSE serverPort
  <2>1. /\ i \in 1 .. FileBlocks /\ CanArrive(p, i) /\ i \in Nat
        /\ serverIp /\ tftpState # "NONE" /\ i % BlockModulus = i
    BY <1>11, NoWrap, TftpAssumption DEF RecvData
  <2>2. /\ tftpAt' = "timeout" /\ request' = request /\ leftover' = NoPacket
        /\ SendAck(port, i) /\ UNCHANGED <<spoiled, servedFor, served>>
        /\ stored' = IF Expected(i) THEN Append(stored, i) ELSE stored
    BY <1>11, <2>1 DEF RecvData, TakeBlock, RunReceive, tftpNet
  <2>3. \/ i = FileBlocks /\ InitTftp("SUCCESS")
        \/ /\ i # FileBlocks /\ Expected(i)
           /\ tftpState' = "DATA" /\ blockNum' = i
           /\ UNCHANGED <<serverIp, progress>> /\ CancelAndRegTimeout
        \/ /\ i # FileBlocks /\ ~Expected(i) /\ RegTimeout
           /\ UNCHANGED <<tftpState, blockNum, serverIp, progress>>
    BY <1>11, <2>1 DEF RecvData, TakeBlock
  <2>4. /\ port \in TftpPorts \cup {NoPort} /\ request >= 1
        /\ spoiled => request > 1
    BY <1>t, <1>n, <2>1 DEF StateInv, AckedIsStored, TftpTypeOK
  <2> HIDE DEF port
  <2>5. asked' = asked /\ acked' \subseteq acked \cup {<<request, port, i>>}
    BY <1>t, <2>2, SendAckAdds
  <2>6. /\ Len(stored') \in Nat /\ Len(stored) <= Len(stored')
        /\ Len(stored') = IF Expected(i) THEN Len(stored) + 1 ELSE Len(stored)
    <3>1. stored \in Seq(OldBlock .. FileBlocks)
      BY <1>t DEF TftpTypeOK
    <3>2. CASE Expected(i)
      BY <1>n, <2>2, <3>1, <3>2
    <3>3. CASE ~Expected(i)
      BY <1>n, <2>2, <3>3
    <3> QED BY <3>2, <3>3
  <2>7. ~spoiled => /\ Len(stored) < FileBlocks /\ i <= Len(stored')
                    /\ Expected(i) <=> i = Len(stored) + 1
    <3>1. ~spoiled => /\ i <= Len(stored) + 1 /\ Len(stored) < FileBlocks
                      /\ Expected(i) <=> i = Len(stored) + 1
      BY <2>1, ArrivesInOrder
    <3> QED BY <1>n, <2>1, <2>6, <3>1
  <2>8. StateInv' /\ LeftInv'
    BY <1>t, <2>1, <2>2, <2>3, <2>4 DEF StateInv, LeftInv, InitTftp,
       RegTimeout, CancelAndRegTimeout
  <2>9. PlaceInv'
    <3> SUFFICES ASSUME ~spoiled PROVE PlaceInv'
      BY <2>2 DEF PlaceInv
    <3>1. CASE InitTftp("SUCCESS")
      BY <3>1 DEF PlaceInv, InitTftp
    <3>2. CASE i # FileBlocks /\ Expected(i) /\ tftpState' = "DATA" /\ blockNum' = i
      BY <2>1, <2>6, <2>7, <3>2, TftpAssumption DEF PlaceInv
    <3>3. CASE ~Expected(i) /\ UNCHANGED <<tftpState, blockNum>>
      BY <1>t, <2>2, <3>3 DEF PlaceInv
    <3> QED BY <2>3, <3>1, <3>2, <3>3
  <2>10. AckedInv' /\ AckedIsStored'
    BY <1>n, <2>1, <2>2, <2>4, <2>5, <2>6, <2>7, AcksKept
  <2>11. ServedInv'
    <3> SUFFICES ASSUME NEW q \in TftpPorts, NEW j \in served[q]
                 PROVE  /\ 1 <= servedFor[q] /\ servedFor[q] <= request
                        /\ ~spoiled /\ servedFor[q] = request =>
                             j <= Len(stored') + 1
      BY <2>2 DEF ServedInv
    <3>1. j \in Int /\ servedFor[q] \in Nat
      BY <1>n
    <3> QED BY <1>t, <1>n, <2>6, <3>1 DEF ServedInv
  <2>12. AskedInv'
    BY <1>t, <2>2, <2>5 DEF AskedInv
  <2> QED BY <1>k, <2>8, <2>9, <2>10, <2>11, <2>12 DEF TftpInv
<1>17. CASE OldDataAgain
  <2> DEFINE number == leftover % BlockModulus
  <2>1. /\ leftover \in 1 .. FileBlocks /\ serverIp /\ tftpState # "NONE"
        /\ request' = request /\ leftover' = NoPacket
        /\ UNCHANGED <<servedFor, served>>
    BY <1>17 DEF OldDataAgain, RunReceive, tftpNet
  <2>2. number = leftover /\ number \in Nat
    BY <2>1, NoWrap, TftpAssumption
  <2>3. /\ SendAck(serverPort', number) /\ TakeBlock(number, OldBlock, serverPort')
        /\ spoiled' = (spoiled \/ Expected(number) \/ number > Len(stored))
    BY <1>17 DEF OldDataAgain
  <2>4. request >= 2
    BY <1>t, <2>1 DEF LeftInv, NoPacket, Oack
  <2> HIDE DEF number
  <2>5. /\ asked' = asked
        /\ acked' \subseteq acked \cup {<<request, serverPort', number>>}
    BY <1>t, <2>3, SendAckAdds
  <2>6. Len(stored') \in Nat /\ Len(stored) <= Len(stored')
    <3>1. stored \in Seq(OldBlock .. FileBlocks) /\ OldBlock \in OldBlock .. FileBlocks
      BY <1>t, TftpAssumption DEF TftpTypeOK, OldBlock
    <3>2. CASE stored' = Append(stored, OldBlock)
      BY <1>n, <3>1, <3>2
    <3>3. CASE stored' = stored
      BY <1>n, <3>3
    <3> QED BY <2>3, <3>2, <3>3 DEF TakeBlock
  <2>7. ~spoiled' => /\ ~spoiled /\ number <= Len(stored)
                     /\ UNCHANGED <<stored, tftpState, blockNum>>
    <3> SUFFICES ASSUME ~spoiled'
                 PROVE  /\ ~spoiled /\ number <= Len(stored)
                        /\ UNCHANGED <<stored, tftpState, blockNum>>
      OBVIOUS
    <3>1. ~spoiled /\ ~Expected(number) /\ ~(number > Len(stored))
      BY <2>3
    <3>2. UNCHANGED <<stored, tftpState, blockNum>>
      BY <2>3, <3>1 DEF TakeBlock
    <3> QED BY <1>n, <2>2, <3>1, <3>2
  <2>8. StateInv' /\ LeftInv'
    <3>1. tftpState' # "NONE" /\ progress' = progress
      BY <2>1, <2>3 DEF TakeBlock
    <3> QED BY <1>t, <2>1, <3>1 DEF StateInv, LeftInv
  <2>9. PlaceInv'
    BY <1>t, <2>7 DEF PlaceInv
  <2>10. AckedInv' /\ AckedIsStored'
    <3>1. ~spoiled' => number <= Len(stored')
      BY <2>7
    <3>2. request > 1
      BY <1>n, <2>4
    <3> QED BY <1>n, <2>1, <2>2, <2>5, <2>6, <2>7, <3>1, <3>2, AcksKept
  <2>11. ServedInv'
    BY <1>t, <2>1, <2>7 DEF ServedInv
  <2>12. AskedInv'
    BY <1>t, <2>1, <2>5 DEF AskedInv
  <2> QED BY <1>k, <2>8, <2>9, <2>10, <2>11, <2>12 DEF TftpInv
<1>18. CASE OldDataIdle
  <2>1. /\ leftover' = NoPacket /\ request' = request
        /\ UNCHANGED <<tftpState, blockNum, serverIp, serverPort, resendFlag,
                       timeCnt, retryCnt, progress, stored, spoiled, pending,
                       asked, acked, servedFor, served>>
    BY <1>18 DEF OldDataIdle, RunReceive, tftpClient, tftpNet
  <2> QED BY <1>t, <2>1, <1>k
          DEF TftpInv, StateInv, PlaceInv, LeftInv, AckedInv, AckedIsStored,
              ServedInv, AskedInv
<1>19. CASE OldErrorAgain
  <2>1. /\ request' = request /\ InitTftp("FAIL") /\ leftover' = NoPacket
        /\ spoiled' = TRUE /\ tftpState' = "NONE"
        /\ UNCHANGED <<stored, pending, asked, acked, servedFor, served>>
    BY <1>19 DEF OldErrorAgain, RunReceive, InitTftp, tftpNet
  <2>2. StateInv' /\ PlaceInv' /\ LeftInv'
    BY <2>1 DEF StateInv, PlaceInv, LeftInv, InitTftp
  <2> QED BY <1>t, <2>1, <1>k, <2>2
          DEF TftpInv, AckedInv, AckedIsStored, ServedInv, AskedInv
<1>12. CASE DatagramEnds
  <2>1. /\ pending' = "ended"
        /\ UNCHANGED <<tftpAt, tftpState, blockNum, serverIp, serverPort,
                       resendFlag, timeCnt, retryCnt, progress, stored, leftover,
                       spoiled, request, asked, acked, servedFor, served>>
    BY <1>12 DEF DatagramEnds, tftpClient, tftpOld, tftpNet
  <2> QED BY <1>t, <2>1, <1>k
          DEF TftpInv, StateInv, PlaceInv, LeftInv, AckedInv, AckedIsStored,
              ServedInv, AskedInv
<1>13. ASSUME NEW p \in TftpPorts, ServerAnswers(p) PROVE TftpInv'
  <2>1. PICK r \in asked, first \in {Oack, Error, 1} :
          /\ servedFor' = [servedFor EXCEPT ![p] = r]
          /\ served' = [served EXCEPT ![p] = {first}]
    BY <1>13 DEF ServerAnswers
  <2>2. UNCHANGED <<tftpAt, tftpState, blockNum, serverIp, serverPort, resendFlag,
                    timeCnt, retryCnt, progress, stored, leftover, spoiled,
                    request, pending, asked, acked>>
    BY <1>13 DEF ServerAnswers, tftpClient, tftpOld
  <2>3. r \in 1 .. MaxRequests /\ r <= request /\ first \in Error .. FileBlocks
        /\ first <= 1
    BY <1>t, TftpAssumption DEF AskedInv, TftpTypeOK, Oack, Error
  <2>5. ServedInv'
    <3> SUFFICES ASSUME NEW q \in TftpPorts, NEW j \in served'[q]
                 PROVE  /\ 1 <= servedFor'[q] /\ servedFor'[q] <= request
                        /\ ~spoiled /\ servedFor'[q] = request =>
                             j <= Len(stored) + 1
      BY <2>2 DEF ServedInv
    <3>1. CASE q = p
      <4>1. j = first /\ servedFor'[q] = r
        BY <1>t, <2>1, <3>1 DEF TftpTypeOK
      <4> QED BY <1>n, <2>3, <4>1
    <3>2. CASE q # p
      <4>1. j \in served[q] /\ servedFor'[q] = servedFor[q]
        BY <1>t, <2>1, <3>2 DEF TftpTypeOK
      <4> QED BY <1>t, <4>1 DEF ServedInv
    <3> QED BY <3>1, <3>2
  <2> QED BY <1>t, <2>2, <1>k, <2>5
          DEF TftpInv, StateInv, PlaceInv, LeftInv, AckedInv, AckedIsStored,
              AskedInv
<1>14. ASSUME NEW p \in TftpPorts, ServerContinues(p) PROVE TftpInv'
  <2>1. PICK i \in served[p] \cap (Oack .. FileBlocks - 1) :
          /\ \E r \in 1 .. MaxRequests :
               /\ <<r, p, i % BlockModulus>> \in acked
               /\ LatePackets \/ r = servedFor[p]
          /\ served' = [served EXCEPT ![p] = @ \cup {i + 1}]
    BY <1>14 DEF ServerContinues
  <2>2. UNCHANGED <<tftpAt, tftpState, blockNum, serverIp, serverPort, resendFlag,
                    timeCnt, retryCnt, progress, stored, leftover, spoiled,
                    request, pending, asked, acked, servedFor>>
    BY <1>14 DEF ServerContinues, tftpClient, tftpOld
  <2>3. i \in 0 .. FileBlocks /\ i + 1 \in Error .. FileBlocks /\ i \in Int
    BY TftpAssumption DEF Oack, Error
  <2>4. <<servedFor[p], p, i>> \in acked
    BY <2>1, <2>3, NoWrap DEF Undisturbed
  <2>5. ~spoiled /\ servedFor[p] = request => i <= Len(stored)
    BY <1>t, <2>4 DEF AckedIsStored
  <2>7. ServedInv'
    <3> SUFFICES ASSUME NEW q \in TftpPorts, NEW j \in served'[q]
                 PROVE  /\ 1 <= servedFor[q] /\ servedFor[q] <= request
                        /\ ~spoiled /\ servedFor[q] = request =>
                             j <= Len(stored) + 1
      BY <2>2 DEF ServedInv
    <3>1. CASE q = p /\ j = i + 1
      BY <1>t, <1>n, <2>1, <2>3, <2>5, <3>1 DEF ServedInv
    <3>2. CASE ~(q = p /\ j = i + 1)
      <4>1. j \in served[q]
        BY <1>t, <2>1, <3>2 DEF TftpTypeOK
      <4> QED BY <1>t, <4>1 DEF ServedInv
    <3> QED BY <3>1, <3>2
  <2> QED BY <1>t, <2>2, <1>k, <2>7
          DEF TftpInv, StateInv, PlaceInv, LeftInv, AckedInv, AckedIsStored,
              AskedInv
<1>15. CASE UNCHANGED tftpVars
  BY <1>15, <1>t
     DEF tftpVars, tftpClient, tftpOld, tftpNet, TftpInv, TftpTypeOK, StateInv,
         PlaceInv, LeftInv, AckedInv, AckedIsStored, ServedInv, AskedInv
<1>16. CASE TftpRunStep
  BY <1>3, <1>4, <1>5, <1>7, <1>8, <1>9, <1>10, <1>11, <1>16, <1>17, <1>18, <1>19
     DEF TftpRunStep, RecvPacket
<1> QED
  BY <1>1, <1>2, <1>12, <1>13, <1>14, <1>15, <1>16 DEF TftpNext

-----------------------------------------------------------------------------
(* Every step of the client is one of the transfer, or none.               *)
LEMMA TransferStep ==
  ASSUME Undisturbed, TftpInv, [TftpNext]_tftpVars
  PROVE  [Transfer!Next]_<<Outcome, stored, spoiled>>
<1>t. TftpTypeOK /\ StateInv
  BY DEF TftpInv
<1>u. ASSUME UNCHANGED <<stored, spoiled, progress>>,
             tftpState = "NONE" <=> tftpState' = "NONE"
      PROVE  UNCHANGED <<Outcome, stored, spoiled>>
  BY <1>u DEF Outcome
<1>f. ASSUME tftpState # "NONE", InitTftp("FAIL"), UNCHANGED <<stored, spoiled>>
      PROVE  Transfer!GiveUp
  <2>1. Outcome = "progress"
    BY <1>f, <1>t DEF Outcome, StateInv
  <2>2. Outcome' = "fail"
    BY <1>f DEF Outcome, InitTftp
  <2> QED BY <1>f, <2>1, <2>2 DEF Transfer!GiveUp, Outcome
<1>s. ASSUME spoiled' = TRUE, tftpState # "NONE",
             \/ stored' = stored
             \/ \E b \in 0 .. FileBlocks : stored' = Append(stored, b),
             \/ InitTftp("FAIL") \/ InitTftp("SUCCESS")
             \/ tftpState' # "NONE" /\ progress' = progress
      PROVE  Transfer!Next
  <2>1. Outcome = "progress"
    BY <1>s, <1>t DEF Outcome, StateInv
  <2>2. Outcome' \in {"progress", "success", "fail"}
    BY <1>s, <1>t DEF Outcome, StateInv, InitTftp
  <2> QED BY <1>s, <2>1, <2>2 DEF Transfer!Next, Transfer!Spoil, Outcome
<1>1. CASE ReadRequest
  <2>1. Outcome # "progress"
    BY <1>1 DEF ReadRequest, Outcome
  <2>2. Outcome' = "progress" /\ stored' = <<>> /\ spoiled' = FALSE
    BY <1>1 DEF ReadRequest, Outcome
  <2> QED BY <2>1, <2>2 DEF Transfer!Next, Transfer!Ask, Outcome
<1>2. CASE RunTimeout
  <2>1. tftpState # "NONE" /\ UNCHANGED <<stored, spoiled>>
    BY <1>2, <1>t DEF RunTimeout, Expired, StateInv, tftpOld
  <2>2. CASE InitTftp("FAIL")
    BY <1>f, <2>1, <2>2 DEF Transfer!Next
  <2>3. CASE UNCHANGED <<tftpState, progress>>
    BY <1>u, <2>1, <2>3
  <2> QED BY <1>2, <2>2, <2>3 DEF RunTimeout
<1>3. ASSUME NEW p \in TftpPorts, RecvError(p) PROVE Transfer!Next
  <2>1. tftpState # "NONE" /\ UNCHANGED <<stored, spoiled>> /\ InitTftp("FAIL")
    BY <1>3, <1>t DEF RecvError, StateInv
  <2> QED BY <1>f, <2>1 DEF Transfer!Next
<1>4. ASSUME NEW p \in TftpPorts, NEW i \in Error .. FileBlocks, RecvData(p, i)
      PROVE  [Transfer!Next]_<<Outcome, stored, spoiled>>
  <2>1. /\ i \in 1 .. FileBlocks /\ CanArrive(p, i) /\ tftpState # "NONE"
        /\ spoiled' = spoiled /\ i % BlockModulus = i
    BY <1>4, NoWrap, TftpAssumption DEF RecvData
  <2>2. stored' = IF Expected(i) THEN Append(stored, i) ELSE stored
    BY <1>4, <2>1 DEF RecvData, TakeBlock
  <2>3. CASE spoiled
    <3>1. \/ stored' = stored
          \/ \E b \in 0 .. FileBlocks : stored' = Append(stored, b)
      BY <2>1, <2>2
    <3>2. \/ InitTftp("SUCCESS")
          \/ tftpState' # "NONE" /\ progress' = progress
      BY <1>4, <2>1 DEF RecvData, TakeBlock
    <3>3. spoiled' = TRUE
      BY <1>t, <2>1, <2>3 DEF TftpTypeOK
    <3> QED BY <1>s, <2>1, <3>1, <3>2, <3>3
  <2>4. CASE ~spoiled
    <3>1. /\ Len(stored) \in Nat /\ Len(stored) < FileBlocks /\ FileBlocks \in Nat
          /\ Expected(i) <=> i = Len(stored) + 1
      BY <2>1, <2>4, ArrivesInOrder, TftpAssumption
    <3>2. Outcome = "progress" /\ progress = "PROGRESS"
      BY <1>t, <2>1 DEF Outcome, StateInv
    <3>3. CASE Expected(i)
      <4>1. stored' = Append(stored, Len(stored) + 1) /\ Len(stored') = i
        BY <1>t, <2>2, <3>1, <3>3 DEF TftpTypeOK
      <4>2. CASE i = FileBlocks
        <5>1. InitTftp("SUCCESS")
          BY <1>4, <4>2 DEF RecvData
        <5>2. Outcome' = "success"
          BY <5>1 DEF InitTftp, Outcome
        <5> QED BY <2>1, <3>1, <3>2, <4>1, <4>2, <5>2
                DEF Transfer!Next, Transfer!Store, Outcome
      <4>3. CASE i # FileBlocks
        <5>1. progress' = progress /\ tftpState' = "DATA"
          BY <1>4, <2>1, <3>3, <4>3 DEF RecvData, TakeBlock
        <5>2. Outcome' = "progress"
          BY <3>2, <5>1 DEF Outcome
        <5> QED BY <2>1, <3>1, <3>2, <4>1, <4>3, <5>2
                DEF Transfer!Next, Transfer!Store, Outcome
      <4> QED BY <4>2, <4>3
    <3>4. CASE ~Expected(i)
      <4>1. i # FileBlocks
        <5>1. i <= Len(stored) + 1
          BY <2>1, <2>4, ArrivesInOrder
        <5> QED BY <2>1, <3>1, <3>4, <5>1
      <4>2. UNCHANGED <<stored, spoiled, progress, tftpState>>
        BY <1>4, <2>1, <3>4, <4>1 DEF RecvData, TakeBlock
      <4> QED BY <1>u, <4>2
    <3> QED BY <3>3, <3>4
  <2> QED BY <2>3, <2>4
<1>5. ASSUME NEW p \in TftpPorts,
             RecvOack(p) \/ ServerAnswers(p) \/ ServerContinues(p)
      PROVE  UNCHANGED <<Outcome, stored, spoiled>>
  <2>1. /\ UNCHANGED <<stored, spoiled, progress>>
        /\ tftpState = "NONE" <=> tftpState' = "NONE"
    BY <1>5 DEF RecvOack, ServerAnswers, ServerContinues, tftpClient, tftpOld
  <2> QED BY <1>u, <2>1
<1>6. ASSUME NEW p \in TftpPorts, NEW i \in Error .. FileBlocks, RecvIgnored(p, i)
      PROVE  UNCHANGED <<Outcome, stored, spoiled>>
  BY <1>6, <1>u DEF RecvIgnored, tftpClient
<1>7. CASE \/ TftpTick \/ RunNoTimeout \/ NothingArrives \/ OldOackAgain
           \/ OldDataIdle \/ DatagramEnds \/ UNCHANGED tftpVars
  <2>1. /\ UNCHANGED <<stored, spoiled, progress>>
        /\ tftpState = "NONE" <=> tftpState' = "NONE"
    BY <1>7 DEF TftpTick, RunNoTimeout, NothingArrives, OldOackAgain, OldDataIdle,
                DatagramEnds, tftpClient, tftpOld, tftpVars
  <2> QED BY <1>u, <2>1
<1>8. CASE OldDataAgain
  <2> DEFINE number == leftover % BlockModulus
  <2>1. /\ tftpState # "NONE" /\ TakeBlock(number, OldBlock, serverPort')
        /\ spoiled' = (spoiled \/ Expected(number) \/ number > Len(stored))
    BY <1>8 DEF OldDataAgain
  <2> HIDE DEF number
  <2>2. progress' = progress /\ tftpState' # "NONE"
    BY <2>1 DEF TakeBlock
  <2>3. CASE spoiled' = TRUE
    <3>1. OldBlock \in 0 .. FileBlocks
      BY TftpAssumption DEF OldBlock
    <3>2. \/ stored' = stored
          \/ \E b \in 0 .. FileBlocks : stored' = Append(stored, b)
      BY <2>1, <3>1 DEF TakeBlock
    <3> QED BY <1>s, <2>1, <2>2, <2>3, <3>2
  <2>4. CASE spoiled' = FALSE
    <3>1. spoiled = FALSE /\ ~Expected(number)
      BY <1>t, <2>1, <2>4 DEF TftpTypeOK
    <3>2. stored' = stored
      BY <2>1, <3>1 DEF TakeBlock
    <3> QED BY <1>u, <2>1, <2>2, <2>4, <3>1, <3>2
  <2>5. spoiled' \in BOOLEAN
    BY <2>1
  <2> QED BY <2>3, <2>4, <2>5
<1>9. CASE OldErrorAgain
  <2>1. spoiled' = TRUE /\ stored' = stored /\ InitTftp("FAIL")
    BY <1>9 DEF OldErrorAgain
  <2>2. Outcome' = "fail"
    BY <2>1 DEF InitTftp, Outcome
  <2> QED BY <2>1, <2>2 DEF Transfer!Next, Transfer!Spoil, Outcome
<1> QED
  BY <1>1, <1>2, <1>3, <1>4, <1>5, <1>6, <1>7, <1>8, <1>9
     DEF TftpNext, TftpRunStep, RecvPacket

-----------------------------------------------------------------------------
(* The client's variables hold what they are declared to hold, whatever    *)
(* arrives, late or twice, and however often block numbers wrap (TFTP_run).*)
THEOREM TftpTyped == TftpSpec => []TftpTypeOK
<1>1. TftpTypes => TftpTypeOK
  BY DEF TftpTypes
<1> QED BY <1>1, TftpTypesInit, TftpTypesStep, PTL DEF TftpSpec

(* What is acknowledged is stored, for files, ports and requests of any    *)
(* number (send_tftp_ack in recv_tftp_data), except after a block or an    *)
(* error that came between two requests was parsed again, which cannot     *)
(* happen to the first request.                                            *)
THEOREM AcksAreOfStoredBlocks ==
  ASSUME Undisturbed
  PROVE  TftpSpec => []AckedIsStored
<1>1. TftpInv /\ [TftpNext]_tftpVars => TftpInv'
  BY TftpInvStep
<1>2. TftpInv => AckedIsStored
  BY DEF TftpInv
<1> QED BY <1>1, <1>2, TftpInvInit, PTL DEF TftpSpec

(* The client implements FileTransfer: every block once and in its place,  *)
(* and no success without all of them (TFTP_run), in every transfer that   *)
(* no packet left from before it misleads; such a transfer is a spoilt one *)
(* of FileTransfer, and the one after it is a transfer like any other.     *)
THEOREM ClientTransfersFile ==
  ASSUME Undisturbed
  PROVE  TftpSpec => TransferImplemented
<1>1. TftpInv /\ [TftpNext]_tftpVars => TftpInv'
  BY TftpInvStep
<1>2. TftpInit => Transfer!Init
  BY DEF TftpInit, Transfer!Init
<1>3. TftpInv /\ [TftpNext]_tftpVars => [Transfer!Next]_<<Outcome, stored, spoiled>>
  BY TransferStep
<1> QED BY <1>1, <1>2, <1>3, TftpInvInit, PTL
        DEF TftpSpec, TransferImplemented, Transfer!Spec, Outcome

-----------------------------------------------------------------------------
(* DhcpClient.                                                             *)
Exchanging == {"REQUEST", "REREQUEST"}
Leasing    == {"LEASED", "REREQUEST"}

(* What a message says about who sent it: a server gives its own address,  *)
(* and acknowledges only after granting it.                                *)
MessagesTrue ==
  /\ \A m \in onWire : m.type # "DISCOVER" => m.ip = m.server
  /\ \A m \in answers :
       m.ip = m.server /\ (m.type = "ACK" => m.server \in granted)

(* From the choice of an offer on, the client knows one server only.       *)
ChoiceKept ==
  /\ dhcpState \in Exchanging \cup Leasing =>
       sip \in DhcpServers /\ allocated = sip
  /\ dhcpState \in Leasing => chipIp = allocated /\ sip \in granted
  /\ dhcpState = "REREQUEST" => oldAllocated = allocated

LeaseInv == DhcpTypeOK /\ MessagesTrue /\ ChoiceKept

-----------------------------------------------------------------------------
(* One tick more when DHCP_run has not been called since the last one.     *)
Unpolled == IF polled THEN 0 ELSE 1

(* The ticks the retries so far have taken.                                *)
Waited(retry) == retry * (DhcpWait + 1)

(* How old a request can be, as its retry count and its timer tell it; a   *)
(* tick comes late when the call that looks at it has not come yet.        *)
Aged(age, retry, tick, late) ==
  /\ age <= Waited(retry) + tick
  /\ retry < DhcpRetries => age <= Waited(retry) + DhcpWait + late
  /\ retry = DhcpRetries => age <= Waited(retry) + late
OfAge(age) == Aged(age, dhcpRetry, dhcpTick, Unpolled)

(* The timer of a state that looks at it never runs far past the wait.     *)
TimerLookedAt ==
  /\ dhcpState = "INIT" => dhcpRetry = 0 /\ dhcpTick <= Unpolled
  /\ dhcpState = "DISCOVER" => dhcpTick <= DhcpWait + Unpolled
  /\ dhcpState \in Exchanging => dhcpTick <= DhcpWait + 1 + Unpolled
  /\ dhcpState = "LEASED" /\ leaseTime # Infinite =>
       dhcpTick <= leaseTime \div 2 + Unpolled

(* The lease the client counts with is the server's.                       *)
LeaseKnown ==
  dhcpState \in Exchanging \cup Leasing => leaseTime = leaseOf[sip]

(* An acknowledgement that may still arrive is younger than the request.   *)
GrantIsYoung ==
  dhcpState \in Exchanging =>
    \A m \in answers : m.type = "ACK" /\ m.server = sip => OfAge(grantAge[sip])

(* What the client's timer says about the age of the grant.                *)
GrantIsCounted ==
  leaseTime = Infinite \/
    /\ dhcpState = "LEASED" => grantAge[sip] <= dhcpTick + RenewalTime - 1
    /\ dhcpState = "REREQUEST" =>
         OfAge(grantAge[sip] - leaseTime \div 2 - RenewalTime)

TimeInv == TimerLookedAt /\ LeaseKnown /\ GrantIsYoung /\ GrantIsCounted

-----------------------------------------------------------------------------
(* The time the retries take is that of one wait after another.            *)
LEMMA WaitedAdds ==
  /\ RenewalTime \in Nat /\ RenewalTime = Waited(DhcpRetries) + 2
  /\ Waited(0) = 0
  /\ \A r \in 0 .. DhcpRetries :
       /\ Waited(r) \in Nat /\ Waited(r) <= Waited(DhcpRetries)
       /\ Waited(r + 1) = Waited(r) + DhcpWait + 1
  /\ DhcpWait + 1 <= Waited(DhcpRetries)
<1> USE DhcpAssumption DEF Waited, RenewalTime
<1>1. \A r \in Nat : r * (DhcpWait + 1) \in Nat
  OBVIOUS
<1>2. \A r \in Nat : (r + 1) * (DhcpWait + 1) = r * (DhcpWait + 1) + DhcpWait + 1
  OBVIOUS
<1>3. \A r \in 0 .. DhcpRetries : r * (DhcpWait + 1) <= DhcpRetries * (DhcpWait + 1)
  OBVIOUS
<1>4. DhcpWait + 1 <= DhcpRetries * (DhcpWait + 1)
  OBVIOUS
<1> QED BY <1>1, <1>2, <1>3, <1>4

LEMMA LongestLease ==
  /\ MaxLease \in Nat /\ RenewalTime <= MaxLease
  /\ \A t \in LeaseTimes : t <= MaxLease
<1>1. RenewalTime \in Nat
  BY WaitedAdds
<1>2. PICK longest \in LeaseTimes : \A t \in LeaseTimes : t <= longest
  BY DhcpAssumption
<1>3. \E t \in LeaseTimes \cup {RenewalTime} :
        \A u \in LeaseTimes \cup {RenewalTime} : u <= t
  <2>1. CASE RenewalTime <= longest
    BY <1>1, <1>2, <2>1, DhcpAssumption
  <2>2. CASE longest <= RenewalTime
    BY <1>1, <1>2, <2>2, DhcpAssumption
  <2> QED BY <1>1, <1>2, <2>1, <2>2, DhcpAssumption
<1>4. /\ MaxLease \in LeaseTimes \cup {RenewalTime}
      /\ \A u \in LeaseTimes \cup {RenewalTime} : u <= MaxLease
  BY <1>3 DEF MaxLease
<1> QED BY <1>1, <1>4, DhcpAssumption

(* What DHCP_run takes is nothing, or an answer of the server it knows.    *)
LEMMA ReceivedIsTrue ==
  ASSUME LeaseInv, NEW m \in Received
  PROVE  /\ ParsedSip(m) \in DhcpServers \cup {NoServer}
         /\ sip # NoServer => ParsedSip(m) = sip
         /\ ParsedLease(m) \in LeaseTimes \cup {Infinite}
         /\ ParsedSip(m) # NoServer /\ leaseTime = leaseOf[ParsedSip(m)] =>
              ParsedLease(m) = leaseOf[ParsedSip(m)]
         /\ m.type \in {"OFFER", "ACK", "NAK"} =>
              /\ m \in answers /\ m.server \in DhcpServers /\ m.ip = m.server
              /\ ParsedSip(m) = m.server /\ m.server # NoServer
              /\ m.type \in {"OFFER", "ACK"} => ParsedLease(m) = leaseOf[m.server]
<1> USE DhcpAssumption DEF LeaseInv, DhcpTypeOK
<1>1. CASE m = Nothing
  BY <1>1 DEF Nothing, ParsedSip, ParsedLease
<1>2. CASE m # Nothing
  <2>1. m \in answers /\ Heard(m)
    BY <1>2 DEF Received
  <2>2. m \in Answers /\ m.ip = m.server
    BY <2>1 DEF MessagesTrue
  <2>3. m.server \in DhcpServers /\ m.type \in {"OFFER", "ACK", "NAK"}
    BY <2>2 DEF Answers
  <2> QED BY <1>2, <2>1, <2>2, <2>3 DEF ParsedSip, ParsedLease, Heard
<1> QED BY <1>1, <1>2

-----------------------------------------------------------------------------
LEMMA LeaseStarts == DhcpInit => LeaseInv
<1> SUFFICES ASSUME DhcpInit PROVE LeaseInv
  OBVIOUS
<1> USE DhcpAssumption, LongestLease DEF DhcpInit
<1>1. DhcpTypeOK
  <2>1. 0 \in 0 .. DhcpRetries /\ 0 \in 0 .. MaxLease /\ 0 \in 0 .. MaxLease + 1
    OBVIOUS
  <2>2. grantAge \in [DhcpServers -> 0 .. MaxLease + 1]
    BY <2>1
  <2>3. dhcpState \in DhcpStates /\ naks \in 0 .. MaxNaks
    BY DEF DhcpStates
  <2> QED BY <2>1, <2>2, <2>3 DEF DhcpTypeOK
<1>2. MessagesTrue /\ ChoiceKept
  BY DEF MessagesTrue, ChoiceKept, Exchanging, Leasing
<1> QED BY <1>1, <1>2 DEF LeaseInv

(* A message more of the client, of the server it knows.                   *)
LEMMA SendingIsTrue ==
  ASSUME LeaseInv, NEW type \in {"REQUEST", "RENEW"}, NEW server \in DhcpServers,
         \/ SendRequest(type, server, server)
         \/ RepeatRequest(type, server) /\ allocated = server /\ UNCHANGED answers,
         UNCHANGED granted
  PROVE  onWire' \subseteq ClientMessages /\ answers' \subseteq Answers /\ MessagesTrue'
<1> DEFINE new == [type |-> type, ip |-> server, server |-> server]
<1> USE DEF LeaseInv, DhcpTypeOK
<1>1. new \in ClientMessages /\ new.ip = new.server
  BY DEF ClientMessages
<1>2. onWire' \subseteq onWire \cup {new} /\ answers' \subseteq answers
  BY DEF SendRequest, RepeatRequest
<1>3. onWire' \subseteq ClientMessages /\ answers' \subseteq Answers
  BY <1>1, <1>2
<1>4. MessagesTrue'
  <2> HIDE DEF new
  <2> QED BY <1>1, <1>2 DEF MessagesTrue
<1> QED BY <1>3, <1>4

(* The timeout changes what the client knows only where it starts again.   *)
LEMMA TimeoutKeepsChoice ==
  ASSUME LeaseInv, NEW s \in DhcpServers \cup {NoServer}, CheckTimeout(s),
         dhcpState \in {"DISCOVER", "REQUEST", "REREQUEST"},
         dhcpState \in Exchanging => s = sip,
         UNCHANGED <<allocated, oldAllocated, chipIp, granted>>
  PROVE  /\ dhcpState' \in DhcpStates /\ dhcpRetry' \in 0 .. DhcpRetries
         /\ dhcpTick' \in 0 .. MaxLease
         /\ sip' \in DhcpServers \cup {NoServer}
         /\ onWire' \subseteq ClientMessages /\ answers' \subseteq Answers
         /\ MessagesTrue' /\ ChoiceKept'
<1> USE DhcpAssumption, LongestLease
<1>t. DhcpTypeOK /\ MessagesTrue /\ ChoiceKept
  BY DEF LeaseInv
<1>d. Discover \in ClientMessages /\ Discover.type = "DISCOVER"
  BY DEF Discover, ClientMessages
<1>s. ASSUME SendDiscover, UNCHANGED answers
      PROVE  onWire' \subseteq ClientMessages /\ answers' \subseteq Answers /\ MessagesTrue'
  BY <1>t, <1>d, <1>s DEF SendDiscover, DhcpTypeOK, MessagesTrue
<1>1. CASE GivesUp /\ dhcpState = "DISCOVER"
  <2>1. /\ dhcpTick' = 0 /\ dhcpRetry' = 0 /\ dhcpState' = "INIT" /\ sip' = s
        /\ UNCHANGED <<onWire, answers>>
    BY <1>1 DEF CheckTimeout, ResetTimeout
  <2> QED BY <1>t, <2>1
          DEF DhcpTypeOK, DhcpStates, MessagesTrue, ChoiceKept, Exchanging, Leasing
<1>2. CASE GivesUp /\ dhcpState # "DISCOVER"
  <2>1. /\ dhcpTick' = 0 /\ dhcpRetry' = 0 /\ dhcpState' = "DISCOVER"
        /\ SendDiscover /\ UNCHANGED answers
    BY <1>2 DEF CheckTimeout, ResetTimeout
  <2>2. sip' = NoServer
    BY <2>1 DEF SendDiscover
  <2> QED BY <1>s, <2>1, <2>2 DEF DhcpStates, ChoiceKept, Exchanging, Leasing
<1>3. CASE ~GivesUp /\ TimesOut
  <2>1. /\ dhcpTick' = 0 /\ dhcpRetry' = dhcpRetry + 1
        /\ UNCHANGED <<dhcpState, answers>>
    BY <1>3 DEF CheckTimeout
  <2>2. dhcpRetry' \in 0 .. DhcpRetries
    BY <1>3, <1>t, <2>1 DEF GivesUp, DhcpTypeOK
  <2>3. CASE dhcpState = "DISCOVER"
    <3>1. SendDiscover
      BY <1>3, <2>3 DEF CheckTimeout
    <3>2. sip' = NoServer
      BY <3>1 DEF SendDiscover
    <3> QED BY <1>t, <1>s, <2>1, <2>2, <2>3, <3>1, <3>2
            DEF DhcpTypeOK, ChoiceKept, Exchanging, Leasing
  <2>4. CASE dhcpState \in Exchanging
    <3>1. sip = s /\ s \in DhcpServers /\ allocated = s
      BY <1>t, <2>4 DEF ChoiceKept
    <3>2. RepeatRequest("REQUEST", s) \/ RepeatRequest("RENEW", s)
      BY <1>3, <2>4 DEF CheckTimeout, Exchanging
    <3>3. onWire' \subseteq ClientMessages /\ answers' \subseteq Answers /\ MessagesTrue'
      BY <2>1, <3>1, <3>2, SendingIsTrue
    <3>4. sip' = sip
      BY <3>1, <3>2 DEF RepeatRequest
    <3> QED BY <1>t, <2>1, <2>2, <3>1, <3>3, <3>4 DEF DhcpTypeOK, ChoiceKept
  <2> QED BY <2>3, <2>4 DEF Exchanging
<1>4. CASE ~GivesUp /\ ~TimesOut
  <2>1. sip' = s /\ UNCHANGED <<dhcpState, dhcpTick, dhcpRetry, onWire, answers>>
    BY <1>4 DEF CheckTimeout, dhcpTimers
  <2> QED BY <1>t, <2>1 DEF DhcpTypeOK, MessagesTrue, ChoiceKept, Exchanging, Leasing
<1> QED BY <1>1, <1>2, <1>3, <1>4

LEMMA RunKeepsLease ==
  ASSUME LeaseInv, RunStep
  PROVE  LeaseInv'
<1> USE DhcpAssumption, LongestLease
<1>t. DhcpTypeOK /\ MessagesTrue /\ ChoiceKept
  BY DEF LeaseInv
<1>d. Discover \in ClientMessages /\ Discover.type = "DISCOVER"
  BY DEF Discover, ClientMessages
<1>m. PICK m \in Received :
        \/ RunInit(m) \/ RunOffer(m) \/ RunAck(m) \/ RunNak(m) \/ RunWaiting(m)
        \/ RunLeased(m) \/ RunRenew(m) \/ RunRenewed(m)
  BY DEF RunStep
<1>r. /\ ParsedSip(m) \in DhcpServers \cup {NoServer}
      /\ sip # NoServer => ParsedSip(m) = sip
      /\ m.type \in {"OFFER", "ACK", "NAK"} =>
           /\ m \in answers /\ m.server \in DhcpServers /\ m.ip = m.server
           /\ ParsedSip(m) = m.server /\ m.server # NoServer
  BY ReceivedIsTrue
<1>c. /\ sockOpen' \in BOOLEAN /\ polled' \in BOOLEAN
      /\ leaseTime' \in LeaseTimes \cup {Infinite}
      /\ UNCHANGED <<leaseOf, granted, grantAge, naks>>
  BY <1>m, ReceivedIsTrue
     DEF RunInit, RunOffer, RunAck, RunNak, RunWaiting, RunLeased, RunRenew,
         RunRenewed, DhcpRun, dhcpServer
<1> DEFINE Kept == /\ dhcpState' \in DhcpStates /\ dhcpRetry' \in 0 .. DhcpRetries
                   /\ dhcpTick' \in 0 .. MaxLease
                   /\ sip' \in DhcpServers \cup {NoServer}
                   /\ {allocated, oldAllocated, chipIp}' \subseteq DhcpServers \cup {NoServer}
                   /\ onWire' \subseteq ClientMessages /\ answers' \subseteq Answers
<1>q. Kept /\ MessagesTrue' /\ ChoiceKept' => LeaseInv'
  BY <1>t, <1>c DEF LeaseInv, DhcpTypeOK
<1>1. CASE RunInit(m)
  <2>1. /\ allocated' = NoServer /\ SendDiscover /\ dhcpState' = "DISCOVER"
        /\ UNCHANGED <<dhcpRetry, dhcpTick, oldAllocated, chipIp, answers>>
    BY <1>1 DEF RunInit, dhcpTimers
  <2>2. Kept
    BY <1>t, <1>d, <2>1 DEF SendDiscover, DhcpTypeOK, DhcpStates
  <2>3. MessagesTrue' /\ ChoiceKept'
    BY <1>t, <1>c, <1>d, <2>1
       DEF SendDiscover, MessagesTrue, ChoiceKept, Exchanging, Leasing
  <2> QED BY <1>q, <2>2, <2>3
<1>2. CASE RunOffer(m)
  <2>1. /\ m.type = "OFFER" /\ sip' = m.server /\ allocated' = m.ip
        /\ SendRequest("REQUEST", m.ip, m.server) /\ dhcpState' = "REQUEST"
        /\ UNCHANGED <<dhcpRetry, dhcpTick, oldAllocated, chipIp>>
    BY <1>2 DEF RunOffer, dhcpTimers
  <2>2. m.server \in DhcpServers /\ m.ip = m.server
    BY <1>r, <2>1
  <2>3. onWire' \subseteq ClientMessages /\ answers' \subseteq Answers /\ MessagesTrue'
    BY <1>c, <2>1, <2>2, SendingIsTrue
  <2>4. Kept
    BY <1>t, <2>1, <2>2, <2>3 DEF DhcpTypeOK, DhcpStates
  <2>5. ChoiceKept'
    BY <2>1, <2>2 DEF ChoiceKept, Exchanging, Leasing
  <2> QED BY <1>q, <2>3, <2>4, <2>5
<1>3. CASE RunAck(m) \/ RunRenewed(m)
  <2>1. /\ dhcpState \in Exchanging /\ m.type = "ACK" /\ sip' = m.server
        /\ dhcpTick' = 0 /\ dhcpRetry' = 0 /\ dhcpState' = "LEASED"
        /\ UNCHANGED <<allocated, oldAllocated, onWire, answers>>
        /\ \/ chipIp' = allocated
           \/ dhcpState = "REREQUEST"
              /\ chipIp' = IF oldAllocated # allocated THEN allocated ELSE chipIp
    BY <1>3 DEF RunAck, RunRenewed, ResetTimeout, dhcpNet, Exchanging
  <2>2. m.server = sip /\ sip \in granted /\ allocated = sip
    BY <1>t, <1>r, <2>1 DEF MessagesTrue, ChoiceKept
  <2>3. chipIp' = allocated
    BY <1>t, <2>1 DEF ChoiceKept, Leasing
  <2>4. Kept
    BY <1>t, <2>1, <2>2, <2>3 DEF DhcpTypeOK, DhcpStates
  <2>5. MessagesTrue' /\ ChoiceKept'
    BY <1>t, <1>c, <2>1, <2>2, <2>3 DEF MessagesTrue, ChoiceKept, DhcpTypeOK
  <2> QED BY <1>q, <2>4, <2>5
<1>4. CASE RunNak(m)
  <2>1. /\ m.type = "NAK" /\ sip' = m.server
        /\ dhcpTick' = 0 /\ dhcpRetry' = 0 /\ dhcpState' = "DISCOVER"
        /\ UNCHANGED <<allocated, oldAllocated, chipIp, onWire, answers>>
    BY <1>4 DEF RunNak, ResetTimeout, dhcpNet
  <2>2. Kept
    BY <1>t, <1>r, <2>1 DEF DhcpTypeOK, DhcpStates
  <2>3. MessagesTrue' /\ ChoiceKept'
    BY <1>t, <1>c, <2>1 DEF MessagesTrue, ChoiceKept, Exchanging, Leasing
  <2> QED BY <1>q, <2>2, <2>3
<1>5. CASE RunWaiting(m)
  <2>1. /\ dhcpState \in {"DISCOVER", "REQUEST", "REREQUEST"}
        /\ CheckTimeout(ParsedSip(m)) /\ UNCHANGED <<allocated, oldAllocated, chipIp>>
    BY <1>5 DEF RunWaiting
  <2>2. dhcpState \in Exchanging => ParsedSip(m) = sip
    BY <1>t, <1>r DEF ChoiceKept
  <2>3. Kept /\ MessagesTrue' /\ ChoiceKept'
    <3>1. /\ dhcpState' \in DhcpStates /\ dhcpRetry' \in 0 .. DhcpRetries
          /\ dhcpTick' \in 0 .. MaxLease
          /\ sip' \in DhcpServers \cup {NoServer}
          /\ onWire' \subseteq ClientMessages /\ answers' \subseteq Answers
          /\ MessagesTrue' /\ ChoiceKept'
      BY <1>r, <1>c, <2>1, <2>2, TimeoutKeepsChoice
    <3> QED BY <1>t, <2>1, <3>1 DEF DhcpTypeOK
  <2> QED BY <1>q, <2>3
<1>6. CASE RunLeased(m)
  <2>1. /\ dhcpState = "LEASED" /\ sip' = ParsedSip(m)
        /\ UNCHANGED <<dhcpState, dhcpRetry, dhcpTick, allocated, oldAllocated,
                       chipIp, onWire, answers>>
    BY <1>6 DEF RunLeased, dhcpTimers, dhcpNet
  <2>2. sip' = sip
    BY <1>t, <1>r, <2>1 DEF ChoiceKept, Leasing
  <2>3. Kept
    BY <1>t, <2>1, <2>2 DEF DhcpTypeOK
  <2>4. MessagesTrue' /\ ChoiceKept'
    BY <1>t, <1>c, <2>1, <2>2 DEF MessagesTrue, ChoiceKept
  <2> QED BY <1>q, <2>3, <2>4
<1>7. CASE RunRenew(m)
  <2>1. /\ dhcpState = "LEASED" /\ sip' = ParsedSip(m)
        /\ oldAllocated' = allocated /\ SendRequest("RENEW", allocated, sip')
        /\ dhcpTick' = 0 /\ dhcpRetry' = 0 /\ dhcpState' = "REREQUEST"
        /\ UNCHANGED <<allocated, chipIp>>
    BY <1>7 DEF RunRenew, ResetTimeout
  <2>2. /\ sip' = sip /\ sip \in DhcpServers /\ allocated = sip
        /\ chipIp = allocated /\ sip \in granted
    BY <1>t, <1>r, <2>1 DEF ChoiceKept, Leasing
  <2>3. onWire' \subseteq ClientMessages /\ answers' \subseteq Answers /\ MessagesTrue'
    BY <1>c, <2>1, <2>2, SendingIsTrue
  <2>4. Kept
    BY <1>t, <2>1, <2>2, <2>3 DEF DhcpTypeOK, DhcpStates
  <2>5. ChoiceKept'
    BY <1>c, <2>1, <2>2 DEF ChoiceKept
  <2> QED BY <1>q, <2>3, <2>4, <2>5
<1> QED BY <1>m, <1>1, <1>2, <1>3, <1>4, <1>5, <1>6, <1>7

(* An answer more of a server that says the truth.                         *)
LEMMA AnsweringIsTrue ==
  ASSUME LeaseInv, NEW s \in DhcpServers, NEW type \in {"OFFER", "ACK", "NAK"},
         Answer(type, s, s), type = "ACK" => s \in granted',
         granted' \in {granted, granted \cup {s}},
         grantAge' \in [DhcpServers -> 0 .. MaxLease + 1], naks' \in 0 .. MaxNaks
  PROVE  LeaseInv'
<1> DEFINE new == [type |-> type, ip |-> s, server |-> s]
<1> USE DEF LeaseInv
<1>1. /\ answers' = answers \cup {new}
      /\ UNCHANGED <<dhcpState, dhcpRetry, dhcpTick, sip, allocated, oldAllocated,
                     leaseTime, chipIp, sockOpen, polled, onWire, leaseOf>>
  BY DEF Answer, dhcpTimers
<1>2. new \in Answers /\ new.ip = new.server /\ new.type = type /\ new.server = s
  BY DEF Answers
<1> HIDE DEF new
<1>3. DhcpTypeOK'
  BY <1>1, <1>2 DEF DhcpTypeOK
<1>4. MessagesTrue' /\ ChoiceKept'
  BY <1>1, <1>2 DEF MessagesTrue, ChoiceKept
<1> QED BY <1>3, <1>4

LEMMA RestKeepsLease ==
  ASSUME LeaseInv,
         \/ DhcpTick \/ DhcpStop \/ DhcpRestart
         \/ \E s \in DhcpServers : Offer(s) \/ Acknowledge(s) \/ Refuse(s)
  PROVE  LeaseInv'
<1> USE DhcpAssumption, LongestLease
<1>t. DhcpTypeOK /\ MessagesTrue /\ ChoiceKept
  BY DEF LeaseInv
<1>1. CASE DhcpTick
  <2>0. dhcpTick' \in 0 .. MaxLease
    BY <1>1, <1>t DEF DhcpTick, DhcpTypeOK
  <2>1. /\ polled' \in BOOLEAN
        /\ UNCHANGED <<dhcpState, dhcpRetry, sip, allocated, oldAllocated, leaseTime,
                       chipIp, sockOpen, onWire, answers, leaseOf, granted, naks>>
    BY <1>1 DEF DhcpTick, dhcpNet
  <2>2. grantAge' \in [DhcpServers -> 0 .. MaxLease + 1]
    <3>1. ASSUME NEW s \in DhcpServers
          PROVE  grantAge[s] \in 0 .. MaxLease + 1
                 /\ (grantAge[s] <= MaxLease => grantAge[s] + 1 \in 0 .. MaxLease + 1)
      BY <1>t DEF DhcpTypeOK
    <3> QED BY <1>1, <3>1 DEF DhcpTick
  <2>3. DhcpTypeOK'
    BY <1>t, <2>0, <2>1, <2>2 DEF DhcpTypeOK
  <2>4. MessagesTrue' /\ ChoiceKept'
    BY <1>t, <2>1 DEF MessagesTrue, ChoiceKept
  <2> QED BY <2>3, <2>4 DEF LeaseInv
<1>2. CASE DhcpStop
  <2>1. /\ dhcpState' = "STOP" /\ sockOpen' = FALSE
        /\ UNCHANGED <<dhcpRetry, dhcpTick, sip, allocated, oldAllocated, leaseTime,
                       chipIp, polled, onWire, answers, leaseOf, granted, grantAge, naks>>
    BY <1>2 DEF DhcpStop, dhcpTimers, dhcpNet, dhcpServer
  <2> QED BY <1>t, <2>1
          DEF LeaseInv, DhcpTypeOK, DhcpStates, MessagesTrue, ChoiceKept, Exchanging, Leasing
<1>3. CASE DhcpRestart
  <2>1. /\ dhcpState' = "INIT" /\ dhcpTick' = 0 /\ dhcpRetry' = 0 /\ chipIp' = NoServer
        /\ UNCHANGED <<sip, allocated, oldAllocated, leaseTime, sockOpen, polled,
                       onWire, answers, leaseOf, granted, grantAge, naks>>
    BY <1>3 DEF DhcpRestart, ResetTimeout, dhcpNet, dhcpServer
  <2>2. DhcpTypeOK'
    BY <1>t, <2>1 DEF DhcpTypeOK, DhcpStates
  <2>3. MessagesTrue' /\ ChoiceKept'
    BY <1>t, <2>1 DEF MessagesTrue, ChoiceKept, Exchanging, Leasing
  <2> QED BY <2>2, <2>3 DEF LeaseInv
<1>4. ASSUME NEW s \in DhcpServers, Offer(s) PROVE LeaseInv'
  <2>1. Answer("OFFER", s, s) /\ UNCHANGED <<granted, grantAge, naks>>
    BY <1>4 DEF Offer
  <2> QED BY <1>t, <2>1, AnsweringIsTrue DEF DhcpTypeOK
<1>5. ASSUME NEW s \in DhcpServers, Acknowledge(s) PROVE LeaseInv'
  <2>1. PICK m \in Requested(s) : Answer("ACK", m.ip, s)
    BY <1>5 DEF Acknowledge
  <2>2. m.ip = s
    BY <1>t DEF Requested, MessagesTrue
  <2>3. /\ granted' = granted \cup {s} /\ grantAge' = [grantAge EXCEPT ![s] = 0]
        /\ naks' = naks
    BY <1>5 DEF Acknowledge
  <2>4. grantAge' \in [DhcpServers -> 0 .. MaxLease + 1]
    BY <1>t, <2>3 DEF DhcpTypeOK
  <2>5. Answer("ACK", s, s)
    BY <2>1, <2>2
  <2> QED BY <1>t, <2>3, <2>4, <2>5, AnsweringIsTrue DEF DhcpTypeOK
<1>6. ASSUME NEW s \in DhcpServers, Refuse(s) PROVE LeaseInv'
  <2>1. PICK m \in Requested(s) : Answer("NAK", m.ip, s)
    BY <1>6 DEF Refuse
  <2>2. m.ip = s
    BY <1>t DEF Requested, MessagesTrue
  <2>3. naks' \in 0 .. MaxNaks /\ UNCHANGED <<granted, grantAge>>
    BY <1>6, <1>t DEF Refuse, DhcpTypeOK
  <2>4. Answer("NAK", s, s)
    BY <2>1, <2>2
  <2> QED BY <1>t, <2>3, <2>4, AnsweringIsTrue DEF DhcpTypeOK
<1> QED BY <1>1, <1>2, <1>3, <1>4, <1>5, <1>6

LEMMA LeaseStep == LeaseInv /\ [DhcpNext]_dhcpVars => LeaseInv'
<1>1. LeaseInv /\ DhcpNext => LeaseInv'
  BY RunKeepsLease, RestKeepsLease DEF DhcpNext
<1>2. LeaseInv /\ UNCHANGED dhcpVars => LeaseInv'
  BY DEF LeaseInv, DhcpTypeOK, MessagesTrue, ChoiceKept, dhcpVars, dhcpTimers,
         dhcpNet, dhcpServer
<1> QED BY <1>1, <1>2

-----------------------------------------------------------------------------
(* How a request grows older: with a tick, and with a call that finds its  *)
(* time used, or not.  A new one is no age, and none is older than the     *)
(* retries together.                                                       *)
LEMMA AgeGrows ==
  ASSUME NEW age \in Int, NEW retry \in 0 .. DhcpRetries, NEW tick \in Nat,
         NEW late \in {0, 1}
  PROVE  /\ age <= 0 => Aged(age, retry, tick, late)
         /\ Aged(age, retry, tick, 0) => Aged(age + 1, retry, tick + 1, 1)
         /\ Aged(age, retry, tick, late) =>
              /\ age <= RenewalTime - 1
              /\ retry < DhcpRetries => Aged(age, retry + 1, 0, 0)
              /\ retry < DhcpRetries /\ tick <= DhcpWait => Aged(age, retry, tick, 0)
              /\ \A b \in Int : b <= age => Aged(b, retry, tick, late)
<1>1. /\ DhcpRetries \in Nat \ {0} /\ DhcpWait \in Nat \ {0}
      /\ RenewalTime = Waited(DhcpRetries) + 2
      /\ Waited(retry) \in Nat /\ Waited(DhcpRetries) \in Nat
      /\ Waited(retry) <= Waited(DhcpRetries)
      /\ Waited(retry + 1) = Waited(retry) + DhcpWait + 1
  BY WaitedAdds, DhcpAssumption
<1>2. retry < DhcpRetries => Waited(retry + 1) <= Waited(DhcpRetries)
  BY <1>1, WaitedAdds
<1>3. retry = DhcpRetries => Waited(retry) = Waited(DhcpRetries)
  OBVIOUS
<1> QED BY <1>1, <1>2, <1>3 DEF Aged

(* Half a lease is less than the lease.                                    *)
LEMMA HalfLease ==
  ASSUME NEW t \in LeaseTimes \cup {Infinite}
  PROVE  /\ t \in Nat /\ t \div 2 \in Nat
         /\ t # Infinite => t \div 2 < MaxLease /\ t - t \div 2 >= 2 * RenewalTime - 1
<1>1. t \in Nat
  BY DhcpAssumption DEF Infinite
<1>2. t # Infinite => t <= MaxLease /\ t - t \div 2 >= 2 * RenewalTime - 1
  BY LongestLease, DhcpAssumption
<1>3. t \div 2 \in Nat /\ (t # 0 => t \div 2 < t)
  BY <1>1
<1> QED BY <1>1, <1>2, <1>3, LongestLease DEF Infinite

LEMMA TimeStarts == DhcpInit => TimeInv
BY DEF DhcpInit, TimeInv, TimerLookedAt, Unpolled, LeaseKnown, GrantIsYoung,
       GrantIsCounted, Exchanging, Leasing

LEMMA TickKeepsTime ==
  ASSUME LeaseInv, TimeInv, DhcpTick
  PROVE  TimeInv'
<1>t. DhcpTypeOK /\ ChoiceKept
  BY DEF LeaseInv
<1>i. TimerLookedAt /\ LeaseKnown /\ GrantIsYoung /\ GrantIsCounted
  BY DEF TimeInv
<1>n. /\ MaxLease \in Nat /\ DhcpWait \in Nat \ {0} /\ DhcpWait + 3 <= MaxLease
      /\ dhcpTick \in Nat /\ dhcpRetry \in 0 .. DhcpRetries /\ RenewalTime \in Nat
      /\ leaseTime \in LeaseTimes \cup {Infinite}
  BY <1>t, LongestLease, WaitedAdds, DhcpAssumption DEF DhcpTypeOK
<1>h. leaseTime \in Nat /\ leaseTime \div 2 \in Nat
      /\ (leaseTime # Infinite => leaseTime \div 2 < MaxLease)
  BY <1>n, HalfLease
<1>1. /\ polled /\ ~polled' /\ Unpolled = 0 /\ Unpolled' = 1
      /\ dhcpTick < MaxLease => dhcpTick' = dhcpTick + 1
      /\ UNCHANGED <<dhcpState, dhcpRetry, sip, allocated, leaseTime, answers,
                     leaseOf>>
  BY DEF DhcpTick, dhcpNet, Unpolled
<1>2. ASSUME sip \in DhcpServers
      PROVE  grantAge[sip] \in Int /\ grantAge'[sip] \in Int
             /\ grantAge'[sip] <= grantAge[sip] + 1
  BY <1>t, <1>n, <1>2 DEF DhcpTick, DhcpTypeOK
<1>3. dhcpState \in {"INIT", "DISCOVER"} \cup Exchanging =>
        dhcpTick < MaxLease /\ dhcpTick' = dhcpTick + 1
  BY <1>i, <1>n, <1>1 DEF TimerLookedAt, Exchanging
<1>4. dhcpState = "LEASED" /\ leaseTime # Infinite => dhcpTick' = dhcpTick + 1
  BY <1>i, <1>n, <1>h, <1>1 DEF TimerLookedAt
<1>5. TimerLookedAt'
  BY <1>i, <1>n, <1>h, <1>1, <1>3, <1>4 DEF TimerLookedAt, Exchanging
<1>6. LeaseKnown'
  BY <1>i, <1>1 DEF LeaseKnown
<1>7. ASSUME dhcpState \in Exchanging, NEW age \in Int, NEW older \in Int,
             older <= age + 1, OfAge(age)
      PROVE  Aged(older, dhcpRetry', dhcpTick', Unpolled')
  <2>1. Aged(age, dhcpRetry, dhcpTick, 0)
    BY <1>1, <1>7 DEF OfAge
  <2>2. Aged(age + 1, dhcpRetry, dhcpTick + 1, 1)
    BY <1>n, <2>1, AgeGrows
  <2>3. Aged(older, dhcpRetry, dhcpTick + 1, 1)
    BY <1>n, <1>7, <2>2, AgeGrows
  <2> QED BY <1>1, <1>3, <1>7, <2>3
<1>8. GrantIsYoung'
  <2> SUFFICES ASSUME dhcpState' \in Exchanging, NEW m \in answers',
                      m.type = "ACK" /\ m.server = sip'
               PROVE  Aged(grantAge'[sip'], dhcpRetry', dhcpTick', Unpolled')
    BY DEF GrantIsYoung, OfAge
  <2>1. sip \in DhcpServers /\ OfAge(grantAge[sip])
    BY <1>t, <1>i, <1>1 DEF GrantIsYoung, ChoiceKept
  <2> QED BY <1>1, <1>2, <1>7, <2>1
<1>9. GrantIsCounted'
  <2> SUFFICES ASSUME leaseTime # Infinite PROVE GrantIsCounted'
    BY <1>1 DEF GrantIsCounted
  <2>1. CASE dhcpState = "LEASED"
    <3>1. sip \in DhcpServers /\ grantAge[sip] <= dhcpTick + RenewalTime - 1
      BY <1>t, <1>i, <2>1 DEF GrantIsCounted, ChoiceKept, Leasing
    <3>2. grantAge'[sip] <= dhcpTick' + RenewalTime - 1
      BY <1>2, <1>4, <1>n, <2>1, <3>1
    <3> QED BY <1>1, <2>1, <3>2 DEF GrantIsCounted
  <2>2. CASE dhcpState = "REREQUEST"
    <3>1. /\ sip \in DhcpServers
          /\ OfAge(grantAge[sip] - leaseTime \div 2 - RenewalTime)
      BY <1>t, <1>i, <2>2 DEF GrantIsCounted, ChoiceKept, Leasing
    <3> DEFINE age == grantAge[sip] - leaseTime \div 2 - RenewalTime
               older == grantAge'[sip] - leaseTime \div 2 - RenewalTime
    <3>2. age \in Int /\ older \in Int /\ older <= age + 1
      BY <1>2, <1>n, <1>h, <3>1
    <3> HIDE DEF age, older
    <3>3. OfAge(age)
      BY <3>1 DEF age
    <3>4. Aged(older, dhcpRetry', dhcpTick', Unpolled')
      BY <1>7, <2>2, <3>2, <3>3 DEF Exchanging
    <3> QED BY <1>1, <2>2, <3>4 DEF GrantIsCounted, OfAge, older
  <2>3. CASE dhcpState \notin Leasing
    BY <1>1, <2>3 DEF GrantIsCounted, Leasing
  <2> QED BY <2>1, <2>2, <2>3 DEF Leasing
<1> QED BY <1>5, <1>6, <1>8, <1>9 DEF TimeInv

(* The timeout of a state that waits: it gives up, asks again, or goes on. *)
LEMMA TimeoutKeepsTime ==
  ASSUME LeaseInv, TimeInv, NEW m \in Received, RunWaiting(m)
  PROVE  TimeInv'
<1>t. DhcpTypeOK /\ ChoiceKept
  BY DEF LeaseInv
<1>i. TimerLookedAt /\ LeaseKnown /\ GrantIsYoung /\ GrantIsCounted
  BY DEF TimeInv
<1>n. /\ DhcpWait \in Nat \ {0} /\ DhcpRetries \in Nat \ {0}
      /\ dhcpTick \in Nat /\ dhcpRetry \in 0 .. DhcpRetries
      /\ Unpolled \in {0, 1} /\ Unpolled' = 0
  BY <1>t, DhcpAssumption DEF DhcpTypeOK, Unpolled, RunWaiting, DhcpRun
<1>r. /\ dhcpState \in Exchanging => ParsedSip(m) = sip /\ leaseTime' = leaseTime
      /\ UNCHANGED <<leaseOf, granted, grantAge, answers>>
      /\ CheckTimeout(ParsedSip(m))
  BY <1>t, <1>i, ReceivedIsTrue, DhcpAssumption
     DEF RunWaiting, DhcpRun, dhcpServer, CheckTimeout, ChoiceKept, LeaseKnown
<1>1. CASE GivesUp \/ dhcpState = "DISCOVER"
  <2>1. /\ dhcpState' \in {"INIT", "DISCOVER"}
        /\ dhcpState' = "INIT" => dhcpTick' = 0 /\ dhcpRetry' = 0
        /\ dhcpTick' <= DhcpWait
    <3>1. CASE GivesUp
      BY <1>n, <1>r, <3>1 DEF CheckTimeout, ResetTimeout
    <3>2. CASE ~GivesUp /\ dhcpState = "DISCOVER" /\ TimesOut
      BY <1>n, <1>r, <3>2 DEF CheckTimeout
    <3>3. CASE ~GivesUp /\ dhcpState = "DISCOVER" /\ ~TimesOut
      BY <1>n, <1>r, <3>3 DEF CheckTimeout, TimesOut, dhcpTimers
    <3> QED BY <1>1, <3>1, <3>2, <3>3
  <2> QED BY <1>n, <2>1
          DEF TimeInv, TimerLookedAt, LeaseKnown, GrantIsYoung, GrantIsCounted,
              Exchanging, Leasing
<1>2. CASE ~GivesUp /\ dhcpState # "DISCOVER"
  <2>1. dhcpState \in Exchanging /\ dhcpState' = dhcpState
    BY <1>2, <1>r DEF RunWaiting, CheckTimeout, Exchanging
  <2>2. /\ dhcpRetry < DhcpRetries
        /\ sip' = sip /\ sip \in DhcpServers
        /\ \/ DhcpWait < dhcpTick /\ dhcpTick' = 0 /\ dhcpRetry' = dhcpRetry + 1
           \/ ~(DhcpWait < dhcpTick) /\ UNCHANGED <<dhcpTick, dhcpRetry>>
    <3>1. dhcpRetry < DhcpRetries
      BY <1>n, <1>2 DEF GivesUp
    <3>2. CASE TimesOut
      BY <1>t, <1>2, <1>r, <2>1, <3>1, <3>2
         DEF CheckTimeout, TimesOut, RepeatRequest, Exchanging, ChoiceKept
    <3>3. CASE ~TimesOut
      BY <1>t, <1>2, <1>r, <2>1, <3>1, <3>3
         DEF CheckTimeout, TimesOut, dhcpTimers, ChoiceKept
    <3> QED BY <3>2, <3>3
  <2>3. TimerLookedAt' /\ LeaseKnown'
    BY <1>n, <1>i, <1>r, <2>1, <2>2
       DEF TimerLookedAt, LeaseKnown, Exchanging, Leasing
  <2>4. ASSUME NEW age \in Int, OfAge(age)
        PROVE  Aged(age, dhcpRetry', dhcpTick', Unpolled')
    BY <1>n, <2>2, <2>4, AgeGrows DEF OfAge
  <2>5. grantAge[sip] \in Nat /\ leaseTime \div 2 \in Nat /\ RenewalTime \in Nat
    BY <1>t, <2>2, HalfLease, WaitedAdds DEF DhcpTypeOK
  <2>6. GrantIsYoung'
    BY <1>i, <1>r, <2>1, <2>2, <2>4, <2>5 DEF GrantIsYoung, OfAge
  <2>7. GrantIsCounted'
    <3>1. grantAge[sip] - leaseTime \div 2 - RenewalTime \in Int
      BY <2>5
    <3> QED BY <1>i, <1>r, <2>1, <2>2, <2>4, <3>1 DEF GrantIsCounted, OfAge, Exchanging
  <2> QED BY <2>3, <2>6, <2>7 DEF TimeInv
<1> QED BY <1>1, <1>2

LEMMA RunKeepsTime ==
  ASSUME ~LateAnswers, LeaseInv, TimeInv, RunStep
  PROVE  TimeInv'
<1>t. DhcpTypeOK /\ ChoiceKept
  BY DEF LeaseInv
<1>i. TimerLookedAt /\ LeaseKnown /\ GrantIsYoung /\ GrantIsCounted
  BY DEF TimeInv
<1>m. PICK m \in Received :
        \/ RunInit(m) \/ RunOffer(m) \/ RunAck(m) \/ RunNak(m) \/ RunWaiting(m)
        \/ RunLeased(m) \/ RunRenew(m) \/ RunRenewed(m)
  BY DEF RunStep
<1>n. /\ DhcpWait \in Nat \ {0} /\ DhcpRetries \in Nat \ {0}
      /\ dhcpTick \in Nat /\ dhcpRetry \in 0 .. DhcpRetries
      /\ leaseTime \in LeaseTimes \cup {Infinite} /\ RenewalTime \in Nat
      /\ Unpolled \in {0, 1}
  BY <1>t, WaitedAdds, DhcpAssumption DEF DhcpTypeOK, Unpolled
<1>h. leaseTime \in Nat /\ leaseTime \div 2 \in Nat
  BY <1>n, HalfLease
<1>r. /\ sip # NoServer => ParsedSip(m) = sip
      /\ ParsedSip(m) # NoServer /\ leaseTime = leaseOf[ParsedSip(m)] =>
           ParsedLease(m) = leaseOf[ParsedSip(m)]
      /\ m.type \in {"OFFER", "ACK", "NAK"} =>
           /\ m \in answers /\ m.server \in DhcpServers /\ ParsedSip(m) = m.server
           /\ m.type \in {"OFFER", "ACK"} => ParsedLease(m) = leaseOf[m.server]
  BY ReceivedIsTrue
<1>c. /\ polled' /\ Unpolled' = 0 /\ leaseTime' = ParsedLease(m)
      /\ UNCHANGED <<leaseOf, granted, grantAge>>
  BY <1>m DEF RunInit, RunOffer, RunAck, RunNak, RunWaiting, RunLeased, RunRenew,
              RunRenewed, DhcpRun, dhcpServer, Unpolled
<1>s. dhcpState \in Exchanging \cup Leasing =>
        /\ sip \in DhcpServers /\ sip # NoServer /\ ParsedSip(m) = sip
        /\ leaseTime' = leaseTime /\ leaseTime = leaseOf[sip]
        /\ grantAge[sip] \in Nat
  BY <1>t, <1>i, <1>r, <1>c, DhcpAssumption DEF ChoiceKept, LeaseKnown, DhcpTypeOK
<1>1. CASE RunInit(m) \/ RunNak(m)
  <2>1. dhcpState' = "DISCOVER" /\ dhcpTick' \in Nat /\ dhcpTick' <= DhcpWait
    BY <1>1, <1>i, <1>n DEF RunInit, RunNak, ResetTimeout, TimerLookedAt, dhcpTimers
  <2> QED BY <1>n, <1>c, <2>1 DEF TimeInv, TimerLookedAt, LeaseKnown, GrantIsYoung,
                            GrantIsCounted, Exchanging, Leasing
<1>2. CASE RunOffer(m)
  <2>1. /\ dhcpState = "DISCOVER" /\ m.type = "OFFER" /\ sip' = m.server
        /\ SendRequest("REQUEST", m.ip, m.server) /\ dhcpState' = "REQUEST"
        /\ UNCHANGED <<dhcpTick, dhcpRetry>>
    BY <1>2 DEF RunOffer, dhcpTimers
  <2>2. \A a \in answers' : a.type = "OFFER"
    BY <2>1 DEF SendRequest
  <2>3. TimerLookedAt' /\ LeaseKnown'
    BY <1>i, <1>n, <1>r, <1>c, <2>1 DEF TimerLookedAt, LeaseKnown, Exchanging
  <2>4. GrantIsYoung' /\ GrantIsCounted'
    BY <2>1, <2>2 DEF GrantIsYoung, GrantIsCounted
  <2> QED BY <2>3, <2>4 DEF TimeInv
<1>3. CASE RunAck(m) \/ RunRenewed(m)
  <2>1. /\ dhcpState \in Exchanging /\ m.type = "ACK" /\ sip' = m.server
        /\ dhcpTick' = 0 /\ dhcpState' = "LEASED"
    BY <1>3 DEF RunAck, RunRenewed, ResetTimeout, Exchanging
  <2>2. sip' = sip /\ m \in answers /\ m.server = sip
    BY <1>r, <1>s, <2>1
  <2>3. grantAge[sip] <= RenewalTime - 1
    <3>1. Aged(grantAge[sip], dhcpRetry, dhcpTick, Unpolled)
      BY <1>i, <2>1, <2>2 DEF GrantIsYoung, OfAge
    <3>2. grantAge[sip] \in Int
      BY <1>s, <2>1
    <3> QED BY <1>n, <3>1, <3>2, AgeGrows
  <2> QED BY <1>n, <1>h, <1>c, <1>s, <2>1, <2>2, <2>3
          DEF TimeInv, TimerLookedAt, LeaseKnown, GrantIsYoung, GrantIsCounted, Exchanging
<1>4. CASE RunWaiting(m)
  BY <1>4, TimeoutKeepsTime
<1>5. CASE RunLeased(m)
  <2>1. /\ dhcpState = "LEASED" /\ ~RenewalDue(leaseTime') /\ sip' = ParsedSip(m)
        /\ UNCHANGED <<dhcpState, dhcpTick, dhcpRetry, answers>>
    BY <1>5, <1>c DEF RunLeased, dhcpTimers, dhcpNet
  <2>2. sip' = sip /\ leaseTime' = leaseTime
    BY <1>s, <2>1 DEF Leasing
  <2>3. TimerLookedAt'
    BY <1>n, <1>h, <1>c, <2>1, <2>2 DEF TimerLookedAt, RenewalDue, Exchanging
  <2> QED BY <1>i, <1>c, <2>1, <2>2, <2>3
          DEF TimeInv, LeaseKnown, GrantIsYoung, GrantIsCounted, Exchanging
<1>6. CASE RunRenew(m)
  <2>1. /\ dhcpState = "LEASED" /\ sip' = ParsedSip(m)
        /\ SendRequest("RENEW", allocated, sip')
        /\ dhcpTick' = 0 /\ dhcpRetry' = 0 /\ dhcpState' = "REREQUEST"
    BY <1>6 DEF RunRenew, ResetTimeout
  <2>2. sip' = sip /\ leaseTime' = leaseTime
    BY <1>s, <2>1 DEF Leasing
  <2>3. \A a \in answers' : a.type = "OFFER"
    BY <2>1 DEF SendRequest
  <2>4. TimerLookedAt' /\ LeaseKnown' /\ GrantIsYoung'
    BY <1>i, <1>n, <1>c, <2>1, <2>2, <2>3
       DEF TimerLookedAt, LeaseKnown, GrantIsYoung, Leasing
  <2>5. ASSUME leaseTime # Infinite
        PROVE  Aged(grantAge[sip] - leaseTime \div 2 - RenewalTime, 0, 0, 0)
    <3>1. grantAge[sip] <= dhcpTick + RenewalTime - 1
      BY <1>i, <2>1, <2>5 DEF GrantIsCounted
    <3>2. dhcpTick <= leaseTime \div 2 + 1
      BY <1>i, <1>n, <1>h, <2>1, <2>5 DEF TimerLookedAt
    <3>3. /\ grantAge[sip] - leaseTime \div 2 - RenewalTime \in Int
          /\ grantAge[sip] - leaseTime \div 2 - RenewalTime <= 0
      BY <1>n, <1>h, <1>s, <2>1, <3>1, <3>2 DEF Leasing
    <3> QED BY <1>n, <3>3, AgeGrows
  <2>6. GrantIsCounted'
    BY <1>c, <2>1, <2>2, <2>5 DEF GrantIsCounted, OfAge
  <2> QED BY <2>4, <2>6 DEF TimeInv
<1> QED BY <1>m, <1>1, <1>2, <1>3, <1>4, <1>5, <1>6

LEMMA RestKeepsTime ==
  ASSUME LeaseInv, TimeInv,
         \/ DhcpStop \/ DhcpRestart
         \/ \E s \in DhcpServers : Offer(s) \/ Acknowledge(s) \/ Refuse(s)
  PROVE  TimeInv'
<1>t. DhcpTypeOK /\ ChoiceKept
  BY DEF LeaseInv
<1>i. TimerLookedAt /\ LeaseKnown /\ GrantIsYoung /\ GrantIsCounted
  BY DEF TimeInv
<1>n. /\ dhcpTick \in Nat /\ dhcpRetry \in 0 .. DhcpRetries /\ Unpolled \in {0, 1}
      /\ leaseTime \div 2 \in Nat /\ RenewalTime \in Nat
  BY <1>t, HalfLease, WaitedAdds DEF DhcpTypeOK, Unpolled
<1>1. CASE DhcpStop \/ DhcpRestart
  <2>1. /\ dhcpState' \in {"STOP", "INIT"}
        /\ dhcpState' = "INIT" => dhcpTick' = 0 /\ dhcpRetry' = 0
        /\ Unpolled' \in {0, 1}
    BY <1>1 DEF DhcpStop, DhcpRestart, ResetTimeout, Unpolled
  <2> QED BY <2>1 DEF TimeInv, TimerLookedAt, LeaseKnown, GrantIsYoung,
                      GrantIsCounted, Exchanging, Leasing
<1>2. ASSUME NEW s \in DhcpServers, Offer(s) \/ Acknowledge(s) \/ Refuse(s)
      PROVE  TimeInv'
  <2>1. /\ UNCHANGED <<dhcpState, dhcpTick, dhcpRetry, sip, leaseTime, polled, leaseOf>>
        /\ Unpolled' = Unpolled
        /\ \A m \in answers' : m \in answers \/ m.server = s
        /\ \A m \in answers' : m.type = "ACK" => m \in answers \/ Acknowledge(s)
    BY <1>2 DEF Offer, Acknowledge, Refuse, Answer, dhcpTimers, Unpolled
  <2>2. TimerLookedAt' /\ LeaseKnown'
    BY <1>i, <2>1 DEF TimerLookedAt, LeaseKnown
  <2>3. ASSUME sip \in DhcpServers
        PROVE  /\ grantAge[sip] \in Nat /\ grantAge'[sip] \in {0, grantAge[sip]}
               /\ Acknowledge(s) /\ s = sip => grantAge'[sip] = 0
    BY <1>t, <1>2, <2>3 DEF Offer, Acknowledge, Refuse, DhcpTypeOK
  <2>4. GrantIsYoung'
    <3> SUFFICES ASSUME dhcpState \in Exchanging, NEW m \in answers',
                        m.type = "ACK", m.server = sip
                 PROVE  Aged(grantAge'[sip], dhcpRetry, dhcpTick, Unpolled)
      BY <2>1 DEF GrantIsYoung, OfAge
    <3>1. sip \in DhcpServers
      BY <1>t DEF ChoiceKept
    <3>2. grantAge'[sip] = 0 \/ Aged(grantAge[sip], dhcpRetry, dhcpTick, Unpolled)
      <4>1. CASE m \in answers
        BY <1>i, <4>1 DEF GrantIsYoung, OfAge
      <4>2. CASE m \notin answers
        BY <2>1, <2>3, <3>1, <4>2
      <4> QED BY <4>1, <4>2
    <3>3. Aged(0, dhcpRetry, dhcpTick, Unpolled)
      BY <1>n, AgeGrows
    <3> QED BY <2>3, <3>1, <3>2, <3>3
  <2>5. GrantIsCounted'
    <3> SUFFICES ASSUME leaseTime # Infinite PROVE GrantIsCounted'
      BY <2>1 DEF GrantIsCounted
    <3>1. CASE dhcpState = "LEASED"
      <4>1. sip \in DhcpServers /\ grantAge[sip] <= dhcpTick + RenewalTime - 1
        BY <1>t, <1>i, <3>1 DEF ChoiceKept, GrantIsCounted, Leasing
      <4>2. 0 <= dhcpTick + RenewalTime - 1
        BY <1>n, WaitedAdds, DhcpAssumption
      <4> QED BY <2>1, <2>3, <3>1, <4>1, <4>2 DEF GrantIsCounted
    <3>2. CASE dhcpState = "REREQUEST"
      <4> DEFINE late == leaseTime \div 2 + RenewalTime
      <4>1. /\ sip \in DhcpServers
            /\ Aged(grantAge[sip] - leaseTime \div 2 - RenewalTime,
                    dhcpRetry, dhcpTick, Unpolled)
        BY <1>t, <1>i, <3>2 DEF ChoiceKept, GrantIsCounted, Leasing, OfAge
      <4>2. /\ 0 - leaseTime \div 2 - RenewalTime \in Int
            /\ 0 - leaseTime \div 2 - RenewalTime <= 0
        BY <1>n
      <4>3. Aged(0 - leaseTime \div 2 - RenewalTime, dhcpRetry, dhcpTick, Unpolled)
        BY <1>n, <4>2, AgeGrows
      <4>4. Aged(grantAge'[sip] - leaseTime \div 2 - RenewalTime,
                 dhcpRetry, dhcpTick, Unpolled)
        BY <2>3, <4>1, <4>3
      <4> QED BY <2>1, <3>2, <4>4 DEF GrantIsCounted, OfAge
    <3> QED BY <2>1, <3>1, <3>2 DEF GrantIsCounted
  <2> QED BY <2>2, <2>4, <2>5 DEF TimeInv
<1> QED BY <1>1, <1>2

LEMMA TimeStep ==
  ASSUME ~LateAnswers, LeaseInv, TimeInv, [DhcpNext]_dhcpVars
  PROVE  TimeInv'
<1>1. CASE DhcpNext
  BY <1>1, RunKeepsTime, TickKeepsTime, RestKeepsTime DEF DhcpNext
<1>2. CASE UNCHANGED dhcpVars
  BY <1>2 DEF TimeInv, TimerLookedAt, LeaseKnown, GrantIsYoung, GrantIsCounted, OfAge,
              Unpolled, dhcpVars, dhcpTimers, dhcpNet, dhcpServer
<1> QED BY <1>1, <1>2

(* What is left of the grant's age fits in the second half of the lease.   *)
LEMMA TimeIsEnough ==
  ASSUME LeaseInv, TimeInv
  PROVE  LeaseRespected
<1> SUFFICES ASSUME dhcpState \in Leasing, leaseOf[sip] # Infinite
             PROVE  grantAge[sip] <= leaseOf[sip]
  BY DEF LeaseRespected, Leasing
<1>1. sip \in DhcpServers /\ leaseTime = leaseOf[sip] /\ leaseTime \in LeaseTimes
  BY DEF LeaseInv, DhcpTypeOK, TimeInv, ChoiceKept, LeaseKnown
<1>2. /\ leaseTime \in Nat /\ leaseTime \div 2 \in Nat /\ RenewalTime \in Nat \ {0}
      /\ leaseTime - leaseTime \div 2 >= 2 * RenewalTime - 1
  BY <1>1, HalfLease, WaitedAdds, DhcpAssumption
<1>3. /\ dhcpTick \in Nat /\ dhcpRetry \in 0 .. DhcpRetries /\ Unpolled \in {0, 1}
      /\ grantAge[sip] \in Nat
  BY <1>1 DEF LeaseInv, DhcpTypeOK, Unpolled
<1>4. CASE dhcpState = "LEASED"
  <2>1. /\ grantAge[sip] <= dhcpTick + RenewalTime - 1
        /\ dhcpTick <= leaseTime \div 2 + Unpolled
    BY <1>1, <1>4 DEF TimeInv, GrantIsCounted, TimerLookedAt
  <2> QED BY <1>1, <1>2, <1>3, <2>1
<1>5. CASE dhcpState = "REREQUEST"
  <2> DEFINE age == grantAge[sip] - leaseTime \div 2 - RenewalTime
  <2>1. age \in Int
    BY <1>2, <1>3
  <2>2. Aged(age, dhcpRetry, dhcpTick, Unpolled)
    BY <1>1, <1>5 DEF TimeInv, GrantIsCounted, OfAge
  <2>3. age <= RenewalTime - 1
    <3> HIDE DEF age
    <3> QED BY <1>3, <2>1, <2>2, AgeGrows
  <2> QED BY <1>1, <1>2, <1>3, <2>3
<1> QED BY <1>4, <1>5 DEF Leasing

-----------------------------------------------------------------------------
(* What DHCP_run, its timer and the servers leave behind is well typed.    *)
THEOREM DhcpTyped == DhcpSpec => []DhcpTypeOK
<1>1. LeaseInv => DhcpTypeOK
  BY DEF LeaseInv
<1> QED BY <1>1, LeaseStarts, LeaseStep, PTL DEF DhcpSpec

(* The address in use is one the chosen server has acknowledged, for any   *)
(* number of servers and whatever the network delivers late                *)
(* (parseDHCPMSG, DHCP_run).                                               *)
THEOREM AddressIsAcknowledged == DhcpSpec => []LeaseAcknowledged
<1>1. LeaseInv => LeaseAcknowledged
  BY DhcpAssumption DEF LeaseInv, ChoiceKept, LeaseAcknowledged, Leasing
<1> QED BY <1>1, LeaseStarts, LeaseStep, PTL DEF DhcpSpec

(* DHCP_run answers DHCP_IP_LEASED only while the server holds the address *)
(* for the client, for every wait, retry count and lease that leaves room  *)
(* for a renewal, where an answer to an earlier request does not arrive in *)
(* the next (check_DHCP_timeout, STATE_DHCP_LEASED).                       *)
THEOREM LeasesAreRespected ==
  ASSUME ~LateAnswers
  PROVE  DhcpSpec => []LeaseRespected
<1> DEFINE Inv == LeaseInv /\ TimeInv
<1>1. DhcpInit => Inv
  BY LeaseStarts, TimeStarts
<1>2. Inv /\ [DhcpNext]_dhcpVars => Inv'
  BY LeaseStep, TimeStep
<1>3. Inv => LeaseRespected
  BY TimeIsEnough
<1> QED BY <1>1, <1>2, <1>3, PTL DEF DhcpSpec
=============================================================================
