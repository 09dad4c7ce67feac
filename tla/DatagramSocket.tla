--------------------------- MODULE DatagramSocket ---------------------------
(***************************************************************************)
(* One non-TCP socket of the W5500 driver (Ethernet/socket.c) next to the  *)
(* hardware socket it drives.  The calls socket, close, sendto, recvfrom,  *)
(* ctlsocket and the root reset each run under the socket's lock, so at    *)
(* most one is between its first and its last step: `op' names the wait it *)
(* is in.  What interleaves with a call is the controller (commands being  *)
(* accepted, status settling, datagrams coming and going), a deadline that *)
(* runs out, the interrupt clearing that takes no socket lock, and the     *)
(* part of socket() that runs before the lock.                             *)
(*                                                                         *)
(* A call that returns an error and changes nothing is a stuttering step.  *)
(***************************************************************************)
EXTENDS Integers, Sequences

CONSTANTS
  Openers,       \* calls of socket() that may be running at the same time
  Protocols,     \* protocols sockets are opened with
  Lengths,       \* payload lengths of datagrams the network delivers
  TxMax,         \* wizchip_txmax_cache: sendto cuts longer payloads to it
  RxCap,         \* cells the RX memory holds (a header is one cell)
  Wrap           \* 2^16, the width of sock_remained_size

ASSUME ConstantAssumption ==
  /\ Protocols # {} /\ Protocols \subseteq {"UDP", "IPRAW", "MACRAW"}
  /\ Lengths # {} /\ Lengths \subseteq Nat
  /\ TxMax \in Nat \ {0}
  /\ RxCap \in Nat
  /\ Wrap \in Nat
  /\ \A n \in Lengths : n < Wrap
  /\ RxCap < Wrap

VARIABLES
  \* the hardware socket
  cr,         \* Sn_CR: the command the controller has not accepted yet
  settling,   \* an accepted OPEN or CLOSE whose Sn_SR change is to come
  sr,         \* Sn_SR
  mr,         \* protocol bits of Sn_MR
  ir,         \* the SENDOK and TIMEOUT bits of Sn_IR
  txbuf,      \* length of the payload last copied into the TX memory
  tx,         \* what became of the last accepted SEND
  rx,         \* RX memory from the read pointer on: headers and payload
  \* the driver's per-socket state
  mode,       \* protocol bits of sock_mode ("NONE" for 0)
  ioMode,     \* sock_io_mode: "BLOCK" or "NONBLOCK"
  health,     \* sock_health
  txState,    \* sock_tx_state
  pendingLen, \* sock_tx_pending_len
  remained,   \* sock_remained_size
  packInfo,   \* the flags of sock_pack_info
  \* calls in progress
  op,         \* the wait the lock holder is in, "idle" when the lock is free
  local,      \* header length or chunk size the running recvfrom holds
  before,     \* status_before_lock of each running socket()
  \* the root
  clock,      \* wizchip_deadline_config_valid()
  root,       \* chip_state, READY or FAULTED
  \* history, for the properties only
  rxHist,     \* "cut": recvfrom returned on a RECV that was not accepted yet
  txHist      \* "cut": something else cleared a datagram's terminal event

txChip   == <<txbuf, tx>>
hardware == <<cr, settling, sr, mr, ir, txChip, rx>>
txVars   == <<txState, pendingLen, txHist>>
rxVars   == <<remained, packInfo, rxHist>>
driver   == <<mode, ioMode, health, txVars, rxVars>>
outside  == <<before, clock, root>>
vars     == <<hardware, driver, op, local, outside>>

Payload == -1                         \* a payload byte in the RX memory
Bad     == -2                         \* a length the MACRAW code rejects
Cell    == Lengths \cup {Payload}     \* a header is its datagram's length

Terminal   == {"SENDOK", "TIMEOUT"}
CloseWaits == {"close_cr", "close_sr", "reopen_cr", "reopen_sr"}
OpenWaits  == {"open_cr", "open_sr"}
SendWaits  == {"tx_free", "tx_cr", "tx_end"}
RecvWaits  == {"rx_data", "rx_head", "rx_body"}

Lesser(a, b) == IF a < b THEN a ELSE b

-----------------------------------------------------------------------------
\* sock_state_reset: every per-socket variable of the driver.
StateReset(newHealth) ==
  /\ mode' = "NONE" /\ ioMode' = "BLOCK"
  /\ health' = newHealth
  /\ txState' = "IDLE" /\ pendingLen' = 0 /\ txHist' = "whole"
  /\ remained' = 0 /\ packInfo' = {} /\ rxHist' = "whole"

Idle == op = "idle"

\* The calls that need the socket healthy and a usable deadline.
Usable == Idle /\ health = "HEALTHY" /\ clock = "SET"

WriteCommand(c, wait) == cr' = c /\ op' = wait

Init ==
  /\ cr = "NONE" /\ settling = "NONE" /\ sr = "CLOSED"
  /\ mr \in Protocols
  /\ ir = {} /\ txbuf = 0 /\ tx = "NONE" /\ rx = <<>>
  /\ mode = "NONE" /\ ioMode = "BLOCK" /\ health = "HEALTHY"
  /\ txState = "IDLE" /\ pendingLen = 0 /\ remained = 0 /\ packInfo = {}
  /\ op = "idle" /\ local = 0
  /\ before = [o \in Openers |-> "none"]
  /\ clock = "SET" /\ root = "READY"
  /\ rxHist = "whole" /\ txHist = "whole"

-----------------------------------------------------------------------------
(* The controller *)

\* An OPEN or CLOSE is accepted first and changes Sn_SR later; a SEND on an
\* open socket starts the transmission of what is in the TX memory.
ChipAccept ==
  /\ cr # "NONE" /\ settling = "NONE"
  /\ cr' = "NONE"
  /\ settling' = IF cr \in {"OPEN", "CLOSE"} THEN cr ELSE "NONE"
  /\ tx' = IF cr = "SEND" /\ sr # "CLOSED" THEN "FLYING" ELSE tx
  /\ UNCHANGED <<sr, mr, ir, txbuf, rx, driver, op, local, outside>>

\* The status changes; what the old incarnation held is gone.
ChipSettle ==
  /\ settling # "NONE"
  /\ sr' = IF settling = "OPEN" THEN mr ELSE "CLOSED"
  /\ settling' = "NONE"
  /\ IF sr' = sr
       THEN UNCHANGED <<tx, rx>>
       ELSE rx' = <<>> /\ tx' = IF tx = "FLYING" THEN "NONE" ELSE tx
  /\ UNCHANGED <<cr, mr, ir, txbuf, driver, op, local, outside>>

\* The peer answered (or the frame left): SENDOK; or ARP gave up: TIMEOUT.
ChipSendDone ==
  /\ tx = "FLYING"
  /\ \E event \in Terminal : tx' = event /\ ir' = ir \cup {event}
  /\ UNCHANGED <<cr, settling, sr, mr, txbuf, rx, driver, op, local, outside>>

ChipReceive ==
  /\ sr # "CLOSED"
  /\ \E n \in Lengths :
       /\ Len(rx) + n + 1 <= RxCap
       /\ rx' = rx \o <<n>> \o [i \in 1..n |-> Payload]
  /\ UNCHANGED <<cr, settling, sr, mr, ir, txChip, driver, op, local, outside>>

-----------------------------------------------------------------------------
(* socket() *)

\* The lifecycle check and the status read that come before the lock.
SocketBeforeLock(o) ==
  /\ before[o] = "none" /\ root = "READY"
  /\ before' = [before EXCEPT ![o] = sr]
  /\ UNCHANGED <<hardware, driver, op, local, clock, root>>

WriteOpen ==
  \E p \in Protocols : mr' = p /\ WriteCommand("OPEN", "open_cr")

SocketLocked(o) ==
  /\ Idle /\ before[o] # "none"
  /\ before' = [before EXCEPT ![o] = "none"]
  /\ \/ /\ \/ health = "FAULTED"                        \* SOCKERR_NOTREADY
           \/ clock = "UNSET"                          \* SOCKERR_TIMEOUT
           \/ sr # "CLOSED" /\ before[o] = "CLOSED"     \* SOCKERR_SOCKSTATUS
        /\ UNCHANGED <<cr, mr, op>>
     \/ /\ health = "HEALTHY" /\ clock = "SET"
        /\ sr # "CLOSED" /\ before[o] # "CLOSED"
        /\ WriteCommand("CLOSE", "reopen_cr") /\ UNCHANGED mr
     \/ /\ health = "HEALTHY" /\ clock = "SET" /\ sr = "CLOSED"
        /\ WriteOpen
  /\ UNCHANGED <<settling, sr, ir, txChip, rx, driver, local, clock, root>>

OpenAccepted ==
  /\ op = "open_cr" /\ cr = "NONE"
  /\ op' = "open_sr"
  /\ UNCHANGED <<hardware, driver, local, outside>>

OpenDone ==
  /\ op = "open_sr" /\ sr = mr
  /\ ioMode' \in {"BLOCK", "NONBLOCK"}
  /\ mode' = mr /\ health' = "HEALTHY"
  /\ txState' = "IDLE" /\ pendingLen' = 0 /\ txHist' = "whole"
  /\ remained' = 0 /\ packInfo' = {} /\ rxHist' = "whole"
  /\ op' = "idle"
  /\ UNCHANGED <<hardware, local, outside>>

\* wait_cr_accepted or wait_sr_reached ran out of time.
OpenExpired ==
  /\ \/ op = "open_cr" /\ cr # "NONE"
     \/ op = "open_sr" /\ sr # mr
  /\ health' = "FAULTED" /\ op' = "idle"
  /\ UNCHANGED <<hardware, mode, ioMode, txVars, rxVars, local, outside>>

-----------------------------------------------------------------------------
(* close() and close_internal() *)

\* The early exits of close_internal: no deadline can be opened, the socket
\* is faulted, or the hardware is closed already.
CloseShort ==
  /\ Idle
  /\ clock = "UNSET" \/ health = "FAULTED" \/ sr = "CLOSED"
  /\ StateReset(IF clock = "SET" THEN "HEALTHY" ELSE "FAULTED")
  /\ UNCHANGED <<hardware, op, local, outside>>

CloseStart ==
  /\ Usable /\ sr # "CLOSED"
  /\ WriteCommand("CLOSE", "close_cr")
  /\ UNCHANGED <<settling, sr, mr, ir, txChip, rx, driver, local, outside>>

CloseAccepted ==
  /\ op \in {"close_cr", "reopen_cr"} /\ cr = "NONE"
  /\ ir' = {}
  /\ op' = IF op = "close_cr" THEN "close_sr" ELSE "reopen_sr"
  /\ UNCHANGED <<cr, settling, sr, mr, txChip, rx, driver, local, outside>>

\* Sn_SR shows CLOSED; socket() goes on to open the new incarnation.
CloseDone ==
  /\ op \in {"close_sr", "reopen_sr"} /\ sr = "CLOSED"
  /\ StateReset("HEALTHY")
  /\ \/ op = "close_sr" /\ op' = "idle" /\ UNCHANGED <<cr, mr>>
     \/ op = "reopen_sr" /\ WriteOpen
  /\ UNCHANGED <<settling, sr, ir, txChip, rx, local, outside>>

CloseExpired ==
  /\ \/ op \in {"close_cr", "reopen_cr"} /\ cr # "NONE"
     \/ op \in {"close_sr", "reopen_sr"} /\ sr # "CLOSED"
  /\ StateReset("FAULTED")
  /\ op' = "idle"
  /\ UNCHANGED <<hardware, local, outside>>

-----------------------------------------------------------------------------
(* sendto() *)

\* Only SENDOK looked at: a datagram that timed out stays pending.
SendtoPollSendokOnly ==
  /\ Usable /\ txState = "DGRAM_PENDING"
  /\ "SENDOK" \in ir /\ ir' = ir \ {"SENDOK"}
  /\ txState' = "IDLE" /\ pendingLen' = 0
  /\ UNCHANGED <<cr, settling, sr, mr, txChip, rx, mode, ioMode, health,
                 txHist, rxVars, op, local, outside>>

\* A datagram is pending: look at one snapshot of Sn_IR and return.
SendtoPoll ==
  /\ Usable /\ txState = "DGRAM_PENDING"
  /\ \/ /\ "SENDOK" \in ir
        /\ ir' = ir \ {"SENDOK"}
     \/ /\ "SENDOK" \notin ir /\ "TIMEOUT" \in ir
        /\ ir' = ir \ {"TIMEOUT"}
  /\ txState' = "IDLE" /\ pendingLen' = 0
  /\ UNCHANGED <<cr, settling, sr, mr, txChip, rx, mode, ioMode, health,
                 txHist, rxVars, op, local, outside>>

\* The stale events left in Sn_IR.
WriteSendKeepingEvents ==
  /\ \E len \in 1..TxMax : txbuf' = len
  /\ WriteCommand("SEND", "tx_cr")
  /\ txHist' = "whole"
  /\ UNCHANGED <<settling, sr, mr, ir, tx, rx, mode, ioMode, health, txState,
                 pendingLen, rxVars, local, outside>>

\* The payload not cut to the TX memory.
WriteSendUncut ==
  /\ \E len \in 1..(TxMax + 1) : txbuf' = len
  /\ ir' = ir \ Terminal
  /\ WriteCommand("SEND", "tx_cr")
  /\ txHist' = "whole"
  /\ UNCHANGED <<settling, sr, mr, tx, rx, mode, ioMode, health, txState,
                 pendingLen, rxVars, local, outside>>

\* Clear the old terminal events, copy the payload, write SEND and open the
\* deadline for its acceptance.
WriteSend ==
  /\ \E len \in 1..TxMax : txbuf' = len
  /\ ir' = ir \ Terminal
  /\ WriteCommand("SEND", "tx_cr")
  /\ txHist' = "whole"
  /\ UNCHANGED <<settling, sr, mr, tx, rx, mode, ioMode, health, txState,
                 pendingLen, rxVars, local, outside>>

Sendable ==
  /\ txState = "IDLE" /\ mode # "NONE" /\ sr # "CLOSED"

SendtoStart ==
  /\ Usable /\ Sendable
  /\ WriteSend

\* The TX memory has no room: a blocking call waits, MACRAW never looks.
SendtoFull ==
  /\ Usable /\ Sendable /\ mode # "MACRAW" /\ ioMode = "BLOCK"
  /\ op' = "tx_free"
  /\ UNCHANGED <<hardware, driver, local, outside>>

SendtoRoom ==
  /\ op = "tx_free" /\ sr # "CLOSED"
  /\ WriteSend

\* Room never came: SOCKERR_TIMEOUT, and the socket stays healthy.
SendtoNoRoom ==
  /\ op = "tx_free"
  /\ op' = "idle"
  /\ UNCHANGED <<hardware, driver, local, outside>>

\* The acceptance wait clears Sn_IR on its way out.
SendtoAcceptedClearing ==
  /\ op = "tx_cr" /\ cr = "NONE"
  /\ pendingLen' = txbuf /\ ir' = {}
  /\ IF ioMode = "NONBLOCK"
       THEN txState' = "DGRAM_PENDING" /\ op' = "idle"
       ELSE txState' = txState /\ op' = "tx_end"
  /\ UNCHANGED <<cr, settling, sr, mr, txChip, rx, mode, ioMode, health,
                 txHist, rxVars, local, outside>>

SendtoAccepted ==
  /\ op = "tx_cr" /\ cr = "NONE"
  /\ pendingLen' = txbuf
  /\ IF ioMode = "NONBLOCK"
       THEN txState' = "DGRAM_PENDING" /\ op' = "idle"
       ELSE txState' = txState /\ op' = "tx_end"
  /\ UNCHANGED <<hardware, mode, ioMode, health, txHist, rxVars, local,
                 outside>>

SendtoNotAccepted ==
  /\ op = "tx_cr" /\ cr # "NONE"
  /\ health' = "FAULTED" /\ txState' = "LOCAL_FAULT" /\ op' = "idle"
  /\ UNCHANGED <<hardware, mode, ioMode, pendingLen, txHist, rxVars, local,
                 outside>>

\* The blocking call's wait for SENDOK or TIMEOUT, SENDOK looked at first.
SendtoEnd ==
  /\ op = "tx_end" /\ op' = "idle"
  /\ \/ /\ "SENDOK" \in ir
        /\ ir' = ir \ {"SENDOK"}
     \/ /\ "SENDOK" \notin ir /\ "TIMEOUT" \in ir
        /\ ir' = ir \ {"TIMEOUT"}
  /\ UNCHANGED <<cr, settling, sr, mr, txChip, rx, driver, local, outside>>

\* The expired wait reported without faulting the socket.
SendtoNoEndHealthy ==
  /\ op = "tx_end" /\ ir \cap Terminal = {}
  /\ op' = "idle"
  /\ UNCHANGED <<hardware, driver, local, outside>>

SendtoNoEnd ==
  /\ op = "tx_end" /\ ir \cap Terminal = {}
  /\ health' = "FAULTED" /\ op' = "idle"
  /\ UNCHANGED <<hardware, mode, ioMode, txVars, rxVars, local, outside>>

-----------------------------------------------------------------------------
(* recvfrom() *)

\* wiz_recv_data moves the read pointer by n; past the end the bytes read
\* are what an earlier datagram left there.
Consume(n) == rx' = SubSeq(rx, Lesser(n, Len(rx)) + 1, Len(rx))

WriteRecv(wait) == WriteCommand("RECV", wait)

\* Sn_RX_RSR still counts what an unaccepted RECV gives back.
HasData == rx # <<>> \/ cr = "RECV"

\* What the header bytes at the read pointer decode to: a datagram's length
\* when they are a header, any length when they are something else.
HeaderValues ==
  IF rx # <<>> /\ Head(rx) # Payload
    THEN {Head(rx)}
    ELSE Lengths \cup (IF mode = "MACRAW" THEN {Bad} ELSE {})

ReadHeader ==
  /\ \E n \in HeaderValues : local' = n
  /\ Consume(1)
  /\ WriteRecv("rx_head")

RecvfromHeader ==
  /\ Usable /\ mode # "NONE" /\ remained = 0
  /\ sr # "CLOSED" /\ HasData
  /\ ReadHeader
  /\ UNCHANGED <<settling, sr, mr, ir, txChip, driver, outside>>

\* Nothing has come yet: only a blocking call waits.
RecvfromEmpty ==
  /\ Usable /\ mode # "NONE" /\ remained = 0 /\ ioMode = "BLOCK"
  /\ sr # "CLOSED" /\ ~HasData
  /\ op' = "rx_data"
  /\ UNCHANGED <<hardware, driver, local, outside>>

RecvfromArrival ==
  /\ op = "rx_data" /\ sr # "CLOSED" /\ HasData
  /\ ReadHeader
  /\ UNCHANGED <<settling, sr, mr, ir, txChip, driver, outside>>

\* A blocking receive without a deadline.
RecvfromNothingForever ==
  /\ op = "rx_data" /\ sr = "CLOSED"
  /\ op' = "idle"
  /\ UNCHANGED <<hardware, driver, local, outside>>

\* Nothing came before the deadline, or the hardware socket was closed.
RecvfromNothing ==
  /\ op = "rx_data" /\ (~HasData \/ sr = "CLOSED")
  /\ op' = "idle"
  /\ UNCHANGED <<hardware, driver, local, outside>>

\* The payload read common to the three protocols: a chunk no longer than
\* the caller's buffer.  `rest' is sock_remained_size after the header.
\* An IPRAW datagram without payload skips the read, and pack_len keeps the
\* Sn_RX_RSR value of before the header was consumed, at least the header.
ReadChunk(rest) ==
  /\ \/ /\ rest > 0
        /\ \E len \in 1..RxCap : local' = Lesser(len, rest)
     \/ /\ rest = 0 /\ mode # "IPRAW"
        /\ local' = 0
     \/ /\ rest = 0 /\ mode = "IPRAW"
        /\ \E rsr \in 1..RxCap : local' = rsr
  /\ IF rest > 0 THEN Consume(local') ELSE UNCHANGED rx
  /\ WriteRecv("rx_body")

\* The header's RECV was accepted: the datagram starts here.
RecvfromHead ==
  /\ op = "rx_head" /\ cr = "NONE" /\ local # Bad
  /\ remained' = local /\ packInfo' = {"FIRST"}
  /\ ReadChunk(local)
  /\ UNCHANGED <<settling, sr, mr, ir, txChip, mode, ioMode, health, txVars,
                 rxHist, outside>>

\* MACRAW only: a frame length out of range closes the socket.
RecvfromFatal ==
  /\ op = "rx_head" /\ cr = "NONE" /\ local = Bad
  /\ WriteCommand("CLOSE", "close_cr")
  /\ UNCHANGED <<settling, sr, mr, ir, txChip, rx, driver, local, outside>>

RecvfromMore ==
  /\ Usable /\ mode # "NONE" /\ remained > 0
  /\ ReadChunk(remained)
  /\ UNCHANGED <<settling, sr, mr, ir, txChip, driver, outside>>

\* The rest of a datagram longer than the buffer forgotten.
RecvfromDoneForgetting ==
  /\ op = "rx_body" /\ cr = "NONE"
  /\ remained' = 0 /\ packInfo' = packInfo /\ op' = "idle"
  /\ UNCHANGED <<hardware, mode, ioMode, health, txVars, rxHist, local,
                 outside>>

RecvfromDone ==
  /\ op = "rx_body" /\ cr = "NONE"
  /\ remained' = (remained - local) % Wrap
  /\ packInfo' = IF remained' # 0 THEN packInfo \cup {"REMAINED"} ELSE packInfo
  /\ op' = "idle"
  /\ UNCHANGED <<hardware, mode, ioMode, health, txVars, rxHist, local,
                 outside>>

\* wait_datagram_cr_accepted gives up on a RECV: a TIMEOUT event is taken for
\* this command's and cleared, a nonblocking call returns SOCK_BUSY, a
\* blocking one faults the socket when its deadline expires.
RecvfromGiveUp ==
  /\ op \in {"rx_head", "rx_body"} /\ cr # "NONE"
  /\ op' = "idle" /\ rxHist' = "cut"
  /\ \/ /\ "TIMEOUT" \in ir
        /\ ir' = ir \ {"TIMEOUT"} /\ txHist' = "cut"
        /\ UNCHANGED health
     \/ /\ "TIMEOUT" \notin ir /\ ioMode = "NONBLOCK"
        /\ UNCHANGED <<ir, health, txHist>>
     \/ /\ "TIMEOUT" \notin ir /\ ioMode = "BLOCK"
        /\ health' = "FAULTED"
        /\ UNCHANGED <<ir, txHist>>
  /\ UNCHANGED <<cr, settling, sr, mr, txChip, rx, mode, ioMode, txState,
                 pendingLen, remained, packInfo, local, outside>>

-----------------------------------------------------------------------------
(* ctlsocket(), interrupt clearing and the root *)

SetIoMode ==
  /\ Idle /\ health = "HEALTHY"
  /\ ioMode' \in {"BLOCK", "NONBLOCK"}
  /\ UNCHANGED <<hardware, mode, health, txVars, rxVars, op, local, outside>>

\* ctlsocket(CS_CLR_INTERRUPT)
ClearInterrupt ==
  /\ Idle /\ health = "HEALTHY"
  /\ \E event \in ir : ir' = ir \ {event}
  /\ txHist' = "cut"
  /\ UNCHANGED <<cr, settling, sr, mr, txChip, rx, mode, ioMode, health,
                 txState, pendingLen, rxVars, op, local, outside>>

\* wizchip_clrinterrupt writes 0xFF to Sn_IR without the socket's lock.
ClearAllInterrupts ==
  /\ ir # {}
  /\ ir' = {} /\ txHist' = "cut"
  /\ UNCHANGED <<cr, settling, sr, mr, txChip, rx, mode, ioMode, health,
                 txState, pendingLen, rxVars, op, local, outside>>

\* wizchip_sw_reset and wizchip_init hold every lock.  A reset that fails on
\* the bus may or may not have reached the controller.
ChipReset ==
  /\ Idle
  /\ StateReset("HEALTHY")
  /\ root' \in {"READY", "FAULTED"}
  /\ \/ /\ cr' = "NONE" /\ settling' = "NONE" /\ sr' = "CLOSED"
        /\ ir' = {} /\ tx' = "NONE" /\ rx' = <<>> /\ txbuf' = 0
     \/ /\ root' = "FAULTED"
        /\ UNCHANGED <<cr, settling, sr, ir, txChip, rx>>
  /\ UNCHANGED <<mr, op, local, before, clock>>

\* wizchip_recover
Recover ==
  /\ root = "FAULTED" /\ root' = "READY"
  /\ UNCHANGED <<hardware, driver, op, local, before, clock>>

\* The time source comes and goes while no operation runs.
SetTimeSource ==
  /\ Idle
  /\ clock' = IF clock = "SET" THEN "UNSET" ELSE "SET"
  /\ UNCHANGED <<hardware, driver, op, local, before, root>>

-----------------------------------------------------------------------------
Chip == ChipAccept \/ ChipSettle \/ ChipSendDone \/ ChipReceive

\* The steps by which a call that holds the lock gets on.
Progress ==
  \/ OpenAccepted \/ OpenDone
  \/ CloseAccepted \/ CloseDone
  \/ SendtoRoom \/ SendtoAccepted \/ SendtoEnd
  \/ RecvfromArrival \/ RecvfromHead \/ RecvfromFatal \/ RecvfromDone

\* The steps by which it gives up, all of them paced by a deadline.
Expiry ==
  \/ OpenExpired \/ CloseExpired
  \/ SendtoNoRoom \/ SendtoNotAccepted \/ SendtoNoEnd
  \/ RecvfromNothing \/ RecvfromGiveUp

\* The first step of a call.
Call ==
  \/ \E o \in Openers : SocketBeforeLock(o) \/ SocketLocked(o)
  \/ CloseShort \/ CloseStart
  \/ SendtoPoll \/ SendtoStart \/ SendtoFull
  \/ RecvfromHeader \/ RecvfromEmpty \/ RecvfromMore
  \/ SetIoMode \/ ClearInterrupt \/ ClearAllInterrupts
  \/ ChipReset \/ Recover \/ SetTimeSource

Next == Chip \/ Progress \/ Expiry \/ Call

Spec == Init /\ [][Next]_vars

\* A call that holds the lock keeps running and its clock keeps going; the
\* controller keeps working; and somebody keeps polling a pending sendto, a
\* step that other callers of the lock can only delay.
Fairness ==
  /\ WF_vars(Progress \/ Expiry)
  /\ WF_vars(ChipAccept) /\ WF_vars(ChipSettle) /\ WF_vars(ChipSendDone)
  /\ SF_vars(SendtoPoll)

FairSpec == Spec /\ Fairness

-----------------------------------------------------------------------------
(* What the driver promises *)

TypeOK ==
  /\ cr \in {"NONE", "OPEN", "CLOSE", "SEND", "RECV"}
  /\ settling \in {"NONE", "OPEN", "CLOSE"}
  /\ sr \in Protocols \cup {"CLOSED"} /\ mr \in Protocols
  /\ ir \subseteq Terminal
  /\ txbuf \in 0..TxMax /\ tx \in {"NONE", "FLYING"} \cup Terminal
  /\ rx \in Seq(Cell)
  /\ mode \in Protocols \cup {"NONE"} /\ ioMode \in {"BLOCK", "NONBLOCK"}
  /\ health \in {"HEALTHY", "FAULTED"}
  /\ txState \in {"IDLE", "DGRAM_PENDING", "LOCAL_FAULT"}
  /\ pendingLen \in 0..TxMax /\ remained \in 0..(Wrap - 1)
  /\ packInfo \subseteq {"FIRST", "REMAINED"}
  /\ op \in {"idle"} \cup OpenWaits \cup CloseWaits
             \cup SendWaits \cup RecvWaits
  /\ local \in Nat \cup {Bad}
  /\ before \in [Openers -> Protocols \cup {"CLOSED", "none"}]
  /\ clock \in {"SET", "UNSET"} /\ root \in {"READY", "FAULTED"}
  /\ rxHist \in {"whole", "cut"} /\ txHist \in {"whole", "cut"}

\* A SEND is never written while the controller still transmits the payload
\* of an earlier one: sendto may overwrite the TX memory only when the last
\* datagram has met its end, whatever closes, faults and reopens came between.
OneSendAtATime == cr = "SEND" => tx # "FLYING"

\* The terminal event that ends a sendto call is the end of that datagram and
\* of no other, and the length a poll reports is the length that was sent.
OutcomeIsOwn ==
  [][/\ txState = "DGRAM_PENDING" /\ txState' = "IDLE" /\ mode' # "NONE" =>
          ir \ ir' = {tx} /\ pendingLen = txbuf
     /\ op = "tx_end" /\ op' = "idle" /\ health' = "HEALTHY" =>
          ir \ ir' = {tx}
    ]_vars

\* While a datagram is pending the controller is working on it or its end is
\* latched in Sn_IR: the polling caller will see an end.
PendingHasOutcome ==
  txState = "DGRAM_PENDING" /\ op \notin CloseWaits /\ txHist = "whole" =>
    tx = "FLYING" \/ (tx \in Terminal /\ tx \in ir)

\* A faulted socket gives the controller no command until close or a reset
\* has cleared the fault.
FaultedIsQuiet ==
  [][health = "FAULTED" /\ health' = "FAULTED" => cr' \in {cr, "NONE"}]_vars

\* The read pointer is between datagrams or inside the one whose rest
\* sock_remained_size counts: the next header read is a header.
Framed(rest) ==
  /\ rest <= Len(rx)
  /\ \A i \in 1..rest : rx[i] = Payload
  /\ Len(rx) > rest => rx[rest + 1] # Payload

FramingKept ==
  health = "HEALTHY" /\ mode # "NONE" /\ rxHist = "whole"
    /\ ~(mode = "IPRAW" /\ 0 \in Lengths) =>
    CASE op = "rx_head" -> Framed(local)
      [] op = "rx_body" -> Framed(remained - local)
      [] op \in CloseWaits -> TRUE
      [] OTHER -> Framed(remained)

\* Every call returns: each wait ends by the controller or by its deadline.
CallsReturn == op # "idle" ~> op = "idle"

\* A pending datagram that somebody polls is resolved, unless the socket
\* faults or loses its clock.
PendingResolves ==
  txState = "DGRAM_PENDING" ~>
    \/ txState # "DGRAM_PENDING" \/ txHist = "cut"
    \/ health = "FAULTED" \/ clock = "UNSET"

-----------------------------------------------------------------------------
(* What the documents promise and the code does not do *)

\* data-model.md: remaining_size is "bounded by configured RX capacity".
RemainedBounded == remained <= RxCap
=============================================================================
