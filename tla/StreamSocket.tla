---------------------------- MODULE StreamSocket ----------------------------
(***************************************************************************)
(* One TCP socket of the W5500 driver (Ethernet/socket.c), the hardware    *)
(* socket it drives and the peer behind it: socket, close, listen,         *)
(* connect, disconnect, send, recv, setsockopt, ctlsocket, the root reset. *)
(*                                                                         *)
(* As in DatagramSocket a call runs under the socket's lock and `op' names *)
(* the wait it is in.  A poll loop reads several registers one after the   *)
(* other; each read whose value is used after the next one has a label of  *)
(* its own, so that the controller and the peer move in between.           *)
(***************************************************************************)
EXTENDS Integers

CONSTANTS
  TxMax,      \* wizchip_txmax_cache, the TX memory in cells
  RxCap       \* wizchip_rxmax_cache, the RX memory in cells

ASSUME ConstantAssumption == TxMax \in Nat \ {0} /\ RxCap \in Nat

VARIABLES
  \* the hardware socket
  cr,         \* Sn_CR: the command the controller has not accepted yet
  settling,   \* an accepted command whose Sn_SR change is to come
  sr,         \* Sn_SR; FIN_WAIT and LAST_ACK are "CLOSING"
  ir,         \* the SENDOK and TIMEOUT bits of Sn_IR
  tx,         \* "FLYING" while the controller works on a SEND
  unacked,    \* cells of the TX memory in use: TxMax less Sn_TX_FSR
  rx,         \* cells in the RX memory: Sn_RX_RSR
  \* the driver's per-socket state
  mode,       \* sock_mode, "TCP" or "NONE"
  ioMode,     \* sock_io_mode
  health,     \* sock_health
  sending,    \* sock_is_sending
  \* calls in progress
  op,         \* the wait the lock holder is in, "idle" when the lock is free
  local,      \* the Sn_RX_RSR value the running recv holds
  before,     \* status_before_lock of a running socket()
  \* the root
  clock,      \* wizchip_deadline_config_valid()
  root,       \* chip_state
  \* history, for the properties only
  stale,      \* events in Sn_IR that were latched before the last CLOSE or OPEN
  crossed,    \* a send took a stale SENDOK for the end of its own SEND
  cleared,    \* an event was cleared from outside since the SEND it may be of
  late        \* cells that came after the running recv read Sn_RX_RSR

events   == <<ir, stale>>
chip     == <<cr, settling, sr, tx, unacked, rx>>
hist     == <<crossed, cleared, late>>
driver   == <<mode, ioMode, health, sending>>
outside  == <<before, clock, root>>
vars     == <<events, chip, hist, driver, op, local, outside>>

Connected  == {"ESTABLISHED", "CLOSE_WAIT"}
CloseWaits == {"close_cr", "close_sr", "reopen_cr", "reopen_sr"}
Waits == CloseWaits \cup
  {"open_cr", "open_sr", "listen_cr", "listen_sr",
   "conn_cr", "conn_sr", "conn_ir", "conn_gone", "disc_cr", "disc_sr",
   "disc_ir", "tx_end", "tx_up", "tx_room", "tx_cr",
   "rx_size", "rx_status", "rx_drain", "rx_half", "rx_cr", "keep_cr", "inner",
   "reopen"}

Lesser(a, b) == IF a < b THEN a ELSE b

-----------------------------------------------------------------------------
\* sock_state_reset
StateReset(newHealth) ==
  mode' = "NONE" /\ ioMode' = "BLOCK" /\ health' = newHealth /\ sending' = FALSE

Fault == health' = "FAULTED" /\ UNCHANGED <<mode, ioMode, sending>>

Idle     == op = "idle"

Healthy  == Idle /\ health = "HEALTHY"
\* What send and recv ask for under the lock.  They look at chip_state before
\* they take it, so the root may have failed since: it is no guard here.
Usable   == Healthy /\ mode = "TCP" /\ clock = "SET"

WriteCommand(c, wait) == cr' = c /\ op' = wait
Goto(wait)   == op' = wait
\* A recv that is done with its reading of Sn_RX_RSR.
RecvGoto(wait) == op' = wait /\ local' = 0 /\ late' = 0
Clear(bits)  == ir' = ir \ bits /\ stale' = stale \ bits

Init ==
  /\ cr = "NONE" /\ settling = "NONE" /\ sr = "CLOSED"
  /\ ir = {} /\ tx = "NONE" /\ unacked = 0 /\ rx = 0
  /\ mode = "NONE" /\ ioMode = "BLOCK" /\ health = "HEALTHY"
  /\ sending = FALSE
  /\ op = "idle" /\ local = 0 /\ before = "none"
  /\ clock = "SET" /\ root = "READY"
  /\ stale = {} /\ crossed = FALSE /\ cleared = FALSE /\ late = 0

-----------------------------------------------------------------------------
(* The controller and the peer *)

\* Commands other than SEND, RECV and SEND_KEEP change Sn_SR a while after they have
\* been accepted.
ChipAccept ==
  /\ cr # "NONE" /\ settling = "NONE"
  /\ cr' = "NONE"
  /\ settling' = IF cr \in {"SEND", "RECV", "KEEP"} THEN "NONE" ELSE cr
  /\ tx' = IF cr = "SEND" /\ sr \in Connected THEN "FLYING" ELSE tx
  /\ UNCHANGED <<sr, unacked, rx, events, hist, driver, op, local, outside>>

\* The status a command leads to from the one it finds.
After(c) ==
  CASE c = "OPEN"                          -> "INIT"
    [] c = "CLOSE"                         -> "CLOSED"
    [] c = "LISTEN"  /\ sr = "INIT"        -> "LISTEN"
    [] c = "CONNECT" /\ sr = "INIT"        -> "SYNSENT"
    [] c = "DISCON"  /\ sr \in Connected   -> "CLOSING"
    [] OTHER                               -> sr

ChipSettle ==
  /\ settling # "NONE"
  /\ sr' = After(settling) /\ settling' = "NONE"
  /\ IF settling \in {"OPEN", "CLOSE"}
       THEN /\ tx' = "NONE" /\ unacked' = 0 /\ rx' = 0
            /\ stale' = ir /\ crossed' = FALSE
       ELSE UNCHANGED <<tx, unacked, rx, stale, crossed>>
  /\ UNCHANGED <<cr, ir, cleared, late, driver, op, local, outside>>

ChipSendDone ==
  /\ tx = "FLYING" /\ sr \in Connected
  /\ tx' = "NONE" /\ ir' = ir \cup {"SENDOK"} /\ stale' = stale \ {"SENDOK"}
  /\ UNCHANGED <<cr, settling, sr, unacked, rx, hist, driver, op, local,
                 outside>>

\* The retransmissions of a SYN, a segment, a FIN or a keep-alive are used up.
ChipTimeout ==
  /\ sr \in {"SYNSENT", "CLOSING"} \cup Connected
  /\ sr' = "CLOSED" /\ tx' = "NONE"
  /\ ir' = ir \cup {"TIMEOUT"} /\ stale' = stale \ {"TIMEOUT"}
  /\ UNCHANGED <<cr, settling, unacked, rx, hist, driver, op, local, outside>>

PeerAcks ==
  /\ sr \in Connected /\ cr # "SEND" /\ unacked > 0
  /\ \E n \in 1..unacked : unacked' = unacked - n
  /\ UNCHANGED <<cr, settling, sr, tx, rx, events, hist, driver, op, local,
                 outside>>

PeerConnects ==
  /\ sr \in {"LISTEN", "SYNSENT"}
  /\ sr' = "ESTABLISHED"
  /\ UNCHANGED <<cr, settling, tx, unacked, rx, events, hist, driver, op,
                 local, outside>>

PeerSends ==
  /\ sr = "ESTABLISHED" /\ rx < RxCap
  /\ rx' = rx + 1
  /\ late' = IF op \in {"rx_status", "rx_drain", "rx_half"}
               THEN late + 1 ELSE late
  /\ UNCHANGED <<cr, settling, sr, tx, unacked, events, crossed, cleared,
                 driver, op, local, outside>>

PeerFinishes ==
  /\ \/ sr = "ESTABLISHED" /\ sr' = "CLOSE_WAIT" /\ tx' = tx
     \/ sr = "CLOSING" /\ sr' = "CLOSED" /\ tx' = "NONE"
  /\ UNCHANGED <<cr, settling, unacked, rx, events, hist, driver, op, local,
                 outside>>

PeerResets ==
  /\ sr \in {"SYNSENT", "CLOSING"} \cup Connected
  /\ sr' = "CLOSED" /\ tx' = "NONE"
  /\ UNCHANGED <<cr, settling, unacked, rx, events, hist, driver, op, local,
                 outside>>

-----------------------------------------------------------------------------
(* socket(), close() and close_internal() *)

\* The lifecycle check and the status read that come before the lock.
SocketBeforeLock ==
  /\ before = "none" /\ root = "READY"
  /\ before' = IF sr = "CLOSED" THEN "CLOSED" ELSE "OPEN"
  /\ UNCHANGED <<events, chip, hist, driver, op, local, clock, root>>

\* What socket() does once the hardware is closed; without an own address it
\* stops here.
Reopen == WriteCommand("OPEN", "open_cr") \/ (Goto("idle") /\ UNCHANGED cr)

SocketLocked ==
  /\ Idle /\ before # "none"
  /\ before' = "none"
  /\ \/ /\ \/ health = "FAULTED" \/ clock = "UNSET"
           \/ sr # "CLOSED" /\ before = "CLOSED"
        /\ UNCHANGED <<cr, op>>
     \/ /\ health = "HEALTHY" /\ clock = "SET"
        /\ sr # "CLOSED" /\ before = "OPEN"
        /\ Goto("reopen") /\ UNCHANGED cr
     \/ health = "HEALTHY" /\ clock = "SET" /\ sr = "CLOSED" /\ Reopen
  /\ UNCHANGED <<events, settling, sr, tx, unacked, rx, hist, driver, local,
                 clock, root>>

OpenAccepted ==
  /\ op = "open_cr" /\ cr = "NONE"
  /\ Goto("open_sr")
  /\ UNCHANGED <<events, chip, hist, driver, local, outside>>

OpenDone ==
  /\ op = "open_sr" /\ sr = "INIT"
  /\ mode' = "TCP" /\ ioMode' \in {"BLOCK", "NONBLOCK"}
  /\ health' = "HEALTHY" /\ sending' = FALSE
  /\ Goto("idle")
  /\ UNCHANGED <<events, chip, hist, local, outside>>

OpenExpired ==
  /\ \/ op = "open_cr" /\ cr # "NONE"
     \/ op = "open_sr" /\ sr # "INIT"
  /\ Fault /\ Goto("idle")
  /\ UNCHANGED <<events, chip, hist, local, outside>>

CloseShort ==
  /\ Idle
  /\ clock = "UNSET" \/ health = "FAULTED" \/ sr = "CLOSED"
  /\ StateReset(IF clock = "SET" THEN "HEALTHY" ELSE "FAULTED")
  /\ UNCHANGED <<events, chip, hist, op, local, outside>>

CloseStart ==
  /\ Healthy /\ clock = "SET" /\ sr # "CLOSED"
  /\ WriteCommand("CLOSE", "close_cr")
  /\ UNCHANGED <<events, settling, sr, tx, unacked, rx, hist, driver, local,
                 outside>>

\* close_internal called by socket, send and recv under their own lock: it
\* reads Sn_SR once more.
InnerClose ==
  /\ op \in {"reopen", "inner", "rx_half"}
  /\ late' = 0
  /\ \/ /\ sr = "CLOSED" /\ StateReset("HEALTHY")
        /\ IF op = "reopen" THEN Reopen ELSE Goto("idle") /\ UNCHANGED cr
     \/ /\ sr # "CLOSED" /\ UNCHANGED driver
        /\ WriteCommand("CLOSE", IF op = "reopen" THEN "reopen_cr" ELSE "close_cr")
  /\ UNCHANGED <<events, settling, sr, tx, unacked, rx, crossed, cleared, local,
                 outside>>

CloseAccepted ==
  /\ op \in {"close_cr", "reopen_cr"} /\ cr = "NONE"
  /\ Clear(ir)
  /\ Goto(IF op = "close_cr" THEN "close_sr" ELSE "reopen_sr")
  /\ UNCHANGED <<chip, hist, driver, local, outside>>

CloseDone ==
  /\ op \in {"close_sr", "reopen_sr"} /\ sr = "CLOSED"
  /\ StateReset("HEALTHY")
  /\ \/ op = "close_sr" /\ Goto("idle") /\ UNCHANGED cr
     \/ op = "reopen_sr" /\ Reopen
  /\ UNCHANGED <<events, settling, sr, tx, unacked, rx, hist, local, outside>>

CloseExpired ==
  /\ \/ op \in {"close_cr", "reopen_cr"} /\ cr # "NONE"
     \/ op \in {"close_sr", "reopen_sr"} /\ sr # "CLOSED"
  /\ StateReset("FAULTED") /\ Goto("idle")
  /\ UNCHANGED <<events, chip, hist, local, outside>>

-----------------------------------------------------------------------------
(* listen(), connect() and disconnect() *)

ListenStart ==
  /\ Healthy /\ sr = "INIT" /\ clock = "SET"
  /\ WriteCommand("LISTEN", "listen_cr")
  /\ UNCHANGED <<events, settling, sr, tx, unacked, rx, hist, driver, local,
                 outside>>

ListenAccepted ==
  /\ op = "listen_cr" /\ cr = "NONE"
  /\ Goto("listen_sr")
  /\ UNCHANGED <<events, chip, hist, driver, local, outside>>

ListenDone ==
  /\ op = "listen_sr" /\ sr = "LISTEN"
  /\ Goto("idle")
  /\ UNCHANGED <<events, chip, hist, driver, local, outside>>

ListenExpired ==
  /\ \/ op = "listen_cr" /\ cr # "NONE"
     \/ op = "listen_sr" /\ sr # "LISTEN"
  /\ Fault /\ Goto("idle")
  /\ UNCHANGED <<events, chip, hist, local, outside>>

\* connect and disconnect look at the clock after they wrote the command.
ConnectStart ==
  /\ Healthy /\ mode = "TCP" /\ root = "READY" /\ sr = "INIT"
  /\ WriteCommand("CONNECT", IF clock = "SET" THEN "conn_cr" ELSE "idle")
  /\ UNCHANGED <<events, settling, sr, tx, unacked, rx, hist, driver, local,
                 outside>>

ConnectAccepted ==
  /\ op = "conn_cr" /\ cr = "NONE"
  /\ Goto("conn_sr")
  /\ UNCHANGED <<events, chip, hist, driver, local, outside>>

ConnectNotAccepted ==
  /\ op = "conn_cr" /\ cr # "NONE"
  /\ Fault /\ Goto("idle")
  /\ UNCHANGED <<events, chip, hist, local, outside>>

\* One round of the wait: Sn_SR first, then Sn_IR.
ConnectLook ==
  /\ op = "conn_sr"
  /\ Goto(CASE sr = "ESTABLISHED" -> "idle"
            [] sr = "CLOSED"      -> "conn_gone"
            [] OTHER              -> "conn_ir")
  /\ UNCHANGED <<events, chip, hist, driver, local, outside>>

ConnectTimeout ==
  /\ op \in {"conn_ir", "conn_gone"} /\ "TIMEOUT" \in ir
  /\ Clear({"TIMEOUT"}) /\ Goto("idle")
  /\ UNCHANGED <<chip, hist, driver, local, outside>>

ConnectGone ==
  /\ op = "conn_gone" /\ "TIMEOUT" \notin ir
  /\ Goto("idle")
  /\ UNCHANGED <<events, chip, hist, driver, local, outside>>

ConnectAgain ==
  /\ op = "conn_ir" /\ "TIMEOUT" \notin ir
  /\ Goto("conn_sr")
  /\ UNCHANGED <<events, chip, hist, driver, local, outside>>

ConnectExpired ==
  /\ op = "conn_ir" /\ "TIMEOUT" \notin ir
  /\ Fault /\ Goto("idle")
  /\ UNCHANGED <<events, chip, hist, local, outside>>

DisconnectStart ==
  /\ Healthy /\ mode = "TCP" /\ root = "READY" /\ sr \in Connected
  /\ WriteCommand("DISCON", IF clock = "SET" THEN "disc_cr" ELSE "idle")
  /\ UNCHANGED <<events, settling, sr, tx, unacked, rx, hist, driver, local,
                 outside>>

\* Nothing to disconnect, only to wait for.
DisconnectWait ==
  /\ Healthy /\ mode = "TCP" /\ root = "READY"
  /\ sr \notin Connected \cup {"CLOSED"}
  /\ sending' = FALSE /\ Goto(IF clock = "SET" THEN "disc_sr" ELSE "idle")
  /\ UNCHANGED <<events, chip, hist, mode, ioMode, health, local, outside>>

DisconnectAccepted ==
  /\ op = "disc_cr" /\ cr = "NONE"
  /\ sending' = FALSE /\ Goto("disc_sr")
  /\ UNCHANGED <<events, chip, hist, mode, ioMode, health, local, outside>>

DisconnectNotAccepted ==
  /\ op = "disc_cr" /\ cr # "NONE"
  /\ Fault /\ Goto("idle")
  /\ UNCHANGED <<events, chip, hist, local, outside>>

DisconnectLook ==
  /\ op = "disc_sr"
  /\ Goto(IF sr = "CLOSED" THEN "idle" ELSE "disc_ir")
  /\ UNCHANGED <<events, chip, hist, driver, local, outside>>

DisconnectTimeout ==
  /\ op = "disc_ir" /\ "TIMEOUT" \in ir
  /\ Clear({"TIMEOUT"}) /\ Fault /\ Goto("idle")
  /\ UNCHANGED <<chip, hist, local, outside>>

DisconnectAgain ==
  /\ op = "disc_ir" /\ "TIMEOUT" \notin ir
  /\ Goto("disc_sr")
  /\ UNCHANGED <<events, chip, hist, driver, local, outside>>

DisconnectExpired ==
  /\ op = "disc_ir" /\ "TIMEOUT" \notin ir
  /\ Fault /\ Goto("idle")
  /\ UNCHANGED <<events, chip, hist, local, outside>>

-----------------------------------------------------------------------------
(* send() *)

\* A nonblocking send looks at the free memory only.
SendStartUncollected ==
  /\ Usable /\ sr \in Connected
  /\ Goto(IF sending /\ ioMode = "BLOCK" THEN "tx_end" ELSE "tx_room")
  /\ UNCHANGED <<events, chip, hist, driver, local, outside>>

\* A SEND of this connection is still to end: wait for its event first.
SendStart ==
  /\ Usable /\ sr \in Connected
  /\ Goto(IF sending THEN "tx_end" ELSE "tx_room")
  /\ UNCHANGED <<events, chip, hist, driver, local, outside>>

SendEnded ==
  /\ op = "tx_end" /\ "SENDOK" \in ir
  /\ crossed' = (crossed \/ "SENDOK" \in stale)
  /\ Clear({"SENDOK"})
  /\ sending' = FALSE /\ Goto("tx_room")
  /\ UNCHANGED <<chip, cleared, late, mode, ioMode, health, local, outside>>

SendTimeout ==
  /\ op = "tx_end" /\ "SENDOK" \notin ir /\ "TIMEOUT" \in ir
  /\ Clear({"TIMEOUT"}) /\ Fault /\ Goto("idle")
  /\ UNCHANGED <<chip, hist, local, outside>>

\* No event yet: is the connection still there?
SendLook ==
  /\ op = "tx_end" /\ ir = {}
  /\ Goto("tx_up")
  /\ UNCHANGED <<events, chip, hist, driver, local, outside>>

SendGone ==
  /\ op = "tx_up" /\ sr \notin Connected
  /\ sending' = FALSE /\ Goto("idle")
  /\ UNCHANGED <<events, chip, hist, mode, ioMode, health, local, outside>>

SendAgain ==
  /\ op = "tx_up" /\ sr \in Connected
  /\ Goto(IF ioMode = "BLOCK" THEN "tx_end" ELSE "idle")
  /\ UNCHANGED <<events, chip, hist, driver, local, outside>>

SendExpired ==
  /\ op = "tx_up" /\ sr \in Connected /\ ioMode = "BLOCK"
  /\ Fault /\ Goto("idle")
  /\ UNCHANGED <<events, chip, hist, local, outside>>

\* The payload, cut to the TX memory, fits into what is free of it.
SendWrite ==
  /\ op = "tx_room" /\ sr \in Connected
  /\ \E len \in 1..TxMax :
       len <= TxMax - unacked /\ unacked' = unacked + len
  /\ WriteCommand("SEND", "tx_cr")
  /\ cleared' = FALSE
  /\ UNCHANGED <<events, settling, sr, tx, rx, crossed, late, driver, local,
                 outside>>

\* It does not: SOCK_BUSY, or SOCKERR_TIMEOUT when it never does.
SendNoRoom ==
  /\ op = "tx_room" /\ sr \in Connected /\ unacked > 0
  /\ Goto("idle")
  /\ UNCHANGED <<events, chip, hist, driver, local, outside>>

SendClosed ==
  /\ op = "tx_room" /\ sr \notin Connected
  /\ Goto(IF sr = "CLOSED" THEN "inner" ELSE "idle")
  /\ UNCHANGED <<events, chip, hist, driver, local, outside>>

\* The events are cleared once the command is accepted.
SendAcceptedClearing ==
  /\ op = "tx_cr" /\ cr = "NONE"
  /\ sending' = TRUE /\ Clear(ir) /\ Goto("idle")
  /\ UNCHANGED <<chip, hist, mode, ioMode, health, local, outside>>

SendAccepted ==
  /\ op = "tx_cr" /\ cr = "NONE"
  /\ sending' = TRUE /\ Goto("idle")
  /\ UNCHANGED <<events, chip, hist, mode, ioMode, health, local, outside>>

SendNotAccepted ==
  /\ op = "tx_cr" /\ cr # "NONE"
  /\ Fault /\ Goto("idle")
  /\ UNCHANGED <<events, chip, hist, local, outside>>

-----------------------------------------------------------------------------
(* recv() *)

RecvStart ==
  /\ Usable
  /\ Goto("rx_size")
  /\ UNCHANGED <<events, chip, hist, driver, local, outside>>

RecvSize ==
  /\ op = "rx_size"
  /\ local' = rx /\ late' = 0 /\ Goto("rx_status")
  /\ UNCHANGED <<events, chip, crossed, cleared, driver, outside>>

RecvRead ==
  /\ op = "rx_status" /\ sr \in Connected /\ local > 0
  /\ \E len \in 1..RxCap : rx' = rx - Lesser(len, local)
  /\ cr' = "RECV" /\ RecvGoto("rx_cr")
  /\ UNCHANGED <<events, settling, sr, tx, unacked, crossed, cleared, driver,
                 outside>>

\* Neither data nor an open or half-closed connection.
RecvClosed ==
  /\ op = "rx_status" /\ sr \notin Connected
  /\ RecvGoto("inner")
  /\ UNCHANGED <<events, chip, crossed, cleared, driver, outside>>

RecvEmpty ==
  /\ op = "rx_status" /\ sr = "ESTABLISHED" /\ local = 0
  /\ RecvGoto(IF ioMode = "BLOCK" THEN "rx_size" ELSE "idle")
  /\ UNCHANGED <<events, chip, crossed, cleared, driver, outside>>

RecvHalfClosed ==
  /\ op = "rx_status" /\ sr = "CLOSE_WAIT" /\ local = 0
  /\ Goto("rx_drain")
  /\ UNCHANGED <<events, chip, hist, driver, local, outside>>

\* Closed without a look at what is not acknowledged yet.
RecvDrainedUnasked ==
  /\ op = "rx_drain"
  /\ Goto("rx_half")
  /\ UNCHANGED <<events, chip, hist, driver, local, outside>>

\* The peer sent its last byte: close as soon as ours are acknowledged.
RecvDrained ==
  /\ op = "rx_drain"
  /\ Goto(IF unacked = 0 THEN "rx_half" ELSE "rx_size")
  /\ UNCHANGED <<events, chip, hist, driver, local, outside>>

\* The half-closed branch goes round without asking for the deadline.
RecvExpiredOpenOnly ==
  /\ op = "rx_status" /\ sr = "ESTABLISHED" /\ local = 0
  /\ RecvGoto("idle")
  /\ UNCHANGED <<events, chip, crossed, cleared, driver, outside>>

\* The deadline is looked at in both branches, whatever the I/O mode.
RecvExpired ==
  /\ \/ op = "rx_status" /\ sr = "ESTABLISHED" /\ local = 0
     \/ op = "rx_drain" /\ unacked > 0
  /\ RecvGoto("idle")
  /\ UNCHANGED <<events, chip, crossed, cleared, driver, outside>>

RecvAccepted ==
  /\ op = "rx_cr" /\ cr = "NONE"
  /\ Goto("idle")
  /\ UNCHANGED <<events, chip, hist, driver, local, outside>>

RecvNotAccepted ==
  /\ op = "rx_cr" /\ cr # "NONE"
  /\ Fault /\ Goto("idle")
  /\ UNCHANGED <<events, chip, hist, local, outside>>

\* The two equal readings of Sn_TX_FSR or Sn_RX_RSR do not come about in time.
SizeUnread ==
  /\ op \in {"tx_room", "rx_size", "rx_drain"}
  /\ RecvGoto("idle")
  /\ UNCHANGED <<events, chip, crossed, cleared, driver, outside>>

-----------------------------------------------------------------------------
(* setsockopt(), ctlsocket(), interrupt clearing and the root *)

\* SO_KEEPALIVESEND, unless the controller keeps the connection alive itself
\* (Sn_KPALVTR).  The other options are registers no call looks at.
KeepAliveStart ==
  /\ Usable
  /\ WriteCommand("KEEP", "keep_cr")
  /\ UNCHANGED <<events, settling, sr, tx, unacked, rx, hist, driver, local,
                 outside>>

KeepAliveAccepted ==
  /\ op = "keep_cr" /\ cr = "NONE"
  /\ Goto("idle")
  /\ UNCHANGED <<events, chip, hist, driver, local, outside>>

\* A TIMEOUT ends the wait whatever it is of, and the command stays in Sn_CR.
KeepAliveTimeout ==
  /\ op = "keep_cr" /\ cr # "NONE" /\ "TIMEOUT" \in ir
  /\ Clear({"TIMEOUT"}) /\ Goto("idle")
  /\ UNCHANGED <<chip, hist, driver, local, outside>>

KeepAliveExpired ==
  /\ op = "keep_cr" /\ cr # "NONE" /\ "TIMEOUT" \notin ir
  /\ Fault /\ Goto("idle")
  /\ UNCHANGED <<events, chip, hist, local, outside>>

SetIoMode ==
  /\ Healthy
  /\ ioMode' \in {"BLOCK", "NONBLOCK"}
  /\ UNCHANGED <<events, chip, hist, mode, health, sending, op, local,
                 outside>>

\* ctlsocket(CS_CLR_INTERRUPT)
ClearInterrupt ==
  /\ Healthy
  /\ \E bits \in SUBSET ir \ {{}} : Clear(bits)
  /\ cleared' = (sending \/ op = "tx_cr")
  /\ UNCHANGED <<chip, crossed, late, driver, op, local, outside>>

\* wizchip_clrinterrupt takes no socket lock.
ClearAllInterrupts ==
  /\ ir # {} /\ Clear(ir)
  /\ cleared' = (sending \/ op = "tx_cr")
  /\ UNCHANGED <<chip, crossed, late, driver, op, local, outside>>

\* wizchip_sw_reset and wizchip_init, under every lock; one that fails may
\* or may not have reached the controller.
ChipReset ==
  /\ Idle
  /\ StateReset("HEALTHY")
  /\ \/ /\ root' \in {"READY", "FAULTED"}
        /\ cr' = "NONE" /\ settling' = "NONE" /\ sr' = "CLOSED"
        /\ tx' = "NONE" /\ unacked' = 0 /\ rx' = 0 /\ Clear(ir)
     \/ root' = "FAULTED" /\ UNCHANGED <<chip, events>>
  /\ UNCHANGED <<hist, op, local, before, clock>>

Recover ==
  /\ root = "FAULTED" /\ root' = "READY"
  /\ UNCHANGED <<events, chip, hist, driver, op, local, before, clock>>

SetTimeSource ==
  /\ Idle
  /\ clock' = IF clock = "SET" THEN "UNSET" ELSE "SET"
  /\ UNCHANGED <<events, chip, hist, driver, op, local, before, root>>

-----------------------------------------------------------------------------
Chip == ChipAccept \/ ChipSettle \/ ChipSendDone \/ ChipTimeout

Peer ==
  PeerAcks \/ PeerConnects \/ PeerSends \/ PeerFinishes \/ PeerResets

\* The steps by which a call that holds the lock gets on, round by round.
Progress ==
  \/ OpenAccepted \/ OpenDone
  \/ InnerClose \/ CloseAccepted \/ CloseDone
  \/ ListenAccepted \/ ListenDone
  \/ ConnectAccepted \/ ConnectLook \/ ConnectTimeout \/ ConnectGone
  \/ ConnectAgain
  \/ DisconnectAccepted \/ DisconnectLook \/ DisconnectTimeout
  \/ DisconnectAgain
  \/ SendEnded \/ SendTimeout \/ SendLook \/ SendGone \/ SendAgain
  \/ SendWrite \/ SendClosed \/ SendAccepted
  \/ RecvSize \/ RecvRead \/ RecvClosed \/ RecvEmpty \/ RecvHalfClosed
  \/ RecvDrained \/ RecvAccepted
  \/ KeepAliveAccepted \/ KeepAliveTimeout

\* The steps by which it gives up, all of them paced by a deadline.
Expiry ==
  \/ OpenExpired \/ CloseExpired \/ ListenExpired
  \/ ConnectNotAccepted \/ ConnectExpired
  \/ DisconnectNotAccepted \/ DisconnectExpired
  \/ SendExpired \/ SendNoRoom \/ SendNotAccepted
  \/ RecvExpired \/ RecvNotAccepted \/ KeepAliveExpired

\* The first step of a call.
Call ==
  \/ SocketBeforeLock \/ SocketLocked \/ CloseShort \/ CloseStart
  \/ ListenStart \/ ConnectStart \/ DisconnectStart \/ DisconnectWait
  \/ SendStart \/ RecvStart \/ KeepAliveStart
  \/ SetIoMode \/ ClearInterrupt \/ ClearAllInterrupts
  \/ ChipReset \/ Recover \/ SetTimeSource

Next == Chip \/ Peer \/ Progress \/ Expiry \/ SizeUnread \/ Call

Spec == Init /\ [][Next]_vars

\* The task that holds the lock runs, and a deadline that has passed stays
\* passed: a loop that keeps asking for it is told so in the end.  Nothing is
\* assumed of the controller and the peer.
FairSpec == Spec /\ WF_vars(Progress \/ Expiry) /\ SF_vars(Expiry)

-----------------------------------------------------------------------------
(* What the driver promises *)

TypeOK ==
  /\ cr \in {"NONE", "OPEN", "CLOSE", "LISTEN", "CONNECT", "DISCON", "SEND",
             "RECV", "KEEP"}
  /\ settling \in {"NONE", "OPEN", "CLOSE", "LISTEN", "CONNECT", "DISCON"}
  /\ sr \in {"CLOSED", "INIT", "LISTEN", "SYNSENT", "CLOSING"} \cup Connected
  /\ ir \subseteq {"SENDOK", "TIMEOUT"} /\ stale \subseteq ir
  /\ tx \in {"NONE", "FLYING"} /\ unacked \in 0..TxMax /\ rx \in 0..RxCap
  /\ mode \in {"NONE", "TCP"} /\ ioMode \in {"BLOCK", "NONBLOCK"}
  /\ health \in {"HEALTHY", "FAULTED"}
  /\ sending \in BOOLEAN /\ crossed \in BOOLEAN /\ cleared \in BOOLEAN
  /\ op \in {"idle"} \cup Waits
  /\ local \in 0..RxCap /\ late \in 0..RxCap
  /\ before \in {"none", "CLOSED", "OPEN"}
  /\ clock \in {"SET", "UNSET"} /\ root \in {"READY", "FAULTED"}

\* send writes no SEND while the controller works on the one before, through
\* disconnects, faults, closes and reopens, unless a SENDOK that an earlier
\* connection left in Sn_IR was taken for its end.
SendsDoNotOverlap == cr = "SEND" /\ ~crossed => tx # "FLYING"

\* A send that waits for the one before it waits for something: the controller
\* works on it, its event is latched, or the connection is gone.
SendingHasOutcome ==
  sending /\ health = "HEALTHY" /\ op \notin CloseWaits /\ ~cleared
    /\ sr \in Connected =>
    tx = "FLYING" \/ "SENDOK" \in ir

\* recv closes a half-closed connection only when the peer has acknowledged
\* everything and everything is read that had come when recv looked.
HalfCloseDrained == op = "rx_half" => unacked = 0 /\ rx = late

\* A faulted socket gives the controller no command until close or a reset
\* has cleared the fault.
FaultedIsQuiet ==
  [][health = "FAULTED" /\ health' = "FAULTED" => cr' \in {cr, "NONE"}]_vars

\* Every call returns, whatever the controller and the peer do.
CallsReturn == op # "idle" ~> op = "idle"

-----------------------------------------------------------------------------
(* What the documents promise and the code does not do *)

\* socket.h: "If connection request is accepted successfully, the connection
\* is established": listen does not fault a socket a client has connected to.
ListenAdmitsClient ==
  [][op = "listen_sr" /\ op' = "idle" /\ sr = "ESTABLISHED" =>
       health' = "HEALTHY"]_vars

\* socket.h: connect fails with SOCKERR_TIMEOUT when a "Timeout occurred
\* during request connection", not during an earlier connection.
ConnectTimeoutIsOwn ==
  [][op' = "idle" /\ op \in {"conn_ir", "conn_gone"} /\ "TIMEOUT" \in (ir \ ir')
       => "TIMEOUT" \notin stale]_vars
=============================================================================
