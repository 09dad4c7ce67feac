------------------------- MODULE StreamSocketProofs -------------------------
(***************************************************************************)
(* What StreamSocket checks on small memories, proved for every size of    *)
(* the two memories: the types, that send never writes SEND over a         *)
(* transmission, that a send which waits has something to wait for, that   *)
(* recv closes a half-closed connection only when both directions are      *)
(* drained, and that a faulted socket is left alone.                       *)
(***************************************************************************)
EXTENDS StreamSocket, TLAPS

USE ConstantAssumption

-----------------------------------------------------------------------------
(* The inductive invariant *)

Opening == {"open_cr", "open_sr"}
SendOps == {"tx_end", "tx_up", "tx_room", "tx_cr"}
RecvOps == {"rx_size", "rx_status", "rx_drain", "rx_half", "rx_cr"}

\* Where a connection that carried data can be until the next OPEN.
Session == Connected \cup {"CLOSING", "CLOSED"}

\* The controller has a SEND of this connection to end, or has ended one
\* whose event nobody collected.
Busy == tx = "FLYING" \/ "SENDOK" \in (ir \ stale)

\* A call that holds the lock works on a healthy socket, one that sends or
\* receives on a TCP one, and the command it waits for is its own.
CallerOwns ==
  /\ op # "idle" => health = "HEALTHY"
  /\ op \in SendOps \cup RecvOps => mode = "TCP"
  /\ op \in {"tx_room", "tx_cr"} => ~sending
  /\ op \in Opening => cr \in {"OPEN", "NONE"}
  /\ op \in Opening /\ cr = "NONE" => settling # "CLOSE"
  /\ op = "open_sr" => cr = "NONE"
  /\ op = "tx_cr" => cr \in {"SEND", "NONE"}
  /\ op = "disc_cr" => cr \in {"DISCON", "NONE"}
  /\ cr = "SEND" => op = "tx_cr" \/ health = "FAULTED" \/ mode = "NONE"
  /\ sending => mode = "TCP"

\* No OPEN and no CLOSE is left over under an open socket, except the OPEN
\* that has already led to INIT.
Settled ==
  mode = "TCP" /\ health = "HEALTHY" /\ op \notin CloseWaits \cup Opening =>
    /\ cr \notin {"OPEN", "CLOSE"}
    /\ settling \in {"OPEN", "CLOSE"} => settling = "OPEN" /\ sr = "INIT"

\* A socket that has sent on its connection is not about to be connected.
SendingInSession ==
  /\ (sending \/ op = "tx_cr") /\ health = "HEALTHY"
       /\ op \notin CloseWaits \cup Opening => sr \in Session
  /\ sending /\ op \in Opening =>
       /\ sr \in {"CLOSED", "INIT"} /\ settling # "CLOSE"
       /\ settling = "OPEN" \/ sr = "INIT" => cr = "NONE"
       /\ sr = "INIT" => settling = "NONE"

\* Whatever the controller has to end is known to the driver, or cannot meet
\* another send of this connection any more.
BusyIsKnown ==
  /\ Busy => sr \in Session
  /\ tx = "FLYING" => sr # "CLOSED"
  /\ mode = "TCP" /\ health = "HEALTHY" /\ ~crossed =>
       /\ Busy => \/ sending \/ op = "tx_cr" \/ sr \notin Connected
                  \/ (op \in {"disc_sr", "disc_ir"} /\ settling = "DISCON")
       /\ tx = "FLYING" => "SENDOK" \notin (ir \ stale)
  /\ Busy /\ op = "disc_cr" /\ cr = "NONE" =>
       settling = "DISCON" \/ sr \notin Connected
  /\ cr = "SEND" /\ ~crossed => ~Busy

\* From its acceptance on, a SEND has an end to come or an end latched.
OutcomeComing ==
  /\ sending \/ (op = "tx_cr" /\ cr = "NONE")
  /\ health = "HEALTHY" /\ op \notin CloseWaits /\ ~cleared
  /\ sr \in Connected
  => tx = "FLYING" \/ "SENDOK" \in ir

\* What recv knows of the RX memory: its reading, and what came since.
RecvCounts ==
  /\ sr = "INIT" => rx = 0
  /\ op = "rx_status" => rx = local + late
  /\ op \in {"rx_drain", "rx_half"} => rx = late
  /\ op = "rx_half" => unacked = 0

StreamInv ==
  /\ TypeOK
  /\ CallerOwns /\ Settled /\ SendingInSession /\ BusyIsKnown
  /\ OutcomeComing /\ RecvCounts

LEMMA StreamInit == Init => StreamInv
  <1> SUFFICES ASSUME Init PROVE StreamInv
    OBVIOUS
  <1>1. TypeOK
    <2>1. sending \in BOOLEAN /\ crossed \in BOOLEAN /\ cleared \in BOOLEAN
      BY DEF Init
    <2>2. unacked \in 0..TxMax /\ rx \in 0..RxCap /\ local \in 0..RxCap
            /\ late \in 0..RxCap
      BY DEF Init
    <2> QED
      BY <2>1, <2>2 DEF Init, TypeOK
  <1>2. CallerOwns /\ Settled /\ SendingInSession
    BY DEF Init, CallerOwns, Settled, SendingInSession, Opening, SendOps,
       RecvOps
  <1>3. BusyIsKnown /\ OutcomeComing /\ RecvCounts
    BY DEF Init, BusyIsKnown, OutcomeComing, RecvCounts, Busy, Session
  <1> QED
    BY <1>1, <1>2, <1>3 DEF StreamInv

-----------------------------------------------------------------------------
(* The types *)

LEMMA TypeStep == StreamInv /\ [Next]_vars => TypeOK'
  <1> SUFFICES ASSUME StreamInv, [Next]_vars PROVE TypeOK'
    OBVIOUS
  <1> USE DEF StreamInv, TypeOK, vars, events, chip, hist, driver, outside,
          Waits, CloseWaits, Connected
  <1>1. CASE ChipAccept
    BY <1>1 DEF ChipAccept
  <1>2. CASE ChipSettle
    <2>1. sr' \in {"CLOSED", "INIT", "LISTEN", "SYNSENT", "CLOSING"}
                 \cup Connected
      BY <1>2 DEF ChipSettle, After
    <2>2. crossed' \in BOOLEAN
      BY <1>2 DEF ChipSettle
    <2>3. /\ unacked' \in 0..TxMax /\ rx' \in 0..RxCap
          /\ tx' \in {"NONE", "FLYING"}
      BY <1>2 DEF ChipSettle
    <2>4. stale' \subseteq ir'
      BY <1>2 DEF ChipSettle
    <2> QED
      BY <1>2, <2>1, <2>2, <2>3, <2>4 DEF ChipSettle
  <1>3. CASE ChipSendDone
    BY <1>3 DEF ChipSendDone
  <1>4. CASE ChipTimeout
    BY <1>4 DEF ChipTimeout
  <1>5. CASE PeerAcks
    BY <1>5 DEF PeerAcks
  <1>6. CASE PeerConnects
    BY <1>6 DEF PeerConnects
  <1>7. CASE PeerSends
    BY <1>7 DEF PeerSends, RecvCounts
  <1>8. CASE PeerFinishes
    BY <1>8 DEF PeerFinishes
  <1>9. CASE PeerResets
    BY <1>9 DEF PeerResets
  <1>10. CASE OpenAccepted
    BY <1>10 DEF OpenAccepted, Goto
  <1>11. CASE OpenDone
    <2>1. /\ sending' \in BOOLEAN /\ crossed' \in BOOLEAN
          /\ cleared' \in BOOLEAN
      BY <1>11 DEF OpenDone, Goto
    <2> QED
      BY <1>11, <2>1 DEF OpenDone, Goto
  <1>12. CASE InnerClose
    <2>1. /\ sending' \in BOOLEAN /\ crossed' \in BOOLEAN
          /\ cleared' \in BOOLEAN
      BY <1>12 DEF InnerClose, StateReset, WriteCommand, Goto, Reopen
    <2> QED
      BY <1>12, <2>1 DEF InnerClose, StateReset, WriteCommand, Goto, Reopen
  <1>13. CASE CloseAccepted
    BY <1>13 DEF CloseAccepted, Goto, Clear
  <1>14. CASE CloseDone
    <2>1. /\ sending' \in BOOLEAN /\ crossed' \in BOOLEAN
          /\ cleared' \in BOOLEAN
      BY <1>14 DEF CloseDone, StateReset, WriteCommand, Goto, Reopen
    <2> QED
      BY <1>14, <2>1 DEF CloseDone, StateReset, WriteCommand, Goto, Reopen
  <1>15. CASE ListenAccepted
    BY <1>15 DEF ListenAccepted, Goto
  <1>16. CASE ListenDone
    BY <1>16 DEF ListenDone, Goto
  <1>17. CASE ConnectAccepted
    BY <1>17 DEF ConnectAccepted, Goto
  <1>18. CASE ConnectLook
    BY <1>18 DEF ConnectLook, Goto
  <1>19. CASE ConnectTimeout
    BY <1>19 DEF ConnectTimeout, Goto, Clear
  <1>20. CASE ConnectGone
    BY <1>20 DEF ConnectGone, Goto
  <1>21. CASE ConnectAgain
    BY <1>21 DEF ConnectAgain, Goto
  <1>22. CASE DisconnectAccepted
    <2>1. /\ sending' \in BOOLEAN /\ crossed' \in BOOLEAN
          /\ cleared' \in BOOLEAN
      BY <1>22 DEF DisconnectAccepted, Goto
    <2> QED
      BY <1>22, <2>1 DEF DisconnectAccepted, Goto
  <1>23. CASE DisconnectLook
    BY <1>23 DEF DisconnectLook, Goto
  <1>24. CASE DisconnectTimeout
    BY <1>24 DEF DisconnectTimeout, Fault, Goto, Clear
  <1>25. CASE DisconnectAgain
    BY <1>25 DEF DisconnectAgain, Goto
  <1>26. CASE SendEnded
    <2>1. /\ sending' \in BOOLEAN /\ crossed' \in BOOLEAN
          /\ cleared' \in BOOLEAN
      BY <1>26 DEF SendEnded, Goto, Clear
    <2> QED
      BY <1>26, <2>1 DEF SendEnded, Goto, Clear
  <1>27. CASE SendTimeout
    BY <1>27 DEF SendTimeout, Fault, Goto, Clear
  <1>28. CASE SendLook
    BY <1>28 DEF SendLook, Goto
  <1>29. CASE SendGone
    <2>1. /\ sending' \in BOOLEAN /\ crossed' \in BOOLEAN
          /\ cleared' \in BOOLEAN
      BY <1>29 DEF SendGone, Goto
    <2> QED
      BY <1>29, <2>1 DEF SendGone, Goto
  <1>30. CASE SendAgain
    BY <1>30 DEF SendAgain, Goto
  <1>31. CASE SendWrite
    <2>1. cleared' \in BOOLEAN
      BY <1>31 DEF SendWrite
    <2>2. unacked' \in 0..TxMax
      BY <1>31 DEF SendWrite
    <2> QED
      BY <1>31, <2>1, <2>2 DEF SendWrite, WriteCommand
  <1>32. CASE SendClosed
    BY <1>32 DEF SendClosed, Goto
  <1>33. CASE SendAccepted
    BY <1>33 DEF SendAccepted, Goto
  <1>34. CASE RecvSize
    BY <1>34 DEF RecvSize, Goto
  <1>35. CASE RecvRead
    <2>1. rx' \in 0..RxCap
      BY <1>35 DEF RecvRead, Lesser, RecvCounts
    <2> QED
      BY <1>35, <2>1 DEF RecvRead, RecvGoto
  <1>36. CASE RecvClosed
    BY <1>36 DEF RecvClosed, RecvGoto
  <1>37. CASE RecvEmpty
    BY <1>37 DEF RecvEmpty, RecvGoto
  <1>38. CASE RecvHalfClosed
    BY <1>38 DEF RecvHalfClosed, Goto
  <1>39. CASE RecvDrained
    BY <1>39 DEF RecvDrained, Goto
  <1>40. CASE RecvAccepted
    BY <1>40 DEF RecvAccepted, Goto
  <1>41. CASE OpenExpired
    BY <1>41 DEF OpenExpired, Fault, Goto
  <1>42. CASE CloseExpired
    <2>1. /\ sending' \in BOOLEAN /\ crossed' \in BOOLEAN
          /\ cleared' \in BOOLEAN
      BY <1>42 DEF CloseExpired, StateReset, Goto
    <2> QED
      BY <1>42, <2>1 DEF CloseExpired, StateReset, Goto
  <1>43. CASE ListenExpired
    BY <1>43 DEF ListenExpired, Fault, Goto
  <1>44. CASE ConnectNotAccepted
    BY <1>44 DEF ConnectNotAccepted, Fault, Goto
  <1>45. CASE ConnectExpired
    BY <1>45 DEF ConnectExpired, Fault, Goto
  <1>46. CASE DisconnectNotAccepted
    BY <1>46 DEF DisconnectNotAccepted, Fault, Goto
  <1>47. CASE DisconnectExpired
    BY <1>47 DEF DisconnectExpired, Fault, Goto
  <1>48. CASE SendExpired
    BY <1>48 DEF SendExpired, Fault, Goto
  <1>49. CASE SendNoRoom
    BY <1>49 DEF SendNoRoom, Goto
  <1>50. CASE SendNotAccepted
    BY <1>50 DEF SendNotAccepted, Fault, Goto
  <1>51. CASE RecvExpired
    BY <1>51 DEF RecvExpired, RecvGoto
  <1>52. CASE RecvNotAccepted
    BY <1>52 DEF RecvNotAccepted, Fault, Goto
  <1>53. CASE SizeUnread
    BY <1>53 DEF SizeUnread, RecvGoto
  <1>54. CASE SocketBeforeLock
    BY <1>54 DEF SocketBeforeLock
  <1>55. CASE SocketLocked
    BY <1>55 DEF SocketLocked, Idle, WriteCommand, Goto, Reopen
  <1>56. CASE CloseShort
    <2>1. /\ sending' \in BOOLEAN /\ crossed' \in BOOLEAN
          /\ cleared' \in BOOLEAN
      BY <1>56 DEF CloseShort, StateReset, Idle
    <2> QED
      BY <1>56, <2>1 DEF CloseShort, StateReset, Idle
  <1>57. CASE CloseStart
    BY <1>57 DEF CloseStart, Idle, Healthy, WriteCommand
  <1>58. CASE ListenStart
    BY <1>58 DEF ListenStart, Idle, Healthy, WriteCommand
  <1>59. CASE ConnectStart
    BY <1>59 DEF ConnectStart, Idle, Healthy, WriteCommand
  <1>60. CASE DisconnectStart
    BY <1>60 DEF DisconnectStart, Idle, Healthy, WriteCommand
  <1>61. CASE DisconnectWait
    <2>1. /\ sending' \in BOOLEAN /\ crossed' \in BOOLEAN
          /\ cleared' \in BOOLEAN
      BY <1>61 DEF DisconnectWait, Idle, Healthy, Goto
    <2> QED
      BY <1>61, <2>1 DEF DisconnectWait, Idle, Healthy, Goto
  <1>62. CASE SendStart
    BY <1>62 DEF SendStart, Idle, Healthy, Usable, Goto
  <1>63. CASE RecvStart
    BY <1>63 DEF RecvStart, Idle, Healthy, Usable, Goto
  <1>64. CASE SetIoMode
    BY <1>64 DEF SetIoMode, Idle, Healthy
  <1>65. CASE ClearInterrupt
    BY <1>65 DEF ClearInterrupt, Idle, Healthy, Clear
  <1>66. CASE ClearAllInterrupts
    BY <1>66 DEF ClearAllInterrupts, Clear
  <1>67. CASE ChipReset
    <2>1. sending' \in BOOLEAN
      BY <1>67 DEF ChipReset, StateReset
    <2>2. /\ crossed' \in BOOLEAN /\ cleared' \in BOOLEAN
      BY <1>67 DEF ChipReset
    <2>3. ir' \subseteq {"SENDOK", "TIMEOUT"} /\ stale' \subseteq ir'
      BY <1>67 DEF ChipReset, Clear
    <2>4. unacked' \in 0..TxMax /\ rx' \in 0..RxCap
      BY <1>67 DEF ChipReset
    <2> QED
      BY <1>67, <2>1, <2>2, <2>3, <2>4 DEF ChipReset, StateReset, Idle
  <1>68. CASE Recover
    BY <1>68 DEF Recover
  <1>69. CASE SetTimeSource
    BY <1>69 DEF SetTimeSource, Idle
  <1>70. CASE UNCHANGED vars
    BY <1>70
  <1>71. CASE KeepAliveStart
    BY <1>71 DEF KeepAliveStart, Idle, Healthy, Usable, WriteCommand
  <1>72. CASE KeepAliveAccepted
    BY <1>72 DEF KeepAliveAccepted, Goto
  <1>73. CASE KeepAliveTimeout
    BY <1>73 DEF KeepAliveTimeout, Goto, Clear
  <1>74. CASE KeepAliveExpired
    BY <1>74 DEF KeepAliveExpired, Fault, Goto
  <1> QED
    BY <1>1, <1>2, <1>3, <1>4, <1>5, <1>6, <1>7, <1>8, <1>9, <1>10, <1>11,
       <1>12, <1>13, <1>14, <1>15, <1>16, <1>17, <1>18, <1>19, <1>20, <1>21,
       <1>22, <1>23, <1>24, <1>25, <1>26, <1>27, <1>28, <1>29, <1>30, <1>31,
       <1>32, <1>33, <1>34, <1>35, <1>36, <1>37, <1>38, <1>39, <1>40, <1>41,
       <1>42, <1>43, <1>44, <1>45, <1>46, <1>47, <1>48, <1>49, <1>50, <1>51,
       <1>52, <1>53, <1>54, <1>55, <1>56, <1>57, <1>58, <1>59, <1>60, <1>61,
       <1>62, <1>63, <1>64, <1>65, <1>66, <1>67, <1>68, <1>69, <1>70,
       <1>71, <1>72, <1>73, <1>74
       DEF Next, Chip, Peer, Progress, Expiry, Call

-----------------------------------------------------------------------------
(* The rest of the invariant *)

LEMMA StreamStep == StreamInv /\ TypeOK' /\ [Next]_vars => StreamInv'
  <1> SUFFICES ASSUME StreamInv, TypeOK', [Next]_vars PROVE StreamInv'
    OBVIOUS
  <1> USE DEF StreamInv, TypeOK, CallerOwns, Settled, SendingInSession,
          BusyIsKnown, OutcomeComing, RecvCounts, Busy, Opening, SendOps,
          RecvOps, Session, Connected, CloseWaits, vars, events, chip, hist,
          driver, outside
  <1>1. CASE ChipAccept
    <2>1. CallerOwns'
      BY <1>1 DEF ChipAccept
    <2>2. Settled'
      BY <1>1 DEF ChipAccept
    <2>3. SendingInSession'
      BY <1>1 DEF ChipAccept
    <2>4. BusyIsKnown'
      BY <1>1 DEF ChipAccept
    <2>5. OutcomeComing'
      BY <1>1 DEF ChipAccept
    <2>6. RecvCounts'
      BY <1>1 DEF ChipAccept
    <2> QED
      BY <2>1, <2>2, <2>3, <2>4, <2>5, <2>6
  <1>2. CASE ChipSettle
    BY <1>2 DEF ChipSettle, After
  <1>3. CASE ChipSendDone
    BY <1>3 DEF ChipSendDone
  <1>4. CASE ChipTimeout
    BY <1>4 DEF ChipTimeout
  <1>5. CASE PeerAcks
    BY <1>5 DEF PeerAcks
  <1>6. CASE PeerConnects
    BY <1>6 DEF PeerConnects
  <1>7. CASE PeerSends
    BY <1>7 DEF PeerSends
  <1>8. CASE PeerFinishes
    BY <1>8 DEF PeerFinishes
  <1>9. CASE PeerResets
    BY <1>9 DEF PeerResets
  <1>10. CASE OpenAccepted
    BY <1>10 DEF OpenAccepted, Goto
  <1>11. CASE OpenDone
    <2>1. CallerOwns'
      BY <1>11 DEF OpenDone, Goto
    <2>2. Settled'
      BY <1>11 DEF OpenDone, Goto
    <2>3. SendingInSession'
      BY <1>11 DEF OpenDone, Goto
    <2>4. BusyIsKnown'
      BY <1>11 DEF OpenDone, Goto
    <2>5. OutcomeComing'
      BY <1>11 DEF OpenDone, Goto
    <2>6. RecvCounts'
      BY <1>11 DEF OpenDone, Goto
    <2> QED
      BY <2>1, <2>2, <2>3, <2>4, <2>5, <2>6
  <1>12. CASE InnerClose
    BY <1>12 DEF InnerClose, StateReset, WriteCommand, Goto, Reopen
  <1>13. CASE CloseAccepted
    BY <1>13 DEF CloseAccepted, Goto, Clear
  <1>14. CASE CloseDone
    BY <1>14 DEF CloseDone, StateReset, WriteCommand, Goto, Reopen
  <1>15. CASE ListenAccepted
    BY <1>15 DEF ListenAccepted, Goto
  <1>16. CASE ListenDone
    BY <1>16 DEF ListenDone, Goto
  <1>17. CASE ConnectAccepted
    BY <1>17 DEF ConnectAccepted, Goto
  <1>18. CASE ConnectLook
    BY <1>18 DEF ConnectLook, Goto
  <1>19. CASE ConnectTimeout
    BY <1>19 DEF ConnectTimeout, Goto, Clear
  <1>20. CASE ConnectGone
    BY <1>20 DEF ConnectGone, Goto
  <1>21. CASE ConnectAgain
    BY <1>21 DEF ConnectAgain, Goto
  <1>22. CASE DisconnectAccepted
    BY <1>22 DEF DisconnectAccepted, Goto
  <1>23. CASE DisconnectLook
    BY <1>23 DEF DisconnectLook, Goto
  <1>24. CASE DisconnectTimeout
    BY <1>24 DEF DisconnectTimeout, Fault, Goto, Clear
  <1>25. CASE DisconnectAgain
    BY <1>25 DEF DisconnectAgain, Goto
  <1>26. CASE SendEnded
    BY <1>26 DEF SendEnded, Goto, Clear
  <1>27. CASE SendTimeout
    BY <1>27 DEF SendTimeout, Fault, Goto, Clear
  <1>28. CASE SendLook
    BY <1>28 DEF SendLook, Goto
  <1>29. CASE SendGone
    BY <1>29 DEF SendGone, Goto
  <1>30. CASE SendAgain
    BY <1>30 DEF SendAgain, Goto
  <1>31. CASE SendWrite
    BY <1>31 DEF SendWrite, WriteCommand
  <1>32. CASE SendClosed
    BY <1>32 DEF SendClosed, Goto
  <1>33. CASE SendAccepted
    BY <1>33 DEF SendAccepted, Goto
  <1>34. CASE RecvSize
    BY <1>34 DEF RecvSize, Goto
  <1>35. CASE RecvRead
    BY <1>35 DEF RecvRead, RecvGoto, Lesser
  <1>36. CASE RecvClosed
    BY <1>36 DEF RecvClosed, RecvGoto
  <1>37. CASE RecvEmpty
    BY <1>37 DEF RecvEmpty, RecvGoto
  <1>38. CASE RecvHalfClosed
    BY <1>38 DEF RecvHalfClosed, Goto
  <1>39. CASE RecvDrained
    BY <1>39 DEF RecvDrained, Goto
  <1>40. CASE RecvAccepted
    BY <1>40 DEF RecvAccepted, Goto
  <1>41. CASE OpenExpired
    BY <1>41 DEF OpenExpired, Fault, Goto
  <1>42. CASE CloseExpired
    BY <1>42 DEF CloseExpired, StateReset, Goto
  <1>43. CASE ListenExpired
    BY <1>43 DEF ListenExpired, Fault, Goto
  <1>44. CASE ConnectNotAccepted
    BY <1>44 DEF ConnectNotAccepted, Fault, Goto
  <1>45. CASE ConnectExpired
    BY <1>45 DEF ConnectExpired, Fault, Goto
  <1>46. CASE DisconnectNotAccepted
    BY <1>46 DEF DisconnectNotAccepted, Fault, Goto
  <1>47. CASE DisconnectExpired
    BY <1>47 DEF DisconnectExpired, Fault, Goto
  <1>48. CASE SendExpired
    BY <1>48 DEF SendExpired, Fault, Goto
  <1>49. CASE SendNoRoom
    BY <1>49 DEF SendNoRoom, Goto
  <1>50. CASE SendNotAccepted
    BY <1>50 DEF SendNotAccepted, Fault, Goto
  <1>51. CASE RecvExpired
    BY <1>51 DEF RecvExpired, RecvGoto
  <1>52. CASE RecvNotAccepted
    BY <1>52 DEF RecvNotAccepted, Fault, Goto
  <1>53. CASE SizeUnread
    BY <1>53 DEF SizeUnread, RecvGoto
  <1>54. CASE SocketBeforeLock
    BY <1>54 DEF SocketBeforeLock
  <1>55. CASE SocketLocked
    BY <1>55 DEF SocketLocked, Idle, WriteCommand, Goto, Reopen
  <1>56. CASE CloseShort
    BY <1>56 DEF CloseShort, StateReset, Idle
  <1>57. CASE CloseStart
    BY <1>57 DEF CloseStart, Idle, Healthy, WriteCommand
  <1>58. CASE ListenStart
    BY <1>58 DEF ListenStart, Idle, Healthy, WriteCommand
  <1>59. CASE ConnectStart
    BY <1>59 DEF ConnectStart, Idle, Healthy, WriteCommand
  <1>60. CASE DisconnectStart
    BY <1>60 DEF DisconnectStart, Idle, Healthy, WriteCommand
  <1>61. CASE DisconnectWait
    BY <1>61 DEF DisconnectWait, Idle, Healthy, Goto
  <1>62. CASE SendStart
    BY <1>62 DEF SendStart, Idle, Healthy, Usable, Goto
  <1>63. CASE RecvStart
    BY <1>63 DEF RecvStart, Idle, Healthy, Usable, Goto
  <1>64. CASE SetIoMode
    BY <1>64 DEF SetIoMode, Idle, Healthy
  <1>65. CASE ClearInterrupt
    BY <1>65 DEF ClearInterrupt, Idle, Healthy, Clear
  <1>66. CASE ClearAllInterrupts
    <2>1. CallerOwns'
      BY <1>66 DEF ClearAllInterrupts, Clear
    <2>2. Settled'
      BY <1>66 DEF ClearAllInterrupts, Clear
    <2>3. SendingInSession'
      BY <1>66 DEF ClearAllInterrupts, Clear
    <2>4. BusyIsKnown'
      BY <1>66 DEF ClearAllInterrupts, Clear
    <2>5. OutcomeComing'
      BY <1>66 DEF ClearAllInterrupts, Clear
    <2>6. RecvCounts'
      BY <1>66 DEF ClearAllInterrupts, Clear
    <2> QED
      BY <2>1, <2>2, <2>3, <2>4, <2>5, <2>6
  <1>67. CASE ChipReset
    BY <1>67 DEF ChipReset, StateReset, Idle, Clear
  <1>68. CASE Recover
    BY <1>68 DEF Recover
  <1>69. CASE SetTimeSource
    BY <1>69 DEF SetTimeSource, Idle
  <1>70. CASE UNCHANGED vars
    BY <1>70
  <1>71. CASE KeepAliveStart
    BY <1>71 DEF KeepAliveStart, Idle, Healthy, Usable, WriteCommand
  <1>72. CASE KeepAliveAccepted
    BY <1>72 DEF KeepAliveAccepted, Goto
  <1>73. CASE KeepAliveTimeout
    BY <1>73 DEF KeepAliveTimeout, Goto, Clear
  <1>74. CASE KeepAliveExpired
    BY <1>74 DEF KeepAliveExpired, Fault, Goto
  <1> QED
    BY <1>1, <1>2, <1>3, <1>4, <1>5, <1>6, <1>7, <1>8, <1>9, <1>10, <1>11,
       <1>12, <1>13, <1>14, <1>15, <1>16, <1>17, <1>18, <1>19, <1>20, <1>21,
       <1>22, <1>23, <1>24, <1>25, <1>26, <1>27, <1>28, <1>29, <1>30, <1>31,
       <1>32, <1>33, <1>34, <1>35, <1>36, <1>37, <1>38, <1>39, <1>40, <1>41,
       <1>42, <1>43, <1>44, <1>45, <1>46, <1>47, <1>48, <1>49, <1>50, <1>51,
       <1>52, <1>53, <1>54, <1>55, <1>56, <1>57, <1>58, <1>59, <1>60, <1>61,
       <1>62, <1>63, <1>64, <1>65, <1>66, <1>67, <1>68, <1>69, <1>70,
       <1>71, <1>72, <1>73, <1>74
       DEF Next, Chip, Peer, Progress, Expiry, Call

-----------------------------------------------------------------------------
(* The theorems *)

LEMMA StreamInvariant == Spec => []StreamInv
  <1>1. Init => StreamInv
    BY StreamInit
  <1>2. StreamInv /\ [Next]_vars => StreamInv'
    BY TypeStep, StreamStep
  <1> QED
    BY <1>1, <1>2, PTL DEF Spec

\* Every variable keeps its type: in particular no send leaves more in the TX
\* memory than it holds, and no recv takes more than the RX memory has.
THEOREM TypesKept == Spec => []TypeOK
  <1>1. StreamInv => TypeOK
    BY DEF StreamInv
  <1> QED
    BY <1>1, StreamInvariant, PTL

\* send writes no SEND while the controller works on the one before, whatever
\* disconnects, faults, closes, reopens and resets lie in between.
THEOREM NoSendOverlaps == Spec => []SendsDoNotOverlap
  <1>1. StreamInv => SendsDoNotOverlap
    BY DEF StreamInv, BusyIsKnown, Busy, SendsDoNotOverlap
  <1> QED
    BY <1>1, StreamInvariant, PTL

\* A send that waits for the one before it has something to wait for.
THEOREM SendWillEnd == Spec => []SendingHasOutcome
  <1>1. StreamInv => SendingHasOutcome
    BY DEF StreamInv, OutcomeComing, SendingHasOutcome
  <1> QED
    BY <1>1, StreamInvariant, PTL

\* recv gives up a half-closed connection only when both sides are drained,
\* as far as it has looked.
THEOREM HalfCloseIsDrained == Spec => []HalfCloseDrained
  <1>1. StreamInv => HalfCloseDrained
    BY DEF StreamInv, RecvCounts, HalfCloseDrained
  <1> QED
    BY <1>1, StreamInvariant, PTL

\* A faulted socket gets no command before close or a reset.
THEOREM FaultedStaysQuiet == Spec => FaultedIsQuiet
  <1> DEFINE Quiet ==
        health = "FAULTED" /\ health' = "FAULTED" => cr' \in {cr, "NONE"}
  <1>1. StreamInv /\ [Next]_vars => [Quiet]_vars
    <2> SUFFICES ASSUME StreamInv, Next, health = "FAULTED" PROVE Quiet
      OBVIOUS
    <2>1. op = "idle"
      BY DEF StreamInv, CallerOwns
    <2>2. CASE Chip
      BY <2>2 DEF Chip, ChipAccept, ChipSettle, ChipSendDone, ChipTimeout
    <2>3. CASE Peer
      BY <2>3 DEF Peer, PeerAcks, PeerConnects, PeerSends, PeerFinishes,
         PeerResets
    <2>4. ~Progress
      BY <2>1 DEF Progress, OpenAccepted, OpenDone, InnerClose,
         CloseAccepted, CloseDone, ListenAccepted, ListenDone,
         ConnectAccepted, ConnectLook, ConnectTimeout, ConnectGone,
         ConnectAgain, DisconnectAccepted, DisconnectLook,
         DisconnectTimeout, DisconnectAgain, SendEnded, SendTimeout,
         SendLook, SendGone, SendAgain, SendWrite, SendClosed, SendAccepted,
         RecvSize, RecvRead, RecvClosed, RecvEmpty, RecvHalfClosed,
         RecvDrained, RecvAccepted, KeepAliveAccepted, KeepAliveTimeout
    <2>5. ~Expiry /\ ~SizeUnread
      BY <2>1 DEF Expiry, SizeUnread, OpenExpired, CloseExpired,
         ListenExpired, ConnectNotAccepted, ConnectExpired,
         DisconnectNotAccepted, DisconnectExpired, SendExpired, SendNoRoom,
         SendNotAccepted, RecvExpired, RecvNotAccepted, KeepAliveExpired
    <2>6. CASE Call
      BY <2>6 DEF Call, chip, SocketBeforeLock, SocketLocked, CloseShort,
         CloseStart, ListenStart, ConnectStart, DisconnectStart,
         DisconnectWait, SendStart, RecvStart, KeepAliveStart, SetIoMode,
         ClearInterrupt, ClearAllInterrupts, ChipReset, Recover, SetTimeSource, Usable,
         Healthy
    <2> QED
      BY <2>2, <2>3, <2>4, <2>5, <2>6 DEF Next
  <1> QED
    BY <1>1, StreamInvariant, PTL DEF Spec, FaultedIsQuiet
=============================================================================
