------------------------ MODULE DatagramSocketProofs ------------------------
(***************************************************************************)
(* What DatagramSocket checks on small instances, proved for every set of  *)
(* protocols, lengths, buffer sizes and concurrent openers: the types,     *)
(* that a SEND never overtakes an unfinished one, that the event that ends *)
(* a sendto is the end of the datagram it reports, and that recvfrom       *)
(* reads the RX memory one whole datagram after the other.                 *)
(***************************************************************************)
EXTENDS DatagramSocket, SequenceTheorems, TLAPS

USE ConstantAssumption

-----------------------------------------------------------------------------
(* Types *)

\* The type invariant with the one fact it needs to be inductive: between the
\* header's RECV and its acceptance the call holds a decoded length.
TypeInv ==
  /\ TypeOK
  /\ op = "rx_head" => local \in Lengths \cup {Bad}

LEMMA WrapPositive == Wrap \in Nat \ {0}
  BY DEF ConstantAssumption

LEMMA ModInRange ==
  ASSUME NEW a \in Int
  PROVE  a % Wrap \in 0..(Wrap - 1)
  BY WrapPositive

LEMMA NoCells == <<>> \in Seq(Cell)
  OBVIOUS

\* A header decodes to a length the network delivers or to a rejected one.
LEMMA HeaderIsLength ==
  ASSUME rx \in Seq(Cell)
  PROVE  HeaderValues \subseteq Lengths \cup {Bad}
  <1>1. CASE rx # <<>> /\ Head(rx) # Payload
    <2>1. Head(rx) \in Cell
      BY <1>1
    <2> QED
      BY <1>1, <2>1 DEF HeaderValues, Cell
  <1>2. CASE ~(rx # <<>> /\ Head(rx) # Payload)
    BY <1>2 DEF HeaderValues
  <1> QED
    BY <1>1, <1>2

\* Moving the read pointer leaves cells.
LEMMA ConsumeCells ==
  ASSUME NEW n \in Nat, rx \in Seq(Cell)
  PROVE  SubSeq(rx, Lesser(n, Len(rx)) + 1, Len(rx)) \in Seq(Cell)
  BY DEF Lesser

LEMMA ReceiveCells ==
  ASSUME rx \in Seq(Cell), NEW n \in Lengths
  PROVE  rx \o <<n>> \o [i \in 1..n |-> Payload] \in Seq(Cell)
  <1>1. n \in Nat
    BY DEF ConstantAssumption
  <1>2. <<n>> \in Seq(Cell)
    BY DEF Cell
  <1>3. [i \in 1..n |-> Payload] \in Seq(Cell)
    BY <1>1 DEF Cell
  <1> QED
    BY <1>2, <1>3

\* What the two reads from the RX memory leave behind.
LEMMA ReadHeaderTypes ==
  ASSUME rx \in Seq(Cell), ReadHeader
  PROVE  /\ rx' \in Seq(Cell) /\ local' \in Lengths \cup {Bad}
         /\ local' \in Nat \cup {Bad}
         /\ cr' = "RECV" /\ op' = "rx_head"
  <1>1. rx' \in Seq(Cell)
    BY ConsumeCells DEF ReadHeader, Consume
  <1>2. local' \in Lengths \cup {Bad}
    BY HeaderIsLength DEF ReadHeader
  <1> QED
    BY <1>1, <1>2 DEF ReadHeader, WriteRecv, WriteCommand, ConstantAssumption

LEMMA ReadChunkTypes ==
  ASSUME rx \in Seq(Cell), NEW rest \in Nat, ReadChunk(rest)
  PROVE  /\ rx' \in Seq(Cell) /\ local' \in Nat
         /\ cr' = "RECV" /\ op' = "rx_body"
  <1>1. cr' = "RECV" /\ op' = "rx_body"
    BY DEF ReadChunk, WriteRecv, WriteCommand
  <1>2. local' \in Nat
    <2>1. CASE rest > 0
      BY <2>1 DEF ReadChunk, Lesser, ConstantAssumption
    <2>2. CASE rest = 0
      BY <2>2 DEF ReadChunk, ConstantAssumption
    <2> QED
      BY <2>1, <2>2
  <1>3. rx' \in Seq(Cell)
    BY <1>2, ConsumeCells DEF ReadChunk, Consume
  <1> QED
    BY <1>1, <1>2, <1>3

LEMMA TypeInit == Init => TypeInv
  BY WrapPositive DEF Init, TypeInv, TypeOK, Bad

LEMMA TypeStep == TypeInv /\ [Next]_vars => TypeInv'
  <1> SUFFICES ASSUME TypeInv, [Next]_vars PROVE TypeInv'
    OBVIOUS
  <1> USE WrapPositive DEF TypeInv, TypeOK, vars, hardware, driver, txChip,
     txVars, rxVars, outside, CloseWaits, OpenWaits, SendWaits, RecvWaits
  <1>1. CASE ChipAccept
    BY <1>1 DEF ChipAccept
  <1>2. CASE ChipSettle
    <2>1. rx' \in Seq(Cell) /\ tx' \in {"NONE", "FLYING"} \cup Terminal
      BY <1>2, NoCells DEF ChipSettle
    <2>2. sr' \in Protocols \cup {"CLOSED"}
      BY <1>2 DEF ChipSettle
    <2> QED
      BY <1>2, <2>1, <2>2 DEF ChipSettle
  <1>3. CASE ChipSendDone
    BY <1>3 DEF ChipSendDone
  <1>4. CASE ChipReceive
    <2>1. rx' \in Seq(Cell)
      BY <1>4, ReceiveCells DEF ChipReceive
    <2> QED
      BY <1>4, <2>1 DEF ChipReceive
  <1>5. CASE OpenAccepted
    BY <1>5 DEF OpenAccepted
  <1>6. CASE OpenDone
    BY <1>6 DEF OpenDone
  <1>7. CASE CloseAccepted
    BY <1>7 DEF CloseAccepted
  <1>8. CASE CloseDone
    BY <1>8 DEF CloseDone, StateReset, WriteOpen, WriteCommand
  <1>9. CASE SendtoRoom
    BY <1>9 DEF SendtoRoom, WriteSend, WriteCommand
  <1>10. CASE SendtoAccepted
    BY <1>10 DEF SendtoAccepted
  <1>11. CASE SendtoEnd
    BY <1>11 DEF SendtoEnd
  <1>12. CASE RecvfromArrival
    BY <1>12, ReadHeaderTypes DEF RecvfromArrival
  <1>13. CASE RecvfromHead
    <2>1. local \in Lengths /\ local \in Nat /\ local < Wrap
      BY <1>13 DEF RecvfromHead, ConstantAssumption
    <2>2. /\ rx' \in Seq(Cell) /\ local' \in Nat
          /\ cr' = "RECV" /\ op' = "rx_body"
      BY <1>13, <2>1, ReadChunkTypes DEF RecvfromHead
    <2> QED
      BY <1>13, <2>1, <2>2 DEF RecvfromHead
  <1>14. CASE RecvfromFatal
    BY <1>14 DEF RecvfromFatal, WriteCommand
  <1>15. CASE RecvfromDone
    <2>1. local \in Int /\ remained \in Int
      BY DEF Bad
    <2>2. remained' \in 0..(Wrap - 1)
      BY <1>15, <2>1, ModInRange DEF RecvfromDone
    <2>3. packInfo' \subseteq {"FIRST", "REMAINED"}
      BY <1>15 DEF RecvfromDone
    <2> QED
      BY <1>15, <2>2, <2>3 DEF RecvfromDone
  <1>16. CASE OpenExpired
    BY <1>16 DEF OpenExpired
  <1>17. CASE CloseExpired
    BY <1>17 DEF CloseExpired, StateReset
  <1>18. CASE SendtoNoRoom
    BY <1>18 DEF SendtoNoRoom
  <1>19. CASE SendtoNotAccepted
    BY <1>19 DEF SendtoNotAccepted
  <1>20. CASE SendtoNoEnd
    BY <1>20 DEF SendtoNoEnd
  <1>21. CASE RecvfromNothing
    BY <1>21 DEF RecvfromNothing
  <1>22. CASE RecvfromGiveUp
    BY <1>22 DEF RecvfromGiveUp
  <1>23. ASSUME NEW o \in Openers, SocketBeforeLock(o) PROVE TypeInv'
    BY <1>23 DEF SocketBeforeLock
  <1>24. ASSUME NEW o \in Openers, SocketLocked(o) PROVE TypeInv'
    BY <1>24 DEF SocketLocked, WriteOpen, WriteCommand, Idle
  <1>25. CASE CloseShort
    BY <1>25 DEF CloseShort, StateReset, Idle
  <1>26. CASE CloseStart
    BY <1>26 DEF CloseStart, WriteCommand, Usable, Idle
  <1>27. CASE SendtoPoll
    <2>1. ir' \subseteq Terminal
      BY <1>27 DEF SendtoPoll
    <2> QED
      BY <1>27, <2>1 DEF SendtoPoll, Usable, Idle
  <1>28. CASE SendtoStart
    BY <1>28 DEF SendtoStart, WriteSend, WriteCommand, Usable, Idle, Sendable
  <1>29. CASE SendtoFull
    BY <1>29 DEF SendtoFull, Usable, Idle, Sendable
  <1>30. CASE RecvfromHeader
    BY <1>30, ReadHeaderTypes DEF RecvfromHeader
  <1>31. CASE RecvfromEmpty
    BY <1>31 DEF RecvfromEmpty, Usable, Idle, HasData
  <1>32. CASE RecvfromMore
    <2>1. /\ rx' \in Seq(Cell) /\ local' \in Nat
          /\ cr' = "RECV" /\ op' = "rx_body"
      BY <1>32, ReadChunkTypes DEF RecvfromMore
    <2> QED
      BY <1>32, <2>1 DEF RecvfromMore
  <1>33. CASE SetIoMode
    BY <1>33 DEF SetIoMode, Idle
  <1>34. CASE ClearInterrupt
    BY <1>34 DEF ClearInterrupt, Idle
  <1>35. CASE ClearAllInterrupts
    BY <1>35 DEF ClearAllInterrupts
  <1>36. CASE ChipReset
    <2>1. rx' \in Seq(Cell)
      BY <1>36, NoCells DEF ChipReset
    <2> QED
      BY <1>36, <2>1 DEF ChipReset, StateReset, Idle
  <1>37. CASE Recover
    BY <1>37 DEF Recover
  <1>38. CASE SetTimeSource
    BY <1>38 DEF SetTimeSource, Idle
  <1>39. CASE UNCHANGED vars
    BY <1>39
  <1> QED
    BY <1>1, <1>2, <1>3, <1>4, <1>5, <1>6, <1>7, <1>8, <1>9, <1>10, <1>11,
       <1>12, <1>13, <1>14, <1>15, <1>16, <1>17, <1>18, <1>19, <1>20, <1>21,
          <1>22, <1>23, <1>24, <1>25, <1>26, <1>27, <1>28, <1>29, <1>30,
             <1>31, <1>32, <1>33, <1>34, <1>35, <1>36, <1>37, <1>38,
                <1>39 DEF Next, Chip, Progress, Expiry, Call

-----------------------------------------------------------------------------
(* The life of a datagram *)

Sending == {"tx_cr", "tx_end"}

\* A call that holds the lock works on a healthy socket, one that sends or
\* receives on an open one, and one that sends found no datagram pending.
CallerOwns ==
  /\ op # "idle" => health = "HEALTHY"
  /\ op \in SendWaits \cup RecvWaits => mode # "NONE"
  /\ op \in SendWaits => txState = "IDLE"
  /\ op = "tx_cr" => cr \in {"SEND", "NONE"}
  /\ op = "tx_end" => cr # "SEND"

\* What an OPEN in progress starts from: no old datagram, no old CLOSE.
OpeningIsFresh ==
  op \in OpenWaits =>
    /\ mode = "NONE" /\ tx # "FLYING" /\ cr \in {"OPEN", "NONE"}
    /\ cr = "NONE" => settling # "CLOSE"
    /\ op = "open_sr" => cr = "NONE"

\* The driver's idea of an open socket is the hardware's, until it closes it.
OpenIncarnation ==
  /\ mode # "NONE" /\ op \notin CloseWaits =>
       sr = mr /\ settling # "CLOSE" /\ cr # "CLOSE"
  /\ mode = "NONE" => txState # "DGRAM_PENDING"
  /\ sr = "CLOSED" => tx # "FLYING"

\* A healthy open socket with nothing pending has nothing unfinished.
NothingUnfinished ==
  mode # "NONE" /\ health = "HEALTHY" /\ txState = "IDLE"
    /\ op \notin Sending => cr # "SEND" /\ tx # "FLYING"

\* While a datagram is on its way Sn_IR holds no event but its own.
EventIsOwn ==
  /\ txState = "DGRAM_PENDING" => cr # "SEND" /\ pendingLen = txbuf
  /\ txState = "DGRAM_PENDING" \/ op \in Sending => ir \subseteq {tx}
  /\ op = "tx_cr" /\ cr = "SEND" => ir = {}

\* From its acceptance on, a datagram has an end to come or an end latched.
OutcomeComing ==
  /\ txHist = "whole"
  /\ \/ op = "tx_end"
     \/ op = "tx_cr" /\ cr = "NONE"
     \/ txState = "DGRAM_PENDING" /\ op \notin CloseWaits
  => tx = "FLYING" \/ (tx \in Terminal /\ tx \in ir)

SendInv ==
  /\ TypeOK
  /\ CallerOwns /\ OpeningIsFresh /\ OpenIncarnation
  /\ OneSendAtATime /\ NothingUnfinished /\ EventIsOwn /\ OutcomeComing

LEMMA SendInit == Init => SendInv
  <1> SUFFICES ASSUME Init PROVE SendInv
    OBVIOUS
  <1>1. TypeOK
    BY TypeInit DEF TypeInv
  <1> QED
    BY <1>1 DEF Init, SendInv, CallerOwns, OpeningIsFresh, OpenIncarnation,
       OneSendAtATime, NothingUnfinished, EventIsOwn, OutcomeComing, Sending,
       OpenWaits, CloseWaits, SendWaits, RecvWaits

LEMMA SendStep == SendInv /\ TypeOK' /\ [Next]_vars => SendInv'
  <1> SUFFICES ASSUME SendInv, TypeOK', [Next]_vars PROVE SendInv'
    OBVIOUS
  <1> USE DEF SendInv, TypeOK, CallerOwns, OpeningIsFresh, OpenIncarnation,
          OneSendAtATime, NothingUnfinished, EventIsOwn, OutcomeComing,
          Sending, Terminal, CloseWaits, OpenWaits, SendWaits, RecvWaits,
          vars, hardware, txChip, driver, txVars, rxVars, outside
  <1>1. CASE ChipAccept
    BY <1>1 DEF ChipAccept
  <1>2. CASE ChipSettle
    BY <1>2 DEF ChipSettle
  <1>3. CASE ChipSendDone
    BY <1>3 DEF ChipSendDone
  <1>4. CASE ChipReceive
    BY <1>4 DEF ChipReceive
  <1>5. CASE OpenAccepted
    BY <1>5 DEF OpenAccepted
  <1>6. CASE OpenDone
    BY <1>6 DEF OpenDone
  <1>7. CASE CloseAccepted
    BY <1>7 DEF CloseAccepted
  <1>8. CASE CloseDone
    BY <1>8 DEF CloseDone, StateReset, WriteOpen, WriteCommand
  <1>9. CASE SendtoRoom
    BY <1>9 DEF SendtoRoom, WriteSend, WriteCommand
  <1>10. CASE SendtoAccepted
    BY <1>10 DEF SendtoAccepted
  <1>11. CASE SendtoEnd
    BY <1>11 DEF SendtoEnd
  <1>12. CASE RecvfromArrival
    BY <1>12 DEF RecvfromArrival, ReadHeader, WriteRecv, WriteCommand
  <1>13. CASE RecvfromHead
    BY <1>13 DEF RecvfromHead, ReadChunk, WriteRecv, WriteCommand
  <1>14. CASE RecvfromFatal
    BY <1>14 DEF RecvfromFatal, WriteCommand
  <1>15. CASE RecvfromDone
    BY <1>15 DEF RecvfromDone
  <1>16. CASE OpenExpired
    BY <1>16 DEF OpenExpired
  <1>17. CASE CloseExpired
    BY <1>17 DEF CloseExpired, StateReset
  <1>18. CASE SendtoNoRoom
    BY <1>18 DEF SendtoNoRoom
  <1>19. CASE SendtoNotAccepted
    BY <1>19 DEF SendtoNotAccepted
  <1>20. CASE SendtoNoEnd
    BY <1>20 DEF SendtoNoEnd
  <1>21. CASE RecvfromNothing
    BY <1>21 DEF RecvfromNothing
  <1>22. CASE RecvfromGiveUp
    BY <1>22 DEF RecvfromGiveUp
  <1>23. ASSUME NEW o \in Openers, SocketBeforeLock(o) PROVE SendInv'
    BY <1>23 DEF SocketBeforeLock
  <1>24. ASSUME NEW o \in Openers, SocketLocked(o) PROVE SendInv'
    BY <1>24 DEF SocketLocked, Idle, WriteOpen, WriteCommand
  <1>25. CASE CloseShort
    BY <1>25 DEF CloseShort, StateReset, Idle
  <1>26. CASE CloseStart
    BY <1>26 DEF CloseStart, Usable, Idle, WriteCommand
  <1>27. CASE SendtoPoll
    BY <1>27 DEF SendtoPoll, Usable, Idle
  <1>28. CASE SendtoStart
    BY <1>28 DEF SendtoStart, Usable, Idle, WriteSend, WriteCommand, Sendable
  <1>29. CASE SendtoFull
    BY <1>29 DEF SendtoFull, Usable, Idle, Sendable
  <1>30. CASE RecvfromHeader
    BY <1>30 DEF RecvfromHeader, Usable, Idle, ReadHeader, WriteRecv,
       WriteCommand
  <1>31. CASE RecvfromEmpty
    BY <1>31 DEF RecvfromEmpty, Usable, Idle
  <1>32. CASE RecvfromMore
    BY <1>32 DEF RecvfromMore, Usable, Idle, ReadChunk, WriteRecv,
       WriteCommand
  <1>33. CASE SetIoMode
    BY <1>33 DEF SetIoMode, Idle
  <1>34. CASE ClearInterrupt
    BY <1>34 DEF ClearInterrupt, Idle
  <1>35. CASE ClearAllInterrupts
    BY <1>35 DEF ClearAllInterrupts
  <1>36. CASE ChipReset
    BY <1>36 DEF ChipReset, StateReset, Idle
  <1>37. CASE Recover
    BY <1>37 DEF Recover
  <1>38. CASE SetTimeSource
    BY <1>38 DEF SetTimeSource, Idle
  <1>39. CASE UNCHANGED vars
    BY <1>39
  <1> QED
    BY <1>1, <1>2, <1>3, <1>4, <1>5, <1>6, <1>7, <1>8, <1>9, <1>10, <1>11,
       <1>12, <1>13, <1>14, <1>15, <1>16, <1>17, <1>18, <1>19, <1>20, <1>21,
          <1>22, <1>23, <1>24, <1>25, <1>26, <1>27, <1>28, <1>29, <1>30,
             <1>31, <1>32, <1>33, <1>34, <1>35, <1>36, <1>37, <1>38, <1>39
       DEF Next, Chip, Progress, Expiry, Call

-----------------------------------------------------------------------------
(* The theorems *)

LEMMA TypeInvariant == Spec => []TypeInv
  <1>1. Init => TypeInv
    BY TypeInit
  <1>2. TypeInv /\ [Next]_vars => TypeInv'
    BY TypeStep
  <1> QED
    BY <1>1, <1>2, PTL DEF Spec

\* Every variable keeps its type, the 16-bit sock_remained_size included.
THEOREM TypesKept == Spec => []TypeOK
  <1>1. TypeInv => TypeOK
    BY DEF TypeInv
  <1> QED
    BY <1>1, TypeInvariant, PTL

LEMMA SendInvariant == Spec => []SendInv
  <1>1. Init => SendInv
    BY SendInit
  <1>2. SendInv /\ TypeOK' /\ [Next]_vars => SendInv'
    BY SendStep
  <1> QED
    BY <1>1, <1>2, TypesKept, PTL DEF Spec

\* sendto never writes SEND over a transmission, whatever calls, faults,
\* expired deadlines, resets and cleared interrupts came before.
THEOREM NoSendOvertakes == Spec => []OneSendAtATime
  <1>1. SendInv => OneSendAtATime
    BY DEF SendInv
  <1> QED
    BY <1>1, SendInvariant, PTL

\* A pending datagram is being transmitted or has its end latched in Sn_IR.
THEOREM PendingWillEnd == Spec => []PendingHasOutcome
  <1>1. SendInv => PendingHasOutcome
    BY DEF SendInv, OutcomeComing, PendingHasOutcome
  <1> QED
    BY <1>1, SendInvariant, PTL

\* The event a sendto call ends on belongs to the datagram it reports.
THEOREM OwnOutcome == Spec => OutcomeIsOwn
  <1> DEFINE Own ==
        /\ txState = "DGRAM_PENDING" /\ txState' = "IDLE" /\ mode' # "NONE" =>
             ir \ ir' = {tx} /\ pendingLen = txbuf
        /\ op = "tx_end" /\ op' = "idle" /\ health' = "HEALTHY" =>
             ir \ ir' = {tx}
  <1>1. SendInv /\ [Next]_vars => [Own]_vars
    <2> SUFFICES ASSUME SendInv, Next PROVE Own
      OBVIOUS
    <2>1. CASE SendtoPoll
      BY <2>1 DEF SendtoPoll, Usable, Idle, SendInv, EventIsOwn
    <2>2. CASE SendtoEnd
      BY <2>2 DEF SendtoEnd, SendInv, EventIsOwn, CallerOwns, Sending,
         driver, txVars, SendWaits
    <2>3. CASE OpenDone
      BY <2>3 DEF OpenDone, SendInv, OpeningIsFresh, OpenIncarnation,
         OpenWaits
    <2>4. CASE CloseDone \/ CloseExpired \/ CloseShort \/ ChipReset
      BY <2>4 DEF CloseDone, CloseExpired, CloseShort, ChipReset, StateReset,
         Idle
    <2>5. CASE SendtoAccepted
      BY <2>5 DEF SendtoAccepted
    <2>6. CASE SendtoNoEnd
      BY <2>6 DEF SendtoNoEnd, txVars
    <2>7. CASE SendtoNotAccepted
      BY <2>7 DEF SendtoNotAccepted
    <2>8. CASE ~(\/ SendtoPoll \/ SendtoEnd \/ OpenDone \/ CloseDone
                 \/ CloseExpired \/ CloseShort \/ ChipReset \/ SendtoAccepted
                 \/ SendtoNoEnd \/ SendtoNotAccepted)
      <3>1. txState' = txState
        BY <2>8 DEF Next, Chip, Progress, Expiry, Call, driver, txVars,
           ChipAccept, ChipSettle, ChipSendDone, ChipReceive, OpenAccepted,
           CloseAccepted, SendtoRoom, WriteSend, RecvfromArrival,
           RecvfromHead, RecvfromFatal, RecvfromDone, OpenExpired,
           SendtoNoRoom, RecvfromNothing, RecvfromGiveUp, SocketBeforeLock,
           SocketLocked, CloseStart, SendtoStart, SendtoFull, RecvfromHeader,
           RecvfromEmpty, RecvfromMore, SetIoMode, ClearInterrupt,
           ClearAllInterrupts, Recover, SetTimeSource
      <3>2. op = "tx_end" => op' = op
        BY <2>8 DEF Next, Chip, Progress, Expiry, Call, Idle, Usable,
           ChipAccept, ChipSettle, ChipSendDone, ChipReceive, OpenAccepted,
           CloseAccepted, SendtoRoom, WriteSend, RecvfromArrival,
           RecvfromHead, RecvfromFatal, RecvfromDone, OpenExpired,
           SendtoNoRoom, RecvfromNothing, RecvfromGiveUp, SocketBeforeLock,
           SocketLocked, CloseStart, SendtoStart, SendtoFull, RecvfromHeader,
           RecvfromEmpty, RecvfromMore, SetIoMode, ClearInterrupt,
           ClearAllInterrupts, Recover, SetTimeSource
      <3> QED
        BY <3>1, <3>2
    <2> QED
      BY <2>1, <2>2, <2>3, <2>4, <2>5, <2>6, <2>7, <2>8
  <1> QED
    BY <1>1, SendInvariant, PTL DEF Spec, OutcomeIsOwn

\* A faulted socket gets no command before close or a reset.
THEOREM FaultedStaysQuiet == Spec => FaultedIsQuiet
  <1> DEFINE Quiet ==
        health = "FAULTED" /\ health' = "FAULTED" => cr' \in {cr, "NONE"}
  <1>1. SendInv /\ [Next]_vars => [Quiet]_vars
    <2> SUFFICES ASSUME SendInv, Next, health = "FAULTED" PROVE Quiet
      OBVIOUS
    <2>1. op = "idle"
      BY DEF SendInv, CallerOwns
    <2>2. CASE Chip
      BY <2>2 DEF Chip, ChipAccept, ChipSettle, ChipSendDone, ChipReceive
    <2>3. ~Progress /\ ~Expiry
      BY <2>1 DEF Progress, Expiry, OpenAccepted, OpenDone, CloseAccepted,
         CloseDone, SendtoRoom, SendtoAccepted, SendtoEnd, RecvfromArrival,
         RecvfromHead, RecvfromFatal, RecvfromDone, OpenExpired, CloseExpired,
         SendtoNoRoom, SendtoNotAccepted, SendtoNoEnd, RecvfromNothing,
         RecvfromGiveUp
    <2>4. CASE Call
      BY <2>4 DEF Call, hardware, SocketBeforeLock, SocketLocked, CloseShort,
         CloseStart, SendtoPoll, SendtoStart, SendtoFull, RecvfromHeader,
         RecvfromEmpty, RecvfromMore, SetIoMode, ClearInterrupt,
         ClearAllInterrupts, ChipReset, Recover, SetTimeSource, Usable,
         StateReset
    <2> QED
      BY <2>2, <2>3, <2>4 DEF Next
  <1> QED
    BY <1>1, SendInvariant, PTL DEF Spec, FaultedIsQuiet

-----------------------------------------------------------------------------
(* What is received: the RX memory holds whole datagrams, after what is    *)
(* left of the one being read.                                             *)

\* A header, wherever it stands, is followed by its payload and then by a
\* header or by the end.
Whole(s) ==
  \A i \in 1..Len(s) : s[i] # Payload =>
    /\ i + s[i] <= Len(s)
    /\ \A j \in 1..s[i] : s[i + j] = Payload
    /\ i + s[i] < Len(s) => s[i + s[i] + 1] # Payload

RestIs(s, rest) ==
  /\ rest \in 0..Len(s)
  /\ \A i \in 1..rest : s[i] = Payload
  /\ rest < Len(s) => s[rest + 1] # Payload

Receiving ==
  /\ health = "HEALTHY" /\ mode # "NONE" /\ rxHist = "whole"
  /\ ~(mode = "IPRAW" /\ 0 \in Lengths) /\ op \notin CloseWaits

Between ==
  Receiving /\ op \notin {"rx_head", "rx_body"} =>
    Whole(rx) /\ RestIs(rx, remained) /\ cr # "RECV"

AtHeader ==
  Receiving /\ op = "rx_head" =>
    Whole(rx) /\ local \in Lengths /\ RestIs(rx, local)

AtPayload ==
  Receiving /\ op = "rx_body" =>
    Whole(rx) /\ local \in 0..remained /\ RestIs(rx, remained - local)

\* A closed socket holds nothing, one that opens nothing but whole datagrams.
OpensEmpty ==
  /\ sr = "CLOSED" => rx = <<>>
  /\ op \in OpenWaits => Whole(rx) /\ RestIs(rx, 0)

\* A call that waits for a datagram has read the one before to its end.
NothingLeft == op = "rx_data" => remained = 0

FrameInv == Between /\ AtHeader /\ AtPayload /\ OpensEmpty /\ NothingLeft

\* One more datagram at the end leaves what is before it as it was.
LEMMA DatagramArrives ==
  ASSUME NEW s \in Seq(Cell), NEW n \in Lengths, Whole(s)
  PROVE  LET t == s \o <<n>> \o [i \in 1..n |-> Payload]
         IN  Whole(t) /\ \A rest \in Nat : RestIs(s, rest) => RestIs(t, rest)
  <1> DEFINE u == s \o <<n>>
             tail == [i \in 1..n |-> Payload]
             t == u \o tail
             len == Len(s)
  <1>1. /\ n \in Nat /\ n # Payload /\ <<n>> \in Seq(Cell) /\ Len(<<n>>) = 1
        /\ <<n>>[1] = n /\ len \in Nat
    BY DEF Cell, Payload
  <1>2. /\ tail \in Seq(Cell) /\ Len(tail) = n
        /\ \A i \in 1..n : tail[i] = Payload
    <2>1. tail \in [1..n -> Cell]
      BY DEF Cell
    <2> QED
      BY <1>1, <2>1
  <1> HIDE DEF tail
  <1>3. /\ u \in Seq(Cell) /\ Len(u) = len + 1
        /\ \A i \in 1..(len + 1) : u[i] = IF i <= len THEN s[i] ELSE n
    <2>1. /\ u \in Seq(Cell) /\ Len(u) = len + 1
          /\ \A i \in 1..(len + 1) : u[i] = IF i <= len THEN s[i] ELSE <<n>>[i - len]
      BY <1>1, ConcatProperties
    <2>2. \A i \in 1..(len + 1) : ~(i <= len) => i - len = 1
      BY <1>1
    <2> HIDE DEF u, len
    <2> QED
      BY <1>1, <2>1, <2>2
  <1> HIDE DEF u, len
  <1>4. /\ Len(t) = len + 1 + n
        /\ \A i \in 1..(len + 1 + n) :
             t[i] = IF i <= len THEN s[i] ELSE IF i = len + 1 THEN n ELSE Payload
    <2> DEFINE m == len + 1
    <2>0. m \in Nat
      BY <1>1
    <2>1. /\ Len(t) = m + n
          /\ \A i \in 1..(m + n) : t[i] = IF i <= m THEN u[i] ELSE tail[i - m]
      <3>1. Len(u) = m /\ u \in Seq(Cell) /\ tail \in Seq(Cell) /\ Len(tail) = n
        BY <1>2, <1>3
      <3> HIDE DEF m
      <3> QED
        BY <3>1, ConcatProperties
    <2> HIDE DEF t
    <2>2. ASSUME NEW i \in 1..(m + n)
          PROVE  t[i] = IF i <= len THEN s[i] ELSE IF i = len + 1 THEN n ELSE Payload
      <3>1. CASE i <= m
        <4>1. i \in 1..(len + 1)
          BY <1>1, <3>1
        <4> QED
          BY <1>1, <1>3, <2>1, <3>1, <4>1
      <3>2. CASE ~(i <= m)
        <4>1. i - m \in 1..n /\ ~(i <= len) /\ i # len + 1
          BY <1>1, <3>2
        <4> QED
          BY <1>2, <2>1, <3>2, <4>1
      <3> QED
        BY <3>1, <3>2
    <2> QED
      BY <2>1, <2>2
  <1> HIDE DEF t
  <1>5. Whole(t)
    <2> SUFFICES ASSUME NEW i \in 1..(len + 1 + n), t[i] # Payload
                 PROVE  /\ i + t[i] <= len + 1 + n
                        /\ \A j \in 1..t[i] : t[i + j] = Payload
                        /\ i + t[i] < len + 1 + n => t[i + t[i] + 1] # Payload
      BY <1>4 DEF Whole
    <2>1. CASE i <= len
      <3> DEFINE h == s[i]
      <3>1. i \in 1..len /\ t[i] = h /\ h # Payload
        BY <1>1, <1>4, <2>1
      <3>2. h \in Nat
        <4>1. s[i] \in Cell
          BY <3>1 DEF len
        <4>2. h \in Lengths
          BY <3>1, <4>1 DEF Cell
        <4> QED
          BY <4>2
      <3>3. /\ i + h <= len
            /\ \A j \in 1..h : s[i + j] = Payload
            /\ i + h < len => s[i + h + 1] # Payload
        BY <3>1 DEF Whole, len
      <3> HIDE DEF h
      <3>4. \A j \in 1..h : i + j \in 1..(len + 1 + n) /\ i + j <= len
        BY <1>1, <3>2, <3>3
      <3>5. \A j \in 1..h : t[i + j] = Payload
        BY <1>4, <3>3, <3>4
      <3>6. i + h + 1 \in 1..(len + 1 + n) /\ (i + h + 1 <= len <=> i + h < len)
            /\ (~(i + h < len) => i + h + 1 = len + 1 /\ ~(i + h + 1 <= len))
        BY <1>1, <3>2, <3>3
      <3>7. t[i + h + 1] # Payload
        BY <1>1, <1>4, <3>3, <3>6
      <3>8. i + h <= len + 1 + n
        BY <1>1, <3>2, <3>3
      <3> QED
        BY <3>1, <3>5, <3>7, <3>8
    <2>2. CASE i = len + 1
      <3>1. t[i] = n
        BY <1>1, <1>4, <2>2
      <3>2. \A j \in 1..n : /\ i + j \in 1..(len + 1 + n)
                            /\ ~(i + j <= len) /\ i + j # len + 1
        BY <1>1, <2>2
      <3>3. \A j \in 1..n : t[i + j] = Payload
        BY <1>4, <3>2
      <3> QED
        BY <1>1, <2>2, <3>1, <3>3
    <2>3. CASE ~(i <= len) /\ i # len + 1
      BY <1>4, <2>3
    <2> QED
      BY <2>1, <2>2, <2>3
  <1>6. ASSUME NEW rest \in Nat, RestIs(s, rest) PROVE RestIs(t, rest)
    <2>1. /\ rest <= len /\ \A i \in 1..rest : s[i] = Payload
          /\ rest < len => s[rest + 1] # Payload
      BY <1>6 DEF RestIs, len
    <2>2. \A i \in 1..rest : i \in 1..(len + 1 + n) /\ i <= len
      BY <1>1, <2>1
    <2>3. /\ rest + 1 \in 1..(len + 1 + n) /\ rest \in 0..(len + 1 + n)
          /\ rest < len => rest + 1 <= len
          /\ ~(rest < len) => rest + 1 = len + 1 /\ ~(rest + 1 <= len)
      BY <1>1, <2>1
    <2>4. t[rest + 1] # Payload
      BY <1>1, <1>4, <2>1, <2>3
    <2>5. \A i \in 1..rest : t[i] = Payload
      BY <1>4, <2>1, <2>2
    <2> QED
      BY <1>4, <2>3, <2>4, <2>5 DEF RestIs
  <1> QED
    BY <1>5, <1>6 DEF t, u, tail

\* Reading on leaves whole datagrams behind.
LEMMA ReadOn ==
  ASSUME NEW s \in Seq(Cell), NEW k \in 0..Len(s), Whole(s)
  PROVE  LET t == SubSeq(s, k + 1, Len(s))
         IN  /\ Whole(t)
             /\ \A rest \in Nat : k <= rest /\ RestIs(s, rest) => RestIs(t, rest - k)
             /\ k = 1 /\ RestIs(s, 0) => s[1] \in Lengths /\ RestIs(t, s[1])
  <1> DEFINE t == SubSeq(s, k + 1, Len(s))
             len == Len(s)
             m == len - k
  <1>1. len \in Nat /\ m \in Nat /\ k \in Nat /\ k <= len /\ k + m = len
    OBVIOUS
  <1>2. /\ Len(t) = m
        /\ \A i \in 1..m : t[i] = s[k + i]
    <2>1. \A i \in (k + 1)..len : s[i] \in Cell
      BY <1>1
    <2> DEFINE b == k + 1
    <2>2. b \in Int /\ len \in Int
      BY <1>1
    <2>3. t = SubSeq(s, b, len)
      OBVIOUS
    <2>b. b = k + 1
      OBVIOUS
    <2> HIDE DEF t, b, len
    <2>4. /\ Len(t) = IF b <= len THEN len - b + 1 ELSE 0
          /\ \A i \in 1..(len - b + 1) : t[i] = s[b + i - 1]
      BY <2>1, <2>2, <2>3, <2>b, SubSeqProperties
    <2>5. len - b + 1 = m /\ \A i \in 1..m : b + i - 1 = k + i
      BY <1>1, <2>b
    <2>6. Len(t) = m
      BY <1>1, <2>4, <2>5, <2>b
    <2> HIDE DEF m
    <2> QED
      BY <2>4, <2>5, <2>6
  <1> HIDE DEF t, m
  <1>3. \A i \in 1..len : s[i] \in Cell
    OBVIOUS
  <1>4. ASSUME NEW i \in 1..len, s[i] # Payload
        PROVE  /\ s[i] \in Lengths /\ s[i] \in Nat /\ i + s[i] <= len
               /\ \A j \in 1..s[i] : s[i + j] = Payload
               /\ i + s[i] < len => s[i + s[i] + 1] # Payload
    BY <1>3, <1>4 DEF Whole, Cell
  <1> HIDE DEF len
  <1>5. Whole(t)
    <2> SUFFICES ASSUME NEW i \in 1..m, t[i] # Payload
                 PROVE  /\ i + t[i] <= m
                        /\ \A j \in 1..t[i] : t[i + j] = Payload
                        /\ i + t[i] < m => t[i + t[i] + 1] # Payload
      BY <1>2 DEF Whole
    <2> DEFINE h == t[i]
    <2>1. h = s[k + i] /\ k + i \in 1..len
      BY <1>1, <1>2
    <2>2. /\ h \in Nat /\ k + i + h <= len
          /\ \A j \in 1..h : s[k + i + j] = Payload
          /\ k + i + h < len => s[k + i + h + 1] # Payload
      BY <1>4, <2>1
    <2>h. h = t[i]
      OBVIOUS
    <2> HIDE DEF h
    <2>3. /\ i + h <= m
          /\ \A j \in 1..h : i + j \in 1..m /\ k + (i + j) = k + i + j
          /\ i + h < m => /\ k + i + h < len /\ i + h + 1 \in 1..m
                          /\ k + (i + h + 1) = k + i + h + 1
      BY <1>1, <2>2
    <2>4. \A j \in 1..h : t[i + j] = Payload
      BY <1>2, <2>2, <2>3
    <2>5. i + h < m => t[i + h + 1] # Payload
      BY <1>2, <2>2, <2>3
    <2> QED
      BY <2>3, <2>4, <2>5, <2>h
  <1>6. ASSUME NEW rest \in Nat, k <= rest, RestIs(s, rest)
        PROVE  RestIs(t, rest - k)
    <2> DEFINE r == rest - k
    <2>1. /\ rest <= len /\ \A i \in 1..rest : s[i] = Payload
          /\ rest < len => s[rest + 1] # Payload
      BY <1>6 DEF RestIs, len
    <2>2. /\ r \in 0..m
          /\ \A i \in 1..r : i \in 1..m /\ k + i \in 1..rest
          /\ r < m => rest < len /\ r + 1 \in 1..m /\ k + (r + 1) = rest + 1
      BY <1>1, <1>6, <2>1
    <2> HIDE DEF r
    <2>3. \A i \in 1..r : t[i] = Payload
      BY <1>2, <2>1, <2>2
    <2>4. r < m => t[r + 1] # Payload
      BY <1>2, <2>1, <2>2
    <2>5. RestIs(t, r)
      BY <1>2, <2>2, <2>3, <2>4 DEF RestIs
    <2> QED
      BY <2>5 DEF r
  <1>7. ASSUME k = 1, RestIs(s, 0) PROVE s[1] \in Lengths /\ RestIs(t, s[1])
    <2> DEFINE h == s[1]
    <2>1. 1 \in 1..len /\ h # Payload
      BY <1>1, <1>7 DEF RestIs, len
    <2>2. /\ h \in Lengths /\ h \in Nat /\ 1 + h <= len
          /\ \A j \in 1..h : s[1 + j] = Payload
          /\ 1 + h < len => s[1 + h + 1] # Payload
      BY <1>4, <2>1
    <2> HIDE DEF h
    <2>3. /\ h \in 0..m /\ \A j \in 1..h : j \in 1..m
          /\ h < m => /\ 1 + h < len /\ h + 1 \in 1..m
                      /\ k + (h + 1) = 1 + h + 1
      BY <1>1, <1>7, <2>2
    <2>4. \A j \in 1..h : t[j] = Payload
      BY <1>2, <1>7, <2>2, <2>3
    <2>5. h < m => t[h + 1] # Payload
      BY <1>2, <2>2, <2>3
    <2>6. RestIs(t, h)
      BY <1>2, <2>3, <2>4, <2>5 DEF RestIs
    <2> QED
      BY <2>2, <2>6 DEF h
  <1> QED
    BY <1>5, <1>6, <1>7 DEF t

LEMMA NothingIsWhole == Whole(<<>>) /\ RestIs(<<>>, 0)
  BY DEF Whole, RestIs

\* wiz_recv_data within what is there.
LEMMA LesserIs ==
  ASSUME NEW a \in Nat, NEW b \in Nat, a <= b
  PROVE  Lesser(a, b) = a
  BY DEF Lesser

\* The header read is the one that stands at the read pointer.
LEMMA HeaderRead ==
  ASSUME rx \in Seq(Cell), Whole(rx), RestIs(rx, 0), rx # <<>>, ReadHeader
  PROVE  /\ local' \in Lengths /\ Whole(rx') /\ RestIs(rx', local')
         /\ op' = "rx_head"
  <1>1. Len(rx) \in Nat /\ Len(rx) >= 1 /\ 1 \in 0..Len(rx) /\ Head(rx) = rx[1]
    OBVIOUS
  <1>2. rx' = SubSeq(rx, 1 + 1, Len(rx)) /\ op' = "rx_head"
    <2>1. Lesser(1, Len(rx)) = 1
      BY <1>1, LesserIs
    <2> QED
      BY <2>1 DEF ReadHeader, Consume, WriteRecv, WriteCommand
  <1>3. /\ Whole(SubSeq(rx, 1 + 1, Len(rx)))
        /\ rx[1] \in Lengths /\ RestIs(SubSeq(rx, 1 + 1, Len(rx)), rx[1])
    BY <1>1, ReadOn
  <1>4. local' = rx[1]
    BY <1>1, <1>3 DEF ReadHeader, HeaderValues, Payload
  <1> QED
    BY <1>2, <1>3, <1>4

\* A chunk is a part of what is left of the datagram.
LEMMA ChunkRead ==
  ASSUME rx \in Seq(Cell), Whole(rx), NEW rest \in Nat, RestIs(rx, rest),
         rest > 0 \/ mode # "IPRAW", ReadChunk(rest)
  PROVE  /\ local' \in 0..rest /\ Whole(rx') /\ RestIs(rx', rest - local')
         /\ op' = "rx_body"
  <1>1. rest <= Len(rx) /\ Len(rx) \in Nat
    BY DEF RestIs
  <1>2. op' = "rx_body"
    BY DEF ReadChunk, WriteRecv, WriteCommand
  <1>3. CASE rest > 0
    <2>1. local' \in Nat /\ local' <= rest
      BY <1>3 DEF ReadChunk, Lesser
    <2>2. Consume(local')
      BY <1>3 DEF ReadChunk
    <2>3. rx' = SubSeq(rx, local' + 1, Len(rx)) /\ local' \in 0..Len(rx)
      <3>1. local' <= Len(rx)
        BY <1>1, <2>1
      <3>2. Lesser(local', Len(rx)) = local'
        BY <1>1, <2>1, <3>1, LesserIs
      <3> QED
        BY <1>1, <2>1, <2>2, <3>1, <3>2 DEF Consume
    <2>4. Whole(rx') /\ RestIs(rx', rest - local')
      BY <2>1, <2>3, ReadOn
    <2> QED
      BY <1>2, <2>1, <2>4
  <1>4. CASE rest = 0
    <2>1. local' = 0 /\ rx' = rx /\ rest - 0 = 0
      BY <1>4 DEF ReadChunk
    <2> QED
      BY <1>2, <1>4, <2>1
  <1> QED
    BY <1>3, <1>4

LEMMA FrameStart == Init => FrameInv
  BY NothingIsWhole DEF Init, FrameInv, Between, AtHeader, AtPayload,
     OpensEmpty, NothingLeft, Receiving, OpenWaits

LEMMA FrameStep ==
  SendInv /\ TypeInv /\ FrameInv /\ TypeOK' /\ [Next]_vars => FrameInv'
  <1> SUFFICES ASSUME SendInv, TypeInv, FrameInv, TypeOK', [Next]_vars
               PROVE  FrameInv'
    OBVIOUS
  <1>t. /\ rx \in Seq(Cell) /\ remained \in Nat /\ remained \in 0..(Wrap - 1)
        /\ Protocols \subseteq {"UDP", "IPRAW", "MACRAW"}
        /\ sr \in Protocols \cup {"CLOSED"} /\ mr \in Protocols
        /\ mode \in Protocols \cup {"NONE"}
        /\ op = "rx_head" => local \in Lengths \cup {Bad}
        /\ Bad \notin Lengths /\ settling \in {"NONE", "OPEN", "CLOSE"}
    BY DEF TypeInv, TypeOK, Bad
  <1>s. /\ op # "idle" => health = "HEALTHY"
        /\ op \in SendWaits \cup RecvWaits => mode # "NONE"
        /\ op \in OpenWaits => mode = "NONE"
        /\ op = "open_sr" => cr = "NONE"
        /\ mode # "NONE" /\ op \notin CloseWaits => sr = mr /\ settling # "CLOSE"
    BY DEF SendInv, CallerOwns, OpeningIsFresh, OpenIncarnation, OpenWaits
  <1>f. Between /\ AtHeader /\ AtPayload /\ OpensEmpty /\ NothingLeft
    BY DEF FrameInv
  <1> USE DEF FrameInv, Between, AtHeader, AtPayload, OpensEmpty, NothingLeft,
          Receiving,
          CloseWaits, OpenWaits, SendWaits, RecvWaits,
          vars, hardware, txChip, driver, txVars, rxVars, outside
  <1>1. CASE ChipAccept
    BY <1>1, <1>f DEF ChipAccept
  <1>2. CASE ChipSettle
    <2>1. CASE sr' = sr
      <3>1. UNCHANGED <<rx, sr, cr, driver, op, local>>
        BY <1>2, <2>1 DEF ChipSettle
      <3> QED
        BY <1>f, <3>1
    <2>2. CASE sr' # sr
      <3>1. rx' = <<>> /\ UNCHANGED <<cr, driver, op, local>>
        BY <1>2, <2>2 DEF ChipSettle
      <3>2. ~(mode # "NONE" /\ op \notin CloseWaits)
        BY <1>2, <1>s, <1>t, <2>2 DEF ChipSettle
      <3>3. ~Receiving' /\ (op \in OpenWaits => op' \in OpenWaits)
        BY <3>1, <3>2
      <3> QED
        BY <3>1, <3>3, NothingIsWhole
    <2> QED
      BY <2>1, <2>2
  <1>3. CASE ChipSendDone
    BY <1>3, <1>f DEF ChipSendDone
  <1>4. CASE ChipReceive
    <2>1. PICK n \in Lengths : rx' = rx \o <<n>> \o [i \in 1..n |-> Payload]
      BY <1>4 DEF ChipReceive
    <2>2. sr # "CLOSED" /\ UNCHANGED <<cr, sr, driver, op, local>>
      BY <1>4 DEF ChipReceive
    <2>3. Whole(rx) =>
            Whole(rx') /\ \A rest \in Nat : RestIs(rx, rest) => RestIs(rx', rest)
      BY <1>t, <2>1, DatagramArrives
    <2>4. OpensEmpty'
      BY <1>f, <2>2, <2>3
    <2>5. Between'
      BY <1>f, <1>t, <2>2, <2>3
    <2>6. AtHeader'
      <3>1. Lengths \subseteq Nat
        OBVIOUS
      <3> QED
        BY <1>f, <2>2, <2>3, <3>1
    <2>7. AtPayload'
      <3>1. \A n1 \in 0..remained : remained - n1 \in Nat
        BY <1>t
      <3> QED
        BY <1>f, <2>2, <2>3, <3>1
    <2> QED
      BY <1>f, <2>2, <2>4, <2>5, <2>6, <2>7
  <1>5. CASE OpenAccepted
    BY <1>5, <1>f, <1>s DEF OpenAccepted
  <1>6. CASE OpenDone
    <2>1. /\ op = "open_sr" /\ op' = "idle" /\ remained' = 0
          /\ UNCHANGED <<rx, cr, sr>> /\ cr = "NONE"
      BY <1>6, <1>s DEF OpenDone
    <2> QED
      BY <1>f, <2>1
  <1>7. CASE CloseAccepted
    BY <1>7, <1>f DEF CloseAccepted
  <1>8. CASE CloseDone
    <2>1. /\ sr = "CLOSED" /\ mode' = "NONE" /\ UNCHANGED <<rx, sr>>
          /\ op' # "rx_data"
      BY <1>8 DEF CloseDone, StateReset, WriteOpen, WriteCommand
    <2> QED
      BY <1>f, <2>1, NothingIsWhole
  <1>9. CASE SendtoRoom
    BY <1>9, <1>f DEF SendtoRoom, WriteSend, WriteCommand
  <1>10. CASE SendtoAccepted
    BY <1>10, <1>f DEF SendtoAccepted
  <1>11. CASE SendtoEnd
    BY <1>11, <1>f DEF SendtoEnd
  <1>12. CASE RecvfromArrival \/ RecvfromHeader
    <2>1. /\ ReadHeader /\ (rx # <<>> \/ cr = "RECV") /\ sr # "CLOSED" /\ sr' = sr
          /\ op \in {"idle", "rx_data"} /\ UNCHANGED driver
          /\ remained = 0
      BY <1>12, <1>f DEF RecvfromArrival, RecvfromHeader, HasData, Usable, Idle
    <2>2. op' = "rx_head"
      BY <2>1 DEF ReadHeader, WriteRecv, WriteCommand
    <2>3. Receiving' => Receiving
      BY <2>1, <2>2
    <2>4. ASSUME Receiving PROVE local' \in Lengths /\ Whole(rx') /\ RestIs(rx', local')
      <3>1. Whole(rx) /\ RestIs(rx, remained) /\ cr # "RECV"
        BY <1>f, <2>1, <2>4
      <3>2. rx # <<>>
        BY <2>1, <3>1
      <3> QED
        BY <1>t, <2>1, <3>1, <3>2, HeaderRead
    <2> QED
      BY <2>1, <2>2, <2>3, <2>4
  <1>13. CASE RecvfromHead
    <2>1. /\ op = "rx_head" /\ local # Bad /\ local \in Lengths /\ local \in Nat
          /\ ReadChunk(local) /\ remained' = local
          /\ UNCHANGED <<sr, mode, health, rxHist>>
      BY <1>13, <1>t DEF RecvfromHead
    <2>2. op' = "rx_body"
      BY <2>1 DEF ReadChunk, WriteRecv, WriteCommand
    <2>3. Receiving' => Receiving
      BY <2>1, <2>2
    <2>4. sr # "CLOSED"
      BY <1>s, <1>t, <2>1
    <2>5. ASSUME Receiving
          PROVE  local' \in 0..local /\ Whole(rx') /\ RestIs(rx', local - local')
      <3>1. Whole(rx) /\ RestIs(rx, local)
        BY <1>f, <2>1, <2>5
      <3>2. local > 0 \/ mode # "IPRAW"
        BY <2>1, <2>5
      <3> QED
        BY <1>t, <2>1, <3>1, <3>2, ChunkRead
    <2> QED
      BY <2>1, <2>2, <2>3, <2>4, <2>5
  <1>14. CASE RecvfromFatal
    BY <1>14, <1>f DEF RecvfromFatal, WriteCommand
  <1>15. CASE RecvfromDone
    <2>1. /\ op = "rx_body" /\ op' = "idle" /\ cr = "NONE"
          /\ remained' = (remained - local) % Wrap
          /\ UNCHANGED <<cr, rx, sr, mode, health, rxHist>>
      BY <1>15 DEF RecvfromDone
    <2>2. Receiving' => Receiving
      BY <2>1
    <2>3. ASSUME Receiving PROVE Whole(rx) /\ RestIs(rx, remained')
      <3>1. Whole(rx) /\ local \in 0..remained /\ RestIs(rx, remained - local)
        BY <1>f, <2>1, <2>3
      <3>2. (remained - local) % Wrap = remained - local
        BY <1>t, <3>1, WrapPositive
      <3> QED
        BY <2>1, <3>1, <3>2
    <2> QED
      BY <1>f, <2>1, <2>2, <2>3
  <1>16. CASE OpenExpired
    BY <1>16, <1>f DEF OpenExpired
  <1>17. CASE CloseExpired
    BY <1>17, <1>f DEF CloseExpired, StateReset
  <1>18. CASE SendtoNoRoom
    BY <1>18, <1>f DEF SendtoNoRoom
  <1>19. CASE SendtoNotAccepted
    BY <1>19, <1>f DEF SendtoNotAccepted
  <1>20. CASE SendtoNoEnd
    BY <1>20, <1>f DEF SendtoNoEnd
  <1>21. CASE RecvfromNothing
    BY <1>21, <1>f DEF RecvfromNothing
  <1>22. CASE RecvfromGiveUp
    BY <1>22, <1>f DEF RecvfromGiveUp
  <1>23. ASSUME NEW o \in Openers, SocketBeforeLock(o) PROVE FrameInv'
    BY <1>23, <1>f DEF SocketBeforeLock
  <1>24. ASSUME NEW o \in Openers, SocketLocked(o) PROVE FrameInv'
    <2>1. UNCHANGED <<rx, sr, driver, local>> /\ op = "idle"
      BY <1>24 DEF SocketLocked, Idle
    <2>2. CASE op' = "idle" /\ cr' = cr
      BY <1>f, <2>1, <2>2
    <2>3. CASE op' = "reopen_cr"
      BY <1>f, <2>1, <2>3
    <2>4. CASE op' = "open_cr" /\ sr = "CLOSED"
      <3>1. mode = "NONE"
        BY <1>s, <1>t, <2>1, <2>4
      <3> QED
        BY <1>f, <2>1, <2>4, <3>1, NothingIsWhole
    <2> QED
      BY <1>24, <2>1, <2>2, <2>3, <2>4 DEF SocketLocked, WriteOpen, WriteCommand
  <1>25. CASE CloseShort
    BY <1>25, <1>f DEF CloseShort, StateReset, Idle
  <1>26. CASE CloseStart
    BY <1>26, <1>f DEF CloseStart, Usable, Idle, WriteCommand
  <1>27. CASE SendtoPoll
    BY <1>27, <1>f DEF SendtoPoll, Usable, Idle
  <1>28. CASE SendtoStart
    BY <1>28, <1>f DEF SendtoStart, Usable, Idle, WriteSend, WriteCommand, Sendable
  <1>29. CASE SendtoFull
    BY <1>29, <1>f DEF SendtoFull, Usable, Idle, Sendable
  <1>31. CASE RecvfromEmpty
    BY <1>31, <1>f DEF RecvfromEmpty, Usable, Idle
  <1>32. CASE RecvfromMore
    <2>1. /\ op = "idle" /\ mode # "NONE" /\ remained > 0 /\ ReadChunk(remained)
          /\ UNCHANGED <<sr, driver>>
      BY <1>32 DEF RecvfromMore, Usable, Idle
    <2>2. op' = "rx_body"
      BY <2>1 DEF ReadChunk, WriteRecv, WriteCommand
    <2>3. Receiving' => Receiving
      BY <2>1, <2>2
    <2>4. sr # "CLOSED"
      BY <1>s, <1>t, <2>1
    <2>5. ASSUME Receiving
          PROVE  local' \in 0..remained /\ Whole(rx') /\ RestIs(rx', remained - local')
      <3>1. Whole(rx) /\ RestIs(rx, remained)
        BY <1>f, <2>1, <2>5
      <3> QED
        BY <1>t, <2>1, <3>1, ChunkRead
    <2> QED
      BY <2>1, <2>2, <2>3, <2>4, <2>5
  <1>33. CASE SetIoMode
    BY <1>33, <1>f DEF SetIoMode, Idle
  <1>34. CASE ClearInterrupt
    BY <1>34, <1>f DEF ClearInterrupt, Idle
  <1>35. CASE ClearAllInterrupts
    BY <1>35, <1>f DEF ClearAllInterrupts
  <1>36. CASE ChipReset
    BY <1>36, <1>f, NothingIsWhole DEF ChipReset, StateReset, Idle
  <1>37. CASE Recover
    BY <1>37, <1>f DEF Recover
  <1>38. CASE SetTimeSource
    BY <1>38, <1>f DEF SetTimeSource, Idle
  <1>39. CASE UNCHANGED vars
    BY <1>39, <1>f
  <1> QED
    BY <1>1, <1>2, <1>3, <1>4, <1>5, <1>6, <1>7, <1>8, <1>9, <1>10, <1>11,
       <1>12, <1>13, <1>14, <1>15, <1>16, <1>17, <1>18, <1>19, <1>20, <1>21,
       <1>22, <1>23, <1>24, <1>25, <1>26, <1>27, <1>28, <1>29, <1>31, <1>32,
       <1>33, <1>34, <1>35, <1>36, <1>37, <1>38, <1>39
       DEF Next, Chip, Progress, Expiry, Call

\* The next header recvfrom reads is a header: the read pointer is between
\* two datagrams or inside the one sock_remained_size counts, for datagrams
\* and an RX memory of any size, until a RECV is given up or the socket fails.
THEOREM FramesAreKept == Spec => []FramingKept
  <1>1. FrameInv /\ SendInv /\ TypeInv => FramingKept
    <2> SUFFICES ASSUME FrameInv, SendInv, TypeInv, Receiving
                 PROVE  CASE op = "rx_head" -> Framed(local)
                          [] op = "rx_body" -> Framed(remained - local)
                          [] op \in CloseWaits -> TRUE
                          [] OTHER -> Framed(remained)
      BY DEF FramingKept, Receiving
    <2>1. \A rest : RestIs(rx, rest) => Framed(rest)
      <3>1. Len(rx) \in Nat
        BY DEF TypeInv, TypeOK
      <3> QED
        BY <3>1 DEF RestIs, Framed
    <2> QED
      BY <2>1 DEF FrameInv, Between, AtHeader, AtPayload, Receiving, CloseWaits
  <1> QED
    BY <1>1, FrameStart, FrameStep, SendInvariant, TypeInvariant, TypesKept, PTL
       DEF Spec
=============================================================================
