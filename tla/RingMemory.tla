----------------------------- MODULE RingMemory -----------------------------
(***************************************************************************)
(* A socket's memory in src/Ethernet/W5100/w5100.c: a ring, 16-bit         *)
(* pointers that run past its end, wiz_send_data that writes it in one or  *)
(* two pieces, wiz_recv_data that reads it so.  For the transmit memory    *)
(* the reader is the controller, for the receive memory the writer is: the *)
(* controller is taken to use the ring as the driver does.                 *)
(***************************************************************************)
EXTENDS Integers, Sequences, SequencesExt

CONSTANTS RingOctets,      \* values of an octet
          RingSize,        \* getSn_TxMAX, getSn_RxMAX
          PointerModulus   \* 65536: the pointers are uint16_t

(* The sizes are powers of two: a mask takes the place of a remainder.     *)
ASSUME RingAssumption ==
  /\ RingSize \in Nat \ {0} /\ PointerModulus \in Nat
  /\ RingSize < PointerModulus /\ PointerModulus % RingSize = 0

VARIABLES
  ringMem,         \* the memory, from getSn_TxBASE on
  ringWr,          \* Sn_TX_WR
  ringRd,          \* Sn_RX_RD
  ringFilled,      \* octets written that ringWr does not cover yet
  ringTaken        \* the octets wiz_recv_data returned last

ringVars == <<ringMem, ringWr, ringRd, ringFilled, ringTaken>>

Cells == 0 .. RingSize - 1
Data  == BoundedSeq(RingOctets, RingSize)

RingTypeOK ==
  /\ ringMem \in [Cells -> RingOctets]
  /\ ringWr \in 0 .. PointerModulus - 1 /\ ringRd \in 0 .. PointerModulus - 1
  /\ ringFilled \in Data /\ ringTaken \in Data

RingInit ==
  /\ ringMem \in {[c \in Cells |-> o] : o \in RingOctets}
  /\ ringWr \in 0 .. PointerModulus - 1 /\ ringRd = ringWr
  /\ ringFilled = <<>> /\ ringTaken = <<>>

-----------------------------------------------------------------------------
Plus(pointer, n) == (pointer + n) % PointerModulus
Used == (ringWr - ringRd) % PointerModulus      \* Sn_RX_RSR
Free == RingSize - Used                         \* Sn_TX_FSR

(* WIZCHIP_WRITE_BUF and WIZCHIP_READ_BUF: consecutive cells.              *)
WriteBuf(mem, at, data) ==
  [c \in Cells |-> IF c \in at .. at + Len(data) - 1 THEN data[c - at + 1]
                   ELSE mem[c]]
ReadBuf(mem, at, n) == [i \in 1 .. n |-> mem[at + i - 1]]

(* The end of the ring forgotten.                                          *)
WriteRingUnwrapped(mem, pointer, data) ==
  WriteBuf(mem, pointer % RingSize, data)

(* wiz_send_data up to its last line.                                      *)
WriteRing(mem, pointer, data) ==
  LET at == pointer % RingSize IN
    IF at + Len(data) > RingSize
      THEN LET size == RingSize - at IN
             WriteBuf(WriteBuf(mem, at, SubSeq(data, 1, size)),
                      0, SubSeq(data, size + 1, Len(data)))
      ELSE WriteBuf(mem, at, data)

(* wiz_recv_data up to its last line.                                      *)
ReadRing(mem, pointer, n) ==
  LET at == pointer % RingSize IN
    IF at + n > RingSize
      THEN LET size == RingSize - at IN
             ReadBuf(mem, at, size) \o ReadBuf(mem, 0, n - size)
      ELSE ReadBuf(mem, at, n)

-----------------------------------------------------------------------------
(* wiz_send_data, called with no more than is free: the octets, then the   *)
(* pointer.                                                                *)
SendOctets ==
  /\ ringFilled = <<>>
  /\ \E data \in Data :
       /\ Len(data) \in 1 .. Free
       /\ ringMem' = WriteRing(ringMem, ringWr, data)
       /\ ringFilled' = data
  /\ UNCHANGED <<ringWr, ringRd, ringTaken>>

SendPointer ==
  /\ ringFilled # <<>> /\ ringFilled' = <<>>
  /\ ringWr' = Plus(ringWr, Len(ringFilled))
  /\ UNCHANGED <<ringMem, ringRd, ringTaken>>

(* wiz_recv_data, called with no more than has been received.              *)
RecvOctets ==
  /\ \E n \in 1 .. Used :
       /\ ringTaken' = ReadRing(ringMem, ringRd, n)
       /\ ringRd' = Plus(ringRd, n)
  /\ UNCHANGED <<ringMem, ringWr, ringFilled>>

(* A socket that is opened again starts with an empty memory.              *)
RingReset ==
  /\ ringRd' = ringWr /\ ringTaken' = <<>> /\ ringFilled' = <<>>
  /\ UNCHANGED <<ringMem, ringWr>>

RingNext == SendOctets \/ SendPointer \/ RecvOctets \/ RingReset

RingSpec == RingInit /\ [][RingNext]_ringVars

-----------------------------------------------------------------------------
(* The ring is a queue: neither the seam at its end nor the overflow of    *)
(* the pointers loses, repeats or reorders an octet (wiz_send_data,        *)
(* wiz_recv_data).                                                         *)
Queue == INSTANCE ByteQueue
  WITH Octets <- RingOctets, Capacity <- RingSize, offered <- ringFilled,
       taken <- ringTaken,
       queue <- [i \in 1 .. Used |-> ringMem[(ringRd + i - 1) % RingSize]]

QueueImplemented == Queue!Spec
=============================================================================
