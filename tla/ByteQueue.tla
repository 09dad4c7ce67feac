------------------------------ MODULE ByteQueue ------------------------------
(***************************************************************************)
(* What a socket's memory promises: octets come out in the order in which  *)
(* they went in, each once.  RingMemory implements it.                     *)
(***************************************************************************)
EXTENDS Naturals, Sequences, SequencesExt

CONSTANTS Octets,          \* values of an octet
          Capacity         \* octets the memory holds

VARIABLES offered,         \* the octets a caller is putting in
          queue,           \* octets in the memory, the oldest first
          taken            \* the octets taken out last

Init == offered = <<>> /\ queue = <<>> /\ taken = <<>>

Offer ==
  /\ offered = <<>>
  /\ \E data \in BoundedSeq(Octets, Capacity - Len(queue)) :
       data # <<>> /\ offered' = data
  /\ UNCHANGED <<queue, taken>>

Put ==
  /\ offered # <<>> /\ offered' = <<>>
  /\ queue' = queue \o offered
  /\ UNCHANGED taken

Take ==
  /\ \E n \in 1 .. Len(queue) :
       /\ taken' = SubSeq(queue, 1, n)
       /\ queue' = SubSeq(queue, n + 1, Len(queue))
  /\ UNCHANGED offered

(* The socket is opened again: what was in its memory is gone.             *)
Clear == offered' = <<>> /\ queue' = <<>> /\ taken' = <<>>

Next == Offer \/ Put \/ Take \/ Clear

Spec == Init /\ [][Next]_<<offered, queue, taken>>
=============================================================================
