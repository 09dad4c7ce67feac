---------------------------- MODULE FileTransfer ----------------------------
(***************************************************************************)
(* What reading a file over the network promises its caller: the blocks    *)
(* are stored one after the other, none twice and none left out, and a     *)
(* transfer that reports success has stored all of them.  It says nothing  *)
(* of packets, ports, timeouts or retries; TftpClient implements it.       *)
(*                                                                         *)
(* The promise is for one transfer.  What came before it was asked for may *)
(* spoil it: such a transfer still only ever adds to the file, and the     *)
(* next one is a transfer like any other.                                  *)
(***************************************************************************)
EXTENDS Naturals, Sequences

CONSTANT FileBlocks        \* blocks in the file; the last one is short

VARIABLES outcome,         \* "idle", "progress", "success" or "fail"
          file,            \* the blocks stored, by their place in the file
          spoiled          \* is this transfer spoilt by an earlier one?

Init == outcome = "idle" /\ file = <<>> /\ spoiled = FALSE

(* The caller asks for the file.                                           *)
Ask ==
  /\ outcome # "progress"
  /\ outcome' = "progress" /\ file' = <<>> /\ spoiled' = FALSE

(* The next block is stored; the last one ends the transfer.               *)
Store ==
  /\ outcome = "progress" /\ Len(file) < FileBlocks
  /\ file' = Append(file, Len(file) + 1)
  /\ outcome' = IF Len(file') = FileBlocks THEN "success" ELSE "progress"
  /\ UNCHANGED spoiled

(* The transfer is given up, by the server or after too many timeouts.     *)
GiveUp ==
  /\ outcome = "progress"
  /\ outcome' = "fail" /\ UNCHANGED <<file, spoiled>>

(* A step that spoils the transfer, or one of a spoilt transfer: any block *)
(* may be stored, 0 among them, the one of an earlier transfer, and a      *)
(* transfer that has ended may have failed.                                *)
Spoil ==
  /\ spoiled' = TRUE
  /\ outcome' \in IF outcome = "progress" THEN {"progress", "success", "fail"}
                  ELSE {outcome, "fail"}
  /\ \/ file' = file
     \/ outcome = "progress" /\ \E b \in 0 .. FileBlocks : file' = Append(file, b)

Next == Ask \/ Store \/ GiveUp \/ Spoil

Spec == Init /\ [][Next]_<<outcome, file, spoiled>>
=============================================================================
