----------------------------- MODULE MCServices -----------------------------
(***************************************************************************)
(* The values of Services' constants that a configuration cannot write.    *)
(***************************************************************************)
EXTENDS Services

(* A string, an integer and the uptime of snmpData, with a shorter string, *)
(* one that fills its entry and one that is longer, and an integer of two  *)
(* octets, for a SET.                                                      *)
MCSnmpTypes == <<"STRING", "INTEGER", "TICKS">>
MCSnmpFirst == <<<<1, 2>>, <<0, 0, 0, 3>>, <<>>>>
MCSnmpValues ==
  [type : {"STRING"}, octets : {<<3>>, <<1, 3, 2, 1, 3>>, <<2, 1, 3, 2, 1, 3>>}]
    \cup [type : {"INTEGER"}, octets : {<<1, 0>>}]

(* RTR and RCR asked for, and the ones a reset leaves: windows of 3, 13    *)
(* and 7.                                                                  *)
MCNetTimeouts == {<<0, 1>>, <<3, 3>>}
MCNetResetTimeouts == <<2, 2>>

(* A name of one label and one of two; with a label before it the second   *)
(* is too long.                                                            *)
MCDmNames == {[chars |-> 1, dots |-> {}], [chars |-> 3, dots |-> {2}]}

(* The ends and starts of months in 1900, which divides by 100, and around *)
(* the leap days of 1904 and 2000, the ends of 1900 and 1999, and the last *)
(* days of the 32-bit seconds.                                             *)
MCCalDays ==
  1 .. 2 \cup 27 .. 31 \cup 57 .. 60 \cup 88 .. 90 \cup 118 .. 120 \cup 149 .. 151
    \cup 179 .. 181 \cup 210 .. 212 \cup 241 .. 243 \cup 271 .. 273
    \cup 302 .. 304 \cup 332 .. 334 \cup 362 .. 366 \cup 1458 .. 1461
    \cup 1517 .. 1521 \cup 36522 .. 36526 \cup 36581 .. 36585 \cup 49707 .. 49709
=============================================================================
