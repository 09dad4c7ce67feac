---------------------------- MODULE SizeRegister ----------------------------
(***************************************************************************)
(* getSn_RX_RSR and getSn_TX_FSR: a 16-bit register that the controller    *)
(* raises (data arrive, memory is freed) while it is read one octet at a   *)
(* time.  src/Ethernet/W5500/w5500.c reads until two values agree;         *)
(* src/Ethernet/W5100/w5100.c (and W5100S, W5200) has the older loop.      *)
(*                                                                         *)
(* A value is <<high octet, low octet>>.  The socket's lock keeps its      *)
(* owner from lowering the register during the call.                       *)
(***************************************************************************)
EXTENDS Naturals

CONSTANT OctetMax          \* 255

ASSUME OctetAssumption == OctetMax \in Nat

VARIABLES
  szChip,          \* the driver: "w5500" or "w5100"
  szReg,           \* the register
  szSeen,          \* the values it has had since the call
  szAt,            \* "idle", the value being read, "done" or "failed"
  szHigh,          \* the high octet read, or NoOctet
  szFirst,         \* first; val1 in w5100.c
  szSecond,        \* second and third; val in w5100.c
  szResult         \* what the call returned

szVars == <<szChip, szReg, szSeen, szAt, szHigh, szFirst, szSecond, szResult>>

Octet   == 0 .. OctetMax
NoOctet == OctetMax + 1
Sizes   == Octet \X Octet
Zero    == <<0, 0>>

Below(a, b) == a[1] < b[1] \/ (a[1] = b[1] /\ a[2] <= b[2])

SzTypeOK ==
  /\ szChip \in {"w5500", "w5100"}
  /\ szReg \in Sizes /\ szSeen \subseteq Sizes
  /\ szAt \in {"idle", "first", "second", "third", "done", "failed"}
  /\ szHigh \in Octet \cup {NoOctet}
  /\ szFirst \in Sizes /\ szSecond \in Sizes /\ szResult \in Sizes

SzInit ==
  /\ szChip \in {"w5500", "w5100"}
  /\ szReg = Zero /\ szSeen = {Zero} /\ szAt = "idle" /\ szHigh = NoOctet
  /\ szFirst = Zero /\ szSecond = Zero /\ szResult = Zero

-----------------------------------------------------------------------------
(* The controller raises the register, by any amount.                      *)
RegisterRises ==
  /\ \E v \in Sizes : v # szReg /\ Below(szReg, v) /\ szReg' = v
  /\ szSeen' = szSeen \cup {szReg'}
  /\ UNCHANGED <<szChip, szAt, szHigh, szFirst, szSecond, szResult>>

(* Between two calls the owner may take data out, or put data in.          *)
RegisterFalls ==
  /\ szAt \in {"idle", "done", "failed"} /\ szAt' = "idle"
  /\ \E v \in Sizes : Below(v, szReg) /\ szReg' = v /\ szSeen' = {v}
  /\ szFirst' = Zero /\ szSecond' = Zero /\ szResult' = Zero
  /\ UNCHANGED <<szChip, szHigh>>

CallSize ==
  /\ szAt = "idle" /\ szAt' = "first"
  /\ szSeen' = {szReg}
  /\ UNCHANGED <<szChip, szReg, szHigh, szFirst, szSecond, szResult>>

Reading == szAt \in {"first", "second", "third"}

ReadHigh ==
  /\ Reading /\ szHigh = NoOctet /\ szHigh' = szReg[1]
  /\ UNCHANGED <<szChip, szReg, szSeen, szAt, szFirst, szSecond, szResult>>

Return(value) == szAt' = "done" /\ szResult' = value
Continue(at)  == szAt' = at /\ UNCHANGED szResult

ReadLow == Reading /\ szHigh # NoOctet /\ szHigh' = NoOctet
Value   == <<szHigh, szReg[2]>>

(* getSn_TX_FSR_stable and getSn_RX_RSR_stable.                            *)
StableFirst ==
  /\ szChip = "w5500" /\ szAt = "first" /\ ReadLow
  /\ szFirst' = Value /\ Continue("second")
  /\ UNCHANGED <<szChip, szReg, szSeen, szSecond>>

(* The second value believed.                                              *)
StableSecondBelieved ==
  /\ szChip = "w5500" /\ szAt = "second" /\ ReadLow
  /\ szSecond' = Value /\ Return(szSecond')
  /\ UNCHANGED <<szChip, szReg, szSeen, szFirst>>

StableSecond ==
  /\ szChip = "w5500" /\ szAt = "second" /\ ReadLow
  /\ szSecond' = Value
  /\ IF szFirst = szSecond' THEN Return(szSecond') ELSE Continue("third")
  /\ UNCHANGED <<szChip, szReg, szSeen, szFirst>>

StableThird ==
  /\ szChip = "w5500" /\ szAt = "third" /\ ReadLow
  /\ IF szSecond = Value THEN Return(Value) ELSE Continue("first")
  /\ UNCHANGED <<szChip, szReg, szSeen, szFirst, szSecond>>

(* A transfer fails, or the deadline runs out after the third value:       *)
(* getSn_TX_FSR and getSn_RX_RSR then return 0.                            *)
StableFails ==
  /\ szChip = "w5500" /\ Reading
  /\ szAt' = "failed" /\ szResult' = Zero /\ szHigh' = NoOctet
  /\ UNCHANGED <<szChip, szReg, szSeen, szFirst, szSecond>>

(* The older loop: a first value of 0 is compared with val as it is, which *)
(* is 0 when the call begins.                                              *)
LoopFirst ==
  /\ szChip = "w5100" /\ szAt = "first" /\ ReadLow
  /\ szFirst' = Value
  /\ IF Value # Zero THEN Continue("second")
     ELSE IF szSecond = Zero THEN Return(Zero) ELSE Continue("first")
  /\ UNCHANGED <<szChip, szReg, szSeen, szSecond>>

LoopSecond ==
  /\ szChip = "w5100" /\ szAt = "second" /\ ReadLow
  /\ szSecond' = Value
  /\ IF szFirst = szSecond' THEN Return(szSecond') ELSE Continue("first")
  /\ UNCHANGED <<szChip, szReg, szSeen, szFirst>>

SzNext ==
  \/ RegisterRises \/ RegisterFalls \/ CallSize \/ ReadHigh
  \/ StableFirst \/ StableSecond \/ StableThird \/ StableFails
  \/ LoopFirst \/ LoopSecond

SzSpec == SzInit /\ [][SzNext]_szVars

-----------------------------------------------------------------------------
(* The size returned is one the register really had during the call, and   *)
(* not one put together from two: with the W5100's loop, except for a 0    *)
(* that comes from its first read (getSn_RX_RSR_stable, getSn_RX_RSR).     *)
SizeIsReal ==
  szAt = "done" => szResult \in szSeen \/ (szChip = "w5100" /\ szResult = Zero)

(* So nobody is told of more data, or of more room, than there is.         *)
SizeIsSafe == szAt = "done" => Below(szResult, szReg)
=============================================================================
