---------------------------- MODULE RegisterProofs ----------------------------
(***************************************************************************)
(* Theorems about the registers the driver shares with the controller and  *)
(* its tasks: sizes read octet by octet, the time base, the PHY's          *)
(* configuration, a socket's ring memory.  Each has its own invariant.     *)
(***************************************************************************)
EXTENDS SizeRegister, TimeBase, PhyControl, RingMemory, SequenceTheorems, TLAPS

(***************************************************************************)
(* SizeRegister.  An octet pair read in two steps may be torn, but only in *)
(* one way: the low octet belongs to a value the register had, and the     *)
(* high octet is at most that value's (IsTorn).  A second, equal pair then *)
(* squeezes that value between the two high octets, so that it is the pair *)
(* itself.                                                                 *)
(***************************************************************************)
IsTorn(value) ==
  \E w \in szSeen :
    /\ w[2] = value[2] /\ value[1] <= w[1]
    /\ szHigh # NoOctet => w[1] <= szHigh

SeenInv ==
  /\ szReg \in szSeen
  /\ \A w \in szSeen : Below(w, szReg)

HighInv ==
  szHigh # NoOctet => Reading /\ szHigh <= szReg[1]

TornInv ==
  /\ szAt = "second" => IsTorn(szFirst)
  /\ szAt = "third" => IsTorn(szSecond)

SzInv == SzTypeOK /\ SeenInv /\ HighInv /\ TornInv /\ SizeIsReal

-----------------------------------------------------------------------------
(* The order of sizes, and what two equal readings show.                   *)
LEMMA BelowTransitive ==
  ASSUME NEW a \in Sizes, NEW b \in Sizes, NEW c \in Sizes,
         Below(a, b), Below(b, c)
  PROVE  Below(a, c)
BY OctetAssumption DEF Below, Sizes, Octet

LEMMA BelowReflexive ==
  ASSUME NEW a \in Sizes
  PROVE  Below(a, a)
BY OctetAssumption DEF Below, Sizes, Octet

(* A pair that is read again after it was read torn is a value the         *)
(* register had.                                                           *)
LEMMA TwiceIsReal ==
  ASSUME SzTypeOK, ReadLow, NEW value \in Sizes, IsTorn(value), value = Value
  PROVE  value \in szSeen
<1>1. PICK w \in szSeen : w[2] = value[2] /\ value[1] <= w[1] /\ w[1] <= szHigh
  BY DEF IsTorn, ReadLow
<1>2. w \in Sizes /\ szHigh \in Octet
  BY DEF SzTypeOK, ReadLow
<1>3. value[1] = szHigh
  BY DEF Value
<1>4. w[1] = value[1]
  BY <1>1, <1>2, <1>3, OctetAssumption DEF Sizes, Octet
<1>5. w = value
  BY <1>1, <1>2, <1>4 DEF Sizes
<1> QED BY <1>1, <1>5

(* A pair just read is torn in no other way.                               *)
LEMMA ValueIsTorn ==
  ASSUME SzTypeOK, SeenInv, HighInv, ReadLow
  PROVE  /\ Value \in Sizes
         /\ \E w \in szSeen : w[2] = Value[2] /\ Value[1] <= w[1]
<1>1. szHigh \in Octet /\ szReg \in Sizes /\ szHigh <= szReg[1]
  BY DEF SzTypeOK, HighInv, ReadLow
<1>2. Value \in Sizes
  BY <1>1 DEF Value, Sizes
<1>3. szReg \in szSeen /\ szReg[2] = Value[2] /\ Value[1] <= szReg[1]
  BY <1>1 DEF Value, SeenInv
<1> QED BY <1>2, <1>3

-----------------------------------------------------------------------------
LEMMA SzInvInit == SzInit => SzInv
BY OctetAssumption
   DEF SzInit, SzInv, SzTypeOK, SeenInv, HighInv, TornInv, SizeIsReal, Zero,
       Sizes, Octet, NoOctet, Below, Reading

LEMMA SzInvStep == SzInv /\ [SzNext]_szVars => SzInv'
<1> SUFFICES ASSUME SzInv, [SzNext]_szVars PROVE SzInv'
  OBVIOUS
<1> USE OctetAssumption
<1>t. SzTypeOK /\ SeenInv /\ HighInv /\ TornInv /\ SizeIsReal
  BY DEF SzInv
<1>z. Zero \in Sizes /\ NoOctet \notin Octet
  BY DEF Zero, Sizes, Octet, NoOctet
<1>1. ASSUME RegisterRises PROVE SzInv'
  <2>0. UNCHANGED <<szChip, szAt, szHigh, szFirst, szSecond, szResult>>
    BY <1>1 DEF RegisterRises
  <2>1. szReg' \in Sizes /\ Below(szReg, szReg') /\ szSeen' = szSeen \cup {szReg'}
    BY <1>1 DEF RegisterRises
  <2>2. SzTypeOK'
    BY <1>t, <2>0, <2>1 DEF SzTypeOK
  <2>3. SeenInv'
    <3>1. ASSUME NEW w \in szSeen' PROVE Below(w, szReg')
      <4>1. CASE w = szReg'
        BY <4>1, <2>1, BelowReflexive
      <4>2. CASE w \in szSeen
        <5>1. w \in Sizes /\ szReg \in Sizes /\ Below(w, szReg)
          BY <4>2, <1>t DEF SzTypeOK, SeenInv
        <5> QED BY <5>1, <2>1, BelowTransitive
      <4> QED BY <4>1, <4>2, <2>1
    <3> QED BY <3>1, <2>1 DEF SeenInv, Below
  <2>4. HighInv'
    <3>1. szReg[1] <= szReg'[1]
      BY <1>t, <2>1 DEF Below, SzTypeOK, Sizes, Octet
    <3> QED BY <1>t, <2>0, <2>1, <3>1
            DEF HighInv, Reading, SzTypeOK, Sizes, Octet, NoOctet
  <2>5. TornInv'
    BY <1>t, <2>0, <2>1 DEF TornInv, IsTorn
  <2>6. SizeIsReal'
    BY <1>t, <2>0, <2>1 DEF SizeIsReal
  <2> QED BY <2>2, <2>3, <2>4, <2>5, <2>6 DEF SzInv
<1>2. ASSUME RegisterFalls PROVE SzInv'
  <2>1. PICK v \in Sizes : szReg' = v /\ szSeen' = {v}
    BY <1>2 DEF RegisterFalls
  <2>2. Below(v, v)
    BY BelowReflexive
  <2>3. /\ szAt' = "idle" /\ szAt \notin {"first", "second", "third"}
        /\ szFirst' = Zero /\ szSecond' = Zero /\ szResult' = Zero
        /\ szChip' = szChip /\ szHigh' = szHigh
    BY <1>2 DEF RegisterFalls
  <2>4. SzTypeOK'
    BY <1>t, <1>z, <2>1, <2>3 DEF SzTypeOK
  <2>5. SeenInv'
    BY <2>1, <2>2 DEF SeenInv, Below
  <2>6. HighInv'
    BY <1>t, <2>3 DEF HighInv, Reading
  <2> QED BY <2>3, <2>4, <2>5, <2>6 DEF SzInv, TornInv, SizeIsReal
<1>3. ASSUME CallSize PROVE SzInv'
  <2>1. Below(szReg, szReg)
    BY <1>t, BelowReflexive DEF SzTypeOK
  <2>2. /\ szSeen' = {szReg} /\ szAt = "idle" /\ szAt' = "first"
        /\ UNCHANGED <<szChip, szReg, szHigh, szFirst, szSecond, szResult>>
    BY <1>3 DEF CallSize
  <2>3. SzTypeOK'
    BY <1>t, <2>2 DEF SzTypeOK
  <2>4. SeenInv'
    BY <2>1, <2>2 DEF SeenInv, Below
  <2>5. HighInv'
    BY <1>t, <2>2 DEF HighInv, Reading
  <2> QED BY <2>2, <2>3, <2>4, <2>5 DEF SzInv, TornInv, SizeIsReal
<1>4. ASSUME ReadHigh PROVE SzInv'
  <2>1. /\ szHigh = NoOctet /\ szHigh' = szReg[1] /\ Reading
        /\ UNCHANGED <<szChip, szReg, szSeen, szAt, szFirst, szSecond, szResult>>
    BY <1>4 DEF ReadHigh
  <2>2. szReg \in Sizes /\ szReg[1] \in Octet
    BY <1>t DEF SzTypeOK, Sizes
  <2>3. SzTypeOK'
    BY <1>t, <2>1, <2>2 DEF SzTypeOK
  <2>4. SeenInv' /\ SizeIsReal'
    BY <1>t, <2>1 DEF SeenInv, Below, SizeIsReal
  <2>5. HighInv'
    BY <2>1, <2>2 DEF HighInv, Reading, Octet
  <2>6. ASSUME NEW value, IsTorn(value)
        PROVE  \E w \in szSeen' :
                 /\ w[2] = value[2] /\ value[1] <= w[1]
                 /\ szHigh' # NoOctet => w[1] <= szHigh'
    <3>1. PICK w \in szSeen : w[2] = value[2] /\ value[1] <= w[1]
      BY <2>6 DEF IsTorn
    <3>2. w[1] <= szReg[1]
      BY <1>t DEF SeenInv, Below, SzTypeOK, Sizes, Octet
    <3> QED BY <2>1, <3>1, <3>2
  <2>7. TornInv'
    BY <1>t, <2>1, <2>6 DEF TornInv, IsTorn
  <2> QED BY <2>3, <2>4, <2>5, <2>7 DEF SzInv
<1>5. ASSUME ReadLow,
             UNCHANGED <<szChip, szReg, szSeen>>,
             szFirst' \in Sizes, szSecond' \in Sizes,
             \/ /\ szAt' \in {"first", "second", "third"} /\ szResult' = szResult
                /\ szAt' = "second" => szFirst' = Value
                /\ szAt' = "third" => szSecond' = Value
             \/ /\ szAt' = "done" /\ szResult' \in Sizes
                /\ (szResult' \in szSeen) \/ (szChip = "w5100" /\ szResult' = Zero)
      PROVE  SzInv'
  <2>1. szHigh' = NoOctet
    BY <1>5 DEF ReadLow
  <2>2. Value \in Sizes /\ \E w \in szSeen : w[2] = Value[2] /\ Value[1] <= w[1]
    BY <1>t, <1>5, ValueIsTorn
  <2>3. SzTypeOK'
    BY <1>t, <1>5, <2>1 DEF SzTypeOK
  <2>4. SeenInv'
    BY <1>t, <1>5 DEF SeenInv, Below
  <2>5. HighInv'
    BY <2>1 DEF HighInv, NoOctet
  <2>6. TornInv'
    BY <1>5, <2>1, <2>2 DEF TornInv, IsTorn, NoOctet
  <2>7. SizeIsReal'
    BY <1>5 DEF SizeIsReal
  <2> QED BY <2>3, <2>4, <2>5, <2>6, <2>7 DEF SzInv
<1>6. CASE StableFirst
  <2>1. ReadLow
    BY <1>6 DEF StableFirst
  <2> QED BY <1>5, <1>6, <1>t, <2>1, ValueIsTorn
          DEF StableFirst, Continue, SzTypeOK
<1>7. CASE StableSecond
  <2>1. ReadLow /\ szAt = "second"
    BY <1>7 DEF StableSecond
  <2>2. Value \in Sizes
    BY <1>t, <2>1, ValueIsTorn
  <2>3. szFirst = Value => Value \in szSeen
    BY <1>t, <2>1, TwiceIsReal DEF TornInv, SzTypeOK
  <2>4. /\ UNCHANGED <<szChip, szReg, szSeen>>
        /\ szFirst' \in Sizes /\ szSecond' \in Sizes
    BY <1>7, <1>t, <2>2 DEF StableSecond, SzTypeOK
  <2>5. \/ szAt' = "done" /\ szResult' = Value /\ Value \in szSeen
        \/ szAt' = "third" /\ szResult' = szResult /\ szSecond' = Value
    BY <1>7, <2>3 DEF StableSecond, Return, Continue
  <2>6. CASE szAt' = "done"
    <3>1. szResult' = Value /\ Value \in szSeen
      BY <2>5, <2>6
    <3>2. szResult' \in Sizes /\ szResult' \in szSeen
      BY <2>2, <3>1
    <3> QED BY <1>5, <2>1, <2>4, <2>6, <3>2
  <2>7. CASE szAt' # "done"
    BY <1>5, <2>1, <2>4, <2>5, <2>7
  <2> QED BY <2>6, <2>7
<1>8. CASE StableThird
  <2>1. ReadLow /\ szAt = "third"
    BY <1>8 DEF StableThird
  <2>2. Value \in Sizes
    BY <1>t, <2>1, ValueIsTorn
  <2>3. szSecond = Value => Value \in szSeen
    BY <1>t, <2>1, TwiceIsReal DEF TornInv, SzTypeOK
  <2>4. /\ UNCHANGED <<szChip, szReg, szSeen>>
        /\ szFirst' \in Sizes /\ szSecond' \in Sizes
    BY <1>8, <1>t, <2>2 DEF StableThird, SzTypeOK
  <2>5. \/ szAt' = "done" /\ szResult' = Value /\ Value \in szSeen
        \/ szAt' = "first" /\ szResult' = szResult
    BY <1>8, <2>3 DEF StableThird, Return, Continue
  <2>6. CASE szAt' = "done"
    <3>1. szResult' = Value /\ Value \in szSeen
      BY <2>5, <2>6
    <3>2. szResult' \in Sizes /\ szResult' \in szSeen
      BY <2>2, <3>1
    <3> QED BY <1>5, <2>1, <2>4, <2>6, <3>2
  <2>7. CASE szAt' # "done"
    BY <1>5, <2>1, <2>4, <2>5, <2>7
  <2> QED BY <2>6, <2>7
<1>9. CASE StableFails
  <2>1. /\ szAt' = "failed" /\ szResult' = Zero /\ szHigh' = NoOctet
        /\ UNCHANGED <<szChip, szReg, szSeen, szFirst, szSecond>>
    BY <1>9 DEF StableFails
  <2>2. SzTypeOK'
    BY <1>t, <1>z, <2>1 DEF SzTypeOK
  <2>3. SeenInv' /\ HighInv'
    BY <1>t, <2>1 DEF SeenInv, Below, HighInv, NoOctet
  <2> QED BY <2>1, <2>2, <2>3 DEF SzInv, TornInv, SizeIsReal
<1>10. CASE LoopFirst
  <2>1. ReadLow /\ szChip = "w5100"
    BY <1>10 DEF LoopFirst
  <2> QED BY <1>5, <1>10, <1>t, <1>z, <2>1, ValueIsTorn
          DEF LoopFirst, Return, Continue, SzTypeOK
<1>11. CASE LoopSecond
  <2>1. ReadLow /\ szAt = "second"
    BY <1>11 DEF LoopSecond
  <2>2. Value \in Sizes
    BY <1>t, <2>1, ValueIsTorn
  <2>3. szFirst = Value => Value \in szSeen
    BY <1>t, <2>1, TwiceIsReal DEF TornInv, SzTypeOK
  <2>4. /\ UNCHANGED <<szChip, szReg, szSeen>>
        /\ szFirst' \in Sizes /\ szSecond' \in Sizes
    BY <1>11, <1>t, <2>2 DEF LoopSecond, SzTypeOK
  <2>5. \/ szAt' = "done" /\ szResult' = Value /\ Value \in szSeen
        \/ szAt' = "first" /\ szResult' = szResult
    BY <1>11, <2>3 DEF LoopSecond, Return, Continue
  <2>6. CASE szAt' = "done"
    <3>1. szResult' = Value /\ Value \in szSeen
      BY <2>5, <2>6
    <3>2. szResult' \in Sizes /\ szResult' \in szSeen
      BY <2>2, <3>1
    <3> QED BY <1>5, <2>1, <2>4, <2>6, <3>2
  <2>7. CASE szAt' # "done"
    BY <1>5, <2>1, <2>4, <2>5, <2>7
  <2> QED BY <2>6, <2>7
<1>12. CASE UNCHANGED szVars
  BY <1>12, <1>t
     DEF szVars, SzInv, SzTypeOK, SeenInv, HighInv, TornInv, SizeIsReal,
         IsTorn, Below, Reading
<1> QED
  BY <1>1, <1>2, <1>3, <1>4, <1>6, <1>7, <1>8, <1>9, <1>10, <1>11, <1>12
     DEF SzNext

-----------------------------------------------------------------------------
(* Every octet the drivers keep is an octet (getSn_RX_RSR).                *)
THEOREM SizesTyped == SzSpec => []SzTypeOK
<1>1. SzInv => SzTypeOK
  BY DEF SzInv
<1> QED BY <1>1, SzInvInit, SzInvStep, PTL DEF SzSpec

(* The two-read loops return a size the register had, for octets of any    *)
(* width and any growth between two reads (getSn_RX_RSR_stable,            *)
(* getSn_TX_FSR_stable).                                                   *)
THEOREM SizesReal == SzSpec => []SizeIsReal
<1>1. SzInv => SizeIsReal
  BY DEF SzInv
<1> QED BY <1>1, SzInvInit, SzInvStep, PTL DEF SzSpec

(* A caller is never told of more data, or of more room, than there is     *)
(* (getSn_RX_RSR, getSn_TX_FSR, and the loops of src/Ethernet/W5100).      *)
THEOREM SizesSafe == SzSpec => []SizeIsSafe
<1>1. SzInv => SizeIsSafe
  <2> SUFFICES ASSUME SzInv, szAt = "done" PROVE Below(szResult, szReg)
    BY DEF SizeIsSafe
  <2>1. CASE szResult \in szSeen
    BY <2>1 DEF SzInv, SeenInv
  <2>2. CASE szResult = Zero
    <3>1. szReg \in Sizes
      BY DEF SzInv, SzTypeOK
    <3> QED BY <2>2, <3>1, OctetAssumption DEF Zero, Below, Sizes, Octet
  <2> QED BY <2>1, <2>2 DEF SzInv, SizeIsReal
<1> QED BY <1>1, SzInvInit, SzInvStep, PTL DEF SzSpec

-----------------------------------------------------------------------------
(***************************************************************************)
(* TimeBase: with one task that waits, the base and the last raw value are *)
(* always the time at which the counter was last read or, between the      *)
(* statements, one of the two halves of it (BaseInv).                      *)
(***************************************************************************)
(* What the property needs, and what time_tasks shows to be necessary.     *)
OneTask == \E t : TimeTasks = {t}

(* The counter is read more often than once in a wrap.                     *)
InTime == Earlier(trueTime, <<lastTime[1] + 1, lastTime[2]>>)
InOrder == lastTime = trueTime \/ Earlier(lastTime, trueTime)

BaseInv ==
  \A t \in TimeTasks :
    /\ tmAt[t] \in {"idle", "has"} => <<wrapBase, lastRaw>> = lastTime
    /\ tmAt[t] = "adds" =>
         /\ tmRead[t] = lastTime /\ tmRaw[t] = lastTime[2]
         /\ wrapBase = IF tmRaw[t] < lastRaw THEN lastTime[1] - 1 ELSE lastTime[1]
    /\ tmAt[t] = "stores" =>
         tmRead[t] = lastTime /\ tmRaw[t] = lastTime[2] /\ wrapBase = lastTime[1]

TmInv == TmTypeOK /\ InTime /\ InOrder /\ BaseInv /\ TimeIsReal

-----------------------------------------------------------------------------
LEMMA TmTypesInit == TmInit => TmTypeOK
<1>1. 0 \in Raws /\ Start \in Nat \X Raws
  BY TimeAssumption DEF Raws, Start
<1> QED BY <1>1 DEF TmInit, TmTypeOK

(* The types, for any number of tasks.                                     *)
LEMMA TmTypesStep == TmTypeOK /\ [TmNext]_tmVars => TmTypeOK'
<1> SUFFICES ASSUME TmTypeOK, [TmNext]_tmVars PROVE TmTypeOK'
  OBVIOUS
<1> USE TimeAssumption DEF TmTypeOK
<1>1. CASE TimePasses
  <2>1. NextTime(trueTime) \in Nat \X Raws
    BY DEF NextTime, Raws
  <2> QED BY <1>1, <2>1 DEF TimePasses, tmSource
<1>2. ASSUME NEW t \in TimeTasks, ReadRaw(t) PROVE TmTypeOK'
  BY <1>2 DEF ReadRaw, tmSource
<1>3. ASSUME NEW t \in TimeTasks, AddWrap(t) PROVE TmTypeOK'
  BY <1>3 DEF AddWrap
<1>4. ASSUME NEW t \in TimeTasks, StoreRaw(t) PROVE TmTypeOK'
  BY <1>4 DEF StoreRaw
<1>5. CASE UNCHANGED tmVars
  BY <1>5 DEF tmVars, tmSource
<1> QED BY <1>1, <1>2, <1>3, <1>4, <1>5 DEF TmNext

LEMMA TmInvInit == TmInit => TmInv
<1> SUFFICES ASSUME TmInit PROVE TmInv
  OBVIOUS
<1>2. TmTypeOK
  BY TmTypesInit
<1>3. InTime /\ InOrder
  BY DEF TmInit, InTime, InOrder, Earlier, Start
<1>4. BaseInv /\ TimeIsReal
  BY DEF TmInit, BaseInv, TimeIsReal, Start
<1> QED BY <1>2, <1>3, <1>4 DEF TmInv

LEMMA TmInvStep == OneTask /\ TmInv /\ [TmNext]_tmVars => TmInv'
<1> SUFFICES ASSUME OneTask, TmInv, [TmNext]_tmVars PROVE TmInv'
  OBVIOUS
<1> USE TimeAssumption
<1>t. TmTypeOK /\ InTime /\ InOrder /\ BaseInv /\ TimeIsReal
  BY DEF TmInv
<1>k. TmTypeOK'
  BY <1>t, TmTypesStep
<1>n. /\ trueTime[1] \in Nat /\ trueTime[2] \in Raws
      /\ lastTime[1] \in Nat /\ lastTime[2] \in Raws
      /\ trueTime = <<trueTime[1], trueTime[2]>>
      /\ lastTime = <<lastTime[1], lastTime[2]>>
  BY <1>t DEF TmTypeOK
<1>1. CASE TimePasses
  <2>1. /\ trueTime' = NextTime(trueTime)
        /\ Earlier(NextTime(trueTime), <<lastTime[1] + 1, lastTime[2]>>)
        /\ UNCHANGED <<lastTime, lastRaw, wrapBase, tmAt, tmRaw, tmRead, tmNow>>
    BY <1>1 DEF TimePasses, tmSource
  <2>2. NextTime(trueTime) \in Nat \X Raws /\ Earlier(trueTime, NextTime(trueTime))
    BY <1>n DEF NextTime, Raws, Earlier
  <2>4. InTime'
    BY <2>1 DEF InTime, Earlier
  <2>5. InOrder'
    BY <1>n, <1>t, <2>1, <2>2 DEF InOrder, Earlier, Raws
  <2>6. BaseInv' /\ TimeIsReal'
    BY <1>t, <2>1 DEF BaseInv, TimeIsReal
  <2> QED BY <1>k, <2>4, <2>5, <2>6 DEF TmInv
<1>2. ASSUME NEW t \in TimeTasks, ReadRaw(t) PROVE TmInv'
  <2>1. /\ tmAt[t] \in {"idle", "has"} /\ tmAt' = [tmAt EXCEPT ![t] = "adds"]
        /\ tmRaw' = [tmRaw EXCEPT ![t] = trueTime[2]]
        /\ tmRead' = [tmRead EXCEPT ![t] = trueTime]
        /\ lastTime' = trueTime
        /\ UNCHANGED <<trueTime, lastRaw, wrapBase, tmNow>>
    BY <1>2 DEF ReadRaw, tmSource
  <2>2. TimeTasks = {t}
    BY <1>2 DEF OneTask
  <2>4. InTime' /\ InOrder'
    BY <1>n, <2>1 DEF InTime, InOrder, Earlier, Raws
  <2>5. wrapBase = lastTime[1] /\ lastRaw = lastTime[2]
    BY <1>t, <1>2, <2>1 DEF BaseInv
  <2>6. wrapBase = IF trueTime[2] < lastRaw THEN trueTime[1] - 1 ELSE trueTime[1]
    BY <1>n, <1>t, <2>5 DEF InTime, InOrder, Earlier, Raws
  <2>7. tmAt'[t] = "adds" /\ tmRaw'[t] = trueTime[2] /\ tmRead'[t] = trueTime
    BY <1>t, <2>1 DEF TmTypeOK
  <2>8. BaseInv' /\ TimeIsReal'
    BY <2>1, <2>2, <2>6, <2>7 DEF BaseInv, TimeIsReal
  <2> QED BY <1>k, <2>4, <2>8 DEF TmInv
<1>3. ASSUME NEW t \in TimeTasks, AddWrap(t) PROVE TmInv'
  <2>1. /\ tmAt[t] = "adds" /\ tmAt' = [tmAt EXCEPT ![t] = "stores"]
        /\ wrapBase' = IF tmRaw[t] < lastRaw THEN wrapBase + 1 ELSE wrapBase
        /\ UNCHANGED <<trueTime, lastTime, lastRaw, tmRaw, tmRead, tmNow>>
    BY <1>3 DEF AddWrap
  <2>2. TimeTasks = {t}
    BY <1>3 DEF OneTask
  <2>4. InTime' /\ InOrder'
    BY <1>t, <2>1 DEF InTime, InOrder, Earlier
  <2>5. tmAt'[t] = "stores"
    BY <1>t, <2>1 DEF TmTypeOK
  <2>6. tmRead[t] = lastTime /\ tmRaw[t] = lastTime[2] /\ wrapBase' = lastTime[1]
    BY <1>n, <1>t, <1>3, <2>1 DEF BaseInv
  <2>7. BaseInv' /\ TimeIsReal'
    BY <2>1, <2>2, <2>5, <2>6 DEF BaseInv, TimeIsReal
  <2> QED BY <1>k, <2>4, <2>7 DEF TmInv
<1>4. ASSUME NEW t \in TimeTasks, StoreRaw(t) PROVE TmInv'
  <2>1. /\ tmAt[t] = "stores" /\ tmAt' = [tmAt EXCEPT ![t] = "has"]
        /\ lastRaw' = tmRaw[t]
        /\ tmNow' = [tmNow EXCEPT ![t] = <<wrapBase, tmRaw[t]>>]
        /\ UNCHANGED <<trueTime, lastTime, wrapBase, tmRaw, tmRead>>
    BY <1>4 DEF StoreRaw
  <2>2. TimeTasks = {t}
    BY <1>4 DEF OneTask
  <2>4. InTime' /\ InOrder'
    BY <1>t, <2>1 DEF InTime, InOrder, Earlier
  <2>5. tmAt'[t] = "has" /\ tmNow'[t] = <<wrapBase, tmRaw[t]>>
    BY <1>t, <2>1 DEF TmTypeOK
  <2>6. tmRead[t] = lastTime /\ <<wrapBase, tmRaw[t]>> = lastTime
    BY <1>n, <1>t, <1>4, <2>1 DEF BaseInv
  <2>7. BaseInv' /\ TimeIsReal'
    BY <2>1, <2>2, <2>5, <2>6 DEF BaseInv, TimeIsReal
  <2> QED BY <1>k, <2>4, <2>7 DEF TmInv
<1>5. CASE UNCHANGED tmVars
  BY <1>5, <1>t
     DEF tmVars, tmSource, TmInv, TmTypeOK, InTime, InOrder, BaseInv, TimeIsReal,
         Earlier
<1> QED BY <1>1, <1>2, <1>3, <1>4, <1>5 DEF TmNext

-----------------------------------------------------------------------------
(* The timeline a waiting task sees is the real one, for a counter of any  *)
(* width and any number of wraps, as long as no other task reads it        *)
(* (wizchip_time_now).                                                     *)
THEOREM TimeStaysReal ==
  ASSUME OneTask
  PROVE  TmSpec => []TimeIsReal
<1>1. TmInv /\ [TmNext]_tmVars => TmInv'
  BY TmInvStep
<1>2. TmInv => TimeIsReal
  BY DEF TmInv
<1> QED BY <1>1, <1>2, TmInvInit, PTL DEF TmSpec

-----------------------------------------------------------------------------
(***************************************************************************)
(* PhyControl.  One task is inside GLOBAL (HolderIsInside); whoever is at  *)
(* work is alone unless a power call has met it (AloneAtWork), and then it *)
(* and PHYCFGR hold the mode last asked for (ModeFollows).  RST is low     *)
(* only between its pulse's two edges, or has been left so (PulseEnds).    *)
(***************************************************************************)
Inside(t) == ~At(t, "idle") /\ ~At(t, "power")

(* Between what pulls RST low and what releases it.                        *)
Pulsing(t) == At(t, "low") \/ At(t, "read_low") \/ At(t, "hold") \/ At(t, "high")

HolderIsInside ==
  /\ \A t \in PhyTasks : Inside(t) => t \in phyHolder
  /\ \A t, u \in PhyTasks : Inside(t) /\ Inside(u) => t = u

AloneAtWork ==
  \A t, u \in PhyTasks : t # u /\ ~At(t, "idle") => At(u, "idle")

ModeFollows ==
  /\ PhyMode(phyCfg) = phyTold
  /\ \A t \in PhyTasks : ~At(t, "idle") => PhyMode(phyWork[t].cfg) = phyTold

PulseEnds == phyLeft \/ phyCfg.rst \/ \E t \in PhyTasks : Pulsing(t)

PhyInv ==
  /\ PhyTypeOK /\ HolderIsInside /\ PulseEnds
  /\ phyCrossed \/ (AloneAtWork /\ ModeFollows)

LEMMA PhyInvInit == PhyInit => PhyInv
<1> SUFFICES ASSUME PhyInit PROVE PhyInv
  OBVIOUS
<1> USE DEF PhyInit, AtPowerUp
<1>1. PhyTypeOK
  BY PhyAssumption DEF PhyTypeOK, PhyCfgs, PhySteps, PhyConf, PhyMode
<1>2. HolderIsInside /\ AloneAtWork /\ PulseEnds
  BY DEF HolderIsInside, AloneAtWork, PulseEnds, Inside, At
<1>3. ModeFollows
  BY DEF ModeFollows, At, PhyMode
<1> QED BY <1>1, <1>2, <1>3 DEF PhyInv

(* What a task does is in its own record of phyWork.                       *)
LEMMA GotoMoves ==
  ASSUME PhyTypeOK, NEW t \in PhyTasks, NEW step \in PhySteps,
         NEW cfg \in PhyCfgs, Goto(t, step, cfg)
  PROVE  /\ phyWork' \in [PhyTasks -> [at : PhySteps, cfg : PhyCfgs]]
         /\ phyWork'[t].at = step /\ phyWork'[t].cfg = cfg
         /\ \A u \in PhyTasks \ {t} : phyWork'[u] = phyWork[u]
BY DEF PhyTypeOK, Goto

(* A step inside GLOBAL that leaves or keeps what it works on: the others  *)
(* are where they were, and the mode follows if it did.                    *)
LEMMA InsideStep ==
  ASSUME PhyInv, NEW t \in PhyTasks, Inside(t),
         NEW step \in PhySteps, NEW cfg \in PhyCfgs, Goto(t, step, cfg),
         step # "power", phyCfg' \in PhyCfgs, phyTold' \in PhyConf,
         phyLeft' \in BOOLEAN, phyCrossed' = phyCrossed,
         phyHolder' = phyHolder \/ (step = "idle" /\ phyHolder' = phyHolder \ {t}),
         phyCrossed \/ PhyMode(phyCfg') = phyTold',
         phyCrossed \/ step = "idle" \/ PhyMode(cfg) = phyTold',
         \/ phyLeft' \/ phyCfg'.rst
         \/ step \in {"low", "read_low", "hold", "high"}
  PROVE  PhyInv'
<1>t. PhyTypeOK
  BY DEF PhyInv
<1>1. /\ phyWork' \in [PhyTasks -> [at : PhySteps, cfg : PhyCfgs]]
      /\ phyWork'[t].at = step /\ phyWork'[t].cfg = cfg
      /\ \A u \in PhyTasks \ {t} : phyWork'[u] = phyWork[u]
  BY <1>t, GotoMoves
<1>2. PhyTypeOK'
  BY <1>t, <1>1 DEF PhyTypeOK
<1>3. HolderIsInside'
  <2>1. \A u \in PhyTasks \ {t} : ~Inside(u) /\ ~Inside(u)'
    BY <1>1 DEF PhyInv, HolderIsInside, Inside, At
  <2>2. Inside(t)' => t \in phyHolder'
    BY <1>1 DEF PhyInv, HolderIsInside, Inside, At
  <2> QED BY <2>1, <2>2 DEF HolderIsInside
<1>4. PulseEnds'
  BY <1>1 DEF PulseEnds, Pulsing, At
<1>5. ASSUME ~phyCrossed PROVE (AloneAtWork /\ ModeFollows)'
  <2>1. \A u \in PhyTasks \ {t} : At(u, "idle")
    BY <1>5 DEF PhyInv, AloneAtWork, Inside
  <2>2. \A u \in PhyTasks \ {t} : At(u, "idle")'
    BY <1>1, <2>1 DEF At
  <2>3. AloneAtWork'
    BY <2>2 DEF AloneAtWork
  <2>4. ModeFollows'
    BY <1>1, <1>5, <2>2 DEF ModeFollows, At, PhyMode
  <2> QED BY <2>3, <2>4
<1> QED BY <1>2, <1>3, <1>4, <1>5 DEF PhyInv

(* GLOBAL is taken: nobody is inside, and PHYCFGR is read as it is.        *)
LEMMA LockedStartKeeps ==
  ASSUME PhyInv, NEW t \in PhyTasks,
         NEW step \in {"reset", "conf", "norm", "down"}, LockedStart(t, step)
  PROVE  PhyInv'
<1>t. PhyTypeOK
  BY DEF PhyInv
<1>1. /\ At(t, "idle") /\ phyHolder = {} /\ phyHolder' = {t}
      /\ Goto(t, step, phyCfg) /\ UNCHANGED <<phyCfg, phyTold, phyLeft>>
      /\ phyCrossed' = (phyCrossed \/ \E u \in PhyTasks \ {t} : At(u, "power"))
  BY DEF LockedStart
<1>2. /\ phyWork' \in [PhyTasks -> [at : PhySteps, cfg : PhyCfgs]]
      /\ phyWork'[t].at = step /\ phyWork'[t].cfg = phyCfg
      /\ \A u \in PhyTasks \ {t} : phyWork'[u] = phyWork[u]
  BY <1>t, <1>1, GotoMoves DEF PhySteps, PhyTypeOK
<1>3. PhyTypeOK'
  BY <1>t, <1>1, <1>2 DEF PhyTypeOK
<1>4. \A u \in PhyTasks : ~Inside(u)
  BY <1>1 DEF PhyInv, HolderIsInside
<1>5. HolderIsInside'
  BY <1>1, <1>2, <1>4 DEF HolderIsInside, Inside, At
<1>6. PulseEnds'
  <2>1. phyLeft \/ phyCfg.rst
    BY <1>4 DEF PhyInv, PulseEnds, Pulsing, Inside, At
  <2> QED BY <1>1, <2>1 DEF PulseEnds
<1>7. ASSUME ~phyCrossed' PROVE (AloneAtWork /\ ModeFollows)'
  <2>1. ~phyCrossed /\ \A u \in PhyTasks \ {t} : ~At(u, "power")
    BY <1>1, <1>7
  <2>2. \A u \in PhyTasks \ {t} : At(u, "idle")'
    BY <1>2, <1>4, <2>1 DEF Inside, At
  <2>3. AloneAtWork'
    BY <2>2 DEF AloneAtWork
  <2>4. ModeFollows'
    BY <1>1, <1>2, <2>1, <2>2 DEF PhyInv, ModeFollows, At, PhyMode
  <2> QED BY <2>3, <2>4
<1> QED BY <1>3, <1>5, <1>6, <1>7 DEF PhyInv

(* A power call writes PHYCFGR without the lock: RST is left low, and the  *)
(* mode is its own unless another call is under way.                       *)
LEMMA PowerKeeps ==
  ASSUME PhyInv, NEW t \in PhyTasks, NEW mode \in {"ALLA", "PDOWN"},
         Power(t, mode)
  PROVE  PhyInv'
<1> DEFINE cfg == [sw |-> FALSE, mode |-> mode, rst |-> FALSE]
<1>t. PhyTypeOK
  BY DEF PhyInv
<1>1. /\ At(t, "idle") /\ phyCfg' = cfg /\ Goto(t, "power", cfg)
      /\ phyTold' = PhyMode(cfg) /\ phyLeft' = TRUE
      /\ phyCrossed' = (phyCrossed \/ Others(t)) /\ phyHolder' = phyHolder
  BY DEF Power
<1>2. cfg \in PhyCfgs /\ PhyMode(cfg) \in PhyConf /\ "power" \in PhySteps
  BY PhyAssumption DEF PhyCfgs, PhyConf, PhyMode, PhySteps
<1> HIDE DEF cfg
<1>3. /\ phyWork' \in [PhyTasks -> [at : PhySteps, cfg : PhyCfgs]]
      /\ phyWork'[t].at = "power" /\ phyWork'[t].cfg = cfg
      /\ \A u \in PhyTasks \ {t} : phyWork'[u] = phyWork[u]
  BY <1>t, <1>1, <1>2, GotoMoves
<1>4. PhyTypeOK'
  BY <1>t, <1>1, <1>2, <1>3 DEF PhyTypeOK
<1>5. HolderIsInside'
  BY <1>1, <1>3 DEF PhyInv, HolderIsInside, Inside, At
<1>6. PulseEnds'
  BY <1>1 DEF PulseEnds
<1>7. ASSUME ~phyCrossed' PROVE (AloneAtWork /\ ModeFollows)'
  <2>1. \A u \in PhyTasks \ {t} : At(u, "idle")'
    BY <1>1, <1>3, <1>7 DEF Others, At
  <2>2. AloneAtWork'
    BY <2>1 DEF AloneAtWork
  <2>3. ModeFollows'
    BY <1>1, <1>3, <2>1 DEF ModeFollows, At, PhyMode
  <2> QED BY <2>2, <2>3
<1> QED BY <1>4, <1>5, <1>6, <1>7 DEF PhyInv

LEMMA PowerSelectKeeps ==
  ASSUME PhyInv, NEW t \in PhyTasks, PowerSelect(t)
  PROVE  PhyInv'
<1> DEFINE cfg == [phyWork[t].cfg EXCEPT !.sw = TRUE]
<1>t. PhyTypeOK
  BY DEF PhyInv
<1>1. /\ At(t, "power") /\ phyCfg' = cfg /\ Goto(t, "idle", AtPowerUp)
      /\ phyTold' = PhyMode(cfg) /\ phyLeft' = TRUE
      /\ phyCrossed' = phyCrossed /\ phyHolder' = phyHolder
  BY DEF PowerSelect
<1>2. /\ cfg \in PhyCfgs /\ PhyMode(cfg) \in PhyConf
      /\ "idle" \in PhySteps /\ AtPowerUp \in PhyCfgs
  BY <1>t, PhyAssumption DEF PhyTypeOK, PhyCfgs, PhyConf, PhyMode, PhySteps, AtPowerUp
<1> HIDE DEF cfg
<1>3. /\ phyWork' \in [PhyTasks -> [at : PhySteps, cfg : PhyCfgs]]
      /\ phyWork'[t].at = "idle"
      /\ \A u \in PhyTasks \ {t} : phyWork'[u] = phyWork[u]
  BY <1>t, <1>1, <1>2, GotoMoves
<1>4. PhyTypeOK'
  BY <1>t, <1>1, <1>2, <1>3 DEF PhyTypeOK
<1>5. HolderIsInside'
  BY <1>1, <1>3 DEF PhyInv, HolderIsInside, Inside, At
<1>6. PulseEnds'
  BY <1>1 DEF PulseEnds
<1>7. ASSUME ~phyCrossed PROVE (AloneAtWork /\ ModeFollows)'
  <2>1. \A u \in PhyTasks : At(u, "idle")'
    BY <1>1, <1>3, <1>7 DEF PhyInv, AloneAtWork, At
  <2> QED BY <1>1, <2>1 DEF AloneAtWork, ModeFollows, PhyMode
<1> QED BY <1>1, <1>4, <1>5, <1>6, <1>7 DEF PhyInv

(* What a call inside GLOBAL writes has the mode it holds, or a new one    *)
(* that it is told.                                                        *)
LEMMA ConfigureKeeps ==
  ASSUME PhyInv, NEW t \in PhyTasks, Inside(t), NEW conf \in PhyConf,
         Configure(t, conf)
  PROVE  PhyInv'
<1> DEFINE cfg == [phyWork[t].cfg EXCEPT !.sw = conf.sw, !.mode = conf.mode]
<1>1. /\ phyCfg' = cfg /\ phyTold' = conf /\ Goto(t, "low", cfg)
      /\ UNCHANGED <<phyHolder, phyLeft, phyCrossed>>
  BY DEF Configure
<1>2. /\ cfg \in PhyCfgs /\ PhyMode(cfg) = conf /\ "low" \in PhySteps
      /\ phyLeft \in BOOLEAN
  BY DEF PhyInv, PhyTypeOK, PhyCfgs, PhyConf, PhyMode, PhySteps
<1> HIDE DEF cfg
<1> QED BY <1>1, <1>2, InsideStep

LEMMA LockedCallKeeps ==
  ASSUME PhyInv, NEW t \in PhyTasks,
         \/ PhyReset(t) \/ \E conf \in PhyConf : SetPhyConf(t, conf)
         \/ SetPhyPowerMode(t)
         \/ ResetLow(t) \/ PhyReadLow(t) \/ Held(t) \/ WaitFails(t)
         \/ ResetHigh(t) \/ PhyReadHigh(t)
  PROVE  PhyInv'
<1> DEFINE cfg == phyWork[t].cfg
           low == [cfg EXCEPT !.rst = FALSE]
           high == [cfg EXCEPT !.rst = TRUE]
<1>0. Inside(t)
  BY DEF PhyReset, SetPhyConf, SetPhyPowerMode, ResetLow, PhyReadLow, Held,
     WaitFails, ResetHigh, PhyReadHigh, Inside, At
<1>t. /\ PhyTypeOK /\ cfg \in PhyCfgs /\ AtPowerUp \in PhyCfgs
      /\ phyCfg \in PhyCfgs /\ phyTold \in PhyConf /\ phyLeft \in BOOLEAN
      /\ phyCfg.rst \in BOOLEAN
      /\ low \in PhyCfgs /\ high \in PhyCfgs /\ high.rst
      /\ PhyMode(low) = PhyMode(cfg) /\ PhyMode(high) = PhyMode(cfg)
  BY PhyAssumption DEF PhyInv, PhyTypeOK, PhyCfgs, PhyConf, AtPowerUp, PhyMode
<1>m. phyCrossed \/ (PhyMode(phyCfg) = phyTold /\ PhyMode(cfg) = phyTold)
  BY <1>0 DEF PhyInv, ModeFollows, Inside
<1>r. phyLeft \/ phyCfg.rst \/ Pulsing(t)
  <2>1. \A u \in PhyTasks : Pulsing(u) => u = t
    BY <1>0 DEF PhyInv, HolderIsInside, Inside, Pulsing, At
  <2> QED BY <2>1 DEF PhyInv, PulseEnds
<1>s. {"idle", "low", "read_low", "hold", "high", "read_high"} \subseteq PhySteps
  BY DEF PhySteps
<1> HIDE DEF cfg, low, high
<1>1. CASE PhyReset(t)
  <2>1. /\ Goto(t, "low", cfg) /\ UNCHANGED <<phyCfg, phyHolder, phyHist>>
    BY <1>1 DEF PhyReset, cfg
  <2> QED BY <2>1, <1>0, <1>t, <1>m, <1>s, InsideStep DEF phyHist
<1>2. CASE \E conf \in PhyConf : SetPhyConf(t, conf)
  BY <1>0, <1>2, ConfigureKeeps DEF SetPhyConf
<1>3. CASE SetPhyPowerMode(t)
  <2>1. CASE cfg.sw
    <3> DEFINE conf == [sw |-> TRUE, mode |-> IF At(t, "down") THEN "PDOWN" ELSE "ALLA"]
    <3>1. Configure(t, conf)
      BY <1>3, <2>1 DEF SetPhyPowerMode, cfg
    <3>2. conf \in PhyConf
      BY PhyAssumption DEF PhyConf
    <3> HIDE DEF conf
    <3> QED BY <1>0, <3>1, <3>2, ConfigureKeeps
  <2>2. CASE ~cfg.sw
    <3>1. Leave(t) /\ UNCHANGED <<phyCfg, phyHist>> /\ ~Pulsing(t)
      BY <1>3, <2>2 DEF SetPhyPowerMode, cfg, Pulsing, At
    <3> QED BY <3>1, <1>0, <1>t, <1>m, <1>r, <1>s, InsideStep DEF phyHist, Leave
  <2> QED BY <2>1, <2>2
<1>4. CASE ResetLow(t)
  <2>1. /\ phyCfg' = low /\ Goto(t, "read_low", cfg)
        /\ UNCHANGED <<phyHolder, phyHist>>
    BY <1>4 DEF ResetLow, cfg, low
  <2> QED BY <2>1, <1>0, <1>t, <1>m, <1>s, InsideStep DEF phyHist
<1>5. CASE PhyReadLow(t)
  <2>1. Goto(t, "hold", cfg) /\ UNCHANGED <<phyCfg, phyHolder, phyHist>>
    BY <1>5 DEF PhyReadLow, cfg
  <2> QED BY <2>1, <1>0, <1>t, <1>m, <1>s, InsideStep DEF phyHist
<1>6. CASE Held(t)
  <2>1. Goto(t, "high", cfg) /\ UNCHANGED <<phyCfg, phyHolder, phyHist>>
    BY <1>6 DEF Held, cfg
  <2> QED BY <2>1, <1>0, <1>t, <1>m, <1>s, InsideStep DEF phyHist
<1>7. CASE WaitFails(t)
  <2>1. /\ Goto(t, "idle", AtPowerUp) /\ phyHolder' = phyHolder \ {t}
        /\ phyLeft' = ~phyCfg.rst /\ UNCHANGED <<phyCfg, phyTold, phyCrossed>>
    BY <1>7 DEF WaitFails, Leave
  <2>2. phyLeft' \in BOOLEAN /\ (phyLeft' \/ phyCfg'.rst)
    BY <2>1, <1>t
  <2> QED BY <2>1, <2>2, <1>0, <1>t, <1>m, <1>s, InsideStep
<1>8. CASE ResetHigh(t)
  <2>1. /\ phyCfg' = high /\ phyLeft' = FALSE /\ Goto(t, "read_high", cfg)
        /\ UNCHANGED <<phyHolder, phyTold, phyCrossed>>
    BY <1>8 DEF ResetHigh, cfg, high
  <2> QED BY <2>1, <1>0, <1>t, <1>m, <1>s, InsideStep
<1>9. CASE PhyReadHigh(t)
  <2>1. /\ Leave(t) /\ UNCHANGED <<phyCfg, phyHist>> /\ ~Pulsing(t)
    BY <1>9 DEF PhyReadHigh, Pulsing, At
  <2> QED BY <2>1, <1>0, <1>t, <1>m, <1>r, <1>s, InsideStep DEF phyHist, Leave
<1> QED BY <1>1, <1>2, <1>3, <1>4, <1>5, <1>6, <1>7, <1>8, <1>9

LEMMA PhyInvStep == PhyInv /\ [PhyNext]_phyVars => PhyInv'
<1> SUFFICES ASSUME PhyInv, [PhyNext]_phyVars PROVE PhyInv'
  OBVIOUS
<1>1. CASE UNCHANGED phyVars
  BY <1>1 DEF phyVars, phyHist, PhyInv, PhyTypeOK, HolderIsInside, PulseEnds,
     AloneAtWork, ModeFollows, Inside, Pulsing, At
<1>2. CASE PhyNext
  <2>1. PICK t \in PhyTasks :
          \/ \E step \in {"reset", "conf", "norm", "down"} : LockedStart(t, step)
          \/ PhyReset(t) \/ \E conf \in PhyConf : SetPhyConf(t, conf)
          \/ SetPhyPowerMode(t)
          \/ ResetLow(t) \/ PhyReadLow(t) \/ Held(t) \/ WaitFails(t)
          \/ ResetHigh(t) \/ PhyReadHigh(t)
          \/ \E mode \in {"ALLA", "PDOWN"} : Power(t, mode)
          \/ PowerSelect(t)
    BY <1>2 DEF PhyNext
  <2>2. CASE \E step \in {"reset", "conf", "norm", "down"} : LockedStart(t, step)
    BY <2>2, LockedStartKeeps
  <2>3. CASE \/ PhyReset(t) \/ \E conf \in PhyConf : SetPhyConf(t, conf)
             \/ SetPhyPowerMode(t)
             \/ ResetLow(t) \/ PhyReadLow(t) \/ Held(t) \/ WaitFails(t)
             \/ ResetHigh(t) \/ PhyReadHigh(t)
    BY <2>3, LockedCallKeeps
  <2>4. CASE \E mode \in {"ALLA", "PDOWN"} : Power(t, mode)
    BY <2>4, PowerKeeps
  <2>5. CASE PowerSelect(t)
    BY <2>5, PowerSelectKeeps
  <2> QED BY <2>1, <2>2, <2>3, <2>4, <2>5
<1> QED BY <1>1, <1>2

(* With nobody at work no reset pulse is pending and the mode is the last. *)
LEMMA RestIsTold == PhyInv => PhyObeys
<1> SUFFICES ASSUME PhyInv, \A t \in PhyTasks : At(t, "idle") PROVE PhyObeys
  BY DEF PhyObeys
<1>1. \A t \in PhyTasks : ~Pulsing(t)
  BY DEF Pulsing, At
<1> QED BY <1>1 DEF PhyInv, PulseEnds, ModeFollows, PhyObeys

(* When nobody is at work the PHY is out of reset and in the mode it was   *)
(* last told to, for any number of tasks and modes, but for a failed call  *)
(* and the power calls that take no lock (wizphy_reset_locked,             *)
(* wizphy_setphyconf, wizphy_setphypmode, wizphy_powerdown).               *)
THEOREM PhyDoesAsTold == PhySpec => []PhyObeys
<1>1. PhyInv => PhyObeys
  BY RestIsTold
<1>2. PhyInv /\ [PhyNext]_phyVars => PhyInv'
  BY PhyInvStep
<1> QED BY <1>1, <1>2, PhyInvInit, PTL DEF PhySpec
-----------------------------------------------------------------------------
(***************************************************************************)
(* RingMemory.  A pointer that runs past the ring and past its own 16 bits *)
(* names a cell by its remainder, and the remainders of a sum do not       *)
(* depend on where it is taken: RingSize divides PointerModulus.  What     *)
(* wiz_send_data writes lies between the write pointer and the read        *)
(* pointer of the ring, so that it meets no octet still to be read.        *)
(***************************************************************************)
LEMMA ModIs ==
  ASSUME NEW a \in Int, NEW m \in Nat \ {0}, NEW q \in Int, NEW r \in Int,
         0 <= r, r < m, a = m * q + r
  PROVE  a % m = r
OBVIOUS

LEMMA ModQuotient ==
  ASSUME NEW a \in Int, NEW m \in Nat \ {0}
  PROVE  /\ a % m \in Int /\ 0 <= a % m /\ a % m < m
         /\ \E q \in Int : a = m * q + (a % m)
<1>1. a % m \in Int /\ 0 <= a % m /\ a % m < m
  OBVIOUS
<1>2. a \div m \in Int
  OBVIOUS
<1>3. a = m * (a \div m) + (a % m)
  OBVIOUS
<1> QED BY <1>1, <1>2, <1>3

LEMMA ModEqual ==
  ASSUME NEW a \in Int, NEW b \in Int, NEW m \in Nat \ {0},
         \E q \in Int : a = b + m * q
  PROVE  a % m = b % m
<1> DEFINE r == b % m
<1>0. PICK q \in Int : a = b + m * q
  OBVIOUS
<1>1. PICK p \in Int : b = m * p + r
  BY ModQuotient
<1>2. r \in Int /\ 0 <= r /\ r < m
  OBVIOUS
<1> HIDE DEF r
<1>3. a = m * (p + q) + r /\ p + q \in Int
  BY <1>0, <1>1, <1>2
<1>4. a % m = r
  BY <1>2, <1>3, ModIs
<1> QED BY <1>4 DEF r

LEMMA ModOfSum ==
  ASSUME NEW a \in Int, NEW b \in Int, NEW d \in Int, NEW m \in Nat \ {0},
         a % m = b % m
  PROVE  (a + d) % m = (b + d) % m
<1> DEFINE r == a % m
<1>1. PICK p \in Int : a = m * p + r
  BY ModQuotient
<1>2. PICK q \in Int : b = m * q + r
  BY ModQuotient
<1>3. r \in Int
  OBVIOUS
<1> HIDE DEF r
<1> DEFINE x == a + d
           y == b + d
           z == p - q
<1>4. x = y + m * z /\ x \in Int /\ y \in Int /\ z \in Int
  BY <1>1, <1>2, <1>3
<1> HIDE DEF x, y, z
<1>5. x % m = y % m
  BY <1>4, ModEqual
<1> QED BY <1>5 DEF x, y

LEMMA ModIsSame ==
  ASSUME NEW a \in Int, NEW m \in Nat \ {0}, 0 <= a, a < m
  PROVE  a % m = a
OBVIOUS

LEMMA ModOfMod ==
  ASSUME NEW a \in Int, NEW d \in Int, NEW m \in Nat \ {0}
  PROVE  ((a % m) + d) % m = (a + d) % m
<1>1. a % m \in Int /\ 0 <= a % m /\ a % m < m
  BY ModQuotient
<1>2. (a % m) % m = a % m
  BY <1>1, ModIsSame
<1> QED BY <1>1, <1>2, ModOfSum

(* The pointer's overflow leaves its cell as it is.                        *)
LEMMA CellOfPointer ==
  ASSUME NEW p \in Int
  PROVE  /\ (p % PointerModulus) % RingSize = p % RingSize
         /\ p % RingSize \in Cells
<1>1. RingSize \in Nat \ {0} /\ PointerModulus \in Nat \ {0}
  BY RingAssumption
<1>q. \E q \in Int : p = PointerModulus * q + (p % PointerModulus)
  <2> DEFINE m == PointerModulus
  <2>1. m \in Nat \ {0}
    BY <1>1
  <2> HIDE DEF m
  <2>2. \E q \in Int : p = m * q + (p % m)
    BY <2>1, ModQuotient
  <2> QED BY <2>2 DEF m
<1>3. PICK k \in Int : PointerModulus = RingSize * k
  <2> DEFINE d == PointerModulus \div RingSize
  <2>1. d \in Int
    BY <1>1
  <2>2. PointerModulus = RingSize * d + (PointerModulus % RingSize)
    BY <1>1
  <2>3. PointerModulus % RingSize = 0
    BY RingAssumption
  <2> HIDE DEF d
  <2>4. PointerModulus = RingSize * d
    BY <1>1, <2>1, <2>2, <2>3
  <2> QED BY <2>1, <2>4
<1> DEFINE r == p % PointerModulus
<1>4. PICK q \in Int : p = PointerModulus * q + r
  BY <1>q
<1>s. r \in Int
  BY <1>1
<1> HIDE DEF r
<1> DEFINE z == 0 - k * q
<1>6. r = p + RingSize * z /\ z \in Int
  BY <1>1, <1>3, <1>4, <1>s
<1> HIDE DEF z
<1>7. r % RingSize = p % RingSize
  BY <1>1, <1>s, <1>6, ModEqual
<1>8. p % RingSize \in Int /\ 0 <= p % RingSize /\ p % RingSize < RingSize
  BY <1>1, ModQuotient
<1> QED BY <1>1, <1>7, <1>8 DEF r, Cells

-----------------------------------------------------------------------------
(* How far a cell is from a pointer, around the ring.                      *)
Distance(p, c) == (c - p) % RingSize

LEMMA DistanceIs ==
  ASSUME NEW p \in Int, NEW c \in Cells
  PROVE  LET at == p % RingSize
         IN  /\ at \in Cells
             /\ Distance(p, c) = IF at <= c THEN c - at ELSE c - at + RingSize
<1> DEFINE at == p % RingSize
<1>1. RingSize \in Nat \ {0} /\ c \in Int /\ 0 <= c /\ c < RingSize
  BY RingAssumption DEF Cells
<1>2. PICK q \in Int : p = RingSize * q + at
  BY <1>1, ModQuotient
<1>3. at \in Int /\ 0 <= at /\ at < RingSize
  BY <1>1, ModQuotient
<1> HIDE DEF at
<1> DEFINE x == c - p
           y == c - at
           w == c - at + RingSize
           z == 0 - q
           one == 1
<1>4. /\ x \in Int /\ y \in Int /\ w \in Int /\ z \in Int
      /\ x = y + RingSize * z /\ w = y + RingSize * one /\ one \in Int
  BY <1>1, <1>2, <1>3
<1> HIDE DEF x, y, w, z, one
<1>5. x % RingSize = y % RingSize
  BY <1>1, <1>4, ModEqual
<1>6. (c - p) % RingSize = (c - at) % RingSize
  BY <1>5 DEF x, y
<1>7. w % RingSize = y % RingSize
  BY <1>1, <1>4, ModEqual
<1>8. (c - at + RingSize) % RingSize = (c - at) % RingSize
  BY <1>7 DEF w, y
<1>9. at <= c => (c - at) % RingSize = c - at
  <2>1. at <= c => 0 <= y /\ y < RingSize
    BY <1>1, <1>3 DEF y
  <2>2. at <= c => y % RingSize = y
    BY <1>1, <1>4, <2>1, ModIsSame
  <2> QED BY <2>2 DEF y
<1>10. ~(at <= c) => (c - at + RingSize) % RingSize = c - at + RingSize
  <2>1. ~(at <= c) => 0 <= w /\ w < RingSize
    BY <1>1, <1>3 DEF w
  <2>2. ~(at <= c) => w % RingSize = w
    BY <1>1, <1>4, <2>1, ModIsSame
  <2> QED BY <2>2 DEF w
<1>11. at \in Cells
  BY <1>1, <1>3 DEF Cells
<1>12. Distance(p, c) = IF at <= c THEN c - at ELSE c - at + RingSize
  BY <1>6, <1>8, <1>9, <1>10 DEF Distance
<1> QED BY <1>11, <1>12 DEF at

(* The cell of the octet j places behind one pointer, seen from another.   *)
LEMMA DistanceOfCell ==
  ASSUME NEW p \in Int, NEW j \in Int, NEW r \in Int
  PROVE  Distance(r, (p + j) % RingSize) = (p + j - r) % RingSize
<1>1. RingSize \in Nat \ {0} /\ p + j \in Int /\ 0 - r \in Int
  BY RingAssumption
<1>2. (((p + j) % RingSize) + (0 - r)) % RingSize = (p + j + (0 - r)) % RingSize
  BY <1>1, ModOfMod
<1>3. (p + j) % RingSize \in Int
  BY <1>1, ModQuotient
<1> DEFINE x == (p + j) % RingSize
<1> HIDE DEF x
<1>4. x \in Int /\ (x + (0 - r)) % RingSize = (p + j + (0 - r)) % RingSize
  BY <1>2, <1>3 DEF x
<1>5. x + (0 - r) = x - r /\ p + j + (0 - r) = p + j - r
  BY <1>4
<1>6. (x - r) % RingSize = (p + j - r) % RingSize
  BY <1>4, <1>5
<1> QED BY <1>6 DEF x, Distance

(* The cell of the octet j places behind a pointer.                        *)
LEMMA CellIs ==
  ASSUME NEW p \in Int, NEW j \in 0 .. RingSize - 1
  PROVE  LET at == p % RingSize
         IN  /\ at \in Cells /\ (p + j) % RingSize \in Cells
             /\ (p + j) % RingSize =
                  IF at + j < RingSize THEN at + j ELSE at + j - RingSize
<1> DEFINE at == p % RingSize
<1>1. RingSize \in Nat \ {0} /\ j \in Int /\ 0 <= j /\ j < RingSize /\ p + j \in Int
  BY RingAssumption
<1>2. at \in Cells /\ (p + j) % RingSize \in Cells
  BY <1>1, CellOfPointer
<1>3. (p + j) % RingSize = (at + j) % RingSize
  BY <1>1, ModOfMod
<1> HIDE DEF at
<1>4. at \in Int /\ 0 <= at /\ at < RingSize
  BY <1>1, <1>2 DEF Cells
<1> DEFINE x == at + j
           y == at + j - RingSize
           one == 1
<1>5. /\ x \in Int /\ y \in Int /\ one \in Int /\ x = y + RingSize * one
      /\ x < RingSize => 0 <= x
      /\ ~(x < RingSize) => 0 <= y /\ y < RingSize
  BY <1>1, <1>4
<1> HIDE DEF x, y, one
<1>6. x < RingSize => x % RingSize = x
  BY <1>1, <1>5, ModIsSame
<1>7. x % RingSize = y % RingSize
  BY <1>1, <1>5, ModEqual
<1>8. ~(x < RingSize) => y % RingSize = y
  BY <1>1, <1>5, ModIsSame
<1>9. (p + j) % RingSize = IF x < RingSize THEN x ELSE y
  BY <1>3, <1>6, <1>7, <1>8 DEF x
<1>10. (p + j) % RingSize = IF at + j < RingSize THEN at + j ELSE at + j - RingSize
  BY <1>9 DEF x, y
<1> QED BY <1>2, <1>10 DEF at

LEMMA BoundedIs ==
  ASSUME NEW S, NEW n \in Nat, NEW s
  PROVE  s \in BoundedSeq(S, n) <=> s \in Seq(S) /\ Len(s) <= n
<1>1. ASSUME s \in BoundedSeq(S, n) PROVE s \in Seq(S) /\ Len(s) <= n
  <2>1. PICK m \in 0 .. n : s \in [1 .. m -> S]
    BY <1>1 DEF BoundedSeq, SeqOf
  <2> QED BY <2>1
<1>2. ASSUME s \in Seq(S), Len(s) <= n PROVE s \in BoundedSeq(S, n)
  <2>1. Len(s) \in 0 .. n /\ s \in [1 .. Len(s) -> S]
    BY <1>2
  <2> QED BY <2>1 DEF BoundedSeq, SeqOf
<1> QED BY <1>1, <1>2

LEMMA DataIs ==
  ASSUME NEW data \in Data
  PROVE  /\ data \in Seq(RingOctets) /\ Len(data) \in 0 .. RingSize
         /\ \A i \in 1 .. Len(data) : data[i] \in RingOctets
<1>1. RingSize \in Nat
  BY RingAssumption
<1>2. data \in Seq(RingOctets) /\ Len(data) <= RingSize
  BY <1>1, BoundedIs DEF Data
<1> QED BY <1>1, <1>2

(* In one piece or in two, wiz_send_data writes the octet j places behind  *)
(* the pointer into the cell at that distance, and no other cell.          *)
LEMMA WriteRingIs ==
  ASSUME NEW mem \in [Cells -> RingOctets], NEW p \in Int, NEW data \in Data
  PROVE  /\ WriteRing(mem, p, data) \in [Cells -> RingOctets]
         /\ \A c \in Cells :
              WriteRing(mem, p, data)[c] =
                IF Distance(p, c) < Len(data) THEN data[Distance(p, c) + 1]
                ELSE mem[c]
<1> DEFINE at == p % RingSize
           len == Len(data)
           size == RingSize - at
           W == WriteRing(mem, p, data)
<1>1. /\ RingSize \in Nat \ {0} /\ data \in Seq(RingOctets) /\ len \in Nat
      /\ len <= RingSize /\ \A i \in 1 .. len : data[i] \in RingOctets
  BY DataIs, RingAssumption
<1>2. at \in Int /\ 0 <= at /\ at < RingSize
  BY <1>1
<1>3. \A c \in Cells :
        /\ c \in Int /\ 0 <= c /\ c < RingSize
        /\ Distance(p, c) = IF at <= c THEN c - at ELSE c - at + RingSize
  <2>1. \A c \in Cells : c \in Int /\ 0 <= c /\ c < RingSize
    BY <1>1 DEF Cells
  <2>2. \A c \in Cells : Distance(p, c) = IF at <= c THEN c - at ELSE c - at + RingSize
    BY DistanceIs
  <2> QED BY <2>1, <2>2
<1>4. ASSUME NEW c \in Cells
      PROVE  /\ Distance(p, c) \in Nat
             /\ Distance(p, c) < len => data[Distance(p, c) + 1] \in RingOctets
             /\ mem[c] \in RingOctets
  <2>1. Distance(p, c) \in Nat
    BY <1>1, <1>2, <1>3
  <2>2. Distance(p, c) < len => Distance(p, c) + 1 \in 1 .. len
    BY <1>1, <2>1
  <2> QED BY <1>1, <2>1, <2>2
<1>5. CASE at + len <= RingSize
  <2>1. W = WriteBuf(mem, at, data)
    BY <1>1, <1>2, <1>5 DEF WriteRing
  <2> HIDE DEF W, at
  <2>2. W = [c \in Cells |-> IF c \in at .. at + len - 1 THEN data[c - at + 1]
                             ELSE mem[c]]
    BY <2>1 DEF WriteBuf
  <2>3. ASSUME NEW c \in Cells
        PROVE  W[c] = IF Distance(p, c) < len THEN data[Distance(p, c) + 1]
                      ELSE mem[c]
    <3>1. W[c] = IF c \in at .. at + len - 1 THEN data[c - at + 1] ELSE mem[c]
      BY <2>2
    <3> HIDE DEF len
    <3>2. CASE at <= c
      BY <1>1, <1>2, <1>3, <3>1, <3>2
    <3>3. CASE ~(at <= c)
      BY <1>1, <1>2, <1>3, <1>5, <3>1, <3>3
    <3> QED BY <3>2, <3>3
  <2>4. W \in [Cells -> RingOctets]
    <3>1. \A c \in Cells : W[c] \in RingOctets
      BY <1>4, <2>3
    <3> QED BY <2>2, <3>1
  <2> QED BY <2>3, <2>4 DEF W
<1>6. CASE at + len > RingSize
  <2> DEFINE one == SubSeq(data, 1, size)
             two == SubSeq(data, size + 1, len)
  <2>1. W = WriteBuf(WriteBuf(mem, at, one), 0, two)
    BY <1>1, <1>2, <1>6 DEF WriteRing
  <2>2. /\ size \in Nat /\ size > 0 /\ size < len /\ size + at = RingSize
        /\ len - size <= at
    BY <1>1, <1>2, <1>6
  <2> HIDE DEF W, at, len, size
  <2>3. /\ Len(one) = size
        /\ \A i \in 1 .. size : one[i] = data[i]
    BY <1>1, <2>2 DEF len
  <2>4. /\ Len(two) = len - size
        /\ \A i \in 1 .. len - size : two[i] = data[size + i]
    BY <1>1, <2>2, SubSeqProperties DEF len
  <2> HIDE DEF one, two
  <2>5. W = [c \in Cells |-> IF c \in 0 .. 0 + Len(two) - 1 THEN two[c - 0 + 1]
                             ELSE WriteBuf(mem, at, one)[c]]
    BY <2>1 DEF WriteBuf
  <2>6. \A c \in Cells : WriteBuf(mem, at, one)[c] =
          IF c \in at .. at + Len(one) - 1 THEN one[c - at + 1] ELSE mem[c]
    BY DEF WriteBuf
  <2>7. ASSUME NEW c \in Cells
        PROVE  W[c] = IF Distance(p, c) < len THEN data[Distance(p, c) + 1]
                      ELSE mem[c]
    <3>0. c \in Int /\ 0 <= c /\ c < RingSize
      BY <1>3
    <3>1. CASE at <= c
      <4>1. Distance(p, c) = c - at /\ c - at < len
        BY <1>1, <1>2, <1>3, <2>2, <3>0, <3>1
      <4>2. ~(c \in 0 .. 0 + Len(two) - 1)
        BY <1>1, <1>2, <2>2, <2>4, <3>0, <3>1
      <4>3. c \in at .. at + Len(one) - 1 /\ c - at + 1 \in 1 .. size
        BY <1>1, <1>2, <2>2, <2>3, <3>0, <3>1
      <4>4. W[c] = one[c - at + 1]
        BY <2>5, <2>6, <4>2, <4>3
      <4> QED BY <2>3, <4>1, <4>3, <4>4
    <3>2. CASE ~(at <= c)
      <4>1. Distance(p, c) = c + size
        BY <1>1, <1>2, <1>3, <2>2, <3>0, <3>2
      <4>2. CASE c + size < len
        <5>1. c \in 0 .. 0 + Len(two) - 1 /\ c + 1 \in 1 .. len - size
              /\ c - 0 + 1 = c + 1 /\ size + (c + 1) = c + size + 1
          BY <1>1, <2>2, <2>4, <3>0, <4>2
        <5>2. W[c] = two[c + 1]
          BY <2>5, <5>1
        <5>3. two[c + 1] = data[c + size + 1]
          BY <2>4, <5>1
        <5> QED BY <4>1, <4>2, <5>2, <5>3
      <4>3. CASE ~(c + size < len)
        <5>1. ~(c \in 0 .. 0 + Len(two) - 1) /\ ~(c \in at .. at + Len(one) - 1)
          BY <1>1, <1>2, <2>2, <2>3, <2>4, <3>0, <3>2, <4>3
        <5>2. W[c] = mem[c]
          BY <2>5, <2>6, <5>1
        <5> QED BY <4>1, <4>3, <5>2
      <4> QED BY <4>2, <4>3
    <3> QED BY <3>1, <3>2
  <2>8. W \in [Cells -> RingOctets]
    <3>1. \A c \in Cells : W[c] \in RingOctets
      BY <1>4, <2>7
    <3> QED BY <2>5, <3>1
  <2> QED BY <2>7, <2>8 DEF W, len
<1>7. at + len <= RingSize \/ at + len > RingSize
  BY <1>1, <1>2
<1> QED BY <1>5, <1>6, <1>7

(* What wiz_recv_data returns: the cells in order, from the pointer on.    *)
LEMMA ReadRingIs ==
  ASSUME NEW mem \in [Cells -> RingOctets], NEW p \in Int, NEW n \in 1 .. RingSize
  PROVE  /\ ReadRing(mem, p, n) \in Seq(RingOctets) /\ Len(ReadRing(mem, p, n)) = n
         /\ \A i \in 1 .. n : ReadRing(mem, p, n)[i] = mem[(p + i - 1) % RingSize]
<1> DEFINE at == p % RingSize
           size == RingSize - at
           T == ReadRing(mem, p, n)
<1>1. RingSize \in Nat \ {0} /\ n \in Nat /\ n >= 1 /\ n <= RingSize
  BY RingAssumption
<1>2. at \in Int /\ 0 <= at /\ at < RingSize
  BY <1>1
<1>3. ASSUME NEW i \in 1 .. n
      PROVE  /\ (p + i - 1) % RingSize =
                  IF at + i - 1 < RingSize THEN at + i - 1 ELSE at + i - 1 - RingSize
             /\ (p + i - 1) % RingSize \in Cells
  <2> DEFINE j == i - 1
  <2>1. j \in 0 .. RingSize - 1 /\ p + i - 1 = p + j /\ at + i - 1 = at + j
    BY <1>1, <1>2
  <2> HIDE DEF j
  <2>2. /\ (p + j) % RingSize \in Cells
        /\ (p + j) % RingSize = IF at + j < RingSize THEN at + j ELSE at + j - RingSize
    BY <2>1, CellIs
  <2> HIDE DEF at
  <2> QED BY <2>1, <2>2
<1>4. ASSUME NEW from \in Nat, NEW k \in Nat, from + k <= RingSize
      PROVE  /\ ReadBuf(mem, from, k) \in Seq(RingOctets)
             /\ Len(ReadBuf(mem, from, k)) = k
             /\ \A i \in 1 .. k : ReadBuf(mem, from, k)[i] = mem[from + i - 1]
  <2>1. \A i \in 1 .. k : from + i - 1 \in Cells
    BY <1>1, <1>4 DEF Cells
  <2>2. ReadBuf(mem, from, k) \in [1 .. k -> RingOctets]
    BY <2>1 DEF ReadBuf
  <2> QED BY <2>2 DEF ReadBuf
<1>5. CASE at + n <= RingSize
  <2>1. T = ReadBuf(mem, at, n)
    BY <1>1, <1>2, <1>5 DEF ReadRing
  <2>2. at \in Nat
    BY <1>2
  <2> HIDE DEF at, T
  <2>3. /\ T \in Seq(RingOctets) /\ Len(T) = n
        /\ \A i \in 1 .. n : T[i] = mem[at + i - 1]
    BY <1>1, <1>4, <1>5, <2>1, <2>2
  <2>4. \A i \in 1 .. n : at + i - 1 < RingSize
    BY <1>1, <1>2, <1>5
  <2> QED BY <1>3, <2>3, <2>4 DEF T
<1>6. CASE at + n > RingSize
  <2> DEFINE s == ReadBuf(mem, at, size)
             t == ReadBuf(mem, 0, n - size)
  <2>1. T = s \o t
    BY <1>1, <1>2, <1>6 DEF ReadRing
  <2>2. /\ size \in Nat /\ size > 0 /\ at + size <= RingSize /\ at \in Nat
        /\ n - size \in Nat /\ 0 + (n - size) <= RingSize /\ size = RingSize - at
    BY <1>1, <1>2, <1>6
  <2> HIDE DEF at, size, T
  <2>3. /\ s \in Seq(RingOctets) /\ Len(s) = size
        /\ \A i \in 1 .. size : s[i] = mem[at + i - 1]
    BY <1>4, <2>2
  <2>4. /\ t \in Seq(RingOctets) /\ Len(t) = n - size
        /\ \A i \in 1 .. n - size : t[i] = mem[0 + i - 1]
    BY <1>4, <2>2
  <2> HIDE DEF s, t
  <2>5. /\ T \in Seq(RingOctets) /\ Len(T) = size + (n - size)
        /\ \A i \in 1 .. size + (n - size) :
             T[i] = IF i <= size THEN s[i] ELSE t[i - size]
    <3> DEFINE k == n - size
    <3>1. /\ size \in Nat /\ k \in Nat /\ T = s \o t
          /\ s \in Seq(RingOctets) /\ Len(s) = size
          /\ t \in Seq(RingOctets) /\ Len(t) = k
      BY <2>1, <2>2, <2>3, <2>4
    <3> HIDE DEF k
    <3>2. /\ T \in Seq(RingOctets) /\ Len(T) = size + k
          /\ \A i \in 1 .. size + k : T[i] = IF i <= size THEN s[i] ELSE t[i - size]
      BY <3>1, ConcatProperties
    <3> QED BY <3>2 DEF k
  <2>6. Len(T) = n /\ size + (n - size) = n
    BY <1>1, <2>2, <2>5
  <2>7. ASSUME NEW i \in 1 .. n PROVE T[i] = mem[(p + i - 1) % RingSize]
    <3>1. CASE i <= size
      <4>1. i \in 1 .. size /\ at + i - 1 < RingSize
        BY <1>1, <1>2, <2>2, <3>1
      <4> QED BY <1>3, <2>3, <2>5, <2>6, <3>1, <4>1
    <3>2. CASE ~(i <= size)
      <4>1. /\ i - size \in 1 .. n - size /\ ~(at + i - 1 < RingSize)
            /\ 0 + (i - size) - 1 = at + i - 1 - RingSize
        BY <1>1, <1>2, <2>2, <3>2
      <4>2. t[i - size] = mem[0 + (i - size) - 1]
        BY <2>4, <4>1
      <4>3. (p + i - 1) % RingSize = at + i - 1 - RingSize
        BY <1>3, <4>1
      <4>4. T[i] = t[i - size]
        BY <2>5, <2>6, <3>2
      <4> QED BY <4>1, <4>2, <4>3, <4>4
    <3> QED BY <3>1, <3>2
  <2> QED BY <2>5, <2>6, <2>7 DEF T
<1>7. at + n <= RingSize \/ at + n > RingSize
  BY <1>1, <1>2
<1> QED BY <1>5, <1>6, <1>7

-----------------------------------------------------------------------------
(* Pointers that overflow: how much lies between them.                     *)
Pointers == 0 .. PointerModulus - 1

LEMMA PointersAre ==
  /\ RingSize \in Nat \ {0} /\ PointerModulus \in Nat \ {0}
  /\ RingSize < PointerModulus /\ Pointers \subseteq Nat
BY RingAssumption DEF Pointers

LEMMA UsedIs ==
  ASSUME NEW w \in Pointers, NEW d \in Pointers
  PROVE  LET used == (w - d) % PointerModulus
         IN  /\ used \in Pointers /\ used \in Nat
             /\ (d + used) % RingSize = w % RingSize
<1> DEFINE used == (w - d) % PointerModulus
           gap == w - d
<1>1. /\ w \in Int /\ d \in Int /\ gap \in Int /\ PointerModulus \in Nat \ {0}
      /\ gap + d = w /\ 0 <= w /\ w < PointerModulus
  BY PointersAre DEF Pointers
<1> HIDE DEF gap
<1>2. ((gap % PointerModulus) + d) % PointerModulus = (gap + d) % PointerModulus
  BY <1>1, ModOfMod
<1>3. used = gap % PointerModulus
  BY DEF gap
<1>4. used \in Pointers /\ used \in Nat
  BY <1>1, <1>3, ModQuotient, PointersAre DEF Pointers
<1> HIDE DEF used
<1>5. (used + d) % PointerModulus = w
  BY <1>1, <1>2, <1>3, ModIsSame
<1>6. used + d = d + used /\ d + used \in Int
  BY <1>1, <1>4
<1>7. ((d + used) % PointerModulus) % RingSize = (d + used) % RingSize
  BY <1>6, CellOfPointer
<1>8. (d + used) % RingSize = w % RingSize
  BY <1>5, <1>6, <1>7
<1> QED BY <1>4, <1>8 DEF used

LEMMA WriterMoves ==
  ASSUME NEW w \in Pointers, NEW d \in Pointers, NEW n \in Nat,
         ((w - d) % PointerModulus) + n < PointerModulus
  PROVE  (Plus(w, n) - d) % PointerModulus = ((w - d) % PointerModulus) + n
<1> DEFINE used == (w - d) % PointerModulus
           gap == w - d
           ahead == w + n
           back == 0 - d
           all == w - d + n
           end == Plus(w, n)
<1>1. /\ w \in Int /\ d \in Int /\ gap \in Int /\ ahead \in Int /\ back \in Int
      /\ all \in Int /\ all = gap + n /\ all = ahead + back
      /\ PointerModulus \in Nat \ {0}
  BY PointersAre DEF Pointers
<1>2. used = gap % PointerModulus /\ end = ahead % PointerModulus
  BY DEF Plus
<1>3. end \in Int
  BY <1>1, <1>2, ModQuotient
<1>4. used \in Int /\ 0 <= used
  BY <1>1, <1>2, ModQuotient
<1>5. used + n \in Int /\ 0 <= used + n /\ used + n < PointerModulus
  BY <1>4
<1>6. end - d = end + back
  BY <1>1, <1>3
<1> HIDE DEF used, gap, ahead, back, all, end
<1>7. (end + back) % PointerModulus = (ahead + back) % PointerModulus
  BY <1>1, <1>2, ModOfMod
<1>8. (used + n) % PointerModulus = (gap + n) % PointerModulus
  <2>1. n \in Int
    OBVIOUS
  <2>2. ((gap % PointerModulus) + n) % PointerModulus = (gap + n) % PointerModulus
    BY <1>1, <2>1, ModOfMod
  <2> QED BY <1>2, <2>2
<1>9. (used + n) % PointerModulus = used + n
  BY <1>1, <1>5, ModIsSame
<1>10. (end - d) % PointerModulus = used + n
  BY <1>1, <1>6, <1>7, <1>8, <1>9
<1> QED BY <1>10 DEF used, end

LEMMA ReaderMoves ==
  ASSUME NEW w \in Pointers, NEW d \in Pointers, NEW n \in Nat,
         n <= (w - d) % PointerModulus
  PROVE  (w - Plus(d, n)) % PointerModulus = ((w - d) % PointerModulus) - n
<1> DEFINE used == (w - d) % PointerModulus
           gap == w - d
           less == 0 - n
           ahead == d + n
           begin == Plus(d, n)
           x == w - begin
           y == gap + less
<1>1. /\ w \in Int /\ d \in Int /\ gap \in Int /\ less \in Int /\ ahead \in Int
      /\ y \in Int /\ y = w - ahead
      /\ PointerModulus \in Nat \ {0}
  BY PointersAre DEF Pointers
<1>2. used = gap % PointerModulus /\ begin = ahead % PointerModulus
  BY DEF Plus
<1>3. begin \in Int /\ x \in Int
  BY <1>1, <1>2, ModQuotient
<1>4. used \in Int /\ used < PointerModulus
  BY <1>1, <1>2, ModQuotient
<1>5. /\ used + less \in Int /\ 0 <= used + less /\ used + less < PointerModulus
      /\ used + less = used - n
  <2>1. n <= used
    OBVIOUS
  <2>2. less = 0 - n
    OBVIOUS
  <2> HIDE DEF used, less
  <2> QED BY <1>1, <1>4, <2>1, <2>2
<1>x. x = w - begin
  OBVIOUS
<1> HIDE DEF used, gap, ahead, less, begin, x
<1>6. PICK q \in Int : ahead = PointerModulus * q + (ahead % PointerModulus)
  BY <1>1, ModQuotient
<1>7. x = y + PointerModulus * q
  BY <1>1, <1>2, <1>3, <1>6, <1>x
<1> HIDE DEF y
<1>8. x % PointerModulus = y % PointerModulus
  <2> DEFINE m == PointerModulus
  <2>1. /\ x \in Int /\ y \in Int /\ m \in Nat \ {0}
        /\ \E p \in Int : x = y + m * p
    BY <1>1, <1>3, <1>7
  <2> HIDE DEF m
  <2>2. x % m = y % m
    BY <2>1, ModEqual
  <2> QED BY <2>2 DEF m
<1>9. (used + less) % PointerModulus = (gap + less) % PointerModulus
  BY <1>1, <1>2, ModOfMod
<1>10. (used + less) % PointerModulus = used + less
  BY <1>1, <1>5, ModIsSame
<1>11. x % PointerModulus = used - n
  BY <1>5, <1>8, <1>9, <1>10 DEF y
<1> QED BY <1>11 DEF used, begin, x

(* The cells of a pointer that has moved on.                               *)
LEMMA CellAhead ==
  ASSUME NEW p \in Pointers, NEW n \in Nat, NEW j \in Int
  PROVE  /\ Plus(p, n) \in Pointers
         /\ (Plus(p, n) + j) % RingSize = (p + n + j) % RingSize
<1> DEFINE end == Plus(p, n)
           sum == p + n
<1>1. sum \in Int /\ RingSize \in Nat \ {0} /\ PointerModulus \in Nat \ {0}
  BY PointersAre DEF Pointers
<1>2. end = sum % PointerModulus
  BY DEF Plus
<1> HIDE DEF end, sum
<1>3. end \in Int /\ end \in Pointers
  BY <1>1, <1>2, ModQuotient DEF Pointers
<1>4. end % RingSize = sum % RingSize
  BY <1>1, <1>2, CellOfPointer
<1>5. (end + j) % RingSize = (sum + j) % RingSize
  BY <1>1, <1>3, <1>4, ModOfSum
<1> QED BY <1>3, <1>5 DEF end, sum

(* Octets still to be read are at least what is free away from the write   *)
(* pointer, and octets written are where they were put.                    *)
LEMMA QueueIsFar ==
  ASSUME NEW w \in Int, NEW d \in Int, NEW u \in 0 .. RingSize,
         (d + u) % RingSize = w % RingSize, NEW i \in 1 .. u
  PROVE  Distance(w, (d + i - 1) % RingSize) = RingSize - u + i - 1
<1> DEFINE a == d + u
           j == i - 1
           e == i - 1 - u - w
           near == i - 1 - u
           far == RingSize - u + i - 1
           one == 1
           x == d + j - w
<1>1. /\ RingSize \in Nat \ {0} /\ a \in Int /\ j \in Int /\ e \in Int
      /\ near \in Int /\ far \in Int /\ one \in Int /\ x \in Int
      /\ d + i - 1 = d + j /\ a + e = x /\ w + e = near
      /\ far = near + RingSize * one /\ 0 <= far /\ far < RingSize
  BY PointersAre
<1>x. x = d + j - w
  OBVIOUS
<1>a. a = d + u
  OBVIOUS
<1> HIDE DEF a, j, e, near, far, one, x
<1>2. Distance(w, (d + j) % RingSize) = x % RingSize
  BY <1>1, <1>x, DistanceOfCell
<1>3. (a + e) % RingSize = (w + e) % RingSize
  <2> DEFINE m == RingSize
  <2>1. /\ a \in Int /\ e \in Int /\ m \in Nat \ {0} /\ a % m = w % m
    BY <1>1, <1>a
  <2> HIDE DEF m
  <2>2. (a + e) % m = (w + e) % m
    BY <2>1, ModOfSum
  <2> QED BY <2>2 DEF m
<1>4. far % RingSize = near % RingSize
  BY <1>1, ModEqual
<1>5. far % RingSize = far
  BY <1>1, ModIsSame
<1>6. Distance(w, (d + i - 1) % RingSize) = far
  BY <1>1, <1>2, <1>3, <1>4, <1>5
<1> QED BY <1>6 DEF far

LEMMA FilledIsNear ==
  ASSUME NEW w \in Int, NEW j \in 0 .. RingSize - 1
  PROVE  Distance(w, (w + j) % RingSize) = j
<1> DEFINE x == w + j - w
<1>1. RingSize \in Nat \ {0} /\ j \in Int /\ 0 <= j /\ j < RingSize /\ x = j
  BY PointersAre
<1>x. x = w + j - w
  OBVIOUS
<1> HIDE DEF x
<1>2. Distance(w, (w + j) % RingSize) = x % RingSize
  BY <1>1, <1>x, DistanceOfCell
<1>3. x % RingSize = j
  BY <1>1, ModIsSame
<1> QED BY <1>2, <1>3

-----------------------------------------------------------------------------
(* What is used and what is being written fit in the ring, and what is     *)
(* being written is in its place behind the write pointer.                 *)
CellsFrom(mem, from, n) == [i \in 1 .. n |-> mem[(from + i - 1) % RingSize]]
RingQueue == CellsFrom(ringMem, ringRd, Used)

Fits == Used + Len(ringFilled) <= RingSize

InPlace ==
  \A i \in 1 .. Len(ringFilled) :
    ringMem[(ringWr + i - 1) % RingSize] = ringFilled[i]

RingInv == RingTypeOK /\ Fits /\ InPlace

LEMMA RingInvGives ==
  ASSUME RingInv
  PROVE  /\ ringWr \in Pointers /\ ringRd \in Pointers
         /\ ringWr \in Int /\ ringRd \in Int
         /\ ringMem \in [Cells -> RingOctets]
         /\ ringFilled \in Seq(RingOctets) /\ Len(ringFilled) \in Nat
         /\ Used \in Nat /\ Used + Len(ringFilled) <= RingSize
         /\ Used \in 0 .. RingSize
         /\ (ringRd + Used) % RingSize = ringWr % RingSize
<1>1. /\ ringWr \in Pointers /\ ringRd \in Pointers
      /\ ringMem \in [Cells -> RingOctets] /\ ringFilled \in Data
      /\ Used + Len(ringFilled) <= RingSize
  BY DEF RingInv, RingTypeOK, Fits, Pointers
<1>2. ringWr \in Int /\ ringRd \in Int
  BY <1>1, PointersAre
<1>3. ringFilled \in Seq(RingOctets) /\ Len(ringFilled) \in Nat
  BY <1>1, DataIs
<1>4. Used \in Nat /\ (ringRd + Used) % RingSize = ringWr % RingSize
  BY <1>1, UsedIs DEF Used
<1>5. Used \in 0 .. RingSize
  <2> DEFINE u == Used
             l == Len(ringFilled)
  <2>1. u \in Nat /\ l \in Nat /\ u + l <= RingSize /\ RingSize \in Nat
    BY <1>1, <1>3, <1>4, PointersAre
  <2> HIDE DEF u, l
  <2>2. u \in 0 .. RingSize
    BY <2>1
  <2> QED BY <2>2 DEF u
<1> QED BY <1>1, <1>2, <1>3, <1>4, <1>5

LEMMA CellsInOrder ==
  ASSUME NEW mem \in [Cells -> RingOctets], NEW d \in Int, NEW u \in Nat
  PROVE  LET q == CellsFrom(mem, d, u)
         IN  /\ q \in Seq(RingOctets) /\ Len(q) = u
             /\ \A i \in 1 .. u : /\ (d + i - 1) % RingSize \in Cells
                                  /\ q[i] = mem[(d + i - 1) % RingSize]
<1> DEFINE q == CellsFrom(mem, d, u)
<1>1. \A i \in 1 .. u : (d + i - 1) % RingSize \in Cells
  <2> SUFFICES ASSUME NEW i \in 1 .. u
               PROVE  (d + i - 1) % RingSize \in Cells
    OBVIOUS
  <2> DEFINE p == d + i - 1
  <2>1. p \in Int
    OBVIOUS
  <2> HIDE DEF p
  <2>2. p % RingSize \in Cells
    BY <2>1, CellOfPointer
  <2> QED BY <2>2 DEF p
<1>2. \A i \in 1 .. u : mem[(d + i - 1) % RingSize] \in RingOctets
  BY <1>1
<1>q. q = [i \in 1 .. u |-> mem[(d + i - 1) % RingSize]]
  BY DEF CellsFrom
<1> HIDE DEF q
<1>3. q \in [1 .. u -> RingOctets]
  BY <1>2, <1>q
<1>4. /\ q \in Seq(RingOctets) /\ Len(q) = u
      /\ \A i \in 1 .. u : q[i] = mem[(d + i - 1) % RingSize]
  BY <1>3, <1>q
<1> QED BY <1>1, <1>4 DEF q

LEMMA RingQueueIs ==
  ASSUME RingInv
  PROVE  /\ RingQueue \in Seq(RingOctets) /\ Len(RingQueue) = Used
         /\ \A i \in 1 .. Used : /\ (ringRd + i - 1) % RingSize \in Cells
                                 /\ RingQueue[i] = ringMem[(ringRd + i - 1) % RingSize]
<1> DEFINE u == Used
<1>1. /\ ringMem \in [Cells -> RingOctets] /\ u \in Nat /\ ringRd \in Int
      /\ RingQueue = CellsFrom(ringMem, ringRd, u)
  BY RingInvGives DEF RingQueue
<1> HIDE DEF u
<1>2. /\ RingQueue \in Seq(RingOctets) /\ Len(RingQueue) = u
      /\ \A i \in 1 .. u : /\ (ringRd + i - 1) % RingSize \in Cells
                           /\ RingQueue[i] = ringMem[(ringRd + i - 1) % RingSize]
  BY <1>1, CellsInOrder
<1> QED BY <1>2 DEF u

LEMMA NothingIsData == <<>> \in Data /\ Len(<<>>) = 0
<1>1. 0 \in 0 .. RingSize
  BY PointersAre
<1>2. <<>> \in [1 .. 0 -> RingOctets]
  OBVIOUS
<1> QED BY <1>1, <1>2 DEF Data, BoundedSeq, SeqOf

LEMMA RingInvInit == RingInit => RingInv /\ Queue!Init
<1> SUFFICES ASSUME RingInit PROVE RingInv /\ Queue!Init
  OBVIOUS
<1>0. /\ RingSize \in Nat \ {0} /\ PointerModulus \in Nat \ {0} /\ RingSize \in Nat
      /\ <<>> \in Seq(RingOctets) /\ Len(<<>>) = 0
  BY PointersAre
<1>1. <<>> \in Data
  BY NothingIsData
<1>2. RingTypeOK
  BY <1>1 DEF RingInit, RingTypeOK
<1>3. Used = 0
  <2>1. ringWr \in Int /\ ringRd = ringWr
    BY DEF RingInit
  <2> QED BY <1>0, <2>1, ModIsSame DEF Used
<1>4. Fits /\ InPlace
  BY <1>0, <1>3 DEF RingInit, Fits, InPlace
<1>5. RingQueue = <<>>
  BY <1>3 DEF RingQueue, CellsFrom
<1> QED BY <1>2, <1>4, <1>5 DEF RingInv, Queue!Init, RingInit, RingQueue, CellsFrom

(* wiz_send_data: the octets go where nothing is to be read.               *)
LEMMA SendOctetsKeeps ==
  ASSUME RingInv, SendOctets
  PROVE  RingInv' /\ Queue!Offer
<1>1. PICK data \in Data :
        /\ Len(data) \in 1 .. Free /\ ringMem' = WriteRing(ringMem, ringWr, data)
        /\ ringFilled = <<>> /\ ringFilled' = data
        /\ UNCHANGED <<ringWr, ringRd, ringTaken>>
  BY DEF SendOctets
<1> DEFINE u == Used
           len == Len(data)
<1>2. /\ ringWr \in Int /\ ringRd \in Int /\ u \in 0 .. RingSize
      /\ ringMem \in [Cells -> RingOctets]
      /\ (ringRd + u) % RingSize = ringWr % RingSize
      /\ RingSize \in Nat \ {0} /\ Used' = u
  BY <1>1, RingInvGives, PointersAre DEF Used
<1>3. data \in Seq(RingOctets) /\ len \in Nat
  BY DataIs
<1>4. len >= 1 /\ u + len <= RingSize
  <2>1. len \in 1 .. RingSize - u
    BY <1>1 DEF Free
  <2> HIDE DEF u, len
  <2> QED BY <1>2, <1>3, <2>1
<1>5. /\ ringMem' \in [Cells -> RingOctets]
      /\ \A c \in Cells :
           ringMem'[c] = IF Distance(ringWr, c) < len THEN data[Distance(ringWr, c) + 1]
                         ELSE ringMem[c]
  BY <1>1, <1>2, WriteRingIs
<1>6. RingTypeOK'
  BY <1>1, <1>5 DEF RingInv, RingTypeOK
<1>7. Fits'
  BY <1>1, <1>2, <1>4 DEF Fits
<1>8. InPlace'
  <2> SUFFICES ASSUME NEW i \in 1 .. len
               PROVE  ringMem'[(ringWr + i - 1) % RingSize] = data[i]
    BY <1>1 DEF InPlace
  <2> DEFINE j == i - 1
             c == (ringWr + j) % RingSize
  <2>1. /\ j \in 0 .. RingSize - 1 /\ j \in Int /\ j < len /\ j + 1 = i
        /\ ringWr + i - 1 = ringWr + j /\ ringWr + j \in Int
    <3> HIDE DEF u, len
    <3> QED BY <1>2, <1>3, <1>4
  <2> HIDE DEF j, len
  <2>2. c \in Cells /\ Distance(ringWr, c) = j
    BY <1>2, <2>1, FilledIsNear, CellOfPointer
  <2> HIDE DEF c
  <2>3. ringMem'[c] = data[i]
    BY <1>5, <2>1, <2>2
  <2> QED BY <2>1, <2>3 DEF c
<1>9. RingQueue' = RingQueue
  <2>1. ASSUME NEW i \in 1 .. u
        PROVE  ringMem'[(ringRd + i - 1) % RingSize] = ringMem[(ringRd + i - 1) % RingSize]
    <3> DEFINE c == (ringRd + i - 1) % RingSize
    <3>1. c \in Cells
      BY RingQueueIs
    <3>2. Distance(ringWr, c) = RingSize - u + i - 1
      <4> HIDE DEF u
      <4> QED BY <1>2, QueueIsFar
    <3> HIDE DEF c, u, len
    <3>3. ~(Distance(ringWr, c) < len)
      BY <1>2, <1>3, <1>4, <3>2
    <3> QED BY <1>5, <3>1, <3>3 DEF c
  <2> QED BY <1>1, <1>2, <2>1 DEF RingQueue, CellsFrom
<1>10. data # <<>> /\ data \in BoundedSeq(RingOctets, RingSize - Len(RingQueue))
  <2>1. Len(RingQueue) = u
    BY RingQueueIs
  <2> HIDE DEF u
  <2>2. RingSize - u \in Nat /\ Len(data) <= RingSize - u /\ Len(data) >= 1
    BY <1>2, <1>3, <1>4
  <2>3. data \in BoundedSeq(RingOctets, RingSize - u)
    BY <1>3, <2>2, BoundedIs
  <2> QED BY <2>1, <2>2, <2>3
<1>11. Queue!Offer
  BY <1>1, <1>9, <1>10
     DEF Queue!Offer, RingQueue, CellsFrom, Queue!BoundedSeq, Queue!SeqOf, BoundedSeq, SeqOf
<1> QED BY <1>6, <1>7, <1>8, <1>11 DEF RingInv

(* wiz_send_data's last line: what was written joins what is to be read.   *)
LEMMA SendPointerKeeps ==
  ASSUME RingInv, SendPointer
  PROVE  RingInv' /\ Queue!Put
<1> DEFINE u == Used
           len == Len(ringFilled)
<1>1. /\ ringFilled # <<>> /\ ringFilled' = <<>>
      /\ ringWr' = Plus(ringWr, len)
      /\ UNCHANGED <<ringMem, ringRd, ringTaken>>
  BY DEF SendPointer
<1>2. /\ ringWr \in Pointers /\ ringRd \in Pointers /\ ringWr \in Int /\ ringRd \in Int
      /\ u \in 0 .. RingSize /\ len \in Nat /\ u + len <= RingSize
      /\ (ringRd + u) % RingSize = ringWr % RingSize
      /\ ringFilled \in Seq(RingOctets)
      /\ RingSize \in Nat \ {0} /\ PointerModulus \in Nat /\ RingSize < PointerModulus
  BY RingInvGives, PointersAre
<1>3. Used' = u + len
  <2>1. u = (ringWr - ringRd) % PointerModulus
    BY DEF Used
  <2>2. Used' = (Plus(ringWr, len) - ringRd) % PointerModulus
    BY <1>1 DEF Used
  <2> HIDE DEF u, len
  <2>3. u + len < PointerModulus
    BY <1>2
  <2> QED BY <1>2, <2>1, <2>2, <2>3, WriterMoves
<1>4. ringWr' \in Pointers
  BY <1>1, <1>2, CellAhead
<1>5. <<>> \in Data /\ Len(<<>>) = 0
  BY NothingIsData
<1>6. RingInv'
  <2>1. RingTypeOK'
    BY <1>1, <1>4, <1>5 DEF RingInv, RingTypeOK, Pointers
  <2>2. Fits'
    <3>1. Used' + 0 <= RingSize
      <4> HIDE DEF u, len
      <4> QED BY <1>2, <1>3
    <3> QED BY <1>1, <1>5, <3>1 DEF Fits
  <2>3. InPlace'
    BY <1>1, <1>5 DEF InPlace
  <2> QED BY <2>1, <2>2, <2>3 DEF RingInv
<1>7. RingQueue' = RingQueue \o ringFilled
  <2> DEFINE s == RingQueue \o ringFilled
  <2>1. /\ RingQueue \in Seq(RingOctets) /\ Len(RingQueue) = u
        /\ \A i \in 1 .. u : RingQueue[i] = ringMem[(ringRd + i - 1) % RingSize]
    BY RingQueueIs
  <2>2. /\ s \in Seq(RingOctets) /\ Len(s) = u + len
        /\ \A i \in 1 .. u + len :
             s[i] = IF i <= u THEN RingQueue[i] ELSE ringFilled[i - u]
    BY <1>2, <2>1, ConcatProperties
  <2>3. RingQueue' = CellsFrom(ringMem, ringRd, u + len)
    BY <1>1, <1>3 DEF RingQueue
  <2>4. u + len \in Nat /\ ringMem \in [Cells -> RingOctets]
    <3>1. u \in Nat
      BY RingInvGives
    <3> HIDE DEF u, len
    <3> QED BY <1>2, <3>1, RingInvGives
  <2>5. /\ RingQueue' \in Seq(RingOctets) /\ Len(RingQueue') = u + len
        /\ \A i \in 1 .. u + len : RingQueue'[i] = ringMem[(ringRd + i - 1) % RingSize]
    <3> DEFINE m == u + len
    <3> HIDE DEF m
    <3>1. /\ RingQueue' \in Seq(RingOctets) /\ Len(RingQueue') = m
          /\ \A i \in 1 .. m : RingQueue'[i] = ringMem[(ringRd + i - 1) % RingSize]
      BY <1>2, <2>3, <2>4, CellsInOrder DEF m
    <3> QED BY <3>1 DEF m
  <2>6. ASSUME NEW i \in 1 .. u + len
        PROVE  ringMem[(ringRd + i - 1) % RingSize] = s[i]
    <3>1. CASE i <= u
      <4>1. i \in 1 .. u
        BY <1>2, <3>1
      <4> QED BY <2>1, <2>2, <3>1, <4>1
    <3>2. CASE ~(i <= u)
      <4> DEFINE k == i - u
                 a == ringRd + u
                 e == k - 1
                 r == RingSize
      <4>1. /\ k \in 1 .. len /\ a \in Int /\ e \in Int /\ r \in Nat \ {0}
            /\ a % r = ringWr % r
            /\ ringRd + i - 1 = a + e /\ ringWr + k - 1 = ringWr + e
        <5> HIDE DEF u, len
        <5> QED BY <1>2, <3>2
      <4>2. s[i] = ringFilled[k]
        BY <2>2, <3>2
      <4> HIDE DEF k, a, e, r
      <4>3. (a + e) % r = (ringWr + e) % r
        BY <1>2, <4>1, ModOfSum
      <4>4. ringMem[(ringWr + k - 1) % RingSize] = ringFilled[k]
        BY <4>1 DEF RingInv, InPlace
      <4>5. (ringRd + i - 1) % RingSize = (ringWr + k - 1) % RingSize
        BY <4>1, <4>3 DEF r
      <4> QED BY <4>2, <4>4, <4>5
    <3> QED BY <3>1, <3>2
  <2> HIDE DEF s, u, len
  <2>7. \A i \in 1 .. Len(RingQueue') : RingQueue'[i] = s[i]
    BY <2>5, <2>6
  <2>8. RingQueue' = s
    BY <2>2, <2>5, <2>7, SeqEqual
  <2> QED BY <2>8 DEF s
<1> QED BY <1>1, <1>6, <1>7 DEF Queue!Put, RingQueue, CellsFrom

(* wiz_recv_data: the oldest octets, in order, and the rest is left.       *)
LEMMA RecvOctetsKeeps ==
  ASSUME RingInv, RecvOctets
  PROVE  RingInv' /\ Queue!Take
<1>1. PICK n \in 1 .. Used :
        /\ ringTaken' = ReadRing(ringMem, ringRd, n) /\ ringRd' = Plus(ringRd, n)
        /\ UNCHANGED <<ringMem, ringWr, ringFilled>>
  BY DEF RecvOctets
<1> DEFINE u == Used
           q == RingQueue
<1>2. /\ ringWr \in Pointers /\ ringRd \in Pointers /\ ringRd \in Int
      /\ ringMem \in [Cells -> RingOctets]
      /\ u \in 0 .. RingSize /\ u + Len(ringFilled) <= RingSize
      /\ Len(ringFilled) \in Nat
      /\ RingSize \in Nat \ {0} /\ PointerModulus \in Nat /\ RingSize < PointerModulus
      /\ n \in Nat /\ n >= 1 /\ n <= u
  <2>1. n \in 1 .. u /\ u \in Nat
    BY RingInvGives
  <2>2. n \in Nat /\ n >= 1 /\ n <= u
    <3> HIDE DEF u
    <3> QED BY <2>1
  <2> QED BY <2>2, RingInvGives, PointersAre
<1>3. Used' = u - n
  <2>1. u = (ringWr - ringRd) % PointerModulus
    BY DEF Used
  <2>2. Used' = (ringWr - Plus(ringRd, n)) % PointerModulus
    BY <1>1 DEF Used
  <2> HIDE DEF u
  <2> QED BY <1>2, <2>1, <2>2, ReaderMoves
<1>4. ringRd' \in Pointers
  BY <1>1, <1>2, CellAhead
<1>5. /\ ringTaken' \in Seq(RingOctets) /\ Len(ringTaken') = n
      /\ \A i \in 1 .. n : ringTaken'[i] = ringMem[(ringRd + i - 1) % RingSize]
  <2>1. n \in 1 .. RingSize
    <3> HIDE DEF u
    <3> QED BY <1>2
  <2> QED BY <1>1, <1>2, <2>1, ReadRingIs
<1>6. RingInv'
  <2>1. ringTaken' \in Data
    <3>1. n <= RingSize /\ RingSize \in Nat
      <4> HIDE DEF u
      <4> QED BY <1>2
    <3> QED BY <1>5, <3>1, BoundedIs DEF Data
  <2>2. RingTypeOK'
    BY <1>1, <1>4, <2>1 DEF RingInv, RingTypeOK, Pointers
  <2>3. Fits'
    <3>1. (u - n) + Len(ringFilled) <= RingSize
      <4> HIDE DEF u
      <4> QED BY <1>2
    <3> QED BY <1>1, <1>3, <3>1 DEF Fits
  <2>4. InPlace'
    BY <1>1 DEF RingInv, InPlace
  <2> QED BY <2>2, <2>3, <2>4 DEF RingInv
<1>7. /\ q \in Seq(RingOctets) /\ Len(q) = u
      /\ \A i \in 1 .. u : q[i] = ringMem[(ringRd + i - 1) % RingSize]
  BY RingQueueIs
<1> HIDE DEF q
<1>8. ringTaken' = SubSeq(q, 1, n)
  <2> DEFINE s == SubSeq(q, 1, n)
  <2>1. /\ s \in Seq(RingOctets) /\ Len(s) = n
        /\ \A i \in 1 .. n : s[i] = q[i]
    <3> HIDE DEF u
    <3> QED BY <1>2, <1>7
  <2>2. \A i \in 1 .. n : i \in 1 .. u
    <3> HIDE DEF u
    <3> QED BY <1>2
  <2> HIDE DEF s, u
  <2>3. \A i \in 1 .. Len(ringTaken') : ringTaken'[i] = s[i]
    BY <1>5, <1>7, <2>1, <2>2
  <2>4. ringTaken' = s
    BY <1>5, <2>1, <2>3, SeqEqual
  <2> QED BY <2>4 DEF s
<1>9. RingQueue' = SubSeq(q, n + 1, Len(q))
  <2> DEFINE s == SubSeq(q, n + 1, Len(q))
             m == u - n
  <2>1. m \in Nat /\ n + m = u
    <3> HIDE DEF u
    <3> QED BY <1>2
  <2>2. /\ s \in Seq(RingOctets) /\ Len(s) = m
        /\ \A i \in 1 .. m : s[i] = q[n + i]
    <3> HIDE DEF u
    <3>1. u \in Nat /\ n + 1 \in 1 .. u + 1
      BY <1>2
    <3> QED BY <1>2, <1>7, <3>1, SubSeqProperties
  <2>3. RingQueue' = CellsFrom(ringMem, Plus(ringRd, n), m)
    BY <1>1, <1>3 DEF RingQueue
  <2>4. /\ RingQueue' \in Seq(RingOctets) /\ Len(RingQueue') = m
        /\ \A i \in 1 .. m : RingQueue'[i] = ringMem[(Plus(ringRd, n) + i - 1) % RingSize]
    <3> DEFINE p == Plus(ringRd, n)
    <3>1. p \in Pointers
      BY <1>2, CellAhead
    <3> HIDE DEF p, m
    <3>2. p \in Int
      BY <3>1, PointersAre
    <3>3. RingQueue' = CellsFrom(ringMem, p, m)
      BY <2>3 DEF p
    <3>4. /\ RingQueue' \in Seq(RingOctets) /\ Len(RingQueue') = m
          /\ \A i \in 1 .. m : RingQueue'[i] = ringMem[(p + i - 1) % RingSize]
      BY <1>2, <2>1, <3>2, <3>3, CellsInOrder
    <3> QED BY <3>4 DEF p
  <2> HIDE DEF s, m
  <2>5. ASSUME NEW i \in 1 .. m PROVE RingQueue'[i] = s[i]
    <3> DEFINE j == i - 1
               p == Plus(ringRd, n)
    <3>1. /\ j \in Int /\ n + i \in 1 .. u /\ p \in Pointers /\ p \in Int
          /\ p + i - 1 = p + j /\ ringRd + (n + i) - 1 = ringRd + n + j
      <4> HIDE DEF u
      <4>1. p \in Pointers
        BY <1>2, CellAhead
      <4> HIDE DEF p
      <4>2. p \in Int
        BY <4>1, PointersAre
      <4> QED BY <1>2, <2>1, <4>1, <4>2
    <3> HIDE DEF j
    <3>2. (p + j) % RingSize = (ringRd + n + j) % RingSize
      BY <1>2, <3>1, CellAhead
    <3>3. q[n + i] = ringMem[(ringRd + (n + i) - 1) % RingSize]
      BY <1>7, <3>1
    <3>4. RingQueue'[i] = ringMem[(p + i - 1) % RingSize]
      BY <2>4
    <3> HIDE DEF p, u
    <3>5. RingQueue'[i] = q[n + i]
      BY <3>1, <3>2, <3>3, <3>4
    <3> QED BY <2>2, <3>5
  <2>6. RingQueue' = s
    BY <2>2, <2>4, <2>5, SeqEqual
  <2> QED BY <2>6 DEF s
<1>10. n \in 1 .. Len(q)
  BY <1>7
<1> QED BY <1>1, <1>6, <1>8, <1>9, <1>10 DEF Queue!Take, RingQueue, CellsFrom, q

LEMMA RingResetKeeps ==
  ASSUME RingInv, RingReset
  PROVE  RingInv' /\ Queue!Clear
<1>1. /\ ringWr \in Pointers /\ ringWr \in Int /\ ringMem \in [Cells -> RingOctets]
      /\ RingSize \in Nat /\ PointerModulus \in Nat \ {0}
  BY RingInvGives, PointersAre
<1>2. /\ ringRd' = ringWr /\ ringTaken' = <<>> /\ ringFilled' = <<>>
      /\ ringMem' = ringMem /\ ringWr' = ringWr
  BY DEF RingReset
<1>3. Used' = 0
  BY <1>1, <1>2, ModIsSame DEF Used
<1>4. <<>> \in Data /\ Len(<<>>) = 0
  BY NothingIsData
<1>5. RingInv'
  BY <1>1, <1>2, <1>3, <1>4 DEF RingInv, RingTypeOK, Fits, InPlace, Pointers
<1>6. RingQueue' = <<>>
  BY <1>3 DEF RingQueue, CellsFrom
<1> QED BY <1>2, <1>5, <1>6 DEF Queue!Clear, RingQueue, CellsFrom

(* Every step of the ring is one of the queue, or none.                    *)
LEMMA RingStep ==
  RingInv /\ [RingNext]_ringVars =>
    RingInv' /\ [Queue!Next]_<<ringFilled, RingQueue, ringTaken>>
<1> SUFFICES ASSUME RingInv, [RingNext]_ringVars
             PROVE  RingInv' /\ [Queue!Next]_<<ringFilled, RingQueue, ringTaken>>
  OBVIOUS
<1>1. CASE SendOctets
  BY <1>1, SendOctetsKeeps DEF Queue!Next
<1>2. CASE SendPointer
  BY <1>2, SendPointerKeeps DEF Queue!Next
<1>3. CASE RecvOctets
  BY <1>3, RecvOctetsKeeps DEF Queue!Next
<1>4. CASE RingReset
  BY <1>4, RingResetKeeps DEF Queue!Next
<1>5. CASE UNCHANGED ringVars
  BY <1>5 DEF ringVars, RingInv, RingTypeOK, Fits, InPlace, RingQueue, CellsFrom, Used
<1> QED BY <1>1, <1>2, <1>3, <1>4, <1>5 DEF RingNext

(* The ring is a queue: octets come out in the order in which they went    *)
(* in, each once, for a memory of any size that divides the range of its   *)
(* pointers and whatever these start from (wiz_send_data, wiz_recv_data).  *)
THEOREM RingIsQueue == RingSpec => QueueImplemented
<1> QED BY RingStep, RingInvInit, PTL
        DEF RingSpec, QueueImplemented, Queue!Spec, RingQueue, CellsFrom
=============================================================================
