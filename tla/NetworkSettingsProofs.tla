------------------------ MODULE NetworkSettingsProofs ------------------------
(***************************************************************************)
(* Whoever sets RTR, RCR or the operation timeout, in whatever order, the  *)
(* operation timeout covers the controller's retransmissions; and whoever  *)
(* reads the network identity gets it whole: for any number of tasks,      *)
(* registers and values.                                                   *)
(***************************************************************************)
EXTENDS NetworkSettings, TLAPS

NetSeen == NetValues \cup {Cleared} \cup Nat

NetWorks == [NetTasks ->
  [op : NetOps \cup {"idle"}, step : Nat,
   arg : NetSeen \cup NetTimeouts, seen : [Parts -> NetSeen]]]

NetTyped ==
  /\ netHolder \in NetTasks \cup {NetFree}
  /\ netReg \in [Parts -> NetValues \cup {Cleared}]
  /\ netTuple \in Nat \X Nat
  /\ netRequested \in Nat /\ netOperation \in Nat
  /\ netWork \in NetWorks
  /\ \A t \in NetTasks :
       /\ netWork[t].op \in {"set", "assign"} => netWork[t].arg \in NetValues
       /\ netWork[t].op \in {"get", "reset"} =>
            \A p \in Parts : netWork[t].seen[p] \in NetValues \cup {Cleared}

(* The tasks inside a call that takes GLOBAL are the one that holds it.    *)
HoldsGlobal ==
  \A t \in NetTasks :
    netWork[t].op \notin {"idle", "assign"} => netHolder = t

(* What a task that sets RTR and RCR has written so far.                   *)
TupleWritten ==
  \A t \in NetTasks : Doing(t, "timeout") =>
    /\ netWork[t].arg \in NetTimeouts /\ Step(t) \in 1 .. 3
    /\ Step(t) >= 2 => netTuple[1] = Larger(netWork[t].arg[1], 1)
    /\ Step(t) >= 3 => netTuple[2] = Larger(netWork[t].arg[2], 1)

(* What a task that sets the operation timeout has read so far.            *)
TupleRead ==
  \A t \in NetTasks : Doing(t, "operation") =>
    /\ netWork[t].arg \in NetOperations /\ Step(t) \in 1 .. 3
    /\ Step(t) >= 2 => netWork[t].seen[1] = netTuple[1]
    /\ Step(t) >= 3 => netWork[t].seen[2] = netTuple[2]

(* Only in the middle of setting RTR and RCR, and after a reset, is the    *)
(* floor behind them.                                                      *)
SettingTuple == \E t \in NetTasks : Doing(t, "timeout") /\ Step(t) >= 2
FloorCovers ==
  /\ netOperation >= netRequested
  /\ netStale \/ netOperation >= Window(netTuple) \/ SettingTuple

NetIInv == NetTyped /\ HoldsGlobal /\ TupleWritten /\ TupleRead /\ FloorCovers

-----------------------------------------------------------------------------
(* A window is a number of microseconds.                                   *)
LEMMA WindowIsTime ==
  ASSUME NEW p \in Nat \X Nat
  PROVE  Window(p) \in Nat
<1>1. p[1] \in Nat /\ p[2] \in Nat /\ RetryUnit \in Nat /\ RetryMargin \in Nat
  BY NetAssumption
<1>2. p[1] * RetryUnit \in Nat
  BY <1>1
<1> DEFINE base == p[1] * RetryUnit
           often == p[2] + 1
<1>3. often \in Nat
  BY <1>1
<1>4. base * often \in Nat
  <2> HIDE DEF base, often
  <2>1. base \in Nat
    BY <1>2 DEF base
  <2> QED BY <2>1, <1>3
<1> QED BY <1>1, <1>4 DEF Window

(* The larger of two numbers is one of them and at least either.           *)
LEMMA LargerCovers ==
  ASSUME NEW a \in Nat, NEW b \in Nat
  PROVE  Larger(a, b) \in Nat /\ Larger(a, b) >= a /\ Larger(a, b) >= b
BY DEF Larger

(* A call that neither sets RTR and RCR nor the floor keeps all of it: the *)
(* identity, the reset before and after it resets, the unlocked writes.    *)
LEMMA OtherCallsKeepFloor ==
  ASSUME NetIInv, NEW t \in NetTasks,
         netWork[t].op \notin {"timeout", "operation"},
         netWork'[t].op \notin {"timeout", "operation"},
         UNCHANGED <<netTuple, netRequested, netOperation, netStale>>,
         \A u \in NetTasks \ {t} : netWork'[u] = netWork[u],
         NetTyped', HoldsGlobal'
  PROVE  NetIInv'
<1> USE DEF NetIInv
<1>1. TupleWritten'
  <2> SUFFICES ASSUME NEW u \in NetTasks, Doing(u, "timeout")'
               PROVE  /\ (netWork[u].arg \in NetTimeouts /\ Step(u) \in 1 .. 3)'
                      /\ (Step(u) >= 2 => netTuple[1] = Larger(netWork[u].arg[1], 1))'
                      /\ (Step(u) >= 3 => netTuple[2] = Larger(netWork[u].arg[2], 1))'
    BY DEF TupleWritten
  <2>1. u # t /\ netWork'[u] = netWork[u] /\ Doing(u, "timeout")
    BY DEF Doing
  <2> QED BY <2>1 DEF TupleWritten, Step
<1>2. TupleRead'
  <2> SUFFICES ASSUME NEW u \in NetTasks, Doing(u, "operation")'
               PROVE  /\ (netWork[u].arg \in NetOperations /\ Step(u) \in 1 .. 3)'
                      /\ (Step(u) >= 2 => netWork[u].seen[1] = netTuple[1])'
                      /\ (Step(u) >= 3 => netWork[u].seen[2] = netTuple[2])'
    BY DEF TupleRead
  <2>1. u # t /\ netWork'[u] = netWork[u] /\ Doing(u, "operation")
    BY DEF Doing
  <2> QED BY <2>1 DEF TupleRead, Step
<1>3. SettingTuple => SettingTuple'
  BY DEF SettingTuple, Doing, Step
<1>4. Window(netTuple)' = Window(netTuple)
  BY DEF Window
<1>5. FloorCovers'
  BY <1>3, <1>4 DEF FloorCovers
<1> QED BY <1>1, <1>2, <1>5

-----------------------------------------------------------------------------
LEMMA NetStarts == NetInit => NetIInv
<1> SUFFICES ASSUME NetInit PROVE NetIInv
  OBVIOUS
<1> USE NetAssumption DEF NetInit, AtEase, NoIdentity
<1>1. NetTyped
  BY DEF NetTyped, NetWorks, NetOps, NetSeen
<1>2. HoldsGlobal /\ TupleWritten /\ TupleRead
  BY DEF HoldsGlobal, TupleWritten, TupleRead, Doing
<1>3. FloorCovers
  <2>1. netOperation = netRequested /\ netRequested \in Nat
    OBVIOUS
  <2>2. netOperation >= Window(netTuple)
    OBVIOUS
  <2> QED BY <2>1, <2>2 DEF FloorCovers
<1> QED BY <1>1, <1>2, <1>3 DEF NetIInv

(* A task takes GLOBAL for a call.                                         *)
LEMMA BeginKeepsFloor ==
  ASSUME NetIInv, NEW t \in NetTasks, NEW op, NEW arg, NetBegin(t, op, arg),
         op \in {"set", "get", "reset", "timeout", "operation"},
         arg \in NetSeen \cup NetTimeouts,
         op = "set" => arg \in NetValues,
         op = "timeout" => arg \in NetTimeouts,
         op = "operation" => arg \in NetOperations
  PROVE  NetIInv'
<1> USE NetAssumption DEF NetIInv, NetBegin, AtEase, NoIdentity, netChip, netFloor
<1> DEFINE work == [op |-> op, step |-> 1, arg |-> arg,
                    seen |-> [p \in Parts |-> Cleared]]
<1>1. netWork'[t] = work /\ netWork[t].op = "idle"
  BY DEF NetTyped, NetWorks, Doing
<1>2. \A u \in NetTasks \ {t} : netWork'[u] = netWork[u]
  BY DEF NetTyped, NetWorks
<1>3. NetTyped'
  <2>1. work \in [op : NetOps \cup {"idle"}, step : Nat,
                  arg : NetSeen \cup NetTimeouts, seen : [Parts -> NetSeen]]
    BY DEF NetOps, NetSeen
  <2>2. netWork' \in NetWorks
    BY <1>1, <2>1 DEF NetTyped, NetWorks
  <2>3. \A u \in NetTasks :
          /\ netWork'[u].op \in {"set", "assign"} => netWork'[u].arg \in NetValues
          /\ netWork'[u].op \in {"get", "reset"} =>
               \A p \in Parts : netWork'[u].seen[p] \in NetValues \cup {Cleared}
    BY <1>1, <1>2 DEF NetTyped
  <2> QED BY <2>2, <2>3 DEF NetTyped
<1>4. HoldsGlobal'
  BY <1>1, <1>2 DEF HoldsGlobal
<1>5. TupleWritten'
  BY <1>1, <1>2 DEF TupleWritten, Doing, Step
<1>6. TupleRead'
  BY <1>1, <1>2 DEF TupleRead, Doing, Step
<1>7. SettingTuple => SettingTuple'
  BY <1>1, <1>2 DEF SettingTuple, Doing, Step
<1>8. FloorCovers'
  BY <1>7 DEF FloorCovers, Window
<1> QED BY <1>3, <1>4, <1>5, <1>6, <1>8

(* While a task is inside a call that takes GLOBAL no other one is.        *)
LEMMA OthersOutside ==
  ASSUME NetIInv, NEW t \in NetTasks, netWork[t].op \notin {"idle", "assign"},
         NEW u \in NetTasks \ {t}
  PROVE  netWork[u].op \in {"idle", "assign"}
BY DEF NetIInv, HoldsGlobal

(* A step inside a call, the end of an unlocked call and of a locked one.  *)
LEMMA CallGoesOn ==
  ASSUME NetIInv, NEW t \in NetTasks, GoOn(t)
  PROVE  /\ netWork' \in NetWorks /\ HoldsGlobal'
         /\ netWork'[t].op = netWork[t].op
         /\ netHolder' \in NetTasks \cup {NetFree}
         /\ \A u \in NetTasks \ {t} : netWork'[u] = netWork[u]
<1>1. netWork \in NetWorks /\ netHolder \in NetTasks \cup {NetFree}
  BY DEF NetIInv, NetTyped, NetWorks
<1>2. netWork' \in NetWorks
  BY <1>1 DEF GoOn, NetWorks
<1>3. netWork'[t].op = netWork[t].op
  BY <1>1 DEF GoOn, NetWorks
<1>4. \A u \in NetTasks \ {t} : netWork'[u] = netWork[u]
  BY <1>1 DEF GoOn, NetWorks
<1>5. HoldsGlobal'
  BY <1>3, <1>4 DEF NetIInv, HoldsGlobal, GoOn
<1> QED BY <1>1, <1>2, <1>3, <1>4, <1>5 DEF GoOn

LEMMA CallEnds ==
  ASSUME NetIInv, NEW t \in NetTasks, Finish(t),
         netHolder' = netHolder \/ (netHolder' = NetFree /\ netHolder = t)
  PROVE  /\ netWork' \in NetWorks /\ HoldsGlobal'
         /\ netWork'[t].op = "idle"
         /\ netHolder' \in NetTasks \cup {NetFree}
         /\ \A u \in NetTasks \ {t} : netWork'[u] = netWork[u]
<1> USE NetAssumption
<1>1. netWork \in NetWorks /\ netHolder \in NetTasks \cup {NetFree}
  BY DEF NetIInv, NetTyped, NetWorks
<1>2. AtEase \in [op : NetOps \cup {"idle"}, step : Nat,
                  arg : NetSeen \cup NetTimeouts, seen : [Parts -> NetSeen]]
  BY DEF AtEase, NoIdentity, NetSeen
<1>3. netWork' \in NetWorks
  BY <1>1, <1>2 DEF Finish, NetWorks
<1>4. netWork'[t].op = "idle"
  BY <1>1 DEF Finish, NetWorks, AtEase
<1>5. \A u \in NetTasks \ {t} : netWork'[u] = netWork[u]
  BY <1>1 DEF Finish, NetWorks
<1>6. HoldsGlobal'
  BY <1>4, <1>5 DEF NetIInv, HoldsGlobal
<1> QED BY <1>1, <1>3, <1>4, <1>5, <1>6

LEMMA HolderCalls ==
  ASSUME NetIInv, NEW t \in NetTasks, netWork[t].op \notin {"idle", "assign"}
  PROVE  netHolder = t
BY DEF NetIInv, HoldsGlobal

(* A register that is written holds an identity's value or a cleared one.  *)
LEMMA WriteTyped ==
  ASSUME NetIInv, NEW part, NEW value, Write(part, value),
         part \in Parts => value \in NetValues \cup {Cleared}
  PROVE  netReg' \in [Parts -> NetValues \cup {Cleared}]
BY DEF NetIInv, NetTyped, Write

NetOneWork == [op : NetOps \cup {"idle"}, step : Nat,
               arg : NetSeen \cup NetTimeouts, seen : [Parts -> NetSeen]]

(* A call reads a register and goes on.                                    *)
LEMMA WorkReads ==
  ASSUME NEW work \in NetOneWork, NEW seen \in [Parts -> NetSeen]
  PROVE  LET next == [work EXCEPT !.seen = seen, !.step = work.step + 1]
         IN  /\ next \in NetOneWork
             /\ next.op = work.op /\ next.arg = work.arg
             /\ next.step = work.step + 1 /\ next.seen = seen
<1> USE DEF NetOneWork
<1> DEFINE mid  == [work EXCEPT !.seen = seen]
           next == [mid EXCEPT !.step = work.step + 1]
<1>1. /\ mid \in NetOneWork /\ mid.op = work.op /\ mid.arg = work.arg
      /\ mid.step = work.step /\ mid.seen = seen
  OBVIOUS
<1> HIDE DEF mid
<1>2. /\ next \in NetOneWork /\ next.op = mid.op /\ next.arg = mid.arg
      /\ next.step = work.step + 1 /\ next.seen = mid.seen
  BY <1>1
<1>3. QED
  BY <1>1, <1>2 DEF mid

Reads(t, part, value) ==
  /\ netWork' = [netWork EXCEPT ![t].seen[part] = value, ![t].step = @ + 1]
  /\ netHolder' = netHolder

LEMMA CallReads ==
  ASSUME NetIInv, NEW t \in NetTasks, NEW part, NEW value,
         part \in Parts => value \in NetSeen, Reads(t, part, value)
  PROVE  /\ netWork' \in NetWorks /\ HoldsGlobal'
         /\ netWork'[t].op = netWork[t].op /\ netWork'[t].arg = netWork[t].arg
         /\ netWork'[t].step = netWork[t].step + 1
         /\ \A p \in Parts : netWork'[t].seen[p] =
                                IF p = part THEN value ELSE netWork[t].seen[p]
         /\ \A u \in NetTasks \ {t} : netWork'[u] = netWork[u]
<1> DEFINE seen == [netWork[t].seen EXCEPT ![part] = value]
           next == [netWork[t] EXCEPT !.seen = seen, !.step = netWork[t].step + 1]
<1>1. netWork \in [NetTasks -> NetOneWork]
  BY DEF NetIInv, NetTyped, NetWorks, NetOneWork
<1>2. seen \in [Parts -> NetSeen]
  <2>1. netWork[t].seen \in [Parts -> NetSeen]
    BY <1>1 DEF NetOneWork
  <2> QED BY <2>1
<1>3. netWork' = [netWork EXCEPT ![t] = next] /\ netHolder' = netHolder
  <2>1. netHolder' = netHolder
    BY DEF Reads
  <2>2. netWork' = [netWork EXCEPT ![t].seen[part] = value, ![t].step = @ + 1]
    BY DEF Reads
  <2>3. netWork[t] \in NetOneWork
    BY <1>1
  <2> QED BY <1>1, <2>1, <2>2, <2>3 DEF NetOneWork
<1>4. /\ next \in NetOneWork /\ next.op = netWork[t].op
      /\ next.arg = netWork[t].arg
      /\ next.step = netWork[t].step + 1 /\ next.seen = seen
  <2> HIDE DEF seen
  <2> QED BY <1>1, <1>2, WorkReads
<1> HIDE DEF next
<1>5. /\ netWork' \in [NetTasks -> NetOneWork] /\ netWork'[t] = next
      /\ \A u \in NetTasks \ {t} : netWork'[u] = netWork[u]
  BY <1>1, <1>3, <1>4
<1>6. HoldsGlobal'
  BY <1>3, <1>4, <1>5 DEF NetIInv, HoldsGlobal
<1>7. \A p \in Parts : seen[p] = IF p = part THEN value ELSE netWork[t].seen[p]
  BY <1>1 DEF NetOneWork
<1> HIDE DEF seen
<1> QED BY <1>4, <1>5, <1>6, <1>7 DEF NetWorks, NetOneWork

(* A step of a call that is about the identity leaves the floor alone.     *)
LEMMA IdentityStep ==
  ASSUME NetIInv, NEW t \in NetTasks,
         netWork[t].op \in {"set", "get", "reset", "assign"},
         UNCHANGED <<netTuple, netRequested, netOperation, netStale>>,
         netReg' \in [Parts -> NetValues \cup {Cleared}],
         netWork' \in NetWorks, HoldsGlobal',
         netHolder' \in NetTasks \cup {NetFree},
         \A u \in NetTasks \ {t} : netWork'[u] = netWork[u],
         netWork'[t].op \in {"idle", netWork[t].op},
         netWork'[t].op \in {"set", "assign"} => netWork'[t].arg = netWork[t].arg,
         netWork'[t].op \in {"get", "reset"} =>
           \A p \in Parts : netWork'[t].seen[p] \in NetValues \cup {Cleared}
  PROVE  NetIInv'
<1>1. \A u \in NetTasks :
        /\ netWork'[u].op \in {"set", "assign"} => netWork'[u].arg \in NetValues
        /\ netWork'[u].op \in {"get", "reset"} =>
             \A p \in Parts : netWork'[u].seen[p] \in NetValues \cup {Cleared}
  <2> SUFFICES ASSUME NEW u \in NetTasks
               PROVE  /\ netWork'[u].op \in {"set", "assign"} => netWork'[u].arg \in NetValues
                      /\ netWork'[u].op \in {"get", "reset"} =>
                           \A p \in Parts : netWork'[u].seen[p] \in NetValues \cup {Cleared}
    OBVIOUS
  <2>1. CASE u = t
    BY <2>1 DEF NetIInv, NetTyped
  <2>2. CASE u # t
    BY <2>2 DEF NetIInv, NetTyped
  <2> QED BY <2>1, <2>2
<1>2. NetTyped'
  BY <1>1 DEF NetIInv, NetTyped
<1> QED BY <1>2, OtherCallsKeepFloor

(* wizchip_setnetinfo, wizchip_getnetinfo, default_ip_assign and what      *)
(* wizchip_sw_reset does to the identity.                                  *)
LEMMA IdentityKeepsFloor ==
  ASSUME NetIInv, NEW t \in NetTasks,
         \/ SetNetInfo(t) \/ GetNetInfo(t) \/ Assign(t)
         \/ ResetSave(t) \/ ResetRestore(t) \/ ResetFails(t)
  PROVE  NetIInv'
<1> USE NetAssumption
<1>t. /\ netReg \in [Parts -> NetValues \cup {Cleared}] /\ netWork \in NetWorks
      /\ netHolder \in NetTasks \cup {NetFree}
      /\ netWork[t].op \in {"set", "assign"} => netWork[t].arg \in NetValues
      /\ netWork[t].op \in {"get", "reset"} =>
           \A p \in Parts : netWork[t].seen[p] \in NetValues \cup {Cleared}
  BY DEF NetIInv, NetTyped
<1>h. netWork[t].op \notin {"idle", "assign"} => netHolder = t
  BY HolderCalls
<1>1. CASE SetNetInfo(t)
  <2>1. /\ netWork[t].op = "set" /\ netWork[t].arg \in NetValues
        /\ UNCHANGED <<netTuple, netRequested, netOperation, netStale>>
    BY <1>1, <1>t DEF SetNetInfo, Doing, netFloor
  <2>2. netReg' \in [Parts -> NetValues \cup {Cleared}]
    BY <1>1, <2>1, WriteTyped DEF SetNetInfo
  <2>3. CASE GoOn(t)
    <3>1. netWork'[t].arg = netWork[t].arg
      BY <2>3, <1>t DEF GoOn, NetWorks
    <3> QED BY <2>1, <2>2, <2>3, <3>1, CallGoesOn, IdentityStep
  <2>4. CASE Unlock(t)
    BY <2>1, <2>2, <2>4, <1>h, CallEnds, IdentityStep DEF Unlock
  <2> QED BY <1>1, <2>3, <2>4 DEF SetNetInfo
<1>2. CASE GetNetInfo(t)
  <2>1. /\ netWork[t].op = "get"
        /\ UNCHANGED <<netReg, netTuple, netRequested, netOperation, netStale>>
    BY <1>2 DEF GetNetInfo, Doing, netFloor, netHist, netChip
  <2>2. CASE Unlock(t)
    BY <2>1, <2>2, <1>t, <1>h, CallEnds, IdentityStep DEF Unlock
  <2>3. CASE ~Unlock(t)
    <3>1. netReg[Step(t)] \in NetSeen \/ Step(t) \notin Parts
      BY <1>t DEF NetSeen
    <3>2. /\ netWork' \in NetWorks /\ HoldsGlobal' /\ netHolder' = netHolder
          /\ netWork'[t].op = "get"
          /\ \A p \in Parts : netWork'[t].seen[p] =
               IF p = Step(t) THEN netReg[p] ELSE netWork[t].seen[p]
          /\ \A u \in NetTasks \ {t} : netWork'[u] = netWork[u]
      <4> DEFINE part == Step(t)
                  value == netReg[part]
      <4>1. Reads(t, part, value)
        BY <1>2, <2>1, <2>3 DEF GetNetInfo, Reads
      <4>2. part \in Parts => value \in NetSeen
        BY <3>1
      <4> HIDE DEF part, value
      <4>3. /\ netWork' \in NetWorks /\ HoldsGlobal' /\ netWork'[t].op = netWork[t].op
            /\ \A p \in Parts : netWork'[t].seen[p] =
                 IF p = part THEN value ELSE netWork[t].seen[p]
            /\ \A u \in NetTasks \ {t} : netWork'[u] = netWork[u]
        BY <4>1, <4>2, CallReads
      <4> QED BY <2>1, <4>1, <4>3 DEF part, value, Reads
    <3>3. \A p \in Parts : netWork'[t].seen[p] \in NetValues \cup {Cleared}
      BY <1>t, <2>1, <3>2 DEF NetWorks
    <3> QED BY <2>1, <1>t, <3>2, <3>3, IdentityStep
  <2> QED BY <2>2, <2>3
<1>3. CASE Assign(t)
  <2>1. /\ netWork[t].op = "assign" /\ netWork[t].arg \in NetValues
        /\ UNCHANGED <<netTuple, netRequested, netOperation, netStale>>
    BY <1>3, <1>t DEF Assign, Doing, netFloor
  <2>2. netReg' \in [Parts -> NetValues \cup {Cleared}]
    BY <1>3, <2>1, WriteTyped DEF Assign
  <2>3. CASE GoOn(t)
    <3>1. netWork'[t].arg = netWork[t].arg
      BY <2>3, <1>t DEF GoOn, NetWorks
    <3> QED BY <2>1, <2>2, <2>3, <3>1, CallGoesOn, IdentityStep
  <2>4. CASE Finish(t) /\ netHolder' = netHolder
    BY <2>1, <2>2, <2>4, CallEnds, IdentityStep
  <2> QED BY <1>3, <2>3, <2>4 DEF Assign
<1>4. CASE ResetSave(t)
  <2>1. /\ netWork[t].op = "reset" /\ netHolder' = netHolder
        /\ UNCHANGED <<netReg, netTuple, netRequested, netOperation, netStale>>
    BY <1>4 DEF ResetSave, Doing, netFloor, netHist, netChip
  <2>2. netReg[Step(t)] \in NetSeen \/ Step(t) \notin Parts
    BY <1>t DEF NetSeen
  <2>3. /\ netWork' \in NetWorks /\ HoldsGlobal' /\ netWork'[t].op = "reset"
        /\ \A p \in Parts : netWork'[t].seen[p] =
             IF p = Step(t) THEN netReg[p] ELSE netWork[t].seen[p]
        /\ \A u \in NetTasks \ {t} : netWork'[u] = netWork[u]
    <3> DEFINE part == Step(t)
                value == netReg[part]
    <3>1. Reads(t, part, value)
      BY <1>4, <2>1 DEF ResetSave, Reads
    <3>2. part \in Parts => value \in NetSeen
      BY <2>2
    <3> HIDE DEF part, value
    <3>3. /\ netWork' \in NetWorks /\ HoldsGlobal' /\ netWork'[t].op = netWork[t].op
          /\ \A p \in Parts : netWork'[t].seen[p] =
               IF p = part THEN value ELSE netWork[t].seen[p]
          /\ \A u \in NetTasks \ {t} : netWork'[u] = netWork[u]
      BY <3>1, <3>2, CallReads
    <3> QED BY <2>1, <3>1, <3>3 DEF part, value, Reads
  <2>4. \A p \in Parts : netWork'[t].seen[p] \in NetValues \cup {Cleared}
    BY <1>t, <2>1, <2>3 DEF NetWorks
  <2> QED BY <2>1, <1>t, <2>3, <2>4, IdentityStep
<1>5. CASE ResetRestore(t)
  <2>1. /\ netWork[t].op = "reset"
        /\ \A p \in Parts : netWork[t].seen[p] \in NetValues \cup {Cleared}
        /\ UNCHANGED <<netTuple, netRequested, netOperation, netStale>>
    BY <1>5, <1>t DEF ResetRestore, Doing, netFloor, netHist
  <2>2. netReg' \in [Parts -> NetValues \cup {Cleared}]
    BY <1>5, <2>1, WriteTyped DEF ResetRestore
  <2>3. CASE GoOn(t)
    <3>1. netWork'[t].seen = netWork[t].seen
      BY <2>3, <1>t DEF GoOn, NetWorks
    <3> QED BY <2>1, <2>2, <2>3, <3>1, CallGoesOn, IdentityStep
  <2>4. CASE Unlock(t)
    BY <2>1, <2>2, <2>4, <1>h, CallEnds, IdentityStep DEF Unlock
  <2> QED BY <1>5, <2>3, <2>4 DEF ResetRestore
<1>6. CASE ResetFails(t)
  <2>1. /\ netWork[t].op = "reset"
        /\ UNCHANGED <<netReg, netTuple, netRequested, netOperation, netStale>>
    BY <1>6 DEF ResetFails, Doing, netFloor, netChip
  <2> QED BY <1>6, <2>1, <1>t, <1>h, CallEnds, IdentityStep DEF ResetFails, Unlock
<1> QED BY <1>1, <1>2, <1>3, <1>4, <1>5, <1>6

-----------------------------------------------------------------------------
(* MR_RST puts RTR and RCR back: the floor is stale from here on, and      *)
(* nobody is in the middle of setting them.                                *)
LEMMA ResetChipKeepsFloor ==
  ASSUME NetIInv, NEW t \in NetTasks, ResetChip(t)
  PROVE  NetIInv'
<1>1. /\ netWork[t].op = "reset" /\ GoOn(t) /\ netStale'
      /\ netTuple' = NetResetTimeouts /\ UNCHANGED netFloor
  BY DEF ResetChip, Doing
<1>2. /\ netWork' \in NetWorks /\ HoldsGlobal' /\ netWork'[t].op = "reset"
      /\ netHolder' \in NetTasks \cup {NetFree}
      /\ \A u \in NetTasks \ {t} : netWork'[u] = netWork[u]
  BY <1>1, CallGoesOn
<1>3. \A u \in NetTasks : netWork'[u].op \notin {"timeout", "operation"}
  BY <1>1, <1>2, OthersOutside
<1>4. netWork'[t].arg = netWork[t].arg /\ netWork'[t].seen = netWork[t].seen
  BY <1>1 DEF GoOn, NetIInv, NetTyped, NetWorks
<1>5. netReg' \in [Parts -> NetValues \cup {Cleared}]
  BY DEF ResetChip, NetIInv, NetTyped
<1>6. \A u \in NetTasks :
        /\ netWork'[u].op \in {"set", "assign"} => netWork'[u].arg \in NetValues
        /\ netWork'[u].op \in {"get", "reset"} =>
             \A p \in Parts : netWork'[u].seen[p] \in NetValues \cup {Cleared}
  BY <1>1, <1>2, <1>4 DEF NetIInv, NetTyped
<1>7. netTuple' \in Nat \X Nat /\ netRequested' \in Nat /\ netOperation' \in Nat
  BY <1>1, NetAssumption DEF NetIInv, NetTyped, netFloor
<1>8. NetTyped'
  BY <1>2, <1>5, <1>6, <1>7 DEF NetTyped
<1>9. TupleWritten' /\ TupleRead'
  BY <1>3 DEF TupleWritten, TupleRead, Doing
<1>10. FloorCovers'
  BY <1>1 DEF FloorCovers, netFloor, NetIInv
<1> QED BY <1>2, <1>8, <1>9, <1>10 DEF NetIInv

(* The floor is computed from the registers as they are.                   *)
LEMMA FloorIsSet ==
  ASSUME NetIInv, NEW t \in NetTasks, NEW requested \in Nat,
         Floor(requested, netTuple), netTuple' = netTuple, netReg' = netReg,
         netWork[t].op \notin {"idle", "assign"}, Unlock(t)
  PROVE  NetIInv'
<1> DEFINE window == Window(netTuple)
<1>1. /\ netWork' \in NetWorks /\ HoldsGlobal' /\ netWork'[t].op = "idle"
      /\ netHolder' \in NetTasks \cup {NetFree}
      /\ \A u \in NetTasks \ {t} : netWork'[u] = netWork[u]
  BY HolderCalls, CallEnds DEF Unlock
<1>2. \A u \in NetTasks : netWork'[u].op \in {"idle", "assign"}
  BY <1>1, OthersOutside
<1>3. window \in Nat /\ Window(netTuple)' = window
  BY WindowIsTime DEF NetIInv, NetTyped, Window
<1>4. netRequested' = requested /\ netOperation' = Larger(requested, window)
  BY DEF Floor
<1> HIDE DEF window
<1>5. /\ netOperation' \in Nat /\ netOperation' >= netRequested'
      /\ netOperation' >= window
  BY <1>3, <1>4, LargerCovers
<1>6. NetTyped'
  BY <1>1, <1>2, <1>4, <1>5 DEF NetIInv, NetTyped
<1>7. TupleWritten' /\ TupleRead'
  BY <1>2 DEF TupleWritten, TupleRead, Doing
<1>8. FloorCovers'
  BY <1>3, <1>5 DEF FloorCovers
<1> QED BY <1>1, <1>6, <1>7, <1>8 DEF NetIInv

(* wizchip_settimeout: RTR and RCR are written one after the other, then   *)
(* the floor of what was written.                                          *)
LEMMA SetTimeoutKeepsFloor ==
  ASSUME NetIInv, NEW t \in NetTasks, SetTimeout(t)
  PROVE  NetIInv'
<1> DEFINE tuple == <<Larger(netWork[t].arg[1], 1), Larger(netWork[t].arg[2], 1)>>
<1>1. /\ netWork[t].op = "timeout" /\ netReg' = netReg
      /\ netWork[t].arg \in NetTimeouts /\ Step(t) \in 1 .. 3
      /\ Step(t) >= 2 => netTuple[1] = tuple[1]
      /\ Step(t) >= 3 => netTuple[2] = tuple[2]
  BY DEF SetTimeout, Doing, NetIInv, TupleWritten
<1>2. tuple \in Nat \X Nat
  <2>1. netWork[t].arg \in Nat \X Nat
    BY <1>1, NetAssumption
  <2> QED BY <2>1 DEF Larger
<1>3. /\ netTuple \in Nat \X Nat /\ netWork \in NetWorks
      /\ netRequested \in Nat /\ netOperation \in Nat
  BY DEF NetIInv, NetTyped
<1>4. CASE Step(t) = 3
  <2>1. tuple = netTuple
    <3> HIDE DEF tuple
    <3> QED BY <1>1, <1>2, <1>3, <1>4
  <2>2. Floor(netRequested, tuple) /\ Unlock(t) /\ netTuple' = netTuple
    BY <1>4 DEF SetTimeout
  <2>3. Floor(netRequested, netTuple)
    BY <2>1, <2>2
  <2> QED BY <1>1, <1>3, <2>2, <2>3, FloorIsSet
<1>5. CASE Step(t) # 3
  <2>1. /\ netTuple' = [netTuple EXCEPT ![Step(t)] = tuple[Step(t)]]
        /\ GoOn(t) /\ UNCHANGED <<netRequested, netOperation, netStale>>
    BY <1>5 DEF SetTimeout, netFloor
  <2>2. /\ netWork' \in NetWorks /\ HoldsGlobal' /\ netWork'[t].op = "timeout"
        /\ netHolder' \in NetTasks \cup {NetFree}
        /\ \A u \in NetTasks \ {t} : netWork'[u] = netWork[u]
    BY <1>1, <2>1, CallGoesOn
  <2>3. netWork'[t].arg = netWork[t].arg /\ netWork'[t].step = netWork[t].step + 1
    BY <1>3, <2>1 DEF GoOn, NetWorks
  <2>4. \A u \in NetTasks \ {t} : netWork'[u].op \in {"idle", "assign"}
    BY <1>1, <2>2, OthersOutside
  <2>5. /\ netTuple' \in Nat \X Nat /\ netTuple'[Step(t)] = tuple[Step(t)]
        /\ Step(t) = 2 => netTuple'[1] = netTuple[1]
    <3> HIDE DEF tuple
    <3>1. Step(t) \in {1, 2} /\ tuple[1] \in Nat /\ tuple[2] \in Nat
      BY <1>1, <1>2, <1>5
    <3>2. netTuple' = IF Step(t) = 1 THEN <<tuple[1], netTuple[2]>>
                                     ELSE <<netTuple[1], tuple[2]>>
      <4>1. CASE Step(t) = 1
        <5>1. netTuple' = [netTuple EXCEPT ![1] = tuple[1]]
          BY <2>1, <4>1
        <5> QED BY <4>1, <5>1, <1>3
      <4>2. CASE Step(t) = 2
        <5>1. netTuple' = [netTuple EXCEPT ![2] = tuple[2]]
          BY <2>1, <4>2
        <5> QED BY <4>2, <5>1, <1>3
      <4> QED BY <3>1, <4>1, <4>2
    <3> QED BY <3>1, <3>2, <1>3
  <2>6. NetTyped'
    BY <1>1, <1>3, <2>1, <2>2, <2>4, <2>5 DEF NetIInv, NetTyped
  <2>7. Step(t)' = Step(t) + 1 /\ Step(t)' \in {2, 3}
    BY <1>1, <1>5, <2>3 DEF Step
  <2>8. TupleWritten'
    <3>1. \A u \in NetTasks : (Doing(u, "timeout"))' => u = t
      BY <2>4 DEF Doing
    <3>2. /\ netTuple'[1] = tuple[1]
          /\ Step(t)' >= 3 => netTuple'[2] = tuple[2]
      <4> HIDE DEF tuple
      <4> QED BY <1>1, <1>5, <2>5, <2>7
    <3> QED BY <1>1, <2>3, <2>7, <3>1, <3>2 DEF TupleWritten
  <2>9. TupleRead'
    BY <2>2, <2>4 DEF TupleRead, Doing
  <2>10. SettingTuple'
    BY <2>2, <2>7 DEF SettingTuple, Doing
  <2>11. FloorCovers'
    BY <2>1, <2>10 DEF FloorCovers, NetIInv
  <2> QED BY <2>2, <2>6, <2>8, <2>9, <2>11 DEF NetIInv
<1> QED BY <1>4, <1>5

(* wizchip_set_operation_timeout_us: RTR and RCR are read one after the    *)
(* other, and nobody writes them in between.                               *)
LEMMA SetOperationKeepsFloor ==
  ASSUME NetIInv, NEW t \in NetTasks, SetOperation(t)
  PROVE  NetIInv'
<1>1. /\ netWork[t].op = "operation" /\ netReg' = netReg /\ netTuple' = netTuple
      /\ netWork[t].arg \in NetOperations /\ Step(t) \in 1 .. 3
      /\ Step(t) >= 2 => netWork[t].seen[1] = netTuple[1]
      /\ Step(t) >= 3 => netWork[t].seen[2] = netTuple[2]
  BY DEF SetOperation, Doing, NetIInv, TupleRead, netChip
<1>2. /\ netTuple \in Nat \X Nat /\ netWork \in NetWorks
      /\ netRequested \in Nat /\ netOperation \in Nat
      /\ netHolder \in NetTasks \cup {NetFree}
  BY DEF NetIInv, NetTyped
<1>3. CASE Step(t) = 3
  <2>1. <<netWork[t].seen[1], netWork[t].seen[2]>> = netTuple
    BY <1>1, <1>2, <1>3
  <2>2. Floor(netWork[t].arg, netTuple) /\ Unlock(t)
    BY <1>3, <2>1 DEF SetOperation
  <2>3. netWork[t].arg \in Nat
    BY <1>1, NetAssumption
  <2> QED BY <1>1, <2>2, <2>3, FloorIsSet
<1>4. CASE Step(t) # 3
  <2> DEFINE part == Step(t)
             value == netTuple[part]
  <2>1. Reads(t, part, value) /\ UNCHANGED <<netRequested, netOperation, netStale>>
    BY <1>4 DEF SetOperation, Reads, netFloor
  <2>2. part \in {1, 2} /\ 1 \in Parts /\ 2 \in Parts
    BY <1>1, <1>4, NetAssumption DEF Parts
  <2>3. value \in NetSeen
    BY <1>2, <2>2 DEF NetSeen
  <2> HIDE DEF part, value
  <2>4. /\ netWork' \in NetWorks /\ HoldsGlobal' /\ netWork'[t].op = "operation"
        /\ netWork'[t].arg = netWork[t].arg
        /\ netWork'[t].step = netWork[t].step + 1
        /\ \A p \in Parts : netWork'[t].seen[p] =
             IF p = part THEN value ELSE netWork[t].seen[p]
        /\ \A u \in NetTasks \ {t} : netWork'[u] = netWork[u]
    BY <1>1, <2>1, <2>3, CallReads
  <2>5. \A u \in NetTasks \ {t} : netWork'[u].op \in {"idle", "assign"}
    BY <1>1, <2>4, OthersOutside
  <2>6. netHolder' = netHolder
    BY <2>1 DEF Reads
  <2>7. NetTyped'
    BY <1>1, <1>2, <2>1, <2>4, <2>5, <2>6 DEF NetIInv, NetTyped
  <2>8. TupleWritten'
    BY <2>4, <2>5 DEF TupleWritten, Doing
  <2>9. Step(t)' = part + 1 /\ netWork'[t].seen[part] = netTuple[part]
    BY <2>2, <2>4 DEF Step, part, value
  <2>10. part = 2 => netWork'[t].seen[1] = netTuple[1]
    BY <1>1, <2>2, <2>4 DEF part
  <2>11. TupleRead'
    <3>1. \A u \in NetTasks : (Doing(u, "operation"))' => u = t
      BY <2>5 DEF Doing
    <3> QED BY <1>1, <2>2, <2>4, <2>9, <2>10, <3>1 DEF TupleRead
  <2>12. SettingTuple => SettingTuple'
    BY <1>1, <2>4 DEF SettingTuple, Doing, Step
  <2>13. Window(netTuple)' = Window(netTuple)
    BY <1>1 DEF Window
  <2>14. FloorCovers'
    BY <2>1, <2>12, <2>13 DEF FloorCovers, NetIInv
  <2> QED BY <2>4, <2>7, <2>8, <2>11, <2>14 DEF NetIInv
<1> QED BY <1>3, <1>4

(* default_ip_assign begins, with or without GLOBAL taken by another.      *)
LEMMA AssignBeginKeepsFloor ==
  ASSUME NetIInv, NEW t \in NetTasks, NEW v \in NetValues, AssignBegin(t, v)
  PROVE  NetIInv'
<1> DEFINE work == [op |-> "assign", step |-> 1, arg |-> v,
                    seen |-> [p \in Parts |-> Cleared]]
<1>1. /\ netWork \in NetWorks /\ netWork[t].op = "idle" /\ netHolder' = netHolder
      /\ UNCHANGED <<netReg, netTuple, netRequested, netOperation, netStale>>
  BY DEF AssignBegin, Doing, netChip, netFloor, NetIInv, NetTyped
<1>2. work \in NetOneWork /\ work.op = "assign" /\ work.arg = v
  BY DEF NetOneWork, NetOps, NetSeen
<1>3. /\ netWork' \in NetWorks /\ netWork'[t] = work
      /\ \A u \in NetTasks \ {t} : netWork'[u] = netWork[u]
  <2>1. netWork'[t] = work
    BY <1>1 DEF AssignBegin, AtEase, NoIdentity, NetWorks
  <2>2. netWork' = [netWork EXCEPT ![t] = netWork'[t]]
    BY <1>1 DEF AssignBegin, NetWorks
  <2> HIDE DEF work
  <2> QED BY <1>1, <1>2, <2>1, <2>2 DEF NetWorks, NetOneWork
<1> HIDE DEF work
<1>4. HoldsGlobal'
  BY <1>1, <1>2, <1>3 DEF NetIInv, HoldsGlobal
<1>5. \A u \in NetTasks :
        /\ netWork'[u].op \in {"set", "assign"} => netWork'[u].arg \in NetValues
        /\ netWork'[u].op \in {"get", "reset"} =>
             \A p \in Parts : netWork'[u].seen[p] \in NetValues \cup {Cleared}
  BY <1>2, <1>3 DEF NetIInv, NetTyped
<1>6. NetTyped'
  BY <1>1, <1>3, <1>5 DEF NetIInv, NetTyped
<1> QED BY <1>1, <1>2, <1>3, <1>4, <1>6, OtherCallsKeepFloor

-----------------------------------------------------------------------------
LEMMA NetStepKeepsFloor == NetIInv /\ [NetNext]_netVars => NetIInv'
<1> SUFFICES ASSUME NetIInv, [NetNext]_netVars
             PROVE  NetIInv'
  OBVIOUS
<1>1. CASE UNCHANGED netVars
  BY <1>1 DEF netVars, netChip, netFloor, netHist, NetIInv, NetTyped, HoldsGlobal,
     TupleWritten, TupleRead, FloorCovers, SettingTuple, Doing, Step, Window
<1>2. CASE NetNext
  <2>1. PICK t \in NetTasks :
          \/ \E v \in NetValues : NetBegin(t, "set", v) \/ AssignBegin(t, v)
          \/ \E op \in {"get", "reset"} : NetBegin(t, op, Cleared)
          \/ \E p \in NetTimeouts : NetBegin(t, "timeout", p)
          \/ \E o \in NetOperations : NetBegin(t, "operation", o)
          \/ SetNetInfo(t) \/ GetNetInfo(t) \/ Assign(t)
          \/ ResetSave(t) \/ ResetChip(t) \/ ResetRestore(t) \/ ResetFails(t)
          \/ SetTimeout(t) \/ SetOperation(t)
    BY <1>2 DEF NetNext
  <2>2. ASSUME NEW v \in NetValues, NetBegin(t, "set", v) PROVE NetIInv'
    BY <2>2, BeginKeepsFloor DEF NetSeen
  <2>3. ASSUME NEW v \in NetValues, AssignBegin(t, v) PROVE NetIInv'
    BY <2>3, AssignBeginKeepsFloor
  <2>4. ASSUME NEW op \in {"get", "reset"}, NetBegin(t, op, Cleared) PROVE NetIInv'
    BY <2>4, BeginKeepsFloor DEF NetSeen
  <2>5. ASSUME NEW p \in NetTimeouts, NetBegin(t, "timeout", p) PROVE NetIInv'
    BY <2>5, BeginKeepsFloor
  <2>6. ASSUME NEW o \in NetOperations, NetBegin(t, "operation", o) PROVE NetIInv'
    <3>1. o \in NetSeen
      BY NetAssumption DEF NetSeen
    <3> QED BY <2>6, <3>1, BeginKeepsFloor
  <2>7. ASSUME \/ SetNetInfo(t) \/ GetNetInfo(t) \/ Assign(t)
               \/ ResetSave(t) \/ ResetRestore(t) \/ ResetFails(t)
        PROVE  NetIInv'
    BY <2>7, IdentityKeepsFloor
  <2>8. ASSUME ResetChip(t) PROVE NetIInv'
    BY <2>8, ResetChipKeepsFloor
  <2>9. ASSUME SetTimeout(t) PROVE NetIInv'
    BY <2>9, SetTimeoutKeepsFloor
  <2>10. ASSUME SetOperation(t) PROVE NetIInv'
    BY <2>10, SetOperationKeepsFloor
  <2> QED BY <2>1, <2>2, <2>3, <2>4, <2>5, <2>6, <2>7, <2>8, <2>9, <2>10
<1> QED BY <1>1, <1>2

(* Nobody is setting RTR and RCR while GLOBAL is free.                     *)
LEMMA FreeIsCovered == NetIInv => TimeoutCoversWindow
<1> SUFFICES ASSUME NetIInv, netHolder = NetFree PROVE TimeoutCoversWindow
  BY DEF TimeoutCoversWindow
<1>1. ~SettingTuple
  BY NetAssumption DEF SettingTuple, Doing, NetIInv, HoldsGlobal
<1> QED BY <1>1 DEF NetIInv, FloorCovers, TimeoutCoversWindow

(* Whichever of any number of tasks sets RTR and RCR or the operation      *)
(* timeout, in whatever order, no operation is given less time than the    *)
(* retransmissions take, until a reset puts RTR and RCR back               *)
(* (wizchip_settimeout, wizchip_set_operation_timeout_us).                 *)
THEOREM TimeoutsCoverWindows == NetSpec => []TimeoutCoversWindow
<1>1. NetInit => NetIInv
  BY NetStarts
<1>2. NetIInv /\ [NetNext]_netVars => NetIInv'
  BY NetStepKeepsFloor
<1>3. NetIInv => TimeoutCoversWindow
  BY FreeIsCovered
<1> QED BY <1>1, <1>2, <1>3, PTL DEF NetSpec
-----------------------------------------------------------------------------
(* The network identity.  Without a meeting with default_ip_assign one     *)
(* task at a time is inside a call about the identity: the others are      *)
(* kept out by GLOBAL.                                                     *)
Alone ==
  \A t, u \in NetTasks : t # u /\ Identity(t) => ~Identity(u)

(* What a reader has read so far is what was agreed, and so is the rest.   *)
Sees(t) == Doing(t, "get") =>
  /\ Step(t) \in 1 .. NetParts + 2 /\ netReg = netAgreed
  /\ \A p \in Parts : p < Step(t) => netWork[t].seen[p] = netAgreed[p]

(* A reset saves the identity; after MR_RST the driver's part and the      *)
(* registers it has written back are as agreed.                            *)
Saves(t) == Doing(t, "reset") /\ Step(t) <= NetParts + 1 =>
  /\ Step(t) >= 1 /\ netReg = netAgreed
  /\ \A p \in Parts : p < Step(t) => netWork[t].seen[p] = netAgreed[p]

Restores(t) == Doing(t, "reset") /\ Step(t) > NetParts + 1 =>
  /\ Step(t) <= 2 * NetParts + 1
  /\ \A p \in 1 .. NetParts : netWork[t].seen[p] = netAgreed[p]
  /\ \A p \in Parts : p < Step(t) - NetParts - 1 \/ p = NetParts + 1 =>
       netReg[p] = netAgreed[p]

Undisputed == (\A t \in NetTasks : ~Identity(t)) => netReg = netAgreed

InfoParts ==
  /\ Alone /\ Undisputed
  /\ \A t \in NetTasks : Sees(t) /\ Saves(t) /\ Restores(t)

InfoIInv ==
  /\ NetIInv /\ netAgreed \in [Parts -> NetValues \cup {Cleared}]
  /\ netCrossed \in BOOLEAN
  /\ netCrossed \/ InfoParts

LEMMA InfoStarts == NetInit => InfoIInv
<1> SUFFICES ASSUME NetInit PROVE InfoIInv
  OBVIOUS
<1>1. NetIInv
  BY NetStarts
<1>2. /\ netAgreed = NoIdentity /\ netReg = netAgreed /\ netCrossed = FALSE
      /\ \A t \in NetTasks : netWork[t].op = "idle"
  BY DEF NetInit, AtEase
<1>3. InfoParts
  BY <1>2 DEF InfoParts, Alone, Undisputed, Sees, Saves, Restores, Identity, Doing
<1> QED BY <1>1, <1>2, <1>3 DEF InfoIInv, NoIdentity

(* What a task outside the identity does leaves the identity alone.        *)
LEMMA OutsideKeepsInfo ==
  ASSUME InfoIInv, NetIInv', NEW t \in NetTasks,
         UNCHANGED <<netReg, netAgreed, netCrossed>>,
         \A u \in NetTasks \ {t} : netWork'[u] = netWork[u],
         ~Identity(t), ~Identity(t)'
  PROVE  InfoIInv'
<1>1. \A u \in NetTasks : Identity(u)' <=> Identity(u)
  BY DEF Identity
<1>2. ASSUME InfoParts PROVE InfoParts'
  <2>1. Alone'
    BY <1>1, <1>2 DEF InfoParts, Alone
  <2>2. Undisputed'
    BY <1>1, <1>2 DEF InfoParts, Undisputed
  <2>3. ASSUME NEW u \in NetTasks PROVE Sees(u)' /\ Saves(u)' /\ Restores(u)'
    <3>1. CASE u = t
      BY <3>1 DEF Identity, Sees, Saves, Restores, Doing
    <3>2. CASE u # t
      BY <1>2, <3>2 DEF InfoParts, Sees, Saves, Restores, Doing, Step
    <3> QED BY <3>1, <3>2
  <2> QED BY <2>1, <2>2, <2>3 DEF InfoParts
<1> QED BY <1>2 DEF InfoIInv

(* A step of a task about the identity: the others are outside, and only   *)
(* what it does itself matters.                                            *)
LEMMA AloneKeepsInfo ==
  ASSUME InfoIInv, NetIInv', NEW t \in NetTasks,
         netAgreed' \in [Parts -> NetValues \cup {Cleared}],
         netCrossed' \in BOOLEAN,
         \A u \in NetTasks \ {t} : netWork'[u] = netWork[u],
         netCrossed' \/ \A u \in NetTasks \ {t} : ~Identity(u),
         netCrossed' \/ (Sees(t)' /\ Saves(t)' /\ Restores(t)'),
         netCrossed' \/ ((~Identity(t))' => netReg' = netAgreed')
  PROVE  InfoIInv'
<1>1. CASE netCrossed'
  BY <1>1 DEF InfoIInv
<1>2. CASE ~netCrossed'
  <2>1. \A u \in NetTasks \ {t} : ~Identity(u)'
    BY <1>2 DEF Identity
  <2>2. Alone' /\ Undisputed'
    BY <1>2, <2>1 DEF Alone, Undisputed
  <2>3. \A u \in NetTasks : Sees(u)' /\ Saves(u)' /\ Restores(u)'
    BY <1>2, <2>1 DEF Sees, Saves, Restores, Identity, Doing
  <2> QED BY <2>2, <2>3 DEF InfoIInv, InfoParts
<1> QED BY <1>1, <1>2

(* Nobody is inside the identity when a call about it begins, or the call  *)
(* has met default_ip_assign.                                              *)
LEMMA BeginsAlone ==
  ASSUME InfoIInv, NEW t \in NetTasks, NEW op, AssignMeets(t, op),
         op \in {"set", "get", "reset"} => netHolder = NetFree,
         op \in {"set", "get", "reset", "assign"}
  PROVE  /\ netCrossed' \in BOOLEAN
         /\ ~netCrossed' => ~netCrossed /\ \A u \in NetTasks \ {t} : ~Identity(u)
<1>1. netCrossed' \in BOOLEAN
  BY DEF AssignMeets
<1>2. ASSUME ~netCrossed', NEW u \in NetTasks \ {t} PROVE ~Identity(u)
  <2>1. CASE op = "assign"
    BY <1>2, <2>1 DEF AssignMeets
  <2>2. CASE op # "assign"
    <3>1. netWork[u].op \in {"idle", "assign"}
      BY <2>2, NetAssumption DEF InfoIInv, NetIInv, HoldsGlobal
    <3>2. netWork[u].op # "assign"
      BY <1>2, <2>2 DEF AssignMeets, Doing
    <3> QED BY <3>1, <3>2 DEF Identity
  <2> QED BY <2>1, <2>2
<1>3. netCrossed => netCrossed'
  BY DEF AssignMeets, InfoIInv
<1>4. ~netCrossed' => ~netCrossed /\ \A u \in NetTasks \ {t} : ~Identity(u)
  BY <1>2, <1>3, Zenon
<1> QED BY <1>1, <1>4

LEMMA BeginKeepsInfo ==
  ASSUME InfoIInv, NetIInv', NEW t \in NetTasks, NEW op, NEW arg,
         op \in NetOps,
         NetBegin(t, op, arg) \/ (op = "assign" /\ AssignBegin(t, arg))
  PROVE  InfoIInv'
<1> USE NetAssumption
<1> DEFINE work == [op |-> op, step |-> 1, arg |-> arg, seen |-> NoIdentity]
<1>1. /\ netWork[t].op = "idle" /\ AssignMeets(t, op)
      /\ netReg' = netReg /\ netAgreed' = netAgreed
      /\ op # "assign" => netHolder = NetFree
  BY DEF NetBegin, AssignBegin, Doing, netChip, netFloor
<1>2. netWork \in NetWorks
  BY DEF InfoIInv, NetIInv, NetTyped
<1>3. netWork'[t] = work /\ \A u \in NetTasks \ {t} : netWork'[u] = netWork[u]
  BY <1>2 DEF NetBegin, AssignBegin, AtEase, NetWorks
<1>4. /\ netWork'[t].op = op /\ Step(t)' = 1
  BY <1>3 DEF Step
<1>5. CASE op \in {"timeout", "operation"}
  <2>1. ~Identity(t) /\ ~Identity(t)'
    BY <1>1, <1>4, <1>5 DEF Identity
  <2>2. netCrossed' = netCrossed
    <3>1. netCrossed' = (netCrossed \/ FALSE)
      BY <1>1, <1>5 DEF AssignMeets
    <3> QED BY <3>1 DEF InfoIInv
  <2> QED BY <1>1, <1>3, <2>1, <2>2, OutsideKeepsInfo
<1>6. CASE op \notin {"timeout", "operation"}
  <2>1. op \in {"set", "get", "reset", "assign"}
    BY <1>6 DEF NetOps
  <2>2. /\ netCrossed' \in BOOLEAN
        /\ ~netCrossed' => ~netCrossed /\ \A u \in NetTasks \ {t} : ~Identity(u)
    BY <1>1, <2>1, BeginsAlone
  <2>3. ASSUME ~netCrossed' PROVE netReg = netAgreed
    <3>1. \A u \in NetTasks : ~Identity(u)
      BY <1>1, <2>2, <2>3 DEF Identity
    <3> QED BY <2>2, <2>3, <3>1 DEF InfoIInv, InfoParts, Undisputed
  <2>4. netCrossed' \/ (Sees(t)' /\ Saves(t)' /\ Restores(t)')
    <3>1. \A p \in Parts : ~(p < 1)
      BY DEF Parts
    <3> QED BY <1>1, <1>4, <2>3, <3>1 DEF Sees, Saves, Restores
  <2>5. netAgreed' \in [Parts -> NetValues \cup {Cleared}]
    BY <1>1 DEF InfoIInv
  <2> QED BY <1>1, <1>3, <2>2, <2>3, <2>4, <2>5, AloneKeepsInfo
<1> QED BY <1>5, <1>6

-----------------------------------------------------------------------------
(* While a task is inside the identity, not having met anyone, the others  *)
(* are outside.                                                            *)
LEMMA WorksAlone ==
  ASSUME InfoIInv, NEW t \in NetTasks, Identity(t)
  PROVE  netCrossed \/ \A u \in NetTasks \ {t} : ~Identity(u)
BY DEF InfoIInv, InfoParts, Alone

(* A call ends, or goes on, with what it leaves in the registers agreed.   *)
LEMMA WritersAgree ==
  ASSUME InfoIInv, NetIInv', NEW t \in NetTasks,
         netWork[t].op \in {"set", "assign", "reset"},
         netCrossed' = netCrossed,
         \A u \in NetTasks \ {t} : netWork'[u] = netWork[u],
         \/ netWork'[t].op = "idle" /\ netAgreed' = netReg'
         \/ netWork'[t].op \in {"set", "assign"} /\ netAgreed' = netAgreed
  PROVE  InfoIInv'
<1>1. netCrossed \/ \A u \in NetTasks \ {t} : ~Identity(u)
  BY WorksAlone DEF Identity
<1>2. netAgreed' \in [Parts -> NetValues \cup {Cleared}]
  BY DEF InfoIInv, NetIInv, NetTyped
<1>3. Sees(t)' /\ Saves(t)' /\ Restores(t)'
  BY DEF Sees, Saves, Restores, Doing
<1>4. (~Identity(t))' => netReg' = netAgreed'
  BY DEF Identity
<1> QED BY <1>1, <1>2, <1>3, <1>4, AloneKeepsInfo DEF InfoIInv

(* wizchip_setnetinfo, default_ip_assign and a reset that fails.           *)
LEMMA WriterKeepsInfo ==
  ASSUME InfoIInv, NetIInv', NEW t \in NetTasks,
         SetNetInfo(t) \/ Assign(t) \/ ResetFails(t)
  PROVE  InfoIInv'
<1>i. NetIInv
  BY DEF InfoIInv
<1>1. /\ netWork[t].op \in {"set", "assign", "reset"} /\ netCrossed' = netCrossed
      /\ netWork[t].op # "assign" => netHolder = t
      /\ netReg' \in [Parts -> NetValues \cup {Cleared}]
  BY <1>i, HolderCalls DEF SetNetInfo, Assign, ResetFails, Doing, NetIInv, NetTyped
<1>2. \/ GoOn(t) /\ netAgreed' = netAgreed /\ netWork[t].op # "reset"
      \/ /\ Finish(t) /\ netAgreed' = netReg'
         /\ netHolder' = netHolder \/ (netHolder' = NetFree /\ netHolder = t)
  BY <1>1 DEF SetNetInfo, Assign, ResetFails, Unlock, Doing, netChip
<1>3. /\ \A u \in NetTasks \ {t} : netWork'[u] = netWork[u]
      /\ \/ netWork'[t].op = "idle" /\ netAgreed' = netReg'
         \/ netWork'[t].op \in {"set", "assign"} /\ netAgreed' = netAgreed
  BY <1>i, <1>1, <1>2, CallGoesOn, CallEnds
<1> QED BY <1>1, <1>3, WritersAgree

(* A register is read while the identity is as agreed: so is what is read. *)
LEMMA ReadKeepsInfo ==
  ASSUME InfoIInv, NetIInv', NEW t \in NetTasks,
         \/ Doing(t, "get") /\ Step(t) <= NetParts + 1
         \/ Doing(t, "reset") /\ Step(t) <= NetParts,
         Reads(t, Step(t), netReg[Step(t)]),
         UNCHANGED <<netReg, netAgreed, netCrossed>>
  PROVE  InfoIInv'
<1> DEFINE part == Step(t)
           value == netReg[part]
<1>1. /\ NetIInv /\ netWork \in NetWorks /\ Step(t) \in Nat
      /\ netReg \in [Parts -> NetValues \cup {Cleared}]
  BY DEF InfoIInv, NetIInv, NetTyped, NetWorks, Step
<1>2. /\ netWork'[t].op = netWork[t].op
      /\ netWork'[t].step = netWork[t].step + 1
      /\ \A p \in Parts : netWork'[t].seen[p] =
           IF p = part THEN value ELSE netWork[t].seen[p]
      /\ \A u \in NetTasks \ {t} : netWork'[u] = netWork[u]
  <2>1. part \in Parts => value \in NetSeen
    BY <1>1 DEF NetSeen
  <2>2. Reads(t, part, value)
    OBVIOUS
  <2> HIDE DEF part, value
  <2> QED BY <1>1, <2>1, <2>2, CallReads
<1>3. Identity(t) /\ Identity(t)'
  BY <1>2 DEF Identity, Doing
<1>4. netCrossed \/ \A u \in NetTasks \ {t} : ~Identity(u)
  BY <1>3, WorksAlone
<1>5. Step(t)' = Step(t) + 1
  BY <1>2 DEF Step
<1>6. ASSUME ~netCrossed PROVE Sees(t)' /\ Saves(t)' /\ Restores(t)'
  <2>1. /\ Step(t) >= 1 /\ netReg = netAgreed
        /\ \A p \in Parts : p < Step(t) => netWork[t].seen[p] = netAgreed[p]
    BY <1>1, <1>6, NetAssumption DEF InfoIInv, InfoParts, Sees, Saves, Doing
  <2>2. \A p \in Parts : p < Step(t)' => netWork'[t].seen[p] = netAgreed[p]
    <3> SUFFICES ASSUME NEW p \in Parts, p < Step(t) + 1
                 PROVE  netWork'[t].seen[p] = netAgreed[p]
      BY <1>5
    <3>1. p \in Int
      BY NetAssumption DEF Parts
    <3>2. p = Step(t) \/ p < Step(t)
      BY <1>1, <3>1
    <3> QED BY <1>2, <2>1, <3>2
  <2>3. /\ Step(t)' \in 1 .. NetParts + 2
        /\ Doing(t, "reset") => Step(t)' <= NetParts + 1
    BY <1>1, <1>5, <2>1, NetAssumption DEF Doing
  <2>4. /\ Doing(t, "get")' <=> Doing(t, "get")
        /\ Doing(t, "reset")' <=> Doing(t, "reset")
    BY <1>2 DEF Doing
  <2>5. Sees(t)'
    BY <2>1, <2>2, <2>3 DEF Sees
  <2>6. Saves(t)'
    BY <2>1, <2>2, <2>3 DEF Saves
  <2>7. Restores(t)'
    BY <2>3, <2>4, NetAssumption DEF Restores
  <2> QED BY <2>5, <2>6, <2>7
<1> QED BY <1>2, <1>3, <1>4, <1>6, AloneKeepsInfo DEF InfoIInv

(* wizchip_getnetinfo and the first half of wizchip_sw_reset.              *)
LEMMA ReaderKeepsInfo ==
  ASSUME InfoIInv, NetIInv', NEW t \in NetTasks, GetNetInfo(t) \/ ResetSave(t)
  PROVE  InfoIInv'
<1>1. UNCHANGED <<netReg, netAgreed, netCrossed>> /\ NetIInv /\ Step(t) \in Nat
  BY DEF GetNetInfo, ResetSave, netChip, netHist, InfoIInv, NetIInv, NetTyped,
     NetWorks, Step
<1>2. CASE GetNetInfo(t) /\ Step(t) > NetParts + 1
  <2>1. Doing(t, "get") /\ Finish(t) /\ netHolder' = NetFree /\ netHolder = t
    BY <1>1, <1>2, HolderCalls DEF GetNetInfo, Unlock, Doing
  <2>2. netWork'[t].op = "idle" /\ \A u \in NetTasks \ {t} : netWork'[u] = netWork[u]
    BY <1>1, <2>1, CallEnds
  <2>3. netCrossed \/ netReg = netAgreed
    BY <2>1 DEF InfoIInv, InfoParts, Sees
  <2>4. netCrossed \/ \A u \in NetTasks \ {t} : ~Identity(u)
    BY <2>1, WorksAlone DEF Identity, Doing
  <2>5. Sees(t)' /\ Saves(t)' /\ Restores(t)'
    BY <2>2 DEF Sees, Saves, Restores, Doing
  <2> QED BY <1>1, <2>2, <2>3, <2>4, <2>5, AloneKeepsInfo DEF InfoIInv
<1>3. CASE GetNetInfo(t) /\ ~(Step(t) > NetParts + 1)
  <2>1. Doing(t, "get") /\ Step(t) <= NetParts + 1 /\ Reads(t, Step(t), netReg[Step(t)])
    BY <1>1, <1>3, NetAssumption DEF GetNetInfo, Reads
  <2> QED BY <1>1, <2>1, ReadKeepsInfo
<1>4. CASE ResetSave(t)
  <2>1. Doing(t, "reset") /\ Step(t) <= NetParts /\ Reads(t, Step(t), netReg[Step(t)])
    BY <1>4 DEF ResetSave, Reads
  <2> QED BY <1>1, <2>1, ReadKeepsInfo
<1> QED BY <1>2, <1>3, <1>4

-----------------------------------------------------------------------------
(* MR_RST clears the registers: every one of them has been saved.          *)
LEMMA ResetKeepsInfo ==
  ASSUME InfoIInv, NetIInv', NEW t \in NetTasks, ResetChip(t)
  PROVE  InfoIInv'
<1>1. /\ NetIInv /\ Doing(t, "reset") /\ Step(t) = NetParts + 1 /\ GoOn(t)
      /\ netReg' = [p \in Parts |-> IF p <= NetParts THEN Cleared ELSE netReg[p]]
      /\ netAgreed' = netAgreed /\ netCrossed' = netCrossed
      /\ netWork \in NetWorks
  BY DEF ResetChip, InfoIInv, NetIInv, NetTyped
<1>2. /\ netWork'[t].op = "reset" /\ netWork'[t].seen = netWork[t].seen
      /\ Step(t)' = NetParts + 2
      /\ \A u \in NetTasks \ {t} : netWork'[u] = netWork[u]
  BY <1>1, NetAssumption DEF GoOn, Doing, NetWorks, Step
<1>3. netCrossed \/ \A u \in NetTasks \ {t} : ~Identity(u)
  BY <1>1, WorksAlone DEF Identity, Doing
<1>4. ASSUME ~netCrossed PROVE Sees(t)' /\ Saves(t)' /\ Restores(t)'
  <2>1. /\ netReg = netAgreed
        /\ \A p \in Parts : p < NetParts + 1 => netWork[t].seen[p] = netAgreed[p]
    BY <1>1, <1>4, NetAssumption DEF InfoIInv, InfoParts, Saves
  <2>2. \A p \in 1 .. NetParts : netWork'[t].seen[p] = netAgreed'[p]
    BY <1>1, <1>2, <2>1, NetAssumption DEF Parts
  <2>3. \A p \in Parts : p < 1 \/ p = NetParts + 1 => netReg'[p] = netAgreed'[p]
    BY <1>1, <2>1, NetAssumption DEF Parts
  <2>4. Step(t)' - NetParts - 1 = 1 /\ Step(t)' > NetParts + 1
        /\ Step(t)' <= 2 * NetParts + 1
    BY <1>2, NetAssumption
  <2>5. Restores(t)'
    BY <2>2, <2>3, <2>4 DEF Restores
  <2>6. Sees(t)' /\ Saves(t)'
    BY <1>2, <2>4, NetAssumption DEF Sees, Saves, Doing
  <2> QED BY <2>5, <2>6
<1>5. Identity(t)'
  BY <1>2 DEF Identity
<1> QED BY <1>1, <1>2, <1>3, <1>4, <1>5, AloneKeepsInfo DEF InfoIInv

(* A register is written back; with the last one the identity is whole.    *)
LEMMA RestoreKeepsInfo ==
  ASSUME InfoIInv, NetIInv', NEW t \in NetTasks, ResetRestore(t)
  PROVE  InfoIInv'
<1> DEFINE part == Step(t) - NetParts - 1
<1>1. /\ NetIInv /\ Doing(t, "reset") /\ Step(t) > NetParts + 1
      /\ netReg' = [netReg EXCEPT ![part] = netWork[t].seen[part]]
      /\ netAgreed' = netAgreed /\ netCrossed' = netCrossed
      /\ netWork \in NetWorks /\ Step(t) \in Nat
      /\ netReg \in [Parts -> NetValues \cup {Cleared}]
      /\ netAgreed \in [Parts -> NetValues \cup {Cleared}]
      /\ netHolder = t
  BY HolderCalls DEF ResetRestore, Write, netHist, InfoIInv, NetIInv, NetTyped,
     NetWorks, Step, Doing
<1>2. part \in Nat /\ part >= 1 /\ NetParts \in Nat
  BY <1>1, NetAssumption
<1>3. netCrossed \/ \A u \in NetTasks \ {t} : ~Identity(u)
  BY <1>1, WorksAlone DEF Identity, Doing
<1>4. ASSUME ~netCrossed
      PROVE  /\ part <= NetParts
             /\ \A p \in 1 .. NetParts : netWork[t].seen[p] = netAgreed[p]
             /\ \A p \in Parts : p < part + 1 \/ p = NetParts + 1 =>
                  netReg'[p] = netAgreed[p]
  <2>1. /\ Step(t) <= 2 * NetParts + 1
        /\ \A p \in 1 .. NetParts : netWork[t].seen[p] = netAgreed[p]
        /\ \A p \in Parts : p < part \/ p = NetParts + 1 => netReg[p] = netAgreed[p]
    BY <1>1, <1>4 DEF InfoIInv, InfoParts, Restores
  <2>2. part <= NetParts
    BY <1>1, <1>2, <2>1
  <2>3. ASSUME NEW p \in Parts, p < part + 1 \/ p = NetParts + 1
        PROVE  netReg'[p] = netAgreed[p]
    <3>1. p \in Nat /\ part \in 1 .. NetParts
      BY <1>2, <2>2 DEF Parts
    <3>2. p = part \/ (p # part /\ (p < part \/ p = NetParts + 1))
      BY <1>2, <2>3, <3>1
    <3> HIDE DEF part
    <3> QED BY <1>1, <2>1, <3>1, <3>2
  <2> QED BY <2>1, <2>2, <2>3
<1>5. CASE part = NetParts
  <2>1. Finish(t) /\ netHolder' = NetFree
    BY <1>5 DEF ResetRestore, Unlock
  <2>2. netWork'[t].op = "idle" /\ \A u \in NetTasks \ {t} : netWork'[u] = netWork[u]
    BY <1>1, <2>1, CallEnds
  <2>3. ASSUME ~netCrossed PROVE netReg' = netAgreed
    <3>1. netReg' \in [Parts -> NetValues \cup {Cleared}]
      BY DEF NetIInv, NetTyped
    <3>2. \A p \in Parts : netReg'[p] = netAgreed[p]
      <4> HIDE DEF part
      <4> QED BY <1>2, <1>4, <1>5, <2>3 DEF Parts
    <3> QED BY <1>1, <3>1, <3>2
  <2>4. Sees(t)' /\ Saves(t)' /\ Restores(t)'
    BY <2>2 DEF Sees, Saves, Restores, Doing
  <2> QED BY <1>1, <1>3, <2>2, <2>3, <2>4, AloneKeepsInfo DEF InfoIInv
<1>6. CASE part # NetParts
  <2>1. GoOn(t)
    BY <1>6 DEF ResetRestore
  <2>2. /\ netWork'[t].op = "reset" /\ netWork'[t].seen = netWork[t].seen
        /\ Step(t)' = Step(t) + 1
        /\ \A u \in NetTasks \ {t} : netWork'[u] = netWork[u]
    BY <1>1, <2>1 DEF GoOn, Doing, NetWorks, Step
  <2>3. /\ Step(t)' - NetParts - 1 = part + 1 /\ Step(t)' > NetParts + 1
        /\ ~netCrossed => Step(t)' <= 2 * NetParts + 1
    <3>1. ~netCrossed => part <= NetParts
      BY <1>4
    <3> QED BY <1>1, <1>2, <1>6, <2>2, <3>1
  <2>4. ASSUME ~netCrossed PROVE Sees(t)' /\ Saves(t)' /\ Restores(t)'
    <3>1. Restores(t)'
      <4> HIDE DEF part
      <4> QED BY <1>1, <1>4, <2>2, <2>3, <2>4 DEF Restores
    <3>2. ~(Step(t)' <= NetParts + 1)
      BY <1>1, <1>2, <2>2
    <3> QED BY <2>2, <3>1, <3>2 DEF Sees, Saves, Doing
  <2>5. Identity(t)'
    BY <2>2 DEF Identity
  <2> QED BY <1>1, <1>3, <2>2, <2>4, <2>5, AloneKeepsInfo DEF InfoIInv
<1> QED BY <1>5, <1>6

(* Setting RTR, RCR and the operation timeout is not about the identity.   *)
LEMMA TimeoutKeepsInfo ==
  ASSUME InfoIInv, NetIInv', NEW t \in NetTasks, SetTimeout(t) \/ SetOperation(t)
  PROVE  InfoIInv'
<1>1. /\ NetIInv /\ netWork \in NetWorks /\ netWork[t].op \in {"timeout", "operation"}
      /\ UNCHANGED <<netReg, netAgreed, netCrossed>>
  BY DEF SetTimeout, SetOperation, Doing, netChip, InfoIInv, NetIInv, NetTyped
<1>2. \A u \in NetTasks \ {t} : netWork'[u] = netWork[u]
  BY <1>1 DEF SetTimeout, SetOperation, Unlock, Finish, GoOn, NetWorks
<1>3. netWork'[t].op \in {"timeout", "operation", "idle"}
  <2>1. CASE GoOn(t) \/ Unlock(t)
    BY <1>1, <2>1 DEF Unlock, Finish, GoOn, NetWorks, AtEase
  <2>2. CASE ~GoOn(t) /\ ~Unlock(t)
    <3> DEFINE part == Step(t)
               value == netTuple[part]
    <3>1. Reads(t, part, value) /\ Step(t) \in {1, 2}
      BY <2>2 DEF SetTimeout, SetOperation, Reads, InfoIInv, NetIInv, TupleRead
    <3>2. value \in NetSeen
      BY <3>1 DEF NetSeen, InfoIInv, NetIInv, NetTyped
    <3> HIDE DEF part, value
    <3> QED BY <1>1, <3>1, <3>2, CallReads
  <2> QED BY <2>1, <2>2
<1>4. ~Identity(t) /\ ~Identity(t)'
  BY <1>1, <1>3 DEF Identity
<1> QED BY <1>1, <1>2, <1>4, OutsideKeepsInfo

LEMMA NetStepKeepsInfo == InfoIInv /\ [NetNext]_netVars => InfoIInv'
<1> SUFFICES ASSUME InfoIInv, [NetNext]_netVars
             PROVE  InfoIInv'
  OBVIOUS
<1>0. NetIInv'
  BY NetStepKeepsFloor DEF InfoIInv
<1>1. CASE UNCHANGED netVars
  BY <1>0, <1>1 DEF netVars, netChip, netHist, InfoIInv, InfoParts, Alone, Undisputed,
     Sees, Saves, Restores, Doing, Identity, Step
<1>2. CASE NetNext
  <2>1. PICK t \in NetTasks :
          \/ \E v \in NetValues : NetBegin(t, "set", v) \/ AssignBegin(t, v)
          \/ \E op \in {"get", "reset"} : NetBegin(t, op, Cleared)
          \/ \E p \in NetTimeouts : NetBegin(t, "timeout", p)
          \/ \E o \in NetOperations : NetBegin(t, "operation", o)
          \/ SetNetInfo(t) \/ GetNetInfo(t) \/ Assign(t)
          \/ ResetSave(t) \/ ResetChip(t) \/ ResetRestore(t) \/ ResetFails(t)
          \/ SetTimeout(t) \/ SetOperation(t)
    BY <1>2 DEF NetNext
  <2>2. ASSUME \/ \E v \in NetValues : NetBegin(t, "set", v) \/ AssignBegin(t, v)
               \/ \E op \in {"get", "reset"} : NetBegin(t, op, Cleared)
               \/ \E p \in NetTimeouts : NetBegin(t, "timeout", p)
               \/ \E o \in NetOperations : NetBegin(t, "operation", o)
        PROVE  InfoIInv'
    <3>1. PICK op \in NetOps :
            \E arg : NetBegin(t, op, arg) \/ (op = "assign" /\ AssignBegin(t, arg))
      BY <2>2, Zenon DEF NetOps
    <3> QED BY <1>0, <3>1, BeginKeepsInfo
  <2>3. ASSUME SetNetInfo(t) \/ Assign(t) \/ ResetFails(t) PROVE InfoIInv'
    BY <1>0, <2>3, WriterKeepsInfo
  <2>4. ASSUME GetNetInfo(t) \/ ResetSave(t) PROVE InfoIInv'
    BY <1>0, <2>4, ReaderKeepsInfo
  <2>5. ASSUME ResetChip(t) PROVE InfoIInv'
    BY <1>0, <2>5, ResetKeepsInfo
  <2>6. ASSUME ResetRestore(t) PROVE InfoIInv'
    BY <1>0, <2>6, RestoreKeepsInfo
  <2>7. ASSUME SetTimeout(t) \/ SetOperation(t) PROVE InfoIInv'
    BY <1>0, <2>7, TimeoutKeepsInfo
  <2> QED BY <2>1, <2>2, <2>3, <2>4, <2>5, <2>6, <2>7
<1> QED BY <1>1, <1>2

(* A reader at its end has read every part.                                *)
LEMMA InfoIsKept == InfoIInv => NetInfoKept
<1> SUFFICES ASSUME InfoIInv, ~netCrossed PROVE NetInfoKept
  BY DEF NetInfoKept
<1>1. ASSUME NEW t \in NetTasks, Doing(t, "get"), Step(t) > NetParts + 1
      PROVE  netWork[t].seen = netAgreed
  <2>1. \A p \in Parts : p < Step(t)
    BY <1>1, NetAssumption DEF Parts, InfoIInv, InfoParts, Sees
  <2>2. \A p \in Parts : netWork[t].seen[p] = netAgreed[p]
    BY <1>1, <2>1 DEF InfoIInv, InfoParts, Sees
  <2>3. netWork[t].seen \in [Parts -> NetSeen] /\ netAgreed \in [Parts -> NetSeen]
    BY DEF InfoIInv, NetIInv, NetTyped, NetWorks, NetSeen
  <2> QED BY <2>2, <2>3
<1> QED BY <1>1 DEF InfoIInv, InfoParts, Undisputed, NetInfoKept

(* Among any number of tasks, with an identity of any number of registers, *)
(* whoever reads it gets what one writer left, whole, and a reset gives    *)
(* back what it found, as long as default_ip_assign has met no other call  *)
(* (wizchip_setnetinfo, wizchip_getnetinfo, wizchip_sw_reset).             *)
THEOREM IdentityIsKept == NetSpec => []NetInfoKept
<1>1. NetInit => InfoIInv
  BY InfoStarts
<1>2. InfoIInv /\ [NetNext]_netVars => InfoIInv'
  BY NetStepKeepsInfo
<1>3. InfoIInv => NetInfoKept
  BY InfoIsKept
<1> QED BY <1>1, <1>2, <1>3, PTL DEF NetSpec

-----------------------------------------------------------------------------
(* The types.  A task counts its steps up to the last one of its call.     *)
LastStep ==
  [op \in NetOps \cup {"idle"} |->
     CASE op = "idle"   -> 0
       [] op = "set"    -> NetParts + 1
       [] op = "get"    -> NetParts + 2
       [] op = "reset"  -> 2 * NetParts + 1
       [] op = "assign" -> NetParts - 1
       [] OTHER         -> 3]

StepKnown(op, step) ==
  /\ op \in NetOps \cup {"idle"} /\ step \in Nat /\ step <= LastStep[op]
  /\ op # "idle" => step >= 1

StepsKnown == \A t \in NetTasks : StepKnown(netWork[t].op, netWork[t].step)

NetTypes ==
  /\ InfoIInv /\ StepsKnown
  /\ netRequested \in NetOperations /\ netStale \in BOOLEAN

LEMMA NetTypesInit == NetInit => NetTypes
<1> SUFFICES ASSUME NetInit PROVE NetTypes
  OBVIOUS
<1>1. \A t \in NetTasks : netWork[t].op = "idle" /\ netWork[t].step = 0
  BY DEF NetInit, AtEase
<1>2. StepKnown("idle", 0)
  BY DEF StepKnown, LastStep
<1>3. StepsKnown
  BY <1>1, <1>2 DEF StepsKnown
<1> QED BY <1>3, InfoStarts DEF NetInit, NetTypes

(* What one task's step does to the tasks' steps.                          *)
Moves(t, op, step) ==
  /\ netWork'[t].op = op /\ netWork'[t].step = step
  /\ \A u \in NetTasks \ {t} : netWork'[u] = netWork[u]

LEMMA MovesKeepSteps ==
  ASSUME StepsKnown, NEW t \in NetTasks, NEW op, NEW step, Moves(t, op, step),
         StepKnown(op, step)
  PROVE  StepsKnown'
<1> SUFFICES ASSUME NEW u \in NetTasks
             PROVE  StepKnown(netWork'[u].op, netWork'[u].step)
  BY DEF StepsKnown
<1>1. CASE u = t
  BY <1>1 DEF Moves
<1>2. CASE u # t
  BY <1>2 DEF Moves, StepsKnown
<1> QED BY <1>1, <1>2

ReadsOne(t) ==
  \E part, value : Reads(t, part, value) /\ (part \in Parts => value \in NetSeen)

LEMMA GoesOn ==
  ASSUME NetIInv, NEW t \in NetTasks, GoOn(t) \/ ReadsOne(t)
  PROVE  Moves(t, netWork[t].op, netWork[t].step + 1)
<1>1. CASE GoOn(t)
  BY <1>1 DEF NetIInv, NetTyped, GoOn, Moves, NetWorks
<1>2. CASE ReadsOne(t)
  BY <1>2, CallReads DEF ReadsOne, Moves
<1> QED BY <1>1, <1>2

LEMMA Finishes ==
  ASSUME netWork \in NetWorks, NEW t \in NetTasks, Finish(t)
  PROVE  Moves(t, "idle", 0)
BY DEF Finish, AtEase, Moves, NetWorks

LEMMA NetTypesStep == NetTypes /\ [NetNext]_netVars => NetTypes'
<1> SUFFICES ASSUME NetTypes, [NetNext]_netVars PROVE NetTypes'
  OBVIOUS
<1>1. /\ InfoIInv' /\ StepsKnown /\ netWork \in NetWorks /\ NetIInv
      /\ netRequested \in NetOperations /\ netStale \in BOOLEAN
      /\ \A p \in Parts : netReg[p] \in NetSeen
      /\ netTuple[1] \in NetSeen /\ netTuple[2] \in NetSeen
  BY NetStepKeepsInfo DEF NetSeen, NetTypes, InfoIInv, NetIInv, NetTyped
<1>2. NetParts \in Nat /\ NetParts >= 2
  BY NetAssumption
<1>3. CASE UNCHANGED netVars
  BY <1>1, <1>3 DEF netVars, netFloor, netHist, NetTypes, StepsKnown
<1>4. CASE NetNext
  <2>1. PICK t \in NetTasks :
          \/ \E v \in NetValues : NetBegin(t, "set", v) \/ AssignBegin(t, v)
          \/ \E op \in {"get", "reset"} : NetBegin(t, op, Cleared)
          \/ \E p \in NetTimeouts : NetBegin(t, "timeout", p)
          \/ \E o \in NetOperations : NetBegin(t, "operation", o)
          \/ SetNetInfo(t) \/ GetNetInfo(t) \/ Assign(t)
          \/ ResetSave(t) \/ ResetChip(t) \/ ResetRestore(t) \/ ResetFails(t)
          \/ SetTimeout(t) \/ SetOperation(t)
    BY <1>4 DEF NetNext
  <2>2. /\ Step(t) \in Nat /\ Step(t) <= LastStep[netWork[t].op]
        /\ netWork[t].op # "idle" => Step(t) >= 1
    BY <1>1 DEF StepsKnown, StepKnown, Step
  <2>3. ASSUME NEW op \in NetOps, NEW arg,
               NetBegin(t, op, arg) \/ (op = "assign" /\ AssignBegin(t, arg))
        PROVE  NetTypes'
    <3>1. Moves(t, op, 1) /\ UNCHANGED <<netRequested, netStale>>
      BY <1>1, <2>3 DEF NetBegin, AssignBegin, AtEase, Moves, NetWorks, netFloor
    <3>2. StepKnown(op, 1)
      BY <1>2 DEF StepKnown, LastStep, NetOps
    <3> QED BY <1>1, <3>1, <3>2, MovesKeepSteps DEF NetTypes
  <2>4. ASSUME Finish(t),
               netRequested' \in NetOperations /\ netStale' \in BOOLEAN
        PROVE  NetTypes'
    <3>1. StepKnown("idle", 0)
      BY DEF StepKnown, LastStep
    <3> QED BY <1>1, <2>4, <3>1, Finishes, MovesKeepSteps DEF NetTypes
  <2>5. ASSUME GoOn(t) \/ ReadsOne(t),
               Step(t) < LastStep[netWork[t].op], netWork[t].op # "idle",
               netRequested' = netRequested, netStale' \in BOOLEAN
        PROVE  NetTypes'
    <3>1. Moves(t, netWork[t].op, netWork[t].step + 1)
      BY <1>1, <2>5, GoesOn
    <3>2. LastStep[netWork[t].op] \in Nat
      BY <1>1, <1>2 DEF StepsKnown, StepKnown, LastStep, NetOps
    <3>3. StepKnown(netWork[t].op, netWork[t].step + 1)
      BY <1>1, <2>2, <2>5, <3>2 DEF StepKnown, StepsKnown, Step
    <3> QED BY <1>1, <2>5, <3>1, <3>3, MovesKeepSteps DEF NetTypes
  <2>6. CASE SetNetInfo(t)
    <3>1. /\ LastStep[netWork[t].op] = NetParts + 1 /\ netWork[t].op # "idle"
          /\ UNCHANGED <<netRequested, netStale>>
      BY <2>6 DEF SetNetInfo, Doing, LastStep, NetOps, netFloor
    <3>2. Finish(t) \/ (GoOn(t) /\ Step(t) # NetParts + 1)
      BY <2>6 DEF SetNetInfo, Unlock
    <3> QED BY <1>1, <1>2, <2>2, <2>4, <2>5, <3>1, <3>2
  <2>7. CASE GetNetInfo(t)
    <3>1. /\ LastStep[netWork[t].op] = NetParts + 2 /\ netWork[t].op # "idle"
          /\ UNCHANGED <<netRequested, netStale>>
      BY <2>7 DEF GetNetInfo, Doing, LastStep, NetOps, netFloor, netHist
    <3>2. \/ Finish(t)
          \/ Reads(t, Step(t), netReg[Step(t)]) /\ Step(t) <= NetParts + 1
      BY <1>2, <2>2, <2>7 DEF GetNetInfo, Unlock, Reads
    <3>3. Finish(t) \/ (ReadsOne(t) /\ Step(t) <= NetParts + 1)
      BY <1>1, <3>2 DEF ReadsOne
    <3> QED BY <1>1, <1>2, <2>2, <2>4, <2>5, <3>1, <3>3
  <2>8. CASE Assign(t)
    <3>1. /\ LastStep[netWork[t].op] = NetParts - 1 /\ netWork[t].op # "idle"
          /\ UNCHANGED <<netRequested, netStale>>
      BY <2>8 DEF Assign, Doing, LastStep, NetOps, netFloor
    <3>2. Finish(t) \/ (GoOn(t) /\ Step(t) # NetParts - 1)
      BY <2>8 DEF Assign
    <3> QED BY <1>1, <1>2, <2>2, <2>4, <2>5, <3>1, <3>2
  <2>9. ASSUME Doing(t, "reset")
        PROVE  LastStep[netWork[t].op] = 2 * NetParts + 1 /\ netWork[t].op # "idle"
    BY <2>9 DEF Doing, LastStep, NetOps
  <2>10. CASE ResetSave(t)
    <3>1. /\ Doing(t, "reset") /\ Step(t) <= NetParts
          /\ Reads(t, Step(t), netReg[Step(t)])
          /\ UNCHANGED <<netRequested, netStale>>
      BY <2>10 DEF ResetSave, Reads, netFloor, netHist
    <3>2. ReadsOne(t)
      BY <1>1, <3>1 DEF ReadsOne
    <3> QED BY <1>1, <1>2, <2>2, <2>5, <2>9, <3>1, <3>2
  <2>11. CASE ResetChip(t)
    <3>1. /\ Doing(t, "reset") /\ Step(t) = NetParts + 1 /\ GoOn(t)
          /\ netRequested' = netRequested /\ netStale' = TRUE
      BY <2>11 DEF ResetChip, netFloor
    <3> QED BY <1>2, <2>2, <2>5, <2>9, <3>1
  <2>12. CASE ResetRestore(t)
    <3>1. /\ Doing(t, "reset") /\ UNCHANGED <<netRequested, netStale>>
          /\ Finish(t) \/ (GoOn(t) /\ Step(t) - NetParts - 1 # NetParts)
      BY <2>12 DEF ResetRestore, Unlock, netFloor, netHist
    <3> QED BY <1>1, <1>2, <2>2, <2>4, <2>5, <2>9, <3>1
  <2>13. CASE ResetFails(t)
    <3>1. Finish(t) /\ UNCHANGED <<netRequested, netStale>>
      BY <2>13 DEF ResetFails, Unlock, netFloor
    <3> QED BY <1>1, <2>4, <3>1
  <2>14. CASE SetTimeout(t)
    <3>1. LastStep[netWork[t].op] = 3 /\ netWork[t].op # "idle"
      BY <2>14 DEF SetTimeout, Doing, LastStep, NetOps
    <3>2. CASE Step(t) = 3
      <4>1. Finish(t) /\ netRequested' = netRequested /\ netStale' = FALSE
        BY <2>14, <3>2 DEF SetTimeout, Floor, Unlock
      <4> QED BY <1>1, <2>4, <4>1
    <3>3. CASE Step(t) # 3
      <4>1. GoOn(t) /\ UNCHANGED <<netRequested, netStale>>
        BY <2>14, <3>3 DEF SetTimeout, netFloor
      <4>2. Step(t) < 3
        BY <2>2, <3>1, <3>3
      <4> QED BY <1>1, <2>5, <3>1, <4>1, <4>2
    <3> QED BY <3>2, <3>3
  <2>15. CASE SetOperation(t)
    <3>1. /\ LastStep[netWork[t].op] = 3 /\ netWork[t].op = "operation"
          /\ netWork[t].arg \in NetOperations
      BY <2>15 DEF SetOperation, Doing, LastStep, NetOps, NetTypes, InfoIInv,
                   NetIInv, TupleRead
    <3>2. CASE Step(t) = 3
      BY <2>4, <2>15, <3>1, <3>2 DEF SetOperation, Floor, Unlock
    <3>3. CASE Step(t) # 3
      <4>1. /\ Reads(t, Step(t), netTuple[Step(t)])
            /\ UNCHANGED <<netRequested, netStale>>
        BY <2>15, <3>3 DEF SetOperation, Reads, netFloor
      <4>2. Step(t) \in {1, 2}
        BY <2>2, <3>1, <3>3
      <4>3. ReadsOne(t)
        BY <1>1, <4>1, <4>2 DEF ReadsOne
      <4> QED BY <1>1, <2>5, <3>1, <4>1, <4>2, <4>3
    <3> QED BY <3>2, <3>3
  <2>16. CASE \E v \in NetValues : NetBegin(t, "set", v) \/ AssignBegin(t, v)
    BY <2>3, <2>16 DEF NetOps
  <2>17. CASE \/ \E op \in {"get", "reset"} : NetBegin(t, op, Cleared)
              \/ \E p \in NetTimeouts : NetBegin(t, "timeout", p)
              \/ \E o \in NetOperations : NetBegin(t, "operation", o)
    <3>1. PICK op \in NetOps : \E arg : NetBegin(t, op, arg)
      BY <2>17, Zenon DEF NetOps
    <3> QED BY <2>3, <3>1
  <2> QED BY <2>1, <2>6, <2>7, <2>8, <2>10, <2>11, <2>12, <2>13, <2>14, <2>15,
             <2>16, <2>17
<1> QED BY <1>3, <1>4

LEMMA NetIsTyped == NetTypes => NetTypeOK
<1> SUFFICES ASSUME NetTypes PROVE NetTypeOK
  OBVIOUS
<1>1. NetParts \in Nat /\ NetParts >= 2
  BY NetAssumption
<1>2. ASSUME NEW t \in NetTasks
      PROVE  /\ netWork[t].op \in NetOps \cup {"idle"}
             /\ netWork[t].step \in 0 .. 2 * NetParts + 1
  <2>1. /\ netWork[t].op \in NetOps \cup {"idle"} /\ netWork[t].step \in Nat
        /\ netWork[t].step <= LastStep[netWork[t].op]
    BY DEF NetTypes, StepsKnown, StepKnown
  <2>2. LastStep[netWork[t].op] \in Int /\ LastStep[netWork[t].op] <= 2 * NetParts + 1
    BY <1>1, <2>1 DEF LastStep, NetOps
  <2>3. netWork[t].step <= 2 * NetParts + 1 /\ 2 * NetParts + 1 \in Nat
    BY <1>1, <2>1, <2>2
  <2> QED BY <2>1, <2>3
<1> QED BY <1>2 DEF NetTypes, InfoIInv, NetIInv, NetTyped, NetTypeOK

(* Every task, register and timeout is what it is declared to be, and a    *)
(* call ends after its last step (wizchip_setnetinfo to                    *)
(* wizchip_set_operation_timeout_us).                                      *)
THEOREM SettingsTyped == NetSpec => []NetTypeOK
<1> QED BY NetTypesInit, NetTypesStep, NetIsTyped, PTL DEF NetSpec
=============================================================================
