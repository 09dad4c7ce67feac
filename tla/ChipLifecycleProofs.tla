------------------------- MODULE ChipLifecycleProofs -------------------------
(***************************************************************************)
(* For any number of tasks and sockets: the types of the root's state,     *)
(* that a reset or an initialisation of the controller runs alone, that    *)
(* the size caches agree with the hardware, and that the locks implement   *)
(* ExclusiveAccess.                                                        *)
(***************************************************************************)
EXTENDS ChipLifecycle, TLAPS

USE ConstantAssumption DEF Sockets, Nobody

-----------------------------------------------------------------------------
(* The locks a task holds at each of its steps *)

Holds(t, n) == lock[n] = t

LocksHeld(t) ==
  /\ pc[t] = "lock" =>
       Holds(t, 0) /\ \A n \in Sockets : n < at[t] => Holds(t, n)
  /\ pc[t] \in Transacting => \A n \in 0..NSock : Holds(t, n)
  /\ pc[t] = "unlock" => \A n \in 0..NSock : n <= at[t] => Holds(t, n)
  /\ pc[t] \in {"opening", "using"} => Holds(t, at[t])
  /\ pc[t] \in {"port_held", "sizing"} => Holds(t, 0)

\* What each task is doing, and to which lock: the part of the type
\* invariant the argument needs.
TaskTypes ==
  /\ lock \in [0..NSock -> Tasks \cup {Nobody}]
  /\ pc \in [Tasks -> {"idle", "lock", "clear", "reset", "refresh",
                       "configure", "check", "unlock", "publish", "port",
                       "port_held", "open", "opening", "using", "sizing"}]
  /\ at \in [Tasks -> 0..NSock]
  /\ \A t \in Tasks :
       pc[t] \in {"lock", "refresh", "configure", "open", "opening", "using",
                  "sizing", "port", "port_held"} => at[t] \in Sockets

\* A transaction knows what it is.
KindKnown ==
  /\ kind \in [Tasks -> {"none"} \cup Kinds]
  /\ \A t \in Tasks :
       pc[t] \in {"lock"} \cup Transacting => kind[t] \in Kinds

LockInv == TaskTypes /\ KindKnown /\ \A t \in Tasks : LocksHeld(t)

LEMMA LockInit == Init => LockInv
  BY DEF Init, LockInv, TaskTypes, KindKnown, LocksHeld, Transacting

LEMMA KindStep == LockInv /\ [Next]_vars => KindKnown'
  <1> SUFFICES ASSUME LockInv, [Next]_vars PROVE KindKnown'
    OBVIOUS
  <1> USE DEF LockInv, TaskTypes, KindKnown, Transacting, Goto, Return, GiveUp,
          Succeed, tasks
  <1>1. ASSUME NEW t \in Tasks, LockSocket(t) PROVE KindKnown'
    BY <1>1 DEF LockSocket
  <1>2. ASSUME NEW t \in Tasks, OpenPortLock(t) PROVE KindKnown'
    BY <1>2 DEF OpenPortLock
  <1>3. ASSUME NEW t \in Tasks, OpenLock(t) PROVE KindKnown'
    BY <1>3 DEF OpenLock
  <1>4. ASSUME NEW t \in Tasks, ClearState(t) PROVE KindKnown'
    BY <1>4 DEF ClearState
  <1>5. ASSUME NEW t \in Tasks, ResetChip(t) PROVE KindKnown'
    <2>1. kind' = kind /\ kind[t] \in Kinds
      BY <1>5 DEF ResetChip
    <2>2. CASE GiveUp(t)
      BY <2>1, <2>2
    <2>3. CASE Goto(t, AfterReset[kind[t]])
      BY <2>1, <2>3
    <2> QED
      BY <1>5, <2>2, <2>3 DEF ResetChip
  <1>6. ASSUME NEW t \in Tasks, RefreshCache(t) PROVE KindKnown'
    BY <1>6 DEF RefreshCache
  <1>7. ASSUME NEW t \in Tasks, ConfigureSize(t) PROVE KindKnown'
    BY <1>7 DEF ConfigureSize
  <1>8. ASSUME NEW t \in Tasks, CheckIdentity(t) PROVE KindKnown'
    BY <1>8 DEF CheckIdentity
  <1>9. ASSUME NEW t \in Tasks, Unlock(t) PROVE KindKnown'
    BY <1>9 DEF Unlock
  <1>10. ASSUME NEW t \in Tasks, Publish(t) PROVE KindKnown'
    BY <1>10 DEF Publish
  <1>11. ASSUME NEW t \in Tasks, OpenPortUnlock(t) PROVE KindKnown'
    BY <1>11 DEF OpenPortUnlock
  <1>12. ASSUME NEW t \in Tasks, OpenUnlock(t) PROVE KindKnown'
    BY <1>12 DEF OpenUnlock
  <1>13. ASSUME NEW t \in Tasks, UseUnlock(t) PROVE KindKnown'
    BY <1>13 DEF UseUnlock
  <1>14. ASSUME NEW t \in Tasks, SizeUnlock(t) PROVE KindKnown'
    BY <1>14 DEF SizeUnlock
  <1>15. ASSUME NEW t \in Tasks, LockGlobal(t) PROVE KindKnown'
    BY <1>15 DEF LockGlobal
  <1>16. ASSUME NEW t \in Tasks, OpenCheck(t) PROVE KindKnown'
    BY <1>16 DEF OpenCheck
  <1>17. ASSUME NEW t \in Tasks, UseLock(t) PROVE KindKnown'
    BY <1>17 DEF UseLock
  <1>18. ASSUME NEW t \in Tasks, SizeLock(t) PROVE KindKnown'
    BY <1>18 DEF SizeLock
  <1>19. CASE MarkFaulted \/ ClearLastError \/ Recover
    BY <1>19 DEF MarkFaulted, ClearLastError, Recover
  <1>20. CASE UNCHANGED vars
    BY <1>20 DEF vars
  <1> QED
    BY <1>1, <1>2, <1>3, <1>4, <1>5, <1>6, <1>7, <1>8, <1>9,
       <1>10, <1>11, <1>12, <1>13, <1>14, <1>15, <1>16, <1>17, <1>18,
       <1>19, <1>20
       DEF Next, Taking, Working, Calling

LEMMA LockStep == LockInv /\ [Next]_vars => LockInv'
  <1> SUFFICES ASSUME LockInv, [Next]_vars PROVE LockInv'
    OBVIOUS
  <1>0. KindKnown'
    BY KindStep
  <1> USE <1>0 DEF LockInv, TaskTypes, LocksHeld, Holds, Transacting, Goto,
          MoveTo, Return, Acquire, Release, GiveUp, Succeed, tasks
  <1>1. ASSUME NEW t \in Tasks, LockSocket(t) PROVE LockInv'
    <2>1. lock[at[t]] = Nobody /\ lock' = [lock EXCEPT ![at[t]] = t]
      BY <1>1 DEF LockSocket
    <2>2. CASE at[t] < NSock
      <3>1. pc' = pc /\ at' = [at EXCEPT ![t] = at[t] + 1] /\ kind' = kind
        BY <1>1, <2>2 DEF LockSocket
      <3>2. TaskTypes'
        BY <1>1, <2>1, <2>2, <3>1 DEF LockSocket
      <3>3. ASSUME NEW u \in Tasks PROVE LocksHeld(u)'
        BY <1>1, <2>1, <2>2, <3>1, <3>3 DEF LockSocket
      <3> QED
        BY <3>2, <3>3
    <2>3. CASE at[t] = NSock
      <3>1. pc' = [pc EXCEPT ![t] = "clear"] /\ at' = at /\ kind' = kind
        BY <1>1, <2>3 DEF LockSocket
      <3>2. TaskTypes'
        BY <1>1, <2>1, <3>1 DEF LockSocket
      <3>3. ASSUME NEW u \in Tasks PROVE LocksHeld(u)'
        BY <1>1, <2>1, <2>3, <3>1, <3>3 DEF LockSocket
      <3> QED
        BY <3>2, <3>3
    <2> QED
      BY <2>2, <2>3
  <1>2. ASSUME NEW t \in Tasks, OpenPortLock(t) PROVE LockInv'
    BY <1>2 DEF OpenPortLock
  <1>3. ASSUME NEW t \in Tasks, OpenLock(t) PROVE LockInv'
    BY <1>3 DEF OpenLock
  <1>4. ASSUME NEW t \in Tasks, ClearState(t) PROVE LockInv'
    BY <1>4 DEF ClearState
  <1>5. ASSUME NEW t \in Tasks, ResetChip(t) PROVE LockInv'
    <2>1. CASE GiveUp(t)
      BY <1>5, <2>1 DEF ResetChip
    <2>2. CASE Goto(t, AfterReset[kind[t]]) /\ MoveTo(t, 1)
      <3>1. kind[t] \in {"reset", "init", "init_default"}
        BY <1>5 DEF ResetChip, KindKnown
      <3> QED
        BY <1>5, <2>2, <3>1 DEF ResetChip, AfterReset
    <2> QED
      BY <1>5, <2>1, <2>2 DEF ResetChip
  <1>6. ASSUME NEW t \in Tasks, RefreshCache(t) PROVE LockInv'
    <2>1. CASE GiveUp(t)
      BY <1>6, <2>1 DEF RefreshCache
    <2>2. CASE at[t] < NSock /\ MoveTo(t, at[t] + 1) /\ UNCHANGED pc
      BY <1>6, <2>2 DEF RefreshCache
    <2>3. CASE Succeed(t)
      BY <1>6, <2>3 DEF RefreshCache
    <2> QED
      BY <1>6, <2>1, <2>2, <2>3 DEF RefreshCache
  <1>7. ASSUME NEW t \in Tasks, ConfigureSize(t) PROVE LockInv'
    BY <1>7 DEF ConfigureSize
  <1>8. ASSUME NEW t \in Tasks, CheckIdentity(t) PROVE LockInv'
    BY <1>8 DEF CheckIdentity
  <1>9. ASSUME NEW t \in Tasks, Unlock(t) PROVE LockInv'
    <2>1. at[t] \in 0..NSock /\ lock' = [lock EXCEPT ![at[t]] = Nobody]
      BY <1>9 DEF Unlock
    <2>2. CASE at[t] > 0
      BY <1>9, <2>1, <2>2 DEF Unlock
    <2>3. CASE at[t] = 0
      BY <1>9, <2>1, <2>3 DEF Unlock
    <2> QED
      BY <2>1, <2>2, <2>3
  <1>10. ASSUME NEW t \in Tasks, Publish(t) PROVE LockInv'
    BY <1>10 DEF Publish
  <1>11. ASSUME NEW t \in Tasks, OpenPortUnlock(t) PROVE LockInv'
    BY <1>11 DEF OpenPortUnlock
  <1>12. ASSUME NEW t \in Tasks, OpenUnlock(t) PROVE LockInv'
    BY <1>12 DEF OpenUnlock
  <1>13. ASSUME NEW t \in Tasks, UseUnlock(t) PROVE LockInv'
    BY <1>13 DEF UseUnlock
  <1>14. ASSUME NEW t \in Tasks, SizeUnlock(t) PROVE LockInv'
    BY <1>14 DEF SizeUnlock
  <1>15. ASSUME NEW t \in Tasks, LockGlobal(t) PROVE LockInv'
    BY <1>15 DEF LockGlobal
  <1>16. ASSUME NEW t \in Tasks, OpenCheck(t) PROVE LockInv'
    <2>1. PICK s \in Sockets : at' = [at EXCEPT ![t] = s]
      BY <1>16 DEF OpenCheck
    <2>2. CASE Goto(t, "port")
      BY <1>16, <2>1, <2>2 DEF OpenCheck
    <2>3. CASE Goto(t, "open")
      BY <1>16, <2>1, <2>3 DEF OpenCheck
    <2> QED
      BY <1>16, <2>2, <2>3 DEF OpenCheck
  <1>17. ASSUME NEW t \in Tasks, UseLock(t) PROVE LockInv'
    BY <1>17 DEF UseLock
  <1>18. ASSUME NEW t \in Tasks, SizeLock(t) PROVE LockInv'
    BY <1>18 DEF SizeLock
  <1>19. CASE MarkFaulted \/ ClearLastError \/ Recover
    BY <1>19 DEF MarkFaulted, ClearLastError, Recover
  <1>20. CASE UNCHANGED vars
    BY <1>20 DEF vars
  <1> QED
    BY <1>1, <1>2, <1>3, <1>4, <1>5, <1>6, <1>7, <1>8, <1>9,
       <1>10, <1>11, <1>12, <1>13, <1>14, <1>15, <1>16, <1>17, <1>18,
       <1>19, <1>20
       DEF Next, Taking, Working, Calling

-----------------------------------------------------------------------------
LEMMA LockInvariant == Spec => []LockInv
  <1>1. Init => LockInv
    BY LockInit
  <1>2. LockInv /\ [Next]_vars => LockInv'
    BY LockStep
  <1> QED
    BY <1>1, <1>2, PTL DEF Spec

\* wizchip_sw_reset and wizchip_init work on the controller while no other
\* task is inside a call, however many tasks reset it or use its sockets.
THEOREM ResetRunsAlone == Spec => []TransactionAlone
  <1>1. LockInv => TransactionAlone
    BY DEF LockInv, TaskTypes, LocksHeld, Holds, TransactionAlone,
       Transacting, InCall
  <1> QED
    BY <1>1, LockInvariant, PTL

-----------------------------------------------------------------------------
(* The types of the root's state *)

LEMMA TypesStep == LockInv /\ TypeOK /\ [Next]_vars => TypeOK'
  <1> SUFFICES ASSUME LockInv, TypeOK, [Next]_vars PROVE TypeOK'
    OBVIOUS
  <1>0. LockInv'
    BY LockStep
  <1> USE <1>0 DEF LockInv, TaskTypes, KindKnown, TypeOK, Goto, MoveTo, Return,
          Acquire, Release, GiveUp, Succeed, SpiFault, MayFail, tasks, chip, root
  <1>1. ASSUME NEW t \in Tasks, LockSocket(t) PROVE TypeOK'
    BY <1>1 DEF LockSocket
  <1>2. ASSUME NEW t \in Tasks, OpenPortLock(t) PROVE TypeOK'
    BY <1>2 DEF OpenPortLock
  <1>3. ASSUME NEW t \in Tasks, OpenLock(t) PROVE TypeOK'
    BY <1>3 DEF OpenLock
  <1>4. ASSUME NEW t \in Tasks, ClearState(t) PROVE TypeOK'
    BY <1>4 DEF ClearState
  <1>5. ASSUME NEW t \in Tasks, ResetChip(t) PROVE TypeOK'
    BY <1>5 DEF ResetChip
  <1>6. ASSUME NEW t \in Tasks, RefreshCache(t) PROVE TypeOK'
    <2>1. CASE SpiFault /\ GiveUp(t) /\ UNCHANGED cache
      BY <1>6, <2>1 DEF RefreshCache
    <2>2. CASE cache' = [cache EXCEPT ![at[t]] = hwSize[at[t]]]
      <3>1. at[t] \in Sockets
        BY <1>6 DEF RefreshCache
      <3> QED
        BY <1>6, <2>2, <3>1 DEF RefreshCache
    <2> QED
      BY <1>6, <2>1, <2>2 DEF RefreshCache
  <1>7. ASSUME NEW t \in Tasks, ConfigureSize(t) PROVE TypeOK'
    <2>1. CASE GiveUp(t) /\ SpiFault /\ UNCHANGED chip
      BY <1>7, <2>1 DEF ConfigureSize
    <2>2. CASE /\ UNCHANGED <<result, root>>
               /\ \E size \in Sizes :
                    /\ cache' = [cache EXCEPT ![at[t]] = size]
                    /\ \/ hwSize' = [hwSize EXCEPT ![at[t]] = size]
                       \/ UNCHANGED hwSize
      <3>1. at[t] \in Sockets /\ UNCHANGED opened
        BY <1>7 DEF ConfigureSize
      <3>2. PICK size \in Sizes :
              /\ cache' = [cache EXCEPT ![at[t]] = size]
              /\ \/ hwSize' = [hwSize EXCEPT ![at[t]] = size]
                 \/ UNCHANGED hwSize
        BY <2>2
      <3>3. cache' \in [Sockets -> Sizes \cup {0}]
        BY <3>1, <3>2
      <3>4. hwSize' \in [Sockets -> Sizes]
        BY <3>1, <3>2
      <3> QED
        BY <2>2, <3>1, <3>3, <3>4
    <2> QED
      BY <1>7, <2>1, <2>2 DEF ConfigureSize
  <1>8. ASSUME NEW t \in Tasks, CheckIdentity(t) PROVE TypeOK'
    BY <1>8 DEF CheckIdentity
  <1>9. ASSUME NEW t \in Tasks, Unlock(t) PROVE TypeOK'
    BY <1>9 DEF Unlock
  <1>10. ASSUME NEW t \in Tasks, Publish(t) PROVE TypeOK'
    BY <1>10 DEF Publish
  <1>11. ASSUME NEW t \in Tasks, OpenPortUnlock(t) PROVE TypeOK'
    BY <1>11 DEF OpenPortUnlock
  <1>12. ASSUME NEW t \in Tasks, OpenUnlock(t) PROVE TypeOK'
    BY <1>12 DEF OpenUnlock
  <1>13. ASSUME NEW t \in Tasks, UseUnlock(t) PROVE TypeOK'
    BY <1>13 DEF UseUnlock
  <1>14. ASSUME NEW t \in Tasks, SizeUnlock(t) PROVE TypeOK'
    <2>1. at[t] \in Sockets /\ UNCHANGED <<kind, result, opened>>
      BY <1>14 DEF SizeUnlock
    <2>2. PICK size \in Sizes :
            \/ /\ hwSize' = [hwSize EXCEPT ![at[t]] = size]
               /\ \/ cache' = [cache EXCEPT ![at[t]] = size] /\ UNCHANGED root
                  \/ SpiFault /\ UNCHANGED cache
            \/ UNCHANGED chip /\ (SpiFault \/ (~SafeSpi /\ UNCHANGED root))
      BY <1>14 DEF SizeUnlock
    <2>3. cache' \in [Sockets -> Sizes \cup {0}]
      <3>1. CASE cache' = [cache EXCEPT ![at[t]] = size]
        BY <2>1, <3>1
      <3>2. CASE cache' = cache
        BY <3>2
      <3> QED
        BY <2>2, <3>1, <3>2
    <2>4. hwSize' \in [Sockets -> Sizes]
      <3>1. CASE hwSize' = [hwSize EXCEPT ![at[t]] = size]
        BY <2>1, <3>1
      <3>2. CASE hwSize' = hwSize
        BY <3>2
      <3> QED
        BY <2>2, <3>1, <3>2
    <2>5. /\ chipState' \in {"UNINIT", "READY", "FAULTED"}
          /\ lastError' \in {"OK", "IO", "FAIL"}
          /\ trusted' \in {"yes", "no"}
      BY <2>2
    <2> QED
      BY <2>1, <2>3, <2>4, <2>5
  <1>15. ASSUME NEW t \in Tasks, LockGlobal(t) PROVE TypeOK'
    BY <1>15 DEF LockGlobal
  <1>16. ASSUME NEW t \in Tasks, OpenCheck(t) PROVE TypeOK'
    BY <1>16 DEF OpenCheck
  <1>17. ASSUME NEW t \in Tasks, UseLock(t) PROVE TypeOK'
    BY <1>17 DEF UseLock
  <1>18. ASSUME NEW t \in Tasks, SizeLock(t) PROVE TypeOK'
    BY <1>18 DEF SizeLock
  <1>19. CASE MarkFaulted \/ ClearLastError \/ Recover
    BY <1>19 DEF MarkFaulted, ClearLastError, Recover
  <1>20. CASE UNCHANGED vars
    BY <1>20 DEF vars
  <1> QED
    BY <1>1, <1>2, <1>3, <1>4, <1>5, <1>6, <1>7, <1>8, <1>9,
       <1>10, <1>11, <1>12, <1>13, <1>14, <1>15, <1>16, <1>17, <1>18,
       <1>19, <1>20
       DEF Next, Taking, Working, Calling

\* Every reachable state of the root is well typed, for any number of tasks,
\* sockets and sizes.
THEOREM TypesKept == Spec => []TypeOK
  <1>1. Init => TypeOK
    BY DEF Init, TypeOK
  <1>2. LockInv /\ TypeOK /\ [Next]_vars => TypeOK'
    BY TypesStep
  <1> QED
    BY <1>1, <1>2, LockInvariant, PTL DEF Spec

-----------------------------------------------------------------------------
(* The buffer-size caches *)

\* What a transaction has done so far is coherent, and it is not trusted
\* before its end.
Filled(t) ==
  /\ pc[t] \in {"reset", "refresh", "configure", "check"} => trusted = "no"
  /\ pc[t] \in {"refresh", "configure"} =>
       \A n \in Sockets : n < at[t] => cache[n] = hwSize[n]
  /\ pc[t] = "check" => cache = hwSize

CacheInv ==
  /\ LockInv /\ TypeOK
  /\ trusted = "yes" => cache = hwSize
  /\ \A t \in Tasks : Filled(t)

\* The steps of a transaction that have several outcomes, one outcome each.
LEMMA ResetOutcome ==
  ASSUME NEW t \in Tasks, ResetChip(t)
  PROVE  /\ pc[t] = "reset"
         /\ trusted' = "no" \/ trusted' = trusted
         /\ cache' = cache
         /\ GiveUp(t) \/ (Goto(t, AfterReset[kind[t]]) /\ MoveTo(t, 1))
  BY DEF ResetChip, SpiFault, root

LEMMA ConfigureOutcome ==
  ASSUME NEW t \in Tasks, SafeSpi, ConfigureSize(t), at[t] \in Sockets
  PROVE  \/ SpiFault /\ GiveUp(t) /\ UNCHANGED chip
         \/ /\ UNCHANGED <<result, root>>
            /\ \E size \in Sizes :
                 /\ cache' = [cache EXCEPT ![at[t]] = size]
                 /\ hwSize' = [hwSize EXCEPT ![at[t]] = size]
            /\ \/ at[t] < NSock /\ MoveTo(t, at[t] + 1) /\ UNCHANGED pc
               \/ at[t] = NSock /\ Goto(t, "check")
  BY DEF ConfigureSize

LEMMA CacheStep ==
  ASSUME SafeSpi, "init_default" \notin Kinds, CacheInv, [Next]_vars
  PROVE  CacheInv'
  <1>0. LockInv' /\ TypeOK'
    BY LockStep, TypesStep DEF CacheInv
  <1> DEFINE Coherent == (trusted = "yes" => cache = hwSize) /\ \A u \in Tasks : Filled(u)
  <1> SUFFICES Coherent'
    BY <1>0 DEF CacheInv
  <1> USE DEF CacheInv, LockInv, TaskTypes, KindKnown, LocksHeld, Holds,
          Transacting, TypeOK, Filled, Goto, MoveTo, Return, Acquire, Release,
          GiveUp, Succeed, SpiFault, MayFail, tasks, chip, root
  <1>1. ASSUME NEW t \in Tasks, LockSocket(t) PROVE Coherent'
    BY <1>1 DEF LockSocket
  <1>2. ASSUME NEW t \in Tasks, OpenPortLock(t) PROVE Coherent'
    BY <1>2 DEF OpenPortLock
  <1>3. ASSUME NEW t \in Tasks, OpenLock(t) PROVE Coherent'
    BY <1>3 DEF OpenLock
  <1>4. ASSUME NEW t \in Tasks, ClearState(t) PROVE Coherent'
    BY <1>4 DEF ClearState
  <1>5. ASSUME NEW t \in Tasks, ResetChip(t) PROVE Coherent'
    <2>1. trusted = "no" /\ kind[t] \in {"reset", "init"}
      <3>1. pc[t] = "reset"
        BY <1>5, ResetOutcome
      <3>2. trusted = "no"
        BY <3>1
      <3>3. kind[t] \in Kinds
        BY <3>1
      <3> QED
        BY <3>2, <3>3
    <2>2. trusted' = "no"
      BY <1>5, <2>1, ResetOutcome
    <2>3. \A u \in Tasks : u # t => pc[u] \notin Transacting /\ pc'[u] = pc[u]
      BY <1>5, ResetOutcome
    <2>4. CASE GiveUp(t)
      BY <2>2, <2>3, <2>4
    <2>5. CASE Goto(t, AfterReset[kind[t]]) /\ MoveTo(t, 1)
      <3>1. pc'[t] \in {"refresh", "configure"} /\ at'[t] = 1
        BY <2>1, <2>5 DEF AfterReset
      <3> QED
        BY <2>2, <2>3, <3>1
    <2> QED
      BY <1>5, <2>4, <2>5 DEF ResetChip
  <1>6. ASSUME NEW t \in Tasks, RefreshCache(t) PROVE Coherent'
    <2>1. at[t] \in Sockets /\ trusted = "no" /\ UNCHANGED hwSize
      BY <1>6 DEF RefreshCache
    <2>2. \A u \in Tasks : u # t => pc[u] \notin Transacting /\ pc'[u] = pc[u]
      BY <1>6 DEF RefreshCache
    <2>3. CASE SpiFault /\ GiveUp(t) /\ UNCHANGED cache
      BY <2>1, <2>2, <2>3
    <2>4. CASE cache' = [cache EXCEPT ![at[t]] = hwSize[at[t]]]
      <3>1. \A n \in Sockets : n <= at[t] => cache'[n] = hwSize'[n]
        BY <1>6, <2>1, <2>4 DEF RefreshCache
      <3>2. CASE at[t] < NSock /\ MoveTo(t, at[t] + 1) /\ UNCHANGED <<pc, result, root>>
        <4>1. at'[t] = at[t] + 1 /\ \A n \in Sockets : n < at'[t] => n <= at[t]
          BY <2>1, <3>2
        <4> QED
          BY <1>6, <2>1, <2>2, <3>1, <3>2, <4>1 DEF RefreshCache
      <3>3. CASE at[t] = NSock /\ Succeed(t)
        <4>1. cache' = hwSize'
          BY <1>0, <2>1, <3>1, <3>3
        <4> QED
          BY <1>6, <2>2, <3>3, <4>1
      <3> QED
        BY <1>6, <2>1, <2>4, <3>2, <3>3 DEF RefreshCache
    <2> QED
      BY <1>6, <2>3, <2>4 DEF RefreshCache
  <1>7. ASSUME NEW t \in Tasks, ConfigureSize(t) PROVE Coherent'
    <2>1. at[t] \in Sockets /\ trusted = "no"
      BY <1>7 DEF ConfigureSize
    <2>2. \A u \in Tasks : u # t => pc[u] \notin Transacting /\ pc'[u] = pc[u]
      BY <1>7 DEF ConfigureSize
    <2>3. CASE SpiFault /\ GiveUp(t) /\ UNCHANGED chip
      BY <2>1, <2>2, <2>3
    <2>4. CASE /\ UNCHANGED <<result, root>>
               /\ \E size \in Sizes :
                    /\ cache' = [cache EXCEPT ![at[t]] = size]
                    /\ hwSize' = [hwSize EXCEPT ![at[t]] = size]
               /\ \/ at[t] < NSock /\ MoveTo(t, at[t] + 1) /\ UNCHANGED pc
                  \/ at[t] = NSock /\ Goto(t, "check")
      <3>1. \A n \in Sockets : n <= at[t] => cache'[n] = hwSize'[n]
        BY <1>7, <2>1, <2>4 DEF ConfigureSize
      <3>2. CASE at[t] < NSock /\ MoveTo(t, at[t] + 1) /\ UNCHANGED pc
        <4>1. at'[t] = at[t] + 1 /\ \A n \in Sockets : n < at'[t] => n <= at[t]
          BY <2>1, <3>2
        <4> QED
          BY <1>7, <2>1, <2>2, <2>4, <3>1, <3>2, <4>1
      <3>3. CASE at[t] = NSock /\ Goto(t, "check")
        <4>1. cache' = hwSize'
          BY <1>0, <2>1, <3>1, <3>3
        <4> QED
          BY <2>1, <2>2, <2>4, <3>3, <4>1
      <3> QED
        BY <2>4, <3>2, <3>3
    <2> QED
      BY <1>7, <2>1, <2>3, <2>4, ConfigureOutcome
  <1>8. ASSUME NEW t \in Tasks, CheckIdentity(t) PROVE Coherent'
    BY <1>8 DEF CheckIdentity
  <1>9. ASSUME NEW t \in Tasks, Unlock(t) PROVE Coherent'
    BY <1>9 DEF Unlock
  <1>10. ASSUME NEW t \in Tasks, Publish(t) PROVE Coherent'
    BY <1>10 DEF Publish
  <1>11. ASSUME NEW t \in Tasks, OpenPortUnlock(t) PROVE Coherent'
    BY <1>11 DEF OpenPortUnlock
  <1>12. ASSUME NEW t \in Tasks, OpenUnlock(t) PROVE Coherent'
    BY <1>12 DEF OpenUnlock
  <1>13. ASSUME NEW t \in Tasks, UseUnlock(t) PROVE Coherent'
    BY <1>13 DEF UseUnlock
  <1>14. ASSUME NEW t \in Tasks, SizeUnlock(t) PROVE Coherent'
    <2>1. at[t] \in Sockets
      BY <1>14 DEF SizeUnlock
    <2>2. \A u \in Tasks : pc[u] \notin Transacting /\ pc'[u] \notin Transacting
      BY <1>14 DEF SizeUnlock
    <2>3. CASE SpiFault
      BY <2>2, <2>3
    <2>4. CASE UNCHANGED root /\ \E size \in Sizes :
                 /\ hwSize' = [hwSize EXCEPT ![at[t]] = size]
                 /\ cache' = [cache EXCEPT ![at[t]] = size]
      BY <2>1, <2>2, <2>4
    <2> QED
      BY <1>14, <2>3, <2>4 DEF SizeUnlock
  <1>15. ASSUME NEW t \in Tasks, LockGlobal(t) PROVE Coherent'
    BY <1>15 DEF LockGlobal
  <1>16. ASSUME NEW t \in Tasks, OpenCheck(t) PROVE Coherent'
    BY <1>16 DEF OpenCheck
  <1>17. ASSUME NEW t \in Tasks, UseLock(t) PROVE Coherent'
    BY <1>17 DEF UseLock
  <1>18. ASSUME NEW t \in Tasks, SizeLock(t) PROVE Coherent'
    BY <1>18 DEF SizeLock
  <1>19. CASE MarkFaulted \/ ClearLastError \/ Recover
    BY <1>19 DEF MarkFaulted, ClearLastError, Recover
  <1>20. CASE UNCHANGED vars
    BY <1>20 DEF vars
  <1> QED
    BY <1>1, <1>2, <1>3, <1>4, <1>5, <1>6, <1>7, <1>8, <1>9,
       <1>10, <1>11, <1>12, <1>13, <1>14, <1>15, <1>16, <1>17, <1>18,
       <1>19, <1>20
       DEF Next, Taking, Working, Calling

\* Where writes are checked and buffer sizes are given, the cached sizes are
\* the controller's from a successful transaction to the next failed transfer,
\* for any number of tasks that use, resize and reset.
THEOREM CachesStayCoherent ==
  ASSUME SafeSpi, "init_default" \notin Kinds
  PROVE  Spec => []CoherentWhileTrusted
  <1>1. Init => CacheInv
    BY LockInit DEF Init, CacheInv, TypeOK, Filled
  <1>2. CacheInv /\ [Next]_vars => CacheInv'
    BY CacheStep
  <1>3. CacheInv => CoherentWhileTrusted
    BY DEF CacheInv, CoherentWhileTrusted
  <1> QED
    BY <1>1, <1>2, <1>3, PTL DEF Spec

-----------------------------------------------------------------------------
(* The locks implement exclusive access *)

\* A task that takes a free lock and goes on holding it enters the resource.
LEMMA EnterStep ==
  ASSUME LockInv, NEW t \in Tasks, NEW n \in 0..NSock, lock[n] = Nobody,
         pc[t] \notin InCall \cup Transacting,
         pc'[t] \in IF n = 0 THEN {"port_held", "sizing"} ELSE {"opening", "using"},
         n # 0 => at'[t] = n,
         \A u \in Tasks : u # t => pc'[u] = pc[u] /\ at'[u] = at[u]
  PROVE  Access!Next
  <1> USE DEF LockInv, TaskTypes, LocksHeld, Holds, InCall, Transacting
  <1>1. \A u \in Tasks : pc[u] \notin Transacting /\ pc'[u] \notin Transacting
    OBVIOUS
  <1>2. atWork = {} /\ atWork' = atWork
    BY <1>1 DEF atWork
  <1>3. usedBy[n] = {}
    BY DEF usedBy
  <1>4. ASSUME NEW m \in 0..NSock
        PROVE  usedBy'[m] = IF m = n THEN {t} ELSE usedBy[m]
    <2>1. CASE m # n
      BY <2>1 DEF usedBy
    <2>2. CASE m = n /\ n = 0
      BY <1>3, <2>2 DEF usedBy
    <2>3. CASE m = n /\ n # 0
      <3>1. \A u \in Tasks : u # t => ~(pc[u] \in {"opening", "using"} /\ at[u] = n)
        OBVIOUS
      <3> QED
        BY <2>3, <3>1 DEF usedBy
    <2> QED
      BY <2>1, <2>2, <2>3
  <1>5. usedBy' = [usedBy EXCEPT ![n] = {t}]
    BY <1>4 DEF usedBy
  <1> QED
    BY <1>2, <1>3, <1>5 DEF Access!Next, Access!Enter

\* A task inside a resource holds its lock, alone.
LEMMA LeaveStep ==
  ASSUME LockInv, NEW t \in Tasks, NEW n \in 0..NSock,
         pc[t] \in IF n = 0 THEN {"port_held", "sizing"} ELSE {"opening", "using"},
         n # 0 => at[t] = n,
         pc'[t] \notin InCall \cup Transacting,
         \A u \in Tasks : u # t => pc'[u] = pc[u] /\ at'[u] = at[u]
  PROVE  Access!Next
  <1> USE DEF LockInv, TaskTypes, LocksHeld, Holds, InCall, Transacting
  <1>1. atWork' = atWork
    BY DEF atWork
  <1>2. usedBy[n] = {t}
    BY DEF usedBy
  <1>3. ASSUME NEW m \in 0..NSock
        PROVE  usedBy'[m] = IF m = n THEN {} ELSE usedBy[m]
    BY <1>2, <1>3 DEF usedBy
  <1>4. usedBy' = [m \in 0..NSock |-> usedBy'[m]]
    BY DEF usedBy
  <1>5. usedBy = [m \in 0..NSock |-> usedBy[m]]
    BY DEF usedBy
  <1>6. usedBy' = [usedBy EXCEPT ![n] = {}]
    BY <1>3, <1>4, <1>5
  <1> QED
    BY <1>1, <1>2, <1>6 DEF Access!Next, Access!Leave

LEMMA AccessStep ==
  LockInv /\ LockInv' /\ [Next]_vars => [Access!Next]_<<atWork, usedBy>>
  <1> SUFFICES ASSUME LockInv, LockInv', [Next]_vars
               PROVE  Access!Next \/ UNCHANGED <<atWork, usedBy>>
    OBVIOUS
  <1> DEFINE Step == Access!Next \/ UNCHANGED <<atWork, usedBy>>
  <1> USE DEF LockInv, TaskTypes, LocksHeld, Holds, Transacting, InCall, Goto, MoveTo,
          Return, Acquire, Release, GiveUp, Succeed, atWork, usedBy, tasks
  <1>1. ASSUME NEW t \in Tasks, LockSocket(t) PROVE Step
    <2>1. CASE at[t] < NSock
      BY <1>1, <2>1 DEF LockSocket
    <2>2. CASE at[t] = NSock
      <3>1. Access!Begin(t)
        BY <1>1, <2>2 DEF LockSocket, Access!Begin
      <3> QED
        BY <3>1 DEF Access!Next
    <2> QED
      BY <1>1, <2>1, <2>2
  <1>2. ASSUME NEW t \in Tasks, OpenPortLock(t) PROVE Step
    BY <1>2, EnterStep DEF OpenPortLock
  <1>3. ASSUME NEW t \in Tasks, OpenLock(t) PROVE Step
    <2>1. at[t] \in Sockets /\ lock[at[t]] = Nobody /\ at' = at
      BY <1>3 DEF OpenLock
    <2>2. pc[t] = "open" /\ pc' = [pc EXCEPT ![t] = "opening"]
      BY <1>3 DEF OpenLock
    <2> QED
      BY <2>1, <2>2, EnterStep
  <1>4. ASSUME NEW t \in Tasks, ClearState(t) PROVE Step
    BY <1>4 DEF ClearState
  <1>5. ASSUME NEW t \in Tasks, ResetChip(t) PROVE Step
    <2>1. pc[t] = "reset" /\ kind[t] \in {"reset", "init", "init_default"}
      BY <1>5 DEF ResetChip, KindKnown
    <2>2. CASE GiveUp(t)
      <3>1. Access!End(t)
        BY <2>1, <2>2 DEF Access!End
      <3> QED
        BY <3>1 DEF Access!Next
    <2>3. CASE Goto(t, AfterReset[kind[t]]) /\ MoveTo(t, 1)
      <3>1. pc'[t] \in {"refresh", "configure", "check"}
        BY <2>1, <2>3 DEF AfterReset
      <3> QED
        BY <2>1, <2>3, <3>1
    <2> QED
      BY <1>5, <2>2, <2>3, ResetOutcome
  <1>6. ASSUME NEW t \in Tasks, RefreshCache(t) PROVE Step
    <2>1. Access!End(t) \/ UNCHANGED <<atWork, usedBy>>
      BY <1>6 DEF RefreshCache, Access!End
    <2> QED
      BY <2>1 DEF Access!Next
  <1>7. ASSUME NEW t \in Tasks, ConfigureSize(t) PROVE Step
    <2>1. Access!End(t) \/ UNCHANGED <<atWork, usedBy>>
      BY <1>7 DEF ConfigureSize, Access!End
    <2> QED
      BY <2>1 DEF Access!Next
  <1>8. ASSUME NEW t \in Tasks, CheckIdentity(t) PROVE Step
    <2>1. Access!End(t)
      BY <1>8 DEF CheckIdentity, Access!End
    <2> QED
      BY <2>1 DEF Access!Next
  <1>9. ASSUME NEW t \in Tasks, Unlock(t) PROVE Step
    BY <1>9 DEF Unlock
  <1>10. ASSUME NEW t \in Tasks, Publish(t) PROVE Step
    BY <1>10 DEF Publish
  <1>11. ASSUME NEW t \in Tasks, OpenPortUnlock(t) PROVE Step
    BY <1>11, LeaveStep DEF OpenPortUnlock
  <1>12. ASSUME NEW t \in Tasks, OpenUnlock(t) PROVE Step
    <2>1. at[t] \in Sockets
      BY <1>12 DEF OpenUnlock
    <2> QED
      BY <1>12, <2>1, LeaveStep DEF OpenUnlock
  <1>13. ASSUME NEW t \in Tasks, UseUnlock(t) PROVE Step
    <2>1. at[t] \in Sockets
      BY <1>13 DEF UseUnlock
    <2> QED
      BY <1>13, <2>1, LeaveStep DEF UseUnlock
  <1>14. ASSUME NEW t \in Tasks, SizeUnlock(t) PROVE Step
    BY <1>14, LeaveStep DEF SizeUnlock
  <1>15. ASSUME NEW t \in Tasks, LockGlobal(t) PROVE Step
    BY <1>15 DEF LockGlobal
  <1>16. ASSUME NEW t \in Tasks, OpenCheck(t) PROVE Step
    BY <1>16 DEF OpenCheck
  <1>17. ASSUME NEW t \in Tasks, UseLock(t) PROVE Step
    <2>1. PICK s \in Sockets : Acquire(t, s) /\ MoveTo(t, s)
      BY <1>17 DEF UseLock
    <2> QED
      BY <1>17, <2>1, EnterStep DEF UseLock
  <1>18. ASSUME NEW t \in Tasks, SizeLock(t) PROVE Step
    BY <1>18, EnterStep DEF SizeLock
  <1>19. CASE MarkFaulted \/ ClearLastError \/ Recover
    BY <1>19 DEF MarkFaulted, ClearLastError, Recover
  <1>20. CASE UNCHANGED vars
    BY <1>20 DEF vars
  <1> QED
    BY <1>1, <1>2, <1>3, <1>4, <1>5, <1>6, <1>7, <1>8, <1>9,
       <1>10, <1>11, <1>12, <1>13, <1>14, <1>15, <1>16, <1>17, <1>18,
       <1>19, <1>20
       DEF Next, Taking, Working, Calling

\* GLOBAL and the sockets' locks, taken one by one in their order, amount to
\* exclusive access, for any number of tasks and sockets.
THEOREM LocksGiveExclusiveAccess == Spec => AccessIsExclusive
  <1>1. Init => Access!Init
    BY DEF Init, Access!Init, atWork, usedBy, Transacting
  <1>2. LockInv /\ LockInv' /\ [Next]_vars => [Access!Next]_<<atWork, usedBy>>
    BY AccessStep
  <1> QED
    BY <1>1, <1>2, LockInvariant, PTL DEF Spec, AccessIsExclusive, Access!Spec
=============================================================================
