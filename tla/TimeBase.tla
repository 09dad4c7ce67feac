------------------------------ MODULE TimeBase ------------------------------
(***************************************************************************)
(* src/Ethernet/wizchip_conf.c: wizchip_time_now, which makes an endless   *)
(* timeline of a 32-bit microsecond counter, called without a lock of its  *)
(* own by every task that waits for a deadline.                            *)
(*                                                                         *)
(* A time is <<wraps, raw>>: wrap_base_us is the number of wraps.          *)
(***************************************************************************)
EXTENDS Naturals

CONSTANTS TimeTasks,       \* tasks that wait
          RawModulus,      \* 2^32 in the code
          MaxWraps         \* wraps of the counter

ASSUME TimeAssumption == RawModulus \in Nat \ {0} /\ MaxWraps \in Nat

VARIABLES
  trueTime,        \* the time there is
  lastTime,        \* the time the counter was last read
  lastRaw,         \* wrap_last_raw_us
  wrapBase,        \* wrap_base_us
  tmAt,            \* per task: "idle", "adds", "stores" or "has"
  tmRaw,           \* per task: raw
  tmRead,          \* per task: the time raw was read
  tmNow            \* per task: what wizchip_time_now returned last

tmSource == <<lastRaw, wrapBase>>
tmVars   == <<trueTime, lastTime, tmSource, tmAt, tmRaw, tmRead, tmNow>>

Raws  == 0 .. RawModulus - 1
Start == <<0, 0>>

Earlier(a, b) == a[1] < b[1] \/ (a[1] = b[1] /\ a[2] < b[2])
NextTime(t) == IF t[2] + 1 < RawModulus THEN <<t[1], t[2] + 1>> ELSE <<t[1] + 1, 0>>

TmTypeOK ==
  /\ trueTime \in Nat \X Raws /\ lastTime \in Nat \X Raws
  /\ lastRaw \in Raws /\ wrapBase \in Nat
  /\ tmAt \in [TimeTasks -> {"idle", "adds", "stores", "has"}]
  /\ tmRaw \in [TimeTasks -> Raws]
  /\ tmRead \in [TimeTasks -> Nat \X Raws]
  /\ tmNow \in [TimeTasks -> Nat \X Raws]

(* reg_wizchip_time_cbfunc resets the source.                              *)
TmInit ==
  /\ trueTime = Start /\ lastTime = Start /\ lastRaw = 0 /\ wrapBase = 0
  /\ tmAt = [t \in TimeTasks |-> "idle"] /\ tmRaw = [t \in TimeTasks |-> 0]
  /\ tmRead = [t \in TimeTasks |-> Start] /\ tmNow = [t \in TimeTasks |-> Start]

-----------------------------------------------------------------------------
(* Time passes; the counter is read more often than once in a wrap.        *)
TimePasses ==
  /\ trueTime[1] < MaxWraps \/ trueTime[2] + 1 < RawModulus
  /\ Earlier(NextTime(trueTime), <<lastTime[1] + 1, lastTime[2]>>)
  /\ trueTime' = NextTime(trueTime)
  /\ UNCHANGED <<lastTime, tmSource, tmAt, tmRaw, tmRead, tmNow>>

(* wizchip_time_now, statement by statement.                               *)
ReadRaw(t) ==
  /\ tmAt[t] \in {"idle", "has"} /\ tmAt' = [tmAt EXCEPT ![t] = "adds"]
  /\ tmRaw' = [tmRaw EXCEPT ![t] = trueTime[2]]
  /\ tmRead' = [tmRead EXCEPT ![t] = trueTime]
  /\ lastTime' = trueTime
  /\ UNCHANGED <<trueTime, tmSource, tmNow>>

(* A counter that stands still counted as a wrap.                          *)
AddWrapEqual(t) ==
  /\ tmAt[t] = "adds" /\ tmAt' = [tmAt EXCEPT ![t] = "stores"]
  /\ wrapBase' = IF tmRaw[t] <= lastRaw THEN wrapBase + 1 ELSE wrapBase
  /\ UNCHANGED <<trueTime, lastTime, lastRaw, tmRaw, tmRead, tmNow>>

AddWrap(t) ==
  /\ tmAt[t] = "adds" /\ tmAt' = [tmAt EXCEPT ![t] = "stores"]
  /\ wrapBase' = IF tmRaw[t] < lastRaw THEN wrapBase + 1 ELSE wrapBase
  /\ UNCHANGED <<trueTime, lastTime, lastRaw, tmRaw, tmRead, tmNow>>

StoreRaw(t) ==
  /\ tmAt[t] = "stores" /\ tmAt' = [tmAt EXCEPT ![t] = "has"]
  /\ lastRaw' = tmRaw[t]
  /\ tmNow' = [tmNow EXCEPT ![t] = <<wrapBase, tmRaw[t]>>]
  /\ UNCHANGED <<trueTime, lastTime, wrapBase, tmRaw, tmRead>>

TmNext ==
  TimePasses \/ \E t \in TimeTasks : ReadRaw(t) \/ AddWrap(t) \/ StoreRaw(t)

TmSpec == TmInit /\ [][TmNext]_tmVars

-----------------------------------------------------------------------------
(* What a task is told is the time at which it asked, however often the    *)
(* counter has wrapped: deadlines "stay comparable across a wrap"          *)
(* (wizchip_time_now).  So for one task; two of them may count a wrap      *)
(* twice.                                                                  *)
TimeIsReal == \A t \in TimeTasks : tmAt[t] = "has" => tmNow[t] = tmRead[t]
=============================================================================
