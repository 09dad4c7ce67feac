--------------------------- MODULE NetworkSettings ---------------------------
(***************************************************************************)
(* src/Ethernet/wizchip_conf.c: the network identity (wizchip_setnetinfo,  *)
(* wizchip_getnetinfo), the retransmission registers RTR and RCR with the  *)
(* operation timeout derived from them, and the reset that saves, clears   *)
(* and restores, each a series of bus cycles under GLOBAL, of tasks next   *)
(* to each other.  The DHCP client's default_ip_assign writes the          *)
(* addresses without a lock.                                               *)
(***************************************************************************)
EXTENDS Integers

CONSTANTS NetTasks,        \* tasks that configure
          NetParts,        \* registers of the identity: SHAR, GAR, SUBR, SIPR
          NetValues,       \* identities, each with a value for every part
          NetTimeouts,     \* <<time_100us, retry_cnt>> asked for
          NetResetTimeouts,\* RTR and RCR after a reset
          NetOperations,   \* operation timeouts asked for
          RetryUnit,       \* 100 us in the code
          RetryMargin      \* WIZCHIP_RETRY_MARGIN_US

NetFree == 0
Cleared == 0               \* a register of the identity after a reset
Parts == 1 .. NetParts + 1 \* the last one is the driver's: _DNS_ and _DHCP_

Window(tuple) == tuple[1] * RetryUnit * (tuple[2] + 1) + RetryMargin
Larger(a, b) == IF a < b THEN b ELSE a

ASSUME NetAssumption ==
  /\ NetFree \notin NetTasks /\ Cleared \notin NetValues
  /\ NetParts \in Nat \ {0, 1} /\ NetTasks # {} /\ NetValues # {}
  /\ NetTimeouts \subseteq Nat \X Nat /\ NetResetTimeouts \in Nat \X Nat
  /\ NetOperations \subseteq Nat /\ NetOperations # {}
  /\ RetryUnit \in Nat /\ RetryMargin \in Nat

VARIABLES
  netHolder,       \* who holds GLOBAL, or NetFree
  netReg,          \* the parts of the identity
  netTuple,        \* RTR and RCR
  netRequested,    \* requested_operation_timeout_us
  netOperation,    \* timeout_config.operation_timeout_us
  netWork,         \* what each task does: op, step, argument, what it has read
  netAgreed,       \* history: what the last one to write the identity left
  netStale,        \* history: was the controller reset since the last floor?
  netCrossed       \* history: has default_ip_assign met another task?

netChip  == <<netReg, netTuple>>
netFloor == <<netRequested, netOperation>>
netHist  == <<netAgreed, netStale, netCrossed>>
netVars  == <<netHolder, netChip, netFloor, netWork, netHist>>

NetOps == {"set", "get", "reset", "timeout", "operation", "assign"}
NoIdentity == [p \in Parts |-> Cleared]
AtEase == [op |-> "idle", step |-> 0, arg |-> Cleared, seen |-> NoIdentity]

NetInit ==
  /\ netHolder = NetFree
  /\ netReg = NoIdentity /\ netAgreed = netReg
  /\ netTuple = NetResetTimeouts
  /\ netRequested \in NetOperations
  /\ netRequested >= Window(NetResetTimeouts) /\ netOperation = netRequested
  /\ netWork = [t \in NetTasks |-> AtEase]
  /\ netStale = FALSE /\ netCrossed = FALSE

-----------------------------------------------------------------------------
Doing(t, op) == netWork[t].op = op
Step(t) == netWork[t].step
GoOn(t) ==
  /\ netWork' = [netWork EXCEPT ![t].step = @ + 1]
  /\ UNCHANGED netHolder
Finish(t) == netWork' = [netWork EXCEPT ![t] = AtEase]
Unlock(t) == Finish(t) /\ netHolder' = NetFree

Identity(t) == netWork[t].op \in {"set", "get", "reset", "assign"}
AssignMeets(t, op) ==
  netCrossed' =
    \/ netCrossed
    \/ \E u \in NetTasks \ {t} :
         \/ op = "assign" /\ Identity(u)
         \/ Doing(u, "assign") /\ op \in {"set", "get", "reset"}

(* A function that takes GLOBAL, without having taken it.                  *)
NetBeginUnlocked(t, op, arg) ==
  /\ Doing(t, "idle")
  /\ netHolder' = t
  /\ netWork' = [netWork EXCEPT ![t] = [AtEase EXCEPT !.op = op, !.step = 1, !.arg = arg]]
  /\ AssignMeets(t, op)
  /\ UNCHANGED <<netChip, netFloor, netAgreed, netStale>>

NetBegin(t, op, arg) ==
  /\ Doing(t, "idle") /\ netHolder = NetFree
  /\ netHolder' = t
  /\ netWork' = [netWork EXCEPT ![t] =
       [AtEase EXCEPT !.op = op, !.step = 1, !.arg = arg]]
  /\ AssignMeets(t, op)
  /\ UNCHANGED <<netChip, netFloor, netAgreed, netStale>>

Write(part, value) == netReg' = [netReg EXCEPT ![part] = value]

SetNetInfo(t) ==
  /\ Doing(t, "set")
  /\ Write(Step(t), netWork[t].arg)
  /\ IF Step(t) = NetParts + 1 THEN Unlock(t) /\ netAgreed' = netReg'
     ELSE GoOn(t) /\ UNCHANGED netAgreed
  /\ UNCHANGED <<netTuple, netFloor, netStale, netCrossed>>

GetNetInfo(t) ==
  /\ Doing(t, "get")
  /\ IF Step(t) > NetParts + 1 THEN Unlock(t)
     ELSE /\ netWork' = [netWork EXCEPT
               ![t].seen[Step(t)] = netReg[Step(t)], ![t].step = @ + 1]
          /\ UNCHANGED netHolder
  /\ UNCHANGED <<netChip, netFloor, netHist>>

(* default_ip_assign: SIPR, SUBR and GAR, in this order.                   *)
AssignBegin(t, value) ==
  /\ Doing(t, "idle")
  /\ netWork' = [netWork EXCEPT ![t] =
       [AtEase EXCEPT !.op = "assign", !.step = 1, !.arg = value]]
  /\ AssignMeets(t, "assign")
  /\ UNCHANGED <<netHolder, netChip, netFloor, netAgreed, netStale>>

Assign(t) ==
  /\ Doing(t, "assign")
  /\ Write(NetParts + 1 - Step(t), netWork[t].arg)
  /\ IF Step(t) = NetParts - 1
       THEN Finish(t) /\ netAgreed' = netReg' /\ UNCHANGED netHolder
       ELSE GoOn(t) /\ UNCHANGED netAgreed
  /\ UNCHANGED <<netTuple, netFloor, netStale, netCrossed>>

-----------------------------------------------------------------------------
(* wizchip_sw_reset_locked: the identity is read, MR_RST written, the      *)
(* identity written back; a transfer may fail at any point.                *)
ResetSave(t) ==
  /\ Doing(t, "reset") /\ Step(t) <= NetParts
  /\ netWork' = [netWork EXCEPT
       ![t].seen[Step(t)] = netReg[Step(t)], ![t].step = @ + 1]
  /\ UNCHANGED <<netHolder, netChip, netFloor, netHist>>

ResetChip(t) ==
  /\ Doing(t, "reset") /\ Step(t) = NetParts + 1
  /\ netReg' = [p \in Parts |-> IF p <= NetParts THEN Cleared ELSE netReg[p]]
  /\ netTuple' = NetResetTimeouts /\ netStale' = TRUE
  /\ GoOn(t)
  /\ UNCHANGED <<netFloor, netAgreed, netCrossed>>

(* The last register left as the reset has made it.                        *)
ResetRestoreShort(t) ==
  /\ Doing(t, "reset") /\ Step(t) > NetParts + 1
  /\ LET part == Step(t) - NetParts - 1
     IN  IF part = NetParts THEN Unlock(t) /\ UNCHANGED netReg
         ELSE GoOn(t) /\ Write(part, netWork[t].seen[part])
  /\ UNCHANGED <<netTuple, netFloor, netHist>>

ResetRestore(t) ==
  /\ Doing(t, "reset") /\ Step(t) > NetParts + 1
  /\ LET part == Step(t) - NetParts - 1
     IN  /\ Write(part, netWork[t].seen[part])
         /\ IF part = NetParts THEN Unlock(t) ELSE GoOn(t)
  /\ UNCHANGED <<netTuple, netFloor, netHist>>

ResetFails(t) ==
  /\ Doing(t, "reset")
  /\ Unlock(t) /\ netAgreed' = netReg
  /\ UNCHANGED <<netChip, netFloor, netStale, netCrossed>>

-----------------------------------------------------------------------------
(* wizchip_update_timeout_floor_locked.  The largest window there is lies  *)
(* below UINT32_MAX, so nothing is cut off.                                *)
Floor(requested, tuple) ==
  /\ netRequested' = requested
  /\ netOperation' = Larger(requested, Window(tuple))
  /\ netStale' = FALSE

(* wizchip_settimeout_locked, in three steps: RTR, RCR, the floor.         *)
SetTimeout(t) ==
  /\ Doing(t, "timeout")
  /\ LET tuple == <<Larger(netWork[t].arg[1], 1), Larger(netWork[t].arg[2], 1)>>
     IN  IF Step(t) = 3
         THEN /\ Floor(netRequested, tuple) /\ Unlock(t)
              /\ UNCHANGED netTuple
         ELSE /\ netTuple' = [netTuple EXCEPT ![Step(t)] = tuple[Step(t)]]
              /\ GoOn(t) /\ UNCHANGED <<netFloor, netStale>>
  /\ UNCHANGED <<netReg, netAgreed, netCrossed>>

(* wizchip_set_operation_timeout_us and wizchip_set_timeout_config: RTR    *)
(* and RCR are read, then the floor.                                       *)
SetOperation(t) ==
  /\ Doing(t, "operation")
  /\ IF Step(t) = 3
       THEN /\ Floor(netWork[t].arg, <<netWork[t].seen[1], netWork[t].seen[2]>>)
            /\ Unlock(t)
       ELSE /\ netWork' = [netWork EXCEPT
                 ![t].seen[Step(t)] = netTuple[Step(t)], ![t].step = @ + 1]
            /\ UNCHANGED <<netHolder, netFloor, netStale>>
  /\ UNCHANGED <<netChip, netAgreed, netCrossed>>

NetNext == \E t \in NetTasks :
  \/ \E v \in NetValues : NetBegin(t, "set", v) \/ AssignBegin(t, v)
  \/ \E op \in {"get", "reset"} : NetBegin(t, op, Cleared)
  \/ \E p \in NetTimeouts : NetBegin(t, "timeout", p)
  \/ \E o \in NetOperations : NetBegin(t, "operation", o)
  \/ SetNetInfo(t) \/ GetNetInfo(t) \/ Assign(t)
  \/ ResetSave(t) \/ ResetChip(t) \/ ResetRestore(t) \/ ResetFails(t)
  \/ SetTimeout(t) \/ SetOperation(t)

NetSpec == NetInit /\ [][NetNext]_netVars

-----------------------------------------------------------------------------
NetTypeOK ==
  /\ netHolder \in NetTasks \cup {NetFree}
  /\ {netReg, netAgreed} \subseteq [Parts -> NetValues \cup {Cleared}]
  /\ netTuple \in Nat \X Nat
  /\ netRequested \in NetOperations /\ netOperation \in Nat
  /\ \A t \in NetTasks : /\ netWork[t].op \in NetOps \cup {"idle"}
                         /\ netWork[t].step \in 0 .. 2 * NetParts + 1
  /\ netStale \in BOOLEAN /\ netCrossed \in BOOLEAN

(* Whoever reads the identity gets what one writer left, whole, and a      *)
(* reset gives back what it found (wizchip_getnetinfo, wizchip_sw_reset),  *)
(* as long as default_ip_assign, which takes no lock, has not met another  *)
(* of these calls.                                                         *)
NetInfoKept ==
  netCrossed \/
    /\ \A t \in NetTasks :
         Doing(t, "get") /\ Step(t) > NetParts + 1 => netWork[t].seen = netAgreed
    /\ (\A t \in NetTasks : ~Identity(t)) => netReg = netAgreed

(* No operation is given less time than the controller takes to retransmit *)
(* as often as it is configured to, nor less than was asked for, whichever *)
(* of several tasks sets which of the three (wizchip_settimeout,           *)
(* wizchip_set_operation_timeout_us); but after a reset, which puts RTR    *)
(* and RCR back and leaves the floor as it is.                             *)
TimeoutCoversWindow ==
  netHolder = NetFree =>
    /\ netOperation >= netRequested
    /\ netStale \/ netOperation >= Window(netTuple)
=============================================================================
