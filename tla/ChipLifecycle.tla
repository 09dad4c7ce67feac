---------------------------- MODULE ChipLifecycle ----------------------------
(***************************************************************************)
(* The root of the W5500 driver (Ethernet/wizchip_conf.c): its lifecycle   *)
(* state, the lock order GLOBAL, socket 1, socket 2, ..., the transactions *)
(* wizchip_sw_reset and wizchip_init that hold every lock, the per-socket  *)
(* buffer-size caches, and the tasks that use sockets next to them.        *)
(*                                                                         *)
(* A task is between two of its steps at each label of `pc'.  A bus        *)
(* transfer fails at any of them; whether the failure of a write is seen   *)
(* depends on the build (WIZCHIP_SAFE_SPI).                                *)
(***************************************************************************)
EXTENDS Integers

CONSTANTS
  Tasks,      \* RTOS tasks
  Masters,    \* the tasks that reset or initialise the controller
  Kinds,      \* the transactions they run: "reset", "init", "init_default"
  NSock,      \* _WIZCHIP_SOCK_NUM_; sockets are 1..NSock here
  Sizes,      \* buffer sizes, without 0
  Default,    \* Sn_TXBUF_SIZE after a hardware reset
  SafeSpi     \* built with WIZCHIP_SAFE_SPI: writes are checked as well

ASSUME ConstantAssumption ==
  /\ "nobody" \notin Tasks /\ Masters \subseteq Tasks
  /\ Kinds \subseteq {"reset", "init", "init_default"}
  /\ NSock \in Nat \ {0}
  /\ 0 \notin Sizes /\ Default \in Sizes
  /\ SafeSpi \in BOOLEAN

VARIABLES
  lock,       \* the owner of each lock: 0 is GLOBAL, n is socket n
  pc,         \* what each task is doing
  at,         \* the lock or socket it is doing it to
  kind,       \* the transaction it runs
  result,     \* what its transaction returns
  hwSize,     \* Sn_TXBUF_SIZE of each socket
  cache,      \* wizchip_txmax_cache, 0 when cleared
  opened,     \* sockets whose sock_mode is set
  chipState,  \* chip_state
  lastError,  \* chip_last_error
  trusted     \* history: the last transaction succeeded and no transfer has
              \* failed since

tasks == <<pc, at, kind, result>>
chip  == <<hwSize, cache>>
root  == <<chipState, lastError, trusted>>
vars  == <<lock, tasks, chip, opened, root>>

Nobody  == "nobody"
Sockets == 1..NSock

Init ==
  /\ lock = [n \in 0..NSock |-> Nobody]
  /\ pc = [t \in Tasks |-> "idle"]
  /\ at = [t \in Tasks |-> 0]
  /\ kind = [t \in Tasks |-> "none"]
  /\ result = [t \in Tasks |-> "none"]
  /\ hwSize = [s \in Sockets |-> Default]
  /\ cache = [s \in Sockets |-> 0]
  /\ opened = {}
  /\ chipState = "UNINIT" /\ lastError = "OK" /\ trusted = "no"

-----------------------------------------------------------------------------
Goto(t, label) == pc' = [pc EXCEPT ![t] = label]
MoveTo(t, n)   == at' = [at EXCEPT ![t] = n]
Return(t)      == Goto(t, "idle") /\ MoveTo(t, 0)

Acquire(t, n) == lock[n] = Nobody /\ lock' = [lock EXCEPT ![n] = t]
Release(n)    == lock' = [lock EXCEPT ![n] = Nobody]

\* wizchip_spi_fault
SpiFault == chipState' = "FAULTED" /\ lastError' = "IO" /\ trusted' = "no"

-----------------------------------------------------------------------------
(* wizchip_sw_reset and wizchip_init *)

\* wizchip_transaction_lock takes GLOBAL, then the sockets in their order.
LockGlobal(t) ==
  /\ pc[t] = "idle" /\ t \in Masters
  /\ Acquire(t, 0)
  /\ \E k \in Kinds : kind' = [kind EXCEPT ![t] = k]
  /\ Goto(t, "lock") /\ MoveTo(t, 1)
  /\ UNCHANGED <<result, chip, opened, root>>

\* The last socket forgotten.
LockSocketShort(t) ==
  /\ pc[t] = "lock"
  /\ Acquire(t, at[t])
  /\ IF at[t] < NSock - 1
       THEN MoveTo(t, at[t] + 1) /\ UNCHANGED pc
       ELSE Goto(t, "clear") /\ UNCHANGED at
  /\ UNCHANGED <<kind, result, chip, opened, root>>

LockSocket(t) ==
  /\ pc[t] = "lock"
  /\ Acquire(t, at[t])
  /\ IF at[t] < NSock
       THEN MoveTo(t, at[t] + 1) /\ UNCHANGED pc
       ELSE Goto(t, "clear") /\ UNCHANGED at
  /\ UNCHANGED <<kind, result, chip, opened, root>>

\* The socket state of the driver and the caches are cleared first.
ClearState(t) ==
  /\ pc[t] = "clear"
  /\ chipState' = "UNINIT" /\ lastError' = "OK" /\ trusted' = "no"
  /\ opened' = {} /\ cache' = [s \in Sockets |-> 0]
  /\ Goto(t, "reset")
  /\ UNCHANGED <<lock, at, kind, result, hwSize>>

\* A step of the transaction failed: go and release the locks.
GiveUp(t) ==
  /\ result' = [result EXCEPT ![t] = "failed"]
  /\ Goto(t, "unlock") /\ MoveTo(t, NSock)

AfterReset == [reset |-> "refresh", init |-> "configure",
               init_default |-> "check"]

\* wizchip_sw_reset_locked.  The write of MR_RST may be lost unseen; a read
\* may fail; VERSIONR may read wrong although no transfer failed.
ResetChip(t) ==
  /\ pc[t] = "reset"
  /\ \/ hwSize' = [s \in Sockets |-> Default]
     \/ UNCHANGED hwSize
  /\ \/ /\ hwSize' = [s \in Sockets |-> Default] \/ ~SafeSpi
        /\ Goto(t, AfterReset[kind[t]]) /\ MoveTo(t, 1)
        /\ result' = [result EXCEPT ![t] = "ok"]
        /\ UNCHANGED root
     \/ SpiFault /\ GiveUp(t)
     \/ UNCHANGED root /\ GiveUp(t)
  /\ UNCHANGED <<lock, kind, cache, opened>>

\* The transaction's last check passed.
Succeed(t) ==
  /\ Goto(t, "unlock") /\ MoveTo(t, NSock)
  /\ trusted' = "yes"
  /\ UNCHANGED <<result, chipState, lastError>>

\* wizchip_refresh_socket_caches, one socket at a time.
RefreshCache(t) ==
  /\ pc[t] = "refresh"
  /\ \/ /\ cache' = [cache EXCEPT ![at[t]] = hwSize[at[t]]]
        /\ IF at[t] < NSock
             THEN MoveTo(t, at[t] + 1) /\ UNCHANGED <<pc, result, root>>
             ELSE Succeed(t)
     \/ SpiFault /\ GiveUp(t) /\ UNCHANGED cache
  /\ UNCHANGED <<lock, kind, hwSize, opened>>

\* The buffer sizes wizchip_init was called with.
ConfigureSize(t) ==
  /\ pc[t] = "configure"
  /\ \/ /\ \E size \in Sizes :
             /\ cache' = [cache EXCEPT ![at[t]] = size]
             /\ \/ hwSize' = [hwSize EXCEPT ![at[t]] = size]
                \/ ~SafeSpi /\ UNCHANGED hwSize
        /\ IF at[t] < NSock
             THEN MoveTo(t, at[t] + 1) /\ UNCHANGED pc
             ELSE Goto(t, "check") /\ UNCHANGED at
        /\ UNCHANGED <<result, root>>
     \/ /\ SafeSpi
        /\ SpiFault /\ GiveUp(t) /\ UNCHANGED chip
  /\ UNCHANGED <<lock, kind, opened>>

\* VERSIONR and PHYCFGR at the end of wizchip_init.
CheckIdentity(t) ==
  /\ pc[t] = "check"
  /\ \/ Succeed(t)
     \/ SpiFault /\ GiveUp(t)
     \/ UNCHANGED root /\ GiveUp(t)
  /\ UNCHANGED <<lock, kind, chip, opened>>

\* wizchip_transaction_unlock gives the locks back in the reverse order.
Unlock(t) ==
  /\ pc[t] = "unlock"
  /\ Release(at[t])
  /\ IF at[t] > 0
       THEN MoveTo(t, at[t] - 1) /\ UNCHANGED pc
       ELSE Goto(t, "publish") /\ UNCHANGED at
  /\ UNCHANGED <<kind, result, chip, opened, root>>

\* wizchip_transaction_finish, after the last unlock.
Publish(t) ==
  /\ pc[t] = "publish"
  /\ IF result[t] = "ok"
       THEN chipState' = "READY" /\ lastError' = "OK"
       ELSE /\ chipState' = "FAULTED"
            /\ lastError' = IF lastError = "OK" THEN "FAIL" ELSE lastError
  /\ Return(t)
  /\ kind' = [kind EXCEPT ![t] = "none"]
  /\ result' = [result EXCEPT ![t] = "none"]
  /\ UNCHANGED <<lock, chip, opened, trusted>>

-----------------------------------------------------------------------------
(* The tasks that use sockets *)

\* Any call's transfers may fail on the bus.
MayFail == UNCHANGED root \/ SpiFault

\* socket() looks at the lifecycle and at Sn_SR before it takes a lock; a
\* port of 0 asks for one under the GLOBAL lock.
OpenCheck(t) ==
  /\ pc[t] = "idle" /\ chipState = "READY"
  /\ MayFail
  /\ \E s \in Sockets : MoveTo(t, s)
  /\ Goto(t, "port") \/ Goto(t, "open")
  /\ UNCHANGED <<lock, kind, result, chip, opened>>

OpenPortLock(t) ==
  /\ pc[t] = "port" /\ Acquire(t, 0)
  /\ Goto(t, "port_held")
  /\ UNCHANGED <<at, kind, result, chip, opened, root>>

OpenPortUnlock(t) ==
  /\ pc[t] = "port_held" /\ Release(0)
  /\ Goto(t, "open")
  /\ UNCHANGED <<at, kind, result, chip, opened, root>>

OpenLock(t) ==
  /\ pc[t] = "open" /\ Acquire(t, at[t])
  /\ Goto(t, "opening")
  /\ UNCHANGED <<at, kind, result, chip, opened, root>>

\* An error exit that keeps the lock.
OpenUnlockLeaking(t) ==
  /\ pc[t] = "opening"
  /\ \/ opened' = opened \cup {at[t]} /\ Release(at[t])
     \/ UNCHANGED <<opened, lock>>
  /\ MayFail
  /\ Return(t)
  /\ UNCHANGED <<kind, result, chip>>

OpenUnlock(t) ==
  /\ pc[t] = "opening" /\ Release(at[t])
  /\ opened' \in {opened, opened \cup {at[t]}, opened \ {at[t]}}
  /\ MayFail
  /\ Return(t)
  /\ UNCHANGED <<kind, result, chip>>

\* send, recv, sendto, recvfrom, ctlsocket, ...: the cache is read under the
\* socket's lock.
UseLock(t) ==
  /\ pc[t] = "idle"
  /\ \E s \in Sockets : Acquire(t, s) /\ MoveTo(t, s)
  /\ Goto(t, "using")
  /\ UNCHANGED <<kind, result, chip, opened, root>>

UseUnlock(t) ==
  /\ pc[t] = "using" /\ Release(at[t])
  /\ opened' \in {opened, opened \ {at[t]}}
  /\ MayFail
  /\ Return(t)
  /\ UNCHANGED <<kind, result, chip>>

\* wizchip_set_tx_buf_size holds GLOBAL and no socket lock.
SizeLock(t) ==
  /\ pc[t] = "idle" /\ Acquire(t, 0)
  /\ \E s \in Sockets : MoveTo(t, s)
  /\ Goto(t, "sizing")
  /\ UNCHANGED <<kind, result, chip, opened, root>>

\* The cache forgotten.
SizeUnlockUncached(t) ==
  /\ pc[t] = "sizing" /\ Release(0)
  /\ \E size \in Sizes : hwSize' = [hwSize EXCEPT ![at[t]] = size]
  /\ MayFail
  /\ Return(t)
  /\ UNCHANGED <<kind, result, cache, opened>>

\* The size is written and read back, and only then cached.
SizeUnlock(t) ==
  /\ pc[t] = "sizing" /\ Release(0)
  /\ \E size \in Sizes :
       \/ /\ hwSize' = [hwSize EXCEPT ![at[t]] = size]
          /\ \/ cache' = [cache EXCEPT ![at[t]] = size] /\ UNCHANGED root
             \/ SpiFault /\ UNCHANGED cache
       \/ UNCHANGED chip /\ (SpiFault \/ (~SafeSpi /\ UNCHANGED root))
  /\ Return(t)
  /\ UNCHANGED <<kind, result, opened>>

-----------------------------------------------------------------------------
(* Public calls that take no lock *)

MarkFaulted ==
  /\ chipState' = "FAULTED" /\ trusted' = "no"
  /\ UNCHANGED <<lock, tasks, chip, opened, lastError>>

ClearLastError ==
  /\ lastError' = "OK"
  /\ UNCHANGED <<lock, tasks, chip, opened, chipState, trusted>>

Recover ==
  /\ chipState \in {"READY", "FAULTED"}
  /\ chipState' = "READY" /\ lastError' = "OK"
  /\ UNCHANGED <<lock, tasks, chip, opened, trusted>>

-----------------------------------------------------------------------------
\* The steps by which a task takes a lock, and those it takes holding them.
Taking(t) ==
  LockSocket(t) \/ OpenPortLock(t) \/ OpenLock(t)

Working(t) ==
  \/ ClearState(t) \/ ResetChip(t) \/ RefreshCache(t) \/ ConfigureSize(t)
  \/ CheckIdentity(t) \/ Unlock(t) \/ Publish(t)
  \/ OpenPortUnlock(t) \/ OpenUnlock(t) \/ UseUnlock(t) \/ SizeUnlock(t)

Calling(t) ==
  LockGlobal(t) \/ OpenCheck(t) \/ UseLock(t) \/ SizeLock(t)

Next ==
  \/ \E t \in Tasks : Taking(t) \/ Working(t) \/ Calling(t)
  \/ MarkFaulted \/ ClearLastError \/ Recover

Spec == Init /\ [][Next]_vars

\* Tasks run, and the port's mutexes do not starve a task that waits.
FairSpec ==
  /\ Spec
  /\ \A t \in Tasks : WF_vars(Working(t)) /\ SF_vars(Taking(t))

-----------------------------------------------------------------------------
TypeOK ==
  /\ lock \in [0..NSock -> Tasks \cup {Nobody}]
  /\ pc \in [Tasks -> {"idle", "lock", "clear", "reset", "refresh",
                       "configure", "check", "unlock", "publish", "port",
                       "port_held", "open", "opening", "using", "sizing"}]
  /\ at \in [Tasks -> 0..NSock]
  /\ kind \in [Tasks -> {"none"} \cup Kinds]
  /\ result \in [Tasks -> {"none", "ok", "failed"}]
  /\ hwSize \in [Sockets -> Sizes] /\ cache \in [Sockets -> Sizes \cup {0}]
  /\ opened \subseteq Sockets
  /\ chipState \in {"UNINIT", "READY", "FAULTED"}
  /\ lastError \in {"OK", "IO", "FAIL"}
  /\ trusted \in {"yes", "no"}

Transacting == {"clear", "reset", "refresh", "configure", "check"}
InCall      == {"opening", "using", "port_held", "sizing"}

\* While a reset or an initialisation works on the controller no other task
\* is inside a call: neither on a socket nor on a buffer size.
TransactionAlone ==
  \A t, u \in Tasks : t # u /\ pc[t] \in Transacting =>
    pc[u] \notin Transacting \cup InCall

\* The tasks a transaction of which works on the controller, and those inside a
\* call that needs a socket (or, for 0, the ports or a buffer size).
atWork == {t \in Tasks : pc[t] \in Transacting}
usedBy ==
  [n \in 0..NSock |->
     {t \in Tasks : IF n = 0 THEN pc[t] \in {"port_held", "sizing"}
                    ELSE pc[t] \in {"opening", "using"} /\ at[t] = n}]

\* The locks do what they are for: ExclusiveAccess, with GLOBAL as resource 0
\* (wizchip_transaction_lock, WIZCHIP_SOCK_LOCK, WIZCHIP_GLOBAL_LOCK).
Access == INSTANCE ExclusiveAccess
  WITH Resources <- 0..NSock, working <- atWork, inside <- usedBy

AccessIsExclusive == Access!Spec

\* From the end of a transaction that succeeded, and as long as no transfer
\* fails, the cached buffer sizes are the controller's, whoever changes them.
CoherentWhileTrusted == trusted = "yes" => cache = hwSize

\* No task is stuck on a lock: the order GLOBAL, socket 1, ... is kept.
CallsEnd == \A t \in Tasks : pc[t] # "idle" ~> pc[t] = "idle"

-----------------------------------------------------------------------------
(* What the documents promise and the code does not do *)

\* contracts/core-driver-api.md: a transport failure makes the root FAULTED
\* and only verified recovery or reinitialisation makes it READY again.  The
\* state a transaction publishes was decided before it gave its locks back.
FaultSurvivesPublish ==
  [][\A t \in Tasks :
       /\ pc[t] = "publish" /\ pc'[t] = "idle"
       /\ chipState = "FAULTED" /\ lastError = "IO"
       => chipState' = "FAULTED"
    ]_vars
=============================================================================
