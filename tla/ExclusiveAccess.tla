--------------------------- MODULE ExclusiveAccess ---------------------------
(***************************************************************************)
(* What the locks of the driver are for: a resource (a socket, or what     *)
(* GLOBAL guards) is used by one task at a time, and a task that works on  *)
(* the whole controller works alone.  It says nothing of locks, of their   *)
(* order or of how they are taken; ChipLifecycle implements it.            *)
(***************************************************************************)
CONSTANTS Tasks, Resources

VARIABLES working,         \* the tasks that work on the whole controller
          inside           \* per resource: the tasks that use it

Init == working = {} /\ inside = [r \in Resources |-> {}]

Begin(t) ==
  /\ working = {} /\ \A r \in Resources : inside[r] = {}
  /\ working' = {t} /\ inside' = inside

End(t) == working = {t} /\ working' = {} /\ inside' = inside

Enter(t, r) ==
  /\ working = {} /\ inside[r] = {}
  /\ inside' = [inside EXCEPT ![r] = {t}] /\ working' = working

Leave(t, r) ==
  /\ inside[r] = {t}
  /\ inside' = [inside EXCEPT ![r] = {}] /\ working' = working

Next ==
  \E t \in Tasks :
    Begin(t) \/ End(t) \/ \E r \in Resources : Enter(t, r) \/ Leave(t, r)

Spec == Init /\ [][Next]_<<working, inside>>
=============================================================================
