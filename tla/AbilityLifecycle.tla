--------------------------- MODULE AbilityLifecycle ---------------------------
(***************************************************************************)
(* What system_ability.cpp promises of the life cycle of an SA to those    *)
(* who write one and to samgr, when samgr keeps to its own record and no   *)
(* call fails: publishing and stopping each change the state of the SA and *)
(* samgr's table in one step, and OnIdle, OnActive and OnStop run one at a *)
(* time, each only in a state that asks for it.  Threads, locks and the    *)
(* order of the code's writes are not seen.                                *)
(***************************************************************************)
CONSTANTS Object, None

VARIABLES
  state,    \* the state of the SA
  object,   \* the object samgr gives to clients
  doing     \* the callbacks that run

lifecycleVars == <<state, object, doing>>

Init == state = "NOT_LOADED" /\ object = None /\ doing = {}

\* The SA publishes an object, also while a callback runs.
Publish(o) ==
  /\ state' = "ACTIVE"
  /\ object' = o
  /\ UNCHANGED doing

Begin(callback, from) ==
  /\ doing = {}
  /\ state \in from
  /\ doing' = {callback}
  /\ UNCHANGED <<state, object>>

\* An SA that is up ends a callback in one of the states in S.
End(callback, S) ==
  /\ doing = {callback}
  /\ state # "NOT_LOADED"
  /\ doing' = {}
  /\ state' \in S
  /\ object' = IF state' = "NOT_LOADED" THEN None ELSE object

Next ==
  \/ \E o \in Object : Publish(o)
  \/ Begin("OnIdle", {"ACTIVE"})
  \/ End("OnIdle", {"IDLE", state})
  \/ Begin("OnActive", {"IDLE"})
  \/ End("OnActive", {"ACTIVE"})
  \/ Begin("OnStop", {"ACTIVE", "IDLE"})
  \/ End("OnStop", {"NOT_LOADED"})

Spec == Init /\ [][Next]_lifecycleVars
=============================================================================
