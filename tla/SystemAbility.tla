---------------------------- MODULE SystemAbility ----------------------------
(***************************************************************************)
(* The life cycle of one system ability (SA) inside its process:           *)
(* Start, Idle, Active, Stop, Publish and CancelIdle of                    *)
(* services/safwk/src/system_ability.cpp, run by the threads that          *)
(* LocalAbilityManager creates for samgr's requests, by the boot task and  *)
(* by threads of the SA itself.  One step is one stretch of code between   *)
(* two lock operations, callbacks or calls to samgr.                       *)
(***************************************************************************)
EXTENDS Naturals

CONSTANTS
  Thread,       \* threads of the process that may run a call on the SA
  Object,       \* remote objects the SA may publish
  None,         \* nullptr, no object, no lock owner
  Ordered,      \* TRUE: samgr only makes the calls its own record allows
  Faults,       \* TRUE: samgr calls, loading and publishing may fail
  Outside,      \* TRUE: another SA may remove this one from samgr
  MaxRequests   \* bound on the number of calls made on the SA

ASSUME NoneAssumption == None \notin Thread /\ None \notin Object
ASSUME FlagAssumption == {Ordered, Faults, Outside} \subseteq BOOLEAN
ASSUME BoundAssumption == MaxRequests \in Nat

VARIABLES
  abilityState,  \* SystemAbility::abilityState_
  isRunning,     \* SystemAbility::isRunning_
  publishObj,    \* SystemAbility::publishObj_
  abilityLock,   \* owner of SystemAbility::abilityLock
  onStartLock,   \* owner of SystemAbility::onStartLock_
  loaded,        \* the SA is in LocalAbilityManager::localAbilityMap_
  startReason,   \* saIdToStartReason_[saId], the number of the request
  stopReason,    \* saIdToStopReason_[saId], the number of the request
  registered,    \* the object samgr holds for the SA
  samgr,         \* what samgr believes: none, starting, up or stopping
  diverged,      \* history: a removal failed, or came from elsewhere
  requests,      \* calls made so far
  pc,            \* where each thread is
  call           \* the call each thread runs: its operation, the request that
                 \* created the thread, and the request whose reason it read

saVars     == <<abilityState, isRunning, publishObj>>
lockVars   == <<abilityLock, onStartLock>>
reasonVars == <<startReason, stopReason>>
samgrVars  == <<registered, samgr, diverged>>
threadVars == <<requests, pc, call>>
vars == <<saVars, lockVars, loaded, reasonVars, samgrVars, threadVars>>

SystemAbilityState == {"NOT_LOADED", "ACTIVE", "IDLE"}

Op == {"none", "Start", "Idle", "Active", "Stop", "Publish", "CancelIdle"}

NoCall == [op |-> "none", asked |-> 0, got |-> 0]
BootCall == [op |-> "Start", asked |-> 0, got |-> 0]

\* Labels of a thread that holds onStartLock_, other than inside Publish.
Starting == {"start_check", "start_reason", "OnStart", "OnStarted"}

\* Labels of a thread that holds abilityLock across a call to samgr.
Locking == {"publish_set", "stop_remove"}

Label == Starting \cup Locking \cup
         {"free", "load", "find", "start_lock", "publish_add", "idle_check",
          "OnIdle", "active_check", "OnActive", "stop_check", "stop_reason",
          "OnStop", "cancel_check", "cancel_call"}

\* The SA is either loaded at boot, with its start task queued, or on demand.
Init ==
  /\ abilityState = "NOT_LOADED"
  /\ isRunning = FALSE
  /\ publishObj = None
  /\ abilityLock = None
  /\ onStartLock = None
  /\ startReason = 0
  /\ stopReason = 0
  /\ registered = None
  /\ samgr = "none"
  /\ diverged = FALSE
  /\ requests = 0
  /\ \/ /\ loaded = FALSE
        /\ pc = [t \in Thread |-> "free"]
        /\ call = [t \in Thread |-> NoCall]
     \/ /\ loaded = TRUE
        /\ \E b \in Thread :
             /\ pc = [t \in Thread |-> IF t = b THEN "start_lock" ELSE "free"]
             /\ call = [t \in Thread |-> IF t = b THEN BootCall ELSE NoCall]

Goto(t, label) ==
  /\ pc' = [pc EXCEPT ![t] = label]
  /\ UNCHANGED <<call, requests>>

Return(t) ==
  /\ pc' = [pc EXCEPT ![t] = "free"]
  /\ call' = [call EXCEPT ![t] = NoCall]
  /\ UNCHANGED requests

\* abilityLock can be taken, used and released within the step.
AbilityLockFree == abilityLock = None

-----------------------------------------------------------------------------
(* samgr and the threads of the SA make calls.                             *)

\* A call of samgr that runs on samgr's own time, Idle or Active, is pending.
SyncCallPending == \E u \in Thread : call[u].op \in {"Idle", "Active"}

\* samgr starts an SA it does not know, may repeat the start until the SA is
\* published, and idles, activates and stops only an SA that is up, one call
\* at a time.
MayCall(o) ==
  Ordered => CASE o = "Start" -> samgr \in {"none", "starting"}
               [] o \in {"Idle", "Active", "Stop"} -> samgr = "up" /\ ~SyncCallPending
               [] OTHER -> TRUE

Call(t, o, label) ==
  /\ pc[t] = "free"
  /\ requests < MaxRequests
  /\ requests' = requests + 1
  /\ call' = [call EXCEPT ![t] = [op |-> o, asked |-> requests + 1, got |-> 0]]
  /\ pc' = [pc EXCEPT ![t] = label]

\* Mutant: the reason is not stored before the thread is created.
StartAbilityNoReason(t) ==
  /\ MayCall("Start")
  /\ Call(t, "Start", "load")
  /\ samgr' = IF samgr = "none" THEN "starting" ELSE samgr
  /\ UNCHANGED <<saVars, lockVars, loaded, reasonVars, registered, diverged>>

\* The IPC handler stores the reason and detaches a thread.
StartAbility(t) ==
  /\ MayCall("Start")
  /\ Call(t, "Start", "load")
  /\ startReason' = requests + 1
  /\ samgr' = IF samgr = "none" THEN "starting" ELSE samgr
  /\ UNCHANGED <<saVars, lockVars, loaded, stopReason, registered, diverged>>

StopAbility(t) ==
  /\ MayCall("Stop")
  /\ Call(t, "Stop", "stop_check")
  /\ stopReason' = requests + 1
  /\ samgr' = IF samgr = "up" THEN "stopping" ELSE samgr
  /\ UNCHANGED <<saVars, lockVars, loaded, startReason, registered, diverged>>

IdleAbility(t) ==
  /\ MayCall("Idle")
  /\ Call(t, "Idle", "idle_check")
  /\ UNCHANGED <<saVars, lockVars, loaded, reasonVars, samgrVars>>

ActiveAbility(t) ==
  /\ MayCall("Active")
  /\ Call(t, "Active", "active_check")
  /\ UNCHANGED <<saVars, lockVars, loaded, reasonVars, samgrVars>>

\* A thread of the SA publishes an object, or cancels the idle state.
Publish(t, o) ==
  /\ loaded
  /\ Call(t, "Publish", "publish_add")
  /\ publishObj' = o
  /\ UNCHANGED <<abilityState, isRunning, lockVars, loaded, reasonVars, samgrVars>>

CancelIdle(t) ==
  /\ loaded
  /\ Call(t, "CancelIdle", "cancel_check")
  /\ UNCHANGED <<saVars, lockVars, loaded, reasonVars, samgrVars>>

\* The static StopAbility(saId), called by any SA: samgr forgets the object.
RemoveFromSamgr ==
  /\ Outside
  /\ registered # None
  /\ registered' = None
  /\ samgr' = "none"
  /\ diverged' = TRUE
  /\ UNCHANGED <<saVars, lockVars, loaded, reasonVars, threadVars>>

-----------------------------------------------------------------------------
(* StartOndemandSystemAbility and Start                                    *)

\* Opening the library registers the SA; either may fail.
LoadSaLib(t) ==
  /\ pc[t] = "load"
  /\ \/ loaded' = TRUE /\ Goto(t, "find")
     \/ Faults /\ loaded' = loaded /\ (Goto(t, "find") \/ Return(t))
  /\ UNCHANGED <<saVars, lockVars, reasonVars, samgrVars>>

\* The map is polled; after the last retry the thread gives up.
FindAbility(t) ==
  /\ pc[t] = "find"
  /\ IF loaded THEN Goto(t, "start_lock") ELSE Return(t)
  /\ UNCHANGED <<saVars, lockVars, loaded, reasonVars, samgrVars>>

\* Mutant: a start that meets another one gives up instead of waiting.
StartLockTries(t) ==
  /\ pc[t] = "start_lock"
  /\ \/ onStartLock = None /\ onStartLock' = t /\ Goto(t, "start_check")
     \/ onStartLock # None /\ Return(t) /\ UNCHANGED onStartLock
  /\ UNCHANGED <<saVars, abilityLock, loaded, reasonVars, samgrVars>>

StartLock(t) ==
  /\ pc[t] = "start_lock"
  /\ onStartLock = None
  /\ onStartLock' = t
  /\ Goto(t, "start_check")
  /\ UNCHANGED <<saVars, abilityLock, loaded, reasonVars, samgrVars>>

\* Mutant: onStartLock_ covers the check only, not OnStart.
StartCheckUnlocks(t) ==
  /\ pc[t] = "start_check"
  /\ AbilityLockFree
  /\ IF abilityState = "NOT_LOADED" THEN Goto(t, "start_reason") ELSE Return(t)
  /\ onStartLock' = None
  /\ UNCHANGED <<saVars, abilityLock, loaded, reasonVars, samgrVars>>

\* Mutant: the early return keeps onStartLock_.
StartCheckKeepsLock(t) ==
  /\ pc[t] = "start_check"
  /\ AbilityLockFree
  /\ IF abilityState = "NOT_LOADED" THEN Goto(t, "start_reason") ELSE Return(t)
  /\ UNCHANGED <<saVars, lockVars, loaded, reasonVars, samgrVars>>

StartCheck(t) ==
  /\ pc[t] = "start_check"
  /\ AbilityLockFree
  /\ \/ /\ abilityState = "NOT_LOADED"
        /\ Goto(t, "start_reason")
        /\ UNCHANGED onStartLock
     \/ /\ abilityState # "NOT_LOADED"
        /\ Return(t)
        /\ onStartLock' = None
  /\ UNCHANGED <<saVars, abilityLock, loaded, reasonVars, samgrVars>>

GetStartReason(t) ==
  /\ pc[t] = "start_reason"
  /\ call' = [call EXCEPT ![t].got = startReason]
  /\ pc' = [pc EXCEPT ![t] = "OnStart"]
  /\ UNCHANGED <<saVars, lockVars, loaded, reasonVars, samgrVars, requests>>

\* OnStart initialises and publishes; it may also return without publishing.
OnStart(t) ==
  /\ pc[t] = "OnStart"
  /\ \/ \E o \in Object : publishObj' = o /\ Goto(t, "publish_add")
     \/ Faults /\ Goto(t, "OnStarted") /\ UNCHANGED publishObj
  /\ UNCHANGED <<abilityState, isRunning, lockVars, loaded, reasonVars, samgrVars>>

\* OnStart returns, and Start records that the SA runs.
FinishStart(t) ==
  /\ pc[t] = "OnStarted"
  /\ AbilityLockFree
  /\ isRunning' = TRUE
  /\ onStartLock' = None
  /\ Return(t)
  /\ UNCHANGED <<abilityState, publishObj, abilityLock, loaded, reasonVars, samgrVars>>

-----------------------------------------------------------------------------
(* Publish                                                                 *)

\* Publish returns to OnStart when OnStart called it.
AfterPublish(t) == IF call[t].op = "Start" THEN Goto(t, "OnStarted") ELSE Return(t)

\* Mutant: AddSystemAbility is called without abilityLock.
PublishAddUnlocked(t) ==
  /\ pc[t] = "publish_add"
  /\ registered' = publishObj
  /\ samgr' = IF samgr = "stopping" THEN samgr ELSE "up"
  /\ diverged' = FALSE
  /\ Goto(t, "publish_set")
  /\ UNCHANGED <<saVars, lockVars, loaded, reasonVars>>

\* AddSystemAbility, made with abilityLock held.
PublishAdd(t) ==
  /\ pc[t] = "publish_add"
  /\ AbilityLockFree
  /\ abilityLock' = t
  /\ registered' = publishObj
  /\ samgr' = IF samgr = "stopping" THEN samgr ELSE "up"
  /\ diverged' = FALSE
  /\ Goto(t, "publish_set")
  /\ UNCHANGED <<saVars, onStartLock, loaded, reasonVars>>

\* There is no samgr proxy, or AddSystemAbility returns an error.
PublishFail(t) ==
  /\ Faults
  /\ pc[t] = "publish_add"
  /\ AfterPublish(t)
  /\ UNCHANGED <<saVars, lockVars, loaded, reasonVars, samgrVars>>

\* Mutant: the object is dropped once samgr has it.
PublishSetDropsObject(t) ==
  /\ pc[t] = "publish_set"
  /\ abilityState' = "ACTIVE"
  /\ publishObj' = None
  /\ abilityLock' = None
  /\ AfterPublish(t)
  /\ UNCHANGED <<isRunning, onStartLock, loaded, reasonVars, samgrVars>>

PublishSet(t) ==
  /\ pc[t] = "publish_set"
  /\ abilityState' = "ACTIVE"
  /\ abilityLock' = None
  /\ AfterPublish(t)
  /\ UNCHANGED <<isRunning, publishObj, onStartLock, loaded, reasonVars, samgrVars>>

-----------------------------------------------------------------------------
(* Idle, Active and CancelIdle                                             *)

\* Mutant: samgr is answered at once, and OnIdle left to a thread of its own.
IdleCheckDetaches(t) ==
  /\ pc[t] = "idle_check"
  /\ AbilityLockFree
  /\ \/ /\ loaded /\ abilityState = "ACTIVE"
        /\ pc' = [pc EXCEPT ![t] = "OnIdle"]
        /\ call' = [call EXCEPT ![t].op = "none"]
        /\ UNCHANGED requests
     \/ ~(loaded /\ abilityState = "ACTIVE") /\ Return(t)
  /\ UNCHANGED <<saVars, lockVars, loaded, reasonVars, samgrVars>>

IdleCheck(t) ==
  /\ pc[t] = "idle_check"
  /\ AbilityLockFree
  /\ IF loaded /\ abilityState = "ACTIVE" THEN Goto(t, "OnIdle") ELSE Return(t)
  /\ UNCHANGED <<saVars, lockVars, loaded, reasonVars, samgrVars>>

\* OnIdle returns a delay; with no delay the SA becomes idle, whatever
\* happened to its state during the callback.
FinishIdle(t) ==
  /\ pc[t] = "OnIdle"
  /\ AbilityLockFree
  /\ \E delayTime \in {0, 1} :
       abilityState' = IF delayTime = 0 THEN "IDLE" ELSE abilityState
  /\ Return(t)
  /\ UNCHANGED <<isRunning, publishObj, lockVars, loaded, reasonVars, samgrVars>>

\* Mutant: an SA that is not idle is activated too.
ActiveCheckLoaded(t) ==
  /\ pc[t] = "active_check"
  /\ AbilityLockFree
  /\ IF loaded /\ abilityState # "NOT_LOADED" THEN Goto(t, "OnActive") ELSE Return(t)
  /\ UNCHANGED <<saVars, lockVars, loaded, reasonVars, samgrVars>>

ActiveCheck(t) ==
  /\ pc[t] = "active_check"
  /\ AbilityLockFree
  /\ IF loaded /\ abilityState = "IDLE" THEN Goto(t, "OnActive") ELSE Return(t)
  /\ UNCHANGED <<saVars, lockVars, loaded, reasonVars, samgrVars>>

FinishActive(t) ==
  /\ pc[t] = "OnActive"
  /\ AbilityLockFree
  /\ abilityState' = "ACTIVE"
  /\ Return(t)
  /\ UNCHANGED <<isRunning, publishObj, lockVars, loaded, reasonVars, samgrVars>>

CancelCheck(t) ==
  /\ pc[t] = "cancel_check"
  /\ AbilityLockFree
  /\ IF abilityState = "IDLE" THEN Goto(t, "cancel_call") ELSE Return(t)
  /\ UNCHANGED <<saVars, lockVars, loaded, reasonVars, samgrVars>>

\* samgr answers CancelUnloadSystemAbility with a call of Active, or refuses.
CancelCall(t) ==
  /\ pc[t] = "cancel_call"
  /\ \/ /\ MayCall("Active")
        /\ call' = [call EXCEPT ![t].op = "Active"]
        /\ pc' = [pc EXCEPT ![t] = "active_check"]
        /\ UNCHANGED requests
     \/ /\ Faults \/ ~MayCall("Active")
        /\ Return(t)
  /\ UNCHANGED <<saVars, lockVars, loaded, reasonVars, samgrVars>>

-----------------------------------------------------------------------------
(* Stop                                                                    *)

StopCheck(t) ==
  /\ pc[t] = "stop_check"
  /\ AbilityLockFree
  /\ IF loaded /\ abilityState # "NOT_LOADED" THEN Goto(t, "stop_reason") ELSE Return(t)
  /\ UNCHANGED <<saVars, lockVars, loaded, reasonVars, samgrVars>>

GetStopReason(t) ==
  /\ pc[t] = "stop_reason"
  /\ call' = [call EXCEPT ![t].got = stopReason]
  /\ pc' = [pc EXCEPT ![t] = "OnStop"]
  /\ UNCHANGED <<saVars, lockVars, loaded, reasonVars, samgrVars, requests>>

\* OnStop returns, and the SA is unloaded with abilityLock held.
FinishStop(t) ==
  /\ pc[t] = "OnStop"
  /\ AbilityLockFree
  /\ abilityState' = "NOT_LOADED"
  /\ isRunning' = FALSE
  /\ abilityLock' = t
  /\ Goto(t, "stop_remove")
  /\ UNCHANGED <<publishObj, onStartLock, loaded, reasonVars, samgrVars>>

\* Mutant: the object is left in samgr.
StopRemoveSkipped(t) ==
  /\ pc[t] = "stop_remove"
  /\ samgr' = "none" /\ diverged' = FALSE
  /\ abilityLock' = None
  /\ Return(t)
  /\ UNCHANGED <<saVars, registered, onStartLock, loaded, reasonVars>>

\* RemoveSystemAbility; it may fail, or there may be no proxy to call it on.
StopRemove(t) ==
  /\ pc[t] = "stop_remove"
  /\ \/ registered' = None /\ samgr' = "none" /\ diverged' = FALSE
     \/ Faults /\ diverged' = TRUE /\ UNCHANGED <<registered, samgr>>
  /\ abilityLock' = None
  /\ Return(t)
  /\ UNCHANGED <<saVars, onStartLock, loaded, reasonVars>>

-----------------------------------------------------------------------------
\* What a thread does once it runs a call.
Step(t) ==
  \/ LoadSaLib(t) \/ FindAbility(t) \/ StartLock(t) \/ StartCheck(t)
  \/ GetStartReason(t) \/ OnStart(t) \/ FinishStart(t)
  \/ PublishAdd(t) \/ PublishFail(t) \/ PublishSet(t)
  \/ IdleCheck(t) \/ FinishIdle(t) \/ ActiveCheck(t) \/ FinishActive(t)
  \/ CancelCheck(t) \/ CancelCall(t)
  \/ StopCheck(t) \/ GetStopReason(t) \/ FinishStop(t) \/ StopRemove(t)

Next ==
  \/ \E t \in Thread :
       \/ StartAbility(t) \/ StopAbility(t) \/ IdleAbility(t) \/ ActiveAbility(t)
       \/ \E o \in Object : Publish(t, o)
       \/ CancelIdle(t)
       \/ Step(t)
  \/ RemoveFromSamgr

Spec == Init /\ [][Next]_vars

\* Threads run, and the callbacks of the SA return.  A thread that waits for
\* a mutex gets it when it is released again and again.
Fairness == \A t \in Thread : SF_vars(Step(t))

FairSpec == Spec /\ Fairness

-----------------------------------------------------------------------------
(* Properties                                                              *)

\* Type invariant: what the members of the code, samgr and the threads may hold.
TypeOK ==
  /\ abilityState \in SystemAbilityState
  /\ isRunning \in BOOLEAN
  /\ publishObj \in Object \cup {None}
  /\ abilityLock \in Thread \cup {None}
  /\ onStartLock \in Thread \cup {None}
  /\ loaded \in BOOLEAN
  /\ startReason \in Nat
  /\ stopReason \in Nat
  /\ registered \in Object \cup {None}
  /\ samgr \in {"none", "starting", "up", "stopping"}
  /\ diverged \in BOOLEAN
  /\ requests \in Nat
  /\ pc \in [Thread -> Label]
  /\ call \in [Thread -> [op : Op, asked : Nat, got : Nat]]

\* The thread runs Start past its lock, the Publish that OnStart makes included.
InStart(t) ==
  \/ pc[t] \in Starting
  \/ pc[t] \in {"publish_add", "publish_set"} /\ call[t].op = "Start"

\* The thread is inside the callback OnStart.
InOnStart(t) == InStart(t) /\ pc[t] \notin {"start_check", "start_reason"}

\* Start holds onStartLock_ to its end, so however many start requests and
\* boot tasks meet, OnStart never runs in two threads at once.
OnStartExclusive ==
  \A t, u \in Thread : InStart(t) /\ InStart(u) => t = u

\* Publish and Stop keep abilityLock while they change both samgr's table and
\* abilityState_, so whoever holds the lock sees no object of an unloaded SA
\* in samgr, unless a RemoveSystemAbility failed.  Publishing, stopping,
\* idling and activating may overlap in any way.
RegisteredIsLoaded ==
  abilityLock = None /\ registered # None /\ ~diverged => abilityState # "NOT_LOADED"

\* StartAbility and StopAbility store the reason before they create the thread,
\* so OnStart and OnStop never receive a reason older than the request they
\* serve (a newer one they may).
ReasonNotStale ==
  \A t \in Thread :
    InOnStart(t) \/ pc[t] = "OnStop" => call[t].got >= call[t].asked

\* When samgr makes only the calls its record allows, whoever gets abilityLock
\* finds abilityState_ and samgr's table in agreement, unless a removal failed:
\* no SA is left loaded that samgr cannot find, nor found but unloaded.
StateMatchesSamgr ==
  Ordered /\ ~Outside /\ abilityLock = None /\ ~diverged
    => (registered # None <=> abilityState # "NOT_LOADED")

\* publishObj_ is written without a lock and read under it; still, when no
\* publication is waiting for the lock, the object that GetAbilityRemoteObject
\* returns is the one samgr holds, provided samgr refused no publication.
PublishedObjectCurrent ==
  ~Faults /\ registered # None /\ (\A t \in Thread : pc[t] # "publish_add")
    => registered = publishObj

\* A thread runs a callback that only an SA that is up gets.
InCallback(t) == pc[t] \in {"OnIdle", "OnActive", "OnStop"}

\* The locks keep no OnIdle, OnActive or OnStop from running while another of
\* them does: only the order in which samgr calls them does, together with the
\* checks at their beginning.  When samgr keeps to its record, no two of them
\* run at once, whatever starts and publications happen meanwhile.  (An OnStart
\* that has published but not returned may overlap each of them.)
CallbacksExclusive ==
  Ordered /\ ~Outside =>
    \A t, u \in Thread : InCallback(t) /\ InCallback(u) => t = u

\* The life cycle as others see it.  A publication happens when samgr has the
\* object, before abilityState_ is set; a stop when abilityState_ is reset,
\* before samgr has removed the object: abilityLock hides what is between.
Lifecycle == INSTANCE AbilityLifecycle WITH
  state <- IF \E t \in Thread : pc[t] = "publish_set" THEN "ACTIVE" ELSE abilityState,
  object <- IF \E t \in Thread : pc[t] = "stop_remove" THEN None ELSE registered,
  doing <- {pc[t] : t \in Thread} \cap {"OnIdle", "OnActive", "OnStop"}

\* When samgr keeps to its record and nothing fails, the threads together behave
\* as one SA that does one thing at a time: a state that was checked before a
\* callback is still good when the callback begins and when it ends, although
\* the lock is released in between, only a publication brings back a stopped
\* SA, and no stop is undone by an Idle or Active that runs late.
ImplementsLifecycle == Lifecycle!Spec

\* onStartLock_ is always taken before abilityLock and no lock is waited for
\* with abilityLock held, so every call returns.
CallsReturn == \A t \in Thread : (pc[t] # "free") ~> (pc[t] = "free")

\* When samgr and the SA do not fail, an SA that samgr asks to start is
\* published: no start is refused or lost because an earlier start, a stop
\* or an idle call is still running.
StartServed == (samgr = "starting") ~> (samgr # "starting")
=============================================================================
