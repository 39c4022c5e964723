------------------------- MODULE SystemAbilityProofs -------------------------
(***************************************************************************)
(* Proofs about SystemAbility, for any number of threads, objects and      *)
(* requests, whatever samgr calls and whatever fails.                      *)
(***************************************************************************)
EXTENDS SystemAbility, TLAPS

\* A thread on its way to OnStart, or in it, runs Start; one in OnStop, Stop.
OpOfLabel ==
  \A t \in Thread :
    /\ pc[t] \in Starting \cup {"load", "find", "start_lock"} => call[t].op = "Start"
    /\ pc[t] \in {"stop_check", "stop_reason", "OnStop", "stop_remove"} => call[t].op = "Stop"

\* onStartLock_ is owned by the thread inside Start, and by no other.
StartOwner == \A t \in Thread : InStart(t) => onStartLock = t

\* The reason slots never lag behind the requests of the threads alive.
SlotsFollowRequests ==
  /\ startReason <= requests
  /\ stopReason <= requests
  /\ \A t \in Thread :
       /\ call[t].op = "Start" => call[t].asked <= startReason
       /\ call[t].op = "Stop" => call[t].asked <= stopReason

\* An SA begins well typed, loaded at boot or not.
LEMMA InitTypeOK == Init => TypeOK
<1> SUFFICES ASSUME Init PROVE TypeOK
  OBVIOUS
<1>1. isRunning \in BOOLEAN /\ loaded \in BOOLEAN /\ diverged \in BOOLEAN
  BY Zenon DEF Init
<1>2. /\ pc \in [Thread -> Label]
      /\ call \in [Thread -> [op : Op, asked : Nat, got : Nat]]
  <2>1. \/ /\ pc = [t \in Thread |-> "free"]
           /\ call = [t \in Thread |-> NoCall]
        \/ \E b \in Thread :
             /\ pc = [t \in Thread |-> IF t = b THEN "start_lock" ELSE "free"]
             /\ call = [t \in Thread |-> IF t = b THEN BootCall ELSE NoCall]
    BY Zenon DEF Init
  <2>2. QED
    BY <2>1 DEF Label, Op, NoCall, BootCall
<1>3. /\ abilityState \in SystemAbilityState
      /\ publishObj \in Object \cup {None}
      /\ abilityLock \in Thread \cup {None}
      /\ onStartLock \in Thread \cup {None}
      /\ startReason \in Nat /\ stopReason \in Nat /\ requests \in Nat
      /\ registered \in Object \cup {None}
      /\ samgr \in {"none", "starting", "up", "stopping"}
  BY DEF Init, SystemAbilityState
<1>4. QED
  BY <1>1, <1>2, <1>3, Zenon DEF TypeOK

\* No step of samgr, of a thread or of a callback leaves the types.
LEMMA NextTypeOK == TypeOK /\ [Next]_vars => TypeOK'
<1> SUFFICES ASSUME TypeOK, [Next]_vars PROVE TypeOK'
  OBVIOUS
<1> USE DEF TypeOK, SystemAbilityState, Label, Starting, Locking, Op, NoCall, BootCall,
            Call, Goto, Return, AfterPublish,
            saVars, lockVars, reasonVars, samgrVars, threadVars
<1>1. ASSUME NEW t \in Thread, StartAbility(t) PROVE TypeOK'
  BY <1>1 DEF StartAbility
<1>2. ASSUME NEW t \in Thread, StopAbility(t) PROVE TypeOK'
  BY <1>2 DEF StopAbility
<1>3. ASSUME NEW t \in Thread, IdleAbility(t) PROVE TypeOK'
  BY <1>3 DEF IdleAbility
<1>4. ASSUME NEW t \in Thread, ActiveAbility(t) PROVE TypeOK'
  BY <1>4 DEF ActiveAbility
<1>5. ASSUME NEW t \in Thread, NEW o \in Object, Publish(t, o) PROVE TypeOK'
  BY <1>5 DEF Publish
<1>6. ASSUME NEW t \in Thread, CancelIdle(t) PROVE TypeOK'
  BY <1>6 DEF CancelIdle
<1>7. CASE RemoveFromSamgr
  BY <1>7 DEF RemoveFromSamgr
<1>8. ASSUME NEW t \in Thread, Step(t) PROVE TypeOK'
  <2>1. CASE LoadSaLib(t)
    <3>1. loaded' \in BOOLEAN
      BY <2>1, Zenon DEF LoadSaLib
    <3>2. pc' \in [Thread -> Label] /\ call' \in [Thread -> [op : Op, asked : Nat, got : Nat]]
      BY <2>1 DEF LoadSaLib
    <3>3. QED
      BY <2>1, <3>1, <3>2 DEF LoadSaLib
  <2>2. CASE FindAbility(t)
    BY <2>2 DEF FindAbility
  <2>3. CASE StartLock(t)
    BY <2>3 DEF StartLock
  <2>4. CASE StartCheck(t)
    BY <2>4 DEF StartCheck
  <2>5. CASE GetStartReason(t)
    BY <2>5 DEF GetStartReason
  <2>6. CASE OnStart(t)
    BY <2>6 DEF OnStart
  <2>7. CASE FinishStart(t)
    BY <2>7 DEF FinishStart
  <2>8. CASE PublishAdd(t)
    BY <2>8 DEF PublishAdd
  <2>9. CASE PublishFail(t)
    BY <2>9 DEF PublishFail
  <2>10. CASE PublishSet(t)
    BY <2>10 DEF PublishSet
  <2>11. CASE IdleCheck(t)
    BY <2>11 DEF IdleCheck
  <2>12. CASE FinishIdle(t)
    BY <2>12 DEF FinishIdle
  <2>13. CASE ActiveCheck(t)
    BY <2>13 DEF ActiveCheck
  <2>14. CASE FinishActive(t)
    BY <2>14 DEF FinishActive
  <2>15. CASE CancelCheck(t)
    BY <2>15 DEF CancelCheck
  <2>16. CASE CancelCall(t)
    <3>1. \/ /\ call' = [call EXCEPT ![t].op = "Active"]
             /\ pc' = [pc EXCEPT ![t] = "active_check"]
             /\ requests' = requests
          \/ Return(t)
      BY <2>16, Zenon DEF CancelCall
    <3>2. UNCHANGED <<saVars, lockVars, loaded, reasonVars, samgrVars>>
      BY <2>16, Zenon DEF CancelCall
    <3>3. QED
      BY <3>1, <3>2
  <2>17. CASE StopCheck(t)
    BY <2>17 DEF StopCheck
  <2>18. CASE GetStopReason(t)
    BY <2>18 DEF GetStopReason
  <2>19. CASE FinishStop(t)
    BY <2>19 DEF FinishStop
  <2>20. CASE StopRemove(t)
    <3>1. diverged' \in BOOLEAN
      BY <2>20, Zenon DEF StopRemove
    <3>2. registered' \in Object \cup {None} /\ samgr' \in {"none", "starting", "up", "stopping"}
      BY <2>20 DEF StopRemove
    <3>3. QED
      BY <2>20, <3>1, <3>2 DEF StopRemove
  <2>21. QED
    BY <1>8, <2>1, <2>2, <2>3, <2>4, <2>5, <2>6, <2>7, <2>8, <2>9, <2>10, <2>11, <2>12,
       <2>13, <2>14, <2>15, <2>16, <2>17, <2>18, <2>19, <2>20 DEF Step
<1>9. CASE UNCHANGED vars
  BY <1>9 DEF vars
<1>10. QED
  BY <1>1, <1>2, <1>3, <1>4, <1>5, <1>6, <1>7, <1>8, <1>9 DEF Next


\* The inductive invariant.
LifecycleInv ==
  OpOfLabel /\ StartOwner /\ SlotsFollowRequests /\ RegisteredIsLoaded /\ ReasonNotStale

\* An SA begins with all locks free, the boot task before its lock.
LEMMA InitLifecycleInv == Init => LifecycleInv
<1> SUFFICES ASSUME Init PROVE LifecycleInv
  OBVIOUS
<1>1. \A t \in Thread :
        \/ pc[t] = "free" /\ call[t] = NoCall
        \/ pc[t] = "start_lock" /\ call[t] = BootCall
  BY Zenon DEF Init
<1>2. registered = None /\ startReason = 0 /\ stopReason = 0 /\ requests = 0
  BY DEF Init
<1>3. QED
  BY <1>1, <1>2 DEF LifecycleInv, OpOfLabel, StartOwner, SlotsFollowRequests,
     RegisteredIsLoaded, ReasonNotStale, InOnStart, InStart, Starting, NoCall, BootCall

\* Every step keeps the locks, the reasons and samgr's record in order.
LEMMA NextLifecycleInv == TypeOK /\ LifecycleInv /\ [Next]_vars => LifecycleInv'
<1> SUFFICES ASSUME TypeOK, LifecycleInv, [Next]_vars PROVE LifecycleInv'
  OBVIOUS
<1> USE DEF TypeOK, Label, Starting, Locking, Op, NoCall,
            LifecycleInv, OpOfLabel, StartOwner, SlotsFollowRequests,
            RegisteredIsLoaded, ReasonNotStale, InOnStart, InStart, AbilityLockFree,
            Call, Goto, Return, AfterPublish,
            saVars, lockVars, reasonVars, samgrVars, threadVars
<1>1. ASSUME NEW t \in Thread, StartAbility(t) PROVE LifecycleInv'
  BY <1>1 DEF StartAbility
<1>2. ASSUME NEW t \in Thread, StopAbility(t) PROVE LifecycleInv'
  BY <1>2 DEF StopAbility
<1>3. ASSUME NEW t \in Thread, IdleAbility(t) PROVE LifecycleInv'
  BY <1>3 DEF IdleAbility
<1>4. ASSUME NEW t \in Thread, ActiveAbility(t) PROVE LifecycleInv'
  BY <1>4 DEF ActiveAbility
<1>5. ASSUME NEW t \in Thread, CancelIdle(t) PROVE LifecycleInv'
  BY <1>5 DEF CancelIdle
<1>6. ASSUME NEW t \in Thread, NEW o \in Object, Publish(t, o) PROVE LifecycleInv'
  BY <1>6 DEF Publish
<1>7. CASE RemoveFromSamgr
  BY <1>7 DEF RemoveFromSamgr
<1>8. ASSUME NEW t \in Thread, Step(t) PROVE LifecycleInv'
  <2>1. CASE LoadSaLib(t)
    BY <2>1 DEF LoadSaLib
  <2>2. CASE FindAbility(t)
    BY <2>2 DEF FindAbility
  <2>3. CASE StartLock(t)
    BY <2>3, NoneAssumption DEF StartLock
  <2>4. CASE StartCheck(t)
    BY <2>4 DEF StartCheck
  <2>5. CASE GetStartReason(t)
    BY <2>5 DEF GetStartReason
  <2>6. CASE OnStart(t)
    BY <2>6 DEF OnStart
  <2>7. CASE FinishStart(t)
    BY <2>7 DEF FinishStart
  <2>8. CASE PublishAdd(t)
    BY <2>8, NoneAssumption DEF PublishAdd
  <2>9. CASE PublishFail(t)
    BY <2>9 DEF PublishFail
  <2>10. CASE PublishSet(t)
    BY <2>10 DEF PublishSet
  <2>11. CASE IdleCheck(t)
    BY <2>11 DEF IdleCheck
  <2>12. CASE FinishIdle(t)
    BY <2>12 DEF FinishIdle
  <2>13. CASE ActiveCheck(t)
    BY <2>13 DEF ActiveCheck
  <2>14. CASE FinishActive(t)
    BY <2>14 DEF FinishActive
  <2>15. CASE CancelCheck(t)
    BY <2>15 DEF CancelCheck
  <2>16. CASE CancelCall(t)
    BY <2>16 DEF CancelCall
  <2>17. CASE StopCheck(t)
    BY <2>17 DEF StopCheck
  <2>18. CASE GetStopReason(t)
    BY <2>18 DEF GetStopReason
  <2>19. CASE FinishStop(t)
    BY <2>19, NoneAssumption DEF FinishStop
  <2>20. CASE StopRemove(t)
    BY <2>20 DEF StopRemove
  <2>21. QED
    BY <1>8, <2>1, <2>2, <2>3, <2>4, <2>5, <2>6, <2>7, <2>8, <2>9, <2>10, <2>11, <2>12, <2>13, <2>14, <2>15, <2>16, <2>17, <2>18, <2>19, <2>20 DEF Step
<1>9. CASE UNCHANGED vars
  BY <1>9 DEF vars
<1>10. QED
  BY <1>1, <1>2, <1>3, <1>4, <1>5, <1>6, <1>7, <1>8, <1>9 DEF Next


-----------------------------------------------------------------------------
(* What holds when samgr keeps to its own record.                          *)

\* abilityLock is owned by the thread that calls samgr with it.
LockOwner == \A t \in Thread : pc[t] \in Locking => abilityLock = t

\* What publish_add, publish_set and stop_remove may rely on.
AtSamgrCall ==
  \A t \in Thread :
    /\ pc[t] = "publish_add" => publishObj # None
    /\ pc[t] = "publish_set" => registered # None
    /\ pc[t] = "stop_remove" => abilityState = "NOT_LOADED"

\* No thread begins with a lock.
LEMMA InitLocks == Init => LockOwner /\ AtSamgrCall
<1> SUFFICES ASSUME Init PROVE LockOwner /\ AtSamgrCall
  OBVIOUS
<1>1. \A t \in Thread : pc[t] \in {"free", "start_lock"}
  BY Zenon DEF Init
<1>2. QED
  BY <1>1 DEF LockOwner, AtSamgrCall, Locking

\* Locks change hands only where Start, Publish and Stop take and release them.
LEMMA NextLocks ==
  TypeOK /\ LockOwner /\ (Outside \/ AtSamgrCall) /\ [Next]_vars
    => LockOwner' /\ (Outside \/ AtSamgrCall')
<1> DEFINE Inv == LockOwner /\ (Outside \/ AtSamgrCall)
<1> SUFFICES ASSUME TypeOK, Inv, [Next]_vars PROVE Inv'
  OBVIOUS
<1> USE DEF TypeOK, Label, Starting, Locking, LockOwner, AtSamgrCall, AbilityLockFree,
            Call, Goto, Return, AfterPublish,
            saVars, lockVars, reasonVars, samgrVars, threadVars
<1>1. ASSUME NEW t \in Thread, StartAbility(t) PROVE Inv'
  BY <1>1 DEF StartAbility
<1>2. ASSUME NEW t \in Thread, StopAbility(t) PROVE Inv'
  BY <1>2 DEF StopAbility
<1>3. ASSUME NEW t \in Thread, IdleAbility(t) PROVE Inv'
  BY <1>3 DEF IdleAbility
<1>4. ASSUME NEW t \in Thread, ActiveAbility(t) PROVE Inv'
  BY <1>4 DEF ActiveAbility
<1>5. ASSUME NEW t \in Thread, CancelIdle(t) PROVE Inv'
  BY <1>5 DEF CancelIdle
<1>6. ASSUME NEW t \in Thread, NEW o \in Object, Publish(t, o) PROVE Inv'
  BY <1>6, NoneAssumption DEF Publish
<1>7. CASE RemoveFromSamgr
  BY <1>7 DEF RemoveFromSamgr
<1>8. ASSUME NEW t \in Thread, Step(t) PROVE Inv'
  <2>1. CASE LoadSaLib(t)
    BY <2>1 DEF LoadSaLib
  <2>2. CASE FindAbility(t)
    BY <2>2 DEF FindAbility
  <2>3. CASE StartLock(t)
    BY <2>3 DEF StartLock
  <2>4. CASE StartCheck(t)
    BY <2>4 DEF StartCheck
  <2>5. CASE GetStartReason(t)
    BY <2>5 DEF GetStartReason
  <2>6. CASE OnStart(t)
    BY <2>6, NoneAssumption DEF OnStart
  <2>7. CASE FinishStart(t)
    BY <2>7 DEF FinishStart
  <2>8. CASE PublishAdd(t)
    BY <2>8, NoneAssumption DEF PublishAdd
  <2>9. CASE PublishFail(t)
    BY <2>9 DEF PublishFail
  <2>10. CASE PublishSet(t)
    BY <2>10, NoneAssumption DEF PublishSet
  <2>11. CASE IdleCheck(t)
    BY <2>11 DEF IdleCheck
  <2>12. CASE FinishIdle(t)
    BY <2>12, NoneAssumption DEF FinishIdle
  <2>13. CASE ActiveCheck(t)
    BY <2>13 DEF ActiveCheck
  <2>14. CASE FinishActive(t)
    BY <2>14, NoneAssumption DEF FinishActive
  <2>15. CASE CancelCheck(t)
    BY <2>15 DEF CancelCheck
  <2>16. CASE CancelCall(t)
    BY <2>16 DEF CancelCall
  <2>17. CASE StopCheck(t)
    BY <2>17 DEF StopCheck
  <2>18. CASE GetStopReason(t)
    BY <2>18 DEF GetStopReason
  <2>19. CASE FinishStop(t)
    BY <2>19, NoneAssumption DEF FinishStop
  <2>20. CASE StopRemove(t)
    BY <2>20, NoneAssumption DEF StopRemove
  <2>21. QED
    BY <1>8, <2>1, <2>2, <2>3, <2>4, <2>5, <2>6, <2>7, <2>8, <2>9, <2>10, <2>11, <2>12, <2>13, <2>14, <2>15, <2>16, <2>17, <2>18, <2>19, <2>20 DEF Step
<1>9. CASE UNCHANGED vars
  BY <1>9 DEF vars
<1>10. QED
  BY <1>1, <1>2, <1>3, <1>4, <1>5, <1>6, <1>7, <1>8, <1>9 DEF Next

\* Whether a thread runs Idle or Active, from the call to the end.
Syncing(t) == call[t].op \in {"Idle", "Active"}

\* samgr's record says what runs: a thread in Stop means "stopping", one in Idle
\* or Active means "up", there is one of them at most, an SA that is up is
\* registered, and one that is being stopped has not been unloaded.
RecordInv ==
  /\ \A t \in Thread :
       /\ pc[t] \in {"idle_check", "OnIdle", "active_check", "OnActive"} => Syncing(t)
       /\ Syncing(t) => samgr = "up"
       /\ call[t].op = "Stop" => samgr = "stopping"
       /\ pc[t] \in {"stop_reason", "OnStop"} => abilityState # "NOT_LOADED"
  /\ \A t, u \in Thread : call[t].op = "Stop" /\ call[u].op = "Stop" => t = u
  /\ \A t, u \in Thread : Syncing(t) /\ Syncing(u) => t = u
  /\ samgr = "up" => registered # None /\ ~diverged
  /\ abilityLock = None /\ abilityState # "NOT_LOADED" /\ ~diverged => registered # None

\* samgr begins without a record of the SA.
LEMMA InitRecordInv == Init => RecordInv
<1> SUFFICES ASSUME Init PROVE RecordInv
  OBVIOUS
<1>1. \A t \in Thread :
        \/ pc[t] = "free" /\ call[t] = NoCall
        \/ pc[t] = "start_lock" /\ call[t] = BootCall
  BY Zenon DEF Init
<1>2. samgr = "none" /\ abilityState = "NOT_LOADED"
  BY DEF Init
<1>3. QED
  BY <1>1, <1>2 DEF RecordInv, Syncing, NoCall, BootCall

\* What the order samgr keeps means for each of its calls.
LEMMA OrderedCalls ==
  ASSUME Ordered
  PROVE  /\ MayCall("Start") => samgr \in {"none", "starting"}
         /\ \A o \in {"Idle", "Active", "Stop"} :
              MayCall(o) => samgr = "up" /\ \A u \in Thread : ~Syncing(u)
  BY DEF MayCall, SyncCallPending, Syncing

\* Every step keeps what samgr's record says of the calls under way.
LEMMA NextRecordInv ==
  ASSUME Ordered, ~Outside
  PROVE  TypeOK /\ LifecycleInv /\ LockOwner /\ AtSamgrCall /\ RecordInv /\ [Next]_vars
           => RecordInv'
<1> SUFFICES ASSUME TypeOK, LifecycleInv, LockOwner, AtSamgrCall, RecordInv, [Next]_vars
             PROVE  RecordInv'
  OBVIOUS
<1> USE DEF TypeOK, Label, Starting, Locking, Op, NoCall, LockOwner, AtSamgrCall, AbilityLockFree,
            LifecycleInv, OpOfLabel, RegisteredIsLoaded, RecordInv, Syncing,
            Call, Goto, Return, AfterPublish,
            saVars, lockVars, reasonVars, samgrVars, threadVars
<1>1. ASSUME NEW t \in Thread, StartAbility(t) PROVE RecordInv'
  BY <1>1, OrderedCalls DEF StartAbility
<1>2. ASSUME NEW t \in Thread, StopAbility(t) PROVE RecordInv'
  BY <1>2, OrderedCalls DEF StopAbility
<1>3. ASSUME NEW t \in Thread, IdleAbility(t) PROVE RecordInv'
  BY <1>3, OrderedCalls DEF IdleAbility
<1>4. ASSUME NEW t \in Thread, ActiveAbility(t) PROVE RecordInv'
  BY <1>4, OrderedCalls DEF ActiveAbility
<1>5. ASSUME NEW t \in Thread, CancelIdle(t) PROVE RecordInv'
  BY <1>5 DEF CancelIdle
<1>6. ASSUME NEW t \in Thread, NEW o \in Object, Publish(t, o) PROVE RecordInv'
  BY <1>6 DEF Publish
<1>7. CASE RemoveFromSamgr
  BY <1>7, NoneAssumption DEF RemoveFromSamgr
<1>8. ASSUME NEW t \in Thread, Step(t) PROVE RecordInv'
  <2>1. CASE LoadSaLib(t)
    BY <2>1 DEF LoadSaLib
  <2>2. CASE FindAbility(t)
    BY <2>2 DEF FindAbility
  <2>3. CASE StartLock(t)
    BY <2>3 DEF StartLock
  <2>4. CASE StartCheck(t)
    <3>1. Goto(t, "start_reason") \/ Return(t)
      BY <2>4 DEF StartCheck
    <3>2. UNCHANGED <<saVars, abilityLock, loaded, reasonVars, samgrVars>>
      BY <2>4 DEF StartCheck
    <3>3. QED
      BY <2>4, <3>1, <3>2
  <2>5. CASE GetStartReason(t)
    BY <2>5 DEF GetStartReason
  <2>6. CASE OnStart(t)
    BY <2>6 DEF OnStart
  <2>7. CASE FinishStart(t)
    BY <2>7 DEF FinishStart
  <2>8. CASE PublishAdd(t)
    BY <2>8, NoneAssumption DEF PublishAdd
  <2>9. CASE PublishFail(t)
    BY <2>9 DEF PublishFail
  <2>10. CASE PublishSet(t)
    BY <2>10, NoneAssumption DEF PublishSet
  <2>11. CASE IdleCheck(t)
    <3>1. Goto(t, "OnIdle") \/ Return(t)
      BY <2>11 DEF IdleCheck
    <3>2. pc[t] = "idle_check" /\ UNCHANGED <<saVars, abilityLock, loaded, reasonVars, samgrVars>>
      BY <2>11 DEF IdleCheck
    <3>3. CASE Goto(t, "OnIdle")
      BY <3>2, <3>3
    <3>4. CASE Return(t)
      BY <3>2, <3>4
    <3>5. QED
      BY <3>1, <3>3, <3>4
  <2>12. CASE FinishIdle(t)
    BY <2>12, NoneAssumption DEF FinishIdle
  <2>13. CASE ActiveCheck(t)
    BY <2>13 DEF ActiveCheck
  <2>14. CASE FinishActive(t)
    BY <2>14, NoneAssumption DEF FinishActive
  <2>15. CASE CancelCheck(t)
    BY <2>15 DEF CancelCheck
  <2>16. CASE CancelCall(t)
    BY <2>16, OrderedCalls DEF CancelCall
  <2>17. CASE StopCheck(t)
    BY <2>17 DEF StopCheck
  <2>18. CASE GetStopReason(t)
    BY <2>18 DEF GetStopReason
  <2>19. CASE FinishStop(t)
    BY <2>19, NoneAssumption DEF FinishStop
  <2>20. CASE StopRemove(t)
    BY <2>20, NoneAssumption DEF StopRemove
  <2>21. QED
    BY <1>8, <2>1, <2>2, <2>3, <2>4, <2>5, <2>6, <2>7, <2>8, <2>9, <2>10, <2>11, <2>12, <2>13, <2>14, <2>15, <2>16, <2>17, <2>18, <2>19, <2>20 DEF Step
<1>9. CASE UNCHANGED vars
  BY <1>9 DEF vars
<1>10. QED
  BY <1>1, <1>2, <1>3, <1>4, <1>5, <1>6, <1>7, <1>8, <1>9 DEF Next


\* Every step keeps the published object and samgr's in step.
LEMMA NextPublished ==
  TypeOK /\ PublishedObjectCurrent /\ [Next]_vars => PublishedObjectCurrent'
<1> SUFFICES ASSUME TypeOK, PublishedObjectCurrent, [Next]_vars, ~Faults
             PROVE  PublishedObjectCurrent'
  BY DEF PublishedObjectCurrent
<1> USE DEF TypeOK, Label, Starting, Locking, PublishedObjectCurrent,
            Call, Goto, Return, AfterPublish,
            saVars, lockVars, reasonVars, samgrVars, threadVars
<1>1. ASSUME NEW t \in Thread, StartAbility(t) PROVE PublishedObjectCurrent'
  BY <1>1 DEF StartAbility
<1>2. ASSUME NEW t \in Thread, StopAbility(t) PROVE PublishedObjectCurrent'
  BY <1>2 DEF StopAbility
<1>3. ASSUME NEW t \in Thread, IdleAbility(t) PROVE PublishedObjectCurrent'
  BY <1>3 DEF IdleAbility
<1>4. ASSUME NEW t \in Thread, ActiveAbility(t) PROVE PublishedObjectCurrent'
  BY <1>4 DEF ActiveAbility
<1>5. ASSUME NEW t \in Thread, CancelIdle(t) PROVE PublishedObjectCurrent'
  BY <1>5 DEF CancelIdle
<1>6. ASSUME NEW t \in Thread, NEW o \in Object, Publish(t, o) PROVE PublishedObjectCurrent'
  BY <1>6 DEF Publish
<1>7. CASE RemoveFromSamgr
  BY <1>7 DEF RemoveFromSamgr
<1>8. ASSUME NEW t \in Thread, Step(t) PROVE PublishedObjectCurrent'
  <2>1. CASE LoadSaLib(t)
    BY <2>1 DEF LoadSaLib
  <2>2. CASE FindAbility(t)
    BY <2>2 DEF FindAbility
  <2>3. CASE StartLock(t)
    BY <2>3 DEF StartLock
  <2>4. CASE StartCheck(t)
    BY <2>4 DEF StartCheck
  <2>5. CASE GetStartReason(t)
    BY <2>5 DEF GetStartReason
  <2>6. CASE OnStart(t)
    BY <2>6 DEF OnStart
  <2>7. CASE FinishStart(t)
    BY <2>7 DEF FinishStart
  <2>8. CASE PublishAdd(t)
    BY <2>8 DEF PublishAdd
  <2>9. CASE PublishFail(t)
    BY <2>9 DEF PublishFail
  <2>10. CASE PublishSet(t)
    BY <2>10 DEF PublishSet
  <2>11. CASE IdleCheck(t)
    BY <2>11 DEF IdleCheck
  <2>12. CASE FinishIdle(t)
    BY <2>12 DEF FinishIdle
  <2>13. CASE ActiveCheck(t)
    BY <2>13 DEF ActiveCheck
  <2>14. CASE FinishActive(t)
    BY <2>14 DEF FinishActive
  <2>15. CASE CancelCheck(t)
    BY <2>15 DEF CancelCheck
  <2>16. CASE CancelCall(t)
    BY <2>16 DEF CancelCall
  <2>17. CASE StopCheck(t)
    BY <2>17 DEF StopCheck
  <2>18. CASE GetStopReason(t)
    BY <2>18 DEF GetStopReason
  <2>19. CASE FinishStop(t)
    BY <2>19 DEF FinishStop
  <2>20. CASE StopRemove(t)
    BY <2>20 DEF StopRemove
  <2>21. QED
    BY <1>8, <2>1, <2>2, <2>3, <2>4, <2>5, <2>6, <2>7, <2>8, <2>9, <2>10, <2>11, <2>12, <2>13, <2>14, <2>15, <2>16, <2>17, <2>18, <2>19, <2>20 DEF Step
<1>9. CASE UNCHANGED vars
  BY <1>9 DEF vars
<1>10. QED
  BY <1>1, <1>2, <1>3, <1>4, <1>5, <1>6, <1>7, <1>8, <1>9 DEF Next

-----------------------------------------------------------------------------
\* Every variable keeps its type, whatever calls are made and fail.
THEOREM TypeCorrect == Spec => []TypeOK
<1>1. Init => TypeOK
  BY InitTypeOK
<1>2. TypeOK /\ [Next]_vars => TypeOK'
  BY NextTypeOK
<1>3. QED
  BY <1>1, <1>2, PTL DEF Spec

\* The inductive invariant holds in every reachable state.
THEOREM LifecycleInvariant == Spec => []LifecycleInv
<1>1. Init => LifecycleInv
  BY InitLifecycleInv
<1>2. TypeOK /\ LifecycleInv /\ [Next]_vars => LifecycleInv'
  BY NextLifecycleInv
<1>3. QED
  BY <1>1, <1>2, TypeCorrect, PTL DEF Spec

\* OnStart never runs in two threads, for any number of start requests:
\* both threads would own onStartLock_.
THEOREM OnStartIsExclusive == Spec => []OnStartExclusive
<1>1. LifecycleInv => OnStartExclusive
  BY DEF LifecycleInv, StartOwner, OnStartExclusive
<1>2. QED
  BY <1>1, LifecycleInvariant, PTL

\* samgr holds no object of an SA that is NOT_LOADED, once abilityLock is free,
\* under any interleaving of Start, Stop, Idle, Active and Publish.
THEOREM RegisteredSaIsLoaded == Spec => []RegisteredIsLoaded
<1>1. LifecycleInv => RegisteredIsLoaded
  BY DEF LifecycleInv
<1>2. QED
  BY <1>1, LifecycleInvariant, PTL

\* No callback receives a reason older than the request it serves.
THEOREM ReasonsAreNotStale == Spec => []ReasonNotStale
<1>1. LifecycleInv => ReasonNotStale
  BY DEF LifecycleInv
<1>2. QED
  BY <1>1, LifecycleInvariant, PTL

\* The object the SA hands out is the one samgr holds, without faults.
THEOREM PublishedObjectIsCurrent == Spec => []PublishedObjectCurrent
<1>1. Init => PublishedObjectCurrent
  BY DEF Init, PublishedObjectCurrent
<1>2. TypeOK /\ PublishedObjectCurrent /\ [Next]_vars => PublishedObjectCurrent'
  BY NextPublished
<1>3. QED
  BY <1>1, <1>2, TypeCorrect, PTL DEF Spec

\* The invariants of an ordered samgr, as one state predicate.
OrderedInv == (Outside \/ AtSamgrCall) /\ (Ordered /\ ~Outside => RecordInv)

\* When samgr makes only the calls its record allows, the stronger invariant of
\* locks, record and calls holds in every state.
THEOREM OrderedInvariant == Spec => [](LockOwner /\ OrderedInv)
<1>1. Init => LockOwner /\ OrderedInv
  BY InitLocks, InitRecordInv DEF OrderedInv
<1>2. TypeOK /\ LifecycleInv /\ LockOwner /\ OrderedInv /\ [Next]_vars
        => (LockOwner /\ OrderedInv)'
  <2> SUFFICES ASSUME TypeOK, LifecycleInv, LockOwner, OrderedInv, [Next]_vars
               PROVE  LockOwner' /\ OrderedInv'
    OBVIOUS
  <2>1. LockOwner' /\ (Outside \/ AtSamgrCall')
    BY NextLocks DEF OrderedInv
  <2>2. Ordered /\ ~Outside => RecordInv'
    BY NextRecordInv DEF OrderedInv
  <2>3. QED
    BY <2>1, <2>2 DEF OrderedInv
<1>3. QED
  BY <1>1, <1>2, TypeCorrect, LifecycleInvariant, PTL DEF Spec

\* With an ordered samgr, abilityState_ and samgr's table agree.
THEOREM StateAndSamgrAgree == Spec => []StateMatchesSamgr
<1>1. LifecycleInv /\ OrderedInv => StateMatchesSamgr
  BY DEF LifecycleInv, RegisteredIsLoaded, OrderedInv, RecordInv, StateMatchesSamgr
<1>2. QED
  BY <1>1, LifecycleInvariant, OrderedInvariant, PTL

\* With an ordered samgr, OnIdle, OnActive and OnStop never overlap: two threads
\* in them would both run Idle or Active, or both Stop, or make samgr's record
\* "up" and "stopping" at once.
THEOREM CallbacksAreExclusive == Spec => []CallbacksExclusive
<1>1. LifecycleInv /\ OrderedInv => CallbacksExclusive
  BY DEF LifecycleInv, OpOfLabel, OrderedInv, RecordInv, CallbacksExclusive, InCallback
<1>2. QED
  BY <1>1, LifecycleInvariant, OrderedInvariant, PTL

-----------------------------------------------------------------------------
(* The threads together implement AbilityLifecycle.                        *)

Callback == {"OnIdle", "OnActive", "OnStop"}

\* The labels that the refinement mapping looks at.
Seen == Callback \cup Locking

\* The refinement mapping, as it is written in SystemAbility.
StateSeen == IF \E t \in Thread : pc[t] = "publish_set" THEN "ACTIVE" ELSE abilityState
ObjectSeen == IF \E t \in Thread : pc[t] = "stop_remove" THEN None ELSE registered
DoingSeen == {pc[t] : t \in Thread} \cap Callback

\* A step of one thread between labels that are not seen, and that leaves the
\* state and samgr's table alone, is not seen.
LEMMA UnseenStep ==
  ASSUME TypeOK, NEW t \in Thread, NEW label \in Label,
         pc' = [pc EXCEPT ![t] = label], pc[t] \notin Seen, label \notin Seen,
         abilityState' = abilityState, registered' = registered
  PROVE  StateSeen' = StateSeen /\ ObjectSeen' = ObjectSeen /\ DoingSeen' = DoingSeen
<1>1. pc \in [Thread -> Label]
  BY DEF TypeOK
<1>2. \A s \in Seen : \A u \in Thread : pc'[u] = s <=> pc[u] = s
  BY <1>1
<1>3. QED
  BY <1>2 DEF StateSeen, ObjectSeen, DoingSeen, Seen, Locking

\* With abilityLock free nothing is hidden.
LEMMA NothingHidden ==
  ASSUME TypeOK, LockOwner, abilityLock = None
  PROVE  /\ \A t \in Thread : pc[t] \notin Locking
         /\ StateSeen = abilityState
         /\ ObjectSeen = registered
  BY NoneAssumption DEF LockOwner, Locking, StateSeen, ObjectSeen

\* When one thread alone may be in a callback, entering one or leaving it
\* changes what is seen to run, from nothing or to nothing.
LEMMA DoingChanges ==
  ASSUME TypeOK, NEW t \in Thread, NEW label \in Label, pc' = [pc EXCEPT ![t] = label],
         \A u \in Thread \ {t} : pc[u] \notin Callback
  PROVE  /\ DoingSeen = {pc[t]} \cap Callback
         /\ DoingSeen' = {label} \cap Callback
<1>1. pc \in [Thread -> Label]
  BY DEF TypeOK
<1>2. DoingSeen = {pc[t]} \cap Callback
  BY DEF DoingSeen
<1>3. \A u \in Thread : pc'[u] = IF u = t THEN label ELSE pc[u]
  BY <1>1
<1>4. DoingSeen' = {label} \cap Callback
  BY <1>3 DEF DoingSeen
<1>5. QED
  BY <1>2, <1>4

\* What each thread's step does to the life cycle.  The steps that are seen are
\* PublishAdd (Publish), the checks and ends of the callbacks (Begin and End);
\* PublishSet and StopRemove only end what the lock hides.
LEMMA StepIsSeen ==
  ASSUME Ordered, ~Faults, ~Outside, TypeOK, LifecycleInv, LockOwner, AtSamgrCall, RecordInv,
         NEW t \in Thread, Step(t)
  PROVE  Lifecycle!Next \/ UNCHANGED <<StateSeen, ObjectSeen, DoingSeen>>
<1> USE DEF Goto, Return, AfterPublish, Label, Starting, Locking, Callback, Seen,
            saVars, lockVars, reasonVars, samgrVars
<1>0. pc \in [Thread -> Label]
  BY DEF TypeOK
<1>1. CASE LoadSaLib(t) \/ FindAbility(t) \/ StartLock(t) \/ StartCheck(t) \/ GetStartReason(t)
  BY <1>1, UnseenStep DEF LoadSaLib, FindAbility, StartLock, StartCheck, GetStartReason
<1>2. CASE OnStart(t) \/ FinishStart(t) \/ PublishFail(t) \/ CancelCheck(t) \/ CancelCall(t)
  BY <1>2, UnseenStep DEF OnStart, FinishStart, PublishFail, CancelCheck, CancelCall
<1>3. CASE PublishAdd(t)
  <2>1. abilityLock = None /\ publishObj \in Object /\ registered' = publishObj
    BY <1>3 DEF PublishAdd, AbilityLockFree, AtSamgrCall, TypeOK
  <2>2. pc[t] = "publish_add" /\ pc' = [pc EXCEPT ![t] = "publish_set"]
    BY <1>3 DEF PublishAdd
  <2>3. \A u \in Thread : pc[u] # "stop_remove"
    BY <2>1, NothingHidden
  <2>4. StateSeen' = "ACTIVE" /\ ObjectSeen' = publishObj
    BY <1>0, <2>1, <2>2, <2>3 DEF StateSeen, ObjectSeen
  <2>5. DoingSeen' = DoingSeen
    BY <1>0, <2>2 DEF DoingSeen
  <2>6. \E o \in Object : Lifecycle!Publish(o)
    <3>1. PICK o \in Object : publishObj = o
      BY <2>1
    <3>2. Lifecycle!Publish(o)
      BY <2>4, <2>5, <3>1 DEF Lifecycle!Publish, StateSeen, ObjectSeen, DoingSeen
    <3>3. QED
      BY <3>2
  <2>7. QED
    BY <2>6, Zenon DEF Lifecycle!Next
<1>4. CASE PublishSet(t)
  <2>1. /\ pc[t] = "publish_set" /\ abilityLock = t
        /\ abilityState' = "ACTIVE" /\ registered' = registered
    BY <1>4 DEF PublishSet, LockOwner
  <2>2. PICK label \in {"OnStarted", "free"} : pc' = [pc EXCEPT ![t] = label]
    BY <1>4 DEF PublishSet
  <2>3. \A u \in Thread : pc[u] # "stop_remove"
    BY <2>1 DEF LockOwner
  <2>4. StateSeen' = StateSeen /\ ObjectSeen' = ObjectSeen
    BY <1>0, <2>1, <2>2, <2>3 DEF StateSeen, ObjectSeen
  <2>5. DoingSeen' = DoingSeen
    BY <1>0, <2>1, <2>2 DEF DoingSeen
  <2>6. QED
    BY <2>4, <2>5
<1>5. CASE IdleCheck(t) \/ ActiveCheck(t)
  <2>1. /\ pc[t] \in {"idle_check", "active_check"} /\ abilityLock = None
        /\ abilityState' = abilityState /\ registered' = registered
        /\ abilityLock' = abilityLock
    BY <1>5 DEF IdleCheck, ActiveCheck, AbilityLockFree
  <2>2. \A u \in Thread \ {t} : pc[u] \notin Callback
    BY <2>1 DEF RecordInv, LifecycleInv, OpOfLabel
  <2>3. CASE pc' = [pc EXCEPT ![t] = "free"]
    BY <2>1, <2>3, UnseenStep
  <2>4. ASSUME NEW label \in Callback, NEW from \in SystemAbilityState,
               pc' = [pc EXCEPT ![t] = label], abilityState = from
        PROVE  Lifecycle!Begin(label, {from})
    <3>1. DoingSeen = {} /\ DoingSeen' = {label}
      BY <2>1, <2>2, <2>4, DoingChanges
    <3>2. StateSeen = abilityState /\ ObjectSeen = registered
      BY <2>1, NothingHidden
    <3>3. StateSeen' = abilityState /\ ObjectSeen' = registered
      BY <1>0, <2>1, <2>4, NothingHidden DEF StateSeen, ObjectSeen
    <3>4. QED
      BY <2>4, <3>1, <3>2, <3>3 DEF Lifecycle!Begin, StateSeen, ObjectSeen, DoingSeen
  <2>5. QED
    BY <1>5, <2>3, <2>4 DEF IdleCheck, ActiveCheck, Lifecycle!Next, SystemAbilityState
<1>6. CASE FinishIdle(t) \/ FinishActive(t)
  <2>1. /\ pc[t] \in {"OnIdle", "OnActive"} /\ abilityLock = None
        /\ registered' = registered /\ pc' = [pc EXCEPT ![t] = "free"]
    BY <1>6 DEF FinishIdle, FinishActive, AbilityLockFree
  <2>2. \A u \in Thread \ {t} : pc[u] \notin Callback
    BY <2>1 DEF RecordInv, LifecycleInv, OpOfLabel
  <2>3. DoingSeen = {pc[t]} /\ DoingSeen' = {}
    <3>1. DoingSeen = {pc[t]} \cap Callback /\ DoingSeen' = {"free"} \cap Callback
      BY <2>1, <2>2, DoingChanges, "free" \in Label
    <3>2. QED
      BY <2>1, <3>1
  <2>4. StateSeen = abilityState /\ ObjectSeen = registered
    BY <2>1, NothingHidden
  <2>5. StateSeen' = abilityState' /\ ObjectSeen' = registered
    BY <1>0, <2>1, NothingHidden DEF StateSeen, ObjectSeen
  <2>6. abilityState # "NOT_LOADED"
    BY <2>1 DEF RecordInv, LifecycleInv, RegisteredIsLoaded
  <2>7. ASSUME NEW c, pc[t] = c, NEW S, abilityState' \in S, "NOT_LOADED" \notin S
        PROVE  Lifecycle!End(c, S)
    BY <2>3, <2>4, <2>5, <2>6, <2>7 DEF Lifecycle!End, StateSeen, ObjectSeen, DoingSeen
  <2>8. CASE FinishIdle(t)
    <3>1. pc[t] = "OnIdle" /\ abilityState' \in {"IDLE", abilityState}
      BY <2>8 DEF FinishIdle
    <3>2. Lifecycle!End("OnIdle", {"IDLE", StateSeen})
      BY <2>3, <2>4, <2>5, <2>6, <3>1 DEF Lifecycle!End, StateSeen, ObjectSeen, DoingSeen
    <3>3. QED
      BY <3>2 DEF Lifecycle!Next, StateSeen
  <2>9. CASE FinishActive(t)
    BY <2>7, <2>9 DEF FinishActive, Lifecycle!Next
  <2>10. QED
    BY <1>6, <2>8, <2>9
<1>7. CASE StopCheck(t)
  BY <1>7, UnseenStep DEF StopCheck
<1>8. CASE GetStopReason(t)
  <2>1. /\ pc[t] = "stop_reason" /\ pc' = [pc EXCEPT ![t] = "OnStop"]
        /\ abilityState' = abilityState /\ registered' = registered
    BY <1>8 DEF GetStopReason
  <2>2. \A u \in Thread \ {t} : pc[u] \notin Callback
    BY <2>1 DEF RecordInv, LifecycleInv, OpOfLabel
  <2>3. DoingSeen = {} /\ DoingSeen' = {"OnStop"}
    BY <2>1, <2>2, DoingChanges
  <2>4. StateSeen' = StateSeen /\ ObjectSeen' = ObjectSeen
    BY <1>0, <2>1 DEF StateSeen, ObjectSeen
  <2>5. StateSeen \in {"ACTIVE", "IDLE"}
    BY <2>1 DEF StateSeen, RecordInv, TypeOK, SystemAbilityState
  <2>6. Lifecycle!Begin("OnStop", {"ACTIVE", "IDLE"})
    BY <2>3, <2>4, <2>5 DEF Lifecycle!Begin, StateSeen, ObjectSeen, DoingSeen
  <2>7. QED
    BY <2>6 DEF Lifecycle!Next
<1>9. CASE FinishStop(t)
  <2>1. /\ pc[t] = "OnStop" /\ pc' = [pc EXCEPT ![t] = "stop_remove"]
        /\ abilityLock = None /\ abilityState' = "NOT_LOADED"
    BY <1>9 DEF FinishStop, AbilityLockFree
  <2>2. \A u \in Thread \ {t} : pc[u] \notin Callback
    BY <2>1 DEF RecordInv, LifecycleInv, OpOfLabel
  <2>3. DoingSeen = {"OnStop"} /\ DoingSeen' = {}
    <3>1. DoingSeen = {pc[t]} \cap Callback /\ DoingSeen' = {"stop_remove"} \cap Callback
      BY <2>1, <2>2, DoingChanges, "stop_remove" \in Label
    <3>2. QED
      BY <2>1, <3>1
  <2>4. StateSeen # "NOT_LOADED"
    BY <2>1, NothingHidden DEF RecordInv
  <2>5. StateSeen' = "NOT_LOADED" /\ ObjectSeen' = None
    BY <1>0, <2>1, NothingHidden DEF StateSeen, ObjectSeen
  <2>6. Lifecycle!End("OnStop", {"NOT_LOADED"})
    BY <2>3, <2>4, <2>5 DEF Lifecycle!End, StateSeen, ObjectSeen, DoingSeen
  <2>7. QED
    BY <2>6 DEF Lifecycle!Next
<1>10. CASE StopRemove(t)
  <2>1. /\ pc[t] = "stop_remove" /\ pc' = [pc EXCEPT ![t] = "free"]
        /\ abilityLock = t /\ abilityState' = abilityState /\ registered' = None
    BY <1>10 DEF StopRemove, LockOwner
  <2>2. \A u \in Thread \ {t} : pc[u] \notin Locking
    BY <2>1 DEF LockOwner
  <2>3. StateSeen' = StateSeen /\ ObjectSeen' = ObjectSeen
    BY <1>0, <2>1, <2>2 DEF StateSeen, ObjectSeen
  <2>4. DoingSeen' = DoingSeen
    BY <1>0, <2>1 DEF DoingSeen
  <2>5. QED
    BY <2>3, <2>4
<1>11. QED
  BY <1>1, <1>2, <1>3, <1>4, <1>5, <1>6, <1>7, <1>8, <1>9, <1>10 DEF Step

\* When samgr keeps to its record and nothing fails, the threads that run
\* Start, Idle, Active, Stop and Publish on an SA implement the life cycle of
\* one SA that changes its state and samgr's table in one step and runs one
\* callback at a time.
THEOREM ImplementsTheLifecycle ==
  ASSUME Ordered, ~Faults, ~Outside
  PROVE  Spec => ImplementsLifecycle
<1>1. Init => Lifecycle!Init
  <2> SUFFICES ASSUME Init PROVE Lifecycle!Init
    OBVIOUS
  <2>1. \A t \in Thread : pc[t] \in {"free", "start_lock"}
    BY Zenon DEF Init
  <2>2. abilityState = "NOT_LOADED" /\ registered = None
    BY DEF Init
  <2>3. QED
    BY <2>1, <2>2 DEF Lifecycle!Init
<1>2. TypeOK /\ LifecycleInv /\ LockOwner /\ OrderedInv /\ [Next]_vars
        => [Lifecycle!Next]_(Lifecycle!lifecycleVars)
  <2> SUFFICES ASSUME TypeOK, LifecycleInv, LockOwner, OrderedInv, [Next]_vars
               PROVE  Lifecycle!Next \/ UNCHANGED <<StateSeen, ObjectSeen, DoingSeen>>
    BY DEF Lifecycle!lifecycleVars, StateSeen, ObjectSeen, DoingSeen, Callback
  <2>1. AtSamgrCall /\ RecordInv
    BY DEF OrderedInv
  <2>2. ASSUME NEW t \in Thread, Step(t)
        PROVE  Lifecycle!Next \/ UNCHANGED <<StateSeen, ObjectSeen, DoingSeen>>
    BY <2>1, <2>2, StepIsSeen
  <2>3. ASSUME NEW t \in Thread,
               \/ StartAbility(t) \/ StopAbility(t) \/ IdleAbility(t) \/ ActiveAbility(t)
               \/ CancelIdle(t) \/ \E o \in Object : Publish(t, o)
        PROVE  UNCHANGED <<StateSeen, ObjectSeen, DoingSeen>>
    <3>1. /\ pc[t] = "free" /\ abilityState' = abilityState /\ registered' = registered
          /\ \E label \in {"load", "stop_check", "idle_check", "active_check",
                           "cancel_check", "publish_add"} : pc' = [pc EXCEPT ![t] = label]
      BY <2>3 DEF StartAbility, StopAbility, IdleAbility, ActiveAbility, CancelIdle, Publish,
         Call, saVars, samgrVars
    <3>2. QED
      BY <3>1, UnseenStep DEF Label, Seen, Callback, Locking
  <2>4. ~RemoveFromSamgr
    BY DEF RemoveFromSamgr
  <2>5. CASE UNCHANGED vars
    BY <2>5 DEF vars, saVars, samgrVars, threadVars, StateSeen, ObjectSeen, DoingSeen
  <2>6. QED
    BY <2>2, <2>3, <2>4, <2>5 DEF Next
<1>3. QED
  BY <1>1, <1>2, TypeCorrect, LifecycleInvariant, OrderedInvariant, PTL
     DEF Spec, ImplementsLifecycle, Lifecycle!Spec
=============================================================================
