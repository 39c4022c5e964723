-------------------------- MODULE BootPhasesProofs --------------------------
(***************************************************************************)
(* Proofs about BootPhases, for any finite set of SAs, any profiles, any   *)
(* size of the pool and of its queue, with failures and timeouts.          *)
(***************************************************************************)
EXTENDS BootPhases, FiniteSetTheorems, TLAPS

\* A phase is worked on only while there is one.
PhaseBound == pc \in {"add", "push", "wait"} => bootPhase <= 3

\* What the profiles hold.
LEMMA ProfileType ==
  ASSUME profile \in Profiles, NEW s \in SA
  PROVE  profile[s].bootPhase \in 1..4
BY ProfileAssumption

\* Loading a phase keeps the types of what it changes.
LEMMA LoadType ==
  ASSUME TypeOK, NEW profiles \in SUBSET SA, NEW p \in Nat \ {0},
         InitializeRunOnCreateSaProfiles(profiles, p)
  PROVE  /\ localAbilityMap' \subseteq SA
         /\ abilityPhaseMap' \in [Phase -> SUBSET SA]
         /\ \A q \in Phase : \A s \in abilityPhaseMap'[q] :
              s \in abilityPhaseMap[q] \/ profile[s].bootPhase = q
<1>1. CASE p > 3
  BY <1>1 DEF InitializeRunOnCreateSaProfiles, TypeOK
<1>2. CASE p <= 3
  <2>1. \A opened \in OpenSo(profiles, p) : opened \subseteq SA
    BY DEF OpenSo
  <2>2. localAbilityMap' \subseteq SA
    BY <1>2, <2>1 DEF InitializeRunOnCreateSaProfiles, TypeOK
  <2>3. abilityPhaseMap' = [abilityPhaseMap EXCEPT ![p] =
          {s \in profiles \cap localAbilityMap' : profile[s].bootPhase = p}]
    BY <1>2 DEF InitializeRunOnCreateSaProfiles
  <2>4. QED
    BY <1>2, <2>2, <2>3 DEF TypeOK, Phase
<1>3. QED
  BY <1>1, <1>2

\* The same for what the main thread loads between two phases.
LEMMA LoadNextType ==
  ASSUME TypeOK, LoadNextPhase
  PROVE  /\ localAbilityMap' \subseteq SA
         /\ abilityPhaseMap' \in [Phase -> SUBSET SA]
         /\ \A q \in Phase : \A s \in abilityPhaseMap'[q] :
              s \in abilityPhaseMap[q] \/ profile[s].bootPhase = q
<1>1. CASE InitializeRunOnCreateSaProfiles(saProfiles, bootPhase + 1)
  <2>1. saProfiles \in SUBSET SA /\ bootPhase + 1 \in Nat \ {0}
    BY DEF TypeOK
  <2>2. QED
    BY <1>1, <2>1, LoadType
<1>2. CASE UNCHANGED <<localAbilityMap, abilityPhaseMap>>
  BY <1>2 DEF TypeOK
<1>3. QED
  BY <1>1, <1>2 DEF LoadNextPhase

\* A process begins well typed, in its first phase.
LEMMA InitTypeOK == Init => TypeOK /\ PhaseBound
<1> SUFFICES ASSUME Init PROVE TypeOK /\ PhaseBound
  OBVIOUS
<1>1. Faults \in BOOLEAN
  BY FlagAssumption
<1>2. faulty \in BOOLEAN
  BY <1>1, Zenon DEF Init
<1>3. QED
  BY <1>2 DEF Init, TypeOK, PhaseBound, Phase

\* Every step keeps the types.
LEMMA NextTypeOK == TypeOK /\ PhaseBound /\ [Next]_vars => TypeOK' /\ PhaseBound'
<1> SUFFICES ASSUME TypeOK, PhaseBound, [Next]_vars PROVE TypeOK' /\ PhaseBound'
  OBVIOUS
<1> USE DEF PhaseBound, argVars, configVars, loadVars, samgrVars, mainVars, taskVars
<1>0. CASE MainArgs
  <2>1. /\ pc' \in {"start", "exit"}
        /\ saId' = saId \/ saId' \in SA \cup Elsewhere
        /\ UNCHANGED <<argv, profile, faulty, loadVars, samgrVars, bootPhase, toAdd, taskVars>>
    BY <1>0, Zenon DEF MainArgs, CheckSaId
  <2>2. QED
    BY <2>1 DEF TypeOK
<1>8. CASE DoStartSAProcess
  BY <1>8 DEF DoStartSAProcess, TypeOK
<1>1. CASE InitSystemAbilityProfiles
  <2>1. CASE pc' = "exit" /\ UNCHANGED loadVars
    BY <1>1, <2>1 DEF InitSystemAbilityProfiles, TypeOK
  <2>2. ASSUME NEW trusted \in SUBSET SA, saProfiles' = trusted, pc' = "ready",
               \/ saId = None /\ trusted # {} /\ InitializeRunOnCreateSaProfiles(trusted, 1)
               \/ saId # None /\ InitializeOnDemandSaProfile(trusted)
        PROVE  TypeOK' /\ PhaseBound'
    <3>1. localAbilityMap' \subseteq SA /\ abilityPhaseMap' \in [Phase -> SUBSET SA]
      <4>1. CASE InitializeRunOnCreateSaProfiles(trusted, 1)
        BY <4>1, LoadType
      <4>2. CASE InitializeOnDemandSaProfile(trusted)
        BY <4>2 DEF InitializeOnDemandSaProfile, TypeOK
      <4>3. QED
        BY <2>2, <4>1, <4>2
    <3>2. QED
      BY <1>1, <2>2, <3>1 DEF InitSystemAbilityProfiles, TypeOK
  <2>3. QED
    BY <1>1, <2>1, <2>2 DEF InitSystemAbilityProfiles
<1>2. CASE CheckSystemAbilityManagerReady
  BY <1>2 DEF CheckSystemAbilityManagerReady, TypeOK
<1>3. CASE AddLocalAbilityManager
  BY <1>3 DEF AddLocalAbilityManager, TypeOK
<1>4. CASE RegisterOnDemandSystemAbility
  BY <1>4 DEF RegisterOnDemandSystemAbility, TypeOK
<1>5. CASE FindPhaseTasks
  BY <1>5 DEF FindPhaseTasks, TypeOK, Phase
<1>6. CASE SkipPhase
  <2>1. localAbilityMap' \subseteq SA /\ abilityPhaseMap' \in [Phase -> SUBSET SA]
    BY <1>6, LoadNextType DEF SkipPhase
  <2>2. QED
    BY <1>6, <2>1 DEF SkipPhase, LoadNextPhase, TypeOK
<1>7. CASE EndPhaseTasks
  <2>1. localAbilityMap' \subseteq SA /\ abilityPhaseMap' \in [Phase -> SUBSET SA]
    BY <1>7, LoadNextType DEF EndPhaseTasks
  <2>2. QED
    BY <1>7, <2>1 DEF EndPhaseTasks, LoadNextPhase, TypeOK
<1>9. ASSUME NEW s \in SA, CountTask(s) PROVE TypeOK' /\ PhaseBound'
  BY <1>9 DEF CountTask, TypeOK
<1>10. ASSUME NEW s \in SA, AddTask(s) PROVE TypeOK' /\ PhaseBound'
  BY <1>10 DEF AddTask, TypeOK
<1>11. CASE StopPool
  BY <1>11 DEF StopPool, TypeOK
<1>12. CASE JoinPool
  BY <1>12 DEF JoinPool, TypeOK
<1>13. ASSUME NEW s \in SA, TakeTask(s) PROVE TypeOK' /\ PhaseBound'
  BY <1>13 DEF TakeTask, TypeOK
<1>14. ASSUME NEW s \in SA, StartDependSaTask(s) PROVE TypeOK' /\ PhaseBound'
  BY <1>14 DEF StartDependSaTask, TypeOK
<1>15. ASSUME NEW s \in SA, StartAbility(s) PROVE TypeOK' /\ PhaseBound'
  BY <1>15 DEF StartAbility, TypeOK
<1>16. ASSUME NEW s \in SA, FinishTask(s) PROVE TypeOK' /\ PhaseBound'
  BY <1>16 DEF FinishTask, TypeOK
<1>17. ASSUME NEW e \in Elsewhere, PublishElsewhere(e) PROVE TypeOK' /\ PhaseBound'
  BY <1>17 DEF PublishElsewhere, TypeOK
<1>18. ASSUME NEW s \in SA, LoadOnDemand(s) PROVE TypeOK' /\ PhaseBound'
  BY <1>18 DEF LoadOnDemand, TypeOK
<1>19. CASE UNCHANGED vars
  BY <1>19 DEF vars, TypeOK
<1>20. CASE WaitForTasks \/ WaitTimesOut
  <2>1. timedOut' = timedOut \/ timedOut' = timedOut \cup {bootPhase}
    BY <1>20, Zenon DEF WaitForTasks, WaitTimesOut
  <2>2. /\ pc = "wait" /\ pc' = "phase" /\ startTaskNum' = 0 /\ bootPhase' = bootPhase + 1
        /\ UNCHANGED <<configVars, loadVars, samgrVars, toAdd, task>>
    BY <1>20, Zenon DEF WaitForTasks, WaitTimesOut
  <2>3. bootPhase \in Phase /\ bootPhase' \in 1..4
    BY <2>2 DEF TypeOK, Phase
  <2>4. timedOut' \subseteq Phase
    BY <2>1, <2>3 DEF TypeOK
  <2>5. QED
    BY <2>2, <2>3, <2>4 DEF TypeOK
<1>21. QED
  BY <1>0, <1>1, <1>2, <1>3, <1>4, <1>5, <1>6, <1>7, <1>8, <1>9, <1>10, <1>11, <1>12, <1>13,
     <1>14, <1>15, <1>16, <1>17, <1>18, <1>19, <1>20
     DEF Next, Main, Task

\* The type invariant of BootPhases holds in every reachable state.
THEOREM TypeCorrect == Spec => [](TypeOK /\ PhaseBound)
BY InitTypeOK, NextTypeOK, PTL DEF Spec

-----------------------------------------------------------------------------
\* The SAs in the lists, and the tasks made, belong to the phases up to the one
\* the main thread is in.
TasksOfPhase ==
  /\ \A q \in Phase : \A s \in abilityPhaseMap[q] : profile[s].bootPhase = q
  /\ \A s \in toAdd : profile[s].bootPhase = bootPhase /\ task[s] = "none"
  /\ pc \notin {"add", "push"} => toAdd = {}
  /\ \A s \in SA : task[s] # "none" => profile[s].bootPhase <= bootPhase
  /\ pc \notin {"add", "push", "wait", "join", "serving"} =>
       \A s \in SA : task[s] # "none" => profile[s].bootPhase < bootPhase

\* A task is counted and not queued only while the main thread queues it, and
\* dropped only once the pool has stopped.
TasksOfPool ==
  \A s \in SA :
    /\ task[s] = "counted" => pc = "push" /\ \A r \in SA : task[r] = "counted" => r = s
    /\ task[s] = "dropped" => pc \in {"join", "serving"}

\* The count, and what it says while no phase has timed out.
CounterInv ==
  /\ pc \notin {"add", "push", "wait"} => startTaskNum = 0
  /\ CounterBacked
  /\ timedOut = {} =>
       /\ startTaskNum = Cardinality(Unfinished)
       /\ \A s \in SA : profile[s].bootPhase < bootPhase => task[s] \in {"none", "done"}

BootInv == TypeOK /\ PhaseBound /\ TasksOfPhase /\ TasksOfPool /\ CounterInv

\* The tasks that are not done are finitely many.
LEMMA UnfinishedFinite ==
  IsFiniteSet(Unfinished) /\ Cardinality(Unfinished) \in Nat
BY SaAssumption, FS_Subset, FS_CardinalityType DEF Unfinished, Queued, Running

\* Steps that move tasks on, without making or finishing one.
LEMMA CounterUnmoved ==
  ASSUME BootInv, UNCHANGED <<startTaskNum, timedOut, profile, bootPhase>>,
         Unfinished' = Unfinished,
         pc' \notin {"add", "push", "wait"} => pc \notin {"add", "push", "wait"},
         \A s \in SA : task[s] \in {"none", "done"} => task'[s] = task[s]
  PROVE  CounterInv'
BY DEF BootInv, CounterInv, CounterBacked

\* A process begins with no task, none counted and none queued.
LEMMA InitBootInv == Init => BootInv
<1> SUFFICES ASSUME Init PROVE BootInv
  OBVIOUS
<1>1. Unfinished = {}
  BY DEF Init, Unfinished, Queued, Running
<1>2. /\ pc = "main" /\ bootPhase = 1 /\ startTaskNum = 0 /\ toAdd = {} /\ timedOut = {}
      /\ abilityPhaseMap = [p \in Phase |-> {}] /\ task = [s \in SA |-> "none"]
  BY Zenon DEF Init
<1>3. QED
  BY <1>1, <1>2, InitTypeOK, FS_EmptySet, ProfileType
     DEF BootInv, TasksOfPhase, TasksOfPool, CounterInv, CounterBacked, Phase

\* Every step keeps the order of the phases and the meaning of the count.
LEMMA NextBootInv == BootInv /\ [Next]_vars => BootInv'
<1> SUFFICES ASSUME BootInv, [Next]_vars PROVE BootInv'
  OBVIOUS
<1>0. TypeOK' /\ PhaseBound'
  BY NextTypeOK DEF BootInv
<1> USE DEF argVars, configVars, loadVars, samgrVars, mainVars, taskVars
<1>1. CASE InitSystemAbilityProfiles
  <2>1. \A q \in Phase : \A s \in abilityPhaseMap'[q] : profile[s].bootPhase = q
    <3>1. CASE UNCHANGED loadVars
      BY <3>1 DEF BootInv, TasksOfPhase
    <3>2. ASSUME NEW trusted \in SUBSET SA, InitializeRunOnCreateSaProfiles(trusted, 1)
          PROVE  \A q \in Phase : \A s \in abilityPhaseMap'[q] : profile[s].bootPhase = q
      BY <3>2, LoadType DEF BootInv, TasksOfPhase
    <3>3. ASSUME NEW trusted \in SUBSET SA, InitializeOnDemandSaProfile(trusted)
          PROVE  \A q \in Phase : \A s \in abilityPhaseMap'[q] : profile[s].bootPhase = q
      BY <3>3, ProfileType DEF InitializeOnDemandSaProfile, BootInv, TasksOfPhase, TypeOK
    <3>4. QED
      BY <1>1, <3>1, <3>2, <3>3, Zenon DEF InitSystemAbilityProfiles
  <2>2. /\ pc = "profiles" /\ pc' \in {"ready", "exit"}
        /\ UNCHANGED <<configVars, samgrVars, bootPhase, toAdd, taskVars>>
    BY <1>1 DEF InitSystemAbilityProfiles
  <2>3. CounterInv'
    BY <2>2, CounterUnmoved DEF Unfinished, Queued, Running
  <2>4. QED
    BY <1>0, <2>1, <2>2, <2>3 DEF BootInv, TasksOfPhase, TasksOfPool
<1>13. CASE MainArgs \/ DoStartSAProcess
  <2>1. /\ pc \in {"main", "start"} /\ pc' \in {"start", "profiles", "exit"}
        /\ UNCHANGED <<profile, loadVars, samgrVars, bootPhase, toAdd, taskVars>>
    BY <1>13, Zenon DEF MainArgs, DoStartSAProcess
  <2>2. CounterInv'
    BY <2>1, CounterUnmoved DEF Unfinished, Queued, Running
  <2>3. QED
    BY <1>0, <2>1, <2>2 DEF BootInv, TasksOfPhase, TasksOfPool
<1>2. CASE CheckSystemAbilityManagerReady \/ AddLocalAbilityManager
           \/ RegisterOnDemandSystemAbility
  <2>1. /\ pc \in {"ready", "add_process", "register"}
        /\ pc' \in {"add_process", "register", "phase", "exit"}
        /\ UNCHANGED <<configVars, loadVars, registered, bootPhase, toAdd, taskVars>>
    BY <1>2 DEF CheckSystemAbilityManagerReady, AddLocalAbilityManager,
                RegisterOnDemandSystemAbility
  <2>2. CounterInv'
    BY <2>1, CounterUnmoved DEF Unfinished, Queued, Running
  <2>3. QED
    BY <1>0, <2>1, <2>2 DEF BootInv, TasksOfPhase, TasksOfPool
<1>3. CASE FindPhaseTasks
  <2>1. CounterInv'
    <3>1. /\ UNCHANGED <<startTaskNum, timedOut, profile, bootPhase, task>>
          /\ pc' = "add"
      BY <1>3 DEF FindPhaseTasks
    <3>2. QED
      BY <3>1, CounterUnmoved DEF Unfinished, Queued, Running
  <2>2. TasksOfPhase' /\ TasksOfPool'
    <3>1. bootPhase \in Phase
      BY <1>3 DEF FindPhaseTasks, BootInv, TypeOK, Phase
    <3>2. QED
      BY <1>3, <3>1 DEF FindPhaseTasks, BootInv, TasksOfPhase, TasksOfPool, TypeOK
  <2>3. QED
    BY <1>0, <2>1, <2>2 DEF BootInv
<1>4. CASE SkipPhase
  <2>1. \A q \in Phase : \A s \in abilityPhaseMap'[q] : profile[s].bootPhase = q
    BY <1>4, LoadNextType DEF SkipPhase, BootInv, TasksOfPhase
  <2>2. /\ UNCHANGED <<configVars, pc, toAdd, taskVars>>
        /\ pc = "phase" /\ bootPhase' = bootPhase + 1
    BY <1>4 DEF SkipPhase
  <2>3. \A s \in SA : profile[s].bootPhase \in 1..4
    BY ProfileType DEF BootInv, TypeOK
  <2>4. CounterInv'
    BY <2>2, <2>3, UnfinishedFinite
       DEF BootInv, CounterInv, CounterBacked, Unfinished, Queued, Running, TasksOfPhase,
           TypeOK, Phase
  <2>5. TasksOfPhase' /\ TasksOfPool'
    BY <2>1, <2>2, <2>3 DEF BootInv, TasksOfPhase, TasksOfPool, TypeOK, Phase
  <2>6. QED
    BY <1>0, <2>4, <2>5 DEF BootInv
<1>5. CASE EndPhaseTasks
  <2>1. \A q \in Phase : \A s \in abilityPhaseMap'[q] : profile[s].bootPhase = q
    BY <1>5, LoadNextType DEF EndPhaseTasks, BootInv, TasksOfPhase
  <2>2. /\ UNCHANGED <<configVars, bootPhase, toAdd, taskVars>>
        /\ pc = "add" /\ toAdd = {} /\ pc' = "wait"
    BY <1>5 DEF EndPhaseTasks
  <2>3. CounterInv'
    BY <2>2, CounterUnmoved DEF Unfinished, Queued, Running
  <2>4. QED
    BY <1>0, <2>1, <2>2, <2>3 DEF BootInv, TasksOfPhase, TasksOfPool
<1>6. CASE WaitForTasks \/ WaitTimesOut
  <2>1. /\ UNCHANGED <<configVars, loadVars, toAdd, task>>
        /\ pc = "wait" /\ pc' = "phase" /\ startTaskNum' = 0 /\ bootPhase' = bootPhase + 1
    BY <1>6, Zenon DEF WaitForTasks, WaitTimesOut
  <2>2. timedOut' = {} => timedOut = {} /\ startTaskNum = 0
    <3>1. \/ startTaskNum = 0 /\ UNCHANGED timedOut
          \/ timedOut' = timedOut \cup {bootPhase}
      BY <1>6, Zenon DEF WaitForTasks, WaitTimesOut
    <3>2. QED
      BY <3>1
  <2>3. Unfinished' = Unfinished
    BY <2>1 DEF Unfinished, Queued, Running
  <2>4. timedOut' = {} => \A s \in SA : task[s] \in {"none", "done"}
    <3>1. timedOut' = {} => Unfinished = {}
      BY <2>2, UnfinishedFinite, FS_EmptySet DEF BootInv, CounterInv
    <3>2. QED
      BY <3>1, <2>1 DEF Unfinished, Queued, Running, BootInv, TypeOK, TasksOfPool
  <2>5. CounterInv'
    BY <2>1, <2>2, <2>3, <2>4, UnfinishedFinite DEF CounterInv, CounterBacked, BootInv
  <2>6. TasksOfPhase' /\ TasksOfPool'
    <3>1. \A s \in SA : profile[s].bootPhase \in 1..4
      BY ProfileType DEF BootInv, TypeOK
    <3>2. QED
      BY <2>1, <3>1 DEF BootInv, TasksOfPhase, TasksOfPool, TypeOK, Phase
  <2>7. QED
    BY <1>0, <2>5, <2>6 DEF BootInv
<1>7. ASSUME NEW s \in SA, CountTask(s) PROVE BootInv'
  <2>1. /\ Unfinished' = Unfinished \cup {s} /\ s \notin Unfinished
    BY <1>7 DEF CountTask, Unfinished, Queued, Running, BootInv, TypeOK, TasksOfPhase
  <2>2. Cardinality(Unfinished') = Cardinality(Unfinished) + 1
    BY <2>1, UnfinishedFinite, FS_AddElement
  <2>3. CounterInv'
    <3>1. timedOut = {} => \A r \in SA :
            profile[r].bootPhase < bootPhase => task'[r] \in {"none", "done"}
      BY <1>7 DEF CountTask, BootInv, CounterInv, TasksOfPhase, TypeOK
    <3>2. QED
      BY <1>7, <2>2, <3>1, UnfinishedFinite DEF CountTask, BootInv, CounterInv, CounterBacked, TypeOK
  <2>4. TasksOfPhase' /\ TasksOfPool'
    BY <1>7 DEF CountTask, BootInv, TasksOfPhase, TasksOfPool, TypeOK
  <2>5. QED
    BY <1>0, <2>3, <2>4 DEF BootInv
<1>8. ASSUME NEW s \in SA, AddTask(s) \/ TakeTask(s) \/ StartDependSaTask(s) \/ StartAbility(s)
      PROVE  BootInv'
  <2>1. /\ UNCHANGED <<configVars, loadVars, bootPhase, toAdd, startTaskNum, timedOut>>
        /\ task[s] \in {"counted", "queued", "check", "starting"}
        /\ \E next \in {"queued", "check", "starting", "finishing"} :
             task' = [task EXCEPT ![s] = next]
        /\ \/ pc = "push" /\ pc' = "add" /\ task[s] = "counted"
           \/ pc' = pc
    BY <1>8 DEF AddTask, TakeTask, StartDependSaTask, StartAbility
  <2>2. Unfinished' = Unfinished
    BY <2>1 DEF Unfinished, Queued, Running, BootInv, TypeOK
  <2>3. CounterInv'
    BY <2>1, <2>2, CounterUnmoved DEF BootInv, TypeOK
  <2>4. TasksOfPhase'
    BY <2>1 DEF BootInv, TasksOfPhase, TypeOK
  <2>5. TasksOfPool'
    BY <2>1 DEF BootInv, TasksOfPool, TypeOK
  <2>6. QED
    BY <1>0, <2>3, <2>4, <2>5 DEF BootInv
<1>9. ASSUME NEW s \in SA, FinishTask(s) PROVE BootInv'
  <2>1. Unfinished' = Unfinished \ {s} /\ s \in Unfinished
    BY <1>9 DEF FinishTask, Unfinished, Queued, Running, BootInv, TypeOK
  <2>2. Cardinality(Unfinished') = Cardinality(Unfinished) - 1
    BY <2>1, UnfinishedFinite, FS_RemoveElement
  <2>3. Cardinality(Unfinished') \in Nat
    BY <2>1, UnfinishedFinite, FS_RemoveElement, FS_CardinalityType
  <2>4. CounterInv'
    BY <1>9, <2>2, <2>3, UnfinishedFinite DEF FinishTask, BootInv, CounterInv, CounterBacked, TypeOK
  <2>5. TasksOfPhase' /\ TasksOfPool'
    BY <1>9 DEF FinishTask, BootInv, TasksOfPhase, TasksOfPool, TypeOK
  <2>6. QED
    BY <1>0, <2>4, <2>5 DEF BootInv
<1>10. CASE StopPool
  <2>1. /\ UNCHANGED <<profile, loadVars, bootPhase, toAdd, startTaskNum, timedOut>>
        /\ pc = "phase" /\ pc' = "join"
        /\ task' = [s \in SA |-> IF task[s] = "queued" THEN "dropped" ELSE task[s]]
    BY <1>10 DEF StopPool
  <2>2. startTaskNum = 0
    BY <2>1 DEF BootInv, CounterInv
  <2>3. timedOut = {} => Unfinished = {} /\ task' = task
    <3>1. timedOut = {} => Unfinished = {}
      BY <2>2, UnfinishedFinite, FS_EmptySet DEF BootInv, CounterInv
    <3>2. QED
      BY <2>1, <3>1 DEF Unfinished, Queued, BootInv, TypeOK
  <2>4. Unfinished' \subseteq SA
    BY DEF Unfinished, Queued, Running
  <2>5. Cardinality(Unfinished') \in Nat
    BY <2>4, SaAssumption, FS_Subset, FS_CardinalityType
  <2>6. timedOut = {} => Unfinished' = {}
    BY <2>3 DEF Unfinished, Queued, Running
  <2>7. CounterInv'
    <3>1. startTaskNum' = 0 /\ CounterBacked'
      BY <2>1, <2>2, <2>5 DEF CounterBacked
    <3>2. timedOut = {} => Cardinality(Unfinished') = 0
      BY <2>6, FS_EmptySet
    <3>3. QED
      BY <2>1, <2>3, <3>1, <3>2 DEF BootInv, CounterInv
  <2>8. TasksOfPhase' /\ TasksOfPool'
    BY <2>1 DEF BootInv, TasksOfPhase, TasksOfPool, TypeOK
  <2>9. QED
    BY <1>0, <2>7, <2>8 DEF BootInv
<1>11. CASE \/ JoinPool
            \/ \E e \in Elsewhere : PublishElsewhere(e)
            \/ \E s \in SA : LoadOnDemand(s)
            \/ UNCHANGED vars
  <2>1. /\ UNCHANGED <<configVars, abilityPhaseMap, bootPhase, toAdd, taskVars>>
        /\ pc' = pc \/ (pc = "join" /\ pc' = "serving")
    BY <1>11 DEF JoinPool, PublishElsewhere, LoadOnDemand, vars
  <2>2. CounterInv'
    BY <2>1, CounterUnmoved DEF Unfinished, Queued, Running
  <2>3. QED
    BY <1>0, <2>1, <2>2 DEF BootInv, TasksOfPhase, TasksOfPool
<1>12. QED
  BY <1>1, <1>2, <1>3, <1>4, <1>5, <1>6, <1>7, <1>8, <1>9, <1>10, <1>11, <1>13
     DEF Next, Main, Task

\* The inductive invariant: what the count of open start tasks means, and which
\* tasks there are in which phase.
THEOREM BootInvariant == Spec => []BootInv
BY InitBootInv, NextBootInv, PTL DEF Spec

\* startTaskNum_ never counts a task that will not count itself off, whatever
\* fails and whichever phases time out.
THEOREM CountIsBacked == Spec => []CounterBacked
<1>1. BootInv => CounterBacked
  BY DEF BootInv, CounterInv
<1>2. QED
  BY <1>1, BootInvariant, PTL

\* As long as no phase timed out, no SA of a phase has a start task before all
\* tasks of the earlier phases are done.
THEOREM PhasesInOrder == Spec => []PhaseOrder
<1>1. BootInv => PhaseOrder
  <2> SUFFICES ASSUME BootInv, timedOut = {}, NEW s \in SA, NEW r \in SA,
                      task[s] # "none", task[r] # "none",
                      profile[r].bootPhase < profile[s].bootPhase
               PROVE  task[r] = "done"
    BY DEF PhaseOrder
  <2>1. profile[r].bootPhase \in 1..4 /\ profile[s].bootPhase \in 1..4
    BY ProfileType DEF BootInv, TypeOK
  <2>2. profile[r].bootPhase < bootPhase
    BY <2>1 DEF BootInv, TasksOfPhase, TypeOK, Phase
  <2>3. QED
    BY <2>2 DEF BootInv, CounterInv
<1>2. QED
  BY <1>1, BootInvariant, PTL

-----------------------------------------------------------------------------
\* The phases whose libraries have been opened.
LoadedPhase == IF pc = "wait" THEN bootPhase + 1 ELSE bootPhase

\* Nothing is loaded or registered before the profiles are read.
EarlyInv == pc \in {"main", "start", "profiles"} => bootPhase = 1 /\ onDemand = {}

\* There is an SA to serve; what is to be started is in the list of its phase,
\* unless a library did not open.
LoadedInv ==
  pc \notin {"main", "start", "profiles", "exit"} =>
    /\ saProfiles # {}
    /\ saId # None =>
         /\ saId \in saProfiles
         /\ profile[saId].bootPhase \in Phase
         /\ saId \in abilityPhaseMap[profile[saId].bootPhase]
    /\ saId = None =>
         \A s \in saProfiles :
           profile[s].runOnCreate /\ profile[s].bootPhase \in Phase /\ profile[s].bootPhase <= LoadedPhase =>
             \/ s \in abilityPhaseMap[profile[s].bootPhase]
             \/ faulty /\ s \notin localAbilityMap

\* samgr knows of the SAs that are registered on demand, and of no others.
RegisterInv ==
  /\ \A s \in onDemand : NeedRegisterOnDemand(s)
  /\ pc \notin {"main", "start", "profiles", "ready", "add_process", "register", "exit"} =>
       \A s \in saProfiles : NeedRegisterOnDemand(s) => s \in onDemand \/ faulty

\* The lists of the phases that are over have become tasks.
TakenInv ==
  \A p \in Phase : \A s \in abilityPhaseMap[p] :
    /\ p < bootPhase \/ (p = bootPhase /\ pc = "wait") => task[s] # "none"
    /\ p = bootPhase /\ pc \in {"add", "push"} => s \in toAdd \/ task[s] # "none"

\* The pool that has stopped has no task left, and drops none without a timeout.
EndInv ==
  /\ pc \in {"join", "serving"} => bootPhase > 3 /\ Queued = {}
  /\ pc = "serving" => Running = {}
  /\ \A s \in SA : task[s] = "dropped" => timedOut # {}

ServedInv == EarlyInv /\ LoadedInv /\ RegisterInv /\ TakenInv /\ EndInv

\* What loading a phase does: it changes the list of this phase alone, which
\* has every run-on-create SA whose library is open.
LEMMA LoadEffect ==
  ASSUME TypeOK, NEW profiles \in SUBSET SA, NEW p \in 1..4,
         InitializeRunOnCreateSaProfiles(profiles, p)
  PROVE  /\ \A q \in Phase : q # p => abilityPhaseMap'[q] = abilityPhaseMap[q]
         /\ \A s \in SA : profile[s].bootPhase # p => (s \in localAbilityMap' <=> s \in localAbilityMap)
         /\ p \in Phase =>
              \A s \in profiles : profile[s].runOnCreate /\ profile[s].bootPhase = p =>
                s \in abilityPhaseMap'[p] \/ (faulty /\ s \notin localAbilityMap')
<1>1. CASE p > 3
  BY <1>1 DEF InitializeRunOnCreateSaProfiles, Phase
<1>2. CASE p <= 3
  <2>1. PICK opened \in OpenSo(profiles, p) : localAbilityMap' = localAbilityMap \cup opened
    BY <1>2 DEF InitializeRunOnCreateSaProfiles
  <2>2. abilityPhaseMap' = [abilityPhaseMap EXCEPT ![p] =
          {s \in profiles \cap localAbilityMap' : profile[s].bootPhase = p}]
    BY <1>2 DEF InitializeRunOnCreateSaProfiles
  <2> DEFINE wanted == {s \in profiles : profile[s].runOnCreate /\ profile[s].bootPhase = p}
  <2>3. opened \subseteq wanted
    BY <2>1, Zenon DEF OpenSo
  <2>4. faulty \/ opened = wanted
    BY <2>1, Zenon DEF OpenSo
  <2>5. \A q \in Phase : q # p => abilityPhaseMap'[q] = abilityPhaseMap[q]
    BY <2>2 DEF TypeOK
  <2>6. \A s \in SA : profile[s].bootPhase # p => (s \in localAbilityMap' <=> s \in localAbilityMap)
    BY <2>1, <2>3
  <2>7. p \in Phase => abilityPhaseMap'[p] = {s \in profiles \cap localAbilityMap' : profile[s].bootPhase = p}
    BY <2>2 DEF TypeOK
  <2>8. \A s \in wanted : s \in localAbilityMap' \/ (faulty /\ s \notin localAbilityMap')
    BY <2>1, <2>4, Zenon
  <2>9. p \in Phase =>
          \A s \in profiles : profile[s].runOnCreate /\ profile[s].bootPhase = p =>
            s \in abilityPhaseMap'[p] \/ (faulty /\ s \notin localAbilityMap')
    BY <2>7, <2>8, Zenon
  <2>10. QED
    BY <2>5, <2>6, <2>9
<1>3. QED
  BY <1>1, <1>2

\* A process begins with nothing loaded.
LEMMA InitServedInv == Init => ServedInv
BY DEF Init, ServedInv, EarlyInv, LoadedInv, RegisterInv, TakenInv, EndInv, Phase

\* The main thread loads the next phase, which completes its list.
LEMMA NextPhaseLoaded ==
  ASSUME BootInv, ServedInv, LoadNextPhase, bootPhase \in Phase,
         pc \in {"phase", "add"}, UNCHANGED configVars
  PROVE  /\ \A q \in Phase : q <= bootPhase => abilityPhaseMap'[q] = abilityPhaseMap[q]
         /\ saId # None => abilityPhaseMap' = abilityPhaseMap
         /\ saId = None =>
              \A s \in saProfiles :
                profile[s].runOnCreate /\ profile[s].bootPhase \in Phase /\ profile[s].bootPhase <= bootPhase + 1 =>
                  \/ s \in abilityPhaseMap'[profile[s].bootPhase]
                  \/ faulty /\ s \notin localAbilityMap'
<1>0. saProfiles \in SUBSET SA /\ bootPhase + 1 \in 1..4 /\ TypeOK
  BY DEF BootInv, TypeOK, Phase
<1>1. CASE saId # None
  BY <1>1 DEF LoadNextPhase
<1>2. CASE saId = None
  <2>1. InitializeRunOnCreateSaProfiles(saProfiles, bootPhase + 1)
    BY <1>2 DEF LoadNextPhase
  <2>2. /\ \A q \in Phase : q # bootPhase + 1 => abilityPhaseMap'[q] = abilityPhaseMap[q]
        /\ \A s \in SA : profile[s].bootPhase # bootPhase + 1 =>
             (s \in localAbilityMap' <=> s \in localAbilityMap)
        /\ bootPhase + 1 \in Phase =>
             \A s \in saProfiles : profile[s].runOnCreate /\ profile[s].bootPhase = bootPhase + 1 =>
               s \in abilityPhaseMap'[bootPhase + 1] \/ (faulty /\ s \notin localAbilityMap')
    BY <1>0, <2>1, LoadEffect
  <2>3. ASSUME NEW s \in saProfiles, profile[s].runOnCreate, profile[s].bootPhase \in Phase,
               profile[s].bootPhase <= bootPhase + 1
        PROVE  s \in abilityPhaseMap'[profile[s].bootPhase] \/ (faulty /\ s \notin localAbilityMap')
    <3>1. s \in SA /\ profile[s].bootPhase \in Phase
      BY <1>0, <2>3
    <3>2. CASE profile[s].bootPhase = bootPhase + 1
      BY <2>2, <2>3, <3>1, <3>2, Zenon
    <3>3. CASE profile[s].bootPhase # bootPhase + 1
      <4>1. profile[s].bootPhase <= LoadedPhase
        BY <2>3, <3>1, <3>3 DEF LoadedPhase, Phase
      <4>2. s \in abilityPhaseMap[profile[s].bootPhase] \/ (faulty /\ s \notin localAbilityMap)
        BY <1>2, <2>3, <4>1, Zenon DEF ServedInv, LoadedInv
      <4>3. abilityPhaseMap'[profile[s].bootPhase] = abilityPhaseMap[profile[s].bootPhase]
        BY <2>2, <3>1, <3>3
      <4>4. s \in localAbilityMap' <=> s \in localAbilityMap
        BY <2>2, <3>1, <3>3
      <4>5. QED
        BY <4>2, <4>3, <4>4, Zenon
    <3>4. QED
      BY <3>2, <3>3
  <2>4. \A q \in Phase : q <= bootPhase => abilityPhaseMap'[q] = abilityPhaseMap[q]
    BY <2>2 DEF Phase
  <2>5. QED
    BY <1>2, <2>3, <2>4
<1>3. QED
  BY <1>1, <1>2

\* Steps after the profiles were read that load nothing and leave the main
\* thread's phase keep what is loaded.
LEMMA LoadedUnmoved ==
  ASSUME LoadedInv, UNCHANGED <<configVars, saProfiles, abilityPhaseMap, localAbilityMap>>,
         pc' \notin {"main", "start", "profiles", "exit"} =>
           pc \notin {"main", "start", "profiles", "exit"} /\ LoadedPhase' = LoadedPhase
  PROVE  LoadedInv'
<1>1. /\ saId' = saId /\ profile' = profile /\ faulty' = faulty
      /\ saProfiles' = saProfiles /\ abilityPhaseMap' = abilityPhaseMap
      /\ localAbilityMap' = localAbilityMap
  BY DEF configVars, argVars
<1>2. QED
  BY <1>1, Zenon DEF LoadedInv

\* Steps that leave samgr's list and the profiles keep RegisterInv.
LEMMA RegisterUnmoved ==
  ASSUME RegisterInv, UNCHANGED <<configVars, saProfiles, onDemand>>,
         pc' \notin {"main", "start", "profiles", "ready", "add_process", "register", "exit"} =>
           pc \notin {"main", "start", "profiles", "ready", "add_process", "register", "exit"}
  PROVE  RegisterInv'
<1>1. /\ saId' = saId /\ profile' = profile /\ faulty' = faulty
      /\ saProfiles' = saProfiles /\ onDemand' = onDemand
  BY DEF configVars, argVars
<1>2. QED
  BY <1>1, Zenon DEF RegisterInv, NeedRegisterOnDemand

\* Every step keeps the bookkeeping of loading, registering and taking.
LEMMA NextServedInv == BootInv /\ ServedInv /\ [Next]_vars => ServedInv'
<1> SUFFICES ASSUME BootInv, ServedInv, [Next]_vars PROVE ServedInv'
  OBVIOUS
<1>0. TypeOK /\ TypeOK' /\ LoadedInv /\ RegisterInv
  BY NextTypeOK DEF BootInv, ServedInv
<1>1. CASE MainArgs \/ DoStartSAProcess
  <2>1. /\ pc \in {"main", "start"} /\ pc' \in {"start", "profiles", "exit"}
        /\ UNCHANGED <<profile, loadVars, samgrVars, bootPhase, toAdd, taskVars>>
    BY <1>1, Zenon DEF MainArgs, DoStartSAProcess
  <2>2. QED
    BY <2>1 DEF ServedInv, EarlyInv, LoadedInv, RegisterInv, TakenInv, EndInv, loadVars, samgrVars,
                taskVars, Queued, Running
<1>2. CASE InitSystemAbilityProfiles
  <2>1. /\ pc = "profiles" /\ pc' \in {"ready", "exit"}
        /\ UNCHANGED <<configVars, samgrVars, bootPhase, toAdd, taskVars>>
        /\ bootPhase = 1 /\ onDemand = {}
    BY <1>2 DEF InitSystemAbilityProfiles, ServedInv, EarlyInv
  <2>2. LoadedInv'
    <3>1. CASE pc' = "exit"
      BY <3>1 DEF LoadedInv
    <3>2. CASE pc' # "exit" /\ saId = None
      <4>1. PICK trusted \in SUBSET SA :
              saProfiles' = trusted /\ trusted # {} /\ InitializeRunOnCreateSaProfiles(trusted, 1)
        BY <1>2, <3>2 DEF InitSystemAbilityProfiles
      <4>2. \A s \in trusted : profile[s].runOnCreate /\ profile[s].bootPhase = 1 =>
              s \in abilityPhaseMap'[1] \/ (faulty /\ s \notin localAbilityMap')
        BY <1>0, <4>1, LoadEffect DEF Phase
      <4>3. LoadedPhase' = 1
        BY <2>1, <3>2 DEF LoadedPhase
      <4>4. \A s \in SA : profile[s].bootPhase <= 1 => profile[s].bootPhase = 1
        BY <1>0, ProfileType DEF TypeOK, Phase
      <4>5. \A s \in trusted : profile[s].runOnCreate /\ profile[s].bootPhase <= 1 =>
              \/ s \in abilityPhaseMap'[profile[s].bootPhase]
              \/ faulty /\ s \notin localAbilityMap'
        BY <4>2, <4>4, Zenon
      <4>6. saId' = saId /\ profile' = profile /\ faulty' = faulty
        BY <2>1 DEF configVars, argVars
      <4>7. QED
        BY <3>2, <4>1, <4>3, <4>5, <4>6, Zenon DEF LoadedInv
    <3>3. CASE pc' # "exit" /\ saId # None
      <4>1. PICK trusted \in SUBSET SA : saProfiles' = trusted /\ InitializeOnDemandSaProfile(trusted)
        BY <1>2, <3>3, Zenon DEF InitSystemAbilityProfiles
      <4>2. saId \in saProfiles' /\ profile[saId].bootPhase \in Phase
        BY <1>0, <4>1, ProfileType DEF InitializeOnDemandSaProfile, TypeOK, Phase
      <4>3. saId \in abilityPhaseMap'[profile[saId].bootPhase]
        BY <1>0, <4>1, <4>2 DEF InitializeOnDemandSaProfile, TypeOK
      <4>4. QED
        BY <2>1, <3>3, <4>2, <4>3 DEF LoadedInv, configVars, argVars
    <3>4. QED
      BY <3>1, <3>2, <3>3
  <2>3. EarlyInv' /\ RegisterInv' /\ EndInv'
    BY <2>1 DEF ServedInv, EarlyInv, RegisterInv, EndInv, samgrVars, taskVars, Queued, Running
  <2>4. TakenInv'
    BY <2>1 DEF TakenInv, Phase
  <2>5. QED
    BY <2>2, <2>3, <2>4 DEF ServedInv
<1>3. CASE CheckSystemAbilityManagerReady \/ AddLocalAbilityManager
  <2>1. /\ pc \in {"ready", "add_process"} /\ pc' \in {"add_process", "register", "exit"}
        /\ UNCHANGED <<configVars, loadVars, samgrVars, bootPhase, toAdd, taskVars>>
    BY <1>3 DEF CheckSystemAbilityManagerReady, AddLocalAbilityManager
  <2>2. LoadedInv' /\ RegisterInv'
    BY <1>0, <2>1, LoadedUnmoved, RegisterUnmoved DEF LoadedPhase, loadVars, samgrVars
  <2>3. EarlyInv' /\ TakenInv' /\ EndInv'
    BY <2>1 DEF ServedInv, EarlyInv, TakenInv, EndInv, loadVars, samgrVars, taskVars, Queued, Running
  <2>4. QED
    BY <2>2, <2>3 DEF ServedInv
<1>4. CASE RegisterOnDemandSystemAbility
  <2> DEFINE needed == {s \in saProfiles : NeedRegisterOnDemand(s)}
  <2>1. /\ pc = "register" /\ pc' = "phase"
        /\ UNCHANGED <<configVars, loadVars, registered, bootPhase, toAdd, taskVars>>
    BY <1>4 DEF RegisterOnDemandSystemAbility
  <2>2. onDemand' \subseteq needed /\ (faulty \/ onDemand' = needed)
    BY <1>4, Zenon DEF RegisterOnDemandSystemAbility
  <2>3. /\ saId' = saId /\ profile' = profile /\ faulty' = faulty /\ saProfiles' = saProfiles
    BY <2>1 DEF configVars, argVars, loadVars
  <2>4. RegisterInv'
    BY <2>2, <2>3, Zenon DEF RegisterInv, NeedRegisterOnDemand
  <2>5. LoadedInv'
    BY <1>0, <2>1, LoadedUnmoved DEF LoadedPhase, loadVars
  <2>6. EarlyInv' /\ TakenInv' /\ EndInv'
    BY <2>1 DEF ServedInv, EarlyInv, TakenInv, EndInv, loadVars, taskVars, Queued, Running
  <2>7. QED
    BY <2>4, <2>5, <2>6 DEF ServedInv
<1>5. CASE FindPhaseTasks
  <2>1. /\ pc = "phase" /\ pc' = "add" /\ toAdd' = abilityPhaseMap[bootPhase]
        /\ UNCHANGED <<configVars, loadVars, samgrVars, bootPhase, taskVars>>
    BY <1>5 DEF FindPhaseTasks
  <2>2. LoadedInv' /\ RegisterInv'
    BY <1>0, <2>1, LoadedUnmoved, RegisterUnmoved DEF LoadedPhase, loadVars, samgrVars
  <2>3. EarlyInv' /\ TakenInv' /\ EndInv'
    BY <2>1 DEF ServedInv, EarlyInv, TakenInv, EndInv, loadVars, samgrVars, taskVars, Queued, Running
  <2>4. QED
    BY <2>2, <2>3 DEF ServedInv
<1>6. CASE SkipPhase \/ EndPhaseTasks
  <2>1. /\ LoadNextPhase /\ bootPhase \in Phase
        /\ UNCHANGED <<configVars, samgrVars, toAdd, taskVars>>
        /\ \/ /\ pc = "phase" /\ pc' = "phase" /\ bootPhase' = bootPhase + 1
              /\ abilityPhaseMap[bootPhase] = {}
           \/ pc = "add" /\ pc' = "wait" /\ toAdd = {} /\ bootPhase' = bootPhase
    BY <1>0, <1>6 DEF SkipPhase, EndPhaseTasks, TypeOK, Phase, BootInv, PhaseBound
  <2>2. /\ \A q \in Phase : q <= bootPhase => abilityPhaseMap'[q] = abilityPhaseMap[q]
        /\ saId # None => abilityPhaseMap' = abilityPhaseMap
        /\ saId = None =>
             \A s \in saProfiles :
               profile[s].runOnCreate /\ profile[s].bootPhase \in Phase /\ profile[s].bootPhase <= bootPhase + 1 =>
                 \/ s \in abilityPhaseMap'[profile[s].bootPhase]
                 \/ faulty /\ s \notin localAbilityMap'
    <3>1. pc \in {"phase", "add"}
      BY <2>1
    <3>2. QED
      BY <2>1, <3>1, NextPhaseLoaded, Zenon
  <2>3. saId' = saId /\ profile' = profile /\ faulty' = faulty /\ saProfiles' = saProfiles
    BY <2>1 DEF configVars, argVars, LoadNextPhase
  <2>4. LoadedPhase' = bootPhase + 1
    BY <2>1 DEF LoadedPhase
  <2>5. LoadedInv'
    <3>1. pc \notin {"main", "start", "profiles", "exit"}
      BY <2>1
    <3>2. QED
      BY <1>0, <2>2, <2>3, <2>4, <3>1, Zenon DEF LoadedInv
  <2>6. RegisterInv'
    BY <1>0, <2>1, <2>3, RegisterUnmoved DEF samgrVars
  <2>7. TakenInv'
    <3> SUFFICES ASSUME NEW p \in Phase, NEW s \in abilityPhaseMap'[p]
                 PROVE  /\ p < bootPhase' \/ (p = bootPhase' /\ pc' = "wait") => task'[s] # "none"
                        /\ p = bootPhase' /\ pc' \in {"add", "push"} => s \in toAdd' \/ task'[s] # "none"
      BY DEF TakenInv
    <3>1. task' = task /\ bootPhase \in Nat /\ p \in Nat
      BY <2>1 DEF taskVars, Phase
    <3>2. p <= bootPhase => s \in abilityPhaseMap[p]
      BY <2>2
    <3>3. CASE pc = "phase" /\ pc' = "phase" /\ bootPhase' = bootPhase + 1 /\ abilityPhaseMap[bootPhase] = {}
      BY <1>0, <3>1, <3>2, <3>3 DEF ServedInv, TakenInv
    <3>4. CASE pc = "add" /\ pc' = "wait" /\ toAdd = {} /\ bootPhase' = bootPhase
      BY <1>0, <3>1, <3>2, <3>4 DEF ServedInv, TakenInv
    <3>5. QED
      BY <2>1, <3>3, <3>4
  <2>8. EarlyInv' /\ EndInv'
    BY <2>1 DEF ServedInv, EarlyInv, EndInv, taskVars, samgrVars, Queued, Running
  <2>9. QED
    BY <2>5, <2>6, <2>7, <2>8 DEF ServedInv
<1>7. CASE WaitForTasks \/ WaitTimesOut
  <2>1. /\ pc = "wait" /\ pc' = "phase" /\ bootPhase' = bootPhase + 1
        /\ UNCHANGED <<configVars, loadVars, samgrVars, toAdd, task>>
        /\ timedOut' = timedOut \/ timedOut' = timedOut \cup {bootPhase}
    BY <1>7, Zenon DEF WaitForTasks, WaitTimesOut, taskVars
  <2>2. LoadedPhase' = LoadedPhase
    BY <2>1 DEF LoadedPhase
  <2>3. LoadedInv' /\ RegisterInv'
    BY <1>0, <2>1, <2>2, LoadedUnmoved, RegisterUnmoved DEF loadVars, samgrVars
  <2>4. EarlyInv' /\ EndInv'
    BY <2>1 DEF ServedInv, EarlyInv, EndInv, samgrVars, Queued, Running
  <2>5. TakenInv'
    BY <1>0, <2>1 DEF ServedInv, TakenInv, loadVars, TypeOK, Phase
  <2>6. QED
    BY <2>3, <2>4, <2>5 DEF ServedInv
<1>8. ASSUME NEW s \in SA, CountTask(s) \/ AddTask(s) \/ Task(s) PROVE ServedInv'
  <2>1. /\ UNCHANGED <<configVars, loadVars, onDemand, bootPhase, timedOut>>
        /\ \E next \in {"counted", "queued", "check", "starting", "finishing", "done"} :
             task' = [task EXCEPT ![s] = next] /\ (next \in {"counted", "queued"} => pc \in {"add", "push"})
        /\ \/ pc' = pc
           \/ pc \in {"add", "push"} /\ pc' \in {"add", "push"}
        /\ toAdd' = toAdd \/ toAdd' = toAdd \ {s}
    BY <1>8 DEF CountTask, AddTask, Task, TakeTask, StartDependSaTask, StartAbility, FinishTask,
                mainVars, samgrVars
  <2>2. LoadedInv' /\ RegisterInv'
    BY <1>0, <2>1, LoadedUnmoved, RegisterUnmoved DEF LoadedPhase, loadVars
  <2>3. EarlyInv' /\ TakenInv'
    BY <1>0, <2>1 DEF ServedInv, EarlyInv, TakenInv, loadVars, TypeOK
  <2>4. EndInv'
    <3>1. pc \in {"join", "serving"} => task[s] \notin {"counted", "queued", "none", "done", "dropped"}
      BY <1>0, <1>8 DEF CountTask, AddTask, Task, TakeTask, StartDependSaTask, StartAbility, FinishTask,
                  ServedInv, EndInv, Queued, TypeOK
    <3>2. pc = "serving" => FALSE
      BY <1>0, <3>1 DEF ServedInv, EndInv, Running, TypeOK
    <3>3. QED
      BY <1>0, <2>1, <3>1, <3>2 DEF ServedInv, EndInv, Queued, Running, TypeOK
  <2>5. QED
    BY <2>2, <2>3, <2>4 DEF ServedInv
<1>9. CASE StopPool
  <2>1. /\ UNCHANGED <<configVars, loadVars, samgrVars, bootPhase, toAdd, timedOut>>
        /\ pc = "phase" /\ pc' = "join" /\ bootPhase > 3
        /\ task' = [s \in SA |-> IF task[s] = "queued" THEN "dropped" ELSE task[s]]
    BY <1>9 DEF StopPool
  <2>2. LoadedInv' /\ RegisterInv'
    BY <1>0, <2>1, LoadedUnmoved, RegisterUnmoved DEF LoadedPhase, loadVars, samgrVars
  <2>3. timedOut = {} => Unfinished = {}
    BY <2>1, UnfinishedFinite, FS_EmptySet DEF BootInv, CounterInv
  <2>4. EndInv'
    BY <1>0, <2>1, <2>3 DEF ServedInv, EndInv, Queued, Unfinished
  <2>5. EarlyInv' /\ TakenInv'
    BY <1>0, <2>1 DEF ServedInv, EarlyInv, TakenInv, loadVars, TypeOK
  <2>6. QED
    BY <2>2, <2>4, <2>5 DEF ServedInv
<1>10. CASE \/ JoinPool
            \/ \E e \in Elsewhere : PublishElsewhere(e)
            \/ UNCHANGED vars
  <2>1. /\ UNCHANGED <<configVars, loadVars, onDemand, bootPhase, toAdd, taskVars>>
        /\ pc' = pc \/ (pc = "join" /\ pc' = "serving" /\ Running = {})
    BY <1>10 DEF JoinPool, PublishElsewhere, vars, mainVars, samgrVars
  <2>2. LoadedInv' /\ RegisterInv'
    BY <1>0, <2>1, LoadedUnmoved, RegisterUnmoved DEF LoadedPhase, loadVars
  <2>3. EarlyInv' /\ TakenInv' /\ EndInv'
    BY <2>1 DEF ServedInv, EarlyInv, TakenInv, EndInv, loadVars, taskVars, Queued, Running
  <2>4. QED
    BY <2>2, <2>3 DEF ServedInv
<1>11. ASSUME NEW s \in SA, LoadOnDemand(s) PROVE ServedInv'
  <2>1. /\ UNCHANGED <<configVars, saProfiles, abilityPhaseMap, onDemand, mainVars, taskVars>>
        /\ s \in onDemand /\ localAbilityMap' = localAbilityMap \cup {s}
    BY <1>11 DEF LoadOnDemand
  <2>2. saId = None => ~profile[s].runOnCreate
    BY <1>0, <2>1, Zenon DEF RegisterInv, NeedRegisterOnDemand
  <2>3. /\ saId' = saId /\ profile' = profile /\ faulty' = faulty
        /\ saProfiles' = saProfiles /\ abilityPhaseMap' = abilityPhaseMap
        /\ pc' = pc /\ LoadedPhase' = LoadedPhase
    BY <2>1 DEF configVars, argVars, mainVars, LoadedPhase
  <2>4. \A r \in saProfiles : profile[r].runOnCreate /\ saId = None =>
          (r \in localAbilityMap' <=> r \in localAbilityMap)
    BY <2>1, <2>2
  <2>5. LoadedInv'
    BY <1>0, <2>3, <2>4, Zenon DEF LoadedInv
  <2>6. RegisterInv'
    BY <1>0, <2>1, <2>3, RegisterUnmoved
  <2>7. EarlyInv' /\ TakenInv' /\ EndInv'
    BY <2>1 DEF ServedInv, EarlyInv, TakenInv, EndInv, mainVars, taskVars, Queued, Running
  <2>8. QED
    BY <2>5, <2>6, <2>7 DEF ServedInv
<1>12. QED
  BY <1>1, <1>2, <1>3, <1>4, <1>5, <1>6, <1>7, <1>8, <1>9, <1>10, <1>11 DEF Next, Main

\* A process that has booted has an SA to serve and serves every SA of its
\* profiles, for any profiles and with every fault and timeout: the gaps are the
\* ones the statement names.
THEOREM ServesEverySa == Spec => []EverySaServed
<1>1. BootInv /\ ServedInv => EverySaServed
  <2> SUFFICES ASSUME BootInv, ServedInv, pc = "serving" PROVE EverySaServed
    BY DEF EverySaServed
  <2>1. ASSUME NEW s \in saProfiles, s \notin onDemand, task[s] # "done",
               ~(task[s] = "dropped" /\ timedOut # {})
        PROVE  /\ task[s] = "none"
               /\ \/ faulty /\ (NeedRegisterOnDemand(s) \/ s \notin localAbilityMap)
                  \/ ~NeedRegisterOnDemand(s) /\ profile[s].bootPhase > 3
    <3>1. s \in SA /\ profile[s].bootPhase \in 1..4 /\ bootPhase > 3 /\ bootPhase \in 1..4
      BY ProfileType DEF BootInv, TypeOK, ServedInv, EndInv
    <3>2. task[s] = "none"
      BY <2>1, <3>1 DEF BootInv, TypeOK, TasksOfPool, ServedInv, EndInv, Queued, Running
    <3>3. \A q \in Phase : s \notin abilityPhaseMap[q]
      BY <3>1, <3>2 DEF ServedInv, TakenInv, Phase
    <3>4. CASE NeedRegisterOnDemand(s)
      BY <2>1, <3>2, <3>4, Zenon DEF ServedInv, RegisterInv
    <3>5. CASE ~NeedRegisterOnDemand(s) /\ profile[s].bootPhase \in Phase
      <4>1. saId = None /\ profile[s].runOnCreate
        <5>1. saId # s
          BY <3>1, <3>3, SaAssumption DEF ServedInv, LoadedInv
        <5>2. QED
          BY <3>5, <5>1, Zenon DEF NeedRegisterOnDemand
      <4>2. profile[s].bootPhase <= LoadedPhase
        BY <3>1, <3>5 DEF LoadedPhase, Phase
      <4>3. s \in abilityPhaseMap[profile[s].bootPhase] \/ (faulty /\ s \notin localAbilityMap)
        BY <3>5, <4>1, <4>2, Zenon DEF ServedInv, LoadedInv
      <4>4. QED
        BY <3>2, <3>3, <3>5, <4>3, Zenon
    <3>6. CASE ~NeedRegisterOnDemand(s) /\ profile[s].bootPhase \notin Phase
      BY <3>1, <3>2, <3>6 DEF Phase
    <3>7. QED
      BY <3>4, <3>5, <3>6, Zenon
  <2>2. saProfiles # {} /\ (saId # None => saId \in saProfiles)
    BY Zenon DEF ServedInv, LoadedInv
  <2>3. QED
    BY <2>1, <2>2, Zenon DEF EverySaServed
<1>2. BootInv /\ ServedInv /\ [Next]_vars => (BootInv /\ ServedInv)'
  BY NextBootInv, NextServedInv
<1>3. QED
  BY <1>1, <1>2, InitBootInv, InitServedInv, PTL DEF Spec
=============================================================================
