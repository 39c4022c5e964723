------------------------------ MODULE BootPhases ------------------------------
(***************************************************************************)
(* The start of an SA process: main, LocalAbilityManager::DoStartSAProcess *)
(* and Run.  The main thread reads its arguments, loads the SAs of the     *)
(* three boot phases, queues one start task per SA to a thread pool and    *)
(* waits for each phase; the tasks wait for the SAs they depend on, start  *)
(* their SA and count themselves off.  What Start does is in module        *)
(* SystemAbility, the format of the arguments in SaMain.                   *)
(***************************************************************************)
EXTENDS SaMain

CONSTANTS
  Requests,        \* the requests that processes are started with
  ExtraDatas,      \* extra data that samgr may keep for an event
  Profiles,        \* the profiles of the SAs to consider
  Workers,         \* threads of initPool_
  MaxTask,         \* MAX_TASK_NUMBER: tasks initPool_ queues
  Faults,          \* TRUE: samgr, opening a library or publishing may fail,
                   \* in some boots
  WaitTimeouts,    \* TRUE: the wait for a phase may time out
  DependTimeouts   \* TRUE: the wait for a dependency may time out

ASSUME SaAssumption == IsFiniteSet(SA) /\ None \notin SA \cup Elsewhere
ASSUME PoolAssumption == Workers \in Nat \ {0} /\ MaxTask \in Nat \ {0}
ASSUME FlagAssumption == {Faults, WaitTimeouts, DependTimeouts} \subseteq BOOLEAN
\* Phase 4 stands for any number above OTHER_START, the last phase there is.
ASSUME ProfileAssumption ==
  Profiles \subseteq [SA -> [bootPhase : 1..4, runOnCreate : BOOLEAN,
                             dependSa : SUBSET (SA \cup Elsewhere)]]

\* init and samgr write every option as a pair, begun by -m, and every number as
\* a numeral; the path is no option, and no id of an SA is the separator.
ASSUME RequestAssumption ==
  /\ Requests \subseteq [path : Seq(Token), options : Seq(Seq(Token)), sa : (Token \ {"#"}) \cup {None}, id : DOMAIN Number,
                          name : Seq(Token), value : Seq(Token), extraDataId : DOMAIN Number]
  /\ \A r \in Requests :
       /\ r.path # <<"-m">>
       /\ Len(r.options) % 2 = 0
       /\ \A i \in 1..Len(r.options) : r.options[i] = <<"-m">> <=> i % 2 = 1

\* Extra data are a code, a text and a map.
ASSUME ExtraAssumption ==
  \A data \in ExtraDatas :
    /\ data = [code |-> data.code, data |-> data.data, want |-> data.want]
    /\ data.want = [key \in DOMAIN data.want |-> data.want[key]]
    /\ IsFiniteSet(DOMAIN data.want)

VARIABLES
  argv,             \* the arguments of main
  startReason,      \* saIdToStartReason_ of saId
  profile,          \* the SA profiles of the process, never changed
  saId,             \* the SA the process is started for, or None
  faulty,           \* this is a boot in which something may fail
  saProfiles,       \* the SAs the process may load
  localAbilityMap,  \* SAs whose library is open
  abilityPhaseMap,  \* the SAs of each phase to be started
  onDemand,         \* samgr: SAs registered to be started on demand
  registered,       \* samgr: SAs that are published
  pc,               \* where the main thread is
  bootPhase,        \* the phase it is in
  toAdd,            \* SAs of the phase it has still to queue
  startTaskNum,     \* LocalAbilityManager::startTaskNum_
  task,             \* the start task of each SA
  timedOut          \* history: phases whose wait timed out

argVars    == <<argv, startReason, saId>>
configVars == <<profile, argVars, faulty>>
loadVars   == <<saProfiles, localAbilityMap, abilityPhaseMap>>
samgrVars  == <<onDemand, registered>>
mainVars   == <<pc, bootPhase, toAdd>>
taskVars   == <<startTaskNum, task, timedOut>>
vars == <<configVars, loadVars, samgrVars, mainVars, taskVars>>

Phase == 1..3

\* Tasks on one of the pool's threads, and tasks not yet counted off.
Running == {s \in SA : task[s] \in {"check", "starting", "finishing"}}
Queued == {s \in SA : task[s] = "queued"}
Unfinished == {s \in SA : task[s] = "counted"} \cup Queued \cup Running

Init ==
  /\ profile \in Profiles
  /\ argv \in {CommandLine(r) : r \in Requests}
  /\ startReason = NoEvent
  /\ saId = None
  /\ faulty \in {FALSE, Faults}
  /\ saProfiles = {}
  /\ localAbilityMap = {}
  /\ abilityPhaseMap = [p \in Phase |-> {}]
  /\ onDemand = {}
  /\ registered = {}
  /\ pc = "main"
  /\ bootPhase = 1
  /\ toAdd = {}
  /\ startTaskNum = 0
  /\ task = [s \in SA |-> "none"]
  /\ timedOut = {}

-----------------------------------------------------------------------------
(* main                                                                    *)

\* main up to DoStartSAProcess: without an event the process is started for no
\* SA, with one that does not parse it ends.
MainArgs ==
  /\ pc = "main"
  /\ \/ /\ Len(argv) \notin ARGC_LIMIT..ARGC_MAX_COUNT
        /\ pc' = "exit" /\ UNCHANGED <<saId, startReason>>
     \/ /\ Len(argv) \in ARGC_LIMIT..ARGC_MAX_COUNT /\ ~HasEvent(argv)
        /\ pc' = "start" /\ UNCHANGED <<saId, startReason>>
     \/ /\ Len(argv) \in ARGC_LIMIT..ARGC_MAX_COUNT /\ HasEvent(argv)
        /\ \E event \in {argv[EVENT_INDEX + InitMallopt(argv) + 1]} :
             \/ /\ \A e \in ParseArgv(event) : ~CheckSaId(e.saId)
                /\ pc' = "exit" /\ UNCHANGED <<saId, startReason>>
             \/ \E e \in ParseArgv(event) :
                  CheckSaId(e.saId) /\ saId' = e.saId /\ startReason' = e.eventMap /\ pc' = "start"
  /\ UNCHANGED <<argv, profile, faulty, loadVars, samgrVars, bootPhase, toAdd, taskVars>>

\* The path is checked; SetProcName overwrites the arguments with the name of
\* the process.
DoStartSAProcess ==
  /\ pc = "start"
  /\ \/ /\ PathIsJson(argv[2]) /\ CheckAndGetProfilePath(argv[2])
        /\ pc' = "profiles" /\ argv' = <<>>
     \/ /\ ~(PathIsJson(argv[2]) /\ CheckAndGetProfilePath(argv[2]))
        /\ pc' = "exit" /\ UNCHANGED argv
  /\ UNCHANGED <<startReason, saId, profile, faulty, loadVars, samgrVars, bootPhase, toAdd, taskVars>>

-----------------------------------------------------------------------------
(* Loading                                                                 *)

\* The libraries opened for a phase; some may fail to open.
OpenSo(profiles, p) ==
  LET wanted == {s \in profiles : profile[s].runOnCreate /\ profile[s].bootPhase = p}
  IN IF faulty THEN SUBSET wanted ELSE {wanted}

\* Opens the libraries of a phase; every SA of the phase that is loaded by now,
\* on demand too, joins its list.
InitializeRunOnCreateSaProfiles(profiles, p) ==
  \/ /\ p > 3
     /\ UNCHANGED <<localAbilityMap, abilityPhaseMap>>
  \/ /\ p <= 3
     /\ \E opened \in OpenSo(profiles, p) : localAbilityMap' = localAbilityMap \cup opened
     /\ abilityPhaseMap' = [abilityPhaseMap EXCEPT ![p] =
          {s \in profiles \cap localAbilityMap' : profile[s].bootPhase = p}]

\* Opens the library of the SA the process is started for.
InitializeOnDemandSaProfile(profiles) ==
  /\ saId \in profiles
  /\ profile[saId].bootPhase <= 3
  /\ localAbilityMap' = {saId}
  /\ abilityPhaseMap' = [abilityPhaseMap EXCEPT ![profile[saId].bootPhase] = {saId}]

\* Parses the profiles, drops the SAs the trust list does not name, and loads
\* the SA asked for or the first phase.  The process ends if the profiles cannot
\* be parsed, none is left, or the SA asked for cannot be loaded or has no phase.
InitSystemAbilityProfiles ==
  /\ pc = "profiles"
  /\ \E trusted \in SUBSET SA :
       \/ /\ pc' = "ready"
          /\ saProfiles' = trusted
          /\ \/ saId = None /\ trusted # {} /\ InitializeRunOnCreateSaProfiles(trusted, 1)
             \/ saId # None /\ InitializeOnDemandSaProfile(trusted)
       \/ /\ pc' = "exit"
          /\ \/ faulty
             \/ saId = None /\ trusted = {}
             \/ saId # None /\ saId \notin {s \in trusted : profile[s].bootPhase <= 3}
          /\ UNCHANGED loadVars
  /\ UNCHANGED <<configVars, samgrVars, bootPhase, toAdd, taskVars>>

\* samgr is polled for 10 seconds.
CheckSystemAbilityManagerReady ==
  /\ pc = "ready"
  /\ pc' = "add_process" \/ (faulty /\ pc' = "exit")
  /\ UNCHANGED <<configVars, loadVars, samgrVars, bootPhase, toAdd, taskVars>>

AddLocalAbilityManager ==
  /\ pc = "add_process"
  /\ pc' = "register" \/ (faulty /\ pc' = "exit")
  /\ UNCHANGED <<configVars, loadVars, samgrVars, bootPhase, toAdd, taskVars>>

\* Mutant: a process started for one SA does not register its run-on-create SAs.
NeedRegisterIfNotCreated(s) ==
  ~profile[s].runOnCreate /\ s # saId

NeedRegisterOnDemand(s) ==
  \/ saId = None /\ ~profile[s].runOnCreate
  \/ saId # None /\ s # saId

\* One call to samgr for each SA; each may fail.
RegisterOnDemandSystemAbility ==
  LET needed == {s \in saProfiles : NeedRegisterOnDemand(s)}
  IN /\ pc = "register"
     /\ onDemand' \in IF faulty THEN SUBSET needed ELSE {needed}
     /\ pc' = "phase"
     /\ UNCHANGED <<configVars, loadVars, registered, bootPhase, toAdd, taskVars>>

-----------------------------------------------------------------------------
(* The main thread starts one phase after the other                        *)

\* On a default start the next phase is loaded while this one starts.
LoadNextPhase ==
  /\ \/ saId = None /\ InitializeRunOnCreateSaProfiles(saProfiles, bootPhase + 1)
     \/ saId # None /\ UNCHANGED <<localAbilityMap, abilityPhaseMap>>
  /\ UNCHANGED saProfiles

FindPhaseTasks ==
  /\ pc = "phase"
  /\ bootPhase <= 3
  /\ abilityPhaseMap[bootPhase] # {}
  /\ toAdd' = abilityPhaseMap[bootPhase]
  /\ pc' = "add"
  /\ UNCHANGED <<configVars, loadVars, samgrVars, bootPhase, taskVars>>

SkipPhase ==
  /\ pc = "phase"
  /\ bootPhase <= 3
  /\ abilityPhaseMap[bootPhase] = {}
  /\ LoadNextPhase
  /\ bootPhase' = bootPhase + 1
  /\ UNCHANGED <<configVars, samgrVars, pc, toAdd, taskVars>>

\* StartPhaseTasks takes startPhaseLock_ and counts the task.
CountTask(s) ==
  /\ pc = "add"
  /\ s \in toAdd
  /\ toAdd' = toAdd \ {s}
  /\ startTaskNum' = startTaskNum + 1
  /\ task' = [task EXCEPT ![s] = "counted"]
  /\ pc' = "push"
  /\ UNCHANGED <<configVars, loadVars, samgrVars, bootPhase, timedOut>>

\* AddTask waits for room in the pool's queue, still with startPhaseLock_.
AddTask(s) ==
  /\ pc = "push"
  /\ task[s] = "counted"
  /\ Cardinality(Queued) < MaxTask
  /\ task' = [task EXCEPT ![s] = "queued"]
  /\ pc' = "add"
  /\ UNCHANGED <<configVars, loadVars, samgrVars, bootPhase, toAdd, startTaskNum, timedOut>>

EndPhaseTasks ==
  /\ pc = "add"
  /\ toAdd = {}
  /\ LoadNextPhase
  /\ pc' = "wait"
  /\ UNCHANGED <<configVars, samgrVars, bootPhase, toAdd, taskVars>>

\* Mutant: the wait looks at the queue and not at the tasks that run.
WaitForQueue ==
  /\ pc = "wait"
  /\ Queued = {}
  /\ startTaskNum' = 0
  /\ bootPhase' = bootPhase + 1
  /\ pc' = "phase"
  /\ UNCHANGED <<configVars, loadVars, samgrVars, toAdd, task, timedOut>>

\* The wait ends when every task has counted itself off.
WaitForTasks ==
  /\ pc = "wait"
  /\ startTaskNum = 0
  /\ bootPhase' = bootPhase + 1
  /\ pc' = "phase"
  /\ UNCHANGED <<configVars, loadVars, samgrVars, toAdd, taskVars>>

\* The wait times out, and the count is reset.
WaitTimesOut ==
  /\ WaitTimeouts
  /\ pc = "wait"
  /\ startTaskNum # 0
  /\ startTaskNum' = 0
  /\ timedOut' = timedOut \cup {bootPhase}
  /\ bootPhase' = bootPhase + 1
  /\ pc' = "phase"
  /\ UNCHANGED <<configVars, loadVars, samgrVars, toAdd, task>>

\* initPool_->Stop(): tasks still queued are dropped, running ones are joined.
StopPool ==
  /\ pc = "phase"
  /\ bootPhase > 3
  /\ task' = [s \in SA |-> IF task[s] = "queued" THEN "dropped" ELSE task[s]]
  /\ pc' = "join"
  /\ UNCHANGED <<configVars, loadVars, samgrVars, bootPhase, toAdd, startTaskNum, timedOut>>

JoinPool ==
  /\ pc = "join"
  /\ Running = {}
  /\ pc' = "serving"
  /\ UNCHANGED <<configVars, loadVars, samgrVars, bootPhase, toAdd, taskVars>>

-----------------------------------------------------------------------------
(* StartSystemAbilityTask                                                  *)

TakeTask(s) ==
  /\ task[s] = "queued"
  /\ Cardinality(Running) < Workers
  /\ task' = [task EXCEPT ![s] = "check"]
  /\ UNCHANGED <<configVars, loadVars, samgrVars, mainVars, startTaskNum, timedOut>>

\* Mutant: the dependencies are polled for without a timeout.
PollForEver(s) ==
  /\ task[s] = "check"
  /\ profile[s].dependSa \subseteq registered
  /\ task' = [task EXCEPT ![s] = "starting"]
  /\ UNCHANGED <<configVars, loadVars, samgrVars, mainVars, startTaskNum, timedOut>>

\* samgr is polled for the dependencies; after the timeout the SA is left alone.
StartDependSaTask(s) ==
  /\ task[s] = "check"
  /\ \/ /\ profile[s].dependSa \subseteq registered
        /\ task' = [task EXCEPT ![s] = "starting"]
     \/ /\ DependTimeouts
        /\ ~(profile[s].dependSa \subseteq registered)
        /\ task' = [task EXCEPT ![s] = "finishing"]
  /\ UNCHANGED <<configVars, loadVars, samgrVars, mainVars, startTaskNum, timedOut>>

\* Start runs OnStart, which publishes the SA or fails to.
StartAbility(s) ==
  /\ task[s] = "starting"
  /\ registered' = registered \cup {s} \/ (faulty /\ UNCHANGED registered)
  /\ task' = [task EXCEPT ![s] = "finishing"]
  /\ UNCHANGED <<configVars, loadVars, onDemand, mainVars, startTaskNum, timedOut>>

\* Mutant: the count is taken down without a look at it.
FinishTaskUnchecked(s) ==
  /\ task[s] = "finishing"
  /\ pc # "push"
  /\ startTaskNum' = startTaskNum - 1
  /\ task' = [task EXCEPT ![s] = "done"]
  /\ UNCHANGED <<configVars, loadVars, samgrVars, mainVars, timedOut>>

\* Under startPhaseLock_ the task counts itself off.
FinishTask(s) ==
  /\ task[s] = "finishing"
  /\ pc # "push"
  /\ startTaskNum' = IF startTaskNum > 0 THEN startTaskNum - 1 ELSE startTaskNum
  /\ task' = [task EXCEPT ![s] = "done"]
  /\ UNCHANGED <<configVars, loadVars, samgrVars, mainVars, timedOut>>

-----------------------------------------------------------------------------
(* samgr                                                                   *)

\* An SA of another process is published.
PublishElsewhere(e) ==
  /\ e \notin registered
  /\ registered' = registered \cup {e}
  /\ UNCHANGED <<configVars, loadVars, onDemand, mainVars, taskVars>>

\* samgr starts an SA it was told of, which loads it; it may publish itself.
LoadOnDemand(s) ==
  /\ s \in onDemand
  /\ s \notin localAbilityMap
  /\ localAbilityMap' = localAbilityMap \cup {s}
  /\ registered' \in {registered, registered \cup {s}}
  /\ UNCHANGED <<configVars, saProfiles, abilityPhaseMap, onDemand, mainVars, taskVars>>

-----------------------------------------------------------------------------
Main ==
  \/ MainArgs \/ DoStartSAProcess
  \/ InitSystemAbilityProfiles \/ CheckSystemAbilityManagerReady
  \/ AddLocalAbilityManager \/ RegisterOnDemandSystemAbility
  \/ FindPhaseTasks \/ SkipPhase \/ EndPhaseTasks \/ WaitForTasks
  \/ \E s \in SA : CountTask(s) \/ AddTask(s)
  \/ StopPool \/ JoinPool

Task(s) == TakeTask(s) \/ StartDependSaTask(s) \/ StartAbility(s) \/ FinishTask(s)

Next ==
  \/ Main
  \/ WaitTimesOut
  \/ \E s \in SA : Task(s) \/ LoadOnDemand(s)
  \/ \E e \in Elsewhere : PublishElsewhere(e)

Spec == Init /\ [][Next]_vars

\* The main thread and the pool's threads run, OnStart returns, and the SAs of
\* other processes are published some time.  The wait for a phase need not time
\* out.
Fairness ==
  /\ WF_vars(Main)
  /\ \A s \in SA : WF_vars(Task(s))
  /\ \A e \in Elsewhere : WF_vars(PublishElsewhere(e))

FairSpec == Spec /\ Fairness

-----------------------------------------------------------------------------
(* Properties                                                              *)

\* Type invariant: what the members of the code, samgr and the threads may hold.
TypeOK ==
  /\ profile \in Profiles
  /\ argv \in {CommandLine(r) : r \in Requests} \cup {<<>>}
  /\ saId \in SA \cup Elsewhere \cup {None}
  /\ faulty \in BOOLEAN
  /\ saProfiles \subseteq SA
  /\ localAbilityMap \subseteq SA
  /\ abilityPhaseMap \in [Phase -> SUBSET SA]
  /\ onDemand \subseteq SA
  /\ registered \subseteq SA \cup Elsewhere
  /\ pc \in {"main", "start", "profiles", "ready", "add_process", "register", "phase", "add", "push",
             "wait", "join", "serving", "exit"}
  /\ bootPhase \in 1..4
  /\ toAdd \subseteq SA
  /\ startTaskNum \in Nat
  /\ task \in [SA -> {"none", "counted", "queued", "check", "starting", "finishing",
                      "done", "dropped"}]
  /\ timedOut \subseteq Phase

\* Every start the wait counts on belongs to a task that will still count
\* itself off, and tasks that outlive their phase do not take the count below
\* zero, also after a phase timed out and left tasks behind: once all tasks are
\* done no phase is waited for in vain.
CounterBacked == startTaskNum \in 0..Cardinality(Unfinished)

\* While no phase has timed out, an SA's start task only exists once the tasks
\* of all SAs of the phases before are done, though the next phase is loaded
\* while they still run.
PhaseOrder ==
  timedOut = {} =>
    \A s, r \in SA :
      /\ task[s] # "none" /\ task[r] # "none"
      /\ profile[r].bootPhase < profile[s].bootPhase
      => task[r] = "done"

\* "system abilities of a lower priority can be started and registered only
\* after those of a higher priority have all been started and registered": the
\* tasks of a phase are done before those of a later phase exist, unless the
\* wait for that very phase timed out.
PhaseOrderTimed ==
  \A s, r \in SA :
    /\ task[s] # "none" /\ task[r] # "none"
    /\ profile[r].bootPhase < profile[s].bootPhase
    /\ profile[r].bootPhase \notin timedOut
    => task[r] = "done"

\* A request that the code can carry out: the path is right, the SA exists, no
\* text holds the separator, and nothing is too long.
Proper(r) ==
  /\ PathIsJson(r.path) /\ CheckAndGetProfilePath(r.path)
  /\ Len(CommandLine(r)) <= ARGC_MAX_COUNT
  /\ r.sa # None =>
       /\ CheckSaId(r.sa)
       /\ \A i \in DOMAIN (r.name \o r.value) : (r.name \o r.value)[i] # "#"
       /\ Len(Event(r)) <= MAX_LENGTH

\* What the process does is what r asked for.
Asked(r) ==
  /\ pc = "exit" => ~Proper(r)
  /\ pc = "start" => saId = r.sa
  /\ pc = "start" /\ r.sa # None /\ {Number[r.id], Number[r.extraDataId]} \subseteq AnyInt =>
       JsonToOnDemandReason(startReason) =
         {[id |-> Number[r.id], name |-> r.name, value |-> r.value,
           extraDataId |-> Number[r.extraDataId], extraData |-> NoExtraData]}

\* However many options stand before the event, a process goes on only for the
\* SA it was started for, and OnStart will be given the reason of that start,
\* field by field, provided its numbers are ints; it ends only if the request
\* could not be carried out.
StartedAsAsked ==
  pc \in {"start", "exit"} => \A r \in Requests : argv = CommandLine(r) => Asked(r)

\* Whatever the reason is and whether or not samgr answers, the extra data of a
\* common event, and of no other one, reach the SA; an SA written in Rust gets
\* the same reason and the same want, and can send it on to another SA, if its
\* enumeration knows the reason.
ReasonReachesAbility ==
  pc = "start" =>
    \A reason \in JsonToOnDemandReason(startReason), data \in ExtraDatas, answered \in BOOLEAN :
      LET got == GetOnDemandReasonExtraData(reason, IF answered THEN Marshalling(data) ELSE <<>>)
          wrapper == BuildReasonWrapper(got)
      IN /\ got = IF HasExtraData(reason) /\ answered THEN [reason EXCEPT !.extraData = data] ELSE reason
         /\ Want(wrapper.extra_data.want) = got.extraData.want
         /\ reason.id \in RustReasonId => deserialize(serialize(wrapper)) = <<wrapper>>

\* A process that has booted has an SA to serve, the one asked for if there was
\* one, whichever SAs the trust list drops; and it serves every SA of its
\* profiles: the start task of the SA is done, by a start or because its
\* dependencies did not come up in time, or samgr has been told to ask for the
\* SA.  Only a task still queued after a timeout is given up, and only an SA
\* that could not be loaded or registered, or that is to be started in a phase
\* there is not, has neither: NeedRegisterOnDemand and the loading of the phases
\* leave no gap between them.
EverySaServed ==
  pc = "serving" =>
    /\ saProfiles # {}
    /\ saId # None => saId \in saProfiles
    /\ \A s \in saProfiles :
         \/ task[s] = "done" \/ s \in onDemand
         \/ task[s] = "dropped" /\ timedOut # {}
         \/ /\ task[s] = "none"
            /\ \/ faulty /\ (NeedRegisterOnDemand(s) \/ s \notin localAbilityMap)
               \/ ~NeedRegisterOnDemand(s) /\ profile[s].bootPhase > 3

\* Run comes back, whatever fails and whatever the SAs depend on: no phase and
\* no join is waited for for ever, even if no wait for a phase timed out.
BootCompletes == <>(pc \in {"serving", "exit"})

\* "Set run-on-create to true if you want to register this system ability with
\* the Samgr component immediately after the process is started": when nothing
\* fails, every run-on-create SA is registered, in a process that starts for no
\* SA and may load all of its own.
RunOnCreateRegistered ==
  \A s \in SA :
    (pc = "ready" /\ saId = None /\ saProfiles = SA /\ profile[s].runOnCreate)
      ~> (s \in registered)
=============================================================================
