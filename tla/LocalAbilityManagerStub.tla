----------------------- MODULE LocalAbilityManagerStub -----------------------
(***************************************************************************)
(* The requests an SA process serves besides those of its SAs: services/   *)
(* safwk/src/local_ability_manager_stub.cpp and what its handlers call in  *)
(* local_ability_manager.cpp, over the FFRT statistics.  IPC threads take  *)
(* requests, look the SA up, run the operation and answer; three handlers  *)
(* are given a descriptor, in the table that the SAs of the process use.   *)
(* The IPC library, the kernel's table and the SAs' callbacks are external. *)
(* The SA that the requests name is loaded or not; what its callbacks do   *)
(* to its state is in module SystemAbility.                                *)
(***************************************************************************)
EXTENDS FfrtStatistics, FiniteSets

CONSTANTS
  IpcThread,    \* IPC threads of the process
  Descriptor,   \* numbers of its descriptor table
  None,         \* no descriptor, no file
  Others,       \* the file of an SA's own descriptor
  Workloads     \* the sets of codes whose requests are considered together

ASSUME ThreadAssumption == IsFiniteSet(IpcThread) /\ {None, Others} \cap IpcThread = {} /\ None # Others
ASSUME DescriptorAssumption == None \notin Descriptor

\* The codes of memberFuncMap_.
FdCode == {"IPC_STAT_CMD", "FFRT_STAT_CMD", "SERVICE_CONTROL_CMD"}
Handled == FdCode \cup {"START_ABILITY", "STOP_ABILITY", "ACTIVE_ABILITY", "IDLE_ABILITY",
                        "SEND_STRATEGY_TO_SA", "SYSTEM_ABILITY_EXT", "FFRT_DUMPER"}

ASSUME WorkloadAssumption == Workloads \subseteq SUBSET (Handled \cup {"unknown"})

VARIABLES
  workload,  \* the codes that callers use, never changed
  pc,        \* where the handler of each thread is
  code,      \* the code of its request
  cmd,       \* the command read from its parcel, until it is carried out
  fd,        \* its local variable fd
  result,    \* its local variable result, until it is written to reply
  answer,    \* what it returns: an error, ERR_NONE ("none"), or ERR_NONE with a Boolean in reply
  effect,    \* history: what has become of the request's operation: none or
             \* done; delivered, its result is in the caller's file; or served,
             \* the SA's OnSvcCmd had the caller's file and returned success
  handed,    \* history: collections whose statistics were handed out
  file,      \* kernel: the open file of each descriptor, by the thread it came to
  loaded     \* localAbilityMap_ holds the SA

localVars == <<pc, code, cmd, fd, result, answer, effect>>
stubVars == <<vars, workload, localVars, handed, file, loaded>>

Stat == {"START", "STOP", "GET"}
Holding == {"perform", "save", "close"}

StubInit ==
  /\ Init
  /\ workload \in Workloads
  /\ pc = [t \in IpcThread |-> "idle"]
  /\ code = [t \in IpcThread |-> "unknown"]
  /\ cmd = [t \in IpcThread |-> "other"]
  /\ fd = [t \in IpcThread |-> None]
  /\ result = [t \in IpcThread |-> FALSE]
  /\ answer = [t \in IpcThread |-> "none"]
  /\ effect = [t \in IpcThread |-> "none"]
  /\ handed = {}
  /\ file = [f \in Descriptor |-> None]
  /\ loaded = FALSE

Goto(t, to) == pc' = [pc EXCEPT ![t] = to]

Effect(t, e) == effect' = [effect EXCEPT ![t] = e]

\* The handler will return one of the answers in A.
Decide(t, A) == \E a \in A : answer' = [answer EXCEPT ![t] = a]

\* reply.WriteBool(r), which may fail.
WriteBool(r) == {IF r THEN "true" ELSE "false", "error"}

-----------------------------------------------------------------------------
\* A request comes in: wrong interface token or no permission, a code without
\* a handler, which is left to IPCObjectStub, or the handler is called.
OnRemoteRequest(t, c) ==
  /\ pc[t] = "idle"
  /\ code' = [code EXCEPT ![t] = c]
  /\ \/ Goto(t, "answered") /\ Decide(t, {"denied"})
     \/ c \notin Handled /\ Goto(t, "answered") /\ Decide(t, {"none", "error"})
     \/ c \in Handled /\ Goto(t, "handler") /\ UNCHANGED answer
  /\ UNCHANGED <<vars, workload, cmd, fd, result, effect, handed, file, loaded>>

\* The thread of the IPC library is free again.
Return(t) ==
  /\ pc[t] = "answered"
  /\ Goto(t, "idle")
  /\ code' = [code EXCEPT ![t] = "unknown"]
  /\ Decide(t, {"none"})
  /\ Effect(t, "none")
  /\ UNCHANGED <<vars, workload, cmd, fd, result, handed, file, loaded>>

\* A handler of code c without a descriptor runs to its end: a value of the
\* parcel is missing or the SA id out of range, or it has the effect e and
\* one of the answers in A.
Handles(t, c, e, A) ==
  /\ pc[t] = "handler"
  /\ code[t] = c
  /\ \/ Decide(t, {"error"}) /\ UNCHANGED effect
     \/ Decide(t, A) /\ Effect(t, e)
  /\ Goto(t, "answered")
  /\ UNCHANGED <<vars, workload, code, cmd, fd, result, handed, file, loaded>>

\* The callback of the SA, if it is loaded.
Called == IF loaded THEN "done" ELSE "none"

\* A thread is created and detached, whether or not the SA is loaded; what it
\* does comes after the answer.
StartAbilityInner(t) == Handles(t, "START_ABILITY", "none", {"none"})

StopAbilityInner(t) == Handles(t, "STOP_ABILITY", "none", {"none"})

ActiveAbilityInner(t) == Handles(t, "ACTIVE_ABILITY", Called, WriteBool(loaded))

IdleAbilityInner(t) == Handles(t, "IDLE_ABILITY", Called, WriteBool(loaded))

SendStrategyToSAInner(t) == Handles(t, "SEND_STRATEGY_TO_SA", Called, IF loaded THEN {"none"} ELSE {"error"})

\* The answer is what OnExtension returns.
SystemAbilityExtProcInner(t) ==
  Handles(t, "SYSTEM_ABILITY_EXT", Called, IF loaded THEN {"none", "error"} ELSE {"error"})

\* ffrt_dump is not there, has nothing to tell, or fills the string; the string
\* is the reply all the same.
FfrtDumperProcInner(t) == \E e \in {"none", "done"} : Handles(t, "FFRT_DUMPER", e, {"none", "error"})

-----------------------------------------------------------------------------
\* MessageParcel::ReadFileDescriptor: a new descriptor of this process.
ReadFileDescriptor(t) ==
  \E f \in Descriptor :
    /\ file[f] = None
    /\ file' = [file EXCEPT ![f] = t]
    /\ fd' = [fd EXCEPT ![t] = f]

\* The number of collections is bounded.
StartsLeft ==
  starts + Cardinality({t \in IpcThread : code[t] = "FFRT_STAT_CMD" /\ cmd[t] = "START"}) < MaxStarts

\* Mutant: the descriptor is not closed when what follows it cannot be read.
FdCmdInnerLeaks(t, c, R) ==
  /\ pc[t] = "handler"
  /\ code[t] = c
  /\ \/ Goto(t, "answered") /\ Decide(t, {"error"}) /\ UNCHANGED <<cmd, fd, file>>
     \/ ReadFileDescriptor(t) /\ Goto(t, "answered") /\ Decide(t, {"error"}) /\ UNCHANGED cmd
     \/ /\ ReadFileDescriptor(t)
        /\ Goto(t, "perform")
        /\ \E r \in R : cmd' = [cmd EXCEPT ![t] = r]
        /\ UNCHANGED answer
  /\ UNCHANGED <<vars, workload, code, result, effect, handed, loaded>>

\* A handler reads its descriptor and then its command: there is no descriptor,
\* what follows it cannot be read, or the command is one of R.
FdCmdInner(t, c, R) ==
  /\ pc[t] = "handler"
  /\ code[t] = c
  /\ \/ Goto(t, "answered") /\ Decide(t, {"error"}) /\ UNCHANGED <<cmd, fd, file>>
     \/ ReadFileDescriptor(t) /\ Goto(t, "close") /\ Decide(t, {"error"}) /\ UNCHANGED cmd
     \/ /\ ReadFileDescriptor(t)
        /\ Goto(t, "perform")
        /\ \E r \in R : cmd' = [cmd EXCEPT ![t] = r]
        /\ UNCHANGED answer
  /\ UNCHANGED <<vars, workload, code, result, effect, handed, loaded>>

IpcStatCmdProcInner(t) == FdCmdInner(t, "IPC_STAT_CMD", Stat \cup {"other"})

FfrtStatCmdProcInner(t) ==
  FdCmdInner(t, "FFRT_STAT_CMD", {"STOP", "GET", "other"} \cup IF StartsLeft THEN {"START"} ELSE {})

ServiceControlCmdInner(t) == FdCmdInner(t, "SERVICE_CONTROL_CMD", {"other"})

\* The operation of a request of code c is carried out, with result r and effect e.
Performs(t, c, r, e) ==
  /\ pc[t] = "perform"
  /\ code[t] = c
  /\ Goto(t, "save")
  /\ cmd' = [cmd EXCEPT ![t] = "other"]
  /\ result' = [result EXCEPT ![t] = r]
  /\ Effect(t, e)
  /\ UNCHANGED <<workload, code, fd, answer, file, loaded>>

\* A command out of range: false, and nothing is saved.
Invalid(t, c) ==
  /\ pc[t] = "perform"
  /\ code[t] = c
  /\ cmd[t] \notin Stat
  /\ Goto(t, "close")
  /\ Decide(t, WriteBool(FALSE))
  /\ UNCHANGED <<vars, workload, code, cmd, fd, result, effect, handed, file, loaded>>

\* What the IPC library makes of the command; GET always succeeds.
IpcStatCmdProc(t) ==
  \/ Invalid(t, "IPC_STAT_CMD")
  \/ /\ cmd[t] \in Stat
     /\ \/ Performs(t, "IPC_STAT_CMD", TRUE, "done")
        \/ cmd[t] # "GET" /\ Performs(t, "IPC_STAT_CMD", FALSE, "none")
     /\ UNCHANGED <<vars, handed>>

\* The command is refused: a collection is under way, or none is, or there is
\* nothing to get.
Refused(c) ==
  \/ c = "START" /\ collectEnable
  \/ c = "STOP" /\ ~collectEnable
  \/ c = "GET" /\ (collectEnable \/ buffer = 0)

\* CollectFfrtStatistics, with ffrtMetricLock held from beginning to end.
FfrtStatCmdProc(t) ==
  \/ Invalid(t, "FFRT_STAT_CMD")
  \/ /\ Refused(cmd[t])
     /\ Performs(t, "FFRT_STAT_CMD", FALSE, "none")
     /\ UNCHANGED <<vars, handed>>
  \/ /\ cmd[t] = "START" /\ StartFfrtStatistics
     /\ Performs(t, "FFRT_STAT_CMD", collectEnable', IF collectEnable' THEN "done" ELSE "none")
     /\ UNCHANGED handed
  \/ /\ cmd[t] = "STOP" /\ StopFfrtStatistics
     /\ Performs(t, "FFRT_STAT_CMD", ~refused', "done")
     /\ UNCHANGED handed
  \/ /\ cmd[t] = "GET" /\ GetFfrtStatistics
     /\ Performs(t, "FFRT_STAT_CMD", TRUE, "done")
     /\ handed' = handed \cup {buffer}

\* OnSvcCmd of the SA is given the descriptor; the answer is what it returns.
ServiceControlCmd(t) ==
  /\ pc[t] = "perform"
  /\ code[t] = "SERVICE_CONTROL_CMD"
  /\ Goto(t, "close")
  /\ \/ loaded /\ Decide(t, {"none"}) /\ Effect(t, IF file[fd[t]] = t THEN "served" ELSE "done")
     \/ loaded /\ Decide(t, {"error"}) /\ Effect(t, "done")
     \/ ~loaded /\ Decide(t, {"error"}) /\ UNCHANGED effect
  /\ UNCHANGED <<vars, workload, code, cmd, fd, result, handed, file, loaded>>

\* Mutant: the result does not tell that it could not be saved.
SaveIgnored(t) ==
  /\ pc[t] = "save"
  /\ Goto(t, "close")
  /\ Decide(t, WriteBool(result[t]))
  /\ Effect(t, IF effect[t] = "done" THEN "delivered" ELSE "none") \/ UNCHANGED effect
  /\ result' = [result EXCEPT ![t] = FALSE]
  /\ UNCHANGED <<vars, workload, code, cmd, fd, handed, file, loaded>>

\* The result is written to the file the descriptor names, or is lost, and the
\* Boolean to reply.
SaveStringToFd(t) ==
  /\ pc[t] = "save"
  /\ Goto(t, "close")
  /\ \/ /\ Decide(t, WriteBool(result[t]))
        /\ Effect(t, IF effect[t] = "done" /\ file[fd[t]] = t THEN "delivered" ELSE effect[t])
     \/ Decide(t, WriteBool(FALSE)) /\ UNCHANGED effect
  /\ result' = [result EXCEPT ![t] = FALSE]
  /\ UNCHANGED <<vars, workload, code, cmd, fd, handed, file, loaded>>

\* ::close(fd), the last thing a handler with a descriptor does.
Close(t) ==
  /\ pc[t] = "close"
  /\ file' = [file EXCEPT ![fd[t]] = None]
  /\ fd' = [fd EXCEPT ![t] = None]
  /\ Goto(t, "answered")
  /\ UNCHANGED <<vars, workload, code, cmd, result, answer, effect, handed, loaded>>

-----------------------------------------------------------------------------
\* AddAbility: the library of the SA is opened.
AddAbility ==
  /\ ~loaded
  /\ loaded' = TRUE
  /\ UNCHANGED <<vars, workload, localVars, handed, file>>

\* An SA of the process opens and closes descriptors of its own.
SaOpen(f) ==
  /\ file[f] = None
  /\ file' = [file EXCEPT ![f] = Others]
  /\ UNCHANGED <<vars, workload, localVars, handed, loaded>>

SaClose(f) ==
  /\ file[f] = Others
  /\ file' = [file EXCEPT ![f] = None]
  /\ UNCHANGED <<vars, workload, localVars, handed, loaded>>

FfrtTask(n) == Task(n) /\ UNCHANGED <<workload, localVars, handed, file, loaded>>

Handler(t) ==
  \/ StartAbilityInner(t) \/ StopAbilityInner(t) \/ ActiveAbilityInner(t) \/ IdleAbilityInner(t)
  \/ SendStrategyToSAInner(t) \/ SystemAbilityExtProcInner(t) \/ FfrtDumperProcInner(t)
  \/ IpcStatCmdProcInner(t) \/ FfrtStatCmdProcInner(t) \/ ServiceControlCmdInner(t)
  \/ IpcStatCmdProc(t) \/ FfrtStatCmdProc(t) \/ ServiceControlCmd(t)
  \/ SaveStringToFd(t) \/ Close(t)

Environment ==
  \/ AddAbility
  \/ \E f \in Descriptor : SaOpen(f) \/ SaClose(f)
  \/ \E n \in Collection : FfrtTask(n)

StubNext ==
  \/ \E t \in IpcThread : Handler(t) \/ Return(t) \/ \E c \in workload : OnRemoteRequest(t, c)
  \/ Environment

StubSpec == StubInit /\ [][StubNext]_stubVars

-----------------------------------------------------------------------------
(* Properties                                                              *)

\* Type invariant: what the handlers' variables and the descriptor table hold.
StubTypeOK ==
  /\ TypeOK
  /\ workload \in Workloads
  /\ pc \in [IpcThread -> {"idle", "handler", "answered"} \cup Holding]
  /\ code \in [IpcThread -> Handled \cup {"unknown"}]
  /\ cmd \in [IpcThread -> Stat \cup {"other"}]
  /\ fd \in [IpcThread -> Descriptor \cup {None}]
  /\ result \in [IpcThread -> BOOLEAN]
  /\ answer \in [IpcThread -> {"none", "true", "false", "error", "denied"}]
  /\ effect \in [IpcThread -> {"none", "done", "delivered", "served"}]
  /\ handed \in SUBSET Collection
  /\ file \in [Descriptor -> IpcThread \cup {None, Others}]
  /\ loaded \in BOOLEAN

\* The handlers that are given a descriptor close it once on every path, and
\* only that one, although numbers are used again by other requests and by the
\* SAs: a handler that holds a number holds its caller's file, so that results
\* reach the caller, and a file is open only while its handler runs.
DescriptorsOwned ==
  /\ \A t \in IpcThread : pc[t] \in Holding => fd[t] \in Descriptor /\ file[fd[t]] = t
  /\ \A f \in Descriptor : file[f] \in IpcThread => pc[file[f]] \in Holding /\ fd[file[f]] = f

\* What the success of a request tells its caller, for the codes whose answer
\* tells something.
Tells == [c \in Handled \ {"START_ABILITY", "STOP_ABILITY", "FFRT_DUMPER"} |->
            CASE c \in {"IPC_STAT_CMD", "FFRT_STAT_CMD"} -> "delivered"
              [] c = "SERVICE_CONTROL_CMD" -> "served"
              [] OTHER -> "done"]

\* What a caller may conclude from the answer.  True to a statistics command
\* means that the command was carried out and that its result is in the
\* caller's file, although saving it may fail after the command was carried
\* out; success of svc's request that OnSvcCmd had the caller's file and
\* returned success (what it wrote is its own affair); success of the others
\* that the SA's callback was made.  Denied means that nothing was done.
AnswerIsTrue ==
  \A t \in IpcThread : pc[t] = "answered" =>
    /\ answer[t] \in {"true", "none"} /\ code[t] \in DOMAIN Tells => effect[t] = Tells[code[t]]
    /\ answer[t] = "denied" => effect[t] = "none"

\* The statistics of a collection are handed to one request at most: what GET
\* would hand out has not been handed out before, however START, STOP, GET and
\* the delayed task follow each other.
HandedOnce == buffer # 0 => buffer \notin handed
=============================================================================
