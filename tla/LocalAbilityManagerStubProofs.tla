-------------------- MODULE LocalAbilityManagerStubProofs --------------------
(***************************************************************************)
(* Proofs about FfrtStatistics, about LocalAbilityManagerStub, which holds *)
(* the statistics, about SvcControl, which calls it, and about the report  *)
(* of FfrtReport that it answers with: for any number of IPC threads,      *)
(* descriptors and collections, for every workload, command line and       *)
(* buffer and with every fault.                                            *)
(***************************************************************************)
EXTENDS SvcControl, FfrtReport, FiniteSetTheorems, WellFoundedInduction, TLAPS

-----------------------------------------------------------------------------
(* The statistics on their own.                                            *)

\* Between two collections FFRT writes nowhere, unless it refused to stop; then
\* nothing is left for GET.
WritesWhileEnabled ==
  /\ writing # 0 => collectEnable \/ refused
  /\ refused => ~collectEnable /\ buffer = 0

\* The inductive invariant.
StatInv ==
  /\ TypeOK
  /\ WritesWhileEnabled
  /\ BufferOutlivesWrites
  /\ PendingIsCurrent
  /\ BufferIsTimed

\* 0, no collection, is in the range of the numbers.
LEMMA NoneInRange == 0 \in 0..MaxStarts
  BY BoundAssumption

\* A task that RemoveTask leaves pending was pending before, and was not the
\* one the handler held; it changes no other state of a task than this one.
LEMMA RemoveTaskEffect ==
  ASSUME NEW ts \in [Collection -> {"none", "pending", "running", "done", "cancelled"}]
  PROVE  /\ RemoveTask(ts) \in [Collection -> {"none", "pending", "running", "done", "cancelled"}]
         /\ \A n \in Collection : RemoveTask(ts)[n] = "pending" =>
              ts[n] = "pending" /\ ~(hasHandler /\ n = taskMap)
  BY DEF RemoveTask

\* The initial state satisfies the invariant.
LEMMA InitStatInv == Init => StatInv
<1> SUFFICES ASSUME Init PROVE StatInv
  OBVIOUS
<1>1. TypeOK
  BY NoneInRange DEF Init, TypeOK
<1>2. WritesWhileEnabled /\ BufferOutlivesWrites /\ PendingIsCurrent /\ BufferIsTimed
  BY DEF Init, WritesWhileEnabled, BufferOutlivesWrites, PendingIsCurrent, BufferIsTimed
<1> QED BY <1>1, <1>2 DEF StatInv

\* Clearing leaves no buffer and, as the pending task is the one the handler
\* holds, no pending task.
LEMMA ClearedState ==
  ASSUME StatInv, ClearFfrtStatisticsBufferLocked
  PROVE  /\ buffer' = 0 /\ taskMap' = 0
         /\ task' \in [Collection -> {"none", "pending", "running", "done", "cancelled"}]
         /\ \A n \in Collection : task'[n] # "pending"
  BY RemoveTaskEffect
  DEF StatInv, TypeOK, PendingIsCurrent, ClearFfrtStatisticsBufferLocked

\* START keeps the invariant: the old task is cancelled before the new one is
\* posted.
LEMMA StartKeeps == StatInv /\ StartFfrtStatistics => StatInv'
<1> SUFFICES ASSUME StatInv, StartFfrtStatistics PROVE StatInv'
  OBVIOUS
<1> DEFINE n == starts + 1
           cleared == RemoveTask(task)
<1>1. n \in Collection /\ n \in 0..MaxStarts /\ n # 0
  BY BoundAssumption DEF StatInv, TypeOK, StartFfrtStatistics, Collection
<1>2. /\ cleared \in [Collection -> {"none", "pending", "running", "done", "cancelled"}]
      /\ \A m \in Collection : cleared[m] # "pending"
  BY RemoveTaskEffect DEF StatInv, TypeOK, PendingIsCurrent
<1>3. starts' = n /\ ~collectEnable
  BY DEF StartFfrtStatistics
<1>4. CASE /\ collectEnable' = TRUE /\ buffer' = n /\ writing' = n
           /\ hasHandler' = TRUE /\ refused' = FALSE
           /\ taskMap' = n /\ task' = [cleared EXCEPT ![n] = "pending"] /\ unposted' = FALSE
  <2> HIDE DEF n, cleared
  <2>1. TypeOK'
    BY <1>1, <1>2, <1>3, <1>4 DEF StatInv, TypeOK
  <2>2. WritesWhileEnabled' /\ BufferOutlivesWrites'
    BY <1>1, <1>4 DEF WritesWhileEnabled, BufferOutlivesWrites
  <2>3. PendingIsCurrent'
    BY <1>1, <1>2, <1>4 DEF PendingIsCurrent
  <2>4. task'[n] = "pending"
    BY <1>1, <1>2, <1>4
  <2>5. BufferIsTimed'
    BY <1>1, <2>4 DEF BufferIsTimed
  <2> QED BY <2>1, <2>2, <2>3, <2>5 DEF StatInv
<1>5. CASE /\ collectEnable' = TRUE /\ buffer' = n /\ writing' = n
           /\ hasHandler' = TRUE /\ refused' = FALSE
           /\ taskMap' = 0 /\ task' = cleared /\ unposted' = TRUE
  <2> HIDE DEF n, cleared
  <2>1. TypeOK'
    BY <1>1, <1>2, <1>3, <1>5, NoneInRange DEF StatInv, TypeOK
  <2>2. WritesWhileEnabled' /\ BufferOutlivesWrites' /\ PendingIsCurrent' /\ BufferIsTimed'
    BY <1>1, <1>2, <1>5
    DEF WritesWhileEnabled, BufferOutlivesWrites, PendingIsCurrent, BufferIsTimed
  <2> QED BY <2>1, <2>2 DEF StatInv
<1>6. CASE /\ ClearFfrtStatisticsBufferLocked
           /\ UNCHANGED <<collectEnable, hasHandler, writing, refused, unposted>>
  <2>1. TypeOK'
    BY <1>1, <1>3, <1>6, ClearedState, NoneInRange DEF StatInv, TypeOK
  <2>2. WritesWhileEnabled' /\ BufferOutlivesWrites' /\ PendingIsCurrent' /\ BufferIsTimed'
    BY <1>3, <1>6, ClearedState
    DEF StatInv, WritesWhileEnabled, BufferOutlivesWrites, PendingIsCurrent, BufferIsTimed
  <2> QED BY <2>1, <2>2 DEF StatInv
<1> QED BY <1>4, <1>5, <1>6, Zenon DEF StartFfrtStatistics

\* STOP keeps the invariant: the buffer outlives the collection, with its task.
LEMMA StopKeeps == StatInv /\ StopFfrtStatistics => StatInv'
<1> SUFFICES ASSUME StatInv, StopFfrtStatistics PROVE StatInv'
  OBVIOUS
<1>1. /\ collectEnable' = FALSE
      /\ UNCHANGED <<hasHandler, starts, unposted>>
      /\ \/ writing' = 0 /\ refused' = FALSE
         \/ refused' = TRUE /\ UNCHANGED writing
  BY Zenon DEF StopFfrtStatistics, StopDump
<1>2. CASE ~refused' /\ UNCHANGED <<buffer, taskMap, task>>
  <2>1. writing' = 0 /\ refused' = FALSE
    BY <1>1, <1>2
  <2>2. TypeOK'
    BY <1>1, <1>2, <2>1, NoneInRange DEF StatInv, TypeOK
  <2>3. WritesWhileEnabled' /\ BufferOutlivesWrites'
    BY <1>1, <2>1 DEF WritesWhileEnabled, BufferOutlivesWrites
  <2>4. PendingIsCurrent' /\ BufferIsTimed'
    BY <1>1, <1>2 DEF StatInv, PendingIsCurrent, BufferIsTimed
  <2> QED BY <2>2, <2>3, <2>4 DEF StatInv
<1>3. CASE refused' /\ ClearFfrtStatisticsBufferLocked
  BY <1>1, <1>3, ClearedState, NoneInRange
  DEF StatInv, TypeOK, WritesWhileEnabled, BufferOutlivesWrites, PendingIsCurrent, BufferIsTimed
<1> QED BY <1>2, <1>3, Zenon DEF StopFfrtStatistics

\* GET keeps the invariant: buffer, task and handler go together.
LEMMA GetKeeps == StatInv /\ GetFfrtStatistics => StatInv'
<1> SUFFICES ASSUME StatInv, GetFfrtStatistics PROVE StatInv'
  OBVIOUS
<1>1. /\ ClearFfrtStatisticsBufferLocked
      /\ ~collectEnable
      /\ hasHandler' = FALSE
      /\ UNCHANGED <<collectEnable, writing, starts, refused, unposted>>
  BY DEF GetFfrtStatistics
<1>2. TypeOK'
  BY <1>1, ClearedState, NoneInRange DEF StatInv, TypeOK
<1>3. WritesWhileEnabled' /\ BufferOutlivesWrites' /\ PendingIsCurrent' /\ BufferIsTimed'
  BY <1>1, ClearedState
  DEF StatInv, WritesWhileEnabled, BufferOutlivesWrites, PendingIsCurrent, BufferIsTimed
<1> QED BY <1>2, <1>3 DEF StatInv

\* A task that begins keeps the invariant.
LEMMA RunKeeps == ASSUME NEW n \in Collection, StatInv, RunTask(n) PROVE StatInv'
  BY DEF RunTask, StatInv, TypeOK, WritesWhileEnabled, BufferOutlivesWrites,
         PendingIsCurrent, BufferIsTimed

\* The delayed task keeps the invariant, whichever collection it finds.
LEMMA ClearKeeps ==
  ASSUME NEW n \in Collection, StatInv, ClearFfrtStatistics(n) PROVE StatInv'
<1> DEFINE ts == [task EXCEPT ![n] = "done"]
<1>1. /\ collectEnable' = FALSE /\ buffer' = 0 /\ taskMap' = 0
      /\ task' = RemoveTask(ts)
      /\ UNCHANGED <<hasHandler, starts, unposted>>
  BY DEF ClearFfrtStatistics
<1>2. \/ writing' = 0 /\ refused' = FALSE
      \/ refused' = TRUE /\ UNCHANGED writing
      \/ ~collectEnable /\ UNCHANGED <<writing, refused>>
  BY Zenon DEF ClearFfrtStatistics, StopDump
<1>3. ts \in [Collection -> {"none", "pending", "running", "done", "cancelled"}]
  BY DEF StatInv, TypeOK
<1>4. \A m \in Collection : ts[m] = "pending" => hasHandler /\ taskMap = m
  BY DEF StatInv, TypeOK, PendingIsCurrent
<1>5. /\ task' \in [Collection -> {"none", "pending", "running", "done", "cancelled"}]
      /\ \A m \in Collection : task'[m] # "pending"
  <2> HIDE DEF ts
  <2> QED BY <1>1, <1>3, <1>4, RemoveTaskEffect
<1> HIDE DEF ts
<1>6. TypeOK'
  BY <1>1, <1>2, <1>5, NoneInRange DEF StatInv, TypeOK
<1>7. WritesWhileEnabled' /\ BufferOutlivesWrites' /\ PendingIsCurrent' /\ BufferIsTimed'
  BY <1>1, <1>2, <1>5
  DEF StatInv, WritesWhileEnabled, BufferOutlivesWrites, PendingIsCurrent, BufferIsTimed
<1> QED BY <1>6, <1>7 DEF StatInv

\* The invariant holds in every state, for any number of collections.
LEMMA StatisticsInvariant == Spec => []StatInv
<1>1. StatInv /\ [Next]_vars => StatInv'
  <2> SUFFICES ASSUME StatInv, [Next]_vars PROVE StatInv'
    OBVIOUS
  <2>1. CASE UNCHANGED vars
    BY <2>1 DEF vars, StatInv, TypeOK, WritesWhileEnabled, BufferOutlivesWrites,
                PendingIsCurrent, BufferIsTimed
  <2>2. CASE Command
    BY <2>2, StartKeeps, StopKeeps, GetKeeps DEF Command
  <2>3. CASE \E n \in Collection : Task(n)
    BY <2>3, RunKeeps, ClearKeeps DEF Task
  <2> QED BY <2>1, <2>2, <2>3 DEF Next
<1> QED BY InitStatInv, <1>1, PTL DEF Spec

-----------------------------------------------------------------------------
(* The requests and the statistics.                                        *)

\* What a step of the process does to the statistics and to those handed out.
LEMMA StatisticsSteps ==
  ASSUME [StubNext]_stubVars
  PROVE  \/ UNCHANGED <<vars, handed>>
         \/ GetFfrtStatistics /\ handed' = handed \cup {buffer}
         \/ /\ \/ StartFfrtStatistics
               \/ StopFfrtStatistics
               \/ \E n \in Collection : Task(n)
            /\ UNCHANGED handed
<1>1. ASSUME NEW t \in IpcThread,
             \/ StartAbilityInner(t) \/ StopAbilityInner(t) \/ ActiveAbilityInner(t)
             \/ IdleAbilityInner(t) \/ SendStrategyToSAInner(t)
             \/ SystemAbilityExtProcInner(t) \/ FfrtDumperProcInner(t)
      PROVE  UNCHANGED <<vars, handed>>
  BY <1>1, Zenon
  DEF StartAbilityInner, StopAbilityInner, ActiveAbilityInner, IdleAbilityInner,
      SendStrategyToSAInner, SystemAbilityExtProcInner, FfrtDumperProcInner, Handles
<1>2. ASSUME NEW t \in IpcThread,
             \/ IpcStatCmdProcInner(t) \/ FfrtStatCmdProcInner(t) \/ ServiceControlCmdInner(t)
             \/ IpcStatCmdProc(t) \/ ServiceControlCmd(t) \/ SaveStringToFd(t) \/ Close(t)
             \/ Return(t) \/ \E c \in workload : OnRemoteRequest(t, c)
      PROVE  UNCHANGED <<vars, handed>>
  BY <1>2, Zenon
  DEF IpcStatCmdProcInner, FfrtStatCmdProcInner, ServiceControlCmdInner, FdCmdInner,
      IpcStatCmdProc, Invalid, ServiceControlCmd, SaveStringToFd, Close, Return,
      OnRemoteRequest
<1>3. ASSUME NEW t \in IpcThread, FfrtStatCmdProc(t)
      PROVE  \/ UNCHANGED <<vars, handed>>
             \/ GetFfrtStatistics /\ handed' = handed \cup {buffer}
             \/ (StartFfrtStatistics \/ StopFfrtStatistics) /\ UNCHANGED handed
  BY <1>3, Zenon DEF FfrtStatCmdProc, Invalid
<1>4. ASSUME AddAbility \/ \E f \in Descriptor : SaOpen(f) \/ SaClose(f)
      PROVE  UNCHANGED <<vars, handed>>
  BY <1>4, Zenon DEF AddAbility, SaOpen, SaClose
<1>5. ASSUME NEW n \in Collection, FfrtTask(n)
      PROVE  Task(n) /\ UNCHANGED handed
  BY <1>5, Zenon DEF FfrtTask
<1>6. ASSUME UNCHANGED stubVars PROVE UNCHANGED <<vars, handed>>
  BY <1>6, Zenon DEF stubVars
<1>7. QED
  BY <1>1, <1>2, <1>3, <1>4, <1>5, <1>6, Zenon DEF StubNext, Handler, Environment

\* Whatever requests the process serves, what they do to the statistics is what
\* the statistics do on their own.
LEMMA StubImplementsStatistics == StubSpec => Spec
<1>1. StubInit => Init
  BY DEF StubInit
<1>2. [StubNext]_stubVars => [Next]_vars
  BY StatisticsSteps DEF Next, Command
<1>3. QED
  BY <1>1, <1>2, PTL DEF StubSpec, Spec

\* What holds of the statistics on their own holds of those of the process.
LEMMA StubStatistics == StubSpec => []StatInv
  BY StubImplementsStatistics, StatisticsInvariant, PTL

\* FFRT never writes to a freed buffer unless it refused to stop, whatever requests
\* the process serves at once: neither a command nor a delayed task frees or
\* replaces the buffer in use.
THEOREM WritesHaveABuffer == StubSpec => []BufferOutlivesWrites
  BY StubStatistics, PTL DEF StatInv

\* GET never parses a buffer that FFRT still writes to: when FFRT refused to
\* stop there is no buffer left.
THEOREM StillWhenRead == StubSpec => []StatisticsAreStill
<1>1. StatInv => StatisticsAreStill
  BY DEF StatInv, WritesWhileEnabled, StatisticsAreStill
<1> QED BY <1>1, StubStatistics, PTL

\* A delayed task that has not begun always belongs to the current buffer.
THEOREM PendingTaskIsCurrent == StubSpec => []PendingIsCurrent
  BY StubStatistics, PTL DEF StatInv

\* No buffer is left without a task to free it, once its task was posted.
THEOREM BuffersAreTimed == StubSpec => []BufferIsTimed
  BY StubStatistics, PTL DEF StatInv

\* The numbers of the statistics handed out, and of the buffer, are those of
\* collections that have begun, and they differ.
HandedInv == handed \subseteq 1..starts /\ buffer \in 0..starts /\ HandedOnce

\* The statistics of a collection are handed out once at most, for any number of
\* requests and collections.
THEOREM StatisticsHandedOnce == StubSpec => []HandedOnce
<1>1. StubInit => HandedInv
  BY DEF StubInit, Init, HandedInv, HandedOnce
<1>2. StatInv /\ HandedInv /\ [StubNext]_stubVars => HandedInv'
  <2> SUFFICES ASSUME StatInv, HandedInv, [StubNext]_stubVars PROVE HandedInv'
    OBVIOUS
  <2>1. starts \in Nat
    BY BoundAssumption DEF StatInv, TypeOK
  <2>2. CASE UNCHANGED <<vars, handed>>
    BY <2>2 DEF vars, HandedInv, HandedOnce
  <2>3. CASE GetFfrtStatistics /\ handed' = handed \cup {buffer}
    BY <2>1, <2>3 DEF GetFfrtStatistics, ClearFfrtStatisticsBufferLocked, HandedInv, HandedOnce
  <2>4. CASE StartFfrtStatistics /\ UNCHANGED handed
    <3>1. starts' = starts + 1 /\ buffer' \in {0, starts + 1}
      BY <2>4 DEF StartFfrtStatistics, ClearFfrtStatisticsBufferLocked
    <3>2. QED
      BY <2>1, <2>4, <3>1 DEF HandedInv, HandedOnce
  <2>5. CASE StopFfrtStatistics /\ UNCHANGED handed
    <3>1. starts' = starts /\ buffer' \in {0, buffer}
      BY <2>5 DEF StopFfrtStatistics, ClearFfrtStatisticsBufferLocked
    <3>2. QED
      BY <2>1, <2>5, <3>1 DEF HandedInv, HandedOnce
  <2>6. CASE (\E n \in Collection : Task(n)) /\ UNCHANGED handed
    <3>1. starts' = starts /\ buffer' \in {0, buffer}
      BY <2>6 DEF Task, RunTask, ClearFfrtStatistics
    <3>2. QED
      BY <2>1, <2>6, <3>1 DEF HandedInv, HandedOnce
  <2>7. QED
    BY <2>2, <2>3, <2>4, <2>5, <2>6, StatisticsSteps
<1>3. HandedInv => HandedOnce
  BY DEF HandedInv
<1>4. QED
  BY <1>1, <1>2, <1>3, StubStatistics, PTL DEF StubSpec

-----------------------------------------------------------------------------
(* The descriptors.                                                        *)

StubLabel == {"idle", "handler", "answered"} \cup Holding

\* The types of what the descriptors depend on.
FdTypes ==
  /\ pc \in [IpcThread -> StubLabel]
  /\ fd \in [IpcThread -> Descriptor \cup {None}]
  /\ file \in [Descriptor -> IpcThread \cup {None, Others}]

FdInv == FdTypes /\ DescriptorsOwned

\* A thread goes on, holding a descriptor before and after or neither time.
GoesOn(t) ==
  /\ \E to \in StubLabel :
       /\ (pc[t] \in Holding) <=> (to \in Holding)
       /\ pc' = [pc EXCEPT ![t] = to]
  /\ UNCHANGED <<fd, file>>

\* A thread is given a descriptor.
IsGiven(t) ==
  /\ pc[t] = "handler"
  /\ \E to \in Holding : pc' = [pc EXCEPT ![t] = to]
  /\ ReadFileDescriptor(t)

\* What a step of the process does to the descriptors.
LEMMA DescriptorSteps ==
  ASSUME [StubNext]_stubVars
  PROVE  \/ UNCHANGED <<pc, fd, file>>
         \/ \E t \in IpcThread : GoesOn(t) \/ IsGiven(t) \/ Close(t)
         \/ \E f \in Descriptor : SaOpen(f) \/ SaClose(f)
<1> USE DEF Goto, Holding, StubLabel
<1>1. ASSUME NEW t \in IpcThread,
             \/ StartAbilityInner(t) \/ StopAbilityInner(t) \/ ActiveAbilityInner(t)
             \/ IdleAbilityInner(t) \/ SendStrategyToSAInner(t)
             \/ SystemAbilityExtProcInner(t) \/ FfrtDumperProcInner(t)
      PROVE  GoesOn(t)
  <2>1. pc[t] = "handler" /\ Goto(t, "answered") /\ UNCHANGED <<fd, file>>
    BY <1>1, Zenon
    DEF StartAbilityInner, StopAbilityInner, ActiveAbilityInner, IdleAbilityInner,
        SendStrategyToSAInner, SystemAbilityExtProcInner, FfrtDumperProcInner, Handles
  <2>2. QED
    BY <2>1 DEF GoesOn
<1>2. ASSUME NEW t \in IpcThread,
             IpcStatCmdProcInner(t) \/ FfrtStatCmdProcInner(t) \/ ServiceControlCmdInner(t)
      PROVE  GoesOn(t) \/ IsGiven(t)
  <2>1. /\ pc[t] = "handler"
        /\ \/ Goto(t, "answered") /\ UNCHANGED <<fd, file>>
           \/ (Goto(t, "close") \/ Goto(t, "perform")) /\ ReadFileDescriptor(t)
    BY <1>2, Zenon
    DEF IpcStatCmdProcInner, FfrtStatCmdProcInner, ServiceControlCmdInner, FdCmdInner
  <2>2. QED
    BY <2>1 DEF GoesOn, IsGiven
<1>3. ASSUME NEW t \in IpcThread,
             IpcStatCmdProc(t) \/ FfrtStatCmdProc(t) \/ ServiceControlCmd(t) \/ SaveStringToFd(t)
      PROVE  GoesOn(t)
  <2>1. /\ pc[t] = "perform" \/ pc[t] = "save"
        /\ Goto(t, "save") \/ Goto(t, "close")
        /\ UNCHANGED <<fd, file>>
    BY <1>3, Zenon
    DEF IpcStatCmdProc, FfrtStatCmdProc, Performs, Invalid, ServiceControlCmd, SaveStringToFd
  <2>2. QED
    BY <2>1 DEF GoesOn
<1>4. ASSUME NEW t \in IpcThread, Return(t) \/ \E c \in workload : OnRemoteRequest(t, c)
      PROVE  GoesOn(t)
  <2>1. /\ pc[t] = "idle" \/ pc[t] = "answered"
        /\ Goto(t, "idle") \/ Goto(t, "handler") \/ Goto(t, "answered")
        /\ UNCHANGED <<fd, file>>
    BY <1>4, Zenon DEF Return, OnRemoteRequest
  <2>2. QED
    BY <2>1 DEF GoesOn
<1>5. ASSUME AddAbility \/ (\E n \in Collection : FfrtTask(n)) \/ UNCHANGED stubVars
      PROVE  UNCHANGED <<pc, fd, file>>
  BY <1>5, Zenon DEF AddAbility, FfrtTask, stubVars, localVars
<1>6. QED
  BY <1>1, <1>2, <1>3, <1>4, <1>5, Zenon DEF StubNext, Handler, Environment

\* Every step keeps each open file with the handler it came to.
LEMMA NextFdInv == FdInv /\ [StubNext]_stubVars => FdInv'
<1> SUFFICES ASSUME FdInv, [StubNext]_stubVars PROVE FdInv'
  OBVIOUS
<1> USE ThreadAssumption, DescriptorAssumption
    DEF FdInv, FdTypes, DescriptorsOwned, StubLabel, Holding, Goto
<1>1. CASE UNCHANGED <<pc, fd, file>>
  BY <1>1
<1>2. ASSUME NEW t \in IpcThread, GoesOn(t) PROVE FdInv'
  BY <1>2 DEF GoesOn
<1>3. ASSUME NEW t \in IpcThread, IsGiven(t) PROVE FdInv'
  BY <1>3 DEF IsGiven, ReadFileDescriptor
<1>4. ASSUME NEW t \in IpcThread, Close(t) PROVE FdInv'
  BY <1>4 DEF Close
<1>5. ASSUME NEW f \in Descriptor, SaOpen(f) \/ SaClose(f) PROVE FdInv'
  BY <1>5 DEF SaOpen, SaClose, localVars
<1>6. QED
  BY <1>1, <1>2, <1>3, <1>4, <1>5, DescriptorSteps

\* The invariant of the descriptors holds in every state.
THEOREM DescriptorInvariant == StubSpec => []FdInv
<1>1. StubInit => FdInv
  BY ThreadAssumption, DescriptorAssumption
  DEF StubInit, FdInv, FdTypes, DescriptorsOwned, StubLabel, Holding
<1>2. QED
  BY <1>1, NextFdInv, PTL DEF StubSpec

\* Whichever numbers the kernel gives out again, a handler holds the file its
\* caller sent until it closes it, and leaves none open.
THEOREM DescriptorsAreOwned == StubSpec => []DescriptorsOwned
  BY DescriptorInvariant, PTL DEF FdInv

-----------------------------------------------------------------------------
(* The answers.                                                            *)

\* What is known of a request at each label.
AnswerInv ==
  /\ code \in [IpcThread -> Handled \cup {"unknown"}]
  /\ result \in [IpcThread -> BOOLEAN]
  /\ answer \in [IpcThread -> {"none", "true", "false", "error", "denied"}]
  /\ effect \in [IpcThread -> {"none", "done", "delivered", "served"}]
  /\ loaded \in BOOLEAN
  /\ workload \subseteq Handled \cup {"unknown"}
  /\ \A t \in IpcThread :
       /\ pc[t] \in {"idle", "handler", "perform"} => effect[t] = "none"
       /\ pc[t] \in Holding => code[t] \in FdCode
       /\ pc[t] = "save" =>
            /\ code[t] \in {"IPC_STAT_CMD", "FFRT_STAT_CMD"}
            /\ effect[t] \in {"none", "done"}
            /\ result[t] => effect[t] = "done"
       /\ pc[t] = "close" => answer[t] # "denied"
       /\ pc[t] = "close" /\ answer[t] \in {"true", "none"} => effect[t] = Tells[code[t]]
  /\ AnswerIsTrue

\* What the answers tell, code by code.
LEMMA Told ==
  /\ DOMAIN Tells = Handled \ {"START_ABILITY", "STOP_ABILITY", "FFRT_DUMPER"}
  /\ Tells["IPC_STAT_CMD"] = "delivered" /\ Tells["FFRT_STAT_CMD"] = "delivered"
  /\ Tells["SERVICE_CONTROL_CMD"] = "served"
  /\ \A c \in (DOMAIN Tells) \ FdCode : Tells[c] = "done"
  BY DEF Tells, Handled, FdCode

\* The handlers without a descriptor tell what they did.
LEMMA PlainHandlers ==
  ASSUME FdInv, AnswerInv, NEW t \in IpcThread,
         \/ StartAbilityInner(t) \/ StopAbilityInner(t) \/ ActiveAbilityInner(t)
         \/ IdleAbilityInner(t) \/ SendStrategyToSAInner(t)
         \/ SystemAbilityExtProcInner(t) \/ FfrtDumperProcInner(t)
  PROVE  AnswerInv'
<1>1. ASSUME NEW c, NEW e \in {"none", "done"},
             NEW A \in SUBSET {"none", "true", "false", "error"}, Handles(t, c, e, A),
             c \notin FdCode,
             c \notin DOMAIN Tells \/ (A \cap {"true", "none"} # {} => e = "done")
      PROVE  AnswerInv'
  BY <1>1, Told
  DEF Handles, Goto, Decide, Effect, FdInv, FdTypes, AnswerInv, AnswerIsTrue, Holding, StubLabel
<1> USE Told DEF FdCode, WriteBool, Called
<1>2. CASE StartAbilityInner(t) \/ StopAbilityInner(t)
  BY <1>1, <1>2 DEF StartAbilityInner, StopAbilityInner
<1>3. CASE ActiveAbilityInner(t) \/ IdleAbilityInner(t)
  <2>1. \E c \in {"ACTIVE_ABILITY", "IDLE_ABILITY"} :
          Handles(t, c, "done", {"true", "error"}) \/ Handles(t, c, "none", {"false", "error"})
    BY <1>3 DEF ActiveAbilityInner, IdleAbilityInner, Handles, Decide
  <2>2. QED
    BY <1>1, <2>1
<1>4. CASE SendStrategyToSAInner(t) \/ SystemAbilityExtProcInner(t)
  <2>1. \E c \in {"SEND_STRATEGY_TO_SA", "SYSTEM_ABILITY_EXT"} :
          Handles(t, c, "done", {"none", "error"}) \/ Handles(t, c, "none", {"error"})
    BY <1>4 DEF SendStrategyToSAInner, SystemAbilityExtProcInner, Handles, Decide
  <2>2. QED
    BY <1>1, <2>1
<1>5. CASE FfrtDumperProcInner(t)
  <2>1. PICK e \in {"none", "done"} : Handles(t, "FFRT_DUMPER", e, {"none", "error"})
    BY <1>5 DEF FfrtDumperProcInner
  <2>2. "FFRT_DUMPER" \notin FdCode /\ "FFRT_DUMPER" \notin DOMAIN Tells
    OBVIOUS
  <2>3. {"none", "error"} \in SUBSET {"none", "true", "false", "error"}
    OBVIOUS
  <2>4. QED
    BY <1>1, <2>1, <2>2, <2>3, Zenon
<1>6. QED
  BY <1>2, <1>3, <1>4, <1>5

\* The handlers that carry out a command keep the result in step with what
\* was done, and the caller's file is still theirs.
LEMMA CommandHandlers ==
  ASSUME FdInv, AnswerInv, TypeOK', NEW t \in IpcThread,
         \/ IpcStatCmdProc(t) \/ FfrtStatCmdProc(t) \/ ServiceControlCmd(t)
         \/ SaveStringToFd(t)
  PROVE  AnswerInv'
<1> USE DEF Goto, Decide, Effect, FdInv, FdTypes, AnswerInv, AnswerIsTrue, Holding, StubLabel,
            WriteBool
<1> DEFINE StatCode == {"IPC_STAT_CMD", "FFRT_STAT_CMD"}
<1>1. ASSUME NEW c \in StatCode, Invalid(t, c) PROVE AnswerInv'
  BY <1>1 DEF Invalid
<1>2. ASSUME NEW c \in StatCode, NEW r \in BOOLEAN, NEW e \in {"none", "done"},
             Performs(t, c, r, e), r => e = "done"
      PROVE  AnswerInv'
  BY <1>2 DEF Performs
<1>3. CASE ServiceControlCmd(t)
  BY <1>3, Told DEF ServiceControlCmd, DescriptorsOwned, FdCode
<1>4. CASE SaveStringToFd(t)
  <2>1. pc[t] = "save" /\ file[fd[t]] = t /\ Tells[code[t]] = "delivered" /\ code[t] \in FdCode
    BY <1>4, Told DEF SaveStringToFd, DescriptorsOwned
  <2>2. /\ answer' \in [IpcThread -> {"none", "true", "false", "error", "denied"}]
        /\ effect' \in [IpcThread -> {"none", "done", "delivered", "served"}]
        /\ answer'[t] \in {"true", "false", "error"}
        /\ answer'[t] = "true" => effect'[t] = "delivered"
    <3>1. ASSUME NEW r \in BOOLEAN, Decide(t, WriteBool(r))
          PROVE  /\ answer' \in [IpcThread -> {"none", "true", "false", "error", "denied"}]
                 /\ answer'[t] \in {"true", "false", "error"}
                 /\ answer'[t] = "true" => r
      BY <3>1
    <3>2. result[t] \in BOOLEAN /\ effect[t] \in {"none", "done"} /\ (result[t] => effect[t] = "done")
      BY <2>1
    <3>3. CASE Decide(t, WriteBool(result[t])) /\ effect' = [effect EXCEPT ![t] = IF effect[t] = "done" THEN "delivered" ELSE effect[t]]
      BY <3>1, <3>2, <3>3
    <3>4. CASE Decide(t, WriteBool(FALSE)) /\ UNCHANGED effect
      BY <3>1, <3>4
    <3>5. QED
      BY <1>4, <2>1, <3>3, <3>4 DEF SaveStringToFd
  <2>3. result' \in [IpcThread -> BOOLEAN]
    <3>1. result' = [result EXCEPT ![t] = FALSE]
      BY <1>4 DEF SaveStringToFd
    <3>2. QED
      BY <3>1, Zenon
  <2>4. \A u \in IpcThread \ {t} :
          pc'[u] = pc[u] /\ answer'[u] = answer[u] /\ effect'[u] = effect[u] /\ result'[u] = result[u]
    BY <1>4 DEF SaveStringToFd
  <2>5. pc'[t] = "close" /\ UNCHANGED <<code, loaded, workload>>
    BY <1>4 DEF SaveStringToFd
  <2>6. QED
    BY <2>1, <2>2, <2>3, <2>4, <2>5
<1>5. CASE IpcStatCmdProc(t)
  <2>1. \/ Invalid(t, "IPC_STAT_CMD")
        \/ Performs(t, "IPC_STAT_CMD", TRUE, "done")
        \/ Performs(t, "IPC_STAT_CMD", FALSE, "none")
    BY <1>5, Zenon DEF IpcStatCmdProc
  <2>2. "IPC_STAT_CMD" \in StatCode
    OBVIOUS
  <2>3. QED
    BY <1>1, <1>2, <2>1, <2>2, Zenon
<1>6. CASE FfrtStatCmdProc(t)
  <2>1. "FFRT_STAT_CMD" \in StatCode
    OBVIOUS
  <2>2. \/ Invalid(t, "FFRT_STAT_CMD")
        \/ Performs(t, "FFRT_STAT_CMD", FALSE, "none")
        \/ Performs(t, "FFRT_STAT_CMD", TRUE, "done")
        \/ Performs(t, "FFRT_STAT_CMD", FALSE, "done")
    <3>1. CASE Performs(t, "FFRT_STAT_CMD", collectEnable', IF collectEnable' THEN "done" ELSE "none")
      BY <3>1, Zenon DEF TypeOK, Performs
    <3>2. CASE Performs(t, "FFRT_STAT_CMD", ~refused', "done")
      BY <3>2, Zenon DEF TypeOK, Performs
    <3>3. QED
      BY <1>6, <3>1, <3>2, Zenon DEF FfrtStatCmdProc
  <2>3. QED
    BY <1>1, <1>2, <2>1, <2>2, Zenon
<1>7. QED
  BY <1>3, <1>4, <1>5, <1>6

\* Every other step keeps what is known of the requests.
LEMMA NextAnswerInv == FdInv /\ AnswerInv /\ TypeOK' /\ [StubNext]_stubVars => AnswerInv'
<1> SUFFICES ASSUME FdInv, AnswerInv, TypeOK', [StubNext]_stubVars PROVE AnswerInv'
  OBVIOUS
<1> USE DEF Goto, Decide, Effect, FdInv, FdTypes, AnswerInv, AnswerIsTrue, Holding, StubLabel
<1>1. ASSUME NEW t \in IpcThread, NEW c \in FdCode, NEW R, FdCmdInner(t, c, R) PROVE AnswerInv'
  BY <1>1 DEF FdCmdInner
<1>2. ASSUME NEW t \in IpcThread,
             IpcStatCmdProcInner(t) \/ FfrtStatCmdProcInner(t) \/ ServiceControlCmdInner(t)
      PROVE  AnswerInv'
  <2>1. \E c \in FdCode : \E R : FdCmdInner(t, c, R)
    BY <1>2 DEF IpcStatCmdProcInner, FfrtStatCmdProcInner, ServiceControlCmdInner, FdCode
  <2>2. QED
    BY <1>1, <2>1
<1>3. ASSUME NEW t \in IpcThread, Close(t) PROVE AnswerInv'
  BY <1>3 DEF Close
<1>4. ASSUME NEW t \in IpcThread, Return(t) PROVE AnswerInv'
  BY <1>4 DEF Return
<1>5. ASSUME NEW t \in IpcThread, NEW c \in workload, OnRemoteRequest(t, c) PROVE AnswerInv'
  BY <1>5, Told DEF OnRemoteRequest
<1>6. CASE AddAbility
  BY <1>6 DEF AddAbility, localVars
<1>7. ASSUME (\E f \in Descriptor : SaOpen(f) \/ SaClose(f)) \/ (\E n \in Collection : FfrtTask(n))
               \/ UNCHANGED stubVars
      PROVE  AnswerInv'
  BY <1>7 DEF SaOpen, SaClose, FfrtTask, stubVars, localVars
<1>8. QED
  BY <1>2, <1>3, <1>4, <1>5, <1>6, <1>7, PlainHandlers, CommandHandlers, Zenon
  DEF StubNext, Handler, Environment

\* The answers agree with what has been done, at every moment.
LEMMA AnswerInvariant == StubSpec => []AnswerInv
<1>1. StubInit => AnswerInv
  <2> SUFFICES ASSUME StubInit PROVE AnswerInv
    OBVIOUS
  <2>1. loaded \in BOOLEAN /\ result \in [IpcThread -> BOOLEAN]
    BY Zenon DEF StubInit
  <2>2. workload \subseteq Handled \cup {"unknown"}
    BY WorkloadAssumption DEF StubInit
  <2>3. /\ code \in [IpcThread -> Handled \cup {"unknown"}]
        /\ answer \in [IpcThread -> {"none", "true", "false", "error", "denied"}]
        /\ effect \in [IpcThread -> {"none", "done", "delivered", "served"}]
    BY DEF StubInit
  <2>4. \A t \in IpcThread : pc[t] = "idle" /\ effect[t] = "none"
    BY DEF StubInit
  <2>5. QED
    BY <2>1, <2>2, <2>3, <2>4 DEF AnswerInv, AnswerIsTrue, Holding
<1>2. StubSpec => []TypeOK
  BY StubStatistics, PTL DEF StatInv
<1>3. QED
  BY <1>1, <1>2, NextAnswerInv, DescriptorInvariant, PTL DEF StubSpec

\* What a caller concludes from an answer is so, for any number of requests at
\* once: true to a statistics command is never given unless the command was
\* carried out and its result is in the caller's file, success to svc not unless
\* OnSvcCmd returned it with the caller's file in its hands, and nothing is done
\* for a caller that is denied.
THEOREM AnswersAreTrue == StubSpec => []AnswerIsTrue
  BY AnswerInvariant, PTL DEF AnswerInv

-----------------------------------------------------------------------------
(* svc.                                                                    *)

\* A line is taken for a request only if it has the form that HelpInfo prints.
LEMMA ParsedLines ==
  ASSUME NEW args \in Seq(STRING)
  PROVE  /\ Parse(args) \in Service => ServiceLine(args)
         /\ Parse(args) = "HELP_CMD" => args[2] = "help" /\ SetCmdArgs(args) = <<>>
<1> DEFINE bad == \E i \in 1..Len(args) : args[i] \in {"null", "", "long"}
           command == ParseCmd(args[2])
           parsed == IF command = "HELP_CMD" /\ Len(args) > ARG_MIN_COUNT THEN "ARGS_CNT_EXCEED"
                     ELSE IF command \in Service /\ Len(args) = ARG_MIN_COUNT THEN "ARGS_CNT_NOT_ENOUGH"
                     ELSE command
           good == Len(args) >= ARG_MIN_COUNT /\ ~(Len(args) > ARG_MAX_COUNT) /\ ~bad
<1>1. Len(args) \in Nat /\ ARG_MAX_COUNT \in Nat
  BY LineAssumption
<1>2. /\ command \in Service => args[2] = command
      /\ command = "HELP_CMD" => args[2] = "help"
  BY DEF ParseCmd, Service
<1>3. Parse(args) = CASE Len(args) < ARG_MIN_COUNT -> "ARGS_CNT_NOT_ENOUGH"
                      [] Len(args) > ARG_MAX_COUNT -> "ARGS_CNT_EXCEED"
                      [] bad -> "ARGS_INVALID"
                      [] OTHER -> parsed
  BY DEF Parse
<1>4. bad \/ ~bad
  OBVIOUS
<1> HIDE DEF bad, command
<1>5. ASSUME NEW n \in Nat, NEW m \in Nat, n >= 2, ~(n > m), n # 2 PROVE n \in 2 + 1..m
  BY <1>5
<1>6. ASSUME NEW n \in Nat, n >= 2, ~(n > 2) PROVE n = 2
  BY <1>6
<1>7. Parse(args) \in {"ARGS_CNT_NOT_ENOUGH", "ARGS_CNT_EXCEED", "ARGS_INVALID"} \/ (good /\ Parse(args) = parsed)
  BY <1>1, <1>3, <1>4 DEF ARG_MIN_COUNT
<1>8. ASSUME Parse(args) \in Service PROVE ServiceLine(args)
  <2>1. good /\ command \in Service /\ Len(args) # ARG_MIN_COUNT
    BY <1>7, <1>8 DEF Service
  <2>2. Len(args) \in ARG_MIN_COUNT + 1..ARG_MAX_COUNT
    <3>1. Len(args) >= 2 /\ ~(Len(args) > ARG_MAX_COUNT) /\ Len(args) # 2
      BY <2>1, Zenon DEF ARG_MIN_COUNT
    <3>2. QED
      BY <1>1, <1>5, <3>1, Zenon DEF ARG_MIN_COUNT
  <2>3. args[2] \in Service
    BY <1>2, <2>1
  <2>4. {"null", "", "long"} \cap {args[i] : i \in 1..Len(args)} = {}
    BY <2>1 DEF bad
  <2>5. QED
    BY <2>2, <2>3, <2>4 DEF ServiceLine
<1>9. ASSUME Parse(args) = "HELP_CMD" PROVE args[2] = "help" /\ SetCmdArgs(args) = <<>>
  <2>1. good /\ command = "HELP_CMD" /\ ~(Len(args) > ARG_MIN_COUNT)
    BY <1>7, <1>9
  <2>2. Len(args) = ARG_MIN_COUNT
    <3>1. Len(args) >= 2 /\ ~(Len(args) > 2)
      BY <2>1, Zenon DEF ARG_MIN_COUNT
    <3>2. QED
      BY <1>1, <1>6, <3>1, Zenon DEF ARG_MIN_COUNT
  <2>3. QED
    BY <1>2, <2>1, <2>2 DEF SetCmdArgs, ARG_MIN_COUNT
<1>10. QED
  BY <1>8, <1>9

\* svc makes no request but those that the workload has.
SvcIsClient ==
  /\ loaded \in BOOLEAN
  /\ svc # "absent" => "SERVICE_CONTROL_CMD" \in workload

\* Where svc is, what it has parsed, and which thread serves it.
SvcInv ==
  /\ SvcIsClient
  /\ argv \in Seq(STRING)
  /\ svc \in {"proxy", "again", "load", "call"} \/ svcAsked => Parse(argv) \in Service
  /\ svc = "help" => Parse(argv) = "HELP_CMD"
  /\ svc = "waiting" =>
       svcThread \in IpcThread /\ pc[svcThread] # "idle" /\ code[svcThread] = "SERVICE_CONTROL_CMD"
  /\ svc = "success" => svcServed = "served"

\* What a handler does to the thread that it runs in.
LEMMA HandlerChanges ==
  ASSUME NEW t \in IpcThread, Handler(t)
  PROVE  /\ UNCHANGED <<workload, code, loaded>>
         /\ \E to \in {"answered", "close", "perform", "save"} : pc' = [pc EXCEPT ![t] = to]
<1> USE DEF Goto
<1>1. ASSUME NEW c, NEW e, NEW A, Handles(t, c, e, A)
      PROVE  UNCHANGED <<workload, code, loaded>> /\ pc' = [pc EXCEPT ![t] = "answered"]
  BY <1>1 DEF Handles
<1>2. ASSUME NEW c, NEW R, FdCmdInner(t, c, R)
      PROVE  UNCHANGED <<workload, code, loaded>> /\ \E to \in {"answered", "close", "perform"} : pc' = [pc EXCEPT ![t] = to]
  BY <1>2 DEF FdCmdInner
<1>3. ASSUME NEW c, Invalid(t, c)
      PROVE  UNCHANGED <<workload, code, loaded>> /\ pc' = [pc EXCEPT ![t] = "close"]
  BY <1>3 DEF Invalid
<1>4. ASSUME NEW c, NEW r, NEW e, Performs(t, c, r, e)
      PROVE  UNCHANGED <<workload, code, loaded>> /\ pc' = [pc EXCEPT ![t] = "save"]
  BY <1>4 DEF Performs
<1>5. CASE \/ StartAbilityInner(t) \/ StopAbilityInner(t) \/ ActiveAbilityInner(t)
           \/ IdleAbilityInner(t) \/ SendStrategyToSAInner(t)
           \/ SystemAbilityExtProcInner(t) \/ FfrtDumperProcInner(t)
  BY <1>1, <1>5, Zenon
  DEF StartAbilityInner, StopAbilityInner, ActiveAbilityInner, IdleAbilityInner,
      SendStrategyToSAInner, SystemAbilityExtProcInner, FfrtDumperProcInner
<1>6. CASE IpcStatCmdProcInner(t) \/ FfrtStatCmdProcInner(t) \/ ServiceControlCmdInner(t)
  BY <1>2, <1>6, Zenon DEF IpcStatCmdProcInner, FfrtStatCmdProcInner, ServiceControlCmdInner
<1>7. CASE IpcStatCmdProc(t) \/ FfrtStatCmdProc(t)
  BY <1>3, <1>4, <1>7, Zenon DEF IpcStatCmdProc, FfrtStatCmdProc
<1>8. CASE ServiceControlCmd(t) \/ SaveStringToFd(t) \/ Close(t)
  BY <1>8, Zenon DEF ServiceControlCmd, SaveStringToFd, Close
<1>9. QED
  BY <1>5, <1>6, <1>7, <1>8 DEF Handler

\* A handler works on the request it was called for until it has answered.
LEMMA HandlerKeepsCode ==
  ASSUME NEW t \in IpcThread, Handler(t), pc \in [IpcThread -> StubLabel]
  PROVE  UNCHANGED <<workload, code, loaded>> /\ pc'[t] # "idle" /\ \A u \in IpcThread \ {t} : pc'[u] = pc[u]
  BY HandlerChanges

\* svc changes nothing but what a request or the loading of an SA changes.
LEMMA SvcSteps ==
  ASSUME SvcIsClient, [SvcNext]_allVars
  PROVE  [StubNext]_stubVars
<1>1. CASE SvcParse \/ SvcProxy \/ SvcCallFails
  BY <1>1, Zenon DEF SvcParse, SvcProxy, SvcCallFails
<1>2. CASE SvcLoad
  <2>1. CASE loaded
    <3>1. loaded' = loaded
      BY <1>2, <2>1 DEF SvcLoad, SvcIsClient
    <3>2. QED
      BY <1>2, <3>1, Zenon DEF SvcLoad, stubVars
  <2>2. CASE ~loaded
    <3>1. CASE UNCHANGED loaded
      BY <1>2, <3>1, Zenon DEF SvcLoad, stubVars
    <3>2. CASE loaded' = TRUE
      BY <1>2, <2>2, <3>2, Zenon DEF SvcLoad, AddAbility, StubNext, Environment
    <3>3. QED
      BY <1>2, <3>1, <3>2 DEF SvcLoad
  <2>3. QED
    BY <2>1, <2>2
<1>3. ASSUME NEW t \in IpcThread, SvcCall(t) PROVE StubNext
  BY <1>3 DEF SvcCall, SvcIsClient, StubNext
<1>4. ASSUME NEW t \in IpcThread, SvcAnswered(t) PROVE StubNext
  BY <1>4, Zenon DEF SvcAnswered, StubNext
<1>5. CASE /\ UNCHANGED svcVars
           /\ \/ Environment
              \/ \E t \in IpcThread :
                   \/ Handler(t)
                   \/ t # svcThread /\ Return(t)
                   \/ \E c \in workload : OnRemoteRequest(t, c)
  BY <1>5, Zenon DEF StubNext
<1>6. CASE UNCHANGED allVars
  BY <1>6, Zenon DEF allVars
<1>7. QED
  BY <1>1, <1>2, <1>3, <1>4, <1>5, <1>6, Zenon DEF SvcNext, Svc

\* svc remains such a client.
LEMMA NextSvcIsClient == SvcIsClient /\ [SvcNext]_allVars => SvcIsClient'
<1> SUFFICES ASSUME SvcIsClient, [SvcNext]_allVars PROVE SvcIsClient'
  OBVIOUS
<1>1. UNCHANGED workload /\ loaded' \in BOOLEAN
  <2>1. [StubNext]_stubVars
    BY SvcSteps
  <2>2. ASSUME NEW t \in IpcThread, Handler(t) PROVE UNCHANGED <<workload, loaded>>
    BY <2>2, HandlerChanges
  <2>3. QED
    BY <2>1, <2>2, Zenon
    DEF StubNext, Environment, AddAbility, SaOpen, SaClose, FfrtTask, Return, OnRemoteRequest,
        stubVars, localVars, SvcIsClient
<1>2. svc = "absent" => svc' = "absent"
  BY DEF SvcNext, Svc, SvcParse, SvcProxy, SvcLoad, SvcCall, SvcAnswered, SvcCallFails, allVars, svcVars
<1>3. QED
  BY <1>1, <1>2 DEF SvcIsClient

\* Every step keeps what svc knows, since only svc's own thread works on its call.
LEMMA NextSvcInv == FdInv /\ AnswerInv /\ SvcInv /\ [SvcNext]_allVars => SvcInv'
<1> SUFFICES ASSUME FdInv, AnswerInv, SvcInv, [SvcNext]_allVars PROVE SvcInv'
  OBVIOUS
<1> USE DEF SvcInv
<1>0. SvcIsClient'
  BY NextSvcIsClient
<1> USE <1>0
<1>1. CASE SvcParse
  BY <1>1 DEF SvcParse, stubVars, localVars, Service
<1>2. CASE SvcProxy
  BY <1>2 DEF SvcProxy, stubVars, localVars
<1>3. CASE SvcLoad
  BY <1>3 DEF SvcLoad, localVars
<1>4. ASSUME NEW t \in IpcThread, SvcCall(t) PROVE SvcInv'
  BY <1>4 DEF SvcCall, OnRemoteRequest, Goto, FdInv, FdTypes, AnswerInv, StubLabel
<1>5. ASSUME NEW t \in IpcThread, SvcAnswered(t) PROVE SvcInv'
  <2>1. answer[t] = "none" => effect[t] = "served"
    BY <1>5, Told DEF SvcAnswered, Return, AnswerInv, AnswerIsTrue, FdCode, Handled
  <2>2. QED
    BY <1>5, <2>1 DEF SvcAnswered, Return
<1>6. CASE SvcCallFails
  BY <1>6 DEF SvcCallFails, stubVars, localVars
<1>7. ASSUME UNCHANGED svcVars, Environment PROVE SvcInv'
  <2>1. UNCHANGED <<workload, pc, code>>
    BY <1>7, Zenon DEF Environment, AddAbility, SaOpen, SaClose, FfrtTask, localVars
  <2>2. QED
    BY <1>7, <2>1 DEF svcVars
<1>8. ASSUME UNCHANGED svcVars, NEW t \in IpcThread, Handler(t) PROVE SvcInv'
  <2>1. UNCHANGED <<workload, code, loaded>> /\ pc'[t] # "idle" /\ \A u \in IpcThread \ {t} : pc'[u] = pc[u]
    BY <1>8, HandlerKeepsCode DEF FdInv, FdTypes
  <2>2. QED
    BY <1>8, <2>1 DEF svcVars
<1>9. ASSUME UNCHANGED svcVars, NEW t \in IpcThread,
             (t # svcThread /\ Return(t)) \/ \E c \in workload : OnRemoteRequest(t, c)
      PROVE  SvcInv'
  <2>1. svc = "waiting" => t # svcThread
    BY <1>9 DEF OnRemoteRequest
  <2>2. UNCHANGED <<workload, loaded>> /\ \A u \in IpcThread \ {t} : pc'[u] = pc[u] /\ code'[u] = code[u]
    BY <1>9 DEF Return, OnRemoteRequest, Goto, FdInv, FdTypes, AnswerInv
  <2>3. QED
    BY <1>9, <2>1, <2>2 DEF svcVars
<1>10. CASE UNCHANGED allVars
  BY <1>10 DEF allVars, stubVars, localVars, svcVars
<1>11. QED
  BY <1>1, <1>2, <1>3, <1>4, <1>5, <1>6, <1>7, <1>8, <1>9, <1>10, Zenon DEF SvcNext, Svc

\* svc and the process that it calls implement the process alone, of which svc is
\* one client: all that is proved of the process holds with svc beside it.
THEOREM SvcImplementsStub == SvcSpec => StubSpec
<1>1. SvcInit => StubInit /\ SvcIsClient
  BY Zenon DEF SvcInit, StubInit, SvcIsClient
<1>2. QED
  BY <1>1, SvcSteps, NextSvcIsClient, PTL DEF SvcSpec, StubSpec

\* What svc prints is true, on every command line: it prints success only if
\* OnSvcCmd of the SA returned success with the file of svc behind its descriptor,
\* and a line that is no request for a service leads to no call.
THEOREM SvcPrintsTheTruth == SvcSpec => []SvcIsTrue
<1>1. SvcInit => SvcInv
  <2> SUFFICES ASSUME SvcInit PROVE SvcInv
    OBVIOUS
  <2>1. SvcIsClient
    BY Zenon DEF SvcInit, StubInit, SvcIsClient
  <2>2. argv \in Seq(STRING)
    <3>1. argv \in Lines \/ argv = <<>>
      BY Zenon DEF SvcInit
    <3>2. Lines \subseteq Seq(STRING) /\ <<>> \in Seq(STRING)
      BY LineAssumption
    <3>3. QED
      BY <3>1, <3>2, Zenon
  <2>3. svc \in {"start", "absent"} /\ svcAsked = FALSE
    BY DEF SvcInit
  <2>4. QED
    BY <2>1, <2>2, <2>3 DEF SvcInv
<1>2. SvcInv => SvcIsTrue
  BY ParsedLines, Zenon DEF SvcInv, SvcIsTrue
<1>3. QED
  BY <1>1, <1>2, NextSvcInv, SvcImplementsStub, DescriptorInvariant, AnswerInvariant, PTL DEF SvcSpec

-----------------------------------------------------------------------------
(* Induction over the natural numbers, for sets instead of formulas.       *)

\* A set of numbers that is not empty has a least member.
LEMMA LeastElement ==
  ASSUME NEW T, T \subseteq Nat, T # {}
  PROVE  \E n \in T : \A m \in T : n <= m
<1>1. PICK n \in T : \A m \in T : <<m, n>> \notin OpToRel(<, Nat)
  BY NatLessThanWellFounded, WFMin, Zenon
<1>2. \A m \in T : <<m, n>> \in Nat \X Nat
  OBVIOUS
<1>3. \A m \in T : ~(m < n)
  BY <1>1, <1>2 DEF OpToRel
<1>4. QED
  BY <1>3

\* A set with 0 and the successor of every member holds every number.
LEMMA InductiveSet ==
  ASSUME NEW T, 0 \in T, \A n \in Nat : n \in T => n + 1 \in T
  PROVE  Nat \subseteq T
<1>. SUFFICES ASSUME Nat \ T # {} PROVE FALSE
  OBVIOUS
<1>1. PICK n \in Nat \ T : \A m \in Nat \ T : n <= m
  BY LeastElement
<1>2. n - 1 \in Nat /\ n - 1 \in T
  BY <1>1
<1>3. QED
  BY <1>2

\* The states f of a loop before and after each of its m rounds.
Rounds(f, m, base, step) == f = [n \in 0..m |-> IF n = 0 THEN base ELSE step[n][f[n - 1]]]

\* A loop whose rounds take every state in D to one in D can be run.
LEMMA RoundsExist ==
  ASSUME NEW m \in Nat, NEW D, NEW base \in D, NEW step \in [Nat -> [D -> D]]
  PROVE  \E f \in [0..m -> D] : Rounds(f, m, base, step)
<1>. DEFINE T == {n \in Nat : \E f \in [0..n -> D] : Rounds(f, n, base, step)}
<1>1. 0 \in T
  <2>. DEFINE g == [i \in 0..0 |-> base]
  <2>1. g \in [0..0 -> D] /\ Rounds(g, 0, base, step)
    BY DEF Rounds
  <2>2. QED
    BY <2>1
<1>2. ASSUME NEW n \in Nat, n \in T PROVE n + 1 \in T
  <2>1. PICK f \in [0..n -> D] : Rounds(f, n, base, step)
    BY <1>2
  <2>. DEFINE g == [i \in 0..n + 1 |-> IF i <= n THEN f[i] ELSE step[n + 1][f[n]]]
  <2>2. g \in [0..n + 1 -> D]
    OBVIOUS
  <2>3. ASSUME NEW i \in 0..n + 1 PROVE g[i] = IF i = 0 THEN base ELSE step[i][g[i - 1]]
    <3>1. CASE i = n + 1
      BY <3>1
    <3>2. CASE i \in 0..n
      <4>1. f[i] = IF i = 0 THEN base ELSE step[i][f[i - 1]]
        BY <2>1, <3>2 DEF Rounds
      <4>2. i # 0 => g[i - 1] = f[i - 1]
        BY <3>2
      <4>3. QED
        BY <3>2, <4>1, <4>2
    <3>3. QED
      BY <3>1, <3>2
  <2>. HIDE DEF g
  <2>4. Rounds(g, n + 1, base, step)
    <3>1. DOMAIN g = 0..n + 1 /\ g = [i \in 0..n + 1 |-> g[i]]
      BY <2>2
    <3>2. QED
      BY <2>3, <3>1 DEF Rounds
  <2>5. QED
    BY <2>2, <2>4
<1>. HIDE DEF T
<1>3. Nat \subseteq T
  BY <1>1, <1>2, InductiveSet
<1>4. QED
  BY <1>3 DEF T

-----------------------------------------------------------------------------
(* The report on the statistics.                                           *)

\* The variables of the loop of FfrtStatisticsParser.
LoopState ==
  [sumTime : Nat, maxTime : Nat, minTime : Nat, count : Nat, taskInfo : Seq(Entry), ended : BOOLEAN]

\* The times of an entry.
LEMMA EntryTimes ==
  ASSUME NEW e \in Entry, e.taskName # "nil"
  PROVE  e.startTime \in ReportTimes /\ e.endTime \in ReportTimes
<1>1. e # Unused
  BY DEF Unused
<1>2. e \in [taskName : {"task"}, startTime : ReportTimes, endTime : ReportTimes]
  BY <1>1 DEF Entry
<1>3. QED
  BY <1>2

\* A time is a number below Word.
LEMMA TimesAreNumbers == \A t \in ReportTimes : t \in Nat /\ t <= Word - 1 /\ Word \in Nat
  BY TimeAssumption

\* The loop starts in one of its states.
LEMMA EmptyReportType == EmptyReport \in LoopState
<1>1. Word - 1 \in Nat /\ <<>> \in Seq(Entry)
  BY TimeAssumption
<1>2. QED
  BY <1>1 DEF EmptyReport, LoopState

\* A round keeps the variables' types.
LEMMA CountEntryType ==
  ASSUME NEW r \in LoopState, NEW e \in Entry
  PROVE  CountEntry(r, e) \in LoopState
<1>1. CASE r.ended \/ e.taskName = "nil"
  BY <1>1 DEF CountEntry, LoopState
<1>2. CASE ~(r.ended \/ e.taskName = "nil") /\ e.startTime > e.endTime
  BY <1>2 DEF CountEntry, LoopState
<1>3. CASE ~(r.ended \/ e.taskName = "nil") /\ ~(e.startTime > e.endTime)
  <2>. DEFINE d == e.endTime - e.startTime
  <2>1. d \in Nat
    <3>1. e.startTime \in Nat /\ e.endTime \in Nat
      BY <1>3, EntryTimes, TimesAreNumbers
    <3>2. QED
      BY <1>3, <3>1
  <2>. HIDE DEF d
  <2>2. /\ r.sumTime \in Nat /\ r.maxTime \in Nat /\ r.minTime \in Nat /\ r.count \in Nat
        /\ r.taskInfo \in Seq(Entry) /\ r.ended \in BOOLEAN
    BY DEF LoopState
  <2>3. (r.sumTime + d) % Word \in Nat
    BY <2>1, <2>2, TimeAssumption
  <2>4. Append(r.taskInfo, e) \in Seq(Entry)
    BY <2>2
  <2>5. CountEntry(r, e) =
          [r EXCEPT !.sumTime = (@ + d) % Word, !.maxTime = IF d > @ THEN d ELSE @,
                    !.minTime = IF d < @ THEN d ELSE @, !.count = @ + 1, !.taskInfo = Append(@, e)]
    BY <1>3 DEF CountEntry, d
  <2>6. (IF d > r.maxTime THEN d ELSE r.maxTime) \in Nat /\ (IF d < r.minTime THEN d ELSE r.minTime) \in Nat
    BY <2>1, <2>2
  <2>7. r.count + 1 \in Nat
    BY <2>2
  <2>8. QED
    BY <2>3, <2>4, <2>5, <2>6, <2>7, Zenon DEF LoopState
<1>4. QED
  BY <1>1, <1>2, <1>3

\* The equation of the loop.
Loop(f, buf) == f = [n \in 0..ReportSize |-> IF n = 0 THEN EmptyReport ELSE CountEntry(f[n - 1], buf[n])]

\* The loop can be run over any buffer.
LEMMA LoopRuns ==
  ASSUME NEW buf \in [1..ReportSize -> Entry]
  PROVE  \E f : Loop(f, buf)
<1>. DEFINE entry(n) == IF n \in 1..ReportSize THEN buf[n] ELSE Unused
            step == [n \in Nat |-> [r \in LoopState |-> CountEntry(r, entry(n))]]
<1>1. \A n \in Nat : entry(n) \in Entry
  BY DEF Entry
<1>. HIDE DEF entry
<1>2. step \in [Nat -> [LoopState -> LoopState]]
  BY <1>1, CountEntryType
<1>3. PICK f \in [0..ReportSize -> LoopState] : Rounds(f, ReportSize, EmptyReport, step)
  <2>. HIDE DEF step
  <2>1. QED
    BY <1>2, RoundsExist, EmptyReportType, TimeAssumption
<1>4. ASSUME NEW n \in 0..ReportSize PROVE f[n] = IF n = 0 THEN EmptyReport ELSE CountEntry(f[n - 1], buf[n])
  <2>1. f[n] = IF n = 0 THEN EmptyReport ELSE step[n][f[n - 1]]
    BY <1>3 DEF Rounds
  <2>2. n # 0 => n \in 1..ReportSize /\ n \in Nat /\ f[n - 1] \in LoopState
    BY TimeAssumption
  <2>3. n # 0 => entry(n) = buf[n]
    BY <2>2 DEF entry
  <2>4. n # 0 => step[n][f[n - 1]] = CountEntry(f[n - 1], buf[n])
    BY <2>2, <2>3
  <2>5. QED
    BY <2>1, <2>4
<1>5. f = [n \in 0..ReportSize |-> f[n]]
  OBVIOUS
<1>6. QED
  BY <1>4, <1>5 DEF Loop

\* The equation of the total.
Adding(g, buf) ==
  g = [n \in 0..ReportSize |->
         IF n = 0 THEN 0 ELSE g[n - 1] + (IF n \in Finished(buf) THEN Duration(buf, n) ELSE 0)]

\* The time a task took does not wrap around if it came to its end.
LEMMA FinishedTimes ==
  ASSUME NEW buf \in [1..ReportSize -> Entry], NEW i \in Finished(buf)
  PROVE  /\ i \in 1..ReportSize
         /\ buf[i].startTime \in ReportTimes /\ buf[i].endTime \in ReportTimes
         /\ Duration(buf, i) \in 0..Word - 1
<1>. i \in 1..ReportSize /\ i \in 1..i
  BY TimeAssumption DEF Finished
<1>1. buf[i].taskName # "nil" /\ buf[i].startTime <= buf[i].endTime
  BY DEF Finished
<1>2. buf[i].startTime \in ReportTimes /\ buf[i].endTime \in ReportTimes
  BY <1>1, EntryTimes
<1>3. buf[i].startTime \in Nat /\ buf[i].endTime \in Nat /\ buf[i].endTime <= Word - 1 /\ Word \in Nat
  BY <1>2, TimesAreNumbers
<1>4. Duration(buf, i) \in 0..Word - 1
  BY <1>1, <1>3 DEF Duration
<1>5. QED
  BY <1>2, <1>4

\* The times of any buffer can be added.
LEMMA AddingRuns ==
  ASSUME NEW buf \in [1..ReportSize -> Entry]
  PROVE  \E g : Adding(g, buf)
<1>. DEFINE time(n) == IF n \in Finished(buf) THEN Duration(buf, n) ELSE 0
            step == [n \in Nat |-> [t \in Nat |-> t + time(n)]]
<1>1. \A n \in Nat : time(n) \in Nat
  BY FinishedTimes, TimeAssumption
<1>. HIDE DEF time
<1>2. step \in [Nat -> [Nat -> Nat]]
  BY <1>1
<1>3. PICK g \in [0..ReportSize -> Nat] : Rounds(g, ReportSize, 0, step)
  <2>. HIDE DEF step
  <2>1. QED
    BY <1>2, RoundsExist, TimeAssumption
<1>4. ASSUME NEW n \in 0..ReportSize PROVE g[n] = IF n = 0 THEN 0 ELSE g[n - 1] + time(n)
  <2>1. g[n] = IF n = 0 THEN 0 ELSE step[n][g[n - 1]]
    BY <1>3 DEF Rounds
  <2>2. n # 0 => n \in Nat /\ g[n - 1] \in Nat
    BY TimeAssumption
  <2>3. QED
    BY <2>1, <2>2
<1>5. g = [n \in 0..ReportSize |-> g[n]]
  OBVIOUS
<1>6. g = [n \in 0..ReportSize |-> IF n = 0 THEN 0 ELSE g[n - 1] + time(n)]
  BY <1>4, <1>5
<1>7. Adding(g, buf)
  BY <1>6, Zenon DEF Adding, time
<1>8. QED
  BY <1>7

\* mx and mn are the longest and the shortest time of the tasks in D, or what the
\* loop starts from.
Extremes(buf, D, mx, mn) ==
  IF D = {} THEN mx = 0 /\ mn = Word - 1
  ELSE /\ {mx, mn} \subseteq {Duration(buf, i) : i \in D}
       /\ \A i \in D : mn <= Duration(buf, i) /\ Duration(buf, i) <= mx

Longer(d, mx) == IF d > mx THEN d ELSE mx
Shorter(d, mn) == IF d < mn THEN d ELSE mn

\* One more task.
LEMMA ExtremesGrow ==
  ASSUME NEW buf \in [1..ReportSize -> Entry], NEW D, D \subseteq Finished(buf), NEW k \in Finished(buf),
         NEW mx \in Nat, NEW mn \in Nat, Extremes(buf, D, mx, mn)
  PROVE  Extremes(buf, D \cup {k}, Longer(Duration(buf, k), mx), Shorter(Duration(buf, k), mn))
<1>. DEFINE dur(i) == Duration(buf, i)
            d == dur(k)
<1>1. \A i \in Finished(buf) : dur(i) \in Nat /\ dur(i) <= Word - 1 /\ Word \in Nat
  BY FinishedTimes, TimeAssumption
<1>. HIDE DEF dur
<1>2. CASE D = {}
  <2>1. mx = 0 /\ mn = Word - 1
    BY <1>2 DEF Extremes
  <2>2. Longer(d, mx) = d /\ Shorter(d, mn) = d
    BY <1>1, <2>1 DEF Longer, Shorter
  <2>3. QED
    BY <1>1, <1>2, <2>2 DEF Extremes, dur
<1>3. CASE D # {}
  <2>1. {mx, mn} \subseteq {dur(i) : i \in D} /\ \A i \in D : mn <= dur(i) /\ dur(i) <= mx
    BY <1>3 DEF Extremes, dur
  <2>2. {Longer(d, mx), Shorter(d, mn)} \subseteq {dur(i) : i \in D \cup {k}}
    BY <2>1 DEF Longer, Shorter
  <2>3. \A i \in D \cup {k} : Shorter(d, mn) <= dur(i) /\ dur(i) <= Longer(d, mx)
    BY <1>1, <2>1 DEF Longer, Shorter
  <2>4. QED
    BY <2>2, <2>3 DEF Extremes, dur
<1>4. QED
  BY <1>2, <1>3

\* One more task at the end of the list.
LEMMA ListGrows ==
  ASSUME NEW buf \in [1..ReportSize -> Entry], NEW n \in Nat, NEW D, D \subseteq 1..n, IsFiniteSet(D),
         NEW list \in Seq(Entry), ListsInOrder(list, buf, D), buf[n + 1] \in Entry
  PROVE  ListsInOrder(Append(list, buf[n + 1]), buf, D \cup {n + 1})
<1>. DEFINE L == Append(list, buf[n + 1])
            m == Len(list)
<1>1. m \in Nat /\ Len(L) = m + 1 /\ (\A i \in 1..m : L[i] = list[i]) /\ L[m + 1] = buf[n + 1]
  OBVIOUS
<1>2. PICK at \in [1..m -> D] : /\ \A i, j \in 1..m : i < j => at[i] < at[j]
                                /\ \A i \in 1..m : list[i] = buf[at[i]]
  BY DEF ListsInOrder
<1>3. m = Cardinality(D)
  BY DEF ListsInOrder
<1>. HIDE DEF m, L
<1>4. Cardinality(D \cup {n + 1}) = m + 1
  <2>1. n + 1 \notin D
    OBVIOUS
  <2>2. QED
    BY <1>3, <2>1, FS_AddElement
<1>. DEFINE to == [i \in 1..m + 1 |-> IF i = m + 1 THEN n + 1 ELSE at[i]]
<1>5. to \in [1..m + 1 -> D \cup {n + 1}]
  BY <1>1
<1>6. \A i, j \in 1..m + 1 : i < j => to[i] < to[j]
  <2>. SUFFICES ASSUME NEW i \in 1..m + 1, NEW j \in 1..m + 1, i < j PROVE to[i] < to[j]
    OBVIOUS
  <2>1. i \in 1..m /\ i # m + 1
    BY <1>1
  <2>. to[i] = at[i] /\ at[i] \in D
    BY <1>1, <2>1
  <2>2. CASE j = m + 1
    <3>1. to[j] = n + 1 /\ at[i] \in 1..n
      BY <1>1, <2>2
    <3>2. QED
      BY <3>1
  <2>3. CASE j \in 1..m
    BY <1>1, <1>2, <2>1, <2>3
  <2>4. QED
    BY <1>1, <2>2, <2>3
<1>7. \A i \in 1..m + 1 : L[i] = buf[to[i]]
  BY <1>1, <1>2
<1>. HIDE DEF to
<1>8. ListsInOrder(L, buf, D \cup {n + 1})
  BY <1>1, <1>4, <1>5, <1>6, <1>7 DEF ListsInOrder
<1>9. QED
  BY <1>8 DEF L

\* Products grow with their factors.
LEMMA Monotone ==
  ASSUME NEW a \in Nat, NEW b \in Nat, NEW c \in Nat, a <= b
  PROVE  c * a <= c * b /\ a * c <= b * c /\ c * a \in Nat /\ (c + 1) * a = c * a + a
  OBVIOUS

\* The sum stays between the number of tasks times the shortest and the longest.
LEMMA SumGrows ==
  ASSUME NEW c \in Nat, NEW t \in Nat, NEW d \in Nat, NEW mx \in Nat, NEW mn \in Nat,
         c * mn <= t, t <= c * mx
  PROVE  (c + 1) * Shorter(d, mn) <= t + d /\ t + d <= (c + 1) * Longer(d, mx)
<1>. DEFINE x == Longer(d, mx)
            y == Shorter(d, mn)
<1>1. x \in Nat /\ y \in Nat /\ mx <= x /\ d <= x /\ y <= mn /\ y <= d
  BY DEF Longer, Shorter
<1>. HIDE DEF x, y
<1>2. c * mx <= c * x /\ c * y <= c * mn
  BY <1>1, Monotone
<1>3. (c + 1) * x = c * x + x /\ (c + 1) * y = c * y + y
  BY <1>1, Monotone
<1>4. c * mx \in Nat /\ c * x \in Nat /\ c * y \in Nat /\ c * mn \in Nat
  BY <1>1, Monotone
<1>5. (c + 1) * y <= t + d /\ t + d <= (c + 1) * x
  BY <1>1, <1>2, <1>3, <1>4
<1>6. QED
  BY <1>5 DEF x, y

\* A sum between c times mn and c times mx has its mean between mn and mx.
LEMMA MeanBetween ==
  ASSUME NEW c \in Nat \ {0}, NEW t \in Nat, NEW mx \in Nat, NEW mn \in Nat, c * mn <= t, t <= c * mx
  PROVE  mn <= t \div c /\ t \div c <= mx
<1>. DEFINE q == t \div c
<1>1. q \in Nat /\ c * q <= t /\ t < c * q + c
  OBVIOUS
<1>. HIDE DEF q
<1>2. mn <= q
  <2>. SUFFICES ASSUME q + 1 <= mn PROVE FALSE
    BY <1>1
  <2>1. c * (q + 1) <= c * mn
    BY <1>1, Monotone
  <2>2. c * (q + 1) = c * q + c
    BY <1>1
  <2>3. QED
    BY <1>1, <2>1, <2>2
<1>3. q <= mx
  <2>. SUFFICES ASSUME mx + 1 <= q PROVE FALSE
    BY <1>1
  <2>1. c * (mx + 1) <= c * q
    BY <1>1, Monotone
  <2>2. c * (mx + 1) = c * mx + c
    OBVIOUS
  <2>3. QED
    BY <1>1, <2>1, <2>2
<1>4. QED
  BY <1>2, <1>3 DEF q

\* The entries of the first n that are to be counted.
Done(buf, n) == {i \in Finished(buf) : i <= n}

\* What the loop has in its variables after n rounds, and the total after n.
Recorded(buf, n, r, t) ==
  /\ r \in LoopState /\ t \in Nat
  /\ r.ended <=> \E j \in 1..n : buf[j].taskName = "nil"
  /\ r.sumTime = t
  /\ IsFiniteSet(Done(buf, n)) /\ r.count = Cardinality(Done(buf, n)) /\ r.count <= n
  /\ ListsInOrder(r.taskInfo, buf, Done(buf, n))
  /\ Extremes(buf, Done(buf, n), r.maxTime, r.minTime)
  /\ r.count * r.minTime <= t /\ t <= r.count * r.maxTime

\* Before the first round.
LEMMA RecordedAtFirst ==
  ASSUME NEW buf \in [1..ReportSize -> Entry]
  PROVE  Recorded(buf, 0, EmptyReport, 0)
<1>1. Done(buf, 0) = {}
  BY FinishedTimes, TimeAssumption DEF Done
<1>2. IsFiniteSet({}) /\ Cardinality({}) = 0
  BY FS_EmptySet
<1>3. /\ EmptyReport.sumTime = 0 /\ EmptyReport.count = 0 /\ EmptyReport.taskInfo = <<>>
      /\ EmptyReport.maxTime = 0 /\ EmptyReport.minTime = Word - 1 /\ EmptyReport.ended = FALSE
  BY DEF EmptyReport
<1>4. ListsInOrder(<<>>, buf, {})
  <2>. DEFINE at == [i \in 1..0 |-> 0]
  <2>1. at \in [1..Len(<<>>) -> {}]
    OBVIOUS
  <2>2. QED
    BY <1>2, <2>1 DEF ListsInOrder
<1>5. Extremes(buf, {}, 0, Word - 1)
  BY DEF Extremes
<1>6. 0 * (Word - 1) <= 0 /\ 0 <= 0 * 0 /\ 0 <= 0 /\ 0 \in Nat
  BY TimeAssumption
<1>7. ~\E j \in 1..0 : buf[j].taskName = "nil"
  OBVIOUS
<1>8. QED
  BY <1>1, <1>2, <1>3, <1>4, <1>5, <1>6, <1>7, EmptyReportType, Zenon DEF Recorded

\* A round over an entry that is not to be counted.
LEMMA RecordedUncounted ==
  ASSUME NEW buf \in [1..ReportSize -> Entry], NEW n \in Nat, n + 1 <= ReportSize, NEW r, NEW t,
         Recorded(buf, n, r, t), n + 1 \notin Finished(buf)
  PROVE  Recorded(buf, n + 1, CountEntry(r, buf[n + 1]), t)
<1>. DEFINE e == buf[n + 1]
            q == CountEntry(r, e)
<1>. n + 1 \in 1..ReportSize /\ ReportSize \in Nat
  BY TimeAssumption
<1>1. r \in LoopState /\ t \in Nat /\ e \in Entry
  BY DEF Recorded
<1>2. Done(buf, n + 1) = Done(buf, n)
  <2>1. \A i \in Finished(buf) : i <= n + 1 <=> i <= n
    BY FinishedTimes, TimeAssumption
  <2>2. QED
    BY <2>1 DEF Done
<1>3. r.ended <=> \E j \in 1..n : buf[j].taskName = "nil"
  BY DEF Recorded
<1>4. r.ended \/ e.taskName = "nil" \/ e.startTime > e.endTime
  <2>. SUFFICES ASSUME ~r.ended, e.taskName # "nil", ~(e.startTime > e.endTime) PROVE FALSE
    OBVIOUS
  <2>1. e.startTime \in Nat /\ e.endTime \in Nat
    BY <1>1, EntryTimes, TimesAreNumbers
  <2>2. \A j \in 1..n + 1 : j \in 1..n \/ j = n + 1
    OBVIOUS
  <2>3. \A j \in 1..n + 1 : buf[j].taskName # "nil"
    BY <1>3, <2>2
  <2>4. e.startTime <= e.endTime
    BY <2>1
  <2>5. QED
    BY <2>3, <2>4 DEF Finished
<1>5. q = IF r.ended \/ e.taskName = "nil" THEN [r EXCEPT !.ended = TRUE] ELSE r
  BY <1>4 DEF CountEntry
<1>6. /\ q.sumTime = r.sumTime /\ q.count = r.count /\ q.taskInfo = r.taskInfo
      /\ q.maxTime = r.maxTime /\ q.minTime = r.minTime
      /\ q.ended <=> r.ended \/ e.taskName = "nil"
  BY <1>1, <1>5 DEF LoopState
<1>7. q \in LoopState
  BY <1>1, CountEntryType
<1>8. q.ended <=> \E j \in 1..n + 1 : buf[j].taskName = "nil"
  <2>1. \A j : j \in 1..n + 1 <=> j \in 1..n \/ j = n + 1
    OBVIOUS
  <2>2. QED
    BY <1>3, <1>6, <2>1
<1>9. r.count \in Nat
  BY <1>1 DEF LoopState
<1>. HIDE DEF q
<1>10. Recorded(buf, n + 1, q, t)
  BY <1>1, <1>2, <1>6, <1>7, <1>8, <1>9 DEF Recorded
<1>11. QED
  BY <1>10 DEF q

\* A round over one that is: nothing overflows.
LEMMA RecordedCounted ==
  ASSUME NEW buf \in [1..ReportSize -> Entry], NEW n \in Nat, n + 1 <= ReportSize, NEW r, NEW t,
         Recorded(buf, n, r, t), n + 1 \in Finished(buf)
  PROVE  Recorded(buf, n + 1, CountEntry(r, buf[n + 1]), t + Duration(buf, n + 1))
<1>. DEFINE e == buf[n + 1]
            q == CountEntry(r, e)
            d == Duration(buf, n + 1)
            D == Done(buf, n)
            mx == Longer(d, r.maxTime)
            mn == Shorter(d, r.minTime)
<1>. n + 1 \in 1..ReportSize /\ ReportSize \in Nat
  BY TimeAssumption
<1>1. r \in LoopState /\ t \in Nat /\ e \in Entry
  BY DEF Recorded
<1>2. Done(buf, n + 1) = D \cup {n + 1} /\ D \subseteq 1..n /\ D \subseteq Finished(buf) /\ n + 1 \notin D
  <2>1. \A i \in Finished(buf) : i \in Nat /\ i >= 1
    BY FinishedTimes, TimeAssumption
  <2>2. QED
    BY <2>1 DEF Done
<1>3. d \in Nat
  BY FinishedTimes, TimeAssumption
<1>4. /\ r.sumTime \in Nat /\ r.maxTime \in Nat /\ r.minTime \in Nat /\ r.count \in Nat
      /\ r.taskInfo \in Seq(Entry) /\ r.ended \in BOOLEAN
  BY <1>1 DEF LoopState
<1>5. (\A j \in 1..n + 1 : buf[j].taskName # "nil") /\ e.startTime <= e.endTime
  BY DEF Finished
<1>6. ~r.ended /\ e.taskName # "nil" /\ ~(e.startTime > e.endTime)
  <2>1. n + 1 \in 1..n + 1 /\ \A j \in 1..n : j \in 1..n + 1
    OBVIOUS
  <2>2. e.startTime \in Nat /\ e.endTime \in Nat
    BY <1>1, <1>5, <2>1, EntryTimes, TimesAreNumbers
  <2>3. QED
    BY <1>5, <2>1, <2>2 DEF Recorded
<1>. HIDE DEF D
<1>7. q = [r EXCEPT !.sumTime = (@ + d) % Word, !.maxTime = IF d > @ THEN d ELSE @,
                    !.minTime = IF d < @ THEN d ELSE @, !.count = @ + 1, !.taskInfo = Append(@, e)]
  BY <1>6 DEF CountEntry, Duration
<1>. HIDE DEF d
<1>8. /\ q.sumTime = (r.sumTime + d) % Word /\ q.maxTime = mx /\ q.minTime = mn
      /\ q.count = r.count + 1 /\ q.taskInfo = Append(r.taskInfo, e) /\ q.ended = r.ended
  BY <1>1, <1>7 DEF LoopState, Longer, Shorter
<1>9. q \in LoopState
  BY <1>1, CountEntryType
<1>. HIDE DEF q
<1>10. IsFiniteSet(D \cup {n + 1}) /\ q.count = Cardinality(D \cup {n + 1}) /\ q.count <= n + 1
  <2>1. IsFiniteSet(D) /\ r.count = Cardinality(D) /\ r.count <= n
    BY DEF Recorded, D
  <2>2. IsFiniteSet(D \cup {n + 1}) /\ Cardinality(D \cup {n + 1}) = Cardinality(D) + 1
    BY <1>2, <2>1, FS_AddElement
  <2>3. QED
    BY <1>4, <1>8, <2>1, <2>2
<1>11. ListsInOrder(q.taskInfo, buf, D \cup {n + 1})
  <2>1. ListsInOrder(r.taskInfo, buf, D) /\ IsFiniteSet(D)
    BY DEF Recorded, D
  <2>2. ListsInOrder(Append(r.taskInfo, buf[n + 1]), buf, D \cup {n + 1})
    BY <1>1, <1>2, <1>4, <2>1, ListGrows, Zenon
  <2>3. QED
    BY <1>8, <2>2
<1>12. Extremes(buf, D \cup {n + 1}, mx, mn)
  <2>1. Extremes(buf, D, r.maxTime, r.minTime)
    BY DEF Recorded, D
  <2>2. QED
    BY <1>2, <1>4, <2>1, ExtremesGrow DEF d
<1>13. (r.count + 1) * mn <= t + d /\ t + d <= (r.count + 1) * mx
  <2>1. r.count * r.minTime <= t /\ t <= r.count * r.maxTime
    BY DEF Recorded
  <2>2. QED
    BY <1>1, <1>3, <1>4, <2>1, SumGrows
<1>14. mx \in Nat
  BY <1>3, <1>4 DEF Longer
<1>. HIDE DEF mx, mn
<1>15. q.sumTime = t + d
  <2>1. PICK i \in Finished(buf) : mx = Duration(buf, i)
    BY <1>2, <1>12 DEF Extremes
  <2>2. buf[i].startTime \in ReportTimes /\ buf[i].endTime \in ReportTimes
    BY FinishedTimes
  <2>3. ReportSize * mx < Word
    BY <2>1, <2>2, LengthAssumption DEF Duration
  <2>4. q.count <= ReportSize /\ q.count \in Nat /\ q.count = r.count + 1
    BY <1>4, <1>8, <1>10
  <2>5. q.count * mx <= ReportSize * mx /\ q.count * mx \in Nat /\ ReportSize * mx \in Nat
    BY <1>14, <2>4, Monotone
  <2>6. t + d < Word /\ t + d \in Nat
    BY <1>1, <1>3, <1>13, <2>3, <2>4, <2>5, TimeAssumption
  <2>7. (t + d) % Word = t + d
    BY <2>6, TimeAssumption
  <2>8. QED
    BY <1>8, <2>7 DEF Recorded
<1>16. q.ended <=> \E j \in 1..n + 1 : buf[j].taskName = "nil"
  BY <1>5, <1>6, <1>8
<1>17. t + d \in Nat
  BY <1>1, <1>3
<1>18. Recorded(buf, n + 1, q, t + d)
  BY <1>2, <1>8, <1>9, <1>10, <1>11, <1>12, <1>13, <1>15, <1>16, <1>17, Zenon DEF Recorded
<1>19. QED
  BY <1>18 DEF q, d

\* After all rounds.
LEMMA RecordedAtLast ==
  ASSUME NEW buf \in [1..ReportSize -> Entry], NEW f, Loop(f, buf), NEW g, Adding(g, buf)
  PROVE  Recorded(buf, ReportSize, f[ReportSize], g[ReportSize])
<1>. DEFINE T == {n \in Nat : n <= ReportSize => Recorded(buf, n, f[n], g[n])}
<1>1. 0 \in T
  <2>1. f[0] = EmptyReport /\ g[0] = 0
    BY TimeAssumption DEF Loop, Adding
  <2>2. QED
    BY <2>1, RecordedAtFirst
<1>2. ASSUME NEW n \in Nat, n \in T PROVE n + 1 \in T
  <2>. SUFFICES ASSUME n + 1 <= ReportSize PROVE Recorded(buf, n + 1, f[n + 1], g[n + 1])
    OBVIOUS
  <2>1. Recorded(buf, n, f[n], g[n])
    BY <1>2, TimeAssumption
  <2>2. n + 1 \in 0..ReportSize /\ n + 1 # 0 /\ (n + 1) - 1 = n
    BY TimeAssumption
  <2>3. f[n + 1] = CountEntry(f[n], buf[n + 1])
    BY <2>2 DEF Loop
  <2>4. g[n + 1] = g[n] + (IF n + 1 \in Finished(buf) THEN Duration(buf, n + 1) ELSE 0)
    BY <2>2 DEF Adding
  <2>5. CASE n + 1 \in Finished(buf)
    <3>1. g[n + 1] = g[n] + Duration(buf, n + 1)
      BY <2>4, <2>5
    <3>2. QED
      BY <2>1, <2>3, <2>5, <3>1, RecordedCounted
  <2>6. CASE n + 1 \notin Finished(buf)
    <3>1. g[n] \in Nat
      BY <2>1 DEF Recorded
    <3>2. g[n + 1] = g[n]
      BY <2>4, <2>6, <3>1
    <3>3. QED
      BY <2>1, <2>3, <2>6, <3>2, RecordedUncounted
  <2>7. QED
    BY <2>5, <2>6
<1>. HIDE DEF T
<1>3. ReportSize \in T
  BY <1>1, <1>2, InductiveSet, TimeAssumption
<1>4. QED
  BY <1>3, TimeAssumption DEF T

\* What FfrtStatisticsParser reports on any buffer is right.
LEMMA ReportOnAnyBuffer ==
  ASSUME NEW buf \in [1..ReportSize -> Entry]
  PROVE  ReportsOn(buf)
<1>. DEFINE f == CHOOSE f : Loop(f, buf)
            g == CHOOSE g : Adding(g, buf)
            r == f[ReportSize]
            report == FfrtStatisticsParser(buf)
            done == Finished(buf)
<1>1. Loop(f, buf) /\ Adding(g, buf)
  BY LoopRuns, AddingRuns
<1>2. report = [sumTime |-> r.sumTime, maxTime |-> r.maxTime, cntTime |-> r.count, tasks |-> r.taskInfo,
                minTime |-> IF r.count = 0 THEN 0 ELSE r.minTime,
                avgTime |-> IF r.count = 0 THEN 0 ELSE r.sumTime \div r.count]
  BY DEF FfrtStatisticsParser, Loop
<1>3. TotalTime(buf) = g[ReportSize]
  BY DEF TotalTime, Adding
<1>. HIDE DEF f, g
<1>4. Recorded(buf, ReportSize, r, TotalTime(buf))
  BY <1>1, <1>3, RecordedAtLast
<1>5. Done(buf, ReportSize) = done
  BY FinishedTimes, TimeAssumption DEF Done
<1>. HIDE DEF r, report, done
<1>6. /\ r \in LoopState /\ TotalTime(buf) \in Nat /\ r.sumTime = TotalTime(buf)
      /\ IsFiniteSet(done) /\ r.count = Cardinality(done)
      /\ ListsInOrder(r.taskInfo, buf, done) /\ Extremes(buf, done, r.maxTime, r.minTime)
      /\ r.count * r.minTime <= TotalTime(buf) /\ TotalTime(buf) <= r.count * r.maxTime
  BY <1>4, <1>5 DEF Recorded
<1>7. r.count \in Nat /\ r.maxTime \in Nat /\ r.minTime \in Nat
  BY <1>6 DEF LoopState
<1>8. done = {} <=> r.count = 0
  BY <1>6, FS_EmptySet
<1>9. /\ report.cntTime = Cardinality(done) /\ report.tasks = r.taskInfo
      /\ report.sumTime = TotalTime(buf) /\ report.maxTime = r.maxTime
      /\ report.minTime = IF r.count = 0 THEN 0 ELSE r.minTime
      /\ report.avgTime = IF r.count = 0 THEN 0 ELSE r.sumTime \div r.count
  BY <1>2, <1>6
<1>10. ASSUME done = {} PROVE {report.maxTime, report.minTime, report.avgTime} = {0}
  <2>1. r.maxTime = 0
    BY <1>6, <1>10 DEF Extremes
  <2>2. QED
    BY <1>8, <1>9, <1>10, <2>1
<1>11. ASSUME done # {}
       PROVE  /\ {report.maxTime, report.minTime} \subseteq {Duration(buf, i) : i \in done}
              /\ \A d \in {Duration(buf, i) : i \in done} \cup {report.avgTime} :
                   report.minTime <= d /\ d <= report.maxTime
              /\ report.avgTime = TotalTime(buf) \div Cardinality(done)
  <2>1. report.minTime = r.minTime /\ report.avgTime = TotalTime(buf) \div r.count /\ r.count \in Nat \ {0}
    BY <1>6, <1>7, <1>8, <1>9, <1>11
  <2>2. /\ {r.maxTime, r.minTime} \subseteq {Duration(buf, i) : i \in done}
        /\ \A i \in done : r.minTime <= Duration(buf, i) /\ Duration(buf, i) <= r.maxTime
    BY <1>6, <1>11 DEF Extremes
  <2>3. r.minTime <= report.avgTime /\ report.avgTime <= r.maxTime
    BY <1>6, <1>7, <2>1, MeanBetween
  <2>4. report.avgTime = TotalTime(buf) \div Cardinality(done)
    BY <1>6, <2>1
  <2>5. QED
    BY <1>9, <2>1, <2>2, <2>3, <2>4
<1>12. ListsInOrder(report.tasks, buf, done)
  BY <1>6, <1>9
<1>13. QED
  BY <1>9, <1>10, <1>11, <1>12 DEF ReportsOn, report, done

\* Whenever a GET is served, its report is right, for a buffer of any size and
\* whatever FFRT has left in it.
THEOREM ReportsAreRight == StubSpec => []ReportIsRight
<1>1. ReportIsRight
  BY ReportOnAnyBuffer DEF ReportIsRight
<1>2. QED
  BY <1>1, PTL
=============================================================================
