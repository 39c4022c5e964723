---------------------------- MODULE FfrtStatistics ----------------------------
(***************************************************************************)
(* The collection of FFRT task statistics on command: START, STOP and GET  *)
(* of services/safwk/src/local_ability_manager_dumper.cpp, and the task,   *)
(* posted with a delay to an FFRTHandler, that ends a collection nobody    *)
(* asks for.  Commands and the task hold ffrtMetricLock from beginning to  *)
(* end, so each is one step; a task that has begun and waits for the lock  *)
(* can no longer be cancelled.  A collection, its buffer and its task have *)
(* the same number, 0 stands for none.                                     *)
(***************************************************************************)
EXTENDS Naturals

CONSTANTS
  MaxStarts,   \* bound on the number of collections
  Faults       \* TRUE: FFRT may refuse to start or stop, or to take the task

ASSUME BoundAssumption == MaxStarts \in Nat
ASSUME FaultAssumption == Faults \in BOOLEAN

Collection == 1..MaxStarts

VARIABLES
  collectEnable,   \* collectEnable
  buffer,          \* ffrtMetricBuffer
  hasHandler,      \* handler_ is set
  taskMap,         \* the task that taskMap_ of the handler holds
  task,            \* what has become of each task
  writing,         \* FFRT: the buffer it writes statistics to
  starts,          \* collections begun so far
  refused,         \* history: FFRT refused to stop the last collection
  unposted         \* history: the task of the last collection was not posted

vars == <<collectEnable, buffer, hasHandler, taskMap, task, writing, starts, refused, unposted>>

Init ==
  /\ collectEnable = FALSE
  /\ buffer = 0
  /\ hasHandler = FALSE
  /\ taskMap = 0
  /\ task = [n \in Collection |-> "none"]
  /\ writing = 0
  /\ starts = 0
  /\ refused = FALSE
  /\ unposted = FALSE

\* FFRTHandler::RemoveTask, on the tasks ts: a task that has begun goes on.
RemoveTask(ts) ==
  [n \in Collection |->
     IF hasHandler /\ n = taskMap /\ ts[n] = "pending" THEN "cancelled" ELSE ts[n]]

ClearFfrtStatisticsBufferLocked ==
  /\ buffer' = 0
  /\ taskMap' = 0
  /\ task' = RemoveTask(task)

\* ffrt_dump(DUMP_STOP_STAT)
StopDump ==
  \/ writing' = 0 /\ refused' = FALSE
  \/ Faults /\ refused' = TRUE /\ UNCHANGED writing

-----------------------------------------------------------------------------
\* Mutant: the task is posted before what is left is cleared.
StartPostsFirst ==
  /\ ~collectEnable
  /\ starts < MaxStarts
  /\ starts' = starts + 1
  /\ collectEnable' = TRUE
  /\ buffer' = starts'
  /\ writing' = starts'
  /\ hasHandler' = TRUE
  /\ taskMap' = 0
  /\ task' = [RemoveTask(task) EXCEPT ![starts'] = "cancelled"]
  /\ refused' = FALSE
  /\ unposted' = FALSE

\* What is left of an earlier collection is cleared, its task included.
StartFfrtStatistics ==
  LET n == starts + 1
      cleared == RemoveTask(task)
  IN /\ ~collectEnable
     /\ starts < MaxStarts
     /\ starts' = n
     /\ \/ /\ collectEnable' = TRUE
           /\ buffer' = n
           /\ writing' = n
           /\ hasHandler' = TRUE
           /\ refused' = FALSE
           /\ \/ /\ taskMap' = n
                 /\ task' = [cleared EXCEPT ![n] = "pending"]
                 /\ unposted' = FALSE
              \/ Faults /\ taskMap' = 0 /\ task' = cleared /\ unposted' = TRUE
        \/ /\ Faults
           /\ ClearFfrtStatisticsBufferLocked
           /\ UNCHANGED <<collectEnable, hasHandler, writing, refused, unposted>>

\* Mutant: the buffer is kept when FFRT refuses to stop.
StopKeepsBuffer ==
  /\ collectEnable
  /\ collectEnable' = FALSE
  /\ StopDump
  /\ UNCHANGED <<buffer, taskMap, task, hasHandler, starts, unposted>>

StopFfrtStatistics ==
  /\ collectEnable
  /\ collectEnable' = FALSE
  /\ StopDump
  /\ \/ ~refused' /\ UNCHANGED <<buffer, taskMap, task>>
     \/ refused' /\ ClearFfrtStatisticsBufferLocked
  /\ UNCHANGED <<hasHandler, starts, unposted>>

\* Mutant: the buffer is freed and the task left to run.
GetKeepsTask ==
  /\ ~collectEnable
  /\ buffer # 0
  /\ buffer' = 0
  /\ UNCHANGED <<collectEnable, hasHandler, taskMap, task, writing, starts, refused, unposted>>

\* Mutant: the statistics stay, for the task to free.
GetKeepsBuffer ==
  /\ ~collectEnable
  /\ buffer # 0
  /\ UNCHANGED vars

\* The statistics are handed out, once.
GetFfrtStatistics ==
  /\ ~collectEnable
  /\ buffer # 0
  /\ ClearFfrtStatisticsBufferLocked
  /\ hasHandler' = FALSE
  /\ UNCHANGED <<collectEnable, writing, starts, refused, unposted>>

\* The delay of a task is over: it runs, and waits for ffrtMetricLock.
RunTask(n) ==
  /\ task[n] = "pending"
  /\ task' = [task EXCEPT ![n] = "running"]
  /\ UNCHANGED <<collectEnable, buffer, hasHandler, taskMap, writing, starts, refused, unposted>>

\* Mutant: FFRT is not told to stop.
ClearWithoutStop(n) ==
  /\ task[n] = "running"
  /\ collectEnable' = FALSE
  /\ buffer' = 0
  /\ taskMap' = 0
  /\ task' = RemoveTask([task EXCEPT ![n] = "done"])
  /\ UNCHANGED <<hasHandler, writing, starts, refused, unposted>>

\* Mutant: a collection still under way is given another period.
ClearReposts(n) ==
  /\ task[n] = "running"
  /\ \/ /\ collectEnable /\ buffer = n
        /\ task' = [task EXCEPT ![n] = "pending"]
        /\ UNCHANGED <<collectEnable, buffer, taskMap, writing, refused>>
     \/ /\ ~(collectEnable /\ buffer = n)
        /\ \/ collectEnable /\ StopDump
           \/ ~collectEnable /\ UNCHANGED <<writing, refused>>
        /\ collectEnable' = FALSE
        /\ buffer' = 0
        /\ taskMap' = 0
        /\ task' = RemoveTask([task EXCEPT ![n] = "done"])
  /\ UNCHANGED <<hasHandler, starts, unposted>>

\* The task clears the collection it finds, its own or a later one.
ClearFfrtStatistics(n) ==
  /\ task[n] = "running"
  /\ \/ collectEnable /\ StopDump
     \/ ~collectEnable /\ UNCHANGED <<writing, refused>>
  /\ collectEnable' = FALSE
  /\ buffer' = 0
  /\ taskMap' = 0
  /\ task' = RemoveTask([task EXCEPT ![n] = "done"])
  /\ UNCHANGED <<hasHandler, starts, unposted>>

Command == StartFfrtStatistics \/ StopFfrtStatistics \/ GetFfrtStatistics
Task(n) == RunTask(n) \/ ClearFfrtStatistics(n)

Next == Command \/ \E n \in Collection : Task(n)

Spec == Init /\ [][Next]_vars

\* FFRT runs the tasks that are not cancelled.  Nobody has to give a command.
FairSpec == Spec /\ \A n \in Collection : WF_vars(Task(n))

-----------------------------------------------------------------------------
(* Properties                                                              *)

\* Type invariant: what the members of the code, samgr and the threads may hold.
TypeOK ==
  /\ collectEnable \in BOOLEAN
  /\ buffer \in 0..MaxStarts
  /\ hasHandler \in BOOLEAN
  /\ taskMap \in 0..MaxStarts
  /\ task \in [Collection -> {"none", "pending", "running", "done", "cancelled"}]
  /\ writing \in 0..MaxStarts
  /\ starts \in 0..MaxStarts
  /\ refused \in BOOLEAN
  /\ unposted \in BOOLEAN

\* FFRT writes to the buffer it was given at START until it is told to stop.
\* However commands and delayed tasks follow each other, the buffer is not
\* freed or replaced before that, unless FFRT refused to stop.
BufferOutlivesWrites ==
  /\ writing # 0 => buffer = writing \/ refused
  /\ collectEnable => writing # 0 /\ buffer = writing

\* GET parses a buffer that FFRT no longer writes to, whatever FFRT refused and
\* whichever collection the delayed task cleared.
StatisticsAreStill == ~collectEnable /\ buffer # 0 => writing = 0

\* A task that has not begun is the one the handler knows, and belongs to the
\* buffer that is there: GET, a new START and a STOP that FFRT refuses cancel it
\* in time, so that it cannot clear a later collection.  (A task that has begun
\* can; after a STOP that succeeds it stays, to free the buffer nobody gets.)
PendingIsCurrent ==
  \A n \in Collection : task[n] = "pending" => hasHandler /\ taskMap = n /\ buffer = n

\* A buffer, in use or full, always has a task that will free it, unless the
\* task could not be posted: cancelling and clearing never leave one behind.
BufferIsTimed ==
  buffer # 0 => unposted \/ \E n \in Collection : task[n] \in {"pending", "running"}

\* A collection ends, also when nobody sends STOP, if its task was posted.
CollectionEnds == (collectEnable /\ ~unposted) ~> ~collectEnable
=============================================================================
