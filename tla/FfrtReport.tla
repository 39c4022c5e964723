------------------------------ MODULE FfrtReport ------------------------------
(***************************************************************************)
(* The report that GET makes of the statistics FFRT has left in the        *)
(* buffer: FfrtStatisticsParser of services/safwk/src/                     *)
(* local_ability_manager_dumper.cpp.  The buffer is the sequence of its    *)
(* entries; FFRT fills them from the first on, and an entry without a name *)
(* is unused.  A task still running has an end before its start.           *)
(***************************************************************************)
EXTENDS LocalAbilityManagerStub, Integers, Sequences, FiniteSets

CONSTANTS
  ReportTimes,   \* points in time
  ReportSize,    \* entries of the buffer
  Word           \* the number of values of the unsigned type of the times

ASSUME TimeAssumption == ReportTimes \subseteq 0..Word - 1 /\ ReportSize \in Nat /\ Word \in Nat \ {0}

\* As many tasks as the buffer holds, each as long as any can be, do not add up to
\* a Word: it takes 5000 tasks of a century each, counted in microseconds.
ASSUME LengthAssumption == \A s, e \in ReportTimes : ReportSize * (e - s) < Word

\* The name of an unused entry, the empty string, is "nil" here.
Unused == [taskName |-> "nil", startTime |-> 0, endTime |-> 0]
Entry == {Unused} \cup [taskName : {"task"}, startTime : ReportTimes, endTime : ReportTimes]

\* The variables of the loop before its first round.
EmptyReport ==
  [sumTime |-> 0, maxTime |-> 0, minTime |-> Word - 1, count |-> 0, taskInfo |-> <<>>, ended |-> FALSE]

\* Mutant: the times of a task still running are taken as they are.
CountEveryEntry(r, e) ==
  IF r.ended \/ e.taskName = "nil" THEN [r EXCEPT !.ended = TRUE]
  ELSE LET duration == (e.endTime - e.startTime) % Word
       IN [r EXCEPT !.sumTime = (@ + duration) % Word,
                    !.maxTime = IF duration > @ THEN duration ELSE @,
                    !.minTime = IF duration < @ THEN duration ELSE @,
                    !.count = @ + 1,
                    !.taskInfo = Append(@, e)]

\* A round of the loop: the first unused entry ends it, a task still running is
\* passed over.
CountEntry(r, e) ==
  IF r.ended \/ e.taskName = "nil" THEN [r EXCEPT !.ended = TRUE]
  ELSE IF e.startTime > e.endTime THEN r
  ELSE LET duration == e.endTime - e.startTime
       IN [r EXCEPT !.sumTime = (@ + duration) % Word,
                    !.maxTime = IF duration > @ THEN duration ELSE @,
                    !.minTime = IF duration < @ THEN duration ELSE @,
                    !.count = @ + 1,
                    !.taskInfo = Append(@, e)]

\* The numbers that head the report, and the tasks it lists.
FfrtStatisticsParser(buf) ==
  LET round[n \in 0..ReportSize] == IF n = 0 THEN EmptyReport ELSE CountEntry(round[n - 1], buf[n])
      r == round[ReportSize]
  IN [sumTime |-> r.sumTime, maxTime |-> r.maxTime, cntTime |-> r.count, tasks |-> r.taskInfo,
      minTime |-> IF r.count = 0 THEN 0 ELSE r.minTime,
      avgTime |-> IF r.count = 0 THEN 0 ELSE r.sumTime \div r.count]

-----------------------------------------------------------------------------
(* What the report is to say                                               *)

\* The entries of the tasks that came to their end.
Finished(buf) ==
  {i \in 1..ReportSize : /\ \A j \in 1..i : buf[j].taskName # "nil"
                         /\ buf[i].startTime <= buf[i].endTime}

Duration(buf, i) == buf[i].endTime - buf[i].startTime

\* What they took together, as a number of any size.
TotalTime(buf) ==
  LET total[n \in 0..ReportSize] ==
        IF n = 0 THEN 0 ELSE total[n - 1] + (IF n \in Finished(buf) THEN Duration(buf, n) ELSE 0)
  IN total[ReportSize]

\* The list is that of the entries in done, in the order of the buffer.
ListsInOrder(tasks, buf, done) ==
  /\ Len(tasks) = Cardinality(done)
  /\ \E at \in [1..Len(tasks) -> done] :
       /\ \A i, j \in 1..Len(tasks) : i < j => at[i] < at[j]
       /\ \A i \in 1..Len(tasks) : tasks[i] = buf[at[i]]

\* A thread is about to carry out a GET, and will not be refused.
GetIsServed ==
  \E t \in IpcThread : pc[t] = "perform" /\ code[t] = "FFRT_STAT_CMD" /\ cmd[t] = "GET" /\ ~Refused("GET")

\* The report on a buffer lists the tasks that came to their end and no others,
\* in their order; its numbers are the longest and the shortest time of these, their
\* sum, which has not wrapped around, and their mean, the sum over their number.
ReportsOn(buf) ==
  LET report == FfrtStatisticsParser(buf)
      done == Finished(buf)
      durations == {Duration(buf, i) : i \in done}
  IN /\ report.cntTime = Cardinality(done)
     /\ ListsInOrder(report.tasks, buf, done)
     /\ report.sumTime = TotalTime(buf)
     /\ IF done = {} THEN {report.maxTime, report.minTime, report.avgTime} = {0}
        ELSE /\ {report.maxTime, report.minTime} \subseteq durations
             /\ \A d \in durations \cup {report.avgTime} : report.minTime <= d /\ d <= report.maxTime
             /\ report.avgTime = TotalTime(buf) \div Cardinality(done)

\* Whenever a GET is served, whatever FFRT has left in the buffer and whether or
\* not it is full, the report is right; no time of a task that still ran, whose
\* difference would wrap around, is in its numbers.
ReportIsRight == GetIsServed => \A buf \in [1..ReportSize -> Entry] : ReportsOn(buf)
=============================================================================
