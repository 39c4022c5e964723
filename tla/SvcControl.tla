------------------------------ MODULE SvcControl ------------------------------
(***************************************************************************)
(* The command svc (svc/src/svc_control.cpp), which has an SA carry out a  *)
(* command given on its command line, together with the process that       *)
(* serves the request: svc parses its arguments, asks samgr for the        *)
(* process of the SA, has the SA loaded if there is none, and makes one    *)
(* call, whose handler is in module LocalAbilityManagerStub.  An argument  *)
(* is its text, "" if empty, "long" if longer than SINGLE_ARG_MAXLEN, and  *)
(* "null" if there is none.                                                *)
(***************************************************************************)
EXTENDS LocalAbilityManagerStub, Sequences

CONSTANTS
  ARG_MAX_COUNT,   \* arguments that svc takes at most
  Lines,           \* the command lines to run, with the name of the program
  NoThread         \* the call of svc has not come to a thread

ASSUME LineAssumption == ARG_MAX_COUNT \in Nat /\ Lines \subseteq Seq(STRING)
ASSUME NoThreadAssumption == NoThread \notin IpcThread

VARIABLES
  svc,          \* where svc is
  argv,         \* its command line, never changed
  svcThread,    \* the thread that serves its call
  svcAsked,     \* history: samgr or the process has been asked for something
  svcServed     \* history: what became of the call, when svc was answered

svcVars == <<svc, argv, svcThread, svcAsked, svcServed>>
allVars == <<stubVars, svcVars>>

-----------------------------------------------------------------------------
ARG_MIN_COUNT == 2
Service == {"wifi", "bluetooth", "nearlink"}

\* The SA that the argument names, or HELP_CMD.
ParseCmd(arg) ==
  CASE arg \in Service -> arg
    [] arg = "help" -> "HELP_CMD"
    [] OTHER -> "ARGS_INVALID"

Parse(args) ==
  CASE Len(args) < ARG_MIN_COUNT -> "ARGS_CNT_NOT_ENOUGH"
    [] Len(args) > ARG_MAX_COUNT -> "ARGS_CNT_EXCEED"
    [] \E i \in 1..Len(args) : args[i] \in {"null", "", "long"} -> "ARGS_INVALID"
    [] OTHER -> LET command == ParseCmd(args[2])
                IN IF command = "HELP_CMD" /\ Len(args) > ARG_MIN_COUNT THEN "ARGS_CNT_EXCEED"
                   ELSE IF command \in Service /\ Len(args) = ARG_MIN_COUNT THEN "ARGS_CNT_NOT_ENOUGH"
                   ELSE command

\* What follows the service is for the SA.
SetCmdArgs(args) == SubSeq(args, ARG_MIN_COUNT + 1, Len(args))

-----------------------------------------------------------------------------
SvcInit ==
  /\ StubInit
  /\ \/ "SERVICE_CONTROL_CMD" \in workload /\ svc = "start" /\ argv \in Lines
     \/ "SERVICE_CONTROL_CMD" \notin workload /\ svc = "absent" /\ argv = <<>>
  /\ svcThread = NoThread
  /\ svcAsked = FALSE
  /\ svcServed = "none"

\* Main up to the first call.
SvcParse ==
  /\ svc = "start"
  /\ svc' = CASE Parse(argv) = "HELP_CMD" -> "help"
              [] Parse(argv) \in Service -> "proxy"
              [] OTHER -> "failed"
  /\ UNCHANGED <<stubVars, argv, svcThread, svcAsked, svcServed>>

\* Mutant: the SA is loaded again until the process is found.
SvcProxyRetries ==
  /\ svc \in {"proxy", "again"}
  /\ svcAsked' = TRUE
  /\ svc' \in {"failed", "call", "load"}
  /\ UNCHANGED <<stubVars, argv, svcThread, svcServed>>

\* samgr is not there; GetLocalAbilityManagerProxy finds the process, or not.
SvcProxy ==
  /\ svc \in {"proxy", "again"}
  /\ svcAsked' = TRUE
  /\ \/ svc' = "failed"
     \/ svc' = "call"
     \/ svc = "proxy" /\ svc' = "load"
  /\ UNCHANGED <<stubVars, argv, svcThread, svcServed>>

\* LoadSystemAbility, within its TIME_OUT or not; its result is not used.
SvcLoad ==
  /\ svc = "load"
  /\ svc' = "again"
  /\ (loaded' = TRUE) \/ UNCHANGED loaded
  /\ UNCHANGED <<vars, workload, localVars, handed, file, argv, svcThread, svcAsked, svcServed>>

SvcCall(t) ==
  /\ svc = "call"
  /\ OnRemoteRequest(t, "SERVICE_CONTROL_CMD")
  /\ svc' = "waiting"
  /\ svcThread' = t
  /\ UNCHANGED <<argv, svcAsked, svcServed>>

\* Mutant: any answer is taken for success.
SvcAnsweredAny(t) ==
  /\ svc = "waiting"
  /\ svcThread = t
  /\ Return(t)
  /\ svc' = "success"
  /\ svcThread' = NoThread
  /\ svcServed' = effect[t]
  /\ UNCHANGED <<argv, svcAsked>>

\* ServiceControlCmd returns; an answer lost on its way back is an error.
SvcAnswered(t) ==
  /\ svc = "waiting"
  /\ svcThread = t
  /\ Return(t)
  /\ svc' = "failed" \/ (answer[t] = "none" /\ svc' = "success")
  /\ svcThread' = NoThread
  /\ svcServed' = effect[t]
  /\ UNCHANGED <<argv, svcAsked>>

\* The call cannot be made: the parcel cannot be written, or the process is gone.
SvcCallFails ==
  /\ svc = "call"
  /\ svc' = "failed"
  /\ UNCHANGED <<stubVars, argv, svcThread, svcAsked, svcServed>>

Svc == SvcParse \/ SvcProxy \/ SvcLoad \/ SvcCallFails \/ \E t \in IpcThread : SvcCall(t) \/ SvcAnswered(t)

SvcNext ==
  \/ Svc
  \/ /\ UNCHANGED svcVars
     /\ \/ Environment
        \/ \E t \in IpcThread :
             \/ Handler(t)
             \/ t # svcThread /\ Return(t)
             \/ \E c \in workload : OnRemoteRequest(t, c)

SvcSpec == SvcInit /\ [][SvcNext]_allVars

\* What svc does by itself, up to the call and after it.
SvcGoesOn == SvcParse \/ SvcProxy \/ SvcLoad \/ \E t \in IpcThread : SvcAnswered(t)

\* While svc's call waits for a thread or for its answer, an IPC thread goes on
\* with the request it has, to its end.
Serve(t) ==
  /\ svc \in {"call", "waiting"}
  /\ Handler(t) \/ (t # svcThread /\ Return(t))
  /\ UNCHANGED svcVars

\* svc goes on, and so do the IPC threads: what they call in FFRT and in the SAs
\* returns.  The call has no timeout: it waits for a thread, and the kernel,
\* which queues calls, does not pass it over for ever.  FFRT runs the tasks that
\* are not cancelled.  Nobody else has to make a request, and no call has to fail.
SvcFairSpec ==
  /\ SvcSpec
  /\ WF_allVars(SvcGoesOn)
  /\ SF_allVars(\E t \in IpcThread : SvcCall(t))
  /\ \A t \in IpcThread : WF_allVars(Serve(t))
  /\ \A n \in Collection : WF_allVars(FfrtTask(n) /\ UNCHANGED svcVars)

-----------------------------------------------------------------------------
(* Properties                                                              *)

\* A line that asks for a service, as HelpInfo prints it.
ServiceLine(args) ==
  /\ Len(args) \in ARG_MIN_COUNT + 1..ARG_MAX_COUNT
  /\ args[2] \in Service
  /\ {"null", "", "long"} \cap {args[i] : i \in 1..Len(args)} = {}

\* What svc prints is true.  It prints success only if OnSvcCmd of the SA ran,
\* with svc's own file behind the descriptor it was given, and returned success;
\* a line that is no request for a service leads to no call at all, so that no
\* SA is loaded.
SvcIsTrue ==
  /\ svc = "success" => svcServed = "served"
  /\ svcAsked => ServiceLine(argv)
  /\ svc = "help" => argv[2] = "help" /\ SetCmdArgs(argv) = <<>>

\* svc comes to its end, whatever samgr answers, whether or not the SA is loaded
\* in time, and although its call, which has no timeout, shares the IPC threads
\* with other requests: no handler waits for another one.
SvcEnds == <>(svc \in {"absent", "help", "failed", "success"})
=============================================================================
