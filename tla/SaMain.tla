-------------------------------- MODULE SaMain --------------------------------
(***************************************************************************)
(* The command line of an SA process: main.cpp, and system_ability_start.  *)
(* cpp, which does the same for processes forked from a running one.  An   *)
(* argument is a sequence of tokens: "#", the numerals, the ids of the SAs *)
(* and any other text.                                                     *)
(***************************************************************************)
EXTENDS OnDemandReason

CONSTANTS
  SA,              \* SAs of the process
  Elsewhere,       \* SAs of other processes
  None,            \* DEFAULT_SAID: the process is started for no SA
  Token,           \* what an argument is made of
  Number,          \* the integer that each numeral stands for
  Paths,           \* files that exist
  MAX_LENGTH,      \* longest event, in tokens
  ARGC_MAX_COUNT   \* most arguments

ASSUME LimitAssumption == {INT_MAX, MAX_LENGTH, ARGC_MAX_COUNT} \subseteq Nat
ASSUME NumeralAssumption == "#" \notin SA \cup Elsewhere \cup DOMAIN Number
ASSUME TokenAssumption == {"#", "-m", "sa_main"} \cup SA \cup Elsewhere \cup DOMAIN Number \subseteq Token

ARGC_LIMIT == 2
ONDEMAND_LOAD == 2
EVENT_INDEX == 2
PARTEVENT_NUM == 5
MALLOPT_CONFIG_LEN == 2

\* Mutant: one option is expected at most.
InitMalloptOnce(argv) == IF \E i \in 1..Len(argv) - 1 : argv[i] = <<"-m">> THEN MALLOPT_CONFIG_LEN ELSE 0

\* Counts the options -m, which all but the last argument may be.
InitMallopt(argv) == Cardinality({i \in 1..Len(argv) - 1 : argv[i] = <<"-m">>}) * MALLOPT_CONFIG_LEN

\* An event follows the options, for main and for StartSA.
HasEvent(argv) == Len(argv) > ONDEMAND_LOAD + InitMallopt(argv)

\* Succeeds for a text that is a number.
StrToInt(text) ==
  IF Len(text) = 1 THEN {text[1]} \cap (SA \cup Elsewhere \cup DOMAIN Number) ELSE {}

\* The number that a text begins with; undefined if it is no int.
Atoi(text) ==
  IF text = <<>> \/ (text # <<>> /\ text[1] \notin DOMAIN Number) THEN {0}
  ELSE IF Number[text[1]] \in AnyInt THEN {Number[text[1]]} ELSE AnyInt

\* The places of the separators, and the k-th part that one ends.
Separators(event) == {i \in 1..Len(event) : event[i] = "#"}

Cut(event, k) ==
  IF k = 0 THEN 0
  ELSE CHOOSE i \in Separators(event) : Cardinality(Separators(SubSeq(event, 1, i))) = k

Part(event, k) == SubSeq(event, Cut(event, k - 1) + 1, Cut(event, k) - 1)

\* The SA and the event, or nothing (DEFAULT_SAID): exactly five parts end in "#".
ParseArgv(event) ==
  IF Len(event) > MAX_LENGTH \/ Cardinality(Separators(event)) # PARTEVENT_NUM THEN {}
  ELSE {[saId |-> id, eventMap |-> [eventId |-> e, name |-> Part(event, 3),
                                    value |-> Part(event, 4), extraDataId |-> x]] :
          id \in StrToInt(Part(event, 1)), e \in Atoi(Part(event, 2)), x \in Atoi(Part(event, 5))}

CheckSaId(saId) == saId \in SA \cup Elsewhere

\* DoStartSAProcess takes any path that holds ".json".
PathIsJson(path) == \E i \in DOMAIN path : path[i] = ".json"

CheckAndGetProfilePath(path) == path \in Paths

-----------------------------------------------------------------------------
(* What init and samgr make of a request r to start a process               *)

Event(r) ==
  <<r.sa, "#", r.id, "#">> \o r.name \o <<"#">> \o r.value \o <<"#", r.extraDataId, "#">>

CommandLine(r) ==
  <<<<"sa_main">>, r.path>> \o r.options \o IF r.sa = None THEN <<>> ELSE <<Event(r)>>
=============================================================================
