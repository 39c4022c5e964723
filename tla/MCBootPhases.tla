---------------------------- MODULE MCBootPhases ----------------------------
(* Instances of BootPhases for TLC.                                        *)
EXTENDS BootPhases

CONSTANTS s1, s2, s3, e1

SAs == {s1, s2, s3}
Others == {e1}

Profile(phase, create, depend) ==
  [s \in SAs |-> [bootPhase |-> phase[s], runOnCreate |-> create[s], dependSa |-> depend[s]]]

\* The SAs in the order of their phases: one in each, two in one, all in one.
Phases ==
  {f \in [SAs -> Phase] : f[s1] # 2 /\ f[s1] <= f[s2] /\ f[s3] = 3}

\* All SAs are started at boot, or all but one.
Creates == {f \in [SAs -> BOOLEAN] : (f[s1] \/ f[s3]) /\ f[s2]}

\* No dependencies; an SA of a later phase and one of another process; a cycle.
Depends ==
  LET none == [s \in SAs |-> {}]
  IN {none, [none EXCEPT ![s1] = {s3}, ![s2] = {e1}],
            [none EXCEPT ![s1] = {s2}, ![s2] = {s1}]}

\* One SA is in a phase there is not.
UnknownPhase ==
  Profile([s \in SAs |-> IF s = s2 THEN 4 ELSE 1], [s \in SAs |-> TRUE], [s \in SAs |-> {}])

MixedProfiles ==
  {Profile(phase, create, depend) : phase \in Phases, create \in Creates,
                                    depend \in Depends} \cup {UnknownPhase}

\* SAs in any phase, and all in the same, without dependencies.
PhaseProfiles ==
  {Profile(phase, [s \in SAs |-> TRUE], [s \in SAs |-> {}]) : phase \in [SAs -> Phase]}
OnePhase ==
  {Profile([s \in SAs |-> 3], [s \in SAs |-> TRUE], [s \in SAs |-> {}])}

-----------------------------------------------------------------------------
Numbers == [zero |-> 0, four |-> 4, six |-> 6, huge |-> 8]

Tokens ==
  SAs \cup Others \cup DOMAIN Numbers \cup {"#", "-m", "sa_main", "1:2", "proc", "other", ".json", "n", "v"}

Request(path, options, sa, id, name, value, extra) ==
  [path |-> path, options |-> options, sa |-> sa, id |-> id, name |-> name, value |-> value,
   extraDataId |-> extra]

Json == <<"proc", ".json">>
Missing == <<"other", ".json">>
Files == {Json, <<"proc">>}

Option == <<<<"-m">>, <<"1:2">>>>
Options == {<<>>, Option, Option \o Option}

\* A process for no SA.
Boot(options) == Request(Json, options, None, "zero", <<>>, <<>>, "zero")
Boots == {Boot(<<>>)}

\* Every SA is asked for, with and without options; the other requests end
\* before an SA is loaded, or are for an SA of another process.
AllRequests ==
  {Boot(options) : options \in Options}
  \cup {Request(Json, Option \o Option, s, "four", <<"n">>, <<"v">>, "six") : s \in SAs}
  \cup {Request(Json, <<>>, s1, "zero", <<>>, <<>>, "zero")}
  \cup {Request(path, <<>>, None, "zero", <<>>, <<>>, "zero") : path \in {Missing, <<"proc">>}}
  \cup {Request(Json, Option, sa, "six", <<"four">>, <<>>, "zero") : sa \in {e1, "zero", "n"}}
  \cup {Request(Json, <<>>, e1, "four", name, value, "zero") :
          name \in {<<"n">>, <<"#">>}, value \in {<<"v", "#", "v">>, <<"v", "v", "v">>}}
  \cup {Request(Json, Option \o Option \o Option, e1, "four", <<>>, <<>>, "zero"),
        Request(Json, <<>>, e1, "four", <<>>, <<>>, "huge")}

Extras ==
  {[code |-> 0, data |-> <<"d">>, want |-> want] :
     want \in {<<>>, [a |-> "x"], [a |-> "x", b |-> "y"]}}
=============================================================================
