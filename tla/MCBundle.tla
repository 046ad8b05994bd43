------------------------------ MODULE MCBundle ------------------------------
(* A brief, and at most one other file: each name that a classifier could
   get wrong, with each text that a renderer or a gate could. *)
EXTENDS Bundle, TLC

Regular(body) == [kind |-> "regular", body |-> body]
Link == [kind |-> "link", body |-> "plain"]

MCNames ==
    { <<"candidate", "data.bin">>, <<"candidate", "sub", "LICENSE">>,
      <<"candidate", "interviewer", "notes.md">>, <<"candidate", "Faults">>,
      <<"Interviewer", "key.md">>, <<"candidate", "foreign.md">>,
      <<"problem.yaml">>, <<"candidate", "problem.yaml">>, About, <<"notes.md">> }

MCTrees ==
    LET briefs == {(Brief :> Regular(b)) : b \in {"plain", "hole", "typo"}}
        others == {(n :> f) : n \in MCNames, f \in {Regular(b) : b \in Bodies} \union {Link}}
    IN  {b @@ o : b \in briefs, o \in others} \union {(<<"brief.md">> :> Regular("plain"))}

MCGlobLists ==
    { {<<"candidate", "**">>}, {<<"**">>}, {<<"candidate", "*">>, <<"*", "**", "LICENSE">>},
      {<<"**", "brief.md">>}, {<<"candidate", "**">>, <<"faults", "*">>} }

MCSegments == STRING
MCRewrites == {Regular("marker"), Regular("trap")}
MCFolded == ("Interviewer" :> "interviewer") @@ ("Faults" :> "faults")
=============================================================================
