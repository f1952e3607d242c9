-------------------------------- MODULE MCAnswers --------------------------------
(* Who answers a question, one of them per behaviour: two queries while the  *)
(* corpus is rewritten, or the agent.                                        *)
EXTENDS Retrieval, AgentLoop, TLC

CONSTANTS q1, q2, p1, p2, s1, s2, lookup, broken, x1

VARIABLE who  \* fixed

-----------------------------------------------------------------------------

MCQueries  == {q1, q2}
MCPassages == {p1, p2}
MCModes    == AllModes

Symmetric == Permutations(MCQueries) \cup Permutations(MCPassages)

-----------------------------------------------------------------------------

MCSearches == {s1, s2}
MCLookups  == {lookup}
MCBroken   == {broken}
MCExcerpts == {x1}

(* Streams of the answering model with what should be seen of them: prose,   *)
(* tagged and untagged renderings, and channels that are never closed.       *)
Bodies == {<<>>, <<"t">>, <<"t", "<">>, <<"<", "t">>, <<"t", "<", "t">>}
Open   == <<"<", "|channel">>
Tails  == {<<>>, Open \o <<"r">>}

MCTranscripts ==
    {[text |-> b, answer |-> b] : b \in Bodies}
    \cup {[text |-> Open \o <<"r">> \o TaggedFinal \o b \o tail, answer |-> b]
            : b \in Bodies, tail \in Tails}
    \cup {[text |-> <<"analysis", "r">> \o UntaggedFinal \o b, answer |-> b] : b \in Bodies}
    \cup {[text |-> Open \o <<"r", "r">>, answer |-> <<"r", "r">>],
          [text |-> <<"analysis", "r">>, answer |-> <<"r">>],
          [text |-> <<"analysis", "<", "t">>, answer |-> <<"<", "t">>]}

-----------------------------------------------------------------------------

MCInit == who \in {"queries", "agent"} /\ Init /\ AgentInit

MCNext ==
    /\ who' = who
    /\ \/ who = "queries" /\ Next /\ UNCHANGED agentVars
       \/ who = "agent" /\ AgentNext /\ UNCHANGED vars

MCSpec == MCInit /\ [][MCNext]_<<who, vars, agentVars>>
================================================================================
