-------------------------------- MODULE MCRoutes --------------------------------
(* What requests to the server meet, one part of that per behaviour: the     *)
(* input directory and the records that point into it; a graph that an       *)
(* install fills through the write buffer; the console on such a graph; the  *)
(* conversations of a tab; the limiter of the logins.                        *)
EXTENDS InputFolder, GraphBuffer, ChatTab, GraphConsole, LoginLimiter, TLC

CONSTANT Parts  \* those a run is about

VARIABLE part   \* fixed

-----------------------------------------------------------------------------
(* Two uploads of two documents of one name; of the activities around them   *)
(* at most two are under way at once, a removal or the worker being one:     *)
(* every pair of them meets.  A disturbed folder is not followed on.         *)

CONSTANTS u1, u2, v, w, nil, MaxAtOnce

MCUploads   == {u1, u2}
MCDocuments == {v, w}

AtOnce ==
    Cardinality({n \in Uploader : upload[n].pc # "idle"})
    + Cardinality({h \in {"scan", "requeue", "lock"} :
          \/ h = "scan" /\ scan.pc # "idle"
          \/ h = "requeue" /\ requeue # NoRetry
          \/ h = "lock" /\ ~LockFree})

-----------------------------------------------------------------------------
(* Two nodes with an edge either way, and statements of one row: an edge can *)
(* be sent while its end is in another task's hands.  The second node may be *)
(* another engine's.                                                         *)

CONSTANTS g1, g2, installer, reader

MCNode    == {g1, g2}
MCEdge    == {<<g1, g2>>, <<g2, g1>>}
MCForeign == {{}, {g2}}

-----------------------------------------------------------------------------
(* Two questions and two clicks in the side bar; a database of four nodes,   *)
(* one of them another engine's; two clients.                                *)

CONSTANTS n1, n2, n3, n4, e1, e2, r1, r2, r3, none, noresult, c1, c2

MCGraphNode == {n1, n2, n3, n4}
MCEntityId == (n1 :> e1) @@ (n2 :> e2) @@ (n3 :> none) @@ (n4 :> e1)
MCLabelled == {n1, n2, n3}
MCRelEnds == (r1 :> [from |-> n1, to |-> n2]) @@ (r2 :> [from |-> n2, to |-> n3])
          @@ (r3 :> [from |-> n4, to |-> n4])

NodeRecord(n) == [nodes |-> {n}, rels |-> {}]
RelRecord(r)  == [nodes |-> {}, rels |-> {r}]
PathRecord(r) == [nodes |-> {MCRelEnds[r].from, MCRelEnds[r].to}, rels |-> {r}]

Statement(words, limit, found) == [words |-> words, limit |-> limit, records |-> found]

(* Quoted keywords, a limit in a subquery, a procedure, a write, and a       *)
(* statement the database does not take.                                     *)
MCStatements ==
    { Statement(<<"match", "return">>, 0, <<RelRecord(r1), PathRecord(r2), NodeRecord(n1)>>),
      Statement(<<"match", "'limit'", "'delete'", "return">>, 0, <<RelRecord(r2), NodeRecord(n2)>>),
      Statement(<<"{", "return", "limit", "}", "return", "limit">>, 2,
                <<RelRecord(r1), RelRecord(r2), NodeRecord(n4)>>),
      Statement(<<"call">>, 0, <<RelRecord(r1), RelRecord(r3), NodeRecord(n1)>>),
      Statement(<<"match", "delete">>, 0, <<>>),
      Statement(<<"return", "limit", "limit">>, 0, <<>>) }

MCClient == {c1, c2}

-----------------------------------------------------------------------------

MCInit ==
    /\ part \in Parts
    /\ FolderInit /\ Init /\ ChatInit /\ ConsoleInit /\ LimiterInit
    /\ part # "folder" => \A p \in Path : files[p] = nil
    /\ files[Nested] # w  \* the two are alike
    /\ part # "graph" => theirs = {}
    /\ part # "chat" => persistent

MCNext ==
    /\ part' = part
    /\ \/ /\ part = "folder" /\ ~disturbed
          /\ FolderNext /\ AtOnce' <= MaxAtOnce
          /\ UNCHANGED <<vars, chatVars, console, limiter>>
       \/ /\ part = "graph" /\ Next
          /\ UNCHANGED <<folderVars, chatVars, console, limiter>>
       \/ /\ part = "chat" /\ ChatNext
          /\ UNCHANGED <<folderVars, vars, console, limiter>>
       \/ /\ part = "console" /\ ConsoleNext
          /\ UNCHANGED <<folderVars, vars, chatVars, limiter>>
       \/ /\ part = "login" /\ LimiterNext
          /\ UNCHANGED <<folderVars, vars, chatVars, console>>

MCSpec == MCInit /\ [][MCNext]_<<part, folderVars, vars, chatVars, console, limiter>>
================================================================================
