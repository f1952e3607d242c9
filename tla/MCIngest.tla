-------------------------------- MODULE MCIngest --------------------------------
(* A document on its way into the memory and what is kept of it, one part of *)
(* that per behaviour: from its file to its chunks; from its chunks to       *)
(* triples and vectors; from the triples of all documents to the memory; two *)
(* tasks on one file-backed namespace of two records; or two tasks on the    *)
(* pool of a vector table and a status table, from start-up to shutdown.     *)
EXTENDS FileStore, PostgresStore, Parsing, Indexing, MemoryRebuild, TLC

VARIABLE part  \* fixed

-----------------------------------------------------------------------------
(* Four files.  A PDF whose name asks for Docling and a picture a rule sends *)
(* there share their sidecar directory with a sheet whose name asks for      *)
(* options only; the fourth is a picture whose name asks for an engine that  *)
(* does not read it.                                                         *)

CONSTANTS pdf, sheet, plan, picture, report, photo

Hinted(engine, options) == [engine |-> engine, options |-> options]

MCDocs        == {pdf, sheet, plan, picture}
MCSuffix      == (pdf :> "pdf") @@ (sheet :> "csv") @@ (plan :> "png") @@ (picture :> "bmp")
MCHasPdfBytes == [d \in MCDocs |-> d = pdf]
MCHint        == (pdf :> Hinted("docling", <<"i", "P">>)) @@ (sheet :> Hinted("none", <<"x", "R">>))
                 @@ (plan :> Hinted("none", << >>)) @@ (picture :> Hinted("legacy", <<"R">>))
MCStem        == (pdf :> report) @@ (sheet :> report) @@ (plan :> report) @@ (picture :> photo)
MCHolds       == (pdf :> {"prose", "tables"}) @@ (sheet :> {"tables"})
                 @@ (plan :> {"tables"}) @@ (picture :> {"prose"})
MCReads       == ("legacy" :> {"pdf", "csv"}) @@ ("docling" :> {"pdf", "png", "bmp"})
MCRules       == <<[suffixes |-> {"csv", "png"}, engine |-> "docling", options |-> <<"t", "P">>],
                   [suffixes |-> {"csv", "png"}, engine |-> "legacy", options |-> << >>]>>

-----------------------------------------------------------------------------
(* Documents with repeated chunks, paragraphs of every size, and providers   *)
(* that refuse in every way.                                                 *)

Written(strategy, text, blocks) == [strategy |-> strategy, text |-> text, blocks |-> blocks]
Fixed(text) == Written("F", text, <<>>)

Texts == {<<"a", "b", "_", "a", "b">>, <<"a", "b", "a", "b", "a">>, <<"a", "b", "c", "d">>, <<"_", "_", "_", "a", "_", "_", "b">>, <<"_", "a", "a", "|", "a", "a", "_">>}
MCDocuments ==
    {Fixed(t) : t \in Texts}
    \cup {Written("R", <<"a", "b", "_", "a", "b", "|", "|", "a", "|", "c">>, <<>>),
          Written("split", <<"a", "b", "c", "d", "|", "_", "|", "a">>, <<>>),
          Written("only", <<"a", "b", "c", "d", "|", "a">>, <<>>),
          Written("only", <<"a", "|", "_", "b">>, <<>>),
          Written("R", <<"_", "a", "a", "a", "b">>, <<>>),
          Written("R", <<"a", "b", "c", "d", "_", "a", "b", "|", "c", "_", "d">>, <<>>),
          Written("R", <<"|", "a", "|", "b", "_", "c", "_", "|">>, <<>>),
          Written("P", <<"a", "b", "|", "c", "|", "_", "|", "b", "c", "d", "d", "|", "a">>,
                   <<<<"a", "b">>, <<"c">>, <<"_">>, <<"b", "c", "d", "d">>, <<"a">>>>),
          Written("P", <<"a", "b", "|", "a", "b">>, <<>>)}

MCProviders ==
    {[items |-> i, tokens |-> t, dimensions |-> d] : i \in 1..2, t \in 2..3, d \in BOOLEAN}

-----------------------------------------------------------------------------
(* Two chunks spell one fact differently, each has a fact of its own, and    *)
(* the two facts of a chunk fill more than one batch.                        *)

MCCanon == [a1 |-> <<"x", "r", "y">>, a2 |-> <<"x", "r", "y">>,
            b  |-> <<"x", "r", "z">>, c  |-> <<"w", "r", "y">>,
            o  |-> <<"P", "r", "Q">>, p  |-> <<"P", "r", "R">>]
MCLabel == DOMAIN MCCanon
MCOntology == {"o", "p"}
MCChunks == <<"c1", "c2">>
MCTriplesOf == [c1 |-> <<"a1", "b">>, c2 |-> <<"c", "a2", "c">>]

-----------------------------------------------------------------------------
(* The places it is kept in.                                                 *)

CONSTANTS
    a, b, k1, k2, v, w, nil, free, nofile, corrupt, main, vec, status, small, large, nodim,
    Parts  \* those a run is about

MCCaller == {a, b}
MCKey    == {k1, k2}
MCValue  == {v, w}
MCStores == <<vec, status>>

-----------------------------------------------------------------------------

MCInit ==
    /\ part \in Parts
    /\ Init /\ PgInit /\ ParsingInit /\ IndexingInit /\ RebuildInit
    /\ part # "files" => kind = "kv"
    /\ dim = small  \* the two are alike
    /\ part # "shutdown" => mode = "served" /\ column = [s \in {vec} |-> small]
    /\ part # "parser" => endpoint = FALSE
    /\ part # "provider" => document = Fixed(<<"a", "b", "c", "d">>)
    /\ part # "provider" \/ document.strategy \notin {"R", "P"} => ~langchain

MCNext ==
    /\ part' = part
    /\ \/ /\ part = "files" /\ Next
          /\ UNCHANGED <<pgVars, parsingVars, indexingVars, rebuildVars>>
       \/ /\ part = "shutdown" /\ PgNext
          /\ UNCHANGED <<vars, parsingVars, indexingVars, rebuildVars>>
       \/ /\ part = "parser" /\ ParsingNext
          /\ UNCHANGED <<vars, pgVars, indexingVars, rebuildVars>>
       \/ /\ part = "provider" /\ IndexingNext
          /\ UNCHANGED <<vars, pgVars, parsingVars, rebuildVars>>
       \/ /\ part = "rebuild" /\ RebuildNext
          /\ UNCHANGED <<vars, pgVars, parsingVars, indexingVars>>

MCSpec ==
    /\ MCInit
    /\ [][MCNext]_<<part, vars, pgVars, parsingVars, indexingVars, rebuildVars>>
    /\ PgFairness
================================================================================
