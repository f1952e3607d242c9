------------------------------- MODULE Retrieval -------------------------------
(***************************************************************************)
(* Queries answered by the engine while its corpus is rewritten: aquery    *)
(* and aretrieve, the preparation they share, fact and schema linking,     *)
(* PageRank over the prepared graph, the dense fallback, and the texts     *)
(* looked up late in chunks_kv.                                            *)
(*                                                                         *)
(* A step is the code between two suspension points that matter here.      *)
(* Similarities and PageRank scores are abstracted to the order they put   *)
(* passages in, which is arbitrary.  The rewriter is the engine's insert,  *)
(* delete or clear, one at a time (module DocPipeline), reduced to the     *)
(* state a query reads; module CorpusRewrite has it store by store.        *)
(***************************************************************************)
EXTENDS Naturals, Sequences, FiniteSets, SequencesExt

CONSTANTS
    Queries,        \* queries being served
    Rewriter,       \* the task rewriting the corpus
    NoOne,          \* holder of a free corpus lock
    Passage,        \* chunk ids; a passage's text is named by its id
    NoEngine,       \* self._ppr is None
    TopK,           \* param.top_k
    LinkingTopK,    \* param.linking_top_k
    MaxCandidates,  \* MAX_RERANK_CANDIDATES
    Modes,          \* the query modes asked for
    MaxRewrites     \* bound: rewrites of the corpus

AllModes == {"ppr", "naive", "context", "bypass"}

ASSUME RetrievalAssumption ==
    /\ Rewriter \notin Queries /\ NoOne \notin Queries \cup {Rewriter}
    /\ TopK \in Nat \ {0} /\ LinkingTopK \in Nat /\ MaxCandidates \in Nat
    /\ Modes \subseteq AllModes
    /\ MaxRewrites \in Nat
    /\ \A S \in SUBSET Passage : NoEngine # S

VARIABLES
    memory,   \* self.memory: the passages of the installed memory
    vdb,      \* chunks_vdb
    kv,       \* chunks_kv
    content,  \* the keys of self._passage_id_to_content
    listed,   \* self._passage_ids
    ppr,      \* self._ppr: the passages it scores
    ready,    \* self.ready_to_retrieve
    lock,     \* self._corpus_lock
    wpc, goal,    \* the rewriter: where it stands, the corpus it installs
    rewrites,     \* rewrites begun
    query,    \* the queries
    past      \* history: what each query and the engine saw of rewrites

engine   == <<memory, content, listed, ppr, ready>>
rewriter == <<wpc, goal, rewrites>>
vars == <<engine, vdb, kv, lock, rewriter, query, past>>

NotAsked == [pc |-> "idle", mode |-> "none", hits |-> <<>>, kept |-> {},
             top |-> <<>>, missing |-> {}, docs |-> <<>>, ids |-> <<>>]

Init ==
    /\ memory = {} /\ vdb = {} /\ kv = {}
    /\ content = {} /\ listed = {} /\ ppr = NoEngine /\ ready = FALSE
    /\ lock = NoOne
    /\ wpc = "idle" /\ goal = {} /\ rewrites = 0
    /\ query = [q \in Queries |-> NotAsked]
    /\ past = [seen |-> [q \in Queries |-> {}],
               disturbed |-> [q \in Queries |-> FALSE],
               mixed |-> [q \in Queries |-> FALSE],
               torn |-> [q \in Queries |-> FALSE],
               engineTorn |-> FALSE]

At(q, pc) == query[q].pc = pc
Goto(q, pc) == query' = [query EXCEPT ![q].pc = pc]

----------------------------------------------------------------------------
(* History.  "seen" collects the corpora installed, or being installed,    *)
(* while a query ran; "disturbed" says that a rewrite ran during it;       *)
(* "mixed" that one ran during its preparation; "torn" that it may use an  *)
(* engine prepared so, "engineTorn" that the engine in place was.          *)

Running(q) == query[q].pc \notin {"idle", "done"}
Rewriting  == wpc \notin {"idle", "wait"}

(* A step of a rewriter that installs M. *)
Disturb(M) ==
    past' = [past EXCEPT
        !.seen = [q \in Queries |-> IF Running(q) THEN @[q] \cup M ELSE @[q]],
        !.disturbed = [q \in Queries |-> @[q] \/ Running(q)],
        !.mixed = [q \in Queries |-> @[q] \/ At(q, "engine")]]

Begins(q) ==
    past' = [past EXCEPT !.seen[q] = memory \cup (IF Rewriting THEN goal ELSE {}),
                         !.disturbed[q] = Rewriting,
                         !.torn[q] = past.engineTorn]

Prepares(q) ==
    past' = [past EXCEPT !.mixed[q] = Rewriting, !.disturbed[q] = @ \/ Rewriting,
                         !.torn = [r \in Queries |-> @[r] \/ (Running(r) /\ Rewriting)]]

Prepared(q) ==
    past' = [past EXCEPT !.engineTorn = past.mixed[q],
        !.torn = [r \in Queries |-> (past.mixed[q] /\ Running(r)) \/ (r # q /\ @[r])]]

----------------------------------------------------------------------------
(* Preparation.                                                            *)

(* aretrieve: a preparation that found nothing is made again. *)
Entry == IF ready /\ content # {} THEN "facts" ELSE "wait"

(* aquery: naive retrieval prepares without the corpus lock, also when no  *)
(* passage has a label yet (a corpus no document record claims has none).  *)
FirstSteps(mode) == CASE mode = "bypass" -> {"read"}
                      [] mode = "naive"  -> IF ready THEN {"dense", "load"} ELSE {"load"}
                      [] OTHER           -> {Entry}

Begin(q, mode) ==
    /\ At(q, "idle")
    /\ \E pc \in FirstSteps(mode) : query' = [query EXCEPT ![q].mode = mode, ![q].pc = pc]
    /\ Begins(q)
    /\ UNCHANGED <<engine, vdb, kv, lock, rewriter>>

Ask(q, mode) == Begin(q, mode)

(* astream_qa: the passages of a streamed query are always read. *)
AskStreamed(q, mode) == Begin(q, IF mode = "context" THEN "ppr" ELSE mode)

(* /query/data: only the passages are asked for, by PageRank in every mode. *)
AskData(q) == Begin(q, "context")

AcquireCorpus(q) ==
    /\ At(q, "wait") /\ lock = NoOne
    /\ lock' = q
    /\ Goto(q, "load")
    /\ UNCHANGED <<engine, vdb, kv, rewriter, past>>

(* prepare_retrieval up to its reads of the stores: the lists and the text *)
(* map are rebuilt from the memory.                                        *)
PrepareLists(q) ==
    /\ At(q, "load")
    /\ content' = memory /\ listed' = memory
    /\ Goto(q, "engine")
    /\ Prepares(q)
    /\ UNCHANGED <<memory, ppr, ready, vdb, kv, lock, rewriter>>

(* The engine is built over the passages listed by now; an engine that     *)
(* cannot be built is replaced by the igraph one over the same lists.      *)
PrepareEngine(q) ==
    /\ At(q, "engine")
    /\ ppr' = listed
    /\ ready' = (content # {})
    /\ lock' = IF lock = q THEN NoOne ELSE lock
    /\ Goto(q, IF query[q].mode = "naive" THEN "dense" ELSE "facts")
    /\ Prepared(q)
    /\ UNCHANGED <<memory, content, listed, vdb, kv, rewriter>>

----------------------------------------------------------------------------
(* Linking.  A hit is TRUE when its similarity reaches the threshold.      *)

Reaching(hits) == {i \in DOMAIN hits : hits[i]}

(* FactFilter.allm_filter on the positions the model names; no position    *)
(* also stands for no model, a failed call and an answer without a list.   *)
Kept(hits, picked) ==
    LET named == picked \cap 1..(IF Len(hits) < MaxCandidates THEN Len(hits)
                                                              ELSE MaxCandidates)
    IN  IF named = {} THEN Reaching(hits) ELSE named

(* With skip_fact_rerank only the threshold decides. *)
LinkFacts(q, hits, picked) ==
    /\ At(q, "facts")
    /\ \E kept \in {Kept(hits, picked), Reaching(hits)} :
          query' = [query EXCEPT ![q].pc = "schemas", ![q].hits = hits, ![q].kept = kept]
    /\ UNCHANGED <<engine, vdb, kv, lock, rewriter, past>>

(* Schema hits seed the ranking when there is a memory to resolve them;    *)
(* with no seed and no fact left the query falls back to dense retrieval.  *)
LinkSchemas(q, seeded) ==
    /\ At(q, "schemas")
    /\ seeded => memory # {}
    /\ query' = [query EXCEPT ![q].pc = IF query[q].kept = {} /\ ~seeded THEN "dense"
                                                                        ELSE "rank",
                              ![q].hits = <<>>, ![q].kept = {}]
    /\ UNCHANGED <<engine, vdb, kv, lock, rewriter, past>>

----------------------------------------------------------------------------
(* Ranking.                                                                *)

Orders(S) == {s \in BoundedSeq(S, TopK) : IsInjective(s)}
Rankings(S) == {s \in Orders(S) : Len(s) = TopK \/ Range(s) = S}

(* The passages of a ranking that are in S, in its order. *)
Selected(top, S) ==
    {s \in Orders(Range(top) \cap S) :
        /\ Range(s) = Range(top) \cap S
        /\ \A i, j \in DOMAIN s : i < j =>
              \E k, l \in DOMAIN top : k < l /\ top[k] = s[i] /\ top[l] = s[j]}

(* _run_ppr: without an engine the seeds themselves are the scores. *)
Scored == IF ppr = NoEngine THEN SUBSET (vdb \cup content) ELSE {ppr}

Answer(q) == IF query[q].mode = "context" THEN "done" ELSE "read"

Listing(q, docs, ids, pc) ==
    query' = [query EXCEPT ![q].pc = pc, ![q].docs = docs, ![q].ids = ids,
                           ![q].top = <<>>, ![q].missing = {}]

Rank(q) ==
    /\ At(q, "rank")
    /\ \E scored \in Scored :
          \/ /\ scored = {}
             /\ Goto(q, "dense")
          \/ /\ scored # {}
             /\ \E top \in Rankings(scored) : \E known \in Selected(top, content) :
                   LET missing == Range(top) \ content
                   IN  IF missing = {}
                       THEN Listing(q, known, known, Answer(q))
                       ELSE query' = [query EXCEPT ![q].pc = "texts", ![q].top = top,
                                ![q].missing = missing,
                                ![q].docs = known, ![q].ids = known]
    /\ UNCHANGED <<engine, vdb, kv, lock, rewriter, past>>

(* What is appended to an answer is put in the text map. *)
Appending(q, late) ==
    /\ content' = content \cup Range(late)
    /\ Listing(q, query[q].docs \o late, query[q].ids \o late, Answer(q))

(* A mutant: every ranked passage is looked up again. *)
ResolveTextsAgain(q) ==
    /\ At(q, "texts")
    /\ \E late \in Selected(query[q].top, kv) : Appending(q, late)
    /\ UNCHANGED <<memory, listed, ppr, ready, vdb, kv, lock, rewriter, past>>

(* The passages chunks_kv can give a text for, when the map has none yet;  *)
(* a lookup that fails gives none.                                         *)
Found(q) ==
    Selected(query[q].top, (query[q].missing \cap kv) \ content) \cup {<<>>}

ResolveTexts(q) ==
    /\ At(q, "texts")
    /\ \E late \in Found(q) : Appending(q, late)
    /\ UNCHANGED <<memory, listed, ppr, ready, vdb, kv, lock, rewriter, past>>

(* _dense_passage_retrieve. *)
DenseRetrieve(q) ==
    /\ At(q, "dense")
    /\ \E hits \in Rankings(vdb) : Listing(q, hits, hits, Answer(q))
    /\ UNCHANGED <<engine, vdb, kv, lock, rewriter, past>>

(* The answer is written, or there is no model to write it. *)
Read(q) ==
    /\ At(q, "read")
    /\ Goto(q, "done")
    /\ UNCHANGED <<engine, vdb, kv, lock, rewriter, past>>

Forgotten(q) ==
    /\ query' = [query EXCEPT ![q] = NotAsked]
    /\ past' = [past EXCEPT !.seen[q] = {}, !.disturbed[q] = FALSE,
                            !.mixed[q] = FALSE, !.torn[q] = FALSE]

(* An embedding, a store or the answering model raises; the lock is left. *)
QueryFails(q) ==
    /\ Running(q) /\ query[q].pc # "wait"
    /\ lock' = IF lock = q THEN NoOne ELSE lock
    /\ Forgotten(q)
    /\ UNCHANGED <<engine, vdb, kv, rewriter>>

(* The answer is returned; the client may ask again. *)
Leave(q) ==
    /\ At(q, "done")
    /\ Forgotten(q)
    /\ UNCHANGED <<engine, vdb, kv, lock, rewriter>>

----------------------------------------------------------------------------
(* The rewriter.                                                           *)

(* ainsert: readiness goes first, then the corpus lock is awaited. *)
BeginInsert(P) ==
    /\ wpc = "idle" /\ rewrites < MaxRewrites
    /\ P # {}
    /\ goal' = memory \cup P
    /\ rewrites' = rewrites + 1
    /\ ready' = FALSE
    /\ wpc' = "wait"
    /\ UNCHANGED <<memory, content, listed, ppr, vdb, kv, lock, query, past>>

EnterInsert ==
    /\ wpc = "wait" /\ lock = NoOne
    /\ lock' = Rewriter
    /\ wpc' = "sync"
    /\ Disturb(goal)
    /\ UNCHANGED <<engine, vdb, kv, goal, rewrites, query>>

(* adelete_by_doc_ids drops the texts first and takes no lock. *)
BeginDelete(P) ==
    /\ wpc = "idle" /\ rewrites < MaxRewrites
    /\ P # {} /\ P \subseteq memory
    /\ goal' = memory \ P
    /\ rewrites' = rewrites + 1
    /\ kv' = kv \ P
    /\ wpc' = "vectors"
    /\ Disturb(memory \ P)
    /\ UNCHANGED <<engine, vdb, lock, query>>

DropVectors ==
    /\ wpc = "vectors"
    /\ vdb' = vdb \cap goal
    /\ wpc' = IF goal = {} THEN "forget" ELSE "sync"
    /\ Disturb(goal)
    /\ UNCHANGED <<engine, kv, lock, goal, rewrites, query>>

(* _embed_and_store_memory: stores, then lists and texts. *)
SyncStores ==
    /\ wpc = "sync"
    /\ vdb' = goal /\ kv' = goal
    /\ wpc' = "lists"
    /\ Disturb(goal)
    /\ UNCHANGED <<engine, lock, goal, rewrites, query>>

SwapLists ==
    /\ wpc = "lists"
    /\ listed' = goal /\ content' = goal
    /\ wpc' = "swap"
    /\ Disturb(goal)
    /\ UNCHANGED <<memory, ppr, ready, vdb, kv, lock, goal, rewrites, query>>

(* A mutant: readiness is not cleared once the memory is swapped. *)
SwapMemoryReady ==
    /\ wpc = "swap"
    /\ memory' = goal
    /\ lock' = IF lock = Rewriter THEN NoOne ELSE lock
    /\ wpc' = "idle"
    /\ Disturb(goal)
    /\ UNCHANGED <<ready, content, listed, ppr, vdb, kv, goal, rewrites, query>>

SwapMemory ==
    /\ wpc = "swap"
    /\ memory' = goal
    /\ ready' = FALSE
    /\ lock' = IF lock = Rewriter THEN NoOne ELSE lock
    /\ wpc' = "idle"
    /\ Disturb(goal)
    /\ UNCHANGED <<content, listed, ppr, vdb, kv, goal, rewrites, query>>

(* A mutant: the emptied corpus leaves the engine as it was. *)
ForgetCorpusOnly(cleared) ==
    /\ wpc = "forget"
    /\ memory' = {} /\ vdb' = {} /\ kv' = {}
    /\ wpc' = "idle"
    /\ Disturb(goal)
    /\ UNCHANGED <<ready, listed, content, ppr, lock, goal, rewrites, query>>

(* _clear_empty_corpus and aclear_all, the latter after the same drops. *)
ForgetCorpus(cleared) ==
    /\ wpc = "forget"
    /\ memory' = {} /\ ready' = FALSE /\ listed' = {} /\ content' = {}
    /\ ppr' = IF cleared THEN NoEngine ELSE ppr
    /\ vdb' = {} /\ kv' = {}
    /\ wpc' = "idle"
    /\ Disturb(goal)
    /\ UNCHANGED <<lock, goal, rewrites, query>>

----------------------------------------------------------------------------

Rewrite ==
    \/ \E P \in SUBSET Passage : BeginInsert(P) \/ BeginDelete(P)
    \/ EnterInsert
    \/ DropVectors
    \/ SyncStores
    \/ SwapLists
    \/ SwapMemory
    \/ \E cleared \in BOOLEAN : ForgetCorpus(cleared)

Serve(q) ==
    \/ \E mode \in Modes : Ask(q, mode) \/ AskStreamed(q, mode)
    \/ AskData(q)
    \/ AcquireCorpus(q)
    \/ PrepareLists(q)
    \/ PrepareEngine(q)
    \/ \E hits \in BoundedSeq(BOOLEAN, LinkingTopK),
          picked \in SUBSET (0..(LinkingTopK + 1)) : LinkFacts(q, hits, picked)
    \/ \E seeded \in BOOLEAN : LinkSchemas(q, seeded)
    \/ Rank(q)
    \/ ResolveTexts(q)
    \/ DenseRetrieve(q)
    \/ Read(q)
    \/ QueryFails(q)
    \/ Leave(q)

Next == Rewrite \/ \E q \in Queries : Serve(q)

Spec == Init /\ [][Next]_vars

----------------------------------------------------------------------------
(* Properties.                                                             *)

Answered(q) == query[q].pc = "done" /\ query[q].mode # "bypass"

(* Every answer lists at most top_k passages, none twice, and each text    *)
(* stands at the place of its own id, however the texts were found and     *)
(* whatever rewrite or other query changed the text map in between         *)
(* (core.py:2522-2574).                                                    *)
AnswersAligned ==
    \A q \in Queries :
        /\ query[q].docs = query[q].ids
        /\ IsInjective(query[q].ids)
        /\ Len(query[q].ids) <= TopK

(* A query no rewrite ran during, on an engine whose preparation none ran  *)
(* during either, is answered from the corpus as it is: with top_k of its  *)
(* passages, or all of them when they are fewer.  In particular a query    *)
(* after a finished insert never answers from an empty preparation         *)
(* (core.py:2171-2173, 2209-2225).                                         *)
SettledAnswer ==
    \A q \in Queries :
        (Answered(q) /\ ~past.disturbed[q] /\ ~past.torn[q])
            => query[q].ids \in Rankings(past.seen[q])

(* Whatever runs meanwhile, a passage answered with was in the corpus at   *)
(* some moment of the query, unless the preparation of the engine met a    *)
(* rewrite that did not hold the corpus lock: a deleted passage does not   *)
(* come back through the text map or chunks_kv (core.py:2531-2557).        *)
AnswerWasThere ==
    \A q \in Queries :
        (Answered(q) /\ ~past.torn[q]) => Range(query[q].ids) \subseteq past.seen[q]

----------------------------------------------------------------------------
(* What the properties rest on.                                            *)

QueryPcs == {"idle", "wait", "load", "engine", "facts", "schemas", "rank", "texts",
             "dense", "read", "done"}

Asked == [pc : QueryPcs, mode : AllModes \cup {"none"}, hits : Seq(BOOLEAN), kept : SUBSET Nat,
          top : Seq(Passage), missing : SUBSET Passage, docs : Seq(Passage), ids : Seq(Passage)]

History == [seen : [Queries -> SUBSET Passage], disturbed : [Queries -> BOOLEAN],
            mixed : [Queries -> BOOLEAN], torn : [Queries -> BOOLEAN], engineTorn : BOOLEAN]

TypeOK ==
    /\ memory \subseteq Passage /\ goal \subseteq Passage
    /\ vdb \subseteq Passage /\ kv \subseteq Passage
    /\ content \subseteq Passage /\ listed \subseteq Passage
    /\ ppr = NoEngine \/ ppr \subseteq Passage
    /\ ready \in BOOLEAN
    /\ rewrites \in Nat
    /\ query \in [Queries -> Asked]
    /\ past \in History

(* An answer so far is part of one ranking, without what is still missing. *)
ListInv ==
    \A q \in Queries :
        /\ query[q].docs = query[q].ids
        /\ query[q].ids \in Orders(Passage)
        /\ At(q, "texts") =>
              /\ query[q].top \in Orders(Passage)
              /\ Range(query[q].ids) \cup query[q].missing \subseteq Range(query[q].top)
              /\ Range(query[q].ids) \cap query[q].missing = {}

(* What the stores hold while a rewriter goes through them.                *)
StoreInv ==
    /\ wpc \in {"idle", "wait", "sync", "vectors", "lists", "swap", "forget"}
    /\ ~Rewriting => vdb = memory /\ kv = memory
    /\ wpc = "wait" => memory \subseteq goal
    /\ wpc = "vectors" => goal \subseteq memory /\ vdb \subseteq memory /\ kv \subseteq goal
    /\ wpc \in {"sync", "forget"} => vdb \subseteq goal /\ kv \subseteq goal
    /\ wpc = "forget" => goal = {}
    /\ wpc \in {"lists", "swap"} => vdb = goal /\ kv = goal

Corpora == memory \cup (IF Rewriting THEN goal ELSE {})

(* What a query has seen of the corpus while it runs.                      *)
SeenInv ==
    \A q \in Queries : Running(q) =>
        /\ Corpora \subseteq past.seen[q]
        /\ ~past.disturbed[q] => ~Rewriting /\ past.seen[q] = memory

(* A preparation no rewrite ran during has the current corpus, and so has  *)
(* a ready engine that comes from one.                                     *)
EngineInv ==
    /\ \A q \in Queries : At(q, "engine") /\ ~past.mixed[q] =>
          ~Rewriting /\ listed = memory /\ content = memory
    /\ ready /\ ~past.engineTorn => content \subseteq Corpora
    /\ ready /\ ~past.engineTorn /\ ~Rewriting => ppr = memory /\ content = memory

PastPreparation == {"facts", "schemas", "dense", "rank", "texts", "read"}

(* What a query works on once it has begun its preparation, and what it    *)
(* may have answered with.                                                 *)
Works(q) ==
    /\ At(q, "engine") => content \subseteq past.seen[q]
    /\ query[q].pc \in PastPreparation /\ ~past.torn[q] => content \subseteq past.seen[q]
    /\ query[q].pc \in {"facts", "schemas", "rank"} /\ ~past.torn[q] /\ ~past.disturbed[q] =>
          ppr = memory /\ content = memory
    /\ At(q, "texts") => past.torn[q] \/ past.disturbed[q]
    /\ query[q].pc \in {"texts", "read", "done"} /\ ~past.torn[q] =>
          Range(query[q].ids) \subseteq past.seen[q]
    /\ query[q].pc \in {"read", "done"} /\ ~past.torn[q] /\ ~past.disturbed[q] =>
          query[q].ids \in Rankings(past.seen[q])

UseInv == \A q \in Queries : query[q].mode # "bypass" => Works(q)

=============================================================================
