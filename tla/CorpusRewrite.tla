---------------------------- MODULE CorpusRewrite ----------------------------
(***************************************************************************)
(* How the engine replaces its corpus and how queries read it: ainsert,    *)
(* adelete_by_doc_ids and aclear_all rewriting the vector stores, the      *)
(* graph and the memory snapshot, and the queries that prepare retrieval   *)
(* from them.                                                              *)
(*                                                                         *)
(* One rewriter runs at a time, since the routes that rewrite hold the     *)
(* pipeline lock (module DocPipeline); readers run at any time.  A step is *)
(* the code between two suspension points.  The stores are the file-backed *)
(* ones: each keeps its contents in memory and saves them to its file,     *)
(* at once outside a batch and when the batch ends inside one.             *)
(***************************************************************************)
EXTENDS Naturals, Sequences, FiniteSets

CONSTANTS
    Readers,     \* queries being served
    Rewriter,    \* the task that rewrites the corpus
    NoOne,       \* holder of a free corpus lock
    Passage,     \* chunk ids
    Fact,        \* fact ids
    Entity,      \* entity ids
    Schema,      \* schema ids
    FactsOf,     \* FactsOf[p]: the facts extracted from a passage
    SurfacesOf,  \* SurfacesOf[p]: the entities named in its extraction
    EndsOf,      \* EndsOf[f]: the entities a fact joins
    SchemasOf,   \* SchemasOf[f]: the schemas the fact can be typed with
    NoMemory,    \* no snapshot, or an empty graph
    Torn,        \* a graph cleared and not yet filled again
    Kinds,       \* the rewrites requested
    Modes,       \* the query modes used
    Faults       \* what may go wrong

AllKinds  == {"insert", "delete", "clear"}
AllModes  == {"ppr", "direct"}
AllFaults == {"rebuild", "embedding", "cancel", "kill", "tear"}

ASSUME CorpusAssumption ==
    /\ Rewriter \notin Readers
    /\ NoOne \notin Readers \cup {Rewriter}
    /\ FactsOf \in [Passage -> SUBSET Fact]
    /\ SurfacesOf \in [Passage -> SUBSET Entity]
    /\ EndsOf \in [Fact -> SUBSET Entity]
    /\ SchemasOf \in [Fact -> SUBSET Schema]
    /\ Kinds \subseteq AllKinds
    /\ Modes \subseteq AllModes
    /\ Faults \subseteq AllFaults

VARIABLES
    cache,     \* openie_kv: the chunks whose extraction is cached, durable at once
    vec,       \* ids held by the vector stores and chunks_kv
    graph,     \* the memory whose graph the graph store holds
    snapshot,  \* memory_kv: the memory snapshot
    vecFile, graphFile, snapshotFile,  \* what the files of those stores hold
    memory,    \* self.memory
    ids,       \* self._passage_ids, _fact_ids, _entity_ids, _schema_ids
    ppr,       \* self._ppr: the graph the PPR engine was built from
    ready,     \* self.ready_to_retrieve
    lock,      \* self._corpus_lock
    up,        \* the process is up
    wpc,       \* where the rewriter stands
    kind,      \* what it does
    at,        \* the next store of the series it is going through
    old,       \* the ids it takes for stored
    target,    \* the memory it installs
    rpc        \* where each reader stands

stored   == <<vec, graph, snapshot>>
files    == <<vecFile, graphFile, snapshotFile>>
engine   == <<memory, ids, ppr, ready>>
rewriter == <<wpc, kind, at, old, target>>
vars == <<cache, stored, files, engine, lock, up, rewriter, rpc>>

----------------------------------------------------------------------------
(* Memories and the ids they stand for, layer by layer.                    *)

Id    == Passage \cup Fact \cup Entity \cup Schema
Ids   == [passages : SUBSET Passage, facts : SUBSET Fact,
          entities : SUBSET Entity, schemas : SUBSET Schema]
NoIds == [passages |-> {}, facts |-> {}, entities |-> {}, schemas |-> {}]

(* The layer whose ids a store holds. *)
LayerOf == [chunks_vdb |-> "passages", chunks_kv |-> "passages",
            facts_vdb |-> "facts", entities_vdb |-> "entities",
            schemas_vdb |-> "schemas"]
Store   == DOMAIN LayerOf

(* "active" are the facts _active_facts keeps. *)
Memory == [passages : SUBSET Passage, facts : SUBSET Fact,
           active : SUBSET Fact, schemas : SUBSET Schema]

FactsIn(P)    == UNION {FactsOf[p] : p \in P}
SurfacesIn(P) == UNION {SurfacesOf[p] : p \in P}
EndsIn(F)     == UNION {EndsOf[f] : f \in F}

(* What _rebuild_memory_from_openie can make of the cached chunks.  The    *)
(* conflict stage drops the facts the model decides against; the ontology  *)
(* filter keeps some schemas and leaves some facts inactive.               *)
Rebuilt(P, runConflicts) ==
    {m \in Memory :
        /\ m.passages = P
        /\ m.facts \subseteq FactsIn(P)
        /\ ~runConflicts => m.facts = FactsIn(P)
        /\ m.active \subseteq m.facts
        /\ m.schemas \subseteq UNION {SchemasOf[f] : f \in m.facts}}

(* The ids _embed_and_store_memory wants stored: active facts only. *)
Wanted(m) == [passages |-> m.passages, facts |-> m.active,
              entities |-> EndsIn(m.facts) \cup SurfacesIn(m.passages),
              schemas |-> m.schemas]

(* The ids prepare_retrieval lists before it knows the entities. *)
Listed(m) == [passages |-> m.passages, facts |-> m.facts,
              entities |-> {}, schemas |-> m.schemas]

(* The ids _previous_vector_ids reads out of a snapshot. *)
Claimed(m) == [passages |-> m.passages, facts |-> m.facts,
               entities |-> EndsIn(m.facts), schemas |-> m.schemas]

(* _previous_vector_ids: the lists in memory, else the snapshot. *)
PreviousIds == IF ids # NoIds THEN ids
               ELSE IF snapshot = NoMemory THEN NoIds
               ELSE Claimed(snapshot)

----------------------------------------------------------------------------
(* The order in which a rewriter goes through the stores.                  *)

SyncOps == << <<"purge", "chunks_vdb">>, <<"purge", "chunks_kv">>,
              <<"add", "chunks_vdb">>, <<"add", "chunks_kv">>,
              <<"purge", "facts_vdb">>, <<"add", "facts_vdb">>,
              <<"purge", "entities_vdb">>, <<"add", "entities_vdb">>,
              <<"purge", "schemas_vdb">>, <<"add", "schemas_vdb">> >>

(* The exit stack of _storage_batch unwinds the order it entered. *)
FlushOps == <<"graph", "memory_kv", "chunks_kv", "schemas_vdb",
              "entities_vdb", "facts_vdb", "chunks_vdb">>

DropOpsTextOnly == <<"chunks_kv">>
DropOps  == <<"chunks_kv", "chunks_vdb">>
WipeOps  == <<"chunks_vdb", "chunks_kv", "facts_vdb", "entities_vdb",
              "schemas_vdb", "memory_kv", "graph">>
ClearOps == <<"memory_kv", "openie_kv", "chunks_kv", "chunks_vdb",
              "entities_vdb", "facts_vdb", "schemas_vdb", "graph">>

----------------------------------------------------------------------------

Wpcs == {"idle", "rebuild", "wait", "diff", "sync", "list", "fill",
         "snapshot", "swap", "flush", "drop", "wipe", "forget", "clear", "reset"}
Rpcs == {"idle", "wait", "load", "entities", "edges", "search"}

(* Where the rewriter changes stores, or has changed some of them. *)
RewritePcs == {"sync", "list", "fill", "snapshot", "swap", "flush"}

(* Where it has a memory to install. *)
InstallPcs == {"wait", "diff"} \cup RewritePcs

TypeOK ==
    /\ cache \subseteq Passage
    /\ vec \in [Store -> SUBSET Id]
    /\ graph \in Memory \cup {NoMemory, Torn}
    /\ snapshot \in Memory \cup {NoMemory}
    /\ vecFile \in [Store -> SUBSET Id]
    /\ graphFile \in Memory \cup {NoMemory, Torn}
    /\ snapshotFile \in Memory \cup {NoMemory}
    /\ memory \in Memory \cup {NoMemory}
    /\ ids \in Ids
    /\ ppr \in Memory \cup {NoMemory, Torn}
    /\ ready \in BOOLEAN
    /\ lock \in Readers \cup {NoOne, Rewriter}
    /\ up \in BOOLEAN
    /\ wpc \in Wpcs
    /\ kind \in AllKinds \cup {"none"}
    /\ at \in 0..Len(SyncOps)
    /\ wpc = "sync" => at # 0
    /\ wpc = "flush" => at \in 1..Len(FlushOps)
    /\ wpc = "drop" => at \in 1..Len(DropOps)
    /\ wpc = "wipe" => at \in 1..Len(WipeOps)
    /\ wpc = "clear" => at \in 1..Len(ClearOps)
    /\ old \in Ids
    /\ target \in Memory \cup {NoMemory}
    /\ wpc \in InstallPcs => target \in Memory
    /\ rpc \in [Readers -> Rpcs]

NoVectors == [s \in Store |-> {}]

Init ==
    /\ cache = {}
    /\ vec = NoVectors /\ graph = NoMemory /\ snapshot = NoMemory
    /\ vecFile = NoVectors /\ graphFile = NoMemory /\ snapshotFile = NoMemory
    /\ memory = NoMemory /\ ids = NoIds /\ ppr = NoMemory /\ ready = FALSE
    /\ lock = NoOne /\ up = TRUE
    /\ wpc = "idle" /\ kind = "none" /\ at = 0
    /\ old = NoIds /\ target = NoMemory
    /\ rpc = [r \in Readers |-> "idle"]

----------------------------------------------------------------------------
(* Steps of the rewriter.                                                  *)

At(p) == up /\ wpc = p

Retire == /\ wpc' = "idle" /\ kind' = "none" /\ at' = 0
          /\ old' = NoIds /\ target' = NoMemory

(* Only ainsert rewrites inside _storage_batch and under the corpus lock.  *)
Batched == kind = "insert"

PutVec(s, X) ==
    /\ vec' = [vec EXCEPT ![s] = X]
    /\ vecFile' = IF Batched THEN vecFile ELSE [vecFile EXCEPT ![s] = X]

(* ainsert has extracted what was missing from the cache. *)
Extract(P) ==
    /\ At("idle") /\ "insert" \in Kinds
    /\ P # {}
    /\ cache' = cache \cup P
    /\ kind' = "insert" /\ wpc' = "rebuild"
    /\ UNCHANGED <<stored, files, engine, lock, up, at, old, target, rpc>>

(* A provider error in the schema or conflict stages. *)
RebuildFails ==
    /\ At("rebuild") /\ "rebuild" \in Faults
    /\ Retire
    /\ UNCHANGED <<cache, stored, files, engine, lock, up, rpc>>

RebuildInsertAnyway(m) ==
    /\ At("rebuild") /\ kind = "insert"
    /\ m \in Rebuilt(cache, TRUE)
    /\ target' = m
    /\ ready' = FALSE
    /\ wpc' = "diff"
    /\ UNCHANGED <<cache, stored, files, memory, ids, ppr, lock, up, kind, at, old, rpc>>

(* ainsert has its memory: it clears readiness and asks for the lock. *)
RebuildInsert(m) ==
    /\ At("rebuild") /\ kind = "insert"
    /\ m \in Rebuilt(cache, TRUE)
    /\ target' = m
    /\ ready' = FALSE
    /\ \/ /\ lock = NoOne
          /\ lock' = Rewriter
          /\ wpc' = "diff"
       \/ /\ lock # NoOne
          /\ wpc' = "wait"
          /\ UNCHANGED lock
    /\ UNCHANGED <<cache, stored, files, memory, ids, ppr, up, kind, at, old, rpc>>

AcquireInsert ==
    /\ At("wait") /\ lock = NoOne
    /\ lock' = Rewriter
    /\ wpc' = "diff"
    /\ UNCHANGED <<cache, stored, files, engine, up, kind, at, old, target, rpc>>

(* _rebuild_corpus_after_delete goes on without the lock. *)
RebuildDelete(m) ==
    /\ At("rebuild") /\ kind = "delete"
    /\ cache # {}
    /\ m \in Rebuilt(cache, FALSE)
    /\ target' = m
    /\ wpc' = "diff"
    /\ UNCHANGED <<cache, stored, files, engine, lock, up, kind, at, old, rpc>>

DiffPublishing ==
    /\ At("diff")
    /\ old' = PreviousIds
    /\ ids' = Wanted(target)
    /\ at' = 1 /\ wpc' = "sync"
    /\ UNCHANGED <<cache, stored, files, memory, ppr, ready, lock, up, kind, target, rpc>>

Diff ==
    /\ At("diff")
    /\ old' = PreviousIds
    /\ at' = 1 /\ wpc' = "sync"
    /\ UNCHANGED <<cache, stored, files, engine, lock, up, kind, target, rpc>>

Orphans(s)   == old[LayerOf[s]] \ Wanted(target)[LayerOf[s]]
Additions(s) == Wanted(target)[LayerOf[s]] \ old[LayerOf[s]]

(* _embed_and_store_memory, one store after the other. *)
Sync ==
    /\ At("sync")
    /\ \E what \in {"purge", "add"}, s \in Store :
          /\ SyncOps[at] = <<what, s>>
          /\ PutVec(s, IF what = "purge" THEN vec[s] \ Orphans(s)
                                         ELSE vec[s] \cup Additions(s))
    /\ IF at = Len(SyncOps) THEN at' = 0 /\ wpc' = "list"
                            ELSE at' = at + 1 /\ UNCHANGED wpc
    /\ UNCHANGED <<cache, graph, graphFile, snapshot, snapshotFile, engine, lock, up,
                   kind, old, target, rpc>>

(* The exception leaves the batch, which saves what was done so far. *)
EmbeddingFails ==
    /\ At("sync") /\ "embedding" \in Faults
    /\ \E s \in Store \ {"chunks_kv"} : SyncOps[at] = <<"add", s>> /\ Additions(s) # {}
    /\ IF Batched THEN /\ wpc' = "flush" /\ at' = 1
                       /\ UNCHANGED <<kind, old, target>>
                  ELSE Retire
    /\ UNCHANGED <<cache, stored, files, engine, lock, up, rpc>>

(* The new id lists are in place and _install_memory_graph clears the graph. *)
ListIds ==
    /\ At("list")
    /\ ids' = Wanted(target)
    /\ graph' = Torn
    /\ wpc' = "fill"
    /\ UNCHANGED <<cache, vec, snapshot, files, memory, ppr, ready, lock, up,
                   kind, at, old, target, rpc>>

FillGraph ==
    /\ At("fill")
    /\ graph' = target
    /\ graphFile' = IF Batched THEN graphFile ELSE target
    /\ wpc' = "snapshot"
    /\ UNCHANGED <<cache, vec, vecFile, snapshot, snapshotFile, engine, lock, up,
                   kind, at, old, target, rpc>>

WriteSnapshot ==
    /\ At("snapshot")
    /\ snapshot' = target
    /\ snapshotFile' = IF Batched THEN snapshotFile ELSE target
    /\ wpc' = "swap"
    /\ UNCHANGED <<cache, vec, vecFile, graph, graphFile, engine, lock, up,
                   kind, at, old, target, rpc>>

SwapMemoryKeepingReady ==
    /\ At("swap")
    /\ memory' = target
    /\ IF Batched THEN /\ wpc' = "flush" /\ at' = 1
                       /\ UNCHANGED <<kind, old, target>>
                  ELSE Retire
    /\ UNCHANGED <<cache, stored, files, ids, ppr, ready, lock, up, rpc>>

SwapMemory ==
    /\ At("swap")
    /\ memory' = target
    /\ ready' = FALSE
    /\ IF Batched THEN /\ wpc' = "flush" /\ at' = 1
                       /\ UNCHANGED <<kind, old, target>>
                  ELSE Retire
    /\ UNCHANGED <<cache, stored, files, ids, ppr, lock, up, rpc>>

(* One store of the batch saves its file; after the last, the lock is free. *)
Flush ==
    /\ At("flush")
    /\ \/ /\ FlushOps[at] = "graph"
          /\ graphFile' = graph
          /\ UNCHANGED <<vecFile, snapshotFile>>
       \/ /\ FlushOps[at] = "memory_kv"
          /\ snapshotFile' = snapshot
          /\ UNCHANGED <<vecFile, graphFile>>
       \/ /\ FlushOps[at] \in Store
          /\ vecFile' = [vecFile EXCEPT ![FlushOps[at]] = vec[FlushOps[at]]]
          /\ UNCHANGED <<graphFile, snapshotFile>>
    /\ IF at = Len(FlushOps) THEN Retire /\ lock' = NoOne
                             ELSE /\ at' = at + 1
                                  /\ UNCHANGED <<lock, wpc, kind, old, target>>
    /\ UNCHANGED <<cache, stored, engine, up, rpc>>

(* adelete_by_doc_ids has chosen the chunks no other document refers to    *)
(* and dropped them from the cache.                                        *)
Delete(D) ==
    /\ At("idle") /\ "delete" \in Kinds
    /\ cache' = cache \ D
    /\ kind' = "delete" /\ wpc' = "drop" /\ at' = 1
    /\ old' = [NoIds EXCEPT !.passages = D]
    /\ UNCHANGED <<stored, files, engine, lock, up, target, rpc>>

DropChunks ==
    /\ At("drop")
    /\ PutVec(DropOps[at], vec[DropOps[at]] \ old.passages)
    /\ IF at = Len(DropOps) THEN at' = 0 /\ wpc' = "rebuild"
                            ELSE at' = at + 1 /\ UNCHANGED wpc
    /\ UNCHANGED <<cache, graph, graphFile, snapshot, snapshotFile, engine, lock, up,
                   kind, old, target, rpc>>

(* Nothing is left in the cache: _clear_empty_corpus. *)
EmptyCorpus ==
    /\ At("rebuild") /\ kind = "delete"
    /\ cache = {}
    /\ old' = PreviousIds
    /\ wpc' = "wipe" /\ at' = 1
    /\ UNCHANGED <<cache, stored, files, engine, lock, up, kind, target, rpc>>

(* What a rewriter without a batch does to one store when it empties it. *)
Empty(s, kept) ==
    \/ /\ s \in Store
       /\ PutVec(s, kept)
       /\ UNCHANGED <<cache, graph, graphFile, snapshot, snapshotFile>>
    \/ /\ s = "openie_kv"
       /\ cache' = {}
       /\ UNCHANGED <<stored, files>>
    \/ /\ s = "memory_kv"
       /\ snapshot' = NoMemory /\ snapshotFile' = NoMemory
       /\ UNCHANGED <<cache, vec, vecFile, graph, graphFile>>
    \/ /\ s = "graph"
       /\ graph' = NoMemory /\ graphFile' = NoMemory
       /\ UNCHANGED <<cache, vec, vecFile, snapshot, snapshotFile>>

Wipe ==
    /\ At("wipe")
    /\ LET s == WipeOps[at] IN
          Empty(s, IF s \in Store THEN vec[s] \ old[LayerOf[s]] ELSE {})
    /\ IF at = Len(WipeOps) THEN at' = 0 /\ wpc' = "forget"
                            ELSE at' = at + 1 /\ UNCHANGED wpc
    /\ UNCHANGED <<engine, lock, up, kind, old, target, rpc>>

Forget ==
    /\ At("forget")
    /\ memory' = NoMemory /\ ready' = FALSE /\ ids' = NoIds
    /\ Retire
    /\ UNCHANGED <<cache, stored, files, ppr, lock, up, rpc>>

(* aclear_all drops every store. *)
Clear ==
    /\ At("idle") /\ "clear" \in Kinds
    /\ kind' = "clear" /\ wpc' = "clear" /\ at' = 1
    /\ UNCHANGED <<cache, stored, files, engine, lock, up, old, target, rpc>>

ClearStore ==
    /\ At("clear")
    /\ Empty(ClearOps[at], {})
    /\ IF at = Len(ClearOps) THEN at' = 0 /\ wpc' = "reset"
                             ELSE at' = at + 1 /\ UNCHANGED wpc
    /\ UNCHANGED <<engine, lock, up, kind, old, target, rpc>>

ResetEngine ==
    /\ At("reset")
    /\ memory' = NoMemory /\ ready' = FALSE /\ ids' = NoIds /\ ppr' = NoMemory
    /\ Retire
    /\ UNCHANGED <<cache, stored, files, lock, up, rpc>>

----------------------------------------------------------------------------
(* Readers.  "ppr" queries go through aretrieve; "direct" ones are the     *)
(* naive and agent modes, which prepare retrieval without the corpus lock. *)

Enter(r, p) == rpc' = [rpc EXCEPT ![r] = p]

AskReady(r) ==
    /\ up /\ rpc[r] = "idle"
    /\ ready
    /\ "direct" \in Modes \/ ("ppr" \in Modes /\ ids.passages # {})
    /\ Enter(r, "search")
    /\ UNCHANGED <<cache, stored, files, engine, lock, up, rewriter>>

AskPrepare(r) ==
    /\ up /\ rpc[r] = "idle" /\ "ppr" \in Modes
    /\ ~(ready /\ ids.passages # {})
    /\ \/ lock = NoOne /\ lock' = r /\ Enter(r, "load")
       \/ lock # NoOne /\ Enter(r, "wait") /\ UNCHANGED lock
    /\ UNCHANGED <<cache, stored, files, engine, up, rewriter>>

AcquireReaderOfMemory(r) ==
    /\ up /\ rpc[r] = "wait" /\ lock = NoOne
    /\ snapshot # NoMemory
    /\ lock' = r
    /\ Enter(r, "load")
    /\ UNCHANGED <<cache, stored, files, engine, up, rewriter>>

AcquireReader(r) ==
    /\ up /\ rpc[r] = "wait" /\ lock = NoOne
    /\ lock' = r
    /\ Enter(r, "load")
    /\ UNCHANGED <<cache, stored, files, engine, up, rewriter>>

(* Direct modes also prepare when the map of sources is empty, which it    *)
(* may be in a ready engine.                                               *)
AskDirect(r) ==
    /\ up /\ rpc[r] = "idle" /\ "direct" \in Modes
    /\ Enter(r, "load")
    /\ UNCHANGED <<cache, stored, files, engine, lock, up, rewriter>>

(* prepare_retrieval: the memory and the lists made from it ... *)
PrepareLoad(r) ==
    /\ up /\ rpc[r] = "load"
    /\ memory' = IF memory = NoMemory THEN snapshot ELSE memory
    /\ ids' = IF memory' = NoMemory THEN NoIds ELSE Listed(memory')
    /\ Enter(r, IF memory' = NoMemory THEN "edges" ELSE "entities")
    /\ UNCHANGED <<cache, stored, files, ppr, ready, lock, up, rewriter>>

(* ... the entities of the memory and of everything the cache holds ... *)
PrepareEntities(r) ==
    /\ up /\ rpc[r] = "entities"
    /\ ids' = [ids EXCEPT !.entities =
                  SurfacesIn(cache) \cup
                  (IF memory = NoMemory THEN {} ELSE EndsIn(memory.facts))]
    /\ Enter(r, "edges")
    /\ UNCHANGED <<cache, stored, files, memory, ppr, ready, lock, up, rewriter>>

(* ... and the PPR engine.  Readiness is raised at the very end. *)
PrepareEdges(r) ==
    /\ up /\ rpc[r] = "edges"
    /\ ppr' = graph
    /\ ready' = (ids.passages # {})
    /\ lock' = IF lock = r THEN NoOne ELSE lock
    /\ Enter(r, "search")
    /\ UNCHANGED <<cache, stored, files, memory, ids, up, rewriter>>

Answer(r) ==
    /\ up /\ rpc[r] = "search"
    /\ Enter(r, "idle")
    /\ UNCHANGED <<cache, stored, files, engine, lock, up, rewriter>>

----------------------------------------------------------------------------
(* The process ends: what is in memory is lost, the files remain.          *)

Stop ==
    /\ up' = FALSE
    /\ vec' = vecFile' /\ graph' = graphFile' /\ snapshot' = snapshotFile'
    /\ memory' = NoMemory /\ ids' = NoIds /\ ppr' = NoMemory /\ ready' = FALSE
    /\ lock' = NoOne
    /\ wpc' = "idle" /\ kind' = "none" /\ at' = 0 /\ old' = NoIds /\ target' = NoMemory
    /\ rpc' = [r \in Readers |-> "idle"]
    /\ UNCHANGED cache

(* "tear" is the kill that falls between two saves of one batch. *)
Kill ==
    /\ up
    /\ "kill" \in Faults
    /\ wpc = "flush" => "tear" \in Faults
    /\ UNCHANGED files
    /\ Stop

(* Shutdown cancels the rewrite, and the batch saves on the way out. *)
Cancel ==
    /\ up
    /\ "cancel" \in Faults
    /\ wpc \in RewritePcs
    /\ vecFile' = vec /\ graphFile' = graph /\ snapshotFile' = snapshot
    /\ Stop

(* initialize_storages, and the warm-up of the server's lifespan, which an *)
(* embedded engine does not have.                                          *)
Boot(warm) ==
    /\ ~up
    /\ up' = TRUE
    /\ IF warm
       THEN /\ memory' = snapshot
            /\ ids' = IF snapshot = NoMemory THEN NoIds
                      ELSE [Listed(snapshot) EXCEPT !.entities =
                               SurfacesIn(cache) \cup EndsIn(snapshot.facts)]
            /\ ppr' = graph
            /\ ready' = (ids'.passages # {})
       ELSE UNCHANGED engine
    /\ UNCHANGED <<cache, stored, files, lock, rewriter, rpc>>

----------------------------------------------------------------------------

RewriterStep ==
    \/ AcquireInsert \/ Diff \/ Sync \/ EmbeddingFails
    \/ ListIds \/ FillGraph \/ WriteSnapshot \/ SwapMemory \/ Flush
    \/ DropChunks \/ EmptyCorpus \/ Wipe \/ Forget \/ ClearStore \/ ResetEngine
    \/ RebuildFails
    \/ \E m \in Memory : RebuildInsert(m) \/ RebuildDelete(m)

Request ==
    \/ \E P \in SUBSET Passage : Extract(P) \/ Delete(P)
    \/ Clear

ReaderStep(r) ==
    \/ AcquireReader(r)
    \/ PrepareLoad(r) \/ PrepareEntities(r) \/ PrepareEdges(r)
    \/ Answer(r)

Ask(r) == AskReady(r) \/ AskPrepare(r) \/ AskDirect(r)

Next ==
    \/ Request
    \/ RewriterStep
    \/ \E r \in Readers : Ask(r) \/ ReaderStep(r)
    \/ Kill \/ Cancel
    \/ \E warm \in BOOLEAN : Boot(warm)

Spec == Init /\ [][Next]_vars

(* asyncio resumes every task that can run, provider calls time out, and a *)
(* free asyncio lock goes to the task that has waited longest, so nobody   *)
(* who waits is passed over for ever.  Requests and kills need not happen. *)
FairSpec ==
    /\ Spec
    /\ WF_vars(RewriterStep) /\ SF_vars(AcquireInsert)
    /\ \A r \in Readers : WF_vars(ReaderStep(r)) /\ SF_vars(AcquireReader(r))
    /\ WF_vars(\E warm \in BOOLEAN : Boot(warm))

----------------------------------------------------------------------------
(* Properties.                                                             *)

(* No rewrite is under way. *)
AtRest == up /\ wpc = "idle"

(* A passage of the installed memory can be found: its vector and its text *)
(* are stored, whatever rewrites failed, were cancelled or killed before   *)
(* (_embed_and_store_memory embeds only what it does not take for stored). *)
PassagesIndexed ==
    AtRest /\ snapshot # NoMemory =>
        snapshot.passages \subseteq vec["chunks_vdb"] \cap vec["chunks_kv"]

(* An engine that says it is ready answers from what is stored: the maps,  *)
(* the memory and the PPR engine were made from the current snapshot and   *)
(* graph (prepare_retrieval against ainsert).                              *)
ReadyMeansCurrent ==
    AtRest /\ ready =>
        /\ memory = snapshot
        /\ ppr = graph
        /\ ids.passages = snapshot.passages

(* A reader that prepares under the corpus lock sees one corpus: the graph *)
(* and the snapshot do not change while it holds the lock.                 *)
LockedReadStable ==
    [][\A r \in Readers : lock = r /\ up' => UNCHANGED <<graph, snapshot>>]_vars

(* ainsert clears readiness before it touches the stores, so that no query *)
(* skips its preparation during the rewrite.                               *)
RewriteHidesState == lock = Rewriter => ~ready

(* No store of passages keeps a chunk that was deleted, whichever id lists *)
(* queries left behind (adelete_by_doc_ids drops the chunks by name).      *)
DeletedIsGone ==
    AtRest => vec["chunks_vdb"] \cup vec["chunks_kv"] \subseteq cache

(* A query that waits for the corpus lock is answered or lost in a stop.   *)
QueriesAnswered == \A r \in Readers : rpc[r] = "wait" ~> rpc[r] = "idle"

----------------------------------------------------------------------------
(* What the properties of an engine that only inserts rest on.             *)

InsertsOnly == Kinds \subseteq {"insert"}

PreparePcs == {"load", "entities", "edges"}

(* Where ainsert holds the corpus lock. *)
LockedPcs == {"diff"} \cup RewritePcs

(* The rewriter is an ainsert, it holds the lock when it must, and what it *)
(* installs covers the cache.                                              *)
InsertInv ==
    /\ wpc \in {"idle", "rebuild", "wait"} \cup LockedPcs
    /\ wpc # "idle" => kind = "insert"
    /\ wpc \in LockedPcs <=> lock = Rewriter
    /\ ~up => wpc = "idle" /\ lock = NoOne
    /\ wpc \in InstallPcs => target.passages = cache

(* The passages both stores hold. *)
Held == vec["chunks_vdb"] \cap vec["chunks_kv"]

Covered(m) == m # NoMemory => m.passages \subseteq Held \cap cache

(* Every list of passages the next diff may start from is stored, in the   *)
(* process and, but for the moment of the flush, in the files.             *)
IndexInv ==
    /\ Covered(memory) /\ Covered(snapshot)
    /\ ids.passages \subseteq Held \cap cache
    /\ wpc = "sync" => old.passages \subseteq Held \cap cache
    /\ wpc = "sync" /\ at > 3 => cache \subseteq vec["chunks_vdb"]
    /\ wpc = "sync" /\ at > 4 => cache \subseteq vec["chunks_kv"]
    /\ wpc \in {"list", "fill", "snapshot", "swap"} => cache \subseteq Held

FileInv ==
    /\ snapshotFile # NoMemory => snapshotFile.passages \subseteq cache
    /\ snapshotFile # NoMemory /\ (wpc = "flush" => at <= 2) =>
          snapshotFile.passages \subseteq vecFile["chunks_vdb"] \cap vecFile["chunks_kv"]
    /\ wpc = "flush" /\ at > 2 => snapshotFile = snapshot
    /\ wpc = "flush" /\ at > 3 => vecFile["chunks_kv"] = vec["chunks_kv"]

(* Where the memory and the graph are being replaced. *)
SwapPcs == {"fill", "snapshot", "swap"}

(* What readers prepare under the lock is current, and stays so until an   *)
(* ainsert replaces it, which lowers the flag when it is done.             *)
ReadyInv ==
    /\ wpc # "swap" => memory \in {NoMemory, snapshot}
    /\ wpc = "swap" => snapshot = target
    /\ \A r \in Readers : rpc[r] \in PreparePcs => lock = r
    /\ \A r \in Readers : rpc[r] = "entities" =>
          memory # NoMemory /\ ids.passages = memory.passages
    /\ \A r \in Readers : rpc[r] = "edges" =>
          /\ memory = snapshot
          /\ ids.passages = IF memory = NoMemory THEN {} ELSE memory.passages
    /\ ready /\ wpc \notin SwapPcs =>
          /\ memory = snapshot /\ snapshot # NoMemory
          /\ ppr = graph
          /\ ids.passages = snapshot.passages

----------------------------------------------------------------------------
(* What the deletes rest on.                                               *)

(* The passages of the two stores S holds, S being vec or vecFile.         *)
PassagesOf(S) == S["chunks_vdb"] \cup S["chunks_kv"]

(* What each kind of rewrite goes through. *)
KindInv ==
    /\ wpc = "idle" <=> kind = "none"
    /\ ~up => wpc = "idle"
    /\ wpc \in {"drop", "wipe", "forget"} => kind = "delete"
    /\ wpc \in {"clear", "reset"} <=> kind = "clear"
    /\ wpc = "flush" => kind = "insert"
    /\ wpc \in InstallPcs => target.passages = cache

(* Both stores, in the process and in their files, hold cached passages,   *)
(* but for what the delete or the clear under way has yet to drop.         *)
CachedInv ==
    \A S \in {vec, vecFile} :
        /\ wpc \notin {"drop", "clear"} => PassagesOf(S) \subseteq cache
        /\ wpc = "drop" => PassagesOf(S) \subseteq cache \cup old.passages
        /\ wpc = "drop" /\ at = 2 => S["chunks_kv"] \subseteq cache
        /\ wpc = "clear" /\ at <= 2 => PassagesOf(S) \subseteq cache
        /\ wpc = "clear" /\ at >= 4 => S["chunks_kv"] = {}
        /\ wpc = "clear" /\ at >= 5 => S["chunks_vdb"] = {}

(* No kill falls between the first and the last drop of a delete or of a   *)
(* clear.                                                                  *)
KillSparesDrops == [][Kill => wpc \notin {"drop", "clear"}]_vars
=============================================================================
