----------------------------- MODULE MemoryRebuild -----------------------------
(***************************************************************************)
(* How the engine turns the cached extractions of a corpus into a          *)
(* three-layer memory (_rebuild_memory_from_openie): build, schema         *)
(* extraction with a cache, ontology filter, conflict stages, then what is *)
(* indexed of the memory and its snapshot.  CorpusRewrite takes the result *)
(* of all this for any memory of the cached chunks (its Rebuilt); here the *)
(* stages are opened up.  Model answers are arbitrary.                     *)
(*                                                                         *)
(* The batches of a schema extraction run concurrently (asyncio.gather),   *)
(* so their answers come in any order; the other stages are sequential.    *)
(***************************************************************************)
EXTENDS ThreeLayerMemory

CONSTANTS
    ChunkOrder,       \* the chunk ids in sorted order
    TriplesOf,        \* TriplesOf[c]: the triples extracted from a chunk
    Ontology,         \* the labels that are ontologies
    MinFrequency,     \* ONTOLOGY_MIN_FREQUENCY
    MaxDeactivation,  \* ONTOLOGY_MAX_DEACTIVATION_RATIO, in percent
    BatchSize,        \* ONTOLOGY_BATCH_SIZE
    MaxPairs,         \* bound: pairs in one answer
    MaxItems,         \* bound: resolutions in one answer
    Actions,          \* what a resolution may decide
    HasModel          \* an LLM is configured

Chunk  == Range(ChunkOrder)
Triple == Label \ Ontology
AllActions == {"kept", "modified", "discarded"}

ASSUME RebuildAssumption ==
    /\ Ontology \subseteq Label
    /\ ChunkOrder \in Seq(Chunk) /\ IsInjective(ChunkOrder)
    /\ TriplesOf \in [Chunk -> Seq(Triple)]
    /\ MinFrequency \in Nat /\ MaxDeactivation \in 0 .. 100 /\ BatchSize \in Nat \ {0}
    /\ MaxPairs \in Nat /\ MaxItems \in Nat /\ Actions \subseteq AllActions
    /\ HasModel \in BOOLEAN
    /\ \A o \in Ontology, t \in Triple : Canon[t] # Canon[o]

VARIABLES
    corpus,    \* the chunks the rebuild is for
    typed,     \* extracted_triple_ontology of openie_kv: per chunk, triple -> ontology
    memory,    \* the memory the rebuild makes, and at the end installs
    phase,     \* the stage the rebuild is in
    batches,   \* schema batches out at the model, with the answers still allowed
    inactive,  \* self._inactive_fact_idxs
    silenced,  \* history: keys of the facts the filter silenced
    touched    \* history: keys the resolutions of this rebuild name, with the action

rebuildVars == <<corpus, typed, memory, phase, batches, inactive, silenced, touched>>

OpenIEDocs(C) ==
    LET here == Taken(ChunkOrder, {i \in DOMAIN ChunkOrder : ChunkOrder[i] \in C})
    IN  [i \in DOMAIN here |-> [chunk |-> here[i], triples |-> TriplesOf[here[i]]]]

Untyped == [c \in Chunk |-> NoEntries]

RebuildInit ==
    /\ corpus = {} /\ typed = Untyped /\ memory = EmptyMemory /\ phase = "idle"
    /\ batches = NoEntries /\ inactive = {}
    /\ silenced = {} /\ touched = {}

----------------------------------------------------------------------------
(* A document was inserted or deleted: the corpus changes, and the memory  *)
(* is built anew from its cached extractions.  Chunks taken out are        *)
(* dropped from openie_kv with the ontology kept beside their triples.     *)
Build(C) ==
    /\ phase = "idle"
    /\ corpus' = C
    /\ typed' = [c \in Chunk |-> IF c \in C THEN typed[c] ELSE NoEntries]
    /\ memory' = Built(OpenIEDocs(C))
    /\ phase' = "cached"
    /\ UNCHANGED <<batches, inactive, silenced, touched>>

(* extract_schema, first half.  The cache is asked by canonical key, since *)
(* a fact may be spelled otherwise now than when it was typed.             *)
CachedPairs(c) == SetToSeq({<<t, typed[c][t]>> : t \in DOMAIN typed[c]})

LinkPairs(m, pairs) ==
    FoldLeft(LAMBDA n, pair :
                 IF Canon[pair[1]] \in DOMAIN n.factAt
                 THEN LinkFactToSchema(n, n.factAt[Canon[pair[1]]], pair[2])
                 ELSE n,
             m, pairs)

ApplyCachedOntology(m) == FoldLeft(LAMBDA n, c : LinkPairs(n, CachedPairs(c)), m, ChunkOrder)

Unlinked(m) == {f \in DOMAIN m.facts : m.facts[f].schema = NoSchema}

(* The batches of a passage cut its untyped facts into runs of BatchSize;  *)
(* a fact of two passages is asked twice.                                  *)
BatchesOf(m) ==
    LET FactsAt(p) == SetToSortSeq(m.passages[p].facts \cap Unlinked(m), LAMBDA x, y : x < y)
        Run(p, i) == {FactsAt(p)[j] : j \in {k \in DOMAIN FactsAt(p) :
                                             (k - 1) \div BatchSize = i}}
    IN  {<<p, Run(p, i)>> : p \in DOMAIN m.passages, i \in 0 .. Len(m.facts)}
            \ {<<p, {}>> : p \in DOMAIN m.passages}

ExtractSchema ==
    LET linked == ApplyCachedOntology(memory)
    IN  /\ phase = "cached"
        /\ memory' = linked
        /\ IF linked.facts = <<>> \/ Unlinked(linked) = {} \/ ~HasModel
           THEN phase' = "filter" /\ UNCHANGED batches
           ELSE /\ phase' = "schema"
                /\ batches' = [b \in BatchesOf(linked) |-> 2]
        /\ UNCHANGED <<corpus, typed, inactive, silenced, touched>>

----------------------------------------------------------------------------
(* A batch comes back: with pairs, that are linked when their triple names *)
(* a fact; without any, when it is asked once more; or with an exception.  *)
Answers == UNION {[1 .. n -> Triple \X Ontology] : n \in 1 .. MaxPairs}

SchemaAnswer(b) ==
    /\ phase = "schema" /\ b \in DOMAIN batches
    /\ \E pairs \in Answers : memory' = LinkPairs(memory, pairs)
    /\ batches' = Pop(batches, b)
    /\ UNCHANGED <<corpus, typed, phase, inactive, silenced, touched>>

SchemaNoAnswer(b) ==
    /\ phase = "schema" /\ b \in DOMAIN batches
    /\ batches' = IF batches[b] = 1 THEN Pop(batches, b) ELSE [batches EXCEPT ![b] = @ - 1]
    /\ UNCHANGED <<corpus, typed, memory, phase, inactive, silenced, touched>>

SchemaFails(b) ==
    /\ phase = "schema" /\ b \in DOMAIN batches
    /\ batches' = Pop(batches, b)
    /\ UNCHANGED <<corpus, typed, memory, phase, inactive, silenced, touched>>

(* _persist_ontology_to_openie: per chunk, the type of each of its facts   *)
(* under the spelling displayed.  A chunk without a typed fact keeps what  *)
(* it had; a failing write is logged and forgotten.                        *)
OntologyOf(m, c) ==
    LET of == {f \in DOMAIN m.facts : m.facts[f].schema # NoSchema
                                      /\ m.chunkAt[c] \in m.facts[f].passages}
    IN  [t \in {m.facts[f].content : f \in of} |->
            m.schemas[m.facts[m.factAt[Canon[t]]].schema].content]

SchemasDone ==
    /\ phase = "schema" /\ batches = NoEntries
    /\ memory' = RecomputeSchemaFrequencies(memory)
    /\ typed' = [c \in Chunk |->
                    IF c \in corpus /\ OntologyOf(memory, c) # NoEntries
                    THEN OntologyOf(memory, c) ELSE typed[c]]
    /\ phase' = "filter"
    /\ UNCHANGED <<corpus, batches, inactive, silenced, touched>>

SchemasNotSaved ==
    /\ phase = "schema" /\ batches = NoEntries
    /\ memory' = RecomputeSchemaFrequencies(memory)
    /\ phase' = "filter"
    /\ UNCHANGED <<corpus, typed, batches, inactive, silenced, touched>>

----------------------------------------------------------------------------
(* filter_ontology: a dry run counts the facts the threshold would silence *)
(* from the stored frequencies; too many, and nothing is filtered.         *)
TypedFacts(m) == DOMAIN m.facts \ Unlinked(m)

Doomed(m) == UNION {m.schemas[i].facts :
                       i \in {j \in DOMAIN m.schemas : m.schemas[j].frequency < MinFrequency}}

TooMany(m) == /\ TypedFacts(m) # {}
              /\ Cardinality(Doomed(m)) * 100 > MaxDeactivation * Cardinality(TypedFacts(m))

(* A mutant: a filter that is skipped leaves the old positions.            *)
FilterWithoutReset ==
    /\ phase = "filter"
    /\ LET filtered == FilterSchemas(memory, MinFrequency)
           lost == TypedFacts(memory) \ TypedFacts(filtered)
       IN  IF MinFrequency = 0 \/ TooMany(memory)
           THEN UNCHANGED <<memory, inactive, silenced>>
           ELSE /\ memory' = filtered
                /\ inactive' = lost
                /\ silenced' = {Canon[filtered.facts[f].content] : f \in lost}
    /\ phase' \in {"conflicts", "install"}
    /\ UNCHANGED <<corpus, typed, batches, touched>>

FilterOntology ==
    /\ phase = "filter"
    /\ IF MinFrequency = 0 \/ TooMany(memory)
       THEN memory' = memory /\ inactive' = {} /\ silenced' = {}
       ELSE LET filtered == FilterSchemas(memory, MinFrequency)
                lost == TypedFacts(memory) \ TypedFacts(filtered)
            IN  /\ memory' = filtered
                /\ inactive' = lost
                /\ silenced' = {Canon[filtered.facts[f].content] : f \in lost}
    /\ phase' \in {"conflicts", "install"}
    /\ UNCHANGED <<corpus, typed, batches, touched>>

----------------------------------------------------------------------------
(* detect_conflicts: facts that share head and relation, or relation and   *)
(* tail, are put to the model in groups.  Which of them it finds in hard   *)
(* conflict with enough confidence is open; without any, nothing is        *)
(* resolved.                                                               *)
HeadOf(k) == <<k[1], k[2]>>
TailOf(k) == <<k[2], k[3]>>

CandidateGroups(m) ==
    {g \in SUBSET DOMAIN m.factAt :
        /\ Cardinality(g) >= 2
        /\ \E k \in g : \/ g = {j \in DOMAIN m.factAt : HeadOf(j) = HeadOf(k)}
                        \/ g = {j \in DOMAIN m.factAt : TailOf(j) = TailOf(k)}}

DetectConflicts ==
    /\ phase = "conflicts"
    /\ phase' \in {"install"} \cup
           (IF HasModel /\ CandidateGroups(memory) # {} THEN {"resolve"} ELSE {})
    /\ UNCHANGED <<corpus, typed, memory, batches, inactive, silenced, touched>>

(* resolve_conflicts: the modifications of all answers are applied first,  *)
(* then the discards, each looked up by content when its turn comes.       *)
Item == [action : Actions, original : Triple, resolved : Triple]
Items == UNION {[1 .. n -> Item] : n \in 0 .. MaxItems}

Has(m, t) == Canon[t] \in DOMAIN m.factAt

ApplyModified(m, item) ==
    IF item.action = "modified" /\ Has(m, item.original)
    THEN ReplaceFact(m, m.factAt[Canon[item.original]], item.resolved) ELSE m

ApplyDiscarded(m, item) ==
    IF item.action = "discarded" /\ Has(m, item.original)
    THEN RemoveFact(m, m.factAt[Canon[item.original]]) ELSE m

Resolved(m, items) ==
    FoldLeft(ApplyDiscarded, FoldLeft(ApplyModified, m, items), items)

(* What the model decides, and about which triples, is open; an answer     *)
(* that fails loses its items.                                             *)
ResolveConflicts ==
    /\ phase = "resolve"
    /\ \E items \in Items :
           /\ memory' = Resolved(memory, items)
           /\ touched' = {<<Canon[items[i].original], items[i].action>> :
                             i \in {j \in DOMAIN items : items[j].action # "kept"}}
    /\ phase' = "install"
    /\ UNCHANGED <<corpus, typed, batches, inactive, silenced>>

----------------------------------------------------------------------------
(* _embed_and_store_memory and _install_memory_graph index the facts that  *)
(* _active_facts leaves, and the snapshot is written.                      *)
ActiveFacts(m) == {f \in DOMAIN m.facts : m.facts[f].idx \notin inactive}
Indexed(m)     == {Canon[m.facts[f].content] : f \in ActiveFacts(m)}

Install ==
    /\ phase = "install"
    /\ phase' = "idle"
    /\ silenced' = {} /\ touched' = {}
    /\ UNCHANGED <<corpus, typed, memory, batches, inactive>>

(* An install that raises (a store, the embedding provider) drops the      *)
(* memory it was given; self._inactive_fact_idxs stays as the filter set   *)
(* it.  The stores it leaves behind are the subject of CorpusRewrite.      *)
InstallFails ==
    /\ phase = "install"
    /\ phase' = "idle" /\ memory' = EmptyMemory
    /\ silenced' = {} /\ touched' = {}
    /\ UNCHANGED <<corpus, typed, batches, inactive>>

(* The engine of a new process reads the snapshot back (prepare_retrieval).*)
Reload ==
    /\ phase = "idle"
    /\ memory' = FromDict(ToDict(memory)) /\ inactive' = {}
    /\ UNCHANGED <<corpus, typed, phase, batches, silenced, touched>>

RebuildNext ==
    \/ \E C \in SUBSET Chunk \ {{}} : Build(C)
    \/ ExtractSchema
    \/ \E b \in DOMAIN batches : SchemaAnswer(b) \/ SchemaNoAnswer(b) \/ SchemaFails(b)
    \/ SchemasDone \/ SchemasNotSaved
    \/ FilterOntology \/ DetectConflicts \/ ResolveConflicts \/ Install
    \/ InstallFails \/ Reload

RebuildSpec == RebuildInit /\ [][RebuildNext]_rebuildVars

----------------------------------------------------------------------------
(* Properties.                                                             *)

(* Positions are used as ids across the layers and in three dictionaries,  *)
(* and every phase moves nodes: after each of them, and after the snapshot *)
(* is read back, the layers still name each other both ways (memory.py     *)
(* remove_fact, replace_fact, filter_schemas_by_frequency).                *)
LayersConsistent ==
    /\ Consistent(memory)
    /\ phase = "idle" => FromDict(ToDict(memory)) = memory

(* A triple that no resolution named keeps its fact and its evidence: the  *)
(* removals and merges decided about other facts never take its passage    *)
(* away, although they renumber it.  And a merge hands its evidence on:    *)
(* without a discard no chunk with a triple is left without a fact         *)
(* (resolve_conflicts, replace_fact).                                      *)
EvidenceKept ==
    phase # "idle" =>
        \A c \in corpus :
            /\ c \in DOMAIN memory.chunkAt
            /\ \A i \in DOMAIN TriplesOf[c] :
                   LET t == TriplesOf[c][i]
                   IN  (\A a \in Actions : <<Canon[t], a>> \notin touched) =>
                           /\ Has(memory, t)
                           /\ memory.chunkAt[c] \in memory.facts[memory.factAt[Canon[t]]].passages
            /\ (TriplesOf[c] # <<>> /\ \A k \in CanonKey : <<k, "discarded">> \notin touched) =>
                   memory.passages[memory.chunkAt[c]].facts # {}

(* When no resolution moved facts, what is indexed is the memory without   *)
(* the facts its own filter silenced, not those of an earlier rebuild      *)
(* (_inactive_fact_idxs, _active_facts).                                   *)
IndexedAsFiltered ==
    phase = "install" /\ touched = {} => Indexed(memory) = DOMAIN memory.factAt \ silenced

===============================================================================
