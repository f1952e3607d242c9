# MemGraphRAG: a verification development

TLA+ models of MemGraphRAG (`src/memgraphrag`, and the chat and the graph console of
`src/web`), the TLC runs that check them on small instances, and the theorems TLAPS
proves about them for every instance. Paths below are relative to `src/memgraphrag`
unless they say otherwise.

## The system and its parts

MemGraphRAG is one asyncio server process. Clients submit documents; a background
worker parses and chunks them, extracts triples with an LLM (OpenIE), rebuilds a
three-layer memory (schemas, facts, passages) of the whole corpus and installs it
into vector stores and a graph; queries and an agent read that memory; a web UI
asks questions and keeps the conversations in PostgreSQL.

| Component | State it keeps | What is hard | Modules |
|---|---|---|---|
| Ingestion pipeline, `pipeline.py` | doc-status records | the worker writes copies of records back across awaits; crashes | `DocPipeline` |
| Documents API, `api/routers/documents.py` | pipeline lock, busy and drain flags, background tasks, source files | requests race for the lock; drains are deferred to whoever holds it; two documents of one file name | `DocPipeline`, `InputFolder` |
| Parsers, chunkers, sidecar | sidecar directories, the Docling task | routing by hints and rules, polling, directories shared by homonyms | `Parsing`, `Chunking` |
| OpenIE and LLM client, `openie/`, `llm/` | retry state, concurrency limit, checkpoints | partial batches, refusals, kills | `OpenIEExtraction`, `EmbeddingClient`, `Indexing` |
| Core engine, `core.py` | OpenIE cache, memory snapshot, vectors, graph, id lists, readiness, corpus lock | diff against the previous snapshot; rewrite under readers; partial writes | `CorpusRewrite`, `MemoryRebuild`, `Retrieval` |
| Three-layer memory, `memory.py` | layers and the positions they name each other by | positions used as ids after a rebuild | `ThreeLayerMemory` |
| Storage backends, `storage/` | JSON files, NanoVectorDB, igraph, Neo4j, PostgreSQL | nested batches, dumps in a thread, write buffers, a shared pool | `DurableStore`, `FileStore`, `GraphBuffer`, `PostgresStore` |
| Retrieval, `core.py`, `ppr/`, `rerank.py` | none of its own | lists and maps replaced between the awaits of a query | `Retrieval` |
| Agent, `agent/` | messages, budget, toolbox, stream filter | limits met in mid-turn, numbering of citations, tags cut into tokens | `AgentLoop`, `HarmonyFilter` |
| Chat, `chat/`, `api/routers/chat.py`, `src/web/src/state/useChat.ts` | threads and messages; the view of a tab | late answers, closures that outlive their render | `ChatStore`, `ChatTab` |
| Graph console, `api/routers/cypher.py`, `CypherConsole.tsx` | the result a page shows | statements rewritten by scanning them, caps, late answers merged into what is shown by then | `GraphConsole` |
| Login, `api/server.py`, `api/rate_limit.py` | attempts of each client | sliding windows, rounding, forgetting | `LoginLimiter` |
| API server, `api/` | application state | start-up that fails half-way, shutdown with work in flight | parts of `DocPipeline`, `CorpusRewrite`, `PostgresStore` |

The documents API writes doc-status through `enqueue_document`, then runs
`process_pending` under the pipeline lock, which parses, chunks and calls `ainsert`
of the engine per document. Delete and clear call the engine under the same lock.
The doc-status store is read by the engine to know which chunks are live. The
process may be killed anywhere; the stores survive it, and
`recover_interrupted_documents` puts the documents it left in PARSING or PROCESSING
back to PENDING.

What makes each part correct:

* pipeline and documents API: one lock holder; every enqueued document is looked
  at; PROCESSED means served, whatever happened to other documents; deleted means
  gone; a document is parsed from its own bytes;
* ingestion: chunks are cut from their document and cover it; nothing paid for is
  lost but the batch in flight; vector *i* stands for text *i*;
* core engine: vectors, graph and id lists agree with the snapshot whenever a query
  is answered; a kill leaves nothing the next rebuild does not repair;
* memory: every index points at what it was taken for, and evidence survives
  merges;
* storage: a namespace is a durable map; no buffered write is lost silently; a pool
  in use is open, and one that is not in use is closed;
* retrieval: every text stands at its own id, and what is answered was in the
  corpus;
* agent: every tool call has its result, the budget holds, citations agree;
* chat: no message goes to another thread, and tab, database and prompt agree;
* console: what is shown is a graph, and an answer is whole or says that it is cut;
* login: no client gets more attempts than the window has, and one that waits as
  told gets its next.

## Modules

| Module | What it is |
|---|---|
| `DocPipeline`, `DocPipelineProofs` | requests, lock, drain, worker, delete, clear, crash and recovery; theorems |
| `InputFolder` | the files behind the records |
| `CorpusRewrite`, `CorpusRewriteProofs` | the engine below the pipeline, store by store; theorems |
| `ThreeLayerMemory`, `MemoryRebuild` | the data structure as operators; the rebuild as a machine over them |
| `Picks` | the places of a set in order, and what a list has there |
| `Retrieval` | queries against rewrites |
| `DurableStore` | the abstract promise of a storage namespace |
| `FileStore` | the file-backed backends |
| `PostgresStore` | pool, transactions, life cycle |
| `StoresProofs` | theorems about what lies outside the process: `FileStore`, among them that it implements `DurableStore`, `PostgresStore` and `InputFolder` |
| `GraphBuffer` | the Neo4j write buffer |
| `MemoryProofs` | theorems about `MemoryRebuild` and `GraphBuffer` |
| `Parsing`, `Chunking` | from a file to its chunks: the parse as a machine, the chunkers as operators |
| `OpenIEExtraction`, `EmbeddingClient`, `Indexing` | the provider's part of an insert, and their composition |
| `IngestProofs` | theorems about `Parsing`, `Chunking`, `OpenIEExtraction` and `EmbeddingClient` |
| `HarmonyFilter`, `AgentLoop` | the stream filter as functions of its state; the agent |
| `AnswersProofs` | theorems about `Retrieval` and `AgentLoop` |
| `ChatStore`, `ChatTab` | the database's part and the tab's part of a conversation |
| `GraphConsole`, `LoginLimiter` | what other routes keep: the console and its page, the limiter |
| `RouteProofs` | theorems about these two and `ChatTab` |
| `SequenceFacts` | lemmas on lists, places and folds that several proofs rest on |
| `MC...` | the instances TLC checks |

Three MC modules hold several machines and pick one per behaviour, by a variable that
never changes: `MCIngest` (`part`: `Parsing`, `Indexing`, `MemoryRebuild`, `FileStore` or
`PostgresStore`), `MCRoutes` (`part`: `InputFolder`, `GraphBuffer`, `ChatTab`,
`GraphConsole` or `LoginLimiter`) and `MCAnswers` (`who`: `Retrieval` or `AgentLoop`). The
machines share no variable; of one that was not picked no action is enabled, and what
its initial states leave open is pinned. The constant `Parts` of the first two says which
of them a run is about.

### DocPipeline

A *slot* is one HTTP request together with the background task Starlette runs
after its response; `pc`, `kind` and `loc` hold where it stands, which request it
serves and its local variables. A step is the code between two suspension points
of asyncio, so every `await` of a store, a parser or a provider separates two
actions. Durable state: `rec` (doc-status), `source` (files), `cache`
(`openie_kv`), `memory` (passages of the snapshot in `memory_kv`). Process state:
`busy` (the pipeline lock), `drainRequested`, `up`. `torn` is a history variable
the program does not have: the documents whose removal was cut short between
dropping their chunks and dropping their record.

| Code | Actions |
|---|---|
| `upload_document`, `insert_text`, `scan_input_dir`, `requeue_document` | `Upload`, `Text`, `Scan`, `ScanFile`, `RequeueRead`, `RequeueWrite`, `Enqueue`, `EnqueueFails` |
| `_schedule_drain`, `_drain_until_idle`, the inline run of `/text` | `ScheduleDrain`, `DrainAcquire`, `DrainDefer`, `RunTextInline`, `LookAgain`, `KeepDraining`, `Stop`, `DrainAgain`, `WorkerRaises` |
| `process_pending` | `List`, `BeginDoc`, `ParseAndChunk`, `MarkProcessing`, `WriteStages`, `MarkProcessed`, `MarkFailed` and their failures |
| `ainsert` | `Extract`, `ExtractFails`, `Load`, `Install`, `InstallFails` |
| `adelete_by_doc_ids` | `Delete`, `DeleteRead`, `DeleteChunks`, `DeleteStatus`, `DeleteLoad`, `DeleteInstall`, `AdminRaises` |
| `aclear_all` | `Clear`, `ClearMemory`, `ClearCache`, `ClearStatus`, `AdminRaises` |
| process end, `lifespan`, `reset_interrupted_documents` | `Crash`, `Recover` |

Abstractions:

* A record is its status and its chunk ids; file names, times, options and errors
  are left out. A body is a model value with a set of content-hashed chunks.
* `MayHold[d]` says which bodies come under an id. An id computed from the content
  has one; an id chosen by a client of `/text` may have several.
* A request answered without a state change (duplicate, 404, 409, rejected file)
  is not an action.
* Testing and acquiring the free lock is one step: `asyncio.Lock.acquire` does not
  suspend when the lock is free.
* A store write that raises has no effect. The engine's rewrite of vectors and
  graph is part of `Install`, whose visible effect is the snapshot; its steps, and
  a kill between them, are in `CorpusRewrite`.
* Reading all of doc-status and the cache for a corpus is one step. Only the lock
  holder changes the cache, and other slots can only take claims away meanwhile.
* A shutdown that cancels tasks is a `Crash`: the cancellation passes through
  `process_pending` without a status write.

### InputFolder

`DocPipeline` knows a document by its id; `InputFolder` has the paths. Under one
base name a file may lie at the top of the input directory, beside it qualified by
its digest, or in a subfolder. Uploads (`Spool` to `EnqueueUpload`: the bytes are
spooled, the look at doc-status and the move to a free name are one step, a homonym
is hashed in a thread), a scan (`ListFolder` to `EndScan`), a requeue (`RequeueRead`,
`RequeueWrite`), a delete or clear with or without files (`BeginRemoval`, `Unlink`,
`DeleteRecords`, `RemovalFails`) and the worker (`ListPending`, `BeginParse`,
`ParseFile`, `SourceMissing`) run between each other's awaits. A document stands for
its bytes and for their digest. `disturbed` is a history variable: files were taken
while a request had seen them, or by a removal that then failed.

### CorpusRewrite

`DocPipeline` says who may rewrite the corpus and when; `CorpusRewrite` opens up
the rewrite. One rewriter at a time (the pipeline lock of `DocPipeline`) goes
through `ainsert`, `adelete_by_doc_ids` or `aclear_all`, store by store, while any
number of readers query. The state is:

| Variables | Code |
|---|---|
| `vec`, `graph`, `snapshot` | what the vector stores and `chunks_kv`, the graph store and `memory_kv` hold in memory |
| `vecFile`, `graphFile`, `snapshotFile` | what their files hold: the same outside a batch, older inside one (`_dirty`, `_batch_depth`) |
| `cache` | keys of `openie_kv`, saved at once |
| `memory`, `ids`, `ppr`, `ready` | `self.memory`, the four id lists, `self._ppr`, `ready_to_retrieve` |
| `lock` | `_corpus_lock` and its holder |
| `wpc`, `kind`, `at`, `old`, `target` | the rewriter: where it stands, the next store of its series, the ids it takes for stored, the memory it installs |
| `rpc` | where each reader stands |

| Code | Actions |
|---|---|
| `ainsert` | `Extract`, `RebuildInsert`, `RebuildFails`, `AcquireInsert`, `SwapMemory` |
| `_embed_and_store_memory` | `Diff`, `Sync`, `EmbeddingFails`, `ListIds` |
| `_install_memory_graph`, `memory_kv.upsert` | `ListIds` (clears the graph), `FillGraph`, `WriteSnapshot` |
| the unwinding of `_storage_batch` | `Flush`, one store a step |
| `adelete_by_doc_ids`, `_rebuild_corpus_after_delete` | `Delete`, `DropChunks`, `RebuildDelete`, then the same install without lock or batch |
| `_clear_empty_corpus` | `EmptyCorpus`, `Wipe`, `Forget` |
| `aclear_all` | `Clear`, `ClearStore`, `ResetEngine` |
| `aretrieve` | `AskReady`, `AskPrepare`, `AcquireReader`, `Answer` |
| `prepare_retrieval` | `PrepareLoad`, `PrepareEntities`, `PrepareEdges` |
| naive and agent modes | `AskDirect`, which prepares without the corpus lock |
| end of the process, boot, warm-up | `Kill`, `Cancel`, `Boot` |

Abstractions:

* A memory is its passages, facts, active facts and schemas. `Rebuilt` gives every
  memory the schema, filter and conflict stages may make of the cached chunks
  (`MemoryRebuild` opens them up); a delete skips the conflict stage, so it keeps
  every fact.
* The corpus is the whole cache. Which chunks a document still claims is the
  subject of `DocPipeline`; here `Delete(D)` drops any set of chunks.
* The graph is the memory it was built from, or `Torn` between `graph.clear()` and
  the end of the fill.
* The saves of one batch (`FlushOps`, the reverse of the order `_storage_batch`
  enters the stores) are the only writes a kill can fall between and leave files
  that disagree within an insert. That kill is the fault `"tear"`, apart from
  `"kill"`, which falls anywhere else. A save of one file is atomic.
* A cancellation at shutdown leaves the batch, which saves what it holds.
* What a query reads during a rewrite is in `Retrieval`.

### ThreeLayerMemory and MemoryRebuild

`ThreeLayerMemory` has one operator per method of `memory.py`, from a memory to the
memory after it: creating nodes, linking a fact to a schema, the frequency filter,
removing a fact and renumbering, replacing or merging one, and the snapshot written
and read back. Positions start at 1. `MemoryRebuild` applies them as
`_rebuild_memory_from_openie` does: `Build` from the cached extractions, the cached
ontology (`ExtractSchema`), schema batches whose answers come in any order, twice
empty or with an exception (`SchemaAnswer`, `SchemaNoAnswer`, `SchemaFails`), their
persistence or its failure, `FilterOntology` with its limit, `DetectConflicts`,
`ResolveConflicts`, `Install`, `InstallFails`, `Reload`. What the model answers is
open. `silenced` and `touched` are history variables.

### Retrieval

`aquery`, `astream_qa`, `aretrieve` and the data route, in every mode: readiness
and the corpus lock (`Begin`, `AcquireCorpus`), the preparation in its two parts
(`PrepareLists`, `PrepareEngine`), `LinkFacts` with the reranker's fallbacks,
`LinkSchemas`, `Rank`, the texts looked up late (`ResolveTexts`), `DenseRetrieve`,
and failures anywhere. Similarities and PageRank scores are abstracted to the order
they put passages in, which is open (`Selected`). The rewriter is reduced to what a query
reads,
in the order `CorpusRewrite` has it. `past` is history: what the corpus was, and
which rewrites a query or a preparation met.

### DurableStore, FileStore, PostgresStore, GraphBuffer

`DurableStore` is the promise: one map, a whole copy of some earlier moment that a
restart finds, and no start over a copy that cannot be read. `FileStore` is one
namespace of `JsonKVStorage`, `NanoVectorDBStorage` or `IgraphStorage` (`kind`):
changes mark it dirty, batches of several callers nest in one counter, a flush
dumps the map in a worker thread under the lock (`FlushBegins`, `FlushEnds`,
`FlushFails`), through a temporary name except for vectors, whose library rewrites
the file in place; drops, finalize, crash, damage, quarantine.

`PostgresStore` has the counted pool of `ClientManager` (`GetClient`, `CreatePool`,
`DropReference`, `LastReference`, `PoolCloses`, ...), start-up store by store with
the check of the dimension, upserts as transactions, deletes and drops, the drain
at shutdown that ends or times out (`Drained`, `DrainTimesOut`), the rollbacks of the
tasks it cancels, one by one and waited for without a limit (`Unwound`), finalize store by
store, and library use, where the first calls initialize the engine themselves.

`GraphBuffer` has the two buffers of `Neo4JStorage`, the flush that takes them
before it sends them in chunks, probes for ends that exist and makes stubs of the
others, any reader that flushes, nested batches, `clear`, and the look for another
engine's nodes at start (`AssertNotShared`). A step is one statement.

### Parsing, Chunking, OpenIEExtraction, EmbeddingClient, Indexing

`Parsing`: which engine reads a file (hint, rules, `legacy`) and with which options,
the legacy reader by what it accepts, the Docling task that is submitted, polled a
bounded number of times and fetched, the sidecar directory that homonyms share
(`CleanSidecar`, `WriteSidecar`), the chunker's source, kills with another
environment after them. A text is the set of parts of documents in it.

`Chunking` is pure: token windows, the two variants with a split character, the
recursive splitter and paragraph merging, on texts of one-token symbols.
Strategy R has both splitters the code may use, as `langchain` says: the repository's
own, which does not overlap, and what `RecursiveCharacterTextSplitter` does, which the
extra `api` installs and which carries the last parts of a chunk into the next.
`ChunksCover` has two parts: `WindowsCover` is about strategy F, `WordsKept` about the
others: no word is lost or out of order (`KeepsWords` allows the words two neighbours
share), and no chunk is larger than asked for but by what joins the blocks of P
(`CountedTokens`).
`OpenIEExtraction` has the sub-batches of `_extract_openie_checkpointed`, two calls
a chunk under a semaphore, retries, checkpoints, the second pass and kills.
`EmbeddingClient` has the requests of `openai_embed`: cut by items and tokens,
repeated, sent without dimensions, with shorter texts, and halved; batches are cut
as they are asked for, as the code's generator does. `Indexing` composes the three
into one insert, `IndexingSpec`; `ParsingSpec`, `ExtractionSpec` and `EmbeddingSpec`
are the components on their own. The theorems are about all four.

### HarmonyFilter, AgentLoop

`AgentLoop` is `astream_agent_qa`: preparation, turns under the budget
(`BeginTurn`, `Enforced`), calls of any kind and number, repeated ones, retrievals
with their citations, the frames sent, the answering stream. `HarmonyFilter` is the
filter as functions of its state; a tag is two symbols, so that a cut may fall
inside it. `rendering` is history: the transcript, and what the client should see of
it, of a channel that is never closed the text without tags and channel names. The
answers the run gives for its transcripts are written out; `TranscriptAssumption` has
TLC compare them with `Visible`, the reference definition the proof uses.

### ChatStore, ChatTab

`ChatStore` keeps a thread as a sequence of seconds, each a set of messages: within a
second they are listed in any order (`ListMessages`). `ChatTab` is the hook of
`useChat.ts`: every handler is a closure that goes on with the messages and the
`persistent` of its render, so a send (`BeginSend` to `AnswerStored`), a load and a
removal each have their own state in flight. Requests succeed, are refused with a 503,
fail without an effect, or fail after it. `mixed` is history: something happened to the
view while a thread was shown that the properties make an exception for.

### GraphConsole, LoginLimiter

`GraphConsole` is one page of the web UI and the routes behind it. A statement is
its words; it is refused, given a limit or left alone by scanning them
(`StripLiterals`, `HasLimit`, `ApplyLimit`). `asked` has every request of the page
and where it stands: `BeginTransaction`, `ReadRecord` up to the cap, `ReadEnds`,
`DriverFails`. Answers are taken whenever they come: `TakeRun` replaces what is
shown, `TakeExpansion` merges into what was shown at the last `Render`. How far the
driver has fetched ahead decides which nodes it knows properties of (`Payloads`).
The database is outside: `Accepts`, `Yields`, `Around`.

`LoginLimiter` has `POST /login`
on a clock with fractions of a second: pruning, the header's seconds (`RetryAfter`),
the sweep above a number of clients, the reset after a login. `allowed`, `comeBack`
and `quiet` are history.

## What the runs check

| Run | Instance | Shows |
|---|---|---|
| `documents` | two slots; upload, requeue, delete, clear; two documents that share a chunk; store and removal errors, crashes | `PipelineExclusive`, `ProcessedIsServed`, `NoResurrection` |
| `pipeline_drain` | upload, text, scan, requeue; parse, OpenIE and install faults; fair | `PendingHasDrain`, `PendingDrains` |
| `corpus_insert` | inserts and a query; failing rebuilds and embeddings, cancellations, kills | `PassagesIndexed`, `ReadyMeansCurrent`, `LockedReadStable` |
| `corpus_delete` | inserts, deletes, clears; all query modes; failing rebuilds and embeddings; fair | `DeletedIsGone`, `QueriesAnswered` |
| `corpus_stale` | an insert and two queries | `RewriteHidesState` violated, see below |
| `routes` | two uploads of two documents of one name, a scan, a requeue, removals, the worker, any two under way at once; or two installs, two nodes with an edge either way, statements of one row, a reader, a restart, perhaps a foreign node; or two questions in one tab, two clicks in the side bar, one failing request; or two requests of a page, six statements (quoted keywords, a limit in a subquery, two limits, a procedure, a write) on four nodes, one of them foreign, one without an id; or two clients, two attempts in a window of five halves of a second | `OwnSource`; `BatchDelivers`, `AllArrive`, `ForeignKept`; `StoredAtHome`, `ViewIsThread`, `HistoryIsThread`; `EdgesJoinNodes`, `AnswersAreWhole`; `NoWindowOverrun`, `ComingBackIsEnough` |
| `answers` | two queries in every mode, two passages, two rewrites; or three turns of up to three calls of which two are kept, a budget a few results exceed, the answer in every rendering | `AnswersAligned`, `SettledAnswer`, `AnswerWasThere`; `TranscriptWhole`, `BudgetKept`, `CitationsAgree`, `OnlyAnswerShown` |
| `ingest` | four files that differ in suffix, hint, rule and sidecar directory, three polls, two kills; or documents of two to four chunks for every strategy, with langchain and without, two kills, eight providers; or two chunks, four spellings of three facts, two ontologies, answers of two pairs, two resolutions; or two tasks on one file-backed namespace of two keys, batches nested twice; or two tasks on a vector and a status table, two upserts, two start-ups, fair | `CutFromItsOwn`; `ChunksCover`, `CacheIsTrue`, `RowsFollowTexts`; `LayersConsistent`, `EvidenceKept`, `IndexedAsFiltered`; `QuietIsSaved`, `ImplementsDurable`; `HeldIsOpen`, `StoppedIsReleased`, `ShutdownEndsIfAnswered` |
| `shutdown_silent` | the two tables of `ingest` | `ShutdownEnds` violated, see below |
| `references` | the agent of `answers` | `EveryHopReferenced` violated, see below |
| `scaffolding` | the same | `ScaffoldingStripped` violated, see below |
| `login_quiet` | the two clients of `routes` | `QuietAreDropped` violated, see below |

Why these bounds are enough to meet the cases: two slots give every pairwise race
(holder against enqueuer, deferred drain, delete against requeue), and the shared chunk
gives reference counting; two passages give an old and a new corpus that overlap; one
fact can be active or inactive; two batches that overlap give every order of the last
leave and the flush; one row a statement lets an edge be sent while its end is in
another task's hands; two rewrites bring a deleted passage back; two resolutions can
rename a fact into another and then discard it; two requests of a page give a late
answer and a late merge; a window of an odd number of halves of a second makes rounding
matter; one fault suffices for each exception. `DocPipeline` and `FileStore` count
nothing and need no bound.

`ProcessedIsServed` is the heart: a document doc-status calls PROCESSED has every
chunk in the cache and in the snapshot, although corpora are loaded and installed
in different steps, other documents are deleted, cleared, re-ingested, failed or
interrupted, and the worker writes stale copies. Its one exception, named in the
formula, is a document whose own removal was cut short (`torn`).

`PassagesIndexed` says that the diff never loses a passage: the ids it starts from may
be the lists of an install that failed half-way, of a query, or of a snapshot read after
a kill, and the vectors must be there all the same. `DeletedIsGone` holds although
queries overwrite the lists that deletes and rebuilds diff against, because the chunks
of a deleted document are dropped by name first; the run has no kills, since a kill
inside the drop leaves chunks until the delete is repeated, and the theorem excepts
those kills only. `QuietIsSaved` and `ImplementsDurable` are the two halves of
durability: what rests is saved, and what is saved was whole. `AnswerWasThere` excepts
queries whose engine was prepared while a delete or clear ran, which take no lock;
`SettledAnswer` excepts queries a rewrite ran during. `BatchDelivers` speaks of batches
no reader flushed for; `AllArrive` of the others.

The runs that end in a violation reproduce disagreements between the code and what the
repository says of it:

* `corpus_stale` (`core.py:1390-1394`): a query preparing under the lock raises
  readiness after `ainsert` has lowered it, so the rewrite runs with readiness up.
* `shutdown_silent` (`env.example:55-57`): the wait for the background tasks is
  "bounded on purpose", but the tasks cancelled then are awaited again without a limit
  (`api/server.py:252`). A rollback the database does not answer keeps the shutdown
  waiting. What the timeout does bound is `ShutdownEndsIfAnswered`.
* `references` (`docs/WebUI.md:119-122`, `agent/loop.py:248-251`): the references of
  "every hop" are said to reach the page; one frame is sent, after the first turn that
  has any (`agent/loop.py:244-246`), and what later turns retrieve is cited by numbers
  the page has no entry for. `CitationsAgree` says that what the page is told is right.
* `scaffolding` (`agent/harmony.py:27-29`, `:133`): of a channel that is never closed
  the text is said to be shown without its channel name; in the rendering without tags
  the name is welded to the text and is not recognised (`:46`). `OnlyAnswerShown` holds
  of every other stream, those with tags and an unclosed channel included.
* `login_quiet` (`api/rate_limit.py:22-24`): a client that went quiet is kept by a
  sweep. Buckets are pruned when their own client comes back, so one that never does is
  not empty and stays.

### Fairness

* `pipeline_drain`: each slot with an enabled step eventually takes one, since the
  event loop resumes every ready task and provider calls carry timeouts and bounded
  retries, and start-up recovery runs. No request has to arrive, no crash has to
  happen. `PendingDrains` needs no strong fairness because the lock holder itself
  looks again.
* `corpus_delete`: the rewriter and each reader take their enabled steps; taking
  the corpus lock has strong fairness, since `asyncio.Lock` wakes its waiters in
  the order they came. The engine is eventually started again.
* `ingest`, of the shutdown, and `shutdown_silent`: only the task that starts and stops the
  engine goes on; nothing is assumed of the statements of the other tasks, so a drain
  ends by its timeout. `ShutdownEndsIfAnswered` assumes, in its formula, that no task is
  unwinding for ever, that is, that the database answers a rollback or breaks the connection;
  without it the property fails (`shutdown_silent`).

The other runs have no liveness property and no fairness. Deadlock is checked in
`documents`, `pipeline_drain` and the three runs of `CorpusRewrite`. The others have
machines that really stop: a query or an insert that has ended, a service whose
`MaxInits` start-ups are used up.

## What is proved

`DocPipelineProofs` proves, from `PipelineAssumption` alone (chunking a body gives
at least one chunk, the constants have their types):

* `TypeCorrect`: `Spec => []TypeOK`.
* `Exclusion`: `Spec => []PipelineExclusive`. Each step of a slot takes, keeps or
  releases the lock (`LockStep`); the lemma `ExclusiveKept` needs nothing else.
* `Serving`: `Spec => []ServingInvariant`, the inductive invariant. Served
  documents alone are not inductive: one must know that copies held by workers
  claim no chunks (else a stale write would claim chunks that are gone), that the
  corpus a holder has loaded covers every claim until it is installed, that the
  chunks a delete is about to drop are claimed by nobody else, and that the
  documents a worker still holds keep their records. The proof has one lemma for
  slots outside the lock (`BystanderStep`), which can only write records that
  claim nothing, and one for the holder (`HolderStep`), which is alone.
* `Served`: `Spec => []ProcessedIsServed`, a consequence. It holds for every kind
  of request, `/text` and scans included, which `documents` leaves out.
* `NothingResurrected`: `Spec => NoResurrection`, from the same invariant.
* `SomebodyDrains`: `Undisturbed` implies `Spec => []PendingHasDrain`. The
  hypothesis rules out deletes, clears, store errors and crashes; each of them
  really breaks the property. The strengthening `DrainPromised` says that a holder
  which found nothing more still has the flag up or a request about to schedule, if
  a document became PENDING meanwhile.

`CorpusRewriteProofs` proves, from `CorpusAssumption` (the constants have their
types, the rewriter is not a reader):

* `CorpusTypeCorrect`: `Spec => []TypeOK`, for every kind of rewrite, query and
  fault. It bounds `at` by the series the rewriter goes through.
* `LockedReadStableCorrect`: with inserts only (`InsertsOnly`),
  `Spec => LockedReadStable`, from `InsertInv`: the rewriter holds the corpus lock
  exactly in `LockedPcs`. With deletes it is false.
* `PassagesIndexedCorrect`: with inserts only and no `"tear"`,
  `Spec => []PassagesIndexed`. It is not inductive: `IndexInv` adds that every list
  the next diff may start from is stored, and where in the series the cache is
  already covered; `FileInv` adds what the files hold, so that a kill falls back on
  files that agree, and follows the saves of the batch one by one. With `"tear"` it
  is false.
* `ReadyMeansCurrentCorrect`: with inserts only and queries that take the lock
  (`Modes` without `"direct"`), `Spec => []ReadyMeansCurrent`, from `ReadyInv`:
  what a query prepares under the lock is current, and an insert that replaces it
  while readiness is up (`corpus_stale` shows that it may be) lowers the flag again
  when it is done.
* `DeletedIsGoneCorrect`: with every kind of rewrite, query and fault,
  `Spec /\ KillSparesDrops => []DeletedIsGone`. `KillSparesDrops` keeps kills out of
  the drops of a delete or clear; one between them does leave vectors behind. The
  invariant, `CachedInv`, does not say what the lists hold, which queries overwrite:
  the passage stores, in the process and in the files, are within the cache at every
  moment but for what the current series of drops has yet to reach, and a diff only
  adds passages of a target built from the cache (`KindInv`).

`StoresProofs` proves of `FileStore`, from `StoreAssumption` and `FileAssumption` (the special
values are no contents):

* `Typed` and `CleanIsSaved`: types, and that a namespace not marked dirty is on
  disk as it is in memory. The invariant `Inv` adds that the lock is held exactly
  by the caller whose thread writes, and that its temporary file is the map.
* `QuietSaved`: `Spec => []QuietIsSaved`. The shared counter is the number of open
  batches (`DepthInv`, by the cardinality of the set of pairs of a caller and the
  number of one of its batches), and a dirty namespace owes a flush to somebody
  (`Owed`): a caller about to flush, or one with a batch open.
* `FileStoreImplements`: `Spec => ImplementsDurable`, by simulation: each step maps
  to one of `DurableStore` or to a stutter.

`MemoryProofs` proves the three properties of the write buffer, from
`BufferAssumption`, for any number of nodes, edges, readers and installs and for
statements of any size. Its inductive invariant `BufferInv` adds to types and places:

* `NodesInv`, `EdgesInv`: a node or edge of the current graph is buffered, in the
  hands of a task, or in the database; an edge in somebody's hands is only counted
  when its ends are there or in the same hands (`Carries`), because an edge whose
  ends are missing is passed over silently, and a reader may still hold edges it took
  before the last `clear`. From these follows `GraphArrives`:
  `Spec => []AllArrive`.
* `ContentInv`: without another flush no row that would make a written node a stub
  is in the installer's hands. `BatchIsDelivered`: `Spec => []BatchDelivers`.
* `ForeignInv`: no row names another engine's node before this engine was told to
  write it. `ForeignNodesKept`: `Spec => []ForeignKept`.

`MemoryProofs` proves the three properties of `MemoryRebuild`, from
`RebuildAssumption`, for any chunks, triples, spellings, ontologies, batches and
answers: `RebuildKeepsLayers`, `RebuildKeepsEvidence` and `RebuildIndexesWhatIsLeft`,
each from `RebuildInvariant`: `RebuildSpec => []RebuildInv`. The assumption has the
chunks of the corpus listed without repetition, as the keys of a dictionary are.

* `Sound` is what one memory owes: nodes know their places, the links of facts with
  schemas and with passages name each other both ways, counts are those of the links,
  and each dictionary finds every node of its layer and nothing else. `Woven` is that
  without the counts of the facts, which a build takes at its end. Every operator of
  `ThreeLayerMemory` has a lemma that says it keeps them (`WithTripleKeeps`,
  `LinkFactToSchemaKeeps`, `FilterSchemasKeeps`, `RemoveFactIs`, `MergedKeeps`,
  `RenamedKeeps`). That the three layers agree is why `Sound` has to be one formula:
  a removal renumbers the facts, and links and dictionary are only right together.
  `SoundIsConsistent` and `SnapshotIsWhole` lead back to what the run checks.
* `EvidenceWhole` follows the evidence by content, not by place: `Shows` says that a
  chunk is among the passages of the fact with a key, so that renumbering leaves it
  alone. `Without` relates a memory to what is left of it without one fact, `Handed`
  to what a merge or a rename makes of it, `Kept` to what a list of resolutions may.
* `FilterKnown`: until a resolution moves the facts, the inactive places are those of
  the keys silenced.

The stages of a rebuild are folds of these operators over documents, cached pairs,
answers and resolutions. `SequenceFacts` has the induction they need, once: the
function the library's fold is chosen from exists (`FoldExists`, by the least length
for which it would not), a fold whose step stays in a set runs through that set place
by place (`FoldRuns`), and so its result is in it (`FoldStays`). Each use names the
set: the memories that are sound and differ from the first in what the step may change.

`StoresProofs` proves the three safety properties of `PostgresStore`, from
`PostgresAssumption`, for any number of stores, tasks, rows, upserts and
initializations, served or as a library:

* `RowsInv`: upserts under way have numbers of their own and have not ended; a row
  that can be read carries the number of one that was committed. Therefore
  `RowsAlwaysWhole`: `PgSpec => []RowsAreWhole`, which no run checks.
* `PoolInv`: where Main stands says what the service does; a store holds the
  registered pool or none; the counter covers the stores that hold it and the
  reference Main is giving back, with an inequality, because in library use two
  first calls may count a store twice; while a pool is made or closed the manager's
  lock is held and nothing is registered; a transaction's pool is not closed.
  Therefore `PoolsHeldAreOpen`: `PgSpec => []HeldIsOpen`.
* `CountInv`, for the service only: there the counter is exact, for only Main
  initializes and the stores not yet reached hold nothing, as those already
  finalized do not. A stopped service has a counter of 0 and therefore no pool:
  `StoppedReleases`: `PgSpec => []StoppedIsReleased`. That only Main initializes is
  `ReadyInv`: a service that serves has an initialized engine. The argument needs
  that no store is listed twice.

`AnswersProofs` proves four properties of the agent, from `AgentAssumption`, for
any limits, tools, passages and calls:

* `TurnInv`: while a turn is under way its message is followed by the results so
  far, in order, and `todo` has exactly the kept calls without one; every turn
  before it has all of its results. Eviction replaces the content of a result and
  leaves it where it is. `EveryCallIsAnswered`: `Spec => []TranscriptWhole`.
* `CiteInv`: the references are the numbering of the passages, the fence is one
  past them, and what was sent are entries of the numbering.
  `CitationsAlwaysAgree`: `Spec => []CitationsAgree`.
* `BudgetInv`: a result is evicted after every older one, also while a turn goes on,
  since what is appended was not evicted; what the model is asked with is the result
  of `Enforced`, which evicts up to the first place that makes it fit, or everything.
  `BudgetAlwaysKept`: `Spec => []BudgetKept`, whatever messages weigh.
* `StreamInv`: of some transcript the first `n` symbols were sent, and the filter and
  the client are where these bring them (`Fed`), however they were cut into tokens.
  `Fed` splits the prefix: what was shown is a piece of the answer that ends at `n` or
  just before it, where a "<" is `HeldBack`, and no tag of the answer begins within
  it; a filter that is still waiting has shown nothing; a closed one has shown
  everything. `FeedFed` shows that a token of any length keeps this through
  `Decided`, `Opened` and `Released`, `FedShows` that what was shown is a prefix of
  `Visible`, and `FlushShows` that `Flush` completes it. `Visible` defines what is for
  the user from the whole text: prose as it is, what follows the first separator up
  to the next tag, or, of a channel that is never closed, the text without tags and
  leading channel names. A name welded to such a text is the exception in the formula
  (`Welded`). `OnlyAnswerAlwaysShown`: `Spec => []OnlyAnswerShown`, for any
  transcripts that `TranscriptAssumption` admits: those that open with a tag or have
  none, as the two renderings `agent/harmony.py:11-22` describes and prose do. Nothing
  is claimed of a stream whose first tag comes later. `Probe` must be at least 2
  (`PROBE_CHARS` is 24), or the filter could decide before the first tag is complete.

`StoresProofs` proves `AlwaysOwnSource` of `InputFolder`: `FolderSpec => []OwnSource`, from
`FolderAssumption`, for any number of documents, uploads at once and activities,
which the run counts and the theorem does not. `Inv` has, besides types:

* `Apart`: a digest in a file's name is that of its bytes; the pipeline lock keeps
  the worker and a removal apart, so the record of the document being parsed stays.
* `Pointing`, until a removal has `disturbed` the folder: every record, and what
  uploads, the scan, requeues and the worker have seen and will act on, names a file
  with the bytes of its own document. A record whose file was just unlinked is
  `Leaving`: its deletion is the next step of the removal, which the lock protects.
  The steps that place a file overwrite none with other bytes (`KeptPoints`).

`AnswersProofs` proves the three properties of `Retrieval`, from
`RetrievalAssumption`, for any number of queries, passages and rewrites, every mode
and every `top_k`. A query is answered from lists, maps and an engine that were
replaced at different moments, so its invariant follows what each of them was taken
from:

* `ListInv`: ids and texts are one list without repetition, what is missing at the
  ranking is not in it, and both come from the ranking. `AlwaysAligned`:
  `Spec => []AnswersAligned`.
* `StoreInv`, `SeenInv`: how far the rewriter has got says which part of which corpus
  the stores hold, and a running query has seen every corpus there was.
* `EngineInv`, `UseInv`: a preparation no rewrite ran during has the current corpus,
  one that is ready comes from such a preparation, and what a query works on is
  within what it has seen, unless its engine was torn. `SettledAlways`:
  `Spec => []SettledAnswer`, and `AlwaysWasThere`: `Spec => []AnswerWasThere`.

`IngestProofs` is about a document on its way to the index, for any documents,
services, providers and limits:

* `WindowsAlwaysCover`: `IndexingSpec => []WindowsCover`, the part of `ChunksCover` about
  strategy F, for every text, window size
  and overlap below it. `WindowsAre` is the arithmetic: no window reaches beyond the
  text or the size, and no place is left between two. `StripIs` and `CoreIs` say what
  stripping leaves of a window, `WindowStands` that it stands in the text with all
  the window's words, `FixedCovers` that this holds of the chunks without the blank
  ones. The chunks are the same at every launch (`CutIsOfText`).
* `CacheAlwaysTrue`: any chunks one insert after the other, `CacheIsTrue` always
  holds. `PaidInv` says that what the model has answered for is in the cache or a
  finished call of the batch in flight; `PreparedInv` that the chunks of the insert are
  in the cache, in the batch, failed, or in a later sub-batch, which is why an insert
  that goes on has them all.
* `RowsAlwaysFollow`: any texts, `RowsFollowTexts` always holds. `PendingInv`: the
  ranges still to be sent follow each other and begin where the rows end; it carries
  the order through halvings and repetitions. `RefusedInv`: a call is only given up
  for a text that is too long by itself.
* `CutAlwaysFromItsOwn`: `ParsingSpec => []CutFromItsOwn`. `FoundInv`: between a
  parser's answer and the chunks the text and the sidecar that is about to be written
  or read are the document's own, all its prose included. It rests on `AtInv`: one
  document at a time is parsed, so no homonym writes between the two.

`RouteProofs` proves of `ChatTab`, for any number of questions, threads, clicks and
failing requests:

* `HomeAlwaysKept`: `ChatSpec => []StoredAtHome`, from `HomeInv`. A stored message belongs
  to a send that got past the stage at which it is stored (`OwnMessage`), and an
  answer is stored by a send that still has the thread of its question; so nothing
  depends on what the tab shows meanwhile.
* `ViewAlwaysThread`: `ChatSpec => []ViewIsThread`, and `HistoryAlwaysThread`:
  `ChatSpec => []HistoryIsThread`. Neither is inductive. `ViewInv` says that an
  undisturbed tab is at rest, loading, removing or answering, one of them at a time,
  and how much of the call in flight is already in the view and in the database
  (`Progress`). The lemmas `ListedLast` and `ListedBefore` say what one more message
  makes of the lists a thread may be read as.

and of the machines behind the other routes:

* `WindowNeverOverrun`: `LimiterSpec => []NoWindowOverrun`, and
  `ComingBackAlwaysEnough`: `LimiterSpec => []ComingBackIsEnough`, for every window,
  limit and resolution of the clock. `Covers`: a bucket is the newest of the attempts,
  and those it lost no longer count, also when a sweep drops it. A client that was
  turned away was told a time at which the oldest attempt of its bucket has left the
  window (`RoundedUp`).
* `EdgesAlwaysJoin`: `ConsoleSpec => []EdgesJoinNodes`. What is shown, and what
  expansions are merged into, are graphs that join their edges (`Joined`); merging
  keeps that although a relationship may come with other identities for its ends.
* `AnswersAlwaysWhole`: `ConsoleSpec => []AnswersAreWhole`. Of a run, the records read
  and those to come are together what the database yields, in order.

Induction comes from the library's theorem about well-founded relations, applied to a
named set: the least element of a set of naturals (`WFMin`). The library's induction
schemes have an operator as a parameter, which the provers cannot instantiate.

## What is only model-checked

* Liveness, which is out of the prover's reach: `PendingDrains`, `QueriesAnswered`,
  `ShutdownEndsIfAnswered`.
* `WordsKept`, the other part of `ChunksCover`: strategies R and P and the splits at a
  character compute by recursion and folds over data, so what they make of a text is
  checked on bounded texts only.
* Of `CorpusRewrite`, `PassagesIndexed`, `LockedReadStable` and `ReadyMeansCurrent` are
  proved for inserts, with the hypotheses each states.

## Divergences and notable behaviour

Five disagreements between the code and its own text are runs: `corpus_stale`,
`shutdown_silent`, `references`, `scaffolding` and `login_quiet`, described above. The
others below were met while modelling; the models have them as the code has them, and
the properties are stated so that they hold with them.

Pipeline and documents API:

* Delete, batch delete and clear release the lock without looking at
  `drain_requested` (`api/routers/documents.py:593`, `:802`): a drain deferred to
  them waits for the next trigger. This is why `pipeline_drain` has none of them.
* The worker's `_set_status` writes its copy over a record that was posted again
  meanwhile (`pipeline.py:78`).
* A delete with files that fails after unlinking, or races a request that has seen
  the file, leaves a record whose path another document can take; and the fallback
  to the relative path (`pipeline.py:289-292`) parses a homonym at the top of the
  folder. `OwnSource` excepts documents that were `disturbed`.
* An overlap of 0 falls back to the default (`pipeline.py:335-338`).

Core engine:

* Chunks that were extracted before a failure and are claimed by no record join
  every later corpus, also after their document is deleted (`core.py:1136-1140`).
* `_storage_batch` saves in the reverse of the order it enters the stores: a kill
  between the saves can leave a snapshot without its vectors (`core.py:1239`).
  `PassagesIndexed` is checked without `"tear"` for this reason.
* `prepare_retrieval` lists inactive facts as embedded (`core.py:2091`): one that
  becomes active again is not embedded. `PassagesIndexed` is about passages.
* The rebuild after a delete runs without `_corpus_lock` (`core.py:1842`).
* `_active_facts` is computed from positions of before the conflict resolution
  (`core.py:687`).
* The second OpenIE pass is one batch without checkpoints (`core.py:1323`, against
  the docstring at 1286-1288); chunks that occur twice are asked for twice; an
  answer that cannot be parsed is cached as "nothing found".
* Naive queries prepare again, without the corpus lock, as long as no passage has a
  label (`core.py:2765`, `:2914`).

Storage:

* A drop of `NanoVectorDBStorage` whose removal of the file fails only logs it, and
  the new client reads the old file: the vectors are back
  (`storage/nano_vector_db_impl.py:163-175`, the action `DropVectorsFails`).
* A reader's flush can make the stub of an edge's end overwrite the full node the
  installer has sent meanwhile (`AllArrive` speaks of existence for this reason).
* A MERGE over another engine's node claims it, and the next clear deletes it;
  edges between two foreign nodes survive a clear.
* A `pool.close` that raises stops `finalize_storages`, and the stores after it
  keep their references; in library use two first calls may count a store twice.
* A failed request for the catalogue of models is cached as an empty catalogue
  (`llm/openai_compatible.py:155-182`).

Parsing and chunking:

* The indexed text of a Docling result is the text of its blocks; what only the
  markdown has is dropped when there are blocks.
* Files with one stem share a sidecar directory (`parser/base.py:30-36`).
* A requeue keeps the engine of the first enqueue; a hint with options hides the
  chunker of the rule (`parser/routing.py:235`); a hint that cannot be followed
  falls to `legacy` and loses its options.
* A killed process forgets its Docling task and submits another.
* `CHUNK_SIZE` and `CHUNK_OVERLAP_SIZE` are said to hold for every chunker
  (`docs/FileProcessingPipeline.md:36`, `docs/ParagraphSemanticChunking.md:6`). Without
  langchain strategy R has no overlap at all (`chunker/recursive_character.py:95-98`);
  P overlaps only within a block that is too large, by a tenth of the size, a hundred at
  most, whatever was asked for (`chunker/paragraph_semantic.py:82`). `WordsKept` says
  nothing of how much chunks overlap, for this reason; of F `WindowsCover` does.
* Strategy P merges blocks "up to `chunk_token_size` tokens"
  (`chunker/paragraph_semantic.py:43`), but does not count the blank lines that join
  them (`:54`, `:101`): a chunk of several blocks may be larger.

Agent:

* Calls beyond `MAX_CALLS_PER_TURN` stay in the assistant message and get no result
  (`agent/loop.py:199-200`). `TranscriptWhole` is about the calls that are kept; the
  repository promises results for no others.
* The answering prompt has every passage and is not under the budget.
* `_fence_from` (`agent/tools.py:218-231`) may leave an empty marker.

Chat:

* Threads of a session without a database lose their messages when another is
  opened (`useChat.ts:117`); a Stop during the POST of the question does not stop;
  a load that ends late overwrites the thread opened after it; an answer is shown in
  whatever thread is open, though it is stored in its own.
* Messages of one second are listed by random id; the POST of an answer races the
  next question.
* A 503 on create leaves the closure posting to a thread that is only local.

Console:

* The docs call its answers scoped to the workspace (`docs/WebUI.md:70`,
  `api/routers/cypher.py:18`): expansions are, a statement runs as it is
  (`api/routers/cypher.py:605-610`) and may show another engine's nodes.
* A statement without a limit is given the cap as its limit, so its answer is never
  said to be cut (`api/routers/cypher.py:452-482`); one with a limit of its own is.
* An answer that comes late replaces what is shown, and an expansion is merged into
  whatever is shown by then, also if its node is gone.
* A node without properties, because it is only the end of a relationship, has the
  database's identity and not its `entity_id`; one node may be shown under both.

`StoredAtHome`, `ViewIsThread` and `HistoryIsThread` hold apart from the cases
`mixed` records.

## Not modelled, and why

* `chat/store.py:364-385` reads, changes and writes a thread's metadata: two PATCHes
  may lose one. The web UI never sends one.
* The choice of the default database when a probe of the named one fails
  (`storage/neo4j_impl.py:162-185`): one read at start, a failed probe is taken for
  an answer.
* Which loop a pool belongs to (`_pool_key`): one loop in the service.
* Similarity, PageRank, reranker scores, tokenizers, prompts and the text models
  answer: numerics and wording; the models leave their results open.
* The Docling service: third-party code, kept as what the code does with its results.
  Of langchain's splitter only what `split_text` does with these separators is modelled,
  as external.
* What follows when the graph store raises while storages are finalized before
  doc-status (`core.py:364-366`): `PostgresStore` lists the PostgreSQL stores only, whose
  `PoolCloseFails` has the same effect on the stores after it.
* A cancellation while a dump runs in its thread (`storage/json_kv_impl.py:146-152`): the
  lock is released and the thread writes on, to the temporary name a finalize may use as
  well. `FileStore` has the thread end with the call.
* `prepare_retrieval` that finds the memory gone between its awaits raises
  (`core.py:2115`); `CorpusRewrite` has it go on. `Rebuilt` leaves out facts a
  "modified" resolution makes anew; `MemoryRebuild` has them.
* A DELETE of a thread that took effect while its answer was lost: the tab then treats
  it as kept, and the properties of the view except what follows a failed removal.
* `retrieval.py` and the parts of `memory.py` the engine does not call
  (`build_from_openie_results`, `save`, `load`): not wired in.
* The schema cache of the console (`api/routers/cypher.py:617-684`): one entry that
  expires a fixed time after its first read was begun.
* Graph, library, Ollama and MCP routes: views without state of their own, or a
  translation of one request; what they read is in `Retrieval` and `GraphBuffer`. Text
  to Cypher calls a model and then the console.
* Of the console's page, the loading flag, styles and the table of rows.
* Authentication besides the limiter, middleware, metrics: no state the properties
  meet.
* Web UI besides the chat and the console, evaluation, client, scripts, observability:
  clients of the routes, or batch programs.
