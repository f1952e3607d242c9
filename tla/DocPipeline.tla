----------------------------- MODULE DocPipeline -----------------------------
(***************************************************************************)
(* The document pipeline of one MemGraphRAG server: the handlers of        *)
(* /documents that enqueue, requeue, delete and clear, the pipeline lock   *)
(* with its drain flag, the worker loop of process_pending, and the sweep  *)
(* that runs at start-up.                                                  *)
(*                                                                         *)
(* A slot is one HTTP request being served together with the background   *)
(* task Starlette runs after its response.  The server is one asyncio      *)
(* process, so a step of a slot is the code between two suspension points. *)
(* The stores (doc-status, OpenIE cache, memory) outlive the process;      *)
(* everything else is lost by a crash.                                     *)
(***************************************************************************)
EXTENDS Naturals, FiniteSets

CONSTANTS
    Slots,      \* request slots of the server
    Docs,       \* document ids
    NoDoc,      \* no document
    Bodies,     \* contents a document can have
    NoBody,     \* no source file on disk
    Chunks,     \* content-hashed chunk ids
    ChunksOf,   \* ChunksOf[b]: the chunks a body is split into
    MayHold,    \* MayHold[d]: the bodies that can be submitted under id d
    Kinds,      \* the requests clients make
    Faults,     \* the operations that may raise
    Crashes     \* whether the process may be killed

AllKinds  == {"upload", "text", "scan", "requeue", "delete", "clear"}
AllFaults == {"parse", "openie", "install", "store", "removal", "recovery"}

ASSUME PipelineAssumption ==
    /\ NoDoc \notin Docs
    /\ NoBody \notin Bodies
    /\ ChunksOf \in [Bodies -> SUBSET Chunks]
    /\ \A b \in Bodies : ChunksOf[b] # {}
    /\ MayHold \in [Docs -> SUBSET Bodies]
    /\ Kinds \subseteq AllKinds
    /\ Faults \subseteq AllFaults
    /\ Crashes \in BOOLEAN

VARIABLES
    rec,            \* doc_status: the record of each document
    source,         \* the source file on disk of each document
    cache,          \* openie_kv: the chunks whose extraction is cached
    memory,         \* memory_kv: the passages of the memory snapshot
    busy,           \* pipeline_lock.locked() / app.state.pipeline_busy
    drainRequested, \* app.state.drain_requested
    up,             \* the process is up and has run its start-up sweep
    torn,           \* history: documents whose removal was cut short half-way
    pc,             \* where each slot stands
    kind,           \* the request each slot serves, "drain" in the background
    loc             \* the local variables of each slot

stores == <<rec, source, cache, memory>>
flags  == <<busy, drainRequested, up, torn>>
vars   == <<rec, source, cache, memory, busy, drainRequested, up, torn, pc, kind, loc>>

----------------------------------------------------------------------------
(* Records of doc-status.                                                  *)

Status == {"absent", "pending", "parsing", "processing", "processed", "failed"}
Record == [status : Status, chunks : SUBSET Chunks]

NoRec == [status |-> "absent", chunks |-> {}]

(* The record enqueue_document writes: it starts from nothing. *)
FreshRecord == [status |-> "pending", chunks |-> {}]

WithStatus(record, s) == [record EXCEPT !.status = s]

Pending(d)    == rec[d].status = "pending"
Processed(d)  == rec[d].status = "processed"
ContentAddressed(d, b) == MayHold[d] = {b}

----------------------------------------------------------------------------
(* Slots.                                                                  *)

WorkerPcs == {"list", "doc", "parse", "mark", "stages", "index", "load",
              "install", "done", "fail", "settle"}
AdminPcs  == {"delRead", "delChunks", "delStatus", "delLoad", "delInstall",
              "clrMemory", "clrCache", "clrStatus"}
HolderPcs == WorkerPcs \cup AdminPcs
Pcs       == HolderPcs \cup {"idle", "enqueue", "scan", "requeue", "route", "drain"}

(* Where a slot is at work on one document. *)
WorkPcs == {"parse", "mark", "stages", "index", "load", "install", "done", "fail"}
DocPcs  == WorkPcs \cup {"enqueue", "requeue"}

Local == [doc : Docs \cup {NoDoc}, docs : SUBSET Docs, snap : [Docs -> Record],
          copy : Record, chunks : SUBSET Chunks, corpus : SUBSET Chunks,
          more : BOOLEAN]

IdleLocal == [doc |-> NoDoc, docs |-> {}, snap |-> [d \in Docs |-> NoRec],
              copy |-> NoRec, chunks |-> {}, corpus |-> {}, more |-> FALSE]

Goto(r, p)     == pc' = [pc EXCEPT ![r] = p]
SetKind(r, k)  == kind' = [kind EXCEPT ![r] = k]
SetLocal(r, l) == loc' = [loc EXCEPT ![r] = l]
SetRec(d, x)   == rec' = [rec EXCEPT ![d] = x]

(* The slot has answered and has no background work left. *)
Retire(r) == Goto(r, "idle") /\ SetKind(r, "none") /\ SetLocal(r, IdleLocal)

Arrives(r, k) == up /\ k \in Kinds /\ pc[r] = "idle" /\ SetKind(r, k)

TypeOK ==
    /\ rec \in [Docs -> Record]
    /\ source \in [Docs -> Bodies \cup {NoBody}]
    /\ cache \subseteq Chunks
    /\ memory \subseteq Chunks
    /\ busy \in BOOLEAN
    /\ drainRequested \in BOOLEAN
    /\ up \in BOOLEAN
    /\ torn \subseteq Docs
    /\ pc \in [Slots -> Pcs]
    /\ kind \in [Slots -> AllKinds \cup {"drain", "none"}]
    /\ loc \in [Slots -> Local]
    /\ \A r \in Slots : pc[r] \in DocPcs => loc[r].doc \in Docs

Init ==
    /\ rec = [d \in Docs |-> NoRec]
    /\ source = [d \in Docs |-> NoBody]
    /\ cache = {} /\ memory = {}
    /\ busy = FALSE /\ drainRequested = FALSE /\ up = TRUE /\ torn = {}
    /\ pc = [r \in Slots |-> "idle"]
    /\ kind = [r \in Slots |-> "none"]
    /\ loc = [r \in Slots |-> IdleLocal]

----------------------------------------------------------------------------
(* The pipeline lock.  The busy test and the acquisition are one step:     *)
(* acquiring a free asyncio lock does not suspend.                         *)

FreeAlways == TRUE
Free == ~busy

----------------------------------------------------------------------------
(* Requests that enqueue.                                                  *)

(* A known id is answered "duplicate" and changes nothing, so only a new   *)
(* one is an action.                                                       *)
Upload(r, d, b) ==
    /\ Arrives(r, "upload")
    /\ ContentAddressed(d, b)
    /\ rec[d].status = "absent"
    /\ source' = [source EXCEPT ![d] = b]
    /\ SetLocal(r, [IdleLocal EXCEPT !.doc = d])
    /\ Goto(r, "enqueue")
    /\ UNCHANGED <<rec, cache, memory, flags>>

Text(r, d, b) ==
    /\ Arrives(r, "text")
    /\ b \in MayHold[d]
    /\ source' = [source EXCEPT ![d] = b]
    /\ SetLocal(r, [IdleLocal EXCEPT !.doc = d])
    /\ Goto(r, "enqueue")
    /\ UNCHANGED <<rec, cache, memory, flags>>

(* The scan sees the files of the input directory, not the inline spool. *)
ScannedFiles == {d \in Docs : \E b \in Bodies : ContentAddressed(d, b) /\ source[d] = b}

Scan(r) ==
    /\ Arrives(r, "scan")
    /\ SetLocal(r, [IdleLocal EXCEPT !.docs = ScannedFiles])
    /\ Goto(r, "scan")
    /\ UNCHANGED <<stores, flags>>

(* A file that vanished meanwhile cannot be hashed and is skipped. *)
ScanFile(r, d) ==
    /\ pc[r] = "scan" /\ d \in loc[r].docs
    /\ IF source[d] # NoBody /\ rec[d].status \in {"absent", "failed"}
         THEN /\ Goto(r, "enqueue")
              /\ SetLocal(r, [loc[r] EXCEPT !.doc = d, !.docs = @ \ {d}])
         ELSE /\ SetLocal(r, [loc[r] EXCEPT !.docs = @ \ {d}])
              /\ UNCHANGED pc
    /\ UNCHANGED <<stores, flags, kind>>

(* enqueue_document: upsert, whatever record is there by now. *)
Enqueue(r) ==
    /\ pc[r] = "enqueue"
    /\ SetRec(loc[r].doc, FreshRecord)
    /\ IF kind[r] = "scan"
         THEN Goto(r, "scan") /\ SetLocal(r, [loc[r] EXCEPT !.doc = NoDoc])
         ELSE Goto(r, "route") /\ SetLocal(r, IdleLocal)
    /\ UNCHANGED <<source, cache, memory, flags, kind>>

(* The upsert raises: a scan goes on with the next file, any other request *)
(* ends there and schedules nothing.                                       *)
EnqueueFails(r) ==
    /\ "store" \in Faults /\ pc[r] \in {"enqueue", "requeue"}
    /\ IF kind[r] = "scan"
         THEN /\ Goto(r, "scan") /\ SetLocal(r, [loc[r] EXCEPT !.doc = NoDoc])
              /\ UNCHANGED kind
         ELSE Retire(r)
    /\ UNCHANGED <<stores, flags>>

RequeueRead(r, d) ==
    /\ Arrives(r, "requeue")
    /\ rec[d].status \in {"failed", "processing", "parsing", "pending"}
    /\ SetLocal(r, [IdleLocal EXCEPT !.doc = d, !.copy = rec[d]])
    /\ Goto(r, "requeue")
    /\ UNCHANGED <<stores, flags>>

RequeueWrite(r) ==
    /\ pc[r] = "requeue"
    /\ SetRec(loc[r].doc, [loc[r].copy EXCEPT !.status = "pending", !.chunks = {}])
    /\ SetLocal(r, IdleLocal)
    /\ Goto(r, "route")
    /\ UNCHANGED <<source, cache, memory, flags, kind>>

----------------------------------------------------------------------------
(* After the record is written: schedule a drain, or for /text run the     *)
(* pipeline in the request when nobody else does.                          *)

EnqueueOver(r) == pc[r] = "route" \/ (pc[r] = "scan" /\ loc[r].docs = {})

(* A handler that returns without raising the flag: the background task    *)
(* is never added.                                                         *)
ForgetDrain(r) ==
    /\ EnqueueOver(r)
    /\ kind[r] = "text" => ~Free
    /\ Retire(r)
    /\ UNCHANGED <<stores, flags>>

ScheduleDrain(r) ==
    /\ EnqueueOver(r)
    /\ kind[r] = "text" => ~Free
    /\ drainRequested' = TRUE
    /\ SetKind(r, "drain") /\ Goto(r, "drain")
    /\ UNCHANGED <<stores, busy, up, torn, loc>>

RunTextInline(r) ==
    /\ pc[r] = "route" /\ kind[r] = "text" /\ Free
    /\ busy' = TRUE /\ drainRequested' = FALSE
    /\ Goto(r, "list")
    /\ UNCHANGED <<stores, up, torn, kind, loc>>

DrainAcquire(r) ==
    /\ pc[r] = "drain" /\ Free
    /\ busy' = TRUE /\ drainRequested' = FALSE
    /\ Goto(r, "list")
    /\ UNCHANGED <<stores, up, torn, kind, loc>>

(* Busy: leave the flag up for the holder and return "deferred". *)
DeferQuietly(r) ==
    /\ pc[r] = "drain" /\ ~Free
    /\ drainRequested' = FALSE
    /\ Retire(r)
    /\ UNCHANGED <<stores, busy, up, torn>>

DrainDefer(r) ==
    /\ pc[r] = "drain" /\ ~Free
    /\ drainRequested' = TRUE
    /\ Retire(r)
    /\ UNCHANGED <<stores, busy, up, torn>>

----------------------------------------------------------------------------
(* process_pending: one pass over a snapshot of the PENDING records.       *)

List(r) ==
    /\ pc[r] = "list"
    /\ LET todo == {d \in Docs : Pending(d)} IN
       SetLocal(r, [IdleLocal EXCEPT
           !.docs = todo,
           !.snap = [d \in Docs |-> IF d \in todo THEN rec[d] ELSE NoRec]])
    /\ Goto(r, "doc")
    /\ UNCHANGED <<stores, flags, kind>>

(* _set_status: the worker writes back its own copy of the record. *)
WriteStatus(r, d, record) ==
    SetRec(d, record) /\ UNCHANGED <<source, cache, memory, flags, kind>>

BeginDoc(r, d) ==
    /\ pc[r] = "doc" /\ d \in loc[r].docs
    /\ LET copy == WithStatus(loc[r].snap[d], "parsing") IN
       /\ WriteStatus(r, d, copy)
       /\ SetLocal(r, [loc[r] EXCEPT !.doc = d, !.docs = @ \ {d}, !.copy = copy,
                                     !.snap[d] = NoRec])
    /\ Goto(r, "parse")

BeginDocFails(r, d) ==
    /\ "store" \in Faults
    /\ pc[r] = "doc" /\ d \in loc[r].docs
    /\ SetLocal(r, [loc[r] EXCEPT !.doc = d, !.docs = @ \ {d}, !.copy = loc[r].snap[d],
                                  !.snap[d] = NoRec])
    /\ Goto(r, "fail")
    /\ UNCHANGED <<stores, flags, kind>>

ParseAndChunk(r) ==
    /\ pc[r] = "parse" /\ source[loc[r].doc] # NoBody
    /\ SetLocal(r, [loc[r] EXCEPT !.chunks = ChunksOf[source[loc[r].doc]]])
    /\ Goto(r, "mark")
    /\ UNCHANGED <<stores, flags, kind>>

ParseFails(r) ==
    /\ pc[r] = "parse"
    /\ "parse" \in Faults \/ source[loc[r].doc] = NoBody
    /\ Goto(r, "fail")
    /\ UNCHANGED <<stores, flags, kind, loc>>

MarkProcessing(r) ==
    /\ pc[r] = "mark"
    /\ LET copy == WithStatus(loc[r].copy, "processing") IN
       /\ WriteStatus(r, loc[r].doc, copy)
       /\ SetLocal(r, [loc[r] EXCEPT !.copy = copy])
    /\ Goto(r, "stages")

(* The sub-stage loop upserts the same copy again, seven times over. *)
WriteStages(r) ==
    /\ pc[r] = "stages"
    /\ WriteStatus(r, loc[r].doc, loc[r].copy)
    /\ Goto(r, "index")
    /\ UNCHANGED loc

(* OpenIE is checkpointed: what was extracted before a failure is cached.  *)
Missing(r) == loc[r].chunks \ cache

Extract(r) ==
    /\ pc[r] = "index"
    /\ cache' = cache \cup loc[r].chunks
    /\ Goto(r, "load")
    /\ UNCHANGED <<rec, source, memory, flags, kind, loc>>

ExtractFails(r) ==
    /\ pc[r] = "index" /\ "openie" \in Faults
    /\ \E ok \in SUBSET Missing(r) :
         ok # Missing(r) /\ cache' = cache \cup ok
    /\ Goto(r, "fail")
    /\ UNCHANGED <<rec, source, memory, flags, kind, loc>>

(* The corpus a rebuild starts from: the chunks of PROCESSED documents,    *)
(* the chunks being inserted, and every cached chunk no record claims.     *)
Claimed == UNION {rec[d].chunks : d \in Docs}

Corpus(extra) ==
    cache \cap (extra \cup UNION {rec[d].chunks : d \in {e \in Docs : Processed(e)}}
                      \cup (cache \ Claimed))

Load(r) ==
    /\ pc[r] = "load"
    /\ SetLocal(r, [loc[r] EXCEPT !.corpus = Corpus(loc[r].chunks)])
    /\ Goto(r, "install")
    /\ UNCHANGED <<stores, flags, kind>>

(* Schema, ontology and conflict stages, vectors and graph, then one write *)
(* of the snapshot: whatever fails before it leaves the old snapshot.      *)
Install(r) ==
    /\ pc[r] = "install"
    /\ memory' = loc[r].corpus
    /\ Goto(r, "done")
    /\ UNCHANGED <<rec, source, cache, flags, kind, loc>>

InstallFails(r) ==
    /\ pc[r] = "install" /\ "install" \in Faults
    /\ Goto(r, "fail")
    /\ UNCHANGED <<stores, flags, kind, loc>>

NextDoc(r) ==
    /\ SetLocal(r, [loc[r] EXCEPT !.doc = NoDoc, !.copy = NoRec, !.chunks = {},
                                  !.corpus = {}])
    /\ Goto(r, "doc")

MarkProcessed(r) ==
    /\ pc[r] = "done"
    /\ SetRec(loc[r].doc,
              [loc[r].copy EXCEPT !.status = "processed", !.chunks = loc[r].chunks])
    /\ torn' = torn \ {loc[r].doc}
    /\ NextDoc(r)
    /\ UNCHANGED <<source, cache, memory, busy, drainRequested, up, kind>>

MarkFailed(r) ==
    /\ pc[r] = "fail"
    /\ WriteStatus(r, loc[r].doc, WithStatus(loc[r].copy, "failed"))
    /\ NextDoc(r)

(* A status write that raises inside the try block fails the document. *)
StatusWriteFails(r) ==
    /\ "store" \in Faults /\ pc[r] \in {"mark", "stages", "done"}
    /\ Goto(r, "fail")
    /\ UNCHANGED <<stores, flags, kind, loc>>

(* The pass is over: look for documents that became PENDING meanwhile. *)
LookAgain(r) ==
    /\ pc[r] = "doc" /\ loc[r].docs = {}
    /\ SetLocal(r, [IdleLocal EXCEPT !.more = \E d \in Docs : Pending(d)])
    /\ Goto(r, "settle")
    /\ UNCHANGED <<stores, flags, kind>>

KeepDraining(r) ==
    /\ pc[r] = "settle" /\ loc[r].more
    /\ drainRequested' = (kind[r] = "text" /\ drainRequested)
    /\ Goto(r, "list") /\ SetLocal(r, IdleLocal)
    /\ UNCHANGED <<stores, busy, up, torn, kind>>

(* Nothing left: release.  A drain deferred meanwhile makes a background   *)
(* drain loop take the lock again, and a /text request schedule one.       *)
StopAnyway(r) ==
    /\ pc[r] = "settle" /\ ~loc[r].more
    /\ busy' = FALSE
    /\ Retire(r)
    /\ UNCHANGED <<stores, drainRequested, up, torn>>

Stop(r) ==
    /\ pc[r] = "settle" /\ ~loc[r].more /\ ~drainRequested
    /\ busy' = FALSE
    /\ Retire(r)
    /\ UNCHANGED <<stores, drainRequested, up, torn>>

DrainAgain(r) ==
    /\ pc[r] = "settle" /\ ~loc[r].more /\ drainRequested
    /\ IF kind[r] = "text"
         THEN /\ busy' = FALSE
              /\ SetKind(r, "drain") /\ Goto(r, "drain")
              /\ UNCHANGED drainRequested
         ELSE /\ drainRequested' = FALSE
              /\ Goto(r, "list")
              /\ UNCHANGED <<busy, kind>>
    /\ SetLocal(r, IdleLocal)
    /\ UNCHANGED <<stores, up, torn>>

(* An exception that leaves process_pending releases the lock and ends the *)
(* slot: the drain loop is left, and a failed request runs no background   *)
(* task.                                                                   *)
WorkerRaises(r) ==
    /\ "store" \in Faults
    /\ pc[r] \in {"list", "fail"} \/ (pc[r] = "doc" /\ loc[r].docs = {})
    /\ busy' = FALSE
    /\ Retire(r)
    /\ UNCHANGED <<stores, drainRequested, up, torn>>

----------------------------------------------------------------------------
(* Deleting and clearing.                                                  *)

Delete(r, D) ==
    /\ Arrives(r, "delete") /\ Free
    /\ busy' = TRUE
    /\ SetLocal(r, [IdleLocal EXCEPT !.docs = D])
    /\ Goto(r, "delRead")
    /\ UNCHANGED <<stores, drainRequested, up, torn>>

RefersIgnoringOthers(D) == {}

(* The chunks documents outside D still refer to: PROCESSED ones count. *)
Refers(D) == UNION {rec[d].chunks : d \in {e \in Docs \ D : Processed(e)}}

HasCorpusImpact(d) == rec[d].status \in {"processed", "processing", "failed"}

DeleteRead(r, deleteFile) ==
    /\ pc[r] = "delRead"
    /\ LET D      == loc[r].docs
           target == {d \in D : rec[d].status # "absent"}
           owned  == UNION {rec[d].chunks : d \in target}
       IN /\ SetLocal(r, [loc[r] EXCEPT !.docs = target,
                                        !.chunks = owned \ Refers(D),
                                        !.more = \E d \in target : HasCorpusImpact(d)])
          /\ source' = [d \in Docs |-> IF deleteFile /\ d \in target
                                         THEN NoBody ELSE source[d]]
    /\ Goto(r, "delChunks")
    /\ UNCHANGED <<rec, cache, memory, flags, kind>>

DeleteChunks(r) ==
    /\ pc[r] = "delChunks"
    /\ cache' = cache \ loc[r].chunks
    /\ Goto(r, "delStatus")
    /\ UNCHANGED <<rec, source, memory, flags, kind, loc>>

DeleteStatus(r) ==
    /\ pc[r] = "delStatus"
    /\ rec' = [d \in Docs |-> IF d \in loc[r].docs THEN NoRec ELSE rec[d]]
    /\ IF loc[r].more
         THEN Goto(r, "delLoad") /\ UNCHANGED <<busy, kind, loc>>
         ELSE busy' = FALSE /\ Retire(r)
    /\ UNCHANGED <<source, cache, memory, drainRequested, up, torn>>

DeleteLoad(r) ==
    /\ pc[r] = "delLoad"
    /\ SetLocal(r, [loc[r] EXCEPT !.corpus = Corpus({})])
    /\ Goto(r, "delInstall")
    /\ UNCHANGED <<stores, flags, kind>>

DeleteInstall(r) ==
    /\ pc[r] = "delInstall"
    /\ memory' = loc[r].corpus
    /\ busy' = FALSE
    /\ Retire(r)
    /\ UNCHANGED <<rec, source, cache, drainRequested, up, torn>>

Clear(r, deleteFiles) ==
    /\ Arrives(r, "clear") /\ Free
    /\ busy' = TRUE
    /\ source' = IF deleteFiles THEN [d \in Docs |-> NoBody] ELSE source
    /\ SetLocal(r, IdleLocal)
    /\ Goto(r, "clrMemory")
    /\ UNCHANGED <<rec, cache, memory, drainRequested, up, torn>>

ClearMemory(r) ==
    /\ pc[r] = "clrMemory"
    /\ memory' = {}
    /\ Goto(r, "clrCache")
    /\ UNCHANGED <<rec, source, cache, flags, kind, loc>>

ClearCache(r) ==
    /\ pc[r] = "clrCache"
    /\ cache' = {}
    /\ Goto(r, "clrStatus")
    /\ UNCHANGED <<rec, source, memory, flags, kind, loc>>

ClearStatus(r) ==
    /\ pc[r] = "clrStatus"
    /\ rec' = [d \in Docs |-> NoRec]
    /\ busy' = FALSE
    /\ Retire(r)
    /\ UNCHANGED <<source, cache, memory, drainRequested, up, torn>>

(* What a slot leaves torn if it ends where it stands: the chunks are gone *)
(* and the records are not.                                                *)
LeavesTorn(r) ==
    CASE pc[r] = "delStatus"              -> loc[r].docs
      [] pc[r] \in {"clrCache", "clrStatus"} -> Docs
      [] OTHER                            -> {}

AdminRaises(r) ==
    /\ "removal" \in Faults /\ pc[r] \in AdminPcs
    /\ busy' = FALSE
    /\ torn' = torn \cup LeavesTorn(r)
    /\ Retire(r)
    /\ UNCHANGED <<stores, drainRequested, up>>

----------------------------------------------------------------------------
(* The process dies, and the next one sweeps the records it left behind.   *)
(* The sweep schedules no drain; it is best effort and may be skipped.     *)

Crash ==
    /\ Crashes /\ up
    /\ up' = FALSE
    /\ busy' = FALSE /\ drainRequested' = FALSE
    /\ torn' = torn \cup UNION {LeavesTorn(r) : r \in Slots}
    /\ pc' = [r \in Slots |-> "idle"]
    /\ kind' = [r \in Slots |-> "none"]
    /\ loc' = [r \in Slots |-> IdleLocal]
    /\ UNCHANGED stores

Interrupted(d) == rec[d].status \in {"parsing", "processing"}

SweptRecords == [d \in Docs |-> IF Interrupted(d)
                                  THEN [rec[d] EXCEPT !.status = "pending", !.chunks = {}]
                                  ELSE rec[d]]

Recover ==
    /\ ~up
    /\ up' = TRUE
    /\ \/ rec' = SweptRecords
       \/ "recovery" \in Faults /\ UNCHANGED rec
    /\ UNCHANGED <<source, cache, memory, busy, drainRequested, torn, pc, kind, loc>>

----------------------------------------------------------------------------

Request(r) ==
    \/ \E d \in Docs, b \in Bodies : Upload(r, d, b) \/ Text(r, d, b)
    \/ Scan(r)
    \/ \E d \in Docs : RequeueRead(r, d)
    \/ \E D \in SUBSET Docs : D # {} /\ Delete(r, D)
    \/ \E f \in BOOLEAN : Clear(r, f)

WorkerStep(r) ==
    \/ List(r) \/ (\E d \in Docs : BeginDoc(r, d) \/ BeginDocFails(r, d))
    \/ ParseAndChunk(r) \/ ParseFails(r) \/ MarkProcessing(r) \/ WriteStages(r)
    \/ Extract(r) \/ ExtractFails(r) \/ Load(r) \/ Install(r) \/ InstallFails(r)
    \/ MarkProcessed(r) \/ MarkFailed(r) \/ StatusWriteFails(r)
    \/ LookAgain(r) \/ KeepDraining(r) \/ Stop(r) \/ DrainAgain(r) \/ WorkerRaises(r)

HandlerStep(r) ==
    \/ (\E d \in Docs : ScanFile(r, d)) \/ Enqueue(r) \/ EnqueueFails(r) \/ RequeueWrite(r)
    \/ ScheduleDrain(r) \/ RunTextInline(r) \/ DrainAcquire(r) \/ DrainDefer(r)
    \/ (\E f \in BOOLEAN : DeleteRead(r, f))
    \/ DeleteChunks(r) \/ DeleteStatus(r) \/ DeleteLoad(r) \/ DeleteInstall(r)
    \/ ClearMemory(r) \/ ClearCache(r) \/ ClearStatus(r) \/ AdminRaises(r)

Next ==
    \/ \E r \in Slots : Request(r) \/ HandlerStep(r) \/ WorkerStep(r)
    \/ Crash
    \/ Recover

Spec == Init /\ [][Next]_vars

(* The event loop resumes every ready task, and every awaited operation    *)
(* ends: provider calls carry timeouts and bounded retries.  Requests need *)
(* not arrive and the process need not crash.                              *)
Fairness ==
    /\ \A r \in Slots : WF_vars(HandlerStep(r) \/ WorkerStep(r))
    /\ WF_vars(Recover)

FairSpec == Spec /\ Fairness

----------------------------------------------------------------------------
(* Properties.                                                             *)

(* At most one slot is between taking the pipeline lock and releasing it,  *)
(* and the busy flag that /health reports is up exactly then: the lock of  *)
(* _acquire_pipeline, _try_acquire_pipeline and _release_pipeline.         *)
PipelineExclusive ==
    /\ \A r, s \in Slots : pc[r] \in HolderPcs /\ pc[s] \in HolderPcs => r = s
    /\ busy <=> \E r \in Slots : pc[r] \in HolderPcs

(* The removal of d is between dropping its chunks and dropping its record, *)
(* or ended there.                                                         *)
BeingDropped(d) == d \in torn \cup UNION {LeavesTorn(r) : r \in Slots}

(* What doc-status calls PROCESSED is served: each of its chunks has its   *)
(* extraction in the cache and its passage in the memory snapshot, whatever *)
(* other documents were deleted, re-ingested, failed or interrupted since. *)
(* The one exception is a document whose own removal was cut short.        *)
ProcessedIsServed ==
    \A d \in Docs :
        Processed(d) /\ ~BeingDropped(d)
            => rec[d].chunks # {} /\ rec[d].chunks \subseteq cache \cap memory

(* Why it holds.  Only PROCESSED records claim chunks, and the copies      *)
(* workers carry never do; the corpus a lock holder has loaded covers      *)
(* every claim; the chunks a delete is about to drop are claimed by nobody *)
(* else; and the documents a worker still holds keep their records.        *)
Exists(d)     == rec[d].status # "absent"
Unclaiming(x) == x.status # "processed" /\ x.chunks = {}
Covers(C)     == \A d \in Docs : Processed(d) /\ ~BeingDropped(d) => rec[d].chunks \subseteq C

CopiesClaimNothing(r) ==
    Unclaiming(loc[r].copy) /\ \A d \in Docs : Unclaiming(loc[r].snap[d])

WorkerHolds(r) ==
    /\ pc[r] \in WorkPcs => Exists(loc[r].doc)
    /\ pc[r] \in WorkPcs \cup {"doc"} => \A d \in loc[r].docs : Exists(d)
    /\ pc[r] = "stages" => loc[r].copy.status = "processing"
    /\ pc[r] \in {"mark", "stages", "index", "load", "install", "done"} => loc[r].chunks # {}
    /\ pc[r] \in {"load", "install", "done"} => loc[r].chunks \subseteq cache
    /\ pc[r] = "install" => loc[r].chunks \subseteq loc[r].corpus /\ Covers(loc[r].corpus)
    /\ pc[r] = "done" => loc[r].chunks \subseteq memory

AdminHolds(r) ==
    /\ pc[r] = "delChunks" =>
          \A d \in Docs \ loc[r].docs : Processed(d) => rec[d].chunks \cap loc[r].chunks = {}
    /\ pc[r] = "delInstall" => Covers(loc[r].corpus)

(* The inductive strengthening of ProcessedIsServed and NoResurrection.    *)
ServingInvariant ==
    /\ PipelineExclusive
    /\ ProcessedIsServed
    /\ \A d \in Docs : Processed(d) \/ rec[d].chunks = {}
    /\ \A r \in Slots : CopiesClaimNothing(r) /\ WorkerHolds(r) /\ AdminHolds(r)

(* A document that was deleted comes back only by being enqueued again,    *)
(* never because a worker writes back the copy of the record it holds.     *)
NoResurrection ==
    [][\A d \in Docs : rec[d].status = "absent"
                         => rec'[d].status \in {"absent", "pending"}]_rec

(* Somebody will look for PENDING documents: the lock holder before it     *)
(* stops, or a request whose drain is still to be scheduled or to start.   *)
SchedulingPcs == {"enqueue", "scan", "requeue", "route", "drain"}

DrainAhead == busy \/ \E r \in Slots : pc[r] \in SchedulingPcs

(* A PENDING document is never left with nobody to look for it.            *)
PendingHasDrain == (\E d \in Docs : Pending(d)) => DrainAhead

(* Every enqueued document leaves PENDING: "indexing will start when the   *)
(* pipeline is idle".                                                      *)
PendingDrains == \A d \in Docs : Pending(d) ~> ~Pending(d)

(* Nothing is in flight. *)
Quiet == up /\ \A r \in Slots : pc[r] = "idle"

=============================================================================
