-------------------------- MODULE DocPipelineProofs --------------------------
(***************************************************************************)
(* What holds of DocPipeline for every set of slots, documents and chunks. *)
(***************************************************************************)
EXTENDS DocPipeline, TLAPS

(* Definitions that only abbreviate an assignment. *)
USE DEF stores, flags, Goto, SetKind, SetLocal, SetRec, Retire, Arrives

----------------------------------------------------------------------------
(* Typing.                                                                 *)

LEMMA RecordsTyped ==
    /\ NoRec \in Record /\ FreshRecord \in Record
    /\ \A x \in Record, s \in Status : WithStatus(x, s) \in Record
    /\ \A x \in Record, s \in Status, C \in SUBSET Chunks :
          [x EXCEPT !.status = s, !.chunks = C] \in Record
BY DEF NoRec, FreshRecord, WithStatus, Record, Status

LEMMA IdleLocalTyped == IdleLocal \in Local /\ IdleLocal.doc = NoDoc
BY RecordsTyped DEF IdleLocal, Local

(* Every step moves one slot: what is left to check is where it goes and   *)
(* with which locals.                                                      *)
LEMMA SlotTyped ==
    ASSUME TypeOK, NEW r \in Slots, NEW p \in Pcs, NEW l \in Local,
           pc' = [pc EXCEPT ![r] = p], loc' = [loc EXCEPT ![r] = l],
           p \in DocPcs => l.doc \in Docs
    PROVE  /\ pc' \in [Slots -> Pcs] /\ loc' \in [Slots -> Local]
           /\ \A s \in Slots : pc'[s] \in DocPcs => loc'[s].doc \in Docs
BY DEF TypeOK

LEMMA SlotMoves ==
    ASSUME TypeOK, NEW r \in Slots, NEW p \in Pcs,
           pc' = [pc EXCEPT ![r] = p], UNCHANGED loc,
           p \in DocPcs => loc[r].doc \in Docs
    PROVE  /\ pc' \in [Slots -> Pcs] /\ loc' \in [Slots -> Local]
           /\ \A s \in Slots : pc'[s] \in DocPcs => loc'[s].doc \in Docs
BY DEF TypeOK

LEMMA SlotIdles ==
    ASSUME TypeOK, NEW r \in Slots, Retire(r)
    PROVE  /\ pc' \in [Slots -> Pcs] /\ loc' \in [Slots -> Local]
           /\ kind' \in [Slots -> AllKinds \cup {"drain", "none"}]
           /\ \A s \in Slots : pc'[s] \in DocPcs => loc'[s].doc \in Docs
<1>1. "idle" \in Pcs /\ "idle" \notin DocPcs
  BY DEF Pcs, DocPcs, WorkPcs
<1> QED
  BY <1>1, IdleLocalTyped DEF TypeOK

LEMMA CorpusTyped == ASSUME TypeOK, NEW E \in SUBSET Chunks
                     PROVE  Corpus(E) \in SUBSET Chunks
BY DEF TypeOK, Corpus

LEMMA RequestTyped == ASSUME TypeOK, NEW r \in Slots, Request(r) PROVE TypeOK'
<1> USE IdleLocalTyped, RecordsTyped DEF Pcs, HolderPcs, AdminPcs, DocPcs, WorkPcs, AllKinds
<1>1. ASSUME NEW d \in Docs, NEW b \in Bodies, Upload(r, d, b) PROVE TypeOK'
  <2>1. [IdleLocal EXCEPT !.doc = d] \in Local /\ [IdleLocal EXCEPT !.doc = d].doc = d
    BY DEF Local
  <2> QED
    BY <1>1, <2>1, SlotTyped DEF TypeOK, Upload
<1>2. ASSUME NEW d \in Docs, NEW b \in Bodies, Text(r, d, b) PROVE TypeOK'
  <2>1. [IdleLocal EXCEPT !.doc = d] \in Local /\ [IdleLocal EXCEPT !.doc = d].doc = d
    BY DEF Local
  <2> QED
    BY <1>2, <2>1, SlotTyped DEF TypeOK, Text
<1>3. CASE Scan(r)
  <2>1. [IdleLocal EXCEPT !.docs = ScannedFiles] \in Local
    BY DEF Local, ScannedFiles
  <2> QED
    BY <1>3, <2>1, SlotTyped DEF TypeOK, Scan
<1>4. ASSUME NEW d \in Docs, RequeueRead(r, d) PROVE TypeOK'
  <2> DEFINE l == [IdleLocal EXCEPT !.doc = d, !.copy = rec[d]]
  <2>1. l \in Local /\ l.doc = d
    BY DEF Local, TypeOK
  <2> QED
    BY <1>4, <2>1, SlotTyped DEF TypeOK, RequeueRead
<1>5. ASSUME NEW D \in SUBSET Docs, Delete(r, D) PROVE TypeOK'
  <2>1. [IdleLocal EXCEPT !.docs = D] \in Local
    BY DEF Local
  <2> QED
    BY <1>5, <2>1, SlotTyped DEF TypeOK, Delete
<1>6. ASSUME NEW f \in BOOLEAN, Clear(r, f) PROVE TypeOK'
  BY <1>6, SlotTyped DEF TypeOK, Clear
<1> QED
  BY <1>1, <1>2, <1>3, <1>4, <1>5, <1>6 DEF Request

LEMMA EnqueueTyped ==
    ASSUME TypeOK, NEW r \in Slots,
           \/ \E d \in Docs : ScanFile(r, d)
           \/ Enqueue(r) \/ EnqueueFails(r) \/ RequeueWrite(r) \/ ScheduleDrain(r)
           \/ RunTextInline(r) \/ DrainAcquire(r) \/ DrainDefer(r)
    PROVE  TypeOK'
<1> USE IdleLocalTyped, RecordsTyped DEF Pcs, HolderPcs, WorkerPcs, DocPcs, WorkPcs
<1>0. loc[r] \in Local /\ pc[r] \in Pcs
  BY DEF TypeOK
<1>1. ASSUME NEW d \in Docs, ScanFile(r, d) PROVE TypeOK'
  <2> DEFINE l == [loc[r] EXCEPT !.doc = d, !.docs = @ \ {d}]
             m == [loc[r] EXCEPT !.docs = @ \ {d}]
  <2>1. l \in Local /\ l.doc = d /\ m \in Local
    BY <1>0 DEF Local
  <2>2. CASE source[d] # NoBody /\ rec[d].status \in {"absent", "failed"}
    <3> HIDE DEF l
    <3>1. /\ loc' = [loc EXCEPT ![r] = l] /\ pc' = [pc EXCEPT ![r] = "enqueue"]
          /\ UNCHANGED <<stores, flags, kind>>
      BY <1>1, <2>2 DEF ScanFile, l
    <3> QED
      BY <3>1, <2>1, SlotTyped DEF TypeOK
  <2>3. CASE ~(source[d] # NoBody /\ rec[d].status \in {"absent", "failed"})
    BY <1>1, <2>1, <2>3 DEF TypeOK, ScanFile
  <2> QED
    BY <2>2, <2>3
<1>2. CASE Enqueue(r)
  <2>1. [loc[r] EXCEPT !.doc = NoDoc] \in Local
    BY <1>0 DEF Local
  <2>2. rec' \in [Docs -> Record]
    BY <1>2 DEF TypeOK, Enqueue
  <2> QED
    BY <1>2, <2>1, <2>2, SlotTyped, ZenonT(40) DEF TypeOK, Enqueue
<1>3. CASE EnqueueFails(r)
  <2>1. [loc[r] EXCEPT !.doc = NoDoc] \in Local
    BY <1>0 DEF Local
  <2> QED
    BY <1>3, <2>1, SlotTyped, SlotIdles, ZenonT(40) DEF TypeOK, EnqueueFails
<1>4. CASE RequeueWrite(r)
  <2>1. loc[r].copy \in Record
    BY <1>0 DEF Local
  <2>2. [loc[r].copy EXCEPT !.status = "pending", !.chunks = {}] \in Record
    BY <2>1 DEF Status
  <2>3. rec' \in [Docs -> Record]
    BY <1>4, <2>2 DEF TypeOK, RequeueWrite
  <2> QED
    BY <1>4, <2>3, SlotTyped DEF TypeOK, RequeueWrite
<1>5. CASE ScheduleDrain(r)
  BY <1>5, SlotMoves DEF TypeOK, ScheduleDrain
<1>6. CASE RunTextInline(r)
  BY <1>6, SlotMoves DEF TypeOK, RunTextInline
<1>7. CASE DrainAcquire(r)
  BY <1>7, SlotMoves DEF TypeOK, DrainAcquire
<1>8. CASE DrainDefer(r)
  BY <1>8, SlotIdles DEF TypeOK, DrainDefer
<1> QED
  BY <1>1, <1>2, <1>3, <1>4, <1>5, <1>6, <1>7, <1>8

LEMMA AdminTyped ==
    ASSUME TypeOK, NEW r \in Slots,
           \/ \E f \in BOOLEAN : DeleteRead(r, f)
           \/ DeleteChunks(r) \/ DeleteStatus(r) \/ DeleteLoad(r) \/ DeleteInstall(r)
           \/ ClearMemory(r) \/ ClearCache(r) \/ ClearStatus(r) \/ AdminRaises(r)
    PROVE  TypeOK'
<1> USE IdleLocalTyped, RecordsTyped DEF Pcs, HolderPcs, AdminPcs, DocPcs, WorkPcs
<1>0. loc[r] \in Local
  BY DEF TypeOK
<1>1. ASSUME NEW f \in BOOLEAN, DeleteRead(r, f) PROVE TypeOK'
  <2> DEFINE D      == loc[r].docs
             target == {d \in D : rec[d].status # "absent"}
             owned  == UNION {rec[d].chunks : d \in target}
             l == [loc[r] EXCEPT !.docs = target, !.chunks = owned \ Refers(D),
                                 !.more = \E d \in target : HasCorpusImpact(d)]
  <2>1. D \in SUBSET Docs
    BY <1>0 DEF Local
  <2>2. \A d \in Docs : rec[d].chunks \in SUBSET Chunks
    BY DEF TypeOK, Record
  <2>3. target \in SUBSET Docs /\ owned \in SUBSET Chunks
    BY <2>1, <2>2
  <2> HIDE DEF target, owned
  <2>4. l \in Local
    BY <1>0, <2>3 DEF Local
  <2> USE DEF target, owned
  <2>5. source' \in [Docs -> Bodies \cup {NoBody}]
    BY <1>1 DEF DeleteRead, TypeOK
  <2> HIDE DEF l
  <2>6. pc' = [pc EXCEPT ![r] = "delChunks"] /\ loc' = [loc EXCEPT ![r] = l]
    BY <1>1 DEF DeleteRead, l
  <2>7. /\ pc' \in [Slots -> Pcs] /\ loc' \in [Slots -> Local]
        /\ \A s \in Slots : pc'[s] \in DocPcs => loc'[s].doc \in Docs
    BY <2>4, <2>6, SlotTyped
  <2> QED
    BY <1>1, <2>5, <2>7 DEF TypeOK, DeleteRead
<1>2. CASE DeleteChunks(r)
  BY <1>2, SlotMoves DEF TypeOK, DeleteChunks
<1>3. CASE DeleteStatus(r)
  <2>1. rec' \in [Docs -> Record]
    BY <1>3 DEF TypeOK, DeleteStatus
  <2> QED
    BY <1>3, <2>1, SlotMoves, SlotIdles DEF TypeOK, DeleteStatus
<1>4. CASE DeleteLoad(r)
  <2>1. [loc[r] EXCEPT !.corpus = Corpus({})] \in Local
    BY <1>0, CorpusTyped DEF Local
  <2> QED
    BY <1>4, <2>1, SlotTyped DEF TypeOK, DeleteLoad
<1>5. CASE DeleteInstall(r)
  <2>1. loc[r].corpus \in SUBSET Chunks
    BY <1>0 DEF Local
  <2> QED
    BY <1>5, <2>1, SlotIdles DEF TypeOK, DeleteInstall
<1>6. CASE ClearMemory(r)
  BY <1>6, SlotMoves DEF TypeOK, ClearMemory
<1>7. CASE ClearCache(r)
  BY <1>7, SlotMoves DEF TypeOK, ClearCache
<1>8. CASE ClearStatus(r)
  BY <1>8, SlotIdles DEF TypeOK, ClearStatus
<1>9. CASE AdminRaises(r)
  <2>1. LeavesTorn(r) \subseteq Docs
    BY <1>0 DEF LeavesTorn, Local
  <2> QED
    BY <1>9, <2>1, SlotIdles DEF TypeOK, AdminRaises
<1> QED
  BY <1>1, <1>2, <1>3, <1>4, <1>5, <1>6, <1>7, <1>8, <1>9

LEMMA WorkerTyped == ASSUME TypeOK, NEW r \in Slots, WorkerStep(r) PROVE TypeOK'
<1> USE IdleLocalTyped, RecordsTyped DEF Pcs, HolderPcs, WorkerPcs, DocPcs, WorkPcs
<1>0. loc[r] \in Local
  BY DEF TypeOK
<1>1. CASE List(r)
  <2> DEFINE todo == {d \in Docs : Pending(d)}
             l == [IdleLocal EXCEPT
                      !.docs = todo,
                      !.snap = [d \in Docs |-> IF d \in todo THEN rec[d] ELSE NoRec]]
  <2>1. [d \in Docs |-> IF d \in todo THEN rec[d] ELSE NoRec] \in [Docs -> Record]
    BY DEF TypeOK
  <2>2. l \in Local
    BY <2>1 DEF Local
  <2> QED
    BY <1>1, <2>2, SlotTyped DEF TypeOK, List
<1>2. ASSUME NEW d \in Docs, BeginDoc(r, d) PROVE TypeOK'
  <2> DEFINE copy == WithStatus(loc[r].snap[d], "parsing")
             l == [loc[r] EXCEPT !.doc = d, !.docs = @ \ {d}, !.copy = copy,
                                 !.snap[d] = NoRec]
  <2>1. copy \in Record
    BY <1>0 DEF Local, Status
  <2> HIDE DEF copy
  <2>2. l \in Local /\ l.doc = d
    BY <1>0, <2>1 DEF Local
  <2> HIDE DEF l
  <2>3. /\ rec' = [rec EXCEPT ![d] = copy] /\ loc' = [loc EXCEPT ![r] = l]
        /\ pc' = [pc EXCEPT ![r] = "parse"]
        /\ UNCHANGED <<source, cache, memory, flags, kind>>
    BY <1>2 DEF BeginDoc, WriteStatus, copy, l
  <2> QED
    BY <2>1, <2>2, <2>3, SlotTyped DEF TypeOK
<1>3. ASSUME NEW d \in Docs, BeginDocFails(r, d) PROVE TypeOK'
  <2> DEFINE l == [loc[r] EXCEPT !.doc = d, !.docs = @ \ {d}, !.copy = loc[r].snap[d],
                                 !.snap[d] = NoRec]
  <2>1. l \in Local /\ l.doc = d
    BY <1>0 DEF Local
  <2> HIDE DEF l
  <2>2. /\ loc' = [loc EXCEPT ![r] = l] /\ pc' = [pc EXCEPT ![r] = "fail"]
        /\ UNCHANGED <<stores, flags, kind>>
    BY <1>3 DEF BeginDocFails, l
  <2> QED
    BY <2>1, <2>2, SlotTyped DEF TypeOK
<1>4. CASE ParseAndChunk(r)
  <2> DEFINE l == [loc[r] EXCEPT !.chunks = ChunksOf[source[loc[r].doc]]]
  <2>1. loc[r].doc \in Docs /\ source[loc[r].doc] \in Bodies
    BY <1>4 DEF ParseAndChunk, TypeOK
  <2>2. l \in Local /\ l.doc \in Docs
    BY <1>0, <2>1, PipelineAssumption DEF Local
  <2> QED
    BY <1>4, <2>2, SlotTyped DEF TypeOK, ParseAndChunk
<1>5. CASE ParseFails(r)
  BY <1>5, SlotMoves DEF TypeOK, ParseFails
<1>6. CASE MarkProcessing(r)
  <2> DEFINE copy == WithStatus(loc[r].copy, "processing")
             l == [loc[r] EXCEPT !.copy = copy]
  <2>1. copy \in Record /\ loc[r].doc \in Docs
    BY <1>0, <1>6 DEF Local, Status, TypeOK, MarkProcessing
  <2> HIDE DEF copy
  <2>2. l \in Local /\ l.doc \in Docs
    BY <1>0, <2>1 DEF Local
  <2> QED
    BY <1>6, <2>1, <2>2, SlotTyped DEF TypeOK, MarkProcessing, WriteStatus, copy
<1>7. CASE WriteStages(r)
  <2>1. loc[r].copy \in Record /\ loc[r].doc \in Docs
    BY <1>0, <1>7 DEF Local, TypeOK, WriteStages
  <2> QED
    BY <1>7, <2>1, SlotMoves DEF TypeOK, WriteStages, WriteStatus
<1>8. CASE Extract(r)
  <2>1. loc[r].chunks \in SUBSET Chunks /\ loc[r].doc \in Docs
    BY <1>0, <1>8 DEF Local, TypeOK, Extract
  <2> QED
    BY <1>8, <2>1, SlotMoves DEF TypeOK, Extract
<1>9. CASE ExtractFails(r)
  <2>1. loc[r].chunks \in SUBSET Chunks /\ loc[r].doc \in Docs
    BY <1>0, <1>9 DEF Local, TypeOK, ExtractFails
  <2> QED
    BY <1>9, <2>1, SlotMoves DEF TypeOK, ExtractFails, Missing
<1>10. CASE Load(r)
  <2> DEFINE l == [loc[r] EXCEPT !.corpus = Corpus(loc[r].chunks)]
  <2>1. loc[r].chunks \in SUBSET Chunks /\ loc[r].doc \in Docs
    BY <1>0, <1>10 DEF Local, TypeOK, Load
  <2>2. l \in Local /\ l.doc \in Docs
    BY <1>0, <2>1, CorpusTyped DEF Local
  <2> QED
    BY <1>10, <2>2, SlotTyped DEF TypeOK, Load
<1>11. CASE Install(r)
  <2>1. loc[r].corpus \in SUBSET Chunks /\ loc[r].doc \in Docs
    BY <1>0, <1>11 DEF Local, TypeOK, Install
  <2> QED
    BY <1>11, <2>1, SlotMoves DEF TypeOK, Install
<1>12. CASE InstallFails(r)
  BY <1>12, SlotMoves DEF TypeOK, InstallFails
<1> DEFINE next == [loc[r] EXCEPT !.doc = NoDoc, !.copy = NoRec, !.chunks = {}, !.corpus = {}]
<1>13. next \in Local
  BY <1>0 DEF Local
<1>14. CASE MarkProcessed(r)
  <2> DEFINE x == [loc[r].copy EXCEPT !.status = "processed", !.chunks = loc[r].chunks]
  <2>1. x \in Record
    BY <1>0 DEF Local, Status
  <2>2. rec' = [rec EXCEPT ![loc[r].doc] = x]
    BY <1>14 DEF MarkProcessed
  <2>3. rec' \in [Docs -> Record]
    BY <2>1, <2>2 DEF TypeOK
  <2> QED
    BY <1>13, <1>14, <2>3, SlotTyped DEF TypeOK, MarkProcessed, NextDoc
<1>15. CASE MarkFailed(r)
  <2>1. WithStatus(loc[r].copy, "failed") \in Record
    BY <1>0 DEF Local, Status
  <2> QED
    BY <1>13, <1>15, <2>1, SlotTyped DEF TypeOK, MarkFailed, WriteStatus, NextDoc
<1>16. CASE StatusWriteFails(r)
  BY <1>16, SlotMoves DEF TypeOK, StatusWriteFails
<1>17. CASE LookAgain(r)
  <2>1. [IdleLocal EXCEPT !.more = \E d \in Docs : Pending(d)] \in Local
    BY DEF Local
  <2> QED
    BY <1>17, <2>1, SlotTyped DEF TypeOK, LookAgain
<1>18. CASE KeepDraining(r)
  BY <1>18, SlotTyped DEF TypeOK, KeepDraining
<1>19. CASE Stop(r)
  BY <1>19, SlotIdles DEF TypeOK, Stop
<1>20. CASE DrainAgain(r)
  BY <1>20, SlotTyped DEF TypeOK, DrainAgain
<1>21. CASE WorkerRaises(r)
  BY <1>21, SlotIdles DEF TypeOK, WorkerRaises
<1> QED
  BY <1>1, <1>2, <1>3, <1>4, <1>5, <1>6, <1>7, <1>8, <1>9, <1>10, <1>11, <1>12,
     <1>14, <1>15, <1>16, <1>17, <1>18, <1>19, <1>20, <1>21 DEF WorkerStep

LEMMA TypeKept == ASSUME TypeOK, [Next]_vars PROVE TypeOK'
<1> USE IdleLocalTyped, RecordsTyped
<1>1. CASE Crash
  <2>1. \A r \in Slots : LeavesTorn(r) \subseteq Docs
    BY DEF LeavesTorn, TypeOK, Local
  <2>2. UNION {LeavesTorn(r) : r \in Slots} \subseteq Docs
    BY <2>1
  <2>3. torn' \subseteq Docs
    BY <1>1, <2>2 DEF Crash, TypeOK
  <2> QED
    BY <1>1, <2>3 DEF TypeOK, Crash, Pcs, DocPcs, WorkPcs
<1>2. CASE Recover
  <2>1. SweptRecords \in [Docs -> Record]
    <3>1. ASSUME NEW d \in Docs
          PROVE  [rec[d] EXCEPT !.status = "pending", !.chunks = {}] \in Record
      <4>1. rec[d] \in Record /\ "pending" \in Status
        BY DEF TypeOK, Status
      <4> QED
        BY <4>1, RecordsTyped
    <3> QED
      BY <3>1 DEF SweptRecords, TypeOK
  <2> QED
    BY <1>2, <2>1 DEF TypeOK, Recover
<1>3. CASE UNCHANGED vars
  BY <1>3 DEF TypeOK, vars
<1>4. ASSUME NEW r \in Slots, HandlerStep(r) PROVE TypeOK'
  BY <1>4, EnqueueTyped, AdminTyped DEF HandlerStep
<1> QED
  BY <1>1, <1>2, <1>3, <1>4, RequestTyped, WorkerTyped DEF Next

(* Every variable keeps the type the code gives it: records stay records,  *)
(* chunk ids stay chunk ids, each slot stands at a known point, and a slot *)
(* at work on a document has one.                                          *)
THEOREM TypeCorrect == Spec => []TypeOK
<1> USE IdleLocalTyped, RecordsTyped
<1>1. Init => TypeOK
  <2>1. "idle" \in Pcs /\ "idle" \notin DocPcs
    BY DEF Pcs, DocPcs, WorkPcs
  <2> QED
    BY <2>1, ZenonT(40) DEF Init, TypeOK
<1> QED
  BY <1>1, TypeKept, PTL DEF Spec

----------------------------------------------------------------------------
(* The pipeline lock.  A step of a slot takes the lock, releases it, or    *)
(* leaves it where it is.                                                  *)

Takes(r, p)    == ~busy /\ busy' /\ p \in HolderPcs
Keeps(r, p)    == busy' = busy /\ (p \in HolderPcs <=> pc[r] \in HolderPcs)
Releases(r, p) == pc[r] \in HolderPcs /\ ~busy' /\ p \notin HolderPcs

LockStep(r) ==
    \E p \in Pcs : /\ pc' = [pc EXCEPT ![r] = p]
                   /\ Takes(r, p) \/ Keeps(r, p) \/ Releases(r, p)

LEMMA RequestLocks == ASSUME TypeOK, NEW r \in Slots, Request(r) PROVE LockStep(r)
<1> USE DEF LockStep, Takes, Keeps, Pcs, HolderPcs, AdminPcs, WorkerPcs
<1>1. ASSUME NEW d \in Docs, NEW b \in Bodies, Upload(r, d, b) \/ Text(r, d, b)
      PROVE  LockStep(r)
  BY <1>1 DEF Upload, Text
<1>2. ASSUME Scan(r) \/ \E d \in Docs : RequeueRead(r, d) PROVE LockStep(r)
  BY <1>2 DEF Scan, RequeueRead
<1>3. ASSUME NEW D \in SUBSET Docs, Delete(r, D) PROVE LockStep(r)
  BY <1>3 DEF Delete, Free, TypeOK
<1>4. ASSUME NEW f \in BOOLEAN, Clear(r, f) PROVE LockStep(r)
  BY <1>4 DEF Clear, Free, TypeOK
<1> QED
  BY <1>1, <1>2, <1>3, <1>4 DEF Request

LEMMA HandlerLocks == ASSUME TypeOK, NEW r \in Slots, HandlerStep(r) PROVE LockStep(r)
<1> USE DEF LockStep, Takes, Keeps, Releases, Pcs, HolderPcs, AdminPcs, WorkerPcs
<1>1. ASSUME NEW d \in Docs, ScanFile(r, d) PROVE LockStep(r)
  BY <1>1 DEF ScanFile, TypeOK
<1>2. CASE Enqueue(r) \/ EnqueueFails(r) \/ RequeueWrite(r)
  BY <1>2 DEF Enqueue, EnqueueFails, RequeueWrite, TypeOK
<1>3. CASE ScheduleDrain(r) \/ DrainDefer(r)
  BY <1>3 DEF ScheduleDrain, EnqueueOver, DrainDefer, TypeOK
<1>4. CASE RunTextInline(r) \/ DrainAcquire(r)
  BY <1>4 DEF RunTextInline, DrainAcquire, Free, TypeOK
<1>5. CASE (\E f \in BOOLEAN : DeleteRead(r, f)) \/ DeleteChunks(r) \/ DeleteLoad(r)
           \/ ClearMemory(r) \/ ClearCache(r)
  BY <1>5 DEF DeleteRead, DeleteChunks, DeleteLoad, ClearMemory, ClearCache, TypeOK
<1>6. CASE DeleteStatus(r)
  BY <1>6 DEF DeleteStatus, TypeOK
<1>7. CASE DeleteInstall(r) \/ ClearStatus(r) \/ AdminRaises(r)
  BY <1>7 DEF DeleteInstall, ClearStatus, AdminRaises, TypeOK
<1> QED
  BY <1>1, <1>2, <1>3, <1>4, <1>5, <1>6, <1>7 DEF HandlerStep

LEMMA WorkerLocks == ASSUME TypeOK, NEW r \in Slots, WorkerStep(r) PROVE LockStep(r)
<1> USE DEF LockStep, Keeps, Releases, Pcs, HolderPcs, AdminPcs, WorkerPcs
<1>1. CASE List(r) \/ \E d \in Docs : BeginDoc(r, d) \/ BeginDocFails(r, d)
  BY <1>1 DEF List, BeginDoc, BeginDocFails, WriteStatus, TypeOK
<1>2. CASE ParseAndChunk(r) \/ ParseFails(r) \/ MarkProcessing(r) \/ WriteStages(r)
  BY <1>2 DEF ParseAndChunk, ParseFails, MarkProcessing, WriteStages, WriteStatus, TypeOK
<1>3. CASE Extract(r) \/ ExtractFails(r) \/ Load(r) \/ Install(r) \/ InstallFails(r)
  BY <1>3 DEF Extract, ExtractFails, Load, Install, InstallFails, TypeOK
<1>4. CASE MarkProcessed(r) \/ MarkFailed(r) \/ StatusWriteFails(r) \/ LookAgain(r)
  BY <1>4 DEF MarkProcessed, MarkFailed, WriteStatus, NextDoc, StatusWriteFails, LookAgain,
              TypeOK
<1>5. CASE KeepDraining(r) \/ DrainAgain(r)
  BY <1>5 DEF KeepDraining, DrainAgain, TypeOK
<1>6. CASE Stop(r) \/ WorkerRaises(r)
  BY <1>6 DEF Stop, WorkerRaises, TypeOK
<1> QED
  BY <1>1, <1>2, <1>3, <1>4, <1>5, <1>6 DEF WorkerStep

LEMMA ExclusiveKept == ASSUME TypeOK, PipelineExclusive, [Next]_vars PROVE PipelineExclusive'
<1>1. ASSUME NEW r \in Slots, LockStep(r) PROVE PipelineExclusive'
  <2>1. PICK p \in Pcs : /\ pc' = [pc EXCEPT ![r] = p]
                         /\ Takes(r, p) \/ Keeps(r, p) \/ Releases(r, p)
    BY <1>1 DEF LockStep
  <2>2. \A s \in Slots : pc'[s] = IF s = r THEN p ELSE pc[s]
    BY <2>1 DEF TypeOK
  <2>3. busy \in BOOLEAN /\ busy' \in BOOLEAN
    BY TypeKept DEF TypeOK
  <2>4. CASE Takes(r, p)
    BY <2>2, <2>3, <2>4 DEF Takes, PipelineExclusive
  <2>5. CASE Keeps(r, p)
    BY <2>2, <2>3, <2>5 DEF Keeps, PipelineExclusive
  <2>6. CASE Releases(r, p)
    BY <2>2, <2>3, <2>6 DEF Releases, PipelineExclusive
  <2> QED
    BY <2>1, <2>4, <2>5, <2>6
<1>2. CASE Crash
  BY <1>2 DEF Crash, PipelineExclusive, HolderPcs, WorkerPcs, AdminPcs
<1>3. CASE Recover \/ UNCHANGED vars
  BY <1>3 DEF Recover, PipelineExclusive, vars
<1> QED
  BY <1>1, <1>2, <1>3, RequestLocks, HandlerLocks, WorkerLocks DEF Next

(* At most one slot is between taking the pipeline lock and releasing it,  *)
(* and the flag /health reports is up exactly then.                        *)
THEOREM Exclusion == Spec => []PipelineExclusive
<1>1. Init => PipelineExclusive
  BY DEF Init, PipelineExclusive, HolderPcs, WorkerPcs, AdminPcs
<1> QED
  BY <1>1, ExclusiveKept, TypeCorrect, PTL DEF Spec

----------------------------------------------------------------------------
(* What PROCESSED documents are served.  The invariant is split by who     *)
(* moves: a slot without the lock touches neither cache nor memory and     *)
(* only writes records that claim nothing; the holder is alone.            *)

Classes == /\ WorkPcs \subseteq WorkerPcs /\ WorkerPcs \subseteq HolderPcs
           /\ AdminPcs \subseteq HolderPcs /\ HolderPcs \subseteq Pcs
           /\ WorkerPcs \cap AdminPcs = {}

LEMMA ClassesHold == Classes
BY DEF Classes, WorkPcs, WorkerPcs, AdminPcs, HolderPcs, Pcs

LEMMA CopiesIdle == Unclaiming(IdleLocal.copy) /\ \A d \in Docs : Unclaiming(IdleLocal.snap[d])
BY DEF IdleLocal, Unclaiming, NoRec

LEMMA UnclaimingKept ==
    ASSUME NEW x \in Record, Unclaiming(x), NEW s \in Status, s # "processed"
    PROVE  Unclaiming(WithStatus(x, s)) /\ WithStatus(x, s).status = s
BY DEF Record, Unclaiming, WithStatus

(* A slot outside the lock. *)
LEMMA BystanderStep ==
    ASSUME TypeOK, ServingInvariant, PipelineExclusive',
           NEW r \in Slots, pc[r] \notin HolderPcs,
           NEW p \in Pcs, pc' = [pc EXCEPT ![r] = p], p \in HolderPcs => ~busy,
           p \notin WorkPcs, p \notin {"doc", "delChunks", "delStatus", "delInstall",
                                      "clrCache", "clrStatus"},
           NEW l \in Local, loc' = [loc EXCEPT ![r] = l],
           Unclaiming(l.copy), \A d \in Docs : Unclaiming(l.snap[d]),
           UNCHANGED <<cache, memory, torn>>,
           \A d \in Docs : rec'[d] = rec[d] \/ (Unclaiming(rec'[d]) /\ Exists(d)')
    PROVE  ServingInvariant'
<1> USE ClassesHold DEF Classes
<1>1. /\ pc'[r] = p /\ loc'[r] = l
      /\ \A s \in Slots : s # r => pc'[s] = pc[s] /\ loc'[s] = loc[s]
  BY DEF TypeOK
<1>2. \A s \in Slots : LeavesTorn(s)' = LeavesTorn(s)
  BY <1>1 DEF LeavesTorn, HolderPcs, AdminPcs
<1>3. \A d \in Docs : BeingDropped(d)' <=> BeingDropped(d)
  BY <1>2 DEF BeingDropped
<1>4. \A d \in Docs : Processed(d)' => Processed(d) /\ rec'[d] = rec[d]
  BY DEF Processed, Unclaiming
<1>5. ProcessedIsServed'
  BY <1>3, <1>4 DEF ServingInvariant, ProcessedIsServed
<1>6. \A d \in Docs : (Processed(d) \/ rec[d].chunks = {})'
  BY DEF ServingInvariant, Processed, Unclaiming
<1>7. \A C : Covers(C) => Covers(C)'
  BY <1>3, <1>4 DEF Covers
<1>8. \A d \in Docs : Exists(d) => Exists(d)'
  BY DEF Exists
<1>9. CopiesClaimNothing(r)' /\ WorkerHolds(r)' /\ AdminHolds(r)'
  BY <1>1 DEF CopiesClaimNothing, WorkerHolds, AdminHolds, WorkPcs
<1>10. ASSUME NEW s \in Slots, s # r
       PROVE  CopiesClaimNothing(s)' /\ WorkerHolds(s)' /\ AdminHolds(s)'
  <2>1. CopiesClaimNothing(s)'
    BY <1>1, <1>10 DEF ServingInvariant, CopiesClaimNothing
  <2>2. WorkerHolds(s)'
    <3>1. pc[s] \in WorkPcs => loc[s].doc \in Docs /\ loc[s].docs \subseteq Docs
      BY DEF TypeOK, Local, DocPcs
    <3>2. loc[s].docs \subseteq Docs
      BY DEF TypeOK, Local
    <3> QED
      BY <1>1, <1>7, <1>8, <1>10, <3>1, <3>2 DEF ServingInvariant, WorkerHolds
  <2>3. AdminHolds(s)'
    <3>1. CASE pc[s] = "delChunks"
      BY <1>1, <1>4, <1>10, <3>1 DEF ServingInvariant, AdminHolds
    <3>2. CASE pc[s] # "delChunks"
      BY <1>1, <1>7, <1>10, <3>2 DEF ServingInvariant, AdminHolds
    <3> QED
      BY <3>1, <3>2
  <2> QED
    BY <2>1, <2>2, <2>3
<1> QED
  BY <1>5, <1>6, <1>9, <1>10 DEF ServingInvariant

(* The lock holder: every other slot is outside the lock. *)
LEMMA HolderAlone ==
    ASSUME TypeOK, PipelineExclusive, NEW r \in Slots, pc[r] \in HolderPcs
    PROVE  \A d \in Docs : BeingDropped(d) <=> d \in torn \cup LeavesTorn(r)
<1>1. \A s \in Slots : s # r => LeavesTorn(s) = {}
  BY DEF PipelineExclusive, LeavesTorn, HolderPcs, AdminPcs
<1> QED
  BY <1>1 DEF BeingDropped

LEMMA HolderDrops ==
    ASSUME TypeOK, PipelineExclusive, NEW r \in Slots, pc[r] \in HolderPcs,
           NEW p \in Pcs, pc' = [pc EXCEPT ![r] = p],
           \A s \in Slots : s # r => loc'[s] = loc[s]
    PROVE  \A d \in Docs : BeingDropped(d)' <=> d \in torn' \cup LeavesTorn(r)'
<1>1. ASSUME NEW s \in Slots, s # r PROVE LeavesTorn(s)' = {}
  <2>1. pc'[s] = pc[s] /\ pc[s] \notin HolderPcs
    BY <1>1 DEF TypeOK, PipelineExclusive
  <2> QED
    BY <2>1 DEF LeavesTorn, HolderPcs, AdminPcs
<1> QED
  BY <1>1 DEF BeingDropped

LEMMA HolderStep ==
    ASSUME TypeOK, ServingInvariant, PipelineExclusive',
           NEW r \in Slots, pc[r] \in HolderPcs,
           NEW p \in Pcs, pc' = [pc EXCEPT ![r] = p],
           \A s \in Slots : s # r => loc'[s] = loc[s],
           ProcessedIsServed', \A d \in Docs : (Processed(d) \/ rec[d].chunks = {})',
           CopiesClaimNothing(r)', WorkerHolds(r)', AdminHolds(r)'
    PROVE  ServingInvariant'
<1> USE ClassesHold DEF Classes
<1>1. ASSUME NEW s \in Slots, s # r
      PROVE  CopiesClaimNothing(s)' /\ WorkerHolds(s)' /\ AdminHolds(s)'
  <2>1. pc'[s] = pc[s] /\ loc'[s] = loc[s] /\ pc[s] \notin HolderPcs
    BY <1>1 DEF TypeOK, ServingInvariant, PipelineExclusive
  <2>2. CopiesClaimNothing(s)'
    BY <1>1, <2>1 DEF ServingInvariant, CopiesClaimNothing
  <2>3. /\ pc[s] \notin WorkPcs
        /\ pc[s] \notin {"doc", "mark", "stages", "index", "load", "install", "done",
                         "delChunks", "delInstall"}
    BY <2>1 DEF HolderPcs, WorkerPcs, AdminPcs, WorkPcs
  <2> QED
    BY <2>1, <2>2, <2>3 DEF WorkerHolds, AdminHolds
<1> QED
  BY <1>1 DEF ServingInvariant

LEMMA RequestServes ==
    ASSUME TypeOK, ServingInvariant, PipelineExclusive', NEW r \in Slots, Request(r)
    PROVE  ServingInvariant'
<1> USE IdleLocalTyped, CopiesIdle DEF Pcs, HolderPcs, WorkerPcs, AdminPcs, WorkPcs
<1>1. ASSUME NEW d \in Docs, NEW b \in Bodies, Upload(r, d, b) \/ Text(r, d, b)
      PROVE  ServingInvariant'
  <2> DEFINE l == [IdleLocal EXCEPT !.doc = d]
  <2>1. l \in Local /\ l.copy = IdleLocal.copy /\ l.snap = IdleLocal.snap
    BY DEF Local
  <2> HIDE DEF l
  <2>2. /\ pc[r] = "idle" /\ pc' = [pc EXCEPT ![r] = "enqueue"]
        /\ loc' = [loc EXCEPT ![r] = l] /\ UNCHANGED <<rec, cache, memory, flags>>
    BY <1>1 DEF Upload, Text, l
  <2> QED
    BY <2>1, <2>2, BystanderStep
<1>2. CASE Scan(r)
  <2> DEFINE l == [IdleLocal EXCEPT !.docs = ScannedFiles]
  <2>1. l \in Local /\ l.copy = IdleLocal.copy /\ l.snap = IdleLocal.snap
    BY DEF Local, ScannedFiles
  <2> HIDE DEF l
  <2>2. /\ pc[r] = "idle" /\ pc' = [pc EXCEPT ![r] = "scan"]
        /\ loc' = [loc EXCEPT ![r] = l] /\ UNCHANGED <<stores, flags>>
    BY <1>2 DEF Scan, l
  <2> QED
    BY <2>1, <2>2, BystanderStep
<1>3. ASSUME NEW d \in Docs, RequeueRead(r, d) PROVE ServingInvariant'
  <2> DEFINE l == [IdleLocal EXCEPT !.doc = d, !.copy = rec[d]]
  <2>1. l \in Local /\ l.copy = rec[d] /\ l.snap = IdleLocal.snap
    BY DEF Local, TypeOK
  <2>2. Unclaiming(rec[d])
    BY <1>3 DEF RequeueRead, Unclaiming, ServingInvariant, Processed
  <2> HIDE DEF l
  <2>3. /\ pc[r] = "idle" /\ pc' = [pc EXCEPT ![r] = "requeue"]
        /\ loc' = [loc EXCEPT ![r] = l] /\ UNCHANGED <<stores, flags>>
    BY <1>3 DEF RequeueRead, l
  <2> QED
    BY <2>1, <2>2, <2>3, BystanderStep
<1>4. ASSUME NEW D \in SUBSET Docs, Delete(r, D) PROVE ServingInvariant'
  <2> DEFINE l == [IdleLocal EXCEPT !.docs = D]
  <2>1. l \in Local /\ l.copy = IdleLocal.copy /\ l.snap = IdleLocal.snap
    BY DEF Local
  <2> HIDE DEF l
  <2>2. /\ pc[r] = "idle" /\ pc' = [pc EXCEPT ![r] = "delRead"] /\ ~busy
        /\ loc' = [loc EXCEPT ![r] = l] /\ UNCHANGED <<stores, torn>>
    BY <1>4 DEF Delete, Free, l
  <2> QED
    BY <2>1, <2>2, BystanderStep
<1>5. ASSUME NEW f \in BOOLEAN, Clear(r, f) PROVE ServingInvariant'
  <2>1. /\ pc[r] = "idle" /\ pc' = [pc EXCEPT ![r] = "clrMemory"] /\ ~busy
        /\ loc' = [loc EXCEPT ![r] = IdleLocal] /\ UNCHANGED <<rec, cache, memory, torn>>
    BY <1>5 DEF Clear, Free
  <2> QED
    BY <2>1, BystanderStep
<1> QED
  BY <1>1, <1>2, <1>3, <1>4, <1>5 DEF Request

LEMMA EnqueueServes ==
    ASSUME TypeOK, ServingInvariant, PipelineExclusive', NEW r \in Slots,
           \/ \E d \in Docs : ScanFile(r, d)
           \/ Enqueue(r) \/ EnqueueFails(r) \/ RequeueWrite(r) \/ ScheduleDrain(r)
           \/ RunTextInline(r) \/ DrainAcquire(r) \/ DrainDefer(r)
    PROVE  ServingInvariant'
<1> USE IdleLocalTyped, CopiesIdle DEF Pcs, HolderPcs, WorkerPcs, AdminPcs, WorkPcs
<1>0. /\ loc[r] \in Local /\ loc = [loc EXCEPT ![r] = loc[r]]
      /\ Unclaiming(loc[r].copy) /\ \A d \in Docs : Unclaiming(loc[r].snap[d])
  BY DEF TypeOK, ServingInvariant, CopiesClaimNothing
<1>1. ASSUME NEW d \in Docs, ScanFile(r, d) PROVE ServingInvariant'
  <2> DEFINE l == [loc[r] EXCEPT !.doc = d, !.docs = @ \ {d}]
             m == [loc[r] EXCEPT !.docs = @ \ {d}]
  <2>1. /\ l \in Local /\ l.copy = loc[r].copy /\ l.snap = loc[r].snap
        /\ m \in Local /\ m.copy = loc[r].copy /\ m.snap = loc[r].snap
    BY <1>0 DEF Local
  <2> HIDE DEF l, m
  <2>2. \/ pc' = [pc EXCEPT ![r] = "enqueue"] /\ loc' = [loc EXCEPT ![r] = l]
        \/ pc' = [pc EXCEPT ![r] = "scan"]    /\ loc' = [loc EXCEPT ![r] = m]
    BY <1>1 DEF ScanFile, TypeOK, l, m
  <2>3. pc[r] = "scan" /\ UNCHANGED <<stores, flags>>
    BY <1>1 DEF ScanFile
  <2> QED
    BY <1>0, <2>1, <2>2, <2>3, BystanderStep
<1>2. CASE Enqueue(r)
  <2> DEFINE m == [loc[r] EXCEPT !.doc = NoDoc]
  <2>1. m \in Local /\ m.copy = loc[r].copy /\ m.snap = loc[r].snap
    BY <1>0 DEF Local
  <2>2. \A d \in Docs : rec'[d] = rec[d] \/ (Unclaiming(rec'[d]) /\ Exists(d)')
    <3>1. FreshRecord.status = "pending" /\ FreshRecord.chunks = {}
      BY DEF FreshRecord
    <3>2. rec' = [rec EXCEPT ![loc[r].doc] = FreshRecord]
      BY <1>2 DEF Enqueue
    <3> QED
      BY <3>1, <3>2 DEF TypeOK, Unclaiming, Exists
  <2> HIDE DEF m
  <2>3. PICK l, p : /\ p \in {"route", "scan"} /\ pc' = [pc EXCEPT ![r] = p]
                    /\ loc' = [loc EXCEPT ![r] = l] /\ l \in {m, IdleLocal}
    BY <1>2 DEF Enqueue, m
  <2> QED
    BY <1>0, <1>2, <2>1, <2>2, <2>3, BystanderStep DEF Enqueue
<1>3. CASE EnqueueFails(r)
  <2> DEFINE m == [loc[r] EXCEPT !.doc = NoDoc]
  <2>1. m \in Local /\ m.copy = loc[r].copy /\ m.snap = loc[r].snap
    BY <1>0 DEF Local
  <2> HIDE DEF m
  <2>2. PICK l, p : /\ p \in {"idle", "scan"} /\ pc' = [pc EXCEPT ![r] = p]
                    /\ loc' = [loc EXCEPT ![r] = l] /\ l \in {m, IdleLocal}
    BY <1>3 DEF EnqueueFails, m
  <2> QED
    BY <1>0, <1>3, <2>1, <2>2, BystanderStep DEF EnqueueFails
<1>4. CASE RequeueWrite(r)
  <2> DEFINE x == [loc[r].copy EXCEPT !.status = "pending", !.chunks = {}]
  <2>1. loc[r].copy \in Record
    BY <1>0 DEF Local
  <2>2. x.status = "pending" /\ x.chunks = {}
    BY <2>1 DEF Record
  <2> HIDE DEF x
  <2>3. rec' = [rec EXCEPT ![loc[r].doc] = x]
    BY <1>4 DEF RequeueWrite, x
  <2>4. \A d \in Docs : rec'[d] = rec[d] \/ (Unclaiming(rec'[d]) /\ Exists(d)')
    BY <2>2, <2>3 DEF TypeOK, Unclaiming, Exists
  <2> QED
    BY <1>4, <2>4, BystanderStep DEF RequeueWrite
<1>5. CASE ScheduleDrain(r)
  BY <1>0, <1>5, BystanderStep DEF ScheduleDrain, EnqueueOver
<1>6. CASE RunTextInline(r) \/ DrainAcquire(r)
  BY <1>0, <1>6, BystanderStep DEF RunTextInline, DrainAcquire, Free
<1>7. CASE DrainDefer(r)
  BY <1>7, BystanderStep DEF DrainDefer
<1> QED
  BY <1>1, <1>2, <1>3, <1>4, <1>5, <1>6, <1>7

(* The lock holder while it indexes. *)
LEMMA WorkerDropsNothing ==
    ASSUME TypeOK, PipelineExclusive, NEW r \in Slots, pc[r] \in WorkerPcs,
           NEW p \in Pcs, p \notin AdminPcs, pc' = [pc EXCEPT ![r] = p],
           NEW l, loc' = [loc EXCEPT ![r] = l], UNCHANGED torn
    PROVE  \A d \in Docs : BeingDropped(d)' <=> BeingDropped(d)
<1>1. \A s \in Slots : s # r => LeavesTorn(s)' = LeavesTorn(s)
  BY DEF TypeOK, LeavesTorn
<1>2. LeavesTorn(r) = {} /\ LeavesTorn(r)' = {}
  BY DEF TypeOK, LeavesTorn, WorkerPcs, AdminPcs
<1> QED
  BY <1>1, <1>2 DEF BeingDropped

LEMMA IndexingStep ==
    ASSUME TypeOK, ServingInvariant, PipelineExclusive',
           NEW r \in Slots, pc[r] \in WorkerPcs,
           NEW p \in Pcs, p \notin AdminPcs, pc' = [pc EXCEPT ![r] = p],
           NEW l, loc' = [loc EXCEPT ![r] = l],
           Unclaiming(l.copy), \A d \in Docs : Unclaiming(l.snap[d]),
           UNCHANGED torn, cache \subseteq cache', Covers(memory'),
           \A d \in Docs : rec'[d] = rec[d] \/ Unclaiming(rec'[d]),
           WorkerHolds(r)'
    PROVE  ServingInvariant'
<1> USE ClassesHold DEF Classes
<1>1. pc'[r] = p /\ loc'[r] = l /\ \A s \in Slots : s # r => loc'[s] = loc[s]
  BY DEF TypeOK
<1>2. \A d \in Docs : BeingDropped(d)' <=> BeingDropped(d)
  BY WorkerDropsNothing DEF ServingInvariant
<1>3. \A d \in Docs : Processed(d)' => Processed(d) /\ rec'[d] = rec[d]
  BY DEF Processed, Unclaiming
<1>4. ProcessedIsServed'
  <2> SUFFICES ASSUME NEW d \in Docs, Processed(d)', ~BeingDropped(d)'
               PROVE  rec'[d].chunks # {} /\ rec'[d].chunks \subseteq cache' \cap memory'
    BY DEF ProcessedIsServed
  <2>1. Processed(d) /\ rec'[d] = rec[d] /\ ~BeingDropped(d)
    BY <1>2, <1>3
  <2>2. rec[d].chunks # {} /\ rec[d].chunks \subseteq cache
    BY <2>1 DEF ServingInvariant, ProcessedIsServed
  <2>3. rec[d].chunks \subseteq memory'
    BY <2>1 DEF Covers
  <2> QED
    BY <2>1, <2>2, <2>3
<1>5. \A d \in Docs : (Processed(d) \/ rec[d].chunks = {})'
  BY DEF ServingInvariant, Processed, Unclaiming
<1>6. CopiesClaimNothing(r)' /\ AdminHolds(r)'
  BY <1>1 DEF CopiesClaimNothing, AdminHolds, AdminPcs
<1> QED
  BY <1>1, <1>4, <1>5, <1>6, HolderStep

LEMMA MemoryCovers == ASSUME ServingInvariant PROVE Covers(memory)
BY DEF ServingInvariant, ProcessedIsServed, Covers

LEMMA CorpusCovers ==
    ASSUME TypeOK, ServingInvariant, NEW E \in SUBSET Chunks
    PROVE  Covers(Corpus(E)) /\ (E \subseteq cache => E \subseteq Corpus(E))
<1>1. ASSUME NEW d \in Docs, Processed(d), ~BeingDropped(d)
      PROVE  rec[d].chunks \subseteq Corpus(E)
  <2>1. rec[d].chunks \subseteq cache
    BY <1>1 DEF ServingInvariant, ProcessedIsServed
  <2>2. rec[d].chunks \in {rec[e].chunks : e \in {f \in Docs : Processed(f)}}
    BY <1>1
  <2>3. rec[d].chunks \subseteq UNION {rec[e].chunks : e \in {f \in Docs : Processed(f)}}
    BY <2>2
  <2> QED
    BY <2>1, <2>3 DEF Corpus
<1> QED
  BY <1>1 DEF Covers, Corpus

LEMMA WorkerServes ==
    ASSUME TypeOK, TypeOK', ServingInvariant, PipelineExclusive',
           NEW r \in Slots, WorkerStep(r)
    PROVE  ServingInvariant'
<1> USE IdleLocalTyped, CopiesIdle, MemoryCovers DEF Pcs, HolderPcs, WorkerPcs, AdminPcs
<1>0. /\ loc[r] \in Local /\ loc = [loc EXCEPT ![r] = loc[r]]
      /\ Unclaiming(loc[r].copy) /\ \A d \in Docs : Unclaiming(loc[r].snap[d])
      /\ WorkerHolds(r) /\ pc[r] \in Pcs
  BY DEF TypeOK, ServingInvariant, CopiesClaimNothing
<1>00. /\ loc[r].docs \subseteq Docs /\ loc[r].copy \in Record
       /\ loc[r].chunks \in SUBSET Chunks
       /\ pc[r] \in WorkPcs => loc[r].doc \in Docs
  BY <1>0 DEF Local, TypeOK, DocPcs
<1>1. CASE List(r)
  <2> DEFINE todo == {d \in Docs : Pending(d)}
             l == [IdleLocal EXCEPT
                      !.docs = todo,
                      !.snap = [d \in Docs |-> IF d \in todo THEN rec[d] ELSE NoRec]]
  <2>1. [d \in Docs |-> IF d \in todo THEN rec[d] ELSE NoRec] \in [Docs -> Record]
    BY RecordsTyped DEF TypeOK
  <2>2. /\ l.copy = IdleLocal.copy /\ l.docs = todo
        /\ \A d \in Docs : l.snap[d] = IF d \in todo THEN rec[d] ELSE NoRec
    BY <2>1 DEF Local
  <2>3. \A d \in Docs : Unclaiming(l.snap[d])
    BY <2>2 DEF Pending, Unclaiming, NoRec, ServingInvariant, Processed
  <2>4. \A d \in l.docs : Exists(d)
    BY <2>2 DEF Pending, Exists
  <2> HIDE DEF l
  <2>5. /\ pc[r] = "list" /\ pc' = [pc EXCEPT ![r] = "doc"]
        /\ loc' = [loc EXCEPT ![r] = l] /\ UNCHANGED <<stores, flags>>
    BY <1>1 DEF List, l
  <2>6. WorkerHolds(r)'
    BY <2>4, <2>5 DEF WorkerHolds, WorkPcs, TypeOK, Exists
  <2> QED
    BY <2>2, <2>3, <2>5, <2>6, IndexingStep
<1>2. ASSUME NEW d \in Docs, BeginDoc(r, d) PROVE ServingInvariant'
  <2> DEFINE copy == WithStatus(loc[r].snap[d], "parsing")
             l == [loc[r] EXCEPT !.doc = d, !.docs = @ \ {d}, !.copy = copy,
                                 !.snap[d] = NoRec]
  <2>1. Unclaiming(copy) /\ copy.status = "parsing"
    BY <1>0, UnclaimingKept DEF Local, Status
  <2> HIDE DEF copy
  <2>2. /\ l.copy = copy /\ l.doc = d /\ l.docs = loc[r].docs \ {d}
        /\ \A e \in Docs : l.snap[e] = IF e = d THEN NoRec ELSE loc[r].snap[e]
    BY <1>0 DEF Local
  <2>3. \A e \in Docs : Unclaiming(l.snap[e])
    BY <1>0, <2>2 DEF Unclaiming, NoRec
  <2> HIDE DEF l
  <2>4. /\ pc[r] = "doc" /\ pc' = [pc EXCEPT ![r] = "parse"]
        /\ loc' = [loc EXCEPT ![r] = l] /\ rec' = [rec EXCEPT ![d] = copy]
        /\ UNCHANGED <<source, cache, memory, flags>>
    BY <1>2 DEF BeginDoc, WriteStatus, copy, l
  <2>5. \A e \in Docs : Exists(e) \/ e = d => Exists(e)'
    BY <2>1, <2>4 DEF Exists, TypeOK
  <2>6. \A e \in loc[r].docs : Exists(e)
    BY <1>0, <2>4 DEF WorkerHolds
  <2>7. WorkerHolds(r)'
    BY <1>00, <2>2, <2>4, <2>5, <2>6 DEF WorkerHolds, WorkPcs, TypeOK
  <2> QED
    BY <2>1, <2>2, <2>3, <2>4, <2>7, IndexingStep DEF TypeOK
<1>3. ASSUME NEW d \in Docs, BeginDocFails(r, d) PROVE ServingInvariant'
  <2> DEFINE l == [loc[r] EXCEPT !.doc = d, !.docs = @ \ {d}, !.copy = loc[r].snap[d],
                                 !.snap[d] = NoRec]
  <2>1. /\ l.copy = loc[r].snap[d] /\ l.doc = d /\ l.docs = loc[r].docs \ {d}
        /\ \A e \in Docs : l.snap[e] = IF e = d THEN NoRec ELSE loc[r].snap[e]
    BY <1>0 DEF Local
  <2>2. \A e \in Docs : Unclaiming(l.snap[e])
    BY <1>0, <2>1 DEF Unclaiming, NoRec
  <2> HIDE DEF l
  <2>3. /\ pc[r] = "doc" /\ d \in loc[r].docs /\ pc' = [pc EXCEPT ![r] = "fail"]
        /\ loc' = [loc EXCEPT ![r] = l] /\ UNCHANGED <<stores, flags>>
    BY <1>3 DEF BeginDocFails, l
  <2>4. \A e \in loc[r].docs : Exists(e) /\ Exists(e)'
    BY <1>0, <2>3 DEF WorkerHolds, Exists
  <2>5. WorkerHolds(r)'
    BY <1>00, <2>1, <2>3, <2>4 DEF WorkerHolds, WorkPcs, TypeOK
  <2> QED
    BY <1>0, <2>1, <2>2, <2>3, <2>5, IndexingStep
<1>4. CASE ParseAndChunk(r)
  <2> DEFINE l == [loc[r] EXCEPT !.chunks = ChunksOf[source[loc[r].doc]]]
  <2>1. ChunksOf[source[loc[r].doc]] # {}
    BY <1>00, <1>4, PipelineAssumption DEF ParseAndChunk, TypeOK, WorkPcs
  <2>2. /\ l.copy = loc[r].copy /\ l.snap = loc[r].snap /\ l.doc = loc[r].doc
        /\ l.docs = loc[r].docs /\ l.chunks # {}
    BY <1>0, <2>1 DEF Local
  <2> HIDE DEF l
  <2>3. /\ pc[r] = "parse" /\ pc' = [pc EXCEPT ![r] = "mark"]
        /\ loc' = [loc EXCEPT ![r] = l] /\ UNCHANGED <<stores, flags>>
    BY <1>4 DEF ParseAndChunk, l
  <2>4. WorkerHolds(r)'
    BY <1>0, <1>00, <2>2, <2>3 DEF WorkerHolds, WorkPcs, TypeOK, Exists
  <2> QED
    BY <1>0, <2>2, <2>3, <2>4, IndexingStep
<1>5. CASE ParseFails(r) \/ InstallFails(r) \/ StatusWriteFails(r)
  <2>1. /\ pc[r] \in WorkPcs /\ pc' = [pc EXCEPT ![r] = "fail"]
        /\ UNCHANGED <<stores, flags, loc>>
    BY <1>5 DEF ParseFails, InstallFails, StatusWriteFails, WorkPcs
  <2>2. WorkerHolds(r)'
    BY <1>0, <2>1 DEF WorkerHolds, WorkPcs, TypeOK, Exists
  <2>3. pc[r] \in WorkerPcs
    BY <2>1 DEF WorkPcs
  <2> QED
    BY <1>0, <2>1, <2>2, <2>3, IndexingStep
<1>6. CASE MarkProcessing(r)
  <2> DEFINE copy == WithStatus(loc[r].copy, "processing")
             l == [loc[r] EXCEPT !.copy = copy]
  <2>1. Unclaiming(copy) /\ copy.status = "processing"
    BY <1>0, <1>00, UnclaimingKept DEF Status
  <2> HIDE DEF copy
  <2>2. /\ l.copy = copy /\ l.doc = loc[r].doc /\ l.docs = loc[r].docs
        /\ l.snap = loc[r].snap /\ l.chunks = loc[r].chunks
    BY <1>0 DEF Local
  <2> HIDE DEF l
  <2>3. /\ pc[r] = "mark" /\ pc' = [pc EXCEPT ![r] = "stages"]
        /\ loc' = [loc EXCEPT ![r] = l] /\ rec' = [rec EXCEPT ![loc[r].doc] = copy]
        /\ UNCHANGED <<source, cache, memory, flags>>
    BY <1>6 DEF MarkProcessing, WriteStatus, copy, l
  <2>4. \A d \in Docs : rec'[d] = rec[d] \/ (rec'[d] = copy /\ d = loc[r].doc)
    BY <2>3 DEF TypeOK
  <2>5. \A d \in Docs : Exists(d) => Exists(d)'
    BY <2>1, <2>4 DEF Exists
  <2>6. WorkerHolds(r)'
    BY <1>0, <1>00, <2>1, <2>2, <2>3, <2>5 DEF WorkerHolds, WorkPcs, TypeOK
  <2> QED
    BY <1>0, <2>1, <2>2, <2>3, <2>4, <2>6, IndexingStep
<1>7. CASE WriteStages(r)
  <2>1. /\ pc[r] = "stages" /\ pc' = [pc EXCEPT ![r] = "index"]
        /\ rec' = [rec EXCEPT ![loc[r].doc] = loc[r].copy]
        /\ UNCHANGED <<source, cache, memory, flags, loc>>
    BY <1>7 DEF WriteStages, WriteStatus
  <2>2. \A d \in Docs : rec'[d] = rec[d] \/ (rec'[d] = loc[r].copy /\ d = loc[r].doc)
    BY <2>1 DEF TypeOK
  <2>3. loc[r].copy.status = "processing"
    BY <1>0, <2>1 DEF WorkerHolds
  <2>4. \A d \in Docs : Exists(d) => Exists(d)'
    BY <2>2, <2>3 DEF Exists
  <2>5. WorkerHolds(r)'
    BY <1>0, <1>00, <2>1, <2>4 DEF WorkerHolds, WorkPcs, TypeOK
  <2> QED
    BY <1>0, <2>1, <2>2, <2>5, IndexingStep
<1>8. CASE Extract(r)
  <2>1. /\ pc[r] = "index" /\ pc' = [pc EXCEPT ![r] = "load"]
        /\ cache' = cache \cup loc[r].chunks /\ UNCHANGED <<rec, memory, flags, loc>>
    BY <1>8 DEF Extract
  <2>2. WorkerHolds(r)'
    BY <1>0, <1>00, <2>1 DEF WorkerHolds, WorkPcs, TypeOK, Exists
  <2> QED
    BY <1>0, <2>1, <2>2, IndexingStep
<1>9. CASE ExtractFails(r)
  <2>1. /\ pc[r] = "index" /\ pc' = [pc EXCEPT ![r] = "fail"]
        /\ cache \subseteq cache' /\ UNCHANGED <<rec, memory, flags, loc>>
    BY <1>9 DEF ExtractFails
  <2>2. WorkerHolds(r)'
    BY <1>0, <1>00, <2>1 DEF WorkerHolds, WorkPcs, TypeOK, Exists
  <2> QED
    BY <1>0, <2>1, <2>2, IndexingStep
<1>10. CASE Load(r)
  <2> DEFINE C == Corpus(loc[r].chunks)
             l == [loc[r] EXCEPT !.corpus = C]
  <2>1. /\ l.copy = loc[r].copy /\ l.snap = loc[r].snap /\ l.doc = loc[r].doc
        /\ l.docs = loc[r].docs /\ l.chunks = loc[r].chunks /\ l.corpus = C
    BY <1>0 DEF Local
  <2> HIDE DEF l
  <2>2. /\ pc[r] = "load" /\ pc' = [pc EXCEPT ![r] = "install"]
        /\ loc' = [loc EXCEPT ![r] = l] /\ UNCHANGED <<stores, flags>>
    BY <1>10 DEF Load, l
  <2>3. loc[r].chunks \subseteq cache
    BY <1>0, <2>2 DEF WorkerHolds
  <2>4. Covers(C) /\ loc[r].chunks \subseteq C
    BY <1>00, <2>3, CorpusCovers
  <2>5. \A d \in Docs : (Processed(d) /\ ~BeingDropped(d))' => rec'[d].chunks \subseteq l.corpus
    <3>1. \A d \in Docs : BeingDropped(d)' <=> BeingDropped(d)
      BY <2>2, WorkerDropsNothing DEF ServingInvariant
    <3>2. \A d \in Docs : Processed(d)' <=> Processed(d)
      BY <2>2 DEF Processed
    <3>3. \A d \in Docs : Processed(d) /\ ~BeingDropped(d) => rec[d].chunks \subseteq l.corpus
      BY <2>1, <2>4 DEF Covers
    <3> QED
      BY <2>2, <3>1, <3>2, <3>3
  <2>6. loc'[r] = l /\ pc'[r] = "install"
    BY <2>2 DEF TypeOK
  <2>7. Covers(loc[r].corpus)'
    BY <2>5, <2>6 DEF Covers
  <2> HIDE DEF C
  <2>8. \A d \in Docs : Exists(d)' <=> Exists(d)
    BY <2>2 DEF Exists
  <2>9. WorkerHolds(r)'
    BY <1>0, <1>00, <2>1, <2>2, <2>3, <2>4, <2>6, <2>7, <2>8 DEF WorkerHolds, WorkPcs
  <2> QED
    BY <1>0, <2>1, <2>2, <2>9, IndexingStep
<1>11. CASE Install(r)
  <2>1. /\ pc[r] = "install" /\ pc' = [pc EXCEPT ![r] = "done"]
        /\ memory' = loc[r].corpus /\ UNCHANGED <<rec, cache, flags, loc>>
    BY <1>11 DEF Install
  <2>2. Covers(memory') /\ loc[r].chunks \subseteq memory'
    BY <1>0, <2>1 DEF WorkerHolds
  <2>3. WorkerHolds(r)'
    BY <1>0, <1>00, <2>1, <2>2 DEF WorkerHolds, WorkPcs, TypeOK, Exists
  <2> QED
    BY <1>0, <2>1, <2>2, <2>3, IndexingStep
<1>12. CASE MarkProcessed(r)
  <2> DEFINE x == [loc[r].copy EXCEPT !.status = "processed", !.chunks = loc[r].chunks]
             l == [loc[r] EXCEPT !.doc = NoDoc, !.copy = NoRec, !.chunks = {}, !.corpus = {}]
  <2>1. x.status = "processed" /\ x.chunks = loc[r].chunks
    BY <1>00 DEF Record
  <2>2. l.copy = NoRec /\ l.snap = loc[r].snap /\ l.docs = loc[r].docs
    BY <1>0 DEF Local
  <2> HIDE DEF x, l
  <2>3. /\ pc[r] = "done" /\ pc' = [pc EXCEPT ![r] = "doc"] /\ loc' = [loc EXCEPT ![r] = l]
        /\ rec' = [rec EXCEPT ![loc[r].doc] = x] /\ torn' = torn \ {loc[r].doc}
        /\ UNCHANGED <<cache, memory>>
    BY <1>12 DEF MarkProcessed, NextDoc, x, l
  <2>4. /\ loc[r].chunks # {} /\ loc[r].chunks \subseteq cache /\ loc[r].chunks \subseteq memory
        /\ \A d \in loc[r].docs : Exists(d)
    BY <1>0, <2>3 DEF WorkerHolds, WorkPcs
  <2>5. /\ pc'[r] = "doc" /\ loc'[r] = l /\ \A s \in Slots : s # r => loc'[s] = loc[s]
        /\ \A d \in Docs : rec'[d] = IF d = loc[r].doc THEN x ELSE rec[d]
    BY <2>3 DEF TypeOK
  <2>6. \A d \in Docs : BeingDropped(d) <=> d \in torn
    BY <2>3, HolderAlone DEF ServingInvariant, LeavesTorn
  <2>7. \A d \in Docs : BeingDropped(d)' <=> d \in torn'
    <3>1. LeavesTorn(r)' = {}
      BY <2>5 DEF LeavesTorn
    <3> QED
      BY <2>3, <2>5, <3>1, HolderDrops DEF ServingInvariant
  <2>8. ProcessedIsServed'
    BY <2>1, <2>3, <2>4, <2>5, <2>6, <2>7 DEF ServingInvariant, ProcessedIsServed, Processed
  <2>9. \A d \in Docs : (Processed(d) \/ rec[d].chunks = {})'
    BY <2>1, <2>5 DEF ServingInvariant, Processed
  <2>10. \A d \in Docs : Exists(d) => Exists(d)'
    BY <2>1, <2>5 DEF Exists
  <2>11. CopiesClaimNothing(r)'
    BY <1>0, <2>2, <2>5 DEF CopiesClaimNothing, Unclaiming, NoRec
  <2>12. WorkerHolds(r)' /\ AdminHolds(r)'
    BY <1>00, <2>2, <2>4, <2>5, <2>10 DEF WorkerHolds, AdminHolds, WorkPcs
  <2> QED
    BY <2>3, <2>5, <2>8, <2>9, <2>11, <2>12, HolderStep
<1>13. CASE MarkFailed(r)
  <2> DEFINE x == WithStatus(loc[r].copy, "failed")
             l == [loc[r] EXCEPT !.doc = NoDoc, !.copy = NoRec, !.chunks = {}, !.corpus = {}]
  <2>1. Unclaiming(x) /\ x.status = "failed"
    BY <1>0, <1>00, UnclaimingKept DEF Status
  <2>2. l.copy = NoRec /\ l.snap = loc[r].snap /\ l.docs = loc[r].docs
    BY <1>0 DEF Local
  <2> HIDE DEF x, l
  <2>3. /\ pc[r] = "fail" /\ pc' = [pc EXCEPT ![r] = "doc"] /\ loc' = [loc EXCEPT ![r] = l]
        /\ rec' = [rec EXCEPT ![loc[r].doc] = x] /\ UNCHANGED <<source, cache, memory, flags>>
    BY <1>13 DEF MarkFailed, NextDoc, WriteStatus, x, l
  <2>4. \A d \in Docs : rec'[d] = IF d = loc[r].doc THEN x ELSE rec[d]
    BY <2>3 DEF TypeOK
  <2>5. \A d \in Docs : Exists(d) => Exists(d)'
    BY <2>1, <2>4 DEF Exists
  <2>6. \A d \in loc[r].docs : Exists(d)
    BY <1>0, <2>3 DEF WorkerHolds, WorkPcs
  <2>7. WorkerHolds(r)'
    BY <1>00, <2>2, <2>3, <2>5, <2>6 DEF WorkerHolds, WorkPcs, TypeOK
  <2>8. Unclaiming(l.copy) /\ \A d \in Docs : Unclaiming(l.snap[d])
    BY <1>0, <2>2 DEF Unclaiming, NoRec
  <2>9. \A d \in Docs : rec'[d] = rec[d] \/ Unclaiming(rec'[d])
    BY <2>1, <2>4
  <2>10. Covers(memory')
    BY <2>3
  <2> QED
    BY <2>3, <2>7, <2>8, <2>9, <2>10, IndexingStep
<1>14. CASE LookAgain(r) \/ KeepDraining(r) \/ Stop(r) \/ DrainAgain(r) \/ WorkerRaises(r)
  <2> DEFINE m == [IdleLocal EXCEPT !.more = \E d \in Docs : Pending(d)]
  <2>1. m.copy = IdleLocal.copy /\ m.snap = IdleLocal.snap
    BY DEF Local
  <2> HIDE DEF m
  <2>2. PICK l, p : /\ p \in {"settle", "list", "idle", "drain"}
                    /\ pc' = [pc EXCEPT ![r] = p]
                    /\ loc' = [loc EXCEPT ![r] = l] /\ l \in {m, IdleLocal}
    BY <1>14 DEF LookAgain, KeepDraining, Stop, DrainAgain, WorkerRaises, Retire, Goto, SetLocal, m
  <2>3. /\ pc[r] \in WorkerPcs /\ UNCHANGED <<stores, torn>>
    BY <1>14 DEF LookAgain, KeepDraining, Stop, DrainAgain, WorkerRaises
  <2>4. WorkerHolds(r)'
    BY <2>2 DEF WorkerHolds, WorkPcs, TypeOK
  <2>5. Unclaiming(l.copy) /\ \A d \in Docs : Unclaiming(l.snap[d])
    BY <2>1, <2>2
  <2> QED
    BY <2>2, <2>3, <2>4, <2>5, IndexingStep
<1> QED
  BY <1>1, <1>2, <1>3, <1>4, <1>5, <1>6, <1>7, <1>8, <1>9, <1>10, <1>11, <1>12, <1>13, <1>14
  DEF WorkerStep

(* The lock holder while it deletes or clears. *)
LEMMA RemovingStep ==
    ASSUME TypeOK, ServingInvariant, PipelineExclusive',
           NEW r \in Slots, pc[r] \in AdminPcs,
           NEW p \in AdminPcs \cup {"idle"}, pc' = [pc EXCEPT ![r] = p],
           NEW l, loc' = [loc EXCEPT ![r] = l],
           Unclaiming(l.copy), \A d \in Docs : Unclaiming(l.snap[d]),
           \A d \in Docs : rec'[d] \in {rec[d], NoRec},
           ProcessedIsServed', AdminHolds(r)'
    PROVE  ServingInvariant'
<1>1. /\ pc'[r] = p /\ loc'[r] = l /\ \A s \in Slots : s # r => loc'[s] = loc[s]
      /\ p \in Pcs /\ pc[r] \in HolderPcs
  BY DEF TypeOK, Pcs, HolderPcs
<1>2. \A d \in Docs : (Processed(d) \/ rec[d].chunks = {})'
  BY DEF ServingInvariant, Processed, NoRec
<1>3. CopiesClaimNothing(r)' /\ WorkerHolds(r)'
  BY <1>1 DEF CopiesClaimNothing, WorkerHolds, WorkPcs, AdminPcs
<1> QED
  BY <1>1, <1>2, <1>3, HolderStep

LEMMA AdminServes ==
    ASSUME TypeOK, ServingInvariant, PipelineExclusive', NEW r \in Slots,
           \/ \E f \in BOOLEAN : DeleteRead(r, f)
           \/ DeleteChunks(r) \/ DeleteStatus(r) \/ DeleteLoad(r) \/ DeleteInstall(r)
           \/ ClearMemory(r) \/ ClearCache(r) \/ ClearStatus(r) \/ AdminRaises(r)
    PROVE  ServingInvariant'
<1> USE IdleLocalTyped, CopiesIdle DEF Pcs, HolderPcs, WorkerPcs, AdminPcs
<1>0. /\ loc[r] \in Local /\ loc = [loc EXCEPT ![r] = loc[r]]
      /\ Unclaiming(loc[r].copy) /\ \A d \in Docs : Unclaiming(loc[r].snap[d])
      /\ AdminHolds(r) /\ PipelineExclusive /\ ProcessedIsServed
  BY DEF TypeOK, ServingInvariant, CopiesClaimNothing
<1>1. ASSUME NEW f \in BOOLEAN, DeleteRead(r, f) PROVE ServingInvariant'
  <2> DEFINE D      == loc[r].docs
             target == {d \in D : rec[d].status # "absent"}
             owned  == UNION {rec[d].chunks : d \in target}
             m == \E d \in target : HasCorpusImpact(d)
             C == owned \ Refers(D)
             l == [loc[r] EXCEPT !.docs = target, !.chunks = C, !.more = m]
  <2>1. l.copy = loc[r].copy /\ l.snap = loc[r].snap /\ l.docs = target /\ l.chunks = C
    BY <1>0 DEF Local
  <2>2. ASSUME NEW d \in Docs \ target, Processed(d) PROVE rec[d].chunks \cap C = {}
    <3>1. d \in {e \in Docs \ D : Processed(e)}
      BY <2>2 DEF Processed
    <3>2. rec[d].chunks \in {rec[e].chunks : e \in {g \in Docs \ D : Processed(g)}}
      BY <3>1
    <3> HIDE DEF owned
    <3> QED
      BY <3>2 DEF Refers
  <2> HIDE DEF l, C
  <2>3. /\ pc[r] = "delRead" /\ pc' = [pc EXCEPT ![r] = "delChunks"]
        /\ loc' = [loc EXCEPT ![r] = l] /\ UNCHANGED <<rec, cache, memory, flags>>
    BY <1>1 DEF DeleteRead, l, C
  <2>4. loc'[r] = l /\ pc'[r] = "delChunks" /\ \A s \in Slots : s # r => loc'[s] = loc[s]
    BY <2>3 DEF TypeOK
  <2>5. AdminHolds(r)'
    BY <2>1, <2>2, <2>3, <2>4 DEF AdminHolds, Processed
  <2>6. LeavesTorn(r) = {} /\ LeavesTorn(r)' = {}
    BY <2>3, <2>4 DEF LeavesTorn
  <2>7. \A d \in Docs : BeingDropped(d)' <=> BeingDropped(d)
    BY <1>0, <2>3, <2>4, <2>6, HolderAlone, HolderDrops
  <2>8. ProcessedIsServed'
    BY <1>0, <2>3, <2>7 DEF ProcessedIsServed, Processed
  <2> QED
    BY <1>0, <2>1, <2>3, <2>5, <2>8, RemovingStep
<1>2. CASE DeleteChunks(r)
  <2>1. /\ pc[r] = "delChunks" /\ pc' = [pc EXCEPT ![r] = "delStatus"]
        /\ cache' = cache \ loc[r].chunks /\ UNCHANGED <<rec, memory, flags, loc>>
    BY <1>2 DEF DeleteChunks
  <2>2. LeavesTorn(r) = {} /\ LeavesTorn(r)' = loc[r].docs
    BY <2>1 DEF LeavesTorn, TypeOK
  <2>3. /\ \A d \in Docs : BeingDropped(d) <=> d \in torn
        /\ \A d \in Docs : BeingDropped(d)' <=> d \in torn \cup loc[r].docs
    BY <1>0, <2>1, <2>2, HolderAlone, HolderDrops
  <2>4. \A d \in Docs \ loc[r].docs : Processed(d) => rec[d].chunks \cap loc[r].chunks = {}
    BY <1>0, <2>1 DEF AdminHolds
  <2>5. ProcessedIsServed'
    BY <1>0, <2>1, <2>3, <2>4 DEF ProcessedIsServed, Processed
  <2>6. AdminHolds(r)'
    BY <2>1 DEF AdminHolds, TypeOK
  <2> QED
    BY <1>0, <2>1, <2>5, <2>6, RemovingStep
<1>3. CASE DeleteStatus(r)
  <2>1. PICK p, l : /\ p \in {"delLoad", "idle"} /\ pc' = [pc EXCEPT ![r] = p]
                    /\ l \in {loc[r], IdleLocal} /\ loc' = [loc EXCEPT ![r] = l]
    BY <1>0, <1>3 DEF DeleteStatus
  <2>2. /\ pc[r] = "delStatus" /\ UNCHANGED <<cache, memory, torn>>
        /\ \A d \in Docs : rec'[d] = IF d \in loc[r].docs THEN NoRec ELSE rec[d]
    BY <1>3 DEF DeleteStatus
  <2>3. pc'[r] = p /\ \A s \in Slots : s # r => loc'[s] = loc[s]
    BY <2>1 DEF TypeOK
  <2>4. LeavesTorn(r) = loc[r].docs /\ LeavesTorn(r)' = {}
    BY <2>1, <2>2, <2>3 DEF LeavesTorn
  <2>5. /\ \A d \in Docs : BeingDropped(d) <=> d \in torn \cup loc[r].docs
        /\ \A d \in Docs : BeingDropped(d)' <=> d \in torn
    BY <1>0, <2>1, <2>2, <2>3, <2>4, HolderAlone, HolderDrops
  <2>6. ProcessedIsServed'
    BY <1>0, <2>2, <2>5 DEF ProcessedIsServed, Processed, NoRec
  <2>7. AdminHolds(r)'
    BY <2>1, <2>3 DEF AdminHolds
  <2> QED
    BY <1>0, <2>1, <2>2, <2>6, <2>7, RemovingStep
<1>4. CASE DeleteLoad(r)
  <2> DEFINE l == [loc[r] EXCEPT !.corpus = Corpus({})]
  <2>1. l.copy = loc[r].copy /\ l.snap = loc[r].snap /\ l.corpus = Corpus({})
    BY <1>0 DEF Local
  <2>2. \A d \in Docs : Processed(d) /\ ~BeingDropped(d) => rec[d].chunks \subseteq l.corpus
    BY <2>1, CorpusCovers DEF Covers
  <2> HIDE DEF l
  <2>3. /\ pc[r] = "delLoad" /\ pc' = [pc EXCEPT ![r] = "delInstall"]
        /\ loc' = [loc EXCEPT ![r] = l] /\ UNCHANGED <<stores, flags>>
    BY <1>4 DEF DeleteLoad, l
  <2>4. loc'[r] = l /\ pc'[r] = "delInstall" /\ \A s \in Slots : s # r => loc'[s] = loc[s]
    BY <2>3 DEF TypeOK
  <2>5. LeavesTorn(r) = {} /\ LeavesTorn(r)' = {}
    BY <2>3, <2>4 DEF LeavesTorn
  <2>6. \A d \in Docs : BeingDropped(d)' <=> BeingDropped(d)
    BY <1>0, <2>3, <2>4, <2>5, HolderAlone, HolderDrops
  <2>7. Covers(loc[r].corpus)'
    BY <2>2, <2>3, <2>4, <2>6 DEF Covers, Processed
  <2>8. AdminHolds(r)'
    BY <2>4, <2>7 DEF AdminHolds
  <2>9. ProcessedIsServed'
    BY <1>0, <2>3, <2>6 DEF ProcessedIsServed, Processed
  <2> QED
    BY <1>0, <2>1, <2>3, <2>8, <2>9, RemovingStep
<1>5. CASE DeleteInstall(r)
  <2>1. /\ pc[r] = "delInstall" /\ pc' = [pc EXCEPT ![r] = "idle"]
        /\ loc' = [loc EXCEPT ![r] = IdleLocal]
        /\ memory' = loc[r].corpus /\ UNCHANGED <<rec, cache, torn>>
    BY <1>5 DEF DeleteInstall
  <2>2. pc'[r] = "idle" /\ \A s \in Slots : s # r => loc'[s] = loc[s]
    BY <2>1 DEF TypeOK
  <2>3. LeavesTorn(r) = {} /\ LeavesTorn(r)' = {}
    BY <2>1, <2>2 DEF LeavesTorn
  <2>4. \A d \in Docs : BeingDropped(d)' <=> BeingDropped(d)
    BY <1>0, <2>1, <2>2, <2>3, HolderAlone, HolderDrops
  <2>5. Covers(memory')
    BY <1>0, <2>1 DEF AdminHolds
  <2>6. ProcessedIsServed'
    BY <1>0, <2>1, <2>4, <2>5 DEF ProcessedIsServed, Processed, Covers
  <2>7. AdminHolds(r)'
    BY <2>2 DEF AdminHolds
  <2> QED
    BY <2>1, <2>6, <2>7, RemovingStep
<1>6. CASE ClearMemory(r) \/ ClearCache(r)
  <2>1. PICK p : /\ p \in {"clrCache", "clrStatus"} /\ pc' = [pc EXCEPT ![r] = p]
                 /\ UNCHANGED <<rec, torn, loc>> /\ pc[r] \in AdminPcs
    BY <1>6 DEF ClearMemory, ClearCache
  <2>2. LeavesTorn(r)' = Docs /\ pc'[r] = p
    BY <2>1 DEF LeavesTorn, TypeOK
  <2>3. \A d \in Docs : BeingDropped(d)'
    BY <1>0, <2>1, <2>2, HolderDrops
  <2>4. ProcessedIsServed' /\ AdminHolds(r)'
    BY <2>1, <2>2, <2>3 DEF ProcessedIsServed, AdminHolds
  <2> QED
    BY <1>0, <2>1, <2>4, RemovingStep
<1>7. CASE ClearStatus(r)
  <2>1. /\ pc[r] = "clrStatus" /\ pc' = [pc EXCEPT ![r] = "idle"]
        /\ loc' = [loc EXCEPT ![r] = IdleLocal] /\ \A d \in Docs : rec'[d] = NoRec
    BY <1>7 DEF ClearStatus
  <2>2. ProcessedIsServed' /\ AdminHolds(r)'
    BY <2>1 DEF ProcessedIsServed, Processed, NoRec, AdminHolds, TypeOK
  <2> QED
    BY <2>1, <2>2, RemovingStep
<1>8. CASE AdminRaises(r)
  <2>1. /\ pc[r] \in AdminPcs /\ pc' = [pc EXCEPT ![r] = "idle"]
        /\ loc' = [loc EXCEPT ![r] = IdleLocal] /\ torn' = torn \cup LeavesTorn(r)
        /\ UNCHANGED stores
    BY <1>8 DEF AdminRaises
  <2>2. pc'[r] = "idle" /\ \A s \in Slots : s # r => loc'[s] = loc[s]
    BY <2>1 DEF TypeOK
  <2>3. LeavesTorn(r)' = {}
    BY <2>2 DEF LeavesTorn
  <2>4. \A d \in Docs : BeingDropped(d)' <=> BeingDropped(d)
    BY <1>0, <2>1, <2>2, <2>3, HolderAlone, HolderDrops
  <2>5. ProcessedIsServed' /\ AdminHolds(r)'
    BY <1>0, <2>1, <2>2, <2>4 DEF ProcessedIsServed, Processed, AdminHolds
  <2> QED
    BY <2>1, <2>5, RemovingStep
<1> QED
  BY <1>1, <1>2, <1>3, <1>4, <1>5, <1>6, <1>7, <1>8

(* A crash leaves the stores as they are and no slot under way. *)
LEMMA CrashServes ==
    ASSUME TypeOK, ServingInvariant, PipelineExclusive', Crash PROVE ServingInvariant'
<1>1. /\ \A s \in Slots : pc'[s] = "idle" /\ loc'[s] = IdleLocal
      /\ torn' = torn \cup UNION {LeavesTorn(s) : s \in Slots}
      /\ UNCHANGED <<rec, cache, memory>>
  BY DEF Crash
<1>2. \A d \in Docs : BeingDropped(d) => BeingDropped(d)'
  BY <1>1 DEF BeingDropped
<1>3. ProcessedIsServed' /\ \A d \in Docs : (Processed(d) \/ rec[d].chunks = {})'
  BY <1>1, <1>2 DEF ServingInvariant, ProcessedIsServed, Processed
<1>4. \A s \in Slots : CopiesClaimNothing(s)' /\ WorkerHolds(s)' /\ AdminHolds(s)'
  BY <1>1, CopiesIdle DEF CopiesClaimNothing, WorkerHolds, AdminHolds, WorkPcs
<1> QED
  BY <1>3, <1>4 DEF ServingInvariant

(* The sweep turns records that claim nothing into PENDING ones. *)
LEMMA RecoverServes ==
    ASSUME TypeOK, ServingInvariant, PipelineExclusive', Recover PROVE ServingInvariant'
<1>1. UNCHANGED <<cache, memory, torn, pc, loc>>
  BY DEF Recover
<1>2. \A d \in Docs : rec'[d] = rec[d] \/ (Unclaiming(rec'[d]) /\ rec'[d].status = "pending")
  <2>1. ASSUME NEW d \in Docs, rec' = SweptRecords
        PROVE  rec'[d] = rec[d] \/ (Unclaiming(rec'[d]) /\ rec'[d].status = "pending")
    <3>1. rec[d] \in Record
      BY DEF TypeOK
    <3>2. rec'[d] \in {rec[d], [rec[d] EXCEPT !.status = "pending", !.chunks = {}]}
      BY <2>1 DEF SweptRecords
    <3> QED
      BY <3>1, <3>2 DEF Record, Unclaiming
  <2> QED
    BY <2>1 DEF Recover
<1>3. \A d \in Docs : Processed(d)' => Processed(d) /\ rec'[d] = rec[d]
  BY <1>2 DEF Processed, Unclaiming
<1>4. \A d \in Docs : Exists(d) => Exists(d)'
  BY <1>2 DEF Exists
<1>5. \A d \in Docs : BeingDropped(d)' <=> BeingDropped(d)
  BY <1>1 DEF BeingDropped, LeavesTorn
<1>6. ProcessedIsServed' /\ \A d \in Docs : (Processed(d) \/ rec[d].chunks = {})'
  BY <1>1, <1>2, <1>3, <1>5 DEF ServingInvariant, ProcessedIsServed, Processed, Unclaiming
<1>7. ASSUME NEW s \in Slots
      PROVE  CopiesClaimNothing(s)' /\ WorkerHolds(s)' /\ AdminHolds(s)'
  <2>1. Covers(loc[s].corpus) => Covers(loc[s].corpus)'
    BY <1>1, <1>3, <1>5 DEF Covers
  <2>2. loc[s].docs \subseteq Docs /\ (pc[s] \in WorkPcs => loc[s].doc \in Docs)
    BY DEF TypeOK, Local, DocPcs
  <2>3. CopiesClaimNothing(s) /\ WorkerHolds(s) /\ AdminHolds(s)
    BY DEF ServingInvariant
  <2>4. CopiesClaimNothing(s)'
    BY <1>1, <2>3 DEF CopiesClaimNothing
  <2>5. WorkerHolds(s)'
    BY <1>1, <1>4, <2>1, <2>2, <2>3 DEF WorkerHolds
  <2>6. AdminHolds(s)'
    <3>1. CASE pc[s] = "delChunks"
      BY <1>1, <1>3, <2>3, <3>1 DEF AdminHolds
    <3>2. CASE pc[s] # "delChunks"
      BY <1>1, <2>1, <2>3, <3>2 DEF AdminHolds
    <3> QED
      BY <3>1, <3>2
  <2> QED
    BY <2>4, <2>5, <2>6
<1> QED
  BY <1>6, <1>7 DEF ServingInvariant

LEMMA ServingKept ==
    ASSUME TypeOK, TypeOK', ServingInvariant, [Next]_vars PROVE ServingInvariant'
<1>1. PipelineExclusive'
  BY ExclusiveKept DEF ServingInvariant
<1>2. ASSUME NEW r \in Slots, HandlerStep(r) PROVE ServingInvariant'
  BY <1>1, <1>2, EnqueueServes, AdminServes DEF HandlerStep
<1>3. CASE UNCHANGED vars
  BY <1>3 DEF vars, ServingInvariant, PipelineExclusive, ProcessedIsServed, Processed,
              BeingDropped, LeavesTorn, CopiesClaimNothing, WorkerHolds, AdminHolds, Covers,
              Exists
<1> QED
  BY <1>1, <1>2, <1>3, RequestServes, WorkerServes, CrashServes, RecoverServes DEF Next

LEMMA ServingStarts == Init => ServingInvariant
<1> SUFFICES ASSUME Init PROVE ServingInvariant
  OBVIOUS
<1>1. /\ \A s \in Slots : pc[s] = "idle" /\ loc[s] = IdleLocal
      /\ \A d \in Docs : rec[d] = NoRec
  BY DEF Init
<1>2. PipelineExclusive
  BY DEF Init, PipelineExclusive, HolderPcs, WorkerPcs, AdminPcs
<1>3. ProcessedIsServed /\ \A d \in Docs : Processed(d) \/ rec[d].chunks = {}
  BY <1>1 DEF ProcessedIsServed, Processed, NoRec
<1>4. \A s \in Slots : CopiesClaimNothing(s) /\ WorkerHolds(s) /\ AdminHolds(s)
  BY <1>1, CopiesIdle DEF CopiesClaimNothing, WorkerHolds, AdminHolds, WorkPcs
<1> QED
  BY <1>2, <1>3, <1>4 DEF ServingInvariant

(* Every reachable state satisfies the invariant that explains what is     *)
(* served: who may claim chunks, what a loaded corpus covers, what a       *)
(* delete is about to drop.                                                *)
THEOREM Serving == Spec => []ServingInvariant
<1> QED
  BY ServingStarts, ServingKept, TypeCorrect, PTL DEF Spec

(* What doc-status calls PROCESSED is served, after any interleaving of    *)
(* ingestion, deletion, clearing, failures and crashes.                    *)
THEOREM Served == Spec => []ProcessedIsServed
<1>1. ServingInvariant => ProcessedIsServed
  BY DEF ServingInvariant
<1> QED
  BY <1>1, Serving, PTL

----------------------------------------------------------------------------
(* Records do not come back.                                               *)

LEMMA WorkerWritesExisting ==
    ASSUME TypeOK, ServingInvariant, NEW r \in Slots, WorkerStep(r),
           NEW d \in Docs, rec[d].status = "absent"
    PROVE  rec'[d] = rec[d]
<1>1. /\ pc[r] \in WorkPcs => loc[r].doc # d
      /\ pc[r] = "doc" => d \notin loc[r].docs
  BY DEF ServingInvariant, WorkerHolds, Exists
<1>2. ASSUME NEW e \in Docs, BeginDoc(r, e) \/ BeginDocFails(r, e) PROVE rec'[d] = rec[d]
  BY <1>1, <1>2 DEF BeginDoc, BeginDocFails, WriteStatus, TypeOK
<1>3. CASE MarkProcessing(r) \/ WriteStages(r) \/ MarkProcessed(r) \/ MarkFailed(r)
  BY <1>1, <1>3 DEF MarkProcessing, WriteStages, MarkProcessed, MarkFailed, WriteStatus,
                    WorkPcs, TypeOK
<1>4. CASE \/ List(r) \/ ParseAndChunk(r) \/ ParseFails(r) \/ Extract(r) \/ ExtractFails(r)
           \/ Load(r) \/ Install(r) \/ InstallFails(r) \/ StatusWriteFails(r) \/ LookAgain(r)
           \/ KeepDraining(r) \/ Stop(r) \/ DrainAgain(r) \/ WorkerRaises(r)
  BY <1>4 DEF List, ParseAndChunk, ParseFails, Extract, ExtractFails, Load, Install,
              InstallFails, StatusWriteFails, LookAgain, KeepDraining, Stop, DrainAgain,
              WorkerRaises
<1> QED
  BY <1>2, <1>3, <1>4 DEF WorkerStep

LEMMA HandlerWritesPending ==
    ASSUME TypeOK, NEW r \in Slots, HandlerStep(r), NEW d \in Docs, rec[d].status = "absent"
    PROVE  rec'[d].status \in {"absent", "pending"}
<1>1. CASE Enqueue(r)
  BY <1>1 DEF Enqueue, FreshRecord, TypeOK
<1>2. CASE RequeueWrite(r)
  <2>1. loc[r].copy \in Record
    BY DEF TypeOK, Local
  <2> QED
    BY <1>2, <2>1 DEF RequeueWrite, Record, TypeOK
<1>3. CASE DeleteStatus(r) \/ ClearStatus(r)
  BY <1>3 DEF DeleteStatus, ClearStatus, NoRec
<1>4. CASE \/ \E e \in Docs : ScanFile(r, e)
           \/ EnqueueFails(r) \/ ScheduleDrain(r) \/ RunTextInline(r) \/ DrainAcquire(r)
           \/ DrainDefer(r)
  BY <1>4 DEF ScanFile, EnqueueFails, ScheduleDrain, RunTextInline, DrainAcquire, DrainDefer
<1>5. CASE \/ \E f \in BOOLEAN : DeleteRead(r, f)
           \/ DeleteChunks(r) \/ DeleteLoad(r) \/ DeleteInstall(r)
           \/ ClearMemory(r) \/ ClearCache(r) \/ AdminRaises(r)
  BY <1>5 DEF DeleteRead, DeleteChunks, DeleteLoad, DeleteInstall, ClearMemory, ClearCache,
              AdminRaises
<1> QED
  BY <1>1, <1>2, <1>3, <1>4, <1>5 DEF HandlerStep

LEMMA AbsentStays ==
    ASSUME TypeOK, ServingInvariant, [Next]_vars, NEW d \in Docs, rec[d].status = "absent"
    PROVE  rec'[d].status \in {"absent", "pending"}
<1>1. ASSUME NEW r \in Slots, Request(r) PROVE rec'[d] = rec[d]
  BY <1>1 DEF Request, Upload, Text, Scan, RequeueRead, Delete, Clear
<1>2. CASE Recover
  BY <1>2 DEF Recover, SweptRecords, Interrupted
<1>3. CASE Crash \/ UNCHANGED vars
  BY <1>3 DEF Crash, vars
<1> QED
  BY <1>1, <1>2, <1>3, WorkerWritesExisting, HandlerWritesPending DEF Next

(* A document that was deleted comes back only by being enqueued again,    *)
(* never because a worker writes back the copy of the record it holds.     *)
THEOREM NothingResurrected == Spec => NoResurrection
<1>1. TypeOK /\ ServingInvariant /\ [Next]_vars
        => [\A d \in Docs : rec[d].status = "absent"
                              => rec'[d].status \in {"absent", "pending"}]_rec
  BY AbsentStays
<1> QED
  BY <1>1, TypeCorrect, Serving, PTL DEF Spec, NoResurrection

----------------------------------------------------------------------------
(* Somebody drains.  Deletes and clears release the lock without looking   *)
(* at the drain flag, store errors end a handler before it schedules, and  *)
(* a restart schedules nothing; without them the promise holds.            *)
Undisturbed == Kinds \cap {"delete", "clear"} = {} /\ "store" \notin Faults /\ ~Crashes

SomeScheduling == \E r \in Slots : pc[r] \in SchedulingPcs

(* A holder that found nothing more to do will still see a later drain. *)
DrainPromised ==
    \A r \in Slots : pc[r] = "settle" /\ ~loc[r].more
        => ((\E d \in Docs : Pending(d)) => drainRequested \/ SomeScheduling)

DrainInvariant ==
    /\ up /\ (\A r \in Slots : pc[r] \notin AdminPcs)
    /\ PipelineExclusive /\ PendingHasDrain /\ DrainPromised

(* Where a step of r may leave it. *)
StartsToSchedule(r) == \E p \in SchedulingPcs : pc' = [pc EXCEPT ![r] = p]
GoesOnDraining(r)   == \E p \in WorkerPcs \ {"settle"} : pc' = [pc EXCEPT ![r] = p]
PassesOn(r)         == LookAgain(r) \/ Stop(r) \/ DrainDefer(r)

LEMMA DrainMoves ==
    ASSUME Undisturbed, TypeOK, DrainInvariant, NEW r \in Slots,
           Request(r) \/ HandlerStep(r) \/ WorkerStep(r)
    PROVE  up' /\ (StartsToSchedule(r) \/ GoesOnDraining(r) \/ PassesOn(r))
<1> USE DEF StartsToSchedule, GoesOnDraining, PassesOn, SchedulingPcs, WorkerPcs
<1>1. CASE Request(r)
  <2>1. /\ \A D \in SUBSET Docs : ~Delete(r, D)
        /\ \A f \in BOOLEAN : ~Clear(r, f)
    BY DEF Delete, Clear, Undisturbed
  <2>2. ASSUME NEW d \in Docs, NEW b \in Bodies, Upload(r, d, b) \/ Text(r, d, b)
        PROVE  up' /\ StartsToSchedule(r)
    BY <2>2 DEF Upload, Text
  <2>3. ASSUME NEW d \in Docs, RequeueRead(r, d) PROVE up' /\ StartsToSchedule(r)
    BY <2>3 DEF RequeueRead
  <2>4. ASSUME Scan(r) PROVE up' /\ StartsToSchedule(r)
    BY <2>4 DEF Scan
  <2> HIDE DEF StartsToSchedule
  <2> QED
    BY <1>1, <2>1, <2>2, <2>3, <2>4 DEF Request
<1>2. CASE HandlerStep(r)
  <2>1. ASSUME NEW d \in Docs, ScanFile(r, d)
        PROVE  up' /\ (StartsToSchedule(r) \/ GoesOnDraining(r) \/ PassesOn(r))
    BY <2>1 DEF ScanFile, TypeOK, DrainInvariant
  <2>2. CASE Enqueue(r) \/ RequeueWrite(r) \/ ScheduleDrain(r)
    BY <2>2 DEF Enqueue, RequeueWrite, ScheduleDrain, DrainInvariant
  <2>3. CASE RunTextInline(r) \/ DrainAcquire(r) \/ DrainDefer(r)
    BY <2>3 DEF RunTextInline, DrainAcquire, DrainDefer, DrainInvariant
  <2>4. ~EnqueueFails(r)
    BY DEF EnqueueFails, Undisturbed
  <2>5. /\ \A f \in BOOLEAN : ~DeleteRead(r, f)
        /\ ~DeleteChunks(r) /\ ~DeleteStatus(r) /\ ~DeleteLoad(r) /\ ~DeleteInstall(r)
        /\ ~ClearMemory(r) /\ ~ClearCache(r) /\ ~ClearStatus(r) /\ ~AdminRaises(r)
    BY DEF DeleteRead, DeleteChunks, DeleteStatus, DeleteLoad, DeleteInstall, ClearMemory,
           ClearCache, ClearStatus, AdminRaises, DrainInvariant, AdminPcs
  <2> QED
    BY <1>2, <2>1, <2>2, <2>3, <2>4, <2>5 DEF HandlerStep
<1>3. CASE WorkerStep(r)
  <2>1. ASSUME NEW d \in Docs, BeginDoc(r, d) \/ BeginDocFails(r, d)
        PROVE  up' /\ (StartsToSchedule(r) \/ GoesOnDraining(r) \/ PassesOn(r))
    BY <2>1 DEF BeginDoc, BeginDocFails, WriteStatus, DrainInvariant
  <2>2. CASE \/ List(r) \/ ParseAndChunk(r) \/ ParseFails(r) \/ MarkProcessing(r)
             \/ WriteStages(r) \/ Extract(r) \/ ExtractFails(r)
    BY <2>2 DEF List, ParseAndChunk, ParseFails, MarkProcessing, WriteStages, Extract,
                ExtractFails, WriteStatus, DrainInvariant
  <2>3. CASE Load(r) \/ Install(r) \/ InstallFails(r) \/ MarkProcessed(r) \/ MarkFailed(r)
    BY <2>3 DEF Load, Install, InstallFails, MarkProcessed, MarkFailed, NextDoc, WriteStatus,
                DrainInvariant
  <2>4. CASE LookAgain(r) \/ KeepDraining(r) \/ Stop(r) \/ DrainAgain(r)
    BY <2>4 DEF LookAgain, KeepDraining, Stop, DrainAgain, DrainInvariant
  <2>5. ~StatusWriteFails(r) /\ ~WorkerRaises(r)
    BY DEF StatusWriteFails, WorkerRaises, Undisturbed
  <2> QED
    BY <1>3, <2>1, <2>2, <2>3, <2>4, <2>5 DEF WorkerStep
<1> QED
  BY <1>1, <1>2, <1>3

LEMMA DrainKept ==
    ASSUME Undisturbed, TypeOK, DrainInvariant, [Next]_vars PROVE DrainInvariant'
<1>1. PipelineExclusive /\ PipelineExclusive'
  BY ExclusiveKept DEF DrainInvariant
<1>2. ASSUME NEW r \in Slots, Request(r) \/ HandlerStep(r) \/ WorkerStep(r)
      PROVE  DrainInvariant'
  <2>1. up' /\ (StartsToSchedule(r) \/ GoesOnDraining(r) \/ PassesOn(r))
    BY <1>2, DrainMoves
  <2>2. CASE StartsToSchedule(r)
    <3>1. PICK p \in SchedulingPcs : \A s \in Slots : pc'[s] = IF s = r THEN p ELSE pc[s]
      BY <2>2 DEF StartsToSchedule, TypeOK
    <3>2. SomeScheduling'
      BY <3>1 DEF SomeScheduling
    <3>3. \A s \in Slots : pc'[s] \notin AdminPcs
      BY <3>1 DEF DrainInvariant, SchedulingPcs, AdminPcs
    <3> QED
      BY <1>1, <2>1, <3>2, <3>3
      DEF DrainInvariant, PendingHasDrain, DrainPromised, DrainAhead, SomeScheduling
  <2>3. CASE GoesOnDraining(r)
    <3>1. PICK p \in WorkerPcs \ {"settle"} :
             \A s \in Slots : pc'[s] = IF s = r THEN p ELSE pc[s]
      BY <2>3 DEF GoesOnDraining, TypeOK
    <3>2. busy' /\ \A s \in Slots : pc'[s] # "settle"
      BY <1>1, <3>1 DEF PipelineExclusive, HolderPcs, WorkerPcs
    <3>3. \A s \in Slots : pc'[s] \notin AdminPcs
      BY <3>1 DEF DrainInvariant, WorkerPcs, AdminPcs
    <3> QED
      BY <1>1, <2>1, <3>2, <3>3 DEF DrainInvariant, PendingHasDrain, DrainPromised, DrainAhead
  <2>4. CASE LookAgain(r)
    <3>1. /\ \A s \in Slots : s # r => pc'[s] = pc[s]
          /\ pc'[r] = "settle" /\ UNCHANGED rec
          /\ loc'[r].more = \E d \in Docs : Pending(d)
      BY <2>4 DEF LookAgain, TypeOK, IdleLocal
    <3>2. busy' /\ \A s \in Slots : s # r => pc'[s] # "settle"
      BY <1>1, <3>1 DEF PipelineExclusive, HolderPcs, WorkerPcs
    <3>3. \A s \in Slots : pc'[s] \notin AdminPcs
      BY <3>1 DEF DrainInvariant, AdminPcs
    <3>4. (\E d \in Docs : Pending(d))' => loc'[r].more
      BY <3>1 DEF Pending
    <3> QED
      BY <1>1, <2>1, <3>1, <3>2, <3>3, <3>4
      DEF DrainInvariant, PendingHasDrain, DrainPromised, DrainAhead
  <2>5. CASE Stop(r)
    <3>1. /\ \A s \in Slots : s # r => pc'[s] = pc[s]
          /\ pc[r] = "settle" /\ ~loc[r].more /\ ~drainRequested
          /\ pc'[r] = "idle" /\ UNCHANGED rec
      BY <2>5 DEF Stop, TypeOK
    <3>2. (\E d \in Docs : Pending(d)) => SomeScheduling
      BY <3>1 DEF DrainInvariant, DrainPromised
    <3>3. SomeScheduling => SomeScheduling'
      BY <3>1 DEF SomeScheduling, SchedulingPcs
    <3>4. \A s \in Slots : pc'[s] # "settle" /\ pc'[s] \notin AdminPcs
      BY <1>1, <3>1 DEF DrainInvariant, PipelineExclusive, HolderPcs, WorkerPcs, AdminPcs
    <3> QED
      BY <1>1, <2>1, <3>1, <3>2, <3>3, <3>4
      DEF DrainInvariant, PendingHasDrain, DrainPromised, DrainAhead, SomeScheduling, Pending
  <2>6. CASE DrainDefer(r)
    <3>1. /\ \A s \in Slots : pc'[s] = IF s = r THEN "idle" ELSE pc[s]
          /\ drainRequested' /\ busy /\ busy' = busy
      BY <2>6 DEF DrainDefer, Free, TypeOK
    <3>2. \A s \in Slots : pc'[s] \notin AdminPcs
      BY <3>1 DEF DrainInvariant, AdminPcs
    <3> QED
      BY <1>1, <2>1, <3>1, <3>2 DEF DrainInvariant, PendingHasDrain, DrainPromised, DrainAhead
  <2> QED
    BY <2>1, <2>2, <2>3, <2>4, <2>5, <2>6 DEF PassesOn
<1>3. CASE UNCHANGED vars
  BY <1>3 DEF vars, DrainInvariant, PipelineExclusive, PendingHasDrain, DrainPromised,
              DrainAhead, SomeScheduling, Pending
<1>4. ~Crash /\ ~Recover
  BY DEF Crash, Recover, Undisturbed, DrainInvariant
<1> QED
  BY <1>2, <1>3, <1>4 DEF Next

(* Without deletes, clears, store errors and crashes a PENDING document is *)
(* never left with nobody to look for it, however requests interleave with *)
(* a worker that is about to stop.                                         *)
THEOREM SomebodyDrains == ASSUME Undisturbed PROVE Spec => []PendingHasDrain
<1>1. Init => DrainInvariant
  BY DEF Init, DrainInvariant, PipelineExclusive, PendingHasDrain, DrainPromised, Pending,
         NoRec, HolderPcs, WorkerPcs, AdminPcs
<1>2. TypeOK /\ DrainInvariant /\ [Next]_vars => DrainInvariant'
  BY DrainKept
<1>3. DrainInvariant => PendingHasDrain
  BY DEF DrainInvariant
<1> QED
  BY <1>1, <1>2, <1>3, TypeCorrect, PTL DEF Spec
=============================================================================
