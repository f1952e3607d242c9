------------------------- MODULE CorpusRewriteProofs -------------------------
(***************************************************************************)
(* Theorems about CorpusRewrite, for all constants that satisfy            *)
(* CorpusAssumption.                                                       *)
(***************************************************************************)
EXTENDS CorpusRewrite, TLAPS

(* Definitions that only abbreviate an assignment or a tuple. *)
USE DEF stored, engine, rewriter, Enter, At

----------------------------------------------------------------------------
(* Ids, stores and series.                                                 *)

LEMMA EntityIds ==
    ASSUME NEW P \in SUBSET Passage, NEW F \in SUBSET Fact
    PROVE  /\ SurfacesIn(P) \in SUBSET Entity
           /\ EndsIn(F) \in SUBSET Entity
BY CorpusAssumption DEF CorpusAssumption, SurfacesIn, EndsIn

(* The three readings of a memory are lists of ids, and they agree on the  *)
(* passages.                                                               *)
LEMMA MemoryIds ==
    ASSUME NEW m \in Memory
    PROVE  /\ Wanted(m) \in Ids /\ Wanted(m).passages = m.passages
           /\ Listed(m) \in Ids /\ Listed(m).passages = m.passages
           /\ Claimed(m) \in Ids /\ Claimed(m).passages = m.passages
BY EntityIds DEF Memory, Wanted, Listed, Claimed, Ids

LEMMA NoIdsTyped == NoIds \in Ids
BY DEF NoIds, Ids

LEMMA PreviousIdsTyped ==
    ASSUME TypeOK
    PROVE  PreviousIds \in Ids
BY MemoryIds, NoIdsTyped DEF TypeOK, PreviousIds

LEMMA Stores ==
    /\ Store = {"chunks_vdb", "chunks_kv", "facts_vdb", "entities_vdb", "schemas_vdb"}
    /\ LayerOf["chunks_vdb"] = "passages" /\ LayerOf["chunks_kv"] = "passages"
BY DEF Store, LayerOf

(* Whatever the store, the ids of its layer are ids. *)
LEMMA LayerTyped ==
    ASSUME NEW i \in Ids, NEW s \in Store
    PROVE  i[LayerOf[s]] \in SUBSET Id
BY DEF Store, LayerOf, Ids, Id

LEMMA Series ==
    /\ Len(SyncOps) = 10 /\ Len(FlushOps) = 7 /\ Len(DropOps) = 2
    /\ Len(WipeOps) = 7 /\ Len(ClearOps) = 8
    /\ \A i \in 1..2 : DropOps[i] \in Store
BY DEF SyncOps, FlushOps, DropOps, WipeOps, ClearOps, Store, LayerOf

----------------------------------------------------------------------------
(* Typing.                                                                 *)

LEMMA PutVecTyped ==
    ASSUME TypeOK, NEW s \in Store, NEW X \in SUBSET Id, PutVec(s, X)
    PROVE  /\ vec' \in [Store -> SUBSET Id]
           /\ vecFile' \in [Store -> SUBSET Id]
BY DEF TypeOK, PutVec

LEMMA RetireTyped ==
    ASSUME Retire
    PROVE  /\ wpc' = "idle" /\ kind' = "none" /\ at' = 0
           /\ old' \in Ids /\ target' = NoMemory
           /\ wpc' \in Wpcs /\ wpc' \notin InstallPcs
           /\ at' \in 0..Len(SyncOps)
BY NoIdsTyped, Series DEF Retire, Wpcs, InstallPcs, RewritePcs

(* What an empty store is left with is typed, whichever store it is. *)
LEMMA EmptyTyped ==
    ASSUME TypeOK, NEW s, NEW X, s \in Store => X \in SUBSET Id, Empty(s, X)
    PROVE  /\ cache' \in SUBSET Passage
           /\ vec' \in [Store -> SUBSET Id] /\ vecFile' \in [Store -> SUBSET Id]
           /\ graph' \in Memory \cup {NoMemory, Torn}
           /\ graphFile' \in Memory \cup {NoMemory, Torn}
           /\ snapshot' \in Memory \cup {NoMemory}
           /\ snapshotFile' \in Memory \cup {NoMemory}
<1>1. CASE s \in Store /\ PutVec(s, X) /\ UNCHANGED <<cache, graph, graphFile, snapshot, snapshotFile>>
  BY <1>1, PutVecTyped DEF TypeOK
<1>2. CASE s = "openie_kv" /\ cache' = {} /\ UNCHANGED <<stored, files>>
  BY <1>2 DEF TypeOK, files
<1>3. CASE /\ s = "memory_kv" /\ snapshot' = NoMemory /\ snapshotFile' = NoMemory
           /\ UNCHANGED <<cache, vec, vecFile, graph, graphFile>>
  BY <1>3 DEF TypeOK
<1>4. CASE /\ s = "graph" /\ graph' = NoMemory /\ graphFile' = NoMemory
           /\ UNCHANGED <<cache, vec, vecFile, snapshot, snapshotFile>>
  BY <1>4 DEF TypeOK
<1> QED BY <1>1, <1>2, <1>3, <1>4 DEF Empty

LEMMA TypeInit == ASSUME Init PROVE TypeOK
<1> USE DEF Init
<1>1. wpc \in Wpcs /\ wpc \notin InstallPcs
  BY DEF Wpcs, InstallPcs, RewritePcs
<1>2. vec \in [Store -> SUBSET Id] /\ vecFile \in [Store -> SUBSET Id]
  BY DEF NoVectors
<1>3. old \in Ids /\ ids \in Ids /\ at \in 0..Len(SyncOps)
  BY NoIdsTyped, Series
<1>4. rpc \in [Readers -> Rpcs]
  BY DEF Rpcs
<1> QED BY <1>1, <1>2, <1>3, <1>4 DEF TypeOK

(* Every step of the rewriter keeps the types. *)
LEMMA TypeRewriter ==
    ASSUME TypeOK, RewriterStep \/ Request
    PROVE  TypeOK'
<1> USE Series DEF TypeOK, files, Wpcs, RewritePcs, InstallPcs, AllKinds
<1>1. CASE \E P \in SUBSET Passage : Extract(P)
  BY <1>1 DEF Extract
<1>2. CASE RebuildFails
  BY <1>2, RetireTyped DEF RebuildFails
<1>3. CASE \E m \in Memory : RebuildInsert(m)
  BY <1>3 DEF RebuildInsert
<1>4. CASE AcquireInsert
  BY <1>4 DEF AcquireInsert
<1>5. CASE \E m \in Memory : RebuildDelete(m)
  BY <1>5 DEF RebuildDelete
<1>6. CASE Diff
  BY <1>6, PreviousIdsTyped DEF Diff
<1>7. CASE Sync
  <2>1. PICK what \in {"purge", "add"}, s \in Store :
          /\ SyncOps[at] = <<what, s>>
          /\ PutVec(s, IF what = "purge" THEN vec[s] \ Orphans(s)
                                         ELSE vec[s] \cup Additions(s))
    BY <1>7 DEF Sync
  <2>2. /\ Orphans(s) \in SUBSET Id
        /\ Additions(s) \in SUBSET Id
    BY <1>7, LayerTyped, MemoryIds DEF Sync, Orphans, Additions
  <2>3. vec' \in [Store -> SUBSET Id] /\ vecFile' \in [Store -> SUBSET Id]
    BY <2>1, <2>2, PutVecTyped
  <2> QED BY <1>7, <2>3 DEF Sync
<1>8. CASE EmbeddingFails
  BY <1>8, RetireTyped DEF EmbeddingFails
<1>9. CASE ListIds
  BY <1>9, MemoryIds DEF ListIds
<1>10. CASE FillGraph
  BY <1>10 DEF FillGraph
<1>11. CASE WriteSnapshot
  BY <1>11 DEF WriteSnapshot
<1>12. CASE SwapMemory
  <2>1. CASE Batched
    <3>1. /\ wpc' = "flush" /\ at' = 1 /\ UNCHANGED <<kind, old, target>>
          /\ wpc' \in Wpcs /\ at' \in 0..Len(SyncOps)
      BY <1>12, <2>1 DEF SwapMemory
    <3>2. memory' \in Memory /\ ready' \in BOOLEAN
      BY <1>12 DEF SwapMemory
    <3> QED BY <1>12, <3>1, <3>2 DEF SwapMemory
  <2>2. CASE ~Batched
    <3>1. Retire /\ memory' = target /\ ready' = FALSE
      BY <1>12, <2>2 DEF SwapMemory
    <3>2. memory' \in Memory /\ ready' \in BOOLEAN
      BY <1>12, <3>1 DEF SwapMemory
    <3> QED BY <1>12, <3>1, <3>2, RetireTyped DEF SwapMemory
  <2> QED BY <2>1, <2>2
<1>13. CASE Flush
  BY <1>13, RetireTyped DEF Flush
<1>14. CASE \E D \in SUBSET Passage : Delete(D)
  BY <1>14 DEF Delete, NoIds, Ids
<1>15. CASE DropChunks
  <2>1. vec[DropOps[at]] \ old.passages \in SUBSET Id
    BY <1>15 DEF DropChunks
  <2>2. vec' \in [Store -> SUBSET Id] /\ vecFile' \in [Store -> SUBSET Id]
    BY <1>15, <2>1, PutVecTyped DEF DropChunks
  <2> QED BY <1>15, <2>2 DEF DropChunks
<1>16. CASE EmptyCorpus
  BY <1>16, PreviousIdsTyped DEF EmptyCorpus
<1>17. CASE Wipe
  <2> DEFINE s == WipeOps[at]
             X == IF s \in Store THEN vec[s] \ old[LayerOf[s]] ELSE {}
  <2>1. Empty(s, X) /\ (s \in Store => X \in SUBSET Id)
    BY <1>17 DEF Wipe
  <2> HIDE DEF s, X
  <2>2. /\ cache' \in SUBSET Passage
        /\ vec' \in [Store -> SUBSET Id] /\ vecFile' \in [Store -> SUBSET Id]
        /\ graph' \in Memory \cup {NoMemory, Torn}
        /\ graphFile' \in Memory \cup {NoMemory, Torn}
        /\ snapshot' \in Memory \cup {NoMemory}
        /\ snapshotFile' \in Memory \cup {NoMemory}
    BY <2>1, EmptyTyped
  <2> QED BY <1>17, <2>2 DEF Wipe
<1>18. CASE Forget
  BY <1>18, RetireTyped, NoIdsTyped, ZenonT(40) DEF Forget
<1>19. CASE Clear
  BY <1>19 DEF Clear
<1>20. CASE ClearStore
  <2>1. /\ cache' \in SUBSET Passage
        /\ vec' \in [Store -> SUBSET Id] /\ vecFile' \in [Store -> SUBSET Id]
        /\ graph' \in Memory \cup {NoMemory, Torn}
        /\ graphFile' \in Memory \cup {NoMemory, Torn}
        /\ snapshot' \in Memory \cup {NoMemory}
        /\ snapshotFile' \in Memory \cup {NoMemory}
    BY <1>20, EmptyTyped DEF ClearStore
  <2> QED BY <1>20, <2>1 DEF ClearStore
<1>21. CASE ResetEngine
  BY <1>21, RetireTyped, NoIdsTyped DEF ResetEngine
<1> QED
  BY <1>1, <1>2, <1>3, <1>4, <1>5, <1>6, <1>7, <1>8, <1>9, <1>10, <1>11, <1>12,
     <1>13, <1>14, <1>15, <1>16, <1>17, <1>18, <1>19, <1>20, <1>21
  DEF RewriterStep, Request

(* So do the steps of the readers. *)
LEMMA TypeReader ==
    ASSUME TypeOK, NEW r \in Readers, Ask(r) \/ ReaderStep(r)
    PROVE  TypeOK'
<1> USE DEF TypeOK, files, Rpcs
<1>1. CASE AskReady(r)  BY <1>1 DEF AskReady
<1>2. CASE AskPrepare(r)  BY <1>2 DEF AskPrepare
<1>3. CASE AskDirect(r)  BY <1>3 DEF AskDirect
<1>4. CASE AcquireReader(r)  BY <1>4 DEF AcquireReader
<1>5. CASE PrepareLoad(r)
  BY <1>5, MemoryIds, NoIdsTyped DEF PrepareLoad
<1>6. CASE PrepareEntities(r)
  <2>1. memory # NoMemory => EndsIn(memory.facts) \in SUBSET Entity
    BY EntityIds DEF Memory
  <2>2. ids' \in Ids
    BY <1>6, <2>1, EntityIds DEF PrepareEntities, Ids
  <2> QED BY <1>6, <2>2 DEF PrepareEntities
<1>7. CASE PrepareEdges(r)  BY <1>7 DEF PrepareEdges
<1>8. CASE Answer(r)  BY <1>8 DEF Answer
<1> QED
  BY <1>1, <1>2, <1>3, <1>4, <1>5, <1>6, <1>7, <1>8 DEF Ask, ReaderStep

(* And so do a stop of the process and a boot. *)
LEMMA TypeProcess ==
    ASSUME TypeOK, Kill \/ Cancel \/ \E warm \in BOOLEAN : Boot(warm)
    PROVE  TypeOK'
<1> USE DEF TypeOK, files
<1>1. CASE Kill \/ Cancel
  <2>1. Stop /\ vecFile' \in [Store -> SUBSET Id]
             /\ graphFile' \in Memory \cup {NoMemory, Torn}
             /\ snapshotFile' \in Memory \cup {NoMemory}
    BY <1>1 DEF Kill, Cancel
  <2>2. wpc' \in Wpcs /\ wpc' \notin InstallPcs
    BY <2>1 DEF Stop, Wpcs, InstallPcs, RewritePcs
  <2>3. old' \in Ids /\ ids' \in Ids /\ at' \in 0..Len(SyncOps)
    BY <2>1, NoIdsTyped, Series DEF Stop
  <2>4. rpc' \in [Readers -> Rpcs]
    BY <2>1 DEF Stop, Rpcs
  <2> QED BY <2>1, <2>2, <2>3, <2>4 DEF Stop
<1>2. ASSUME NEW warm \in BOOLEAN, Boot(warm) PROVE TypeOK'
  <2>1. snapshot # NoMemory =>
          [Listed(snapshot) EXCEPT !.entities =
              SurfacesIn(cache) \cup EndsIn(snapshot.facts)] \in Ids
    BY EntityIds, MemoryIds DEF Memory, Ids
  <2>2. ids' \in Ids /\ memory' \in Memory \cup {NoMemory}
        /\ ppr' \in Memory \cup {NoMemory, Torn}
    BY <1>2, <2>1, NoIdsTyped DEF Boot
  <2>3. ready' \in BOOLEAN
    BY <1>2 DEF Boot
  <2> QED BY <1>2, <2>2, <2>3 DEF Boot
<1> QED BY <1>1, <1>2

LEMMA TypeStep == ASSUME TypeOK, [Next]_vars PROVE TypeOK'
<1>1. CASE UNCHANGED vars
  BY <1>1 DEF vars, files, TypeOK
<1> QED BY <1>1, TypeRewriter, TypeReader, TypeProcess DEF Next

(* Every variable keeps its type, and each series of store operations its  *)
(* bounds: no rewrite runs past the end of the list it goes through.       *)
THEOREM CorpusTypeCorrect == Spec => []TypeOK
BY TypeInit, TypeStep, PTL DEF Spec

----------------------------------------------------------------------------
(* An engine that only inserts: the corpus lock.                           *)

LEMMA Names == Rewriter \notin Readers /\ NoOne \notin Readers /\ NoOne # Rewriter
BY CorpusAssumption DEF CorpusAssumption

LEMMA InsertInit == ASSUME Init PROVE InsertInv
BY Names DEF Init, InsertInv, LockedPcs, InstallPcs, RewritePcs

(* The steps of a rewriter that only inserts; the others are not enabled.  *)
LEMMA InsertSteps ==
    ASSUME InsertsOnly, InsertInv, RewriterStep \/ Request
    PROVE  \/ \E P \in SUBSET Passage : Extract(P)
           \/ RebuildFails
           \/ \E m \in Memory : RebuildInsert(m)
           \/ AcquireInsert \/ Diff \/ Sync \/ EmbeddingFails
           \/ ListIds \/ FillGraph \/ WriteSnapshot \/ SwapMemory \/ Flush
<1> USE DEF InsertInv, LockedPcs, RewritePcs
<1>1. ~\E m \in Memory : RebuildDelete(m)  BY DEF RebuildDelete
<1>2. ~DropChunks /\ ~Wipe /\ ~Forget /\ ~ClearStore /\ ~ResetEngine
  BY DEF DropChunks, Wipe, Forget, ClearStore, ResetEngine
<1>3. ~EmptyCorpus  BY DEF EmptyCorpus
<1>4. ~Clear /\ ~\E D \in SUBSET Passage : Delete(D)
  BY DEF Clear, Delete, InsertsOnly
<1> HIDE DEF InsertInv, LockedPcs, RewritePcs
<1> QED BY <1>1, <1>2, <1>3, <1>4 DEF RewriterStep, Request

LEMMA InsertStep ==
    ASSUME TypeOK, InsertsOnly, InsertInv, [Next]_vars
    PROVE  InsertInv'
<1> USE Names DEF InsertInv, LockedPcs, RewritePcs, InstallPcs
<1>1. CASE \E P \in SUBSET Passage : Extract(P)  BY <1>1 DEF Extract
<1>2. CASE RebuildFails  BY <1>2 DEF RebuildFails, Retire
<1>3. CASE \E m \in Memory : RebuildInsert(m)
  BY <1>3 DEF RebuildInsert, Rebuilt
<1>4. CASE AcquireInsert  BY <1>4 DEF AcquireInsert
<1>5. CASE Diff  BY <1>5 DEF Diff
<1>6. CASE Sync  BY <1>6 DEF Sync
<1>7. CASE EmbeddingFails  BY <1>7 DEF EmbeddingFails, Batched
<1>8. CASE ListIds  BY <1>8 DEF ListIds
<1>9. CASE FillGraph  BY <1>9 DEF FillGraph
<1>10. CASE WriteSnapshot  BY <1>10 DEF WriteSnapshot
<1>11. CASE SwapMemory  BY <1>11 DEF SwapMemory, Batched
<1>12. CASE Flush  BY <1>12 DEF Flush, Retire
<1>13. ASSUME NEW r \in Readers, Ask(r) \/ ReaderStep(r) PROVE InsertInv'
  BY <1>13
  DEF Ask, ReaderStep, AskReady, AskPrepare, AskDirect, AcquireReader,
      PrepareLoad, PrepareEntities, PrepareEdges, Answer
<1>14. CASE Kill \/ Cancel  BY <1>14 DEF Kill, Cancel, Stop
<1>15. CASE \E warm \in BOOLEAN : Boot(warm)  BY <1>15 DEF Boot
<1>16. CASE UNCHANGED vars  BY <1>16 DEF vars
<1> HIDE DEF InsertInv, LockedPcs, RewritePcs, InstallPcs
<1> QED
  BY <1>1, <1>2, <1>3, <1>4, <1>5, <1>6, <1>7, <1>8, <1>9, <1>10, <1>11, <1>12,
     <1>13, <1>14, <1>15, <1>16, InsertSteps
  DEF Next

LEMMA InsertCorrect == ASSUME InsertsOnly PROVE Spec => [](TypeOK /\ InsertInv)
BY TypeInit, TypeStep, InsertInit, InsertStep, PTL DEF Spec

(* Where the lock is a reader's, no step of an ainsert is one that changes *)
(* the graph or the snapshot.                                              *)
LEMMA StableStep ==
    ASSUME TypeOK, InsertsOnly, InsertInv, [Next]_vars,
           NEW r \in Readers, lock = r, up'
    PROVE  UNCHANGED <<graph, snapshot>>
<1>1. wpc \notin LockedPcs
  BY Names DEF InsertInv
<1>2. CASE RewriterStep \/ Request
  BY <1>1, <1>2, InsertSteps
  DEF LockedPcs, RewritePcs, Extract, RebuildFails, RebuildInsert, AcquireInsert,
      Diff, Sync, EmbeddingFails, ListIds, FillGraph, WriteSnapshot, SwapMemory, Flush
<1>3. ASSUME NEW q \in Readers, Ask(q) \/ ReaderStep(q)
      PROVE  UNCHANGED <<graph, snapshot>>
  BY <1>3
  DEF Ask, ReaderStep, AskReady, AskPrepare, AskDirect, AcquireReader,
      PrepareLoad, PrepareEntities, PrepareEdges, Answer
<1>4. CASE Kill \/ Cancel  BY <1>4 DEF Kill, Cancel, Stop
<1>5. CASE \E warm \in BOOLEAN : Boot(warm)  BY <1>5 DEF Boot
<1>6. CASE UNCHANGED vars  BY <1>6 DEF vars
<1> QED BY <1>2, <1>3, <1>4, <1>5, <1>6 DEF Next

(* A query that prepares under the corpus lock sees one graph and one      *)
(* snapshot from beginning to end, when the corpus is only inserted to.    *)
THEOREM LockedReadStableCorrect ==
    ASSUME InsertsOnly PROVE Spec => LockedReadStable
<1>1. ASSUME TypeOK, InsertInv, [Next]_vars
      PROVE  [\A r \in Readers : lock = r /\ up' => UNCHANGED <<graph, snapshot>>]_vars
  BY <1>1, StableStep
<1> QED BY <1>1, InsertCorrect, PTL DEF Spec, LockedReadStable

----------------------------------------------------------------------------
(* An engine that only inserts, and whose batches are never torn: the      *)
(* passages.                                                               *)

(* The batch saves the whole of memory_kv, chunks_kv and chunks_vdb, in    *)
(* this order.                                                             *)
LEMMA FlushOrder ==
    /\ FlushOps[1] = "graph" /\ FlushOps[2] = "memory_kv"
    /\ FlushOps[3] = "chunks_kv" /\ FlushOps[7] = "chunks_vdb"
    /\ \A i \in 4..6 : FlushOps[i] \in Store \ {"chunks_kv", "chunks_vdb"}
BY Stores DEF FlushOps

(* What each step of the diff does to the two stores of passages.          *)
LEMMA SyncPassages ==
    ASSUME TypeOK, InsertInv, Sync
    PROVE  /\ UNCHANGED vecFile
           /\ at = 1 => /\ vec'["chunks_vdb"] = vec["chunks_vdb"] \ (old.passages \ cache)
                        /\ vec'["chunks_kv"] = vec["chunks_kv"]
           /\ at = 2 => /\ vec'["chunks_kv"] = vec["chunks_kv"] \ (old.passages \ cache)
                        /\ vec'["chunks_vdb"] = vec["chunks_vdb"]
           /\ at = 3 => /\ vec'["chunks_vdb"] = vec["chunks_vdb"] \cup (cache \ old.passages)
                        /\ vec'["chunks_kv"] = vec["chunks_kv"]
           /\ at = 4 => /\ vec'["chunks_kv"] = vec["chunks_kv"] \cup (cache \ old.passages)
                        /\ vec'["chunks_vdb"] = vec["chunks_vdb"]
           /\ at > 4 => /\ vec'["chunks_vdb"] = vec["chunks_vdb"]
                        /\ vec'["chunks_kv"] = vec["chunks_kv"]
<1>1. PICK what \in {"purge", "add"}, s \in Store :
        /\ SyncOps[at] = <<what, s>>
        /\ PutVec(s, IF what = "purge" THEN vec[s] \ Orphans(s)
                                       ELSE vec[s] \cup Additions(s))
  BY DEF Sync
<1>2. target \in Memory /\ target.passages = cache
  BY DEF Sync, TypeOK, InsertInv, InstallPcs, RewritePcs
<1>3. kind = "insert"
  BY DEF Sync, InsertInv
<1>4. s \in {"chunks_vdb", "chunks_kv"} =>
        /\ Orphans(s) = old.passages \ cache
        /\ Additions(s) = cache \ old.passages
  BY <1>2, MemoryIds, Stores DEF Orphans, Additions
<1>5. /\ vec' = [vec EXCEPT ![s] = IF what = "purge" THEN vec[s] \ Orphans(s)
                                                   ELSE vec[s] \cup Additions(s)]
      /\ UNCHANGED vecFile
  BY <1>1, <1>3 DEF PutVec, Batched
<1>6. vec \in [Store -> SUBSET Id] /\ at \in 1..10
  BY Series DEF TypeOK, Sync
<1>7. /\ at = 1 => what = "purge" /\ s = "chunks_vdb"
      /\ at = 2 => what = "purge" /\ s = "chunks_kv"
      /\ at = 3 => what = "add" /\ s = "chunks_vdb"
      /\ at = 4 => what = "add" /\ s = "chunks_kv"
      /\ at > 4 => s \notin {"chunks_vdb", "chunks_kv"}
  BY <1>1, <1>6 DEF SyncOps
<1> QED BY <1>4, <1>5, <1>6, <1>7, Stores

LEMMA IndexInit == ASSUME Init PROVE IndexInv /\ FileInv
<1>1. /\ vec["chunks_vdb"] = {} /\ vec["chunks_kv"] = {}
      /\ ids.passages = {}
  BY Stores DEF Init, NoVectors, NoIds
<1> QED BY <1>1 DEF Init, IndexInv, FileInv, Covered, Held

(* What the next diff takes for stored is stored.                          *)
LEMMA PreviousHeld ==
    ASSUME TypeOK, IndexInv
    PROVE  PreviousIds.passages \subseteq Held \cap cache
BY MemoryIds DEF TypeOK, IndexInv, Covered, PreviousIds, NoIds

(* Each step of the diff and of the install.                               *)
LEMMA IndexInstall ==
    ASSUME TypeOK, InsertInv, IndexInv, FileInv,
           Sync \/ EmbeddingFails \/ ListIds \/ FillGraph \/ WriteSnapshot \/ SwapMemory
    PROVE  IndexInv' /\ FileInv'
<1> USE DEF IndexInv, FileInv, Covered, Held, files
<1>0. /\ wpc \in LockedPcs => kind = "insert" /\ target \in Memory /\ target.passages = cache
      /\ at \in 0..10
  BY Series DEF InsertInv, TypeOK, LockedPcs, InstallPcs, RewritePcs
<1>1. CASE Sync
  <2>1. /\ UNCHANGED <<cache, snapshot, snapshotFile, vecFile, memory, ids, old>>
        /\ wpc = "sync" /\ at # 0
        /\ \/ at = 10 /\ at' = 0 /\ wpc' = "list"
           \/ at' = at + 1 /\ wpc' = "sync"
    BY <1>1, SyncPassages, Series DEF Sync, TypeOK
  <2>2. /\ Held \cap cache \subseteq Held'
        /\ at >= 3 => cache \subseteq vec'["chunks_vdb"]
        /\ at >= 4 => cache \subseteq vec'["chunks_kv"]
    <3>1. CASE at = 1  BY <1>1, <2>1, <3>1, SyncPassages
    <3>2. CASE at = 2  BY <1>1, <2>1, <3>2, SyncPassages
    <3>3. CASE at = 3  BY <1>1, <2>1, <3>3, SyncPassages
    <3>4. CASE at = 4  BY <1>1, <2>1, <3>4, SyncPassages
    <3>5. CASE at > 4  BY <1>0, <1>1, <2>1, <3>5, SyncPassages
    <3> QED BY <1>0, <2>1, <3>1, <3>2, <3>3, <3>4, <3>5
  <2>3. FileInv'  BY <2>1
  <2>4. /\ Covered(memory)' /\ Covered(snapshot)'
        /\ ids'.passages \subseteq Held' \cap cache'
        /\ old'.passages \subseteq Held' \cap cache'
    BY <2>1, <2>2
  <2>5. /\ wpc' = "sync" /\ at' > 3 => cache' \subseteq vec'["chunks_vdb"]
        /\ wpc' = "sync" /\ at' > 4 => cache' \subseteq vec'["chunks_kv"]
        /\ wpc' # "sync" => wpc' = "list" /\ cache' \subseteq Held'
    BY <1>0, <2>1, <2>2
  <2> HIDE DEF FileInv
  <2> QED BY <2>1, <2>3, <2>4, <2>5
<1>2. CASE EmbeddingFails
  BY <1>0, <1>2 DEF EmbeddingFails, Batched, LockedPcs, RewritePcs
<1>3. CASE ListIds
  BY <1>0, <1>3, MemoryIds DEF ListIds, LockedPcs, RewritePcs
<1>4. CASE FillGraph
  BY <1>0, <1>4 DEF FillGraph, LockedPcs, RewritePcs
<1>5. CASE WriteSnapshot
  BY <1>0, <1>5 DEF WriteSnapshot, Batched, LockedPcs, RewritePcs
<1>6. CASE SwapMemory
  BY <1>0, <1>6 DEF SwapMemory, Batched, LockedPcs, RewritePcs
<1> QED BY <1>1, <1>2, <1>3, <1>4, <1>5, <1>6

(* Each save of a batch: the snapshot is in its file before the passages   *)
(* it counts on are, and they are when the last save is done.              *)
LEMMA IndexFlush ==
    ASSUME TypeOK, InsertInv, IndexInv, FileInv, Flush
    PROVE  IndexInv' /\ FileInv'
<1>1. at \in 1..7 /\ wpc = "flush" /\ vecFile \in [Store -> SUBSET Id]
  BY Series DEF Flush, TypeOK
<1>2. /\ UNCHANGED <<cache, vec, snapshot, memory, ids>>
      /\ \/ at = 7 /\ wpc' = "idle"
         \/ at < 7 /\ at' = at + 1 /\ wpc' = wpc
  BY <1>1, Series DEF Flush, Retire
<1>3. IndexInv'
  BY <1>1, <1>2 DEF IndexInv, Covered, Held
<1>4. FileInv'
  <2> USE DEF FileInv, IndexInv, Covered, Held
  <2>1. CASE at = 1
    BY <1>1, <1>2, <2>1, FlushOrder, Stores DEF Flush
  <2>2. CASE at = 2
    BY <1>1, <1>2, <2>2, FlushOrder, Stores DEF Flush
  <2>3. CASE at = 3
    <3>1. vecFile' = [vecFile EXCEPT !["chunks_kv"] = vec["chunks_kv"]] /\ UNCHANGED snapshotFile
      BY <2>3, FlushOrder, Stores DEF Flush
    <3> QED BY <1>1, <1>2, <2>3, <3>1, Stores
  <2>4. CASE at \in 4..6
    <3>1. FlushOps[at] \in Store \ {"chunks_kv", "chunks_vdb"}
      BY <2>4, FlushOrder
    <3>2. /\ vecFile' = [vecFile EXCEPT ![FlushOps[at]] = vec[FlushOps[at]]]
          /\ UNCHANGED snapshotFile
      BY <3>1, Stores DEF Flush
    <3> QED BY <1>1, <1>2, <2>4, <3>1, <3>2, Stores
  <2>5. CASE at = 7
    <3>1. vecFile' = [vecFile EXCEPT !["chunks_vdb"] = vec["chunks_vdb"]] /\ UNCHANGED snapshotFile
      BY <2>5, FlushOrder, Stores DEF Flush
    <3> QED BY <1>1, <1>2, <2>5, <3>1, Stores
  <2> QED BY <1>1, <2>1, <2>2, <2>3, <2>4, <2>5
<1> QED BY <1>3, <1>4

(* Each step of a query: what it loads is the stored snapshot.             *)
LEMMA IndexReader ==
    ASSUME TypeOK, InsertInv, IndexInv, FileInv,
           NEW r \in Readers, Ask(r) \/ ReaderStep(r)
    PROVE  IndexInv' /\ FileInv'
<1> USE DEF IndexInv, FileInv, Covered, Held, files
<1>1. CASE PrepareLoad(r)
  <2>1. memory' = memory \/ memory' = snapshot
    BY <1>1 DEF PrepareLoad
  <2>2. ids'.passages = IF memory' = NoMemory THEN {} ELSE memory'.passages
    BY <1>1, <2>1, MemoryIds DEF PrepareLoad, TypeOK, NoIds
  <2> QED BY <1>1, <2>1, <2>2 DEF PrepareLoad
<1>2. CASE PrepareEntities(r)
  BY <1>2 DEF PrepareEntities, TypeOK, Ids
<1>3. CASE Ask(r) \/ AcquireReader(r) \/ PrepareEdges(r) \/ Answer(r)
  BY <1>3 DEF Ask, AskReady, AskPrepare, AskDirect, AcquireReader, PrepareEdges, Answer
<1> QED BY <1>1, <1>2, <1>3 DEF ReaderStep

LEMMA IndexStep ==
    ASSUME TypeOK, InsertsOnly, "tear" \notin Faults, InsertInv, IndexInv, FileInv,
           [Next]_vars
    PROVE  IndexInv' /\ FileInv'
<1> USE DEF files
<1>1. CASE \E P \in SUBSET Passage : Extract(P)
  BY <1>1 DEF Extract, IndexInv, FileInv, Covered, Held
<1>2. CASE RebuildFails
  BY <1>2 DEF RebuildFails, Retire, IndexInv, FileInv, Covered, Held
<1>3. CASE \E m \in Memory : RebuildInsert(m)
  BY <1>3 DEF RebuildInsert, IndexInv, FileInv, Covered, Held
<1>4. CASE AcquireInsert
  BY <1>4 DEF AcquireInsert, IndexInv, FileInv, Covered, Held
<1>5. CASE Diff
  BY <1>5, PreviousHeld DEF Diff, IndexInv, FileInv, Covered, Held
<1>6. CASE Sync \/ EmbeddingFails \/ ListIds \/ FillGraph \/ WriteSnapshot \/ SwapMemory
  BY <1>6, IndexInstall
<1>7. CASE Flush
  BY <1>7, IndexFlush
<1>8. CASE \E r \in Readers : Ask(r) \/ ReaderStep(r)
  BY <1>8, IndexReader
<1>9. CASE Kill
  <2>1. wpc # "flush"  BY <1>9 DEF Kill
  <2>2. /\ wpc' = "idle" /\ memory' = NoMemory /\ ids'.passages = {}
        /\ vec' = vecFile /\ snapshot' = snapshotFile
        /\ UNCHANGED <<cache, vecFile, snapshotFile>>
    BY <1>9 DEF Kill, Stop, NoIds
  <2> QED BY <2>1, <2>2 DEF IndexInv, FileInv, Covered, Held
<1>10. CASE Cancel
  <2>1. /\ wpc' = "idle" /\ memory' = NoMemory /\ ids'.passages = {}
        /\ UNCHANGED <<cache, vec, snapshot>>
        /\ vecFile' = vec /\ snapshotFile' = snapshot
    BY <1>10 DEF Cancel, Stop, NoIds
  <2> QED BY <2>1 DEF IndexInv, FileInv, Covered, Held
<1>11. ASSUME NEW warm \in BOOLEAN, Boot(warm) PROVE IndexInv' /\ FileInv'
  <2>1. /\ UNCHANGED <<cache, vec, snapshot, vecFile, snapshotFile, wpc, at, old>>
        /\ memory' \in {memory, snapshot}
    BY <1>11 DEF Boot
  <2>2. ids'.passages \subseteq Held \cap cache
    <3>1. snapshot # NoMemory =>
            [Listed(snapshot) EXCEPT !.entities =
                SurfacesIn(cache) \cup EndsIn(snapshot.facts)].passages = snapshot.passages
      BY MemoryIds DEF TypeOK, Ids
    <3>2. ids' = ids \/ ids'.passages = {} \/ (snapshot # NoMemory /\ ids'.passages = snapshot.passages)
      <4>1. CASE ~warm  BY <1>11, <4>1 DEF Boot
      <4>2. CASE warm /\ snapshot = NoMemory  BY <1>11, <4>2 DEF Boot, NoIds
      <4>3. CASE warm /\ snapshot # NoMemory  BY <1>11, <3>1, <4>3 DEF Boot
      <4> QED BY <4>1, <4>2, <4>3
    <3> QED BY <3>2 DEF IndexInv, Covered
  <2> QED BY <2>1, <2>2 DEF IndexInv, FileInv, Covered, Held
<1>12. CASE UNCHANGED vars
  BY <1>12 DEF vars, IndexInv, FileInv, Covered, Held
<1> QED
  BY <1>1, <1>2, <1>3, <1>4, <1>5, <1>6, <1>7, <1>8, <1>9, <1>10, <1>11, <1>12,
     InsertSteps
  DEF Next

(* Whatever inserts failed, were cancelled or killed, the passages of the  *)
(* installed memory have their vectors and their texts, as long as no kill *)
(* falls between two saves of one batch.                                   *)
THEOREM PassagesIndexedCorrect ==
    ASSUME InsertsOnly, "tear" \notin Faults
    PROVE  Spec => []PassagesIndexed
<1>1. Init => TypeOK /\ InsertInv /\ IndexInv /\ FileInv
  BY TypeInit, InsertInit, IndexInit
<1>2. TypeOK /\ InsertInv /\ IndexInv /\ FileInv /\ [Next]_vars
        => (TypeOK /\ InsertInv /\ IndexInv /\ FileInv)'
  BY TypeStep, InsertStep, IndexStep
<1>3. IndexInv => PassagesIndexed
  BY DEF IndexInv, Covered, Held, PassagesIndexed
<1> QED BY <1>1, <1>2, <1>3, PTL DEF Spec

----------------------------------------------------------------------------
(* An engine that only inserts and whose queries take the corpus lock:     *)
(* readiness.                                                              *)

LEMMA ReadyInit == ASSUME Init PROVE ReadyInv
BY DEF Init, ReadyInv, PreparePcs, SwapPcs

LEMMA ReadyRewriter ==
    ASSUME TypeOK, InsertsOnly, InsertInv, ReadyInv, RewriterStep \/ Request
    PROVE  ReadyInv'
<1> USE DEF ReadyInv, SwapPcs, PreparePcs
<1>1. CASE \E P \in SUBSET Passage : Extract(P)  BY <1>1 DEF Extract
<1>2. CASE RebuildFails  BY <1>2 DEF RebuildFails, Retire
<1>3. CASE \E m \in Memory : RebuildInsert(m)
  BY <1>3, Names DEF RebuildInsert
<1>4. CASE AcquireInsert  BY <1>4, Names DEF AcquireInsert
<1>5. CASE Diff  BY <1>5 DEF Diff
<1>6. CASE Sync  BY <1>6 DEF Sync
<1>7. CASE EmbeddingFails
  <2>1. wpc = "sync" /\ wpc' \in {"flush", "idle"}
    BY <1>7 DEF EmbeddingFails, Retire
  <2> QED BY <1>7, <2>1 DEF EmbeddingFails
<1>8. CASE ListIds \/ FillGraph \/ WriteSnapshot \/ SwapMemory
  <2>1. wpc \in LockedPcs
    BY <1>8 DEF LockedPcs, RewritePcs, ListIds, FillGraph, WriteSnapshot, SwapMemory
  <2>2. \A r \in Readers : rpc[r] \notin PreparePcs
    BY <2>1, Names DEF InsertInv
  <2> QED
    BY <1>8, <2>2 DEF ListIds, FillGraph, WriteSnapshot, SwapMemory, Retire
<1>9. CASE Flush
  <2>1. wpc \in LockedPcs
    BY <1>9 DEF LockedPcs, RewritePcs, Flush
  <2>2. \A r \in Readers : rpc[r] \notin PreparePcs
    BY <2>1, Names DEF InsertInv
  <2> QED BY <1>9, <2>2 DEF Flush, Retire
<1> QED
  BY <1>1, <1>2, <1>3, <1>4, <1>5, <1>6, <1>7, <1>8, <1>9, InsertSteps

LEMMA ReadyReader ==
    ASSUME TypeOK, Modes \subseteq {"ppr"}, InsertInv, ReadyInv,
           NEW r \in Readers, Ask(r) \/ ReaderStep(r)
    PROVE  ReadyInv'
<1> USE DEF ReadyInv, PreparePcs
<1>1. CASE AskReady(r)  BY <1>1 DEF AskReady, TypeOK
<1>2. CASE AskPrepare(r)  BY <1>2, Names DEF AskPrepare, TypeOK
<1>3. ~AskDirect(r)  BY DEF AskDirect
<1>4. CASE AcquireReader(r)  BY <1>4, Names DEF AcquireReader, TypeOK
<1>5. CASE PrepareLoad(r) \/ PrepareEntities(r) \/ PrepareEdges(r)
  <2>1. /\ lock = r /\ wpc \notin LockedPcs
        /\ \A q \in Readers \ {r} : rpc[q] \notin PreparePcs
    BY <1>5, Names DEF InsertInv, PrepareLoad, PrepareEntities, PrepareEdges
  <2>2. wpc \notin SwapPcs
    BY <2>1 DEF SwapPcs, LockedPcs, RewritePcs
  <2>3. CASE PrepareLoad(r)
    <3>1. /\ memory' = snapshot /\ UNCHANGED <<wpc, snapshot, graph, ppr, ready, lock, target>>
          /\ rpc' = [rpc EXCEPT ![r] = IF memory' = NoMemory THEN "edges" ELSE "entities"]
      BY <2>2, <2>3 DEF PrepareLoad, SwapPcs
    <3>2. ids'.passages = IF memory' = NoMemory THEN {} ELSE memory'.passages
      BY <2>3, <3>1, MemoryIds DEF PrepareLoad, TypeOK, NoIds
    <3> QED BY <2>1, <2>2, <3>1, <3>2 DEF TypeOK, SwapPcs
  <2>4. CASE PrepareEntities(r)
    <3>1. ids'.passages = ids.passages
      BY <2>4 DEF PrepareEntities, TypeOK, Ids
    <3> QED BY <2>1, <2>2, <2>4, <3>1 DEF PrepareEntities, TypeOK, SwapPcs
  <2>5. CASE PrepareEdges(r)
    BY <2>1, <2>2, <2>5 DEF PrepareEdges, TypeOK, SwapPcs
  <2> QED BY <1>5, <2>3, <2>4, <2>5
<1>6. CASE Answer(r)  BY <1>6 DEF Answer, TypeOK
<1> QED BY <1>1, <1>2, <1>3, <1>4, <1>5, <1>6 DEF Ask, ReaderStep

LEMMA ReadyProcess ==
    ASSUME TypeOK, InsertInv, ReadyInv, Kill \/ Cancel \/ \E warm \in BOOLEAN : Boot(warm)
    PROVE  ReadyInv'
<1> USE DEF ReadyInv, PreparePcs, SwapPcs
<1>1. CASE Kill \/ Cancel
  BY <1>1 DEF Kill, Cancel, Stop
<1>2. ASSUME NEW warm \in BOOLEAN, Boot(warm) PROVE ReadyInv'
  <2>1. /\ wpc = "idle" /\ \A r \in Readers : rpc[r] \notin PreparePcs
        /\ UNCHANGED <<wpc, rpc, snapshot, graph, target, lock>>
    BY <1>2, Names DEF Boot, InsertInv
  <2>2. CASE ~warm  BY <1>2, <2>1, <2>2 DEF Boot
  <2>3. CASE warm /\ snapshot = NoMemory
    <3>1. memory' = NoMemory /\ ids'.passages = {}
      BY <1>2, <2>3 DEF Boot, NoIds
    <3>2. ~ready'
      BY <1>2, <2>3, <3>1 DEF Boot
    <3> QED BY <2>1, <2>3, <3>1, <3>2
  <2>4. CASE warm /\ snapshot # NoMemory
    <3>1. [Listed(snapshot) EXCEPT !.entities =
              SurfacesIn(cache) \cup EndsIn(snapshot.facts)].passages = snapshot.passages
      BY <2>4, MemoryIds DEF TypeOK, Ids
    <3>2. memory' = snapshot /\ ids'.passages = snapshot.passages /\ ppr' = graph
      BY <1>2, <2>4, <3>1 DEF Boot
    <3> QED BY <2>1, <2>4, <3>2
  <2> QED BY <2>2, <2>3, <2>4
<1> QED BY <1>1, <1>2

LEMMA ReadyStep ==
    ASSUME TypeOK, InsertsOnly, Modes \subseteq {"ppr"}, InsertInv, ReadyInv, [Next]_vars
    PROVE  ReadyInv'
<1>1. CASE UNCHANGED vars
  BY <1>1 DEF vars, ReadyInv
<1> QED BY <1>1, ReadyRewriter, ReadyReader, ReadyProcess DEF Next

(* At rest, an engine that says it is ready holds the memory, the maps and *)
(* the PPR engine of the snapshot and the graph that are stored, whatever  *)
(* inserts, failures, kills and boots came before.                         *)
THEOREM ReadyMeansCurrentCorrect ==
    ASSUME InsertsOnly, Modes \subseteq {"ppr"}
    PROVE  Spec => []ReadyMeansCurrent
<1>1. Init => TypeOK /\ InsertInv /\ ReadyInv
  BY TypeInit, InsertInit, ReadyInit
<1>2. TypeOK /\ InsertInv /\ ReadyInv /\ [Next]_vars
        => (TypeOK /\ InsertInv /\ ReadyInv)'
  BY TypeStep, InsertStep, ReadyStep
<1>3. ReadyInv => ReadyMeansCurrent
  BY DEF ReadyInv, ReadyMeansCurrent, AtRest, SwapPcs
<1> QED BY <1>1, <1>2, <1>3, PTL DEF Spec

----------------------------------------------------------------------------
(* Inserts, deletes and clears: the passages the stores keep.              *)

LEMMA KindInit == ASSUME Init PROVE KindInv
BY DEF Init, KindInv, InstallPcs, RewritePcs

LEMMA KindStep == ASSUME TypeOK, KindInv, [Next]_vars PROVE KindInv'
<1> USE DEF KindInv, InstallPcs, RewritePcs
<1>1. CASE \E P \in SUBSET Passage : Extract(P) \/ Delete(P)
  BY <1>1 DEF Extract, Delete
<1>2. CASE Clear  BY <1>2 DEF Clear
<1>3. CASE RebuildFails  BY <1>3 DEF RebuildFails, Retire
<1>4. CASE \E m \in Memory : RebuildInsert(m) \/ RebuildDelete(m)
  BY <1>4 DEF RebuildInsert, RebuildDelete, Rebuilt
<1>5. CASE AcquireInsert \/ Diff
  BY <1>5 DEF AcquireInsert, Diff
<1>6. CASE Sync  BY <1>6 DEF Sync
<1>7. CASE EmbeddingFails
  BY <1>7 DEF EmbeddingFails, Batched, Retire
<1>8. CASE ListIds \/ FillGraph \/ WriteSnapshot
  BY <1>8 DEF ListIds, FillGraph, WriteSnapshot
<1>9. CASE SwapMemory
  BY <1>9 DEF SwapMemory, Batched, Retire
<1>10. CASE Flush  BY <1>10 DEF Flush, Retire
<1>11. CASE DropChunks  BY <1>11 DEF DropChunks
<1>12. CASE EmptyCorpus  BY <1>12 DEF EmptyCorpus
<1>13. CASE Wipe \/ ClearStore
  BY <1>13 DEF Wipe, ClearStore
<1>14. CASE Forget \/ ResetEngine
  BY <1>14 DEF Forget, ResetEngine, Retire
<1>15. ASSUME NEW r \in Readers, Ask(r) \/ ReaderStep(r) PROVE KindInv'
  BY <1>15
  DEF Ask, ReaderStep, AskReady, AskPrepare, AskDirect, AcquireReader,
      PrepareLoad, PrepareEntities, PrepareEdges, Answer
<1>16. CASE Kill \/ Cancel  BY <1>16 DEF Kill, Cancel, Stop
<1>17. CASE \E warm \in BOOLEAN : Boot(warm)  BY <1>17 DEF Boot
<1>18. CASE UNCHANGED vars  BY <1>18 DEF vars
<1> HIDE DEF KindInv, InstallPcs, RewritePcs
<1> QED
  BY <1>1, <1>2, <1>3, <1>4, <1>5, <1>6, <1>7, <1>8, <1>9, <1>10, <1>11, <1>12,
     <1>13, <1>14, <1>15, <1>16, <1>17, <1>18
  DEF Next, Request, RewriterStep

LEMMA CachedInit == ASSUME Init PROVE CachedInv
<1>1. \A S \in {vec, vecFile} : PassagesOf(S) = {}
  BY Stores DEF Init, NoVectors, PassagesOf
<1> QED BY <1>1 DEF Init, CachedInv

(* A step that leaves the stores, the cache, the place in a series and the *)
(* ids to drop alone, or that ends outside the drops.                      *)
LEMMA CachedSame ==
    ASSUME CachedInv, wpc \notin {"drop", "clear"}, wpc' \notin {"drop", "clear"},
           cache \subseteq cache',
           vec' \in {vec, vecFile}, vecFile' \in {vec, vecFile}
    PROVE  CachedInv'
BY DEF CachedInv, PassagesOf

(* A diff only adds passages of the cache.                                 *)
LEMMA CachedSync ==
    ASSUME TypeOK, KindInv, CachedInv, Sync
    PROVE  CachedInv'
<1>1. PICK what \in {"purge", "add"}, s \in Store :
        PutVec(s, IF what = "purge" THEN vec[s] \ Orphans(s)
                                    ELSE vec[s] \cup Additions(s))
  BY DEF Sync
<1> DEFINE X == IF what = "purge" THEN vec[s] \ Orphans(s)
                                  ELSE vec[s] \cup Additions(s)
<1>2. target \in Memory /\ target.passages = cache
  BY DEF Sync, TypeOK, KindInv, InstallPcs, RewritePcs
<1>3. s \in {"chunks_vdb", "chunks_kv"} => X \subseteq cache
  <2>1. s \in {"chunks_vdb", "chunks_kv"} => Additions(s) \subseteq cache
    BY <1>2, MemoryIds, Stores DEF Additions
  <2>2. s \in {"chunks_vdb", "chunks_kv"} => vec[s] \subseteq cache
    BY DEF Sync, CachedInv, PassagesOf
  <2> QED BY <2>1, <2>2
<1> HIDE DEF X
<1>4. /\ vec' = [vec EXCEPT ![s] = X]
      /\ vecFile' = vecFile \/ vecFile' = [vecFile EXCEPT ![s] = X]
  BY <1>1 DEF PutVec, X
<1>5. /\ vec \in [Store -> SUBSET Id] /\ vecFile \in [Store -> SUBSET Id]
      /\ wpc = "sync" /\ wpc' \in {"sync", "list"} /\ cache' = cache
  BY DEF TypeOK, Sync
<1>6. ASSUME NEW S \in {vec', vecFile'} PROVE PassagesOf(S) \subseteq cache
  BY <1>3, <1>4, <1>5, Stores DEF CachedInv, PassagesOf
<1> QED BY <1>5, <1>6 DEF CachedInv

(* A delete drops its passages from both stores, whatever lists of ids     *)
(* queries have left behind.                                               *)
LEMMA CachedDrop ==
    ASSUME TypeOK, KindInv, CachedInv, DropChunks
    PROVE  CachedInv'
<1>1. /\ wpc = "drop" /\ kind = "delete" /\ at \in 1..2
      /\ vec \in [Store -> SUBSET Id] /\ vecFile \in [Store -> SUBSET Id]
      /\ DropOps[1] = "chunks_kv" /\ DropOps[2] = "chunks_vdb"
  BY Series DEF DropChunks, KindInv, TypeOK, DropOps
<1>2. /\ UNCHANGED <<cache, old>>
      /\ vec' = [vec EXCEPT ![DropOps[at]] = vec[DropOps[at]] \ old.passages]
      /\ vecFile' = [vecFile EXCEPT ![DropOps[at]] = vec[DropOps[at]] \ old.passages]
      /\ at = 1 => at' = 2 /\ wpc' = "drop"
      /\ at = 2 => at' = 0 /\ wpc' = "rebuild"
  BY <1>1, Series DEF DropChunks, PutVec, Batched
<1>3. CASE at = 1
  <2>1. ASSUME NEW S \in {vec', vecFile'}
        PROVE  /\ S["chunks_kv"] \subseteq cache
               /\ S["chunks_vdb"] \subseteq cache \cup old.passages
    BY <1>1, <1>2, <1>3, Stores DEF CachedInv, PassagesOf
  <2> QED BY <1>2, <1>3, <2>1 DEF CachedInv, PassagesOf
<1>4. CASE at = 2
  <2>1. ASSUME NEW S \in {vec', vecFile'}
        PROVE  /\ S["chunks_kv"] \subseteq cache
               /\ S["chunks_vdb"] \subseteq cache
    BY <1>1, <1>2, <1>4, Stores DEF CachedInv, PassagesOf
  <2> QED BY <1>2, <1>4, <2>1 DEF CachedInv, PassagesOf
<1> QED BY <1>1, <1>3, <1>4

(* What an emptied store does to the stores of passages, outside a batch.  *)
LEMMA EmptyPassages ==
    ASSUME TypeOK, ~Batched, NEW s, NEW X, Empty(s, X)
    PROVE  /\ s # "openie_kv" => cache' = cache
           /\ s = "openie_kv" => cache' = {} /\ UNCHANGED <<vec, vecFile>>
           /\ s \in Store => /\ vec' = [vec EXCEPT ![s] = X]
                            /\ vecFile' = [vecFile EXCEPT ![s] = X]
           /\ s \notin Store => UNCHANGED <<vec, vecFile>>
BY Stores DEF Empty, PutVec, files

(* An emptied corpus has nothing in its cache, so nothing in its stores.   *)
LEMMA CachedWipe ==
    ASSUME TypeOK, KindInv, CachedInv, Wipe
    PROVE  CachedInv'
<1> DEFINE s == WipeOps[at]
           X == IF s \in Store THEN vec[s] \ old[LayerOf[s]] ELSE {}
<1>1. /\ wpc = "wipe" /\ ~Batched /\ Empty(s, X) /\ wpc' \in {"wipe", "forget"}
      /\ vec \in [Store -> SUBSET Id] /\ vecFile \in [Store -> SUBSET Id]
  BY DEF Wipe, KindInv, Batched, TypeOK
<1>2. s \in {"chunks_vdb", "chunks_kv"} => X \subseteq cache
  BY <1>1, Stores DEF CachedInv, PassagesOf
<1>3. s # "openie_kv"
  BY Series DEF Wipe, TypeOK, WipeOps
<1> HIDE DEF s, X
<1>4. \A S \in {vec', vecFile'} : PassagesOf(S) \subseteq cache'
  BY <1>1, <1>2, <1>3, EmptyPassages, Stores DEF CachedInv, PassagesOf
<1> QED BY <1>1, <1>4 DEF CachedInv

(* A clear empties the cache before the stores, which are empty when it is *)
(* done.                                                                   *)
LEMMA CachedClear ==
    ASSUME TypeOK, KindInv, CachedInv, ClearStore
    PROVE  CachedInv'
<1> DEFINE s == ClearOps[at]
<1>1. /\ wpc = "clear" /\ ~Batched /\ Empty(s, {}) /\ at \in 1..8
      /\ vec \in [Store -> SUBSET Id] /\ vecFile \in [Store -> SUBSET Id]
      /\ \/ at = 8 /\ wpc' = "reset"
         \/ at < 8 /\ wpc' = "clear" /\ at' = at + 1
  BY Series DEF ClearStore, KindInv, Batched, TypeOK
<1>2. /\ at = 1 => s = "memory_kv"
      /\ at = 2 => s = "openie_kv"
      /\ at = 3 => s = "chunks_kv"
      /\ at = 4 => s = "chunks_vdb"
      /\ at > 4 => s \notin {"openie_kv", "chunks_kv", "chunks_vdb"}
  BY <1>1 DEF ClearOps
<1> HIDE DEF s
<1>3. CASE at <= 2
  BY <1>1, <1>2, <1>3, EmptyPassages, Stores DEF CachedInv, PassagesOf
<1>4. CASE at = 3
  BY <1>1, <1>2, <1>4, EmptyPassages, Stores DEF CachedInv, PassagesOf
<1>5. CASE at = 4
  BY <1>1, <1>2, <1>5, EmptyPassages, Stores DEF CachedInv, PassagesOf
<1>6. CASE at > 4
  BY <1>1, <1>2, <1>6, EmptyPassages, Stores DEF CachedInv, PassagesOf
<1> QED BY <1>1, <1>3, <1>4, <1>5, <1>6

LEMMA CachedStep ==
    ASSUME TypeOK, KindInv, CachedInv, [Next]_vars,
           Kill => wpc \notin {"drop", "clear"}
    PROVE  CachedInv'
<1> USE DEF files
<1>1. CASE \E P \in SUBSET Passage : Extract(P)
  BY <1>1, CachedSame DEF Extract
<1>2. ASSUME NEW D \in SUBSET Passage, Delete(D) PROVE CachedInv'
  <2>1. /\ wpc = "idle" /\ wpc' = "drop" /\ at' = 1
        /\ UNCHANGED <<vec, vecFile>>
        /\ cache \subseteq cache' \cup old'.passages
    BY <1>2 DEF Delete, NoIds
  <2> QED BY <2>1 DEF CachedInv, PassagesOf
<1>3. CASE Clear
  BY <1>3 DEF Clear, CachedInv
<1>4. CASE RebuildFails \/ (\E m \in Memory : RebuildInsert(m) \/ RebuildDelete(m))
  BY <1>4, CachedSame DEF RebuildFails, RebuildInsert, RebuildDelete, Retire
<1>5. CASE AcquireInsert \/ Diff \/ EmbeddingFails
  BY <1>5, CachedSame DEF AcquireInsert, Diff, EmbeddingFails, Retire
<1>6. CASE Sync  BY <1>6, CachedSync
<1>7. CASE ListIds \/ FillGraph \/ WriteSnapshot \/ SwapMemory
  BY <1>7, CachedSame DEF ListIds, FillGraph, WriteSnapshot, SwapMemory, Retire
<1>8. CASE Flush
  <2>1. /\ wpc = "flush" /\ wpc' \in {"flush", "idle"} /\ UNCHANGED <<cache, vec>>
        /\ \/ vecFile' = vecFile
           \/ \E s \in Store : vecFile' = [vecFile EXCEPT ![s] = vec[s]]
        /\ vecFile \in [Store -> SUBSET Id]
    BY <1>8 DEF Flush, Retire, TypeOK
  <2>2. PassagesOf(vecFile') \subseteq PassagesOf(vec) \cup PassagesOf(vecFile)
    BY <2>1, Stores DEF PassagesOf
  <2> QED BY <2>1, <2>2 DEF CachedInv
<1>9. CASE DropChunks  BY <1>9, CachedDrop
<1>10. CASE EmptyCorpus \/ Forget \/ ResetEngine
  <2>1. wpc \notin {"drop", "clear"} /\ wpc' \notin {"drop", "clear"}
    BY <1>10 DEF EmptyCorpus, Forget, ResetEngine, Retire
  <2> QED BY <1>10, <2>1, CachedSame DEF EmptyCorpus, Forget, ResetEngine
<1>11. CASE Wipe  BY <1>11, CachedWipe
<1>12. CASE ClearStore  BY <1>12, CachedClear
<1>13. ASSUME NEW r \in Readers, Ask(r) \/ ReaderStep(r) PROVE CachedInv'
  <2>1. UNCHANGED <<cache, vec, vecFile, wpc, at, old>>
    BY <1>13
    DEF Ask, ReaderStep, AskReady, AskPrepare, AskDirect, AcquireReader,
        PrepareLoad, PrepareEntities, PrepareEdges, Answer
  <2> QED BY <2>1 DEF CachedInv
<1>14. CASE Kill
  BY <1>14, CachedSame DEF Kill, Stop
<1>15. CASE Cancel
  BY <1>15, CachedSame DEF Cancel, Stop, RewritePcs
<1>16. CASE \E warm \in BOOLEAN : Boot(warm)
  BY <1>16 DEF Boot, CachedInv
<1>17. CASE UNCHANGED vars
  BY <1>17 DEF vars, CachedInv
<1> QED
  BY <1>1, <1>2, <1>3, <1>4, <1>5, <1>6, <1>7, <1>8, <1>9, <1>10, <1>11, <1>12,
     <1>13, <1>14, <1>15, <1>16, <1>17
  DEF Next, Request, RewriterStep

(* A passage that was deleted is in no store of passages once the rewrite  *)
(* is over: whichever inserts, deletes and clears ran, failed or were      *)
(* cancelled, whatever lists the queries left, and wherever the process    *)
(* was killed but between the two drops of a delete or within a clear      *)
(* (core.py, _drop_chunks after the cache).                                *)
THEOREM DeletedIsGoneCorrect == Spec /\ KillSparesDrops => []DeletedIsGone
<1>1. Init => TypeOK /\ KindInv /\ CachedInv
  BY TypeInit, KindInit, CachedInit
<1>2. TypeOK /\ KindInv /\ CachedInv /\ [Next]_vars
        /\ [Kill => wpc \notin {"drop", "clear"}]_vars
        => (TypeOK /\ KindInv /\ CachedInv)'
  <2>1. ASSUME TypeOK, KindInv, CachedInv, UNCHANGED vars
        PROVE  (TypeOK /\ KindInv /\ CachedInv)'
    BY <2>1, TypeStep, KindStep DEF CachedInv, vars, files
  <2> QED BY <2>1, TypeStep, KindStep, CachedStep
<1>3. CachedInv => DeletedIsGone
  BY DEF CachedInv, DeletedIsGone, PassagesOf, AtRest
<1> QED BY <1>1, <1>2, <1>3, PTL DEF Spec, KillSparesDrops
=============================================================================
