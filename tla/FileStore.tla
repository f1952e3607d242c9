------------------------------- MODULE FileStore -------------------------------
(***************************************************************************)
(* One namespace of a file-backed backend: JsonKVStorage (and the document *)
(* status store built on it), NanoVectorDBStorage, IgraphStorage.  The     *)
(* three share one persistence protocol: the whole namespace lives in      *)
(* memory, a change marks it dirty, and a flush rewrites the file under    *)
(* the store's lock in a worker thread, through a temporary name.  Batches *)
(* of several callers nest in one counter; while it is positive a change   *)
(* does not flush.                                                         *)
(*                                                                         *)
(* A step of a caller runs to its next suspension: waiting for the lock,   *)
(* or for the worker thread.                                               *)
(***************************************************************************)
EXTENDS Naturals, FiniteSets

CONSTANTS
    Caller,    \* the tasks that use the namespace
    Key,       \* ids of records, vectors, or nodes and edges
    Value,     \* what is stored under an id
    NoValue,   \* no record
    Free,      \* the lock is not held
    NoFile,    \* there is no such file
    Corrupt,   \* the file does not parse
    MaxNest    \* bound: batches one caller has open at once

ASSUME StoreAssumption == NoValue \notin Value /\ Free \notin Caller /\ MaxNest \in Nat

VARIABLES
    kind,     \* which backend: fixed by the configuration
    data,     \* _data, the client of the vector store, or _graph
    dirty,    \* _dirty
    depth,    \* _batch_depth
    lock,     \* _lock: its holder
    pc,       \* where a caller is: outside, waiting to flush, its thread writing
    nest,     \* how many batches a caller has open
    tmp,      \* the file under its temporary name
    file,     \* the file of the namespace
    up,       \* the process runs
    asideF,   \* a file was moved to .corrupt-<time>
    failed    \* history: a flush has failed since the last one that did not

vars == <<kind, data, dirty, depth, lock, pc, nest, tmp, file, up, asideF, failed>>

Kinds    == {"kv", "vector", "graph"}
Map      == [Key -> Value \cup {NoValue}]
EmptyMap == [k \in Key |-> NoValue]

ASSUME FileAssumption == NoFile \notin Map \cup {Corrupt} /\ Corrupt \notin Map

(* What reading a file gives: an absent one is an empty namespace. *)
Loaded(f) == IF f = NoFile THEN EmptyMap ELSE f

Idle == [c \in Caller |-> "out"]

Init ==
    /\ kind \in Kinds
    /\ data = EmptyMap /\ dirty = FALSE /\ depth = 0 /\ lock = Free
    /\ pc = Idle /\ nest = [c \in Caller |-> 0]
    /\ tmp = NoFile /\ file = NoFile /\ up = TRUE /\ asideF = FALSE /\ failed = FALSE

----------------------------------------------------------------------------
(* Changes, all under the lock.  After one, the caller goes on to flush,   *)
(* which inside a batch it does not.                                       *)

ToFlush(c) == pc' = IF depth > 0 THEN pc ELSE [pc EXCEPT ![c] = "flush"]

(* A mutant: a change does not wait for a dump that is under way.          *)
ReadyUnlocked(c) == up /\ pc[c] = "out"

Ready(c) == up /\ pc[c] = "out" /\ lock = Free

Changed(c, new, mark) ==
    /\ Ready(c)
    /\ data' = new /\ dirty' = mark
    /\ ToFlush(c)
    /\ UNCHANGED <<kind, depth, lock, nest, tmp, file, up, asideF, failed>>

With(k, v) == [data EXCEPT ![k] = v]

UpsertRecord(c, k, v) == kind = "kv" /\ Changed(c, With(k, v), TRUE)
UpsertVector(c, k, v) == kind = "vector" /\ Changed(c, With(k, v), TRUE)
UpsertNode(c, k, v)   == kind = "graph" /\ Changed(c, With(k, v), TRUE)

(* Both ends are nodes already: the engine installs nodes before edges.    *)
UpsertEdge(c, k, v) ==
    /\ kind = "graph" /\ \E end \in Key \ {k} : data[end] # NoValue
    /\ Changed(c, With(k, v), TRUE)

(* Only the key-value store looks whether there was anything to delete.    *)
DeleteRecord(c, k) ==
    kind = "kv" /\ Changed(c, With(k, NoValue), dirty \/ data[k] # NoValue)
DeleteVector(c, k) == kind = "vector" /\ Changed(c, With(k, NoValue), TRUE)

DropRecords(c) == kind = "kv" /\ Changed(c, EmptyMap, TRUE)
ClearGraph(c)  == kind = "graph" /\ Changed(c, EmptyMap, TRUE)

(* The vector store takes its file with it, batch or not: nothing is left  *)
(* to flush, and a pending save must not bring the old vectors back.       *)
DropVectors(c) ==
    /\ Ready(c) /\ kind = "vector"
    /\ data' = EmptyMap /\ dirty' = FALSE /\ file' = NoFile
    /\ UNCHANGED <<kind, depth, lock, pc, nest, tmp, up, asideF, failed>>

(* A file that cannot be removed is logged, and the new client reads it    *)
(* again: the old vectors are back, as they were saved.                    *)
DropVectorsFails(c) ==
    /\ Ready(c) /\ kind = "vector" /\ file \in Map
    /\ data' = file /\ dirty' = FALSE
    /\ UNCHANGED <<kind, depth, lock, pc, nest, tmp, file, up, asideF, failed>>

----------------------------------------------------------------------------
(* batch(): entering and leaving take no lock.  Leaving is a finally, so   *)
(* a body that raised leaves the same way.                                 *)

OpenBatch(c) ==
    /\ up /\ pc[c] = "out" /\ nest[c] < MaxNest
    /\ depth' = depth + 1 /\ nest' = [nest EXCEPT ![c] = @ + 1]
    /\ UNCHANGED <<kind, data, dirty, lock, pc, tmp, file, up, asideF, failed>>

Left == IF depth > 1 THEN depth - 1 ELSE 0

(* A mutant: leaving the last batch only lowers the counter.               *)
CloseWithoutFlush(c) ==
    /\ up /\ pc[c] = "out" /\ nest[c] > 0
    /\ depth' = Left /\ nest' = [nest EXCEPT ![c] = @ - 1]
    /\ UNCHANGED <<kind, data, dirty, lock, pc, tmp, file, up, asideF, failed>>

CloseBatch(c) ==
    /\ up /\ pc[c] = "out" /\ nest[c] > 0
    /\ depth' = Left /\ nest' = [nest EXCEPT ![c] = @ - 1]
    /\ pc' = IF Left > 0 THEN pc ELSE [pc EXCEPT ![c] = "flush"]
    /\ UNCHANGED <<kind, data, dirty, lock, tmp, file, up, asideF, failed>>

----------------------------------------------------------------------------
(* _flush, past its look at the depth: another caller may have opened a    *)
(* batch, or saved everything, before the lock is taken.                   *)

FlushNothing(c) ==
    /\ up /\ pc[c] = "flush" /\ lock = Free /\ ~dirty
    /\ pc' = [pc EXCEPT ![c] = "out"]
    /\ UNCHANGED <<kind, data, dirty, depth, lock, nest, tmp, file, up, asideF, failed>>

FlushBegins(c) ==
    /\ up /\ pc[c] = "flush" /\ lock = Free /\ dirty
    /\ lock' = c /\ pc' = [pc EXCEPT ![c] = "write"]
    /\ tmp' = data
    /\ UNCHANGED <<kind, data, dirty, depth, nest, file, up, asideF, failed>>

(* The whole file takes the place of the old one (os.replace).             *)
FlushEnds(c) ==
    /\ up /\ pc[c] = "write"
    /\ file' = tmp /\ tmp' = NoFile
    /\ dirty' = FALSE /\ failed' = FALSE
    /\ lock' = Free /\ pc' = [pc EXCEPT ![c] = "out"]
    /\ UNCHANGED <<kind, data, depth, nest, up, asideF>>

(* A full disk, a value that does not serialise: the exception reaches the *)
(* caller, the flag stays up, the temporary file stays behind.  The vector *)
(* library has no temporary file: it rewrites its file in place.           *)
Torn == IF kind = "vector" THEN {file, Corrupt} ELSE {file}

FlushFails(c) ==
    /\ up /\ pc[c] = "write"
    /\ file' \in Torn /\ failed' = TRUE
    /\ lock' = Free /\ pc' = [pc EXCEPT ![c] = "out"]
    /\ UNCHANGED <<kind, data, dirty, depth, nest, tmp, up, asideF>>

(* finalize, once the callers are done: a forced flush whatever the depth. *)
Quiet == pc = Idle /\ \A c \in Caller : nest[c] = 0

Finalize(c) ==
    /\ up /\ Quiet
    /\ depth' = 0 /\ pc' = [pc EXCEPT ![c] = "flush"]
    /\ UNCHANGED <<kind, data, dirty, lock, nest, tmp, file, up, asideF, failed>>

----------------------------------------------------------------------------
(* The process ends: a crash at any point, or the end of a shutdown.  What *)
(* is in memory is gone.                                                   *)

Crash ==
    /\ up /\ up' = FALSE
    /\ file' \in IF lock = Free THEN {file} ELSE Torn
    /\ data' = EmptyMap /\ dirty' = FALSE /\ depth' = 0 /\ lock' = Free
    /\ pc' = Idle /\ nest' = [c \in Caller |-> 0] /\ failed' = FALSE
    /\ UNCHANGED <<kind, tmp, asideF>>

(* Something outside truncates or damages the file. *)
Damage ==
    /\ ~up /\ file # NoFile /\ file' = Corrupt
    /\ UNCHANGED <<kind, data, dirty, depth, lock, pc, nest, tmp, up, asideF, failed>>

(* initialize (the vector client reads its file when it is built).  An     *)
(* unreadable file raises; only the key-value store can be told to move it *)
(* aside and start empty.                                                  *)
Initialize ==
    /\ ~up /\ file # Corrupt
    /\ up' = TRUE /\ data' = Loaded(file)
    /\ UNCHANGED <<kind, dirty, depth, lock, pc, nest, tmp, file, asideF, failed>>

Quarantine ==
    /\ ~up /\ file = Corrupt /\ kind = "kv"
    /\ up' = TRUE /\ data' = EmptyMap /\ file' = NoFile /\ asideF' = TRUE
    /\ UNCHANGED <<kind, dirty, depth, lock, pc, nest, tmp, failed>>

Next ==
    \/ \E c \in Caller :
          \/ \E k \in Key, v \in Value :
                UpsertRecord(c, k, v) \/ UpsertVector(c, k, v)
                \/ UpsertNode(c, k, v) \/ UpsertEdge(c, k, v)
          \/ \E k \in Key : DeleteRecord(c, k) \/ DeleteVector(c, k)
          \/ DropRecords(c) \/ ClearGraph(c) \/ DropVectors(c) \/ DropVectorsFails(c)
          \/ OpenBatch(c)
          \/ CloseBatch(c)
          \/ FlushNothing(c)
          \/ FlushBegins(c)
          \/ FlushEnds(c)
          \/ FlushFails(c)
          \/ Finalize(c)
    \/ Crash
    \/ Damage
    \/ Initialize
    \/ Quarantine

Spec == Init /\ [][Next]_vars

----------------------------------------------------------------------------

TypeOK ==
    /\ kind \in Kinds /\ data \in Map /\ dirty \in BOOLEAN /\ depth \in Nat
    /\ lock \in Caller \cup {Free} /\ pc \in [Caller -> {"out", "flush", "write"}]
    /\ nest \in [Caller -> 0 .. MaxNest]
    /\ tmp \in Map \cup {NoFile} /\ file \in Map \cup {NoFile, Corrupt}
    /\ up \in BOOLEAN /\ asideF \in BOOLEAN /\ failed \in BOOLEAN

(* A namespace that is not marked dirty is on disk as it is in memory: no  *)
(* flush clears the mark of a change it did not write, whatever changed,   *)
(* failed or was dropped around it.                                        *)
CleanMeansSaved == up /\ ~dirty => Loaded(file) = data

(* Once every call has returned and every batch is left, all changes are   *)
(* on disk, unless a flush has failed: a change that another caller's      *)
(* batch kept from flushing is flushed with that batch.                    *)
QuietIsSaved == up /\ Quiet /\ ~failed => Loaded(file) = data

(* The protocol implements the promise of a namespace: changes are seen at *)
(* once, the file only ever becomes the whole map of that moment, and a    *)
(* damaged file is refused or set aside.                                   *)
Durable == INSTANCE DurableStore WITH
    Empty <- EmptyMap, Unreadable <- Corrupt, view <- data, durable <- Loaded(file),
    running <- up, aside <- asideF, inPlace <- (kind = "vector")

ImplementsDurable == Durable!AbsSpec
===============================================================================
