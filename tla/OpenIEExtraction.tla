--------------------------- MODULE OpenIEExtraction ---------------------------
(***************************************************************************)
(* The extraction of triples from the chunks of one insert: what is asked  *)
(* of the model (openie/openai_openie.py), what is kept of it and when     *)
(* (core.py, _extract_openie_checkpointed), and the relaunch that finds it *)
(* again.                                                                  *)
(*                                                                         *)
(* A chunk takes two calls in a row, entities and then triples.  A call    *)
(* may meet a transient error, which the client retries, or a lasting one. *)
(* Answers without usable JSON count as "nothing found" and are kept like  *)
(* any other: what was found is not part of the state, that it was is.     *)
(***************************************************************************)
EXTENDS SequencesExt, Picks

CONSTANTS
    CheckpointSize,   \* OPENIE_CHECKPOINT_SIZE
    MaxConcurrency,   \* max_async_llm
    Attempts,         \* stop_after_attempt
    MaxKills          \* bound: kills of the process

ASSUME ExtractionAssumption ==
    {CheckpointSize, MaxConcurrency, Attempts} \subseteq Nat \ {0} /\ MaxKills \in Nat

VARIABLES
    xphase,    \* where the insert stands
    prepared,  \* the chunks of the insert
    missing,   \* the chunks that were not in the cache
    first,     \* the sub-batch starts at this place of missing
    asked,     \* the chunks being asked for
    slots,     \* the calls of each of them
    failures,  \* failed_idx
    cache,     \* openie_kv, on disk
    paid,      \* history: chunks the model has answered for
    kills      \* kills so far

extraction == <<xphase, prepared, missing, first, asked, slots, failures, cache, paid, kills>>

ExtractionInit ==
    /\ xphase = "idle" /\ prepared = <<>> /\ missing = <<>>
    /\ first = 1 /\ asked = <<>> /\ slots = <<>> /\ failures = <<>>
    /\ cache = {} /\ paid = {} /\ kills = 0

Waiting == [stage |-> "waiting", tries |-> 0]
SlotOver(slot) == slot.stage \in {"ok", "failed"}
ChunksWith(stage) == Taken(asked, {i \in DOMAIN slots : slots[i].stage = stage})

Ask(chunks) ==
    /\ asked' = chunks
    /\ slots' = [i \in DOMAIN chunks |-> Waiting]

SubBatch(from) ==
    SubSeq(missing', from, IF from + CheckpointSize - 1 < Len(missing') THEN from + CheckpointSize - 1
                           ELSE Len(missing'))

(* A record of the chunk that carries its triples. *)
Cached(c) == c \in cache

(* An insert asks for the chunks that are not in the cache. *)
BeginExtraction(chunks) ==
    /\ xphase = "idle"
    /\ prepared' = chunks
    /\ missing' = Taken(chunks, {i \in DOMAIN chunks : ~Cached(chunks[i])})
    /\ first' = 1 /\ failures' = <<>>
    /\ Ask(SubBatch(1))
    /\ xphase' = IF missing' = <<>> THEN "ready" ELSE "first pass"
    /\ UNCHANGED <<cache, paid, kills>>

Asking == xphase \in {"first pass", "second pass"}

(* Semaphore: the next in line starts when fewer than the limit run. *)
StartChunk(i) ==
    /\ Asking /\ slots[i].stage = "waiting"
    /\ \A j \in 1..(i - 1) : slots[j].stage # "waiting"
    /\ Cardinality({j \in DOMAIN slots : slots[j].stage \in {"ner", "triples"}}) < MaxConcurrency
    /\ slots' = [slots EXCEPT ![i].stage = "ner"]
    /\ UNCHANGED <<xphase, prepared, missing, first, asked, failures, cache, paid, kills>>

AnswerEntities(i) ==
    /\ Asking /\ slots[i].stage = "ner"
    /\ slots' = [slots EXCEPT ![i] = [stage |-> "triples", tries |-> 0]]
    /\ UNCHANGED <<xphase, prepared, missing, first, asked, failures, cache, paid, kills>>

AnswerTriples(i) ==
    /\ Asking /\ slots[i].stage = "triples"
    /\ slots' = [slots EXCEPT ![i].stage = "ok"]
    /\ paid' = paid \cup {asked[i]}
    /\ UNCHANGED <<xphase, prepared, missing, first, asked, failures, cache, kills>>

(* A transient error: the call is made again, a limited number of times. *)
TransientError(i) ==
    /\ Asking /\ slots[i].stage \in {"ner", "triples"}
    /\ slots' = IF slots[i].tries + 1 < Attempts
                THEN [slots EXCEPT ![i].tries = @ + 1]
                ELSE [slots EXCEPT ![i].stage = "failed"]
    /\ UNCHANGED <<xphase, prepared, missing, first, asked, failures, cache, paid, kills>>

(* Any other error fails the chunk at once; it does not stop the others. *)
LastingError(i) ==
    /\ Asking /\ slots[i].stage \in {"ner", "triples"}
    /\ slots' = [slots EXCEPT ![i].stage = "failed"]
    /\ UNCHANGED <<xphase, prepared, missing, first, asked, failures, cache, paid, kills>>

BatchOver == \A i \in DOMAIN slots : SlotOver(slots[i])

(* A mutant: the cache is written once, after the last sub-batch. *)
KeepSubBatchLate ==
    /\ xphase = "first pass" /\ BatchOver
    /\ cache' = IF first + CheckpointSize > Len(missing)
                THEN cache \cup (paid \cap Range(missing)) ELSE cache
    /\ failures' = failures \o ChunksWith("failed")
    /\ first' = first + CheckpointSize
    /\ UNCHANGED <<prepared, missing, paid, kills>>
    /\ IF first' <= Len(missing)
       THEN xphase' = "first pass" /\ Ask(SubBatch(first'))
       ELSE IF failures' # <<>>
       THEN xphase' = "second pass" /\ Ask(failures')
       ELSE xphase' = "ready" /\ Ask(<<>>)

(* What a sub-batch brought is in the cache before the next one starts;    *)
(* after the last, the chunks that failed get a second pass.               *)
KeepSubBatch ==
    /\ xphase = "first pass" /\ BatchOver
    /\ cache' = cache \cup Range(ChunksWith("ok"))
    /\ failures' = failures \o ChunksWith("failed")
    /\ first' = first + CheckpointSize
    /\ UNCHANGED <<prepared, missing, paid, kills>>
    /\ IF first' <= Len(missing)
       THEN xphase' = "first pass" /\ Ask(SubBatch(first'))
       ELSE IF failures' # <<>>
       THEN xphase' = "second pass" /\ Ask(failures')
       ELSE xphase' = "ready" /\ Ask(<<>>)

(* A mutant: a chunk that fails twice does not stop the insert. *)
KeepSecondPassAnyway ==
    /\ xphase = "second pass" /\ BatchOver
    /\ cache' = cache \cup Range(ChunksWith("ok"))
    /\ xphase' = "ready"
    /\ Ask(<<>>)
    /\ UNCHANGED <<prepared, missing, first, failures, paid, kills>>

(* Chunks that failed twice stop the insert, after the others are kept. *)
KeepSecondPass ==
    /\ xphase = "second pass" /\ BatchOver
    /\ cache' = cache \cup Range(ChunksWith("ok"))
    /\ xphase' = IF ChunksWith("failed") # <<>> THEN "raised" ELSE "ready"
    /\ Ask(<<>>)
    /\ UNCHANGED <<prepared, missing, first, failures, paid, kills>>

(* The process is killed: only the cache is left, and the next launch      *)
(* inserts again.  What was paid for and lost is paid for again.           *)
Kill ==
    /\ kills < MaxKills /\ xphase # "idle"
    /\ kills' = kills + 1
    /\ xphase' = "idle"
    /\ prepared' = <<>> /\ missing' = <<>> /\ first' = 1 /\ failures' = <<>>
    /\ Ask(<<>>)
    /\ paid' = paid \cap cache
    /\ UNCHANGED cache

Call(i) ==
    \/ StartChunk(i)
    \/ AnswerEntities(i)
    \/ AnswerTriples(i)
    \/ TransientError(i)
    \/ LastingError(i)

Extract ==
    \/ \E i \in DOMAIN slots : Call(i)
    \/ KeepSubBatch
    \/ KeepSecondPass

(* Inserts of any chunks, one after the other. *)
ExtractionNext(ChunkId) ==
    \/ \E chunks \in Seq(ChunkId) : BeginExtraction(chunks)
    \/ Extract
    \/ Kill

ExtractionSpec(ChunkId) == ExtractionInit /\ [][ExtractionNext(ChunkId)]_extraction

----------------------------------------------------------------------------
(* Properties.                                                             *)

(* A kill costs what is being asked for and nothing before it: every chunk *)
(* the model has answered for is in the cache or in the batch in flight,   *)
(* which in the first pass is one sub-batch (core.py:1283-1288).  The      *)
(* cache holds no chunk whose extraction failed; an insert goes on only    *)
(* with all its chunks there, and one that gives up has kept everything    *)
(* the model answered for (core.py:1290-1341).                             *)
CacheIsTrue ==
    /\ cache \subseteq paid /\ paid \subseteq cache \cup Range(asked)
    /\ xphase = "first pass" => Len(asked) <= CheckpointSize
    /\ xphase = "ready" => Range(prepared) \subseteq cache
    /\ xphase = "raised" => paid \subseteq cache

=============================================================================
