------------------------------ MODULE IngestProofs ------------------------------
(***************************************************************************)
(* What a document goes through before it is indexed, for any documents,   *)
(* services and providers: its chunks are cut from its own text, those of  *)
(* strategy F cover it, the cache of extractions holds what the model has  *)
(* answered and no more, and the rows of vectors are those of the texts.   *)
(***************************************************************************)
EXTENDS Parsing, Indexing, SequenceFacts

----------------------------------------------------------------------------
(* Extraction.  What the model has answered for is in the cache or among   *)
(* the batch's results; and each chunk of the insert is in the cache, or   *)
(* has failed, or is in the batch, or comes in a later one.                *)

Stages == {"waiting", "ner", "triples", "ok", "failed"}

ExtractionTyped(ChunkId) ==
    /\ prepared \in Seq(ChunkId) /\ missing \in Seq(ChunkId)
    /\ asked \in Seq(ChunkId) /\ failures \in Seq(ChunkId)
    /\ slots \in [DOMAIN asked -> [stage : Stages, tries : Nat]]
    /\ first \in Nat \ {0}
    /\ xphase \in {"idle", "first pass", "second pass", "ready", "raised"}

With(stage) == {asked[i] : i \in {j \in DOMAIN slots : slots[j].stage = stage}}

PaidInv ==
    /\ cache \subseteq paid
    /\ With("ok") \subseteq paid
    /\ paid \subseteq cache \cup With("ok")

Later == {missing[j] : j \in (first + CheckpointSize)..Len(missing)}

PreparedInv ==
    /\ ~Asking => asked = <<>>
    /\ xphase = "first pass" =>
        /\ Len(asked) <= CheckpointSize
        /\ Range(prepared) \subseteq cache \cup Range(failures) \cup Range(asked) \cup Later
    /\ xphase = "second pass" => Range(prepared) \subseteq cache \cup Range(asked)
    /\ xphase = "ready" => Range(prepared) \subseteq cache

ExtractionInv(ChunkId) == ExtractionTyped(ChunkId) /\ PaidInv /\ PreparedInv

LEMMA SizeIs == CheckpointSize \in Nat /\ CheckpointSize > 0
BY ExtractionAssumption

(* A sub-batch reaches as far as the next one starts.                      *)
LEMMA SubBatchIs ==
    ASSUME NEW ChunkId, missing' \in Seq(ChunkId), NEW from \in Nat \ {0}
    PROVE  /\ SubBatch(from) \in Seq(ChunkId)
           /\ Len(SubBatch(from)) <= CheckpointSize
           /\ missing' = <<>> => SubBatch(from) = <<>>
           /\ \A j \in from..Len(missing') : j < from + CheckpointSize =>
                 missing'[j] \in Range(SubBatch(from))
<1> DEFINE s == missing'
           n == Len(s)
           to == IF from + CheckpointSize - 1 < n THEN from + CheckpointSize - 1 ELSE n
           b == SubSeq(s, from, to)
<1>0. s \in Seq(ChunkId) /\ n \in Nat /\ (s = <<>> => n = 0) /\ DOMAIN s = 1..n
  OBVIOUS
<1>1. CheckpointSize \in Nat \ {0}
  BY ExtractionAssumption
<1>2. SubBatch(from) = b
  BY DEF SubBatch
<1> HIDE DEF s
<1>3. to \in Int /\ to <= n /\ to <= from + CheckpointSize - 1 /\ (n = 0 => to = 0)
      /\ \A j \in from..n : j < from + CheckpointSize => j <= to
  BY <1>0, <1>1
<1> HIDE DEF to
<1>4. \A i \in from..to : s[i] \in ChunkId
  BY <1>0, <1>3
<1>5. /\ b \in Seq(ChunkId) /\ Len(b) = IF from <= to THEN to - from + 1 ELSE 0
      /\ \A i \in 1..(to - from + 1) : b[i] = s[from + i - 1]
  BY <1>3, <1>4, SubSeqProperties
<1>6. Len(b) <= CheckpointSize
  BY <1>1, <1>3, <1>5
<1>7. s = <<>> => b = <<>>
  BY <1>0, <1>3, SubSeqEmpty
<1>8. ASSUME NEW j \in from..n, j < from + CheckpointSize PROVE s[j] \in Range(b)
  <2>1. j <= to
    BY <1>3, <1>8
  <2>2. j - from + 1 \in 1..(to - from + 1) /\ from + (j - from + 1) - 1 = j
    BY <1>3, <1>8, <2>1
  <2>3. b[j - from + 1] = s[j]
    BY <1>5, <2>2
  <2>4. j - from + 1 \in DOMAIN b
    BY <1>3, <1>5, <2>2
  <2> QED BY <2>3, <2>4 DEF Range
<1> QED BY <1>2, <1>5, <1>6, <1>7, <1>8 DEF s

(* The results of the batch.                                               *)
LEMMA ChunksAre ==
    ASSUME NEW ChunkId, ExtractionTyped(ChunkId), NEW stage
    PROVE  ChunksWith(stage) \in Seq(ChunkId) /\ Range(ChunksWith(stage)) = With(stage)
<1>1. asked \in Seq(ChunkId) /\ DOMAIN slots = DOMAIN asked
  BY DEF ExtractionTyped
<1>2. {i \in DOMAIN slots : slots[i].stage = stage} \in SUBSET (DOMAIN asked)
  BY <1>1
<1> QED BY <1>1, <1>2, TakenIs DEF ChunksWith, With

LEMMA BatchSplits ==
    ASSUME NEW ChunkId, ExtractionTyped(ChunkId), BatchOver
    PROVE  Range(asked) \subseteq With("ok") \cup With("failed")
<1>1. DOMAIN slots = DOMAIN asked
  BY DEF ExtractionTyped
<1> QED BY <1>1 DEF Range, BatchOver, SlotOver, With

LEMMA RangeOfConcat ==
    ASSUME NEW S, NEW s \in Seq(S), NEW t \in Seq(S)
    PROVE  s \o t \in Seq(S) /\ Range(s \o t) = Range(s) \cup Range(t)
<1>1. /\ Len(s) \in Nat /\ Len(t) \in Nat /\ DOMAIN s = 1..Len(s) /\ DOMAIN t = 1..Len(t)
      /\ s \o t \in Seq(S) /\ DOMAIN (s \o t) = 1..(Len(s) + Len(t))
      /\ \A i \in 1..(Len(s) + Len(t)) : (s \o t)[i] = IF i <= Len(s) THEN s[i] ELSE t[i - Len(s)]
  BY ConcatProperties
<1> DEFINE u == s \o t
<1> HIDE DEF u
<1>2. ASSUME NEW i \in 1..(Len(s) + Len(t)) PROVE (s \o t)[i] \in Range(s) \cup Range(t)
  <2>1. CASE i <= Len(s)
    <3>1. i \in DOMAIN s /\ (s \o t)[i] = s[i]
      BY <1>1, <2>1
    <3> QED BY <3>1 DEF Range
  <2>2. CASE ~(i <= Len(s))
    <3>1. i - Len(s) \in DOMAIN t /\ (s \o t)[i] = t[i - Len(s)]
      BY <1>1, <2>2
    <3> QED BY <3>1 DEF Range
  <2> QED BY <2>1, <2>2
<1>3. ASSUME NEW i \in DOMAIN s PROVE s[i] \in Range(s \o t)
  <2>1. i \in DOMAIN (s \o t) /\ (s \o t)[i] = s[i]
    BY <1>1
  <2> QED BY <2>1 DEF Range
<1>4. ASSUME NEW i \in DOMAIN t PROVE t[i] \in Range(s \o t)
  <2>1. Len(s) + i \in DOMAIN (s \o t) /\ (s \o t)[Len(s) + i] = t[i]
    BY <1>1
  <2> QED BY <2>1 DEF Range
<1> QED BY <1>1, <1>2, <1>3, <1>4 DEF Range

LEMMA AskIs ==
    ASSUME NEW ChunkId, NEW chunks \in Seq(ChunkId), Ask(chunks)
    PROVE  /\ asked' = chunks /\ slots' \in [DOMAIN asked' -> [stage : Stages, tries : Nat]]
           /\ With("ok")' = {}
<1>1. Waiting \in [stage : Stages, tries : Nat] /\ Waiting.stage # "ok"
  BY DEF Waiting, Stages
<1> QED BY <1>1 DEF Ask, With

LEMMA ExtractionStarts ==
    ASSUME NEW ChunkId, ExtractionInit PROVE ExtractionInv(ChunkId)
<1>1. <<>> \in Seq(ChunkId) /\ DOMAIN <<>> = {}
  OBVIOUS
<1> QED BY <1>1 DEF ExtractionInit, ExtractionInv, ExtractionTyped, PaidInv, PreparedInv,
                     With, Asking

LEMMA BeginInv ==
    ASSUME NEW ChunkId, ExtractionInv(ChunkId), NEW chunks \in Seq(ChunkId), BeginExtraction(chunks)
    PROVE  ExtractionInv(ChunkId)'
<1> USE DEF ExtractionInv
<1> DEFINE left == {i \in DOMAIN chunks : ~Cached(chunks[i])}
<1>1. /\ missing' = Taken(chunks, left) /\ prepared' = chunks
      /\ xphase = "idle" /\ xphase' = IF missing' = <<>> THEN "ready" ELSE "first pass"
      /\ first' = 1 /\ failures' = <<>> /\ cache' = cache /\ paid' = paid
  BY DEF BeginExtraction
<1>2. missing' \in Seq(ChunkId) /\ Range(missing') = {chunks[i] : i \in left}
  BY <1>1, TakenIs
<1>3. SubBatch(1) \in Seq(ChunkId) /\ Ask(SubBatch(1))
  <2>1. 1 \in Nat \ {0}
    OBVIOUS
  <2>2. SubBatch(1) \in Seq(ChunkId)
    BY <1>2, <2>1, SubBatchIs
  <2> QED BY <2>2 DEF BeginExtraction
<1>4. /\ asked' \in Seq(ChunkId) /\ slots' \in [DOMAIN asked' -> [stage : Stages, tries : Nat]]
      /\ With("ok")' = {} /\ asked' = SubBatch(1)
  BY <1>3, AskIs
<1>5. <<>> \in Seq(ChunkId) /\ 1 \in Nat \ {0}
  OBVIOUS
<1>6. ExtractionTyped(ChunkId)'
  BY <1>1, <1>2, <1>4, <1>5 DEF ExtractionTyped
<1>7. PaidInv'
  <2>1. With("ok") = {}
    <3>1. asked = <<>> /\ DOMAIN slots = DOMAIN asked
      BY <1>1 DEF PreparedInv, Asking, ExtractionTyped
    <3> QED BY <3>1 DEF With
  <2> QED BY <1>1, <1>4, <2>1 DEF PaidInv
<1>8. Range(chunks) \subseteq cache \cup Range(missing')
  BY <1>2 DEF Range, Cached
<1>9. CASE missing' = <<>>
  <2>1. Range(missing') = {} /\ asked' = <<>>
    BY <1>2, <1>4, <1>5, <1>9, SubBatchIs DEF Range
  <2> QED BY <1>1, <1>6, <1>7, <1>8, <1>9, <2>1 DEF PreparedInv, Asking
<1>10. CASE missing' # <<>>
  <2>1. xphase' = "first pass" /\ Len(asked') <= CheckpointSize
    BY <1>1, <1>2, <1>4, <1>5, <1>10, SubBatchIs
  <2>2. Range(missing') \subseteq Range(asked') \cup Later'
    <3> SUFFICES ASSUME NEW j \in 1..Len(missing')
                 PROVE  missing'[j] \in Range(asked') \cup Later'
      BY <1>2 DEF Range
    <3>1. CASE j < 1 + CheckpointSize
      BY <1>2, <1>4, <1>5, <3>1, SubBatchIs
    <3>2. CASE ~(j < 1 + CheckpointSize)
      <4>1. j \in (first' + CheckpointSize)..Len(missing')
        <5>1. j \in (1 + CheckpointSize)..Len(missing')
          BY <3>2, SizeIs
        <5> QED BY <1>1, <5>1
      <4> QED BY <4>1 DEF Later
    <3> QED BY <3>1, <3>2
  <2> QED BY <1>1, <1>6, <1>7, <1>8, <2>1, <2>2 DEF PreparedInv, Asking
<1> QED BY <1>9, <1>10

(* A step of one call: its slot moves, and a chunk answered is paid for.   *)
LEMMA CallInv ==
    ASSUME NEW ChunkId, ExtractionInv(ChunkId), NEW i \in DOMAIN slots, Call(i)
    PROVE  ExtractionInv(ChunkId)'
<1> USE DEF ExtractionInv
<1>1. /\ UNCHANGED <<xphase, prepared, missing, first, asked, failures, cache>>
      /\ Asking
  BY DEF Call, StartChunk, AnswerEntities, AnswerTriples, TransientError, LastingError
<1>2. /\ asked \in Seq(ChunkId) /\ DOMAIN slots = DOMAIN asked
      /\ slots \in [DOMAIN asked -> [stage : Stages, tries : Nat]]
  BY DEF ExtractionTyped
<1>3. PICK slot \in [stage : Stages, tries : Nat] :
        /\ slots' = [slots EXCEPT ![i] = slot]
        /\ slots[i].stage # "ok"
        /\ paid' = IF slot.stage = "ok" THEN paid \cup {asked[i]} ELSE paid
  <2>0. slots[i] \in [stage : Stages, tries : Nat]
    BY <1>2
  <2>1. CASE StartChunk(i)
    <3>1. [slots[i] EXCEPT !.stage = "ner"] \in [stage : Stages, tries : Nat]
      BY <2>0 DEF Stages
    <3> QED BY <2>0, <2>1, <3>1 DEF StartChunk
  <2>2. CASE AnswerEntities(i)
    <3>1. [stage |-> "triples", tries |-> 0] \in [stage : Stages, tries : Nat]
      BY DEF Stages
    <3> QED BY <2>2, <3>1 DEF AnswerEntities
  <2>3. CASE AnswerTriples(i)
    <3>1. [slots[i] EXCEPT !.stage = "ok"] \in [stage : Stages, tries : Nat]
      BY <2>0 DEF Stages
    <3> QED BY <2>0, <2>3, <3>1 DEF AnswerTriples
  <2>4. CASE LastingError(i)
    <3>1. [slots[i] EXCEPT !.stage = "failed"] \in [stage : Stages, tries : Nat]
      BY <2>0 DEF Stages
    <3> QED BY <2>0, <2>4, <3>1 DEF LastingError
  <2>5. CASE TransientError(i)
    <3>1. [slots[i] EXCEPT !.stage = "failed"] \in [stage : Stages, tries : Nat]
      BY <2>0 DEF Stages
    <3>2. slots[i].tries + 1 \in Nat
      BY <2>0
    <3>3. [slots[i] EXCEPT !.tries = slots[i].tries + 1] \in [stage : Stages, tries : Nat]
      BY <2>0, <3>2
    <3>4. slots[i].stage \in {"ner", "triples"} /\ paid' = paid
      BY <2>5 DEF TransientError
    <3>5. CASE slots[i].tries + 1 < Attempts
      BY <2>0, <2>5, <3>3, <3>4, <3>5 DEF TransientError
    <3>6. CASE ~(slots[i].tries + 1 < Attempts)
      BY <2>0, <2>5, <3>1, <3>4, <3>6 DEF TransientError
    <3> QED BY <3>5, <3>6
  <2> QED BY <2>1, <2>2, <2>3, <2>4, <2>5 DEF Call
<1>4. With("ok")' = IF slot.stage = "ok" THEN With("ok") \cup {asked[i]} ELSE With("ok")
  <2>1. DOMAIN slots' = DOMAIN slots /\ slots'[i] = slot
        /\ \A j \in DOMAIN slots \ {i} : slots'[j] = slots[j]
    BY <1>3
  <2> QED BY <1>1, <1>3, <2>1 DEF With
<1>5. ExtractionTyped(ChunkId)'
  BY <1>1, <1>2, <1>3 DEF ExtractionTyped
<1>6. PaidInv'
  BY <1>1, <1>3, <1>4 DEF PaidInv
<1>7. PreparedInv'
  BY <1>1, ZenonT(40) DEF PreparedInv, Asking, Later
<1> QED BY <1>5, <1>6, <1>7

LEMMA KeepSubBatchInv ==
    ASSUME NEW ChunkId, ExtractionInv(ChunkId), KeepSubBatch
    PROVE  ExtractionInv(ChunkId)'
<1> USE DEF ExtractionInv
<1>1. /\ xphase = "first pass" /\ BatchOver
      /\ cache' = cache \cup Range(ChunksWith("ok"))
      /\ failures' = failures \o ChunksWith("failed")
      /\ first' = first + CheckpointSize
      /\ prepared' = prepared /\ missing' = missing /\ paid' = paid
      /\ IF first' <= Len(missing)
         THEN xphase' = "first pass" /\ Ask(SubBatch(first'))
         ELSE IF failures' # <<>>
         THEN xphase' = "second pass" /\ Ask(failures')
         ELSE xphase' = "ready" /\ Ask(<<>>)
  BY DEF KeepSubBatch
<1>2. /\ cache' = cache \cup With("ok")
      /\ failures' \in Seq(ChunkId) /\ Range(failures') = Range(failures) \cup With("failed")
      /\ missing' \in Seq(ChunkId) /\ prepared' \in Seq(ChunkId)
      /\ first' \in Nat \ {0}
  <2>1. ChunksWith("failed") \in Seq(ChunkId) /\ Range(ChunksWith("failed")) = With("failed")
        /\ Range(ChunksWith("ok")) = With("ok")
    BY ChunksAre
  <2>2. failures \in Seq(ChunkId) /\ missing \in Seq(ChunkId) /\ prepared \in Seq(ChunkId)
    BY DEF ExtractionTyped
  <2>3. failures' \in Seq(ChunkId) /\ Range(failures') = Range(failures) \cup With("failed")
    <3> DEFINE lost == ChunksWith("failed")
    <3>1. lost \in Seq(ChunkId) /\ Range(lost) = With("failed") /\ failures' = failures \o lost
      BY <1>1, <2>1
    <3> HIDE DEF lost
    <3>2. failures \o lost \in Seq(ChunkId) /\ Range(failures \o lost) = Range(failures) \cup Range(lost)
      BY <2>2, <3>1, RangeOfConcat
    <3> QED BY <3>1, <3>2
  <2>4. first' \in Nat \ {0}
    <3>1. first \in Nat \ {0}
      BY DEF ExtractionTyped
    <3>2. first + CheckpointSize \in Nat \ {0}
      BY <3>1, SizeIs
    <3> QED BY <1>1, <3>2
  <2> QED BY <1>1, <2>1, <2>2, <2>3, <2>4
<1>3. Range(prepared) \subseteq cache' \cup Range(failures') \cup Later
  BY <1>1, <1>2, BatchSplits DEF PreparedInv
<1>4. PICK chunks \in Seq(ChunkId) : Ask(chunks)
  <2>1. SubBatch(first') \in Seq(ChunkId) /\ <<>> \in Seq(ChunkId)
    BY <1>2, SubBatchIs
  <2> QED BY <1>1, <1>2, <2>1
<1>5. /\ asked' \in Seq(ChunkId) /\ slots' \in [DOMAIN asked' -> [stage : Stages, tries : Nat]]
      /\ With("ok")' = {}
  BY <1>4, AskIs
<1>6. ExtractionTyped(ChunkId)'
  BY <1>1, <1>2, <1>5 DEF ExtractionTyped
<1>7. PaidInv'
  BY <1>1, <1>2, <1>5 DEF PaidInv
<1>8. PreparedInv'
  <2>1. CASE first' <= Len(missing)
    <3>1. xphase' = "first pass" /\ asked' = SubBatch(first')
      BY <1>1, <2>1 DEF Ask
    <3>2. Len(asked') <= CheckpointSize
      BY <1>2, <3>1, SubBatchIs
    <3>3. Later \subseteq Range(asked') \cup Later'
      <4> SUFFICES ASSUME NEW j \in (first + CheckpointSize)..Len(missing)
                   PROVE  missing[j] \in Range(asked') \cup Later'
        BY DEF Later
      <4>0. j \in first'..Len(missing') /\ missing'[j] = missing[j]
        BY <1>1
      <4>1. CASE j < first' + CheckpointSize
        BY <1>2, <3>1, <4>0, <4>1, SubBatchIs
      <4>2. CASE ~(j < first' + CheckpointSize)
        <5>1. j \in (first' + CheckpointSize)..Len(missing')
          BY <1>2, <4>0, <4>2, SizeIs
        <5> QED BY <4>0, <5>1 DEF Later
      <4> QED BY <4>1, <4>2
    <3> QED BY <1>1, <1>3, <3>1, <3>2, <3>3 DEF PreparedInv, Asking
  <2>2. CASE ~(first' <= Len(missing))
    <3>1. Later = {}
      <4>1. first \in Nat /\ missing \in Seq(ChunkId)
        BY DEF ExtractionTyped
      <4>2. ~(first + CheckpointSize <= Len(missing))
        BY <1>1, <2>2
      <4>3. Len(missing) \in Nat
        BY <4>1
      <4>4. (first + CheckpointSize)..Len(missing) = {}
        BY <4>1, <4>2, <4>3, SizeIs
      <4> QED BY <4>4 DEF Later
    <3>2. CASE failures' # <<>>
      <4>1. xphase' = "second pass" /\ asked' = failures'
        BY <1>1, <2>2, <3>2 DEF Ask
      <4> QED BY <1>1, <1>3, <3>1, <4>1 DEF PreparedInv, Asking
    <3>3. CASE failures' = <<>>
      <4>0. Range(<<>>) = {}
        BY DEF Range
      <4>1. xphase' = "ready" /\ asked' = <<>> /\ Range(failures') = {}
        BY <1>1, <2>2, <3>3, <4>0 DEF Ask
      <4> QED BY <1>1, <1>3, <3>1, <4>1 DEF PreparedInv, Asking
    <3> QED BY <3>2, <3>3
  <2> QED BY <2>1, <2>2
<1> QED BY <1>6, <1>7, <1>8

LEMMA KeepSecondPassInv ==
    ASSUME NEW ChunkId, ExtractionInv(ChunkId), KeepSecondPass
    PROVE  ExtractionInv(ChunkId)'
<1> USE DEF ExtractionInv
<1>1. /\ xphase = "second pass" /\ BatchOver
      /\ cache' = cache \cup Range(ChunksWith("ok"))
      /\ xphase' = IF ChunksWith("failed") # <<>> THEN "raised" ELSE "ready"
      /\ Ask(<<>>)
      /\ UNCHANGED <<prepared, missing, first, failures, paid>>
  BY DEF KeepSecondPass
<1>2. /\ Range(ChunksWith("ok")) = With("ok")
      /\ ChunksWith("failed") = <<>> => With("failed") = {}
  BY ChunksAre DEF Range
<1>3. <<>> \in Seq(ChunkId)
  OBVIOUS
<1>4. /\ asked' = <<>> /\ slots' \in [DOMAIN asked' -> [stage : Stages, tries : Nat]]
      /\ With("ok")' = {}
  BY <1>1, <1>3, AskIs
<1>5. ExtractionTyped(ChunkId)'
  BY <1>1, <1>3, <1>4 DEF ExtractionTyped
<1>6. PaidInv'
  BY <1>1, <1>2, <1>4 DEF PaidInv
<1>7. PreparedInv'
  BY <1>1, <1>2, <1>4, BatchSplits DEF PreparedInv, Asking
<1> QED BY <1>5, <1>6, <1>7

LEMMA KillInv ==
    ASSUME NEW ChunkId, ExtractionInv(ChunkId), Kill PROVE ExtractionInv(ChunkId)'
<1> USE DEF ExtractionInv
<1>1. /\ xphase' = "idle" /\ prepared' = <<>> /\ missing' = <<>> /\ first' = 1 /\ failures' = <<>>
      /\ Ask(<<>>) /\ paid' = paid \cap cache /\ cache' = cache
  BY DEF Kill
<1>2. <<>> \in Seq(ChunkId)
  OBVIOUS
<1>3. /\ asked' = <<>> /\ slots' \in [DOMAIN asked' -> [stage : Stages, tries : Nat]]
      /\ With("ok")' = {}
  BY <1>1, <1>2, AskIs
<1>4. ExtractionTyped(ChunkId)'
  <2>1. 1 \in Nat \ {0}
    OBVIOUS
  <2> QED BY <1>1, <1>2, <1>3, <2>1 DEF ExtractionTyped
<1>5. PaidInv'
  BY <1>1, <1>3 DEF PaidInv
<1>6. PreparedInv'
  BY <1>1, <1>3 DEF PreparedInv, Asking
<1> QED BY <1>4, <1>5, <1>6

(* A kill costs what is being asked for and nothing before it; an insert   *)
(* goes on only with all its chunks in the cache, and one that gives up    *)
(* has kept everything the model answered for.  Whatever chunks are        *)
(* inserted one after the other, however long they are and however calls   *)
(* end, for every batch size, limit and number of attempts.                *)
THEOREM CacheAlwaysTrue ==
    ASSUME NEW CONSTANT ChunkId
    PROVE  ExtractionSpec(ChunkId) => []CacheIsTrue
<1>1. ExtractionInit => ExtractionInv(ChunkId)
  BY ExtractionStarts
<1>2. ExtractionInv(ChunkId) /\ [ExtractionNext(ChunkId)]_extraction => ExtractionInv(ChunkId)'
  <2> SUFFICES ASSUME ExtractionInv(ChunkId), [ExtractionNext(ChunkId)]_extraction
               PROVE  ExtractionInv(ChunkId)'
    OBVIOUS
  <2>1. CASE UNCHANGED extraction
    BY <2>1, ZenonT(40) DEF extraction, ExtractionInv, ExtractionTyped, PaidInv, PreparedInv, With, Asking, Later
  <2>2. CASE \E chunks \in Seq(ChunkId) : BeginExtraction(chunks)
    BY <2>2, BeginInv
  <2>3. CASE Extract
    BY <2>3, CallInv, KeepSubBatchInv, KeepSecondPassInv DEF Extract
  <2>4. CASE Kill
    BY <2>4, KillInv
  <2> QED BY <2>1, <2>2, <2>3, <2>4 DEF ExtractionNext
<1>3. ExtractionInv(ChunkId) => CacheIsTrue
  <2> SUFFICES ASSUME ExtractionInv(ChunkId) PROVE CacheIsTrue
    OBVIOUS
  <2>1. With("ok") \subseteq Range(asked)
    BY DEF With, Range, ExtractionInv, ExtractionTyped
  <2>2. ASSUME ~Asking PROVE With("ok") = {}
    <3>1. asked = <<>> /\ DOMAIN slots = DOMAIN asked
      BY <2>2 DEF ExtractionInv, ExtractionTyped, PreparedInv
    <3> QED BY <3>1 DEF With
  <2> QED BY <2>1, <2>2 DEF CacheIsTrue, ExtractionInv, PaidInv, PreparedInv, Asking
<1> QED BY <1>1, <1>2, <1>3, PTL DEF ExtractionSpec

----------------------------------------------------------------------------
(* Embedding.  The parts still to send follow each other, and the first of *)
(* them follows the rows.                                                  *)

Weighted(Text) == [text : Text, tokens : Nat]

EmbeddingTyped(Text) ==
    /\ texts \in Seq(Weighted(Text))
    /\ rows \in Seq([text : Text, sent : Nat])
    /\ pending \in Seq([first : Nat, last : Nat])
    /\ request \in [dimensions : BOOLEAN, budget : Nat, again : BOOLEAN]
    /\ ephase # "idle" => provider \in Providers

RowsInv ==
    /\ Len(rows) <= Len(texts)
    /\ \A i \in 1..Len(rows) : rows[i].text = texts[i].text
    /\ ephase = "embedded" => Len(rows) = Len(texts)

PendingInv ==
    Sending =>
        /\ pending # <<>>
        /\ From = Len(rows) + 1
        /\ \A k \in DOMAIN pending :
              pending[k].first <= pending[k].last /\ pending[k].last <= Len(texts)
        /\ \A k \in DOMAIN pending \ {1} : pending[k].first = pending[k - 1].last + 1

RefusedInv ==
    ephase = "refused" => \E i \in DOMAIN texts : texts[i].tokens > provider.tokens

EmbeddingInv(Text) == EmbeddingTyped(Text) /\ RowsInv /\ PendingInv /\ RefusedInv

LEMMA LastOfIs ==
    ASSUME NEW S, NEW ts \in Seq(S), NEW i \in 1..Len(ts)
    PROVE  LastOf(ts, i) \in i..Len(ts)
<1> DEFINE ends == {j \in i..Len(ts) : j = i \/ (j - i < BatchItems
                                                /\ Weight(SubSeq(ts, i, j)) <= BatchTokens)}
<1>1. Len(ts) \in Nat /\ i \in ends /\ ends \in SUBSET (0..Len(ts))
  <2>1. Len(ts) \in Nat
    OBVIOUS
  <2>2. i \in i..Len(ts) /\ i..Len(ts) \subseteq 0..Len(ts)
    BY <2>1
  <2>3. i \in ends
    BY <2>2
  <2> QED BY <2>1, <2>2, <2>3
<1>2. Max(ends) \in ends
  BY <1>1, Greatest
<1>3. LastOf(ts, i) = Max(ends)
  BY DEF LastOf
<1> QED BY <1>2, <1>3

(* The next batch starts where the one before it ended.                    *)
LEMMA BatchesAre ==
    ASSUME NEW S, NEW ts \in Seq(S), NEW i \in 1..(Len(ts) + 1)
    PROVE  /\ BatchesFrom(ts, i) \in Seq([first : Nat, last : Nat])
           /\ BatchesFrom(ts, i) = <<>> <=> i = Len(ts) + 1
           /\ BatchesFrom(ts, i) # <<>> =>
                 /\ DOMAIN BatchesFrom(ts, i) = {1}
                 /\ BatchesFrom(ts, i)[1].first = i
                 /\ i <= BatchesFrom(ts, i)[1].last /\ BatchesFrom(ts, i)[1].last <= Len(ts)
<1>0. Len(ts) \in Nat /\ i \in Nat
  OBVIOUS
<1>1. CASE i > Len(ts)
  <2>1. BatchesFrom(ts, i) = <<>> /\ i = Len(ts) + 1
    BY <1>0, <1>1 DEF BatchesFrom
  <2> QED BY <2>1
<1>2. CASE ~(i > Len(ts))
  <2>1. i \in 1..Len(ts) /\ i # Len(ts) + 1
    BY <1>0, <1>2
  <2>2. LastOf(ts, i) \in i..Len(ts)
    BY <2>1, LastOfIs
  <2>3. BatchesFrom(ts, i) = <<Part(i, LastOf(ts, i))>>
    BY <1>2 DEF BatchesFrom
  <2>4. LastOf(ts, i) \in Nat
    BY <1>0, <2>2
  <2>5. Part(i, LastOf(ts, i)) \in [first : Nat, last : Nat]
        /\ Part(i, LastOf(ts, i)).first = i /\ Part(i, LastOf(ts, i)).last = LastOf(ts, i)
    BY <1>0, <2>4 DEF Part
  <2> DEFINE p == Part(i, LastOf(ts, i))
  <2>6. <<p>> \in Seq([first : Nat, last : Nat]) /\ <<p>> # <<>> /\ DOMAIN <<p>> = {1} /\ <<p>>[1] = p
    BY <2>5
  <2> HIDE DEF p
  <2>7. BatchesFrom(ts, i) = <<p>>
    BY <2>3 DEF p
  <2>8. p.first = i /\ i <= p.last /\ p.last <= Len(ts)
    BY <1>0, <2>2, <2>5 DEF p
  <2> QED BY <2>1, <2>6, <2>7, <2>8
<1> QED BY <1>1, <1>2

LEMMA FreshIs == Fresh \in [dimensions : BOOLEAN, budget : Nat, again : BOOLEAN]
BY EmbeddingAssumption DEF Fresh

LEMMA EmbeddingStarts == ASSUME NEW Text, EmbeddingInit PROVE EmbeddingInv(Text)
<1>1. texts = <<>> /\ rows = <<>> /\ pending = <<>> /\ ephase = "idle" /\ request = Fresh
  BY DEF EmbeddingInit
<1>2. Len(<<>>) = 0 /\ \A S : <<>> \in Seq(S)
  OBVIOUS
<1> QED BY <1>1, <1>2, FreshIs DEF EmbeddingInv, EmbeddingTyped, RowsInv, PendingInv, RefusedInv,
                                    Sending

LEMMA BeginEmbeddingInv ==
    ASSUME NEW Text, EmbeddingInv(Text), NEW ts \in Seq(Weighted(Text)), BeginEmbedding(ts)
    PROVE  EmbeddingInv(Text)'
<1>1. /\ texts' = ts /\ pending' = BatchesFrom(ts, 1) /\ rows' = <<>> /\ request' = Fresh
      /\ ephase' = IF pending' = <<>> THEN "embedded" ELSE "sending"
      /\ provider' \in Providers
  BY DEF BeginEmbedding
<1>2. Len(ts) \in Nat /\ 1 \in 1..(Len(ts) + 1) /\ Len(<<>>) = 0 /\ (\A S : <<>> \in Seq(S))
      /\ 1..0 = {}
  OBVIOUS
<1>3. /\ BatchesFrom(ts, 1) \in Seq([first : Nat, last : Nat])
      /\ BatchesFrom(ts, 1) = <<>> <=> 1 = Len(ts) + 1
      /\ BatchesFrom(ts, 1) # <<>> =>
            /\ DOMAIN BatchesFrom(ts, 1) = {1} /\ BatchesFrom(ts, 1)[1].first = 1
            /\ 1 <= BatchesFrom(ts, 1)[1].last /\ BatchesFrom(ts, 1)[1].last <= Len(ts)
  BY <1>2, BatchesAre
<1>4. EmbeddingTyped(Text)'
  BY <1>1, <1>2, <1>3, FreshIs DEF EmbeddingTyped
<1>5. RowsInv'
  <2>1. Len(rows') = 0 /\ Len(texts') = Len(ts) /\ (pending' = <<>> => Len(ts) = 0)
    BY <1>1, <1>2, <1>3
  <2> QED BY <1>1, <1>2, <2>1 DEF RowsInv
<1>6. PendingInv'
  <2>1. pending' # <<>> => Head(pending') = pending'[1]
    OBVIOUS
  <2> QED BY <1>1, <1>2, <1>3, <2>1 DEF PendingInv, Sending, From
<1> QED BY <1>1, <1>4, <1>5, <1>6 DEF EmbeddingInv, RefusedInv

(* The batch at hand is the texts after the last row.                      *)
LEMMA BatchIs ==
    ASSUME NEW Text, EmbeddingInv(Text), Sending
    PROVE  /\ From \in Nat /\ To \in Nat /\ From = Len(rows) + 1 /\ From <= To /\ To <= Len(texts)
           /\ From = pending[1].first /\ To = pending[1].last /\ Len(pending) \in Nat \ {0}
           /\ Batch \in Seq(Weighted(Text)) /\ Len(Batch) = To - From + 1
           /\ \A i \in 1..(To - From + 1) : Batch[i] = texts[From + i - 1]
           /\ Len(rows) \in Nat /\ Len(texts) \in Nat
<1>1. /\ texts \in Seq(Weighted(Text)) /\ pending \in Seq([first : Nat, last : Nat])
      /\ pending # <<>> /\ From = Len(rows) + 1
      /\ rows \in Seq([text : Text, sent : Nat])
  BY DEF EmbeddingInv, EmbeddingTyped, PendingInv
<1>2. /\ Head(pending) = pending[1] /\ 1 \in DOMAIN pending
      /\ pending[1] \in [first : Nat, last : Nat] /\ Len(pending) \in Nat \ {0}
      /\ Len(rows) \in Nat /\ Len(texts) \in Nat
  <2>1. Len(pending) \in Nat \ {0}
    BY <1>1, EmptySeq
  <2>2. Head(pending) = pending[1] /\ 1 \in DOMAIN pending
    <3>1. DOMAIN pending = 1..Len(pending) /\ 1 \in 1..Len(pending)
      BY <1>1, <2>1
    <3> QED BY <3>1, <1>1
  <2>3. pending[1] \in [first : Nat, last : Nat]
    <3>1. Head(pending) \in [first : Nat, last : Nat]
      BY <1>1, HeadTailProperties
    <3> QED BY <2>2, <3>1
  <2>4. Len(rows) \in Nat /\ Len(texts) \in Nat
    BY <1>1
  <2> QED BY <2>1, <2>2, <2>3, <2>4
<1>3. /\ From = pending[1].first /\ To = pending[1].last /\ From \in Nat /\ To \in Nat
      /\ From <= To /\ To <= Len(texts)
  BY <1>2 DEF From, To, EmbeddingInv, PendingInv
<1>4. \A i \in From..To : texts[i] \in Weighted(Text)
  BY <1>1, <1>2, <1>3
<1>5. /\ Batch \in Seq(Weighted(Text)) /\ Len(Batch) = To - From + 1
      /\ \A i \in 1..(To - From + 1) : Batch[i] = texts[From + i - 1]
  BY <1>3, <1>4, SubSeqProperties, SMTT(40) DEF Batch
<1> QED BY <1>1, <1>2, <1>3, <1>5

LEMMA SentIs ==
    ASSUME NEW Text, EmbeddingInv(Text), NEW t \in Weighted(Text)
    PROVE  Sent(t) \in Nat /\ Sent(t) <= t.tokens
<1>1. request.budget \in Nat /\ t.tokens \in Nat
  BY DEF EmbeddingInv, EmbeddingTyped, Weighted
<1> QED BY <1>1 DEF Sent

(* What a request leaves alone. *)
LEMMA RequestChanged ==
    ASSUME NEW Text, EmbeddingInv(Text), Sending,
           UNCHANGED <<ephase, texts, pending, provider, rows>>,
           request' \in [dimensions : BOOLEAN, budget : Nat, again : BOOLEAN]
    PROVE  EmbeddingInv(Text)'
BY DEF EmbeddingInv, EmbeddingTyped, RowsInv, PendingInv, RefusedInv, Sending, From

LEMMA AcceptedInv ==
    ASSUME NEW Text, EmbeddingInv(Text), Accepted PROVE EmbeddingInv(Text)'
<1> DEFINE n == To - From + 1
           new == [i \in DOMAIN Batch |-> [text |-> Batch[i].text, sent |-> Sent(Batch[i])]]
           Row == [text : Text, sent : Nat]
<1>0. Sending /\ ephase # "idle"
  BY DEF Accepted, Sending
<1>1. /\ From \in Nat /\ To \in Nat /\ From = Len(rows) + 1 /\ From <= To /\ To <= Len(texts)
      /\ From = pending[1].first /\ To = pending[1].last /\ Len(pending) \in Nat \ {0}
      /\ Batch \in Seq(Weighted(Text)) /\ Len(Batch) = n
      /\ \A i \in 1..n : Batch[i] = texts[From + i - 1]
      /\ Len(rows) \in Nat /\ Len(texts) \in Nat
  BY <1>0, BatchIs
<1>2. /\ rows' = rows \o new
      /\ pending' = IF Len(pending) > 1 THEN Tail(pending) ELSE BatchesFrom(texts, To + 1)
      /\ request' = Fresh /\ texts' = texts /\ provider' = provider
      /\ ephase' = IF pending' = <<>> THEN "embedded" ELSE "sending"
  BY DEF Accepted
<1>3. /\ texts \in Seq(Weighted(Text)) /\ rows \in Seq(Row)
      /\ pending \in Seq([first : Nat, last : Nat]) /\ provider \in Providers
  BY <1>0 DEF EmbeddingInv, EmbeddingTyped
<1>4. /\ new \in Seq(Row) /\ Len(new) = n
      /\ \A i \in 1..n : new[i].text = texts[From + i - 1].text
  <2>1. DOMAIN Batch = 1..n /\ n \in Nat
    BY <1>1
  <2>2. ASSUME NEW i \in 1..n
        PROVE  /\ [text |-> Batch[i].text, sent |-> Sent(Batch[i])] \in Row
               /\ Batch[i].text = texts[From + i - 1].text
    <3>1. Batch[i] \in Weighted(Text) /\ Batch[i] = texts[From + i - 1]
      BY <1>1, <2>1
    <3>2. Sent(Batch[i]) \in Nat /\ Batch[i].text \in Text
      BY <3>1, SentIs DEF Weighted
    <3> QED BY <3>1, <3>2
  <2>3. new \in [1..n -> Row]
    BY <2>1, <2>2
  <2>4. new \in Seq(Row) /\ Len(new) = n
    <3> HIDE DEF new, n, Row
    <3> QED BY <2>1, <2>3
  <2>5. \A i \in 1..n : new[i].text = Batch[i].text
    BY <2>1
  <2> QED BY <2>2, <2>4, <2>5
<1> HIDE DEF new
<1>5. /\ rows' \in Seq(Row) /\ Len(rows') = To
      /\ \A i \in 1..Len(rows) : rows'[i] = rows[i]
      /\ \A i \in 1..n : rows'[Len(rows) + i] = new[i]
  <2>1. /\ rows \o new \in Seq(Row) /\ Len(rows \o new) = Len(rows) + n
        /\ \A i \in 1..(Len(rows) + n) :
              (rows \o new)[i] = IF i <= Len(rows) THEN rows[i] ELSE new[i - Len(rows)]
    <3> HIDE DEF Row, n
    <3> QED BY <1>3, <1>4, ConcatProperties
  <2>2. n \in Nat /\ Len(rows) + n = To
    <3>1. /\ From \in Nat /\ To \in Nat /\ From = Len(rows) + 1 /\ From <= To
          /\ Len(rows) \in Nat
      BY <1>1
    <3> QED BY <3>1
  <2> HIDE DEF n, Row
  <2>3. ASSUME NEW i \in 1..Len(rows) PROVE i \in 1..(Len(rows) + n) /\ i <= Len(rows)
    BY <1>1, <2>2
  <2>4. ASSUME NEW i \in 1..n
        PROVE  /\ Len(rows) + i \in 1..(Len(rows) + n) /\ ~(Len(rows) + i <= Len(rows))
               /\ (Len(rows) + i) - Len(rows) = i
    BY <1>1, <2>2
  <2> QED BY <1>2, <2>1, <2>2, <2>3, <2>4
<1>6. \A i \in 1..To : rows'[i].text = texts[i].text
  <2>1. ASSUME NEW i \in 1..To PROVE rows'[i].text = texts[i].text
    <3>1. CASE i <= Len(rows)
      <4>1. i \in 1..Len(rows)
        BY <1>1, <3>1
      <4>2. rows[i].text = texts[i].text
        BY <4>1 DEF EmbeddingInv, RowsInv
      <4> QED BY <1>5, <4>1, <4>2
    <3>2. CASE ~(i <= Len(rows))
      <4> DEFINE k == i - Len(rows)
      <4>1. k \in 1..n /\ Len(rows) + k = i /\ From + k - 1 = i
        BY <1>1, <3>2
      <4>2. rows'[Len(rows) + k] = new[k] /\ new[k].text = texts[From + k - 1].text
        BY <1>4, <1>5, <4>1
      <4> QED BY <4>1, <4>2
    <3> QED BY <3>1, <3>2
  <2> QED BY <2>1
<1>7. /\ pending' \in Seq([first : Nat, last : Nat])
      /\ pending' = <<>> => To = Len(texts)
      /\ pending' # <<>> =>
            /\ Head(pending').first = To + 1
            /\ \A k \in DOMAIN pending' :
                  pending'[k].first <= pending'[k].last /\ pending'[k].last <= Len(texts)
            /\ \A k \in DOMAIN pending' \ {1} : pending'[k].first = pending'[k - 1].last + 1
  <2>1. CASE Len(pending) > 1
    <3>1. /\ pending' = Tail(pending) /\ pending # <<>>
      BY <1>2, <2>1
    <3>2. /\ Tail(pending) \in Seq([first : Nat, last : Nat])
          /\ Len(Tail(pending)) = Len(pending) - 1
          /\ \A k \in 1..(Len(pending) - 1) : Tail(pending)[k] = pending[k + 1]
      BY <1>3, <3>1, HeadTailProperties
    <3>3. DOMAIN pending = 1..Len(pending) /\ DOMAIN Tail(pending) = 1..(Len(pending) - 1)
      BY <1>3, <3>2
    <3>4. Tail(pending) # <<>> /\ Head(Tail(pending)) = pending[2]
      <4>0. Len(pending) - 1 \in Nat /\ Len(pending) - 1 >= 1
        BY <1>1, <2>1
      <4>1. Len(Tail(pending)) # 0 /\ 1 \in 1..(Len(pending) - 1) /\ 1 + 1 = 2
        BY <3>2, <4>0
      <4>2. Head(Tail(pending)) = Tail(pending)[1] /\ Tail(pending)[1] = pending[2]
        BY <3>2, <4>1
      <4> QED BY <3>2, <4>1, <4>2, EmptySeq
    <3>5. /\ \A k \in DOMAIN pending :
                pending[k].first <= pending[k].last /\ pending[k].last <= Len(texts)
          /\ \A k \in DOMAIN pending \ {1} : pending[k].first = pending[k - 1].last + 1
      BY <1>0 DEF EmbeddingInv, PendingInv
    <3>6. 2 \in 1..Len(pending) /\ 2 - 1 = 1 /\ 2 # 1
      BY <1>1, <2>1
    <3>7. pending[2].first = To + 1
      BY <1>1, <3>3, <3>5, <3>6
    <3>8. ASSUME NEW k \in 1..(Len(pending) - 1)
          PROVE  k + 1 \in 1..Len(pending) /\ k + 1 # 1 /\ (k + 1) - 1 = k
      BY <1>1
    <3>9. ASSUME NEW k \in 1..(Len(pending) - 1), k # 1
          PROVE  k - 1 \in 1..(Len(pending) - 1) /\ (k - 1) + 1 = k
      BY <1>1, <3>9
    <3>10. ASSUME NEW k \in 1..(Len(pending) - 1)
           PROVE  /\ Tail(pending)[k].first <= Tail(pending)[k].last
                  /\ Tail(pending)[k].last <= Len(texts)
      BY <3>2, <3>3, <3>5, <3>8
    <3>11. ASSUME NEW k \in 1..(Len(pending) - 1), k # 1
           PROVE  Tail(pending)[k].first = Tail(pending)[k - 1].last + 1
      <4>1. Tail(pending)[k] = pending[k + 1] /\ Tail(pending)[k - 1] = pending[k]
        BY <3>2, <3>9, <3>11
      <4>2. pending[k + 1].first = pending[k].last + 1
        BY <3>3, <3>5, <3>8
      <4> QED BY <4>1, <4>2
    <3> QED BY <3>1, <3>2, <3>3, <3>4, <3>7, <3>10, <3>11
  <2>2. CASE ~(Len(pending) > 1)
    <3>1. pending' = BatchesFrom(texts, To + 1) /\ To + 1 \in 1..(Len(texts) + 1)
      BY <1>1, <1>2, <2>2
    <3> DEFINE next == BatchesFrom(texts, To + 1)
    <3>2. /\ next \in Seq([first : Nat, last : Nat])
          /\ next = <<>> <=> To + 1 = Len(texts) + 1
          /\ next # <<>> =>
                /\ DOMAIN next = {1} /\ next[1].first = To + 1
                /\ To + 1 <= next[1].last /\ next[1].last <= Len(texts)
      BY <1>3, <3>1, BatchesAre
    <3> HIDE DEF next
    <3>3. next # <<>> => Head(next) = next[1]
      OBVIOUS
    <3>4. To + 1 = Len(texts) + 1 => To = Len(texts)
      BY <1>1
    <3>5. pending' = next
      BY <3>1 DEF next
    <3> QED BY <3>2, <3>3, <3>4, <3>5
  <2> QED BY <2>1, <2>2
<1>8. EmbeddingTyped(Text)'
  BY <1>2, <1>3, <1>5, <1>7, FreshIs DEF EmbeddingTyped
<1>9. RowsInv'
  <2>1. Len(texts') = Len(texts) /\ (ephase' = "embedded" => pending' = <<>>)
    BY <1>2
  <2> QED BY <1>1, <1>2, <1>5, <1>6, <1>7, <2>1 DEF RowsInv
<1>10. PendingInv'
  <2>1. (ephase' = "sending" => pending' # <<>>) /\ Len(rows') + 1 = To + 1
    BY <1>1, <1>2, <1>5
  <2> QED BY <1>2, <1>7, <2>1 DEF PendingInv, Sending, From
<1> QED BY <1>2, <1>8, <1>9, <1>10 DEF EmbeddingInv, RefusedInv

LEMMA BisectInv ==
    ASSUME NEW Text, EmbeddingInv(Text), Bisect PROVE EmbeddingInv(Text)'
<1> DEFINE n == Len(Batch)
           mid == From + n \div 2
           halves == <<Part(From, mid - 1), Part(mid, To)>>
           P == [first : Nat, last : Nat]
<1>0. Sending /\ ephase # "idle"
  BY DEF Bisect, Refused, Sending
<1>1. /\ From \in Nat /\ To \in Nat /\ From = Len(rows) + 1 /\ To <= Len(texts)
      /\ n = To - From + 1 /\ From = pending[1].first /\ To = pending[1].last
      /\ Len(pending) \in Nat \ {0} /\ Len(rows) \in Nat /\ Len(texts) \in Nat
  BY <1>0, BatchIs
<1>2. n > 1 /\ pending' = halves \o Tail(pending) /\ request' = Fresh
      /\ UNCHANGED <<ephase, texts, provider, rows>>
  BY DEF Bisect
<1>3. mid \in Nat /\ From <= mid - 1 /\ mid <= To /\ mid - 1 \in Nat /\ mid - 1 <= Len(texts)
  <2>0. From \in Nat /\ To \in Nat /\ Len(texts) \in Nat /\ To <= Len(texts) /\ n = To - From + 1 /\ n > 1
    BY <1>1, <1>2
  <2> HIDE DEF n
  <2>1. n \in Nat /\ n \div 2 \in Nat /\ 1 <= n \div 2 /\ n \div 2 <= n - 1
    <3>1. n \in Nat /\ n > 1
      BY <2>0
    <3> QED BY <3>1
  <2> DEFINE h == n \div 2
  <2>2. h \in Nat /\ 1 <= h /\ h <= n - 1 /\ mid = From + h
    BY <2>1
  <2> HIDE DEF h, mid
  <2> QED BY <2>0, <2>1, <2>2
<1>4. /\ halves \in Seq(P) /\ Len(halves) = 2
      /\ halves[1].first = From /\ halves[1].last = mid - 1
      /\ halves[2].first = mid /\ halves[2].last = To
  <2>1. /\ Part(From, mid - 1) \in P /\ Part(mid, To) \in P
        /\ Part(From, mid - 1).first = From /\ Part(From, mid - 1).last = mid - 1
        /\ Part(mid, To).first = mid /\ Part(mid, To).last = To
    BY <1>1, <1>3 DEF Part
  <2> QED BY <2>1
<1>5. /\ pending \in Seq(P) /\ pending # <<>>
      /\ \A k \in DOMAIN pending :
            pending[k].first <= pending[k].last /\ pending[k].last <= Len(texts)
      /\ \A k \in DOMAIN pending \ {1} : pending[k].first = pending[k - 1].last + 1
  BY <1>0 DEF EmbeddingInv, EmbeddingTyped, PendingInv
<1> HIDE DEF halves, mid, n
<1>6. /\ Tail(pending) \in Seq(P) /\ Len(Tail(pending)) = Len(pending) - 1
      /\ \A k \in 1..(Len(pending) - 1) : Tail(pending)[k] = pending[k + 1]
  BY <1>5, HeadTailProperties
<1>7. /\ pending' \in Seq(P) /\ Len(pending') = Len(pending) + 1
      /\ pending'[1] = halves[1] /\ pending'[2] = halves[2]
      /\ \A k \in 3..(Len(pending) + 1) : pending'[k] = pending[k - 1]
  <2>1. 2 + (Len(pending) - 1) = Len(pending) + 1
    BY <1>1
  <2>2. /\ halves \o Tail(pending) \in Seq(P)
        /\ Len(halves \o Tail(pending)) = Len(halves) + Len(Tail(pending))
        /\ \A i \in 1..(Len(halves) + Len(Tail(pending))) :
              (halves \o Tail(pending))[i] =
                  IF i <= Len(halves) THEN halves[i] ELSE Tail(pending)[i - Len(halves)]
    BY <1>4, <1>6, ConcatProperties
  <2>3. \A i \in 1..(Len(pending) + 1) :
           pending'[i] = IF i <= 2 THEN halves[i] ELSE Tail(pending)[i - 2]
    BY <1>2, <1>4, <1>6, <2>1, <2>2
  <2>4. 1 \in 1..(Len(pending) + 1) /\ 2 \in 1..(Len(pending) + 1) /\ 1 <= 2 /\ 2 <= 2
    BY <1>1
  <2>5. ASSUME NEW k \in 3..(Len(pending) + 1)
        PROVE  /\ k \in 1..(Len(pending) + 1) /\ ~(k <= 2)
               /\ k - 2 \in 1..(Len(pending) - 1) /\ (k - 2) + 1 = k - 1
    BY <1>1
  <2>6. ASSUME NEW k \in 3..(Len(pending) + 1) PROVE pending'[k] = pending[k - 1]
    <3>1. pending'[k] = Tail(pending)[k - 2]
      BY <2>3, <2>5
    <3>2. Tail(pending)[k - 2] = pending[k - 1]
      BY <1>6, <2>5
    <3> QED BY <3>1, <3>2
  <2> QED BY <1>2, <1>4, <1>6, <2>1, <2>2, <2>3, <2>4, <2>6
<1>8. /\ DOMAIN pending' = 1..(Len(pending) + 1) /\ DOMAIN pending = 1..Len(pending)
      /\ pending' # <<>> /\ Head(pending') = pending'[1]
  <2>1. Len(pending') # 0
    BY <1>1, <1>7
  <2>2. pending' # <<>>
    BY <1>7, <2>1, EmptySeq
  <2> QED BY <1>5, <1>7, <2>2
<1>9. ASSUME NEW k \in DOMAIN pending'
      PROVE  pending'[k].first <= pending'[k].last /\ pending'[k].last <= Len(texts)
  <2>1. k = 1 \/ k = 2 \/ (k \in 3..(Len(pending) + 1) /\ k - 1 \in 1..Len(pending))
    BY <1>1, <1>8, SMTT(40)
  <2>2. CASE k \in 3..(Len(pending) + 1) /\ k - 1 \in 1..Len(pending)
    BY <1>5, <1>7, <1>8, <2>2
  <2>3. CASE k = 1
    BY <1>3, <1>4, <1>7, <2>3
  <2>4. CASE k = 2
    BY <1>1, <1>3, <1>4, <1>7, <2>4
  <2> QED BY <2>1, <2>2, <2>3, <2>4
<1>10. ASSUME NEW k \in DOMAIN pending' \ {1}
       PROVE  pending'[k].first = pending'[k - 1].last + 1
  <2>1. \/ k = 2 /\ k - 1 = 1
        \/ k = 3 /\ 3 \in 3..(Len(pending) + 1) /\ k - 1 = 2 /\ 2 \in 1..Len(pending)
        \/ /\ k \in 3..(Len(pending) + 1) /\ k - 1 \in 3..(Len(pending) + 1)
           /\ k - 1 \in 1..Len(pending) /\ k - 1 # 1
    BY <1>1, <1>8, SMTT(40)
  <2>2. CASE k = 2 /\ k - 1 = 1
    <3>1. (mid - 1) + 1 = mid
      BY <1>3
    <3> QED BY <1>4, <1>7, <2>2, <3>1
  <2>3. CASE k = 3 /\ 3 \in 3..(Len(pending) + 1) /\ k - 1 = 2 /\ 2 \in 1..Len(pending)
    <3>1. pending'[3] = pending[2] /\ pending'[2].last = To
      BY <1>4, <1>7, <2>3
    <3>2. 2 \in DOMAIN pending \ {1} /\ 2 - 1 = 1
      BY <1>8, <2>3
    <3>3. pending[2].first = pending[1].last + 1
      BY <1>5, <3>2
    <3> QED BY <1>1, <2>3, <3>1, <3>3
  <2>4. CASE /\ k \in 3..(Len(pending) + 1) /\ k - 1 \in 3..(Len(pending) + 1)
             /\ k - 1 \in 1..Len(pending) /\ k - 1 # 1
    <3>1. pending'[k] = pending[k - 1] /\ pending'[k - 1] = pending[(k - 1) - 1]
      BY <1>7, <2>4
    <3>2. pending[k - 1].first = pending[(k - 1) - 1].last + 1
      BY <1>5, <1>8, <2>4
    <3> QED BY <3>1, <3>2
  <2> QED BY <2>1, <2>2, <2>3, <2>4
<1>11. EmbeddingTyped(Text)'
  BY <1>0, <1>2, <1>7, FreshIs DEF EmbeddingInv, EmbeddingTyped
<1>12. PendingInv'
  BY <1>1, <1>2, <1>4, <1>7, <1>8, <1>9, <1>10 DEF PendingInv, From
<1> QED BY <1>2, <1>11, <1>12 DEF EmbeddingInv, RowsInv, RefusedInv

(* A text refused by itself is one the provider would not take whole.      *)
LEMMA RefusedAloneInv ==
    ASSUME NEW Text, EmbeddingInv(Text), RefusedAlone PROVE EmbeddingInv(Text)'
<1>1. /\ Sending /\ ephase # "idle" /\ TooMuch /\ Len(Batch) = 1 /\ ephase' = "refused"
      /\ UNCHANGED <<texts, pending, request, provider, rows>>
  BY DEF RefusedAlone, Refused, Sending
<1>2. /\ From \in Nat /\ To \in Nat /\ From = Len(rows) + 1 /\ From <= To /\ To <= Len(texts)
      /\ Batch \in Seq(Weighted(Text)) /\ Len(Batch) = To - From + 1
      /\ \A i \in 1..(To - From + 1) : Batch[i] = texts[From + i - 1]
      /\ Len(rows) \in Nat /\ Len(texts) \in Nat
  BY <1>1, BatchIs
<1>3. provider.items \in Nat \ {0} /\ provider.tokens \in Nat
  BY <1>1, EmbeddingAssumption DEF EmbeddingInv, EmbeddingTyped
<1>4. ~(Len(Batch) > provider.items)
  BY <1>1, <1>3
<1>5. PICK i \in DOMAIN Batch : Sent(Batch[i]) > provider.tokens
  BY <1>1, <1>4 DEF TooMuch
<1>6. i \in 1..(To - From + 1) /\ i = 1
  BY <1>1, <1>2
<1>7. Batch[i] \in Weighted(Text) /\ Batch[i] = texts[From] /\ From \in DOMAIN texts
  <2>1. From + 1 - 1 = From /\ From \in 1..Len(texts)
    BY <1>2
  <2>2. texts \in Seq(Weighted(Text))
    BY DEF EmbeddingInv, EmbeddingTyped
  <2> QED BY <1>2, <1>6, <2>1, <2>2
<1>8. Sent(Batch[i]) \in Nat /\ Sent(Batch[i]) <= Batch[i].tokens /\ Batch[i].tokens \in Nat
  BY <1>7, SentIs DEF Weighted
<1>9. Batch[i].tokens > provider.tokens
  BY <1>3, <1>5, <1>8
<1>10. RefusedInv'
  BY <1>1, <1>7, <1>9 DEF RefusedInv
<1> QED BY <1>1, <1>10 DEF EmbeddingInv, EmbeddingTyped, RowsInv, PendingInv, Sending

LEMMA EmbedInv ==
    ASSUME NEW Text, EmbeddingInv(Text), Embed PROVE EmbeddingInv(Text)'
<1>0. /\ request \in [dimensions : BOOLEAN, budget : Nat, again : BOOLEAN]
      /\ LeastBudget \in Nat /\ TokenBudget \in Nat /\ TokenBudget \div 2 \in Nat
  BY EmbeddingAssumption DEF EmbeddingInv, EmbeddingTyped
<1>1. CASE Accepted
  BY <1>1, AcceptedInv
<1>2. CASE WithoutDimensions
  BY <1>0, <1>2, RequestChanged DEF WithoutDimensions
<1>3. CASE \E scaled \in LeastBudget..TokenBudget : CutToLimit(scaled)
  <2>1. PICK scaled \in LeastBudget..TokenBudget : CutToLimit(scaled)
    BY <1>3
  <2>2. scaled \in Nat
    BY <1>0, <2>1
  <2>3. /\ Sending /\ UNCHANGED <<ephase, texts, pending, provider, rows>>
        /\ request' \in [dimensions : BOOLEAN, budget : Nat, again : BOOLEAN]
    BY <1>0, <2>1, <2>2 DEF CutToLimit, Refused
  <2> QED BY <2>3, RequestChanged
<1>4. CASE CutInHalf
  BY <1>0, <1>4, RequestChanged DEF CutInHalf, Refused
<1>5. CASE Bisect
  BY <1>5, BisectInv
<1>6. CASE RefusedAlone
  BY <1>6, RefusedAloneInv
<1>7. CASE EmbedTransientError
  <2>1. /\ Sending /\ ephase # "idle" /\ request' = Fresh /\ ephase' \in {"sending", "unavailable"}
        /\ UNCHANGED <<texts, pending, provider, rows>>
    BY <1>7 DEF EmbedTransientError, Sending
  <2> QED BY <2>1, FreshIs
          DEF EmbeddingInv, EmbeddingTyped, RowsInv, PendingInv, RefusedInv, Sending, From
<1> QED BY <1>1, <1>2, <1>3, <1>4, <1>5, <1>6, <1>7 DEF Embed

(* However the texts were batched, cut, halved and sent again, the rows    *)
(* are those of the first texts, in order, each once; in the end those of  *)
(* all.  A call for any texts, for every limit of client and provider.     *)
THEOREM RowsAlwaysFollow ==
    ASSUME NEW CONSTANT Text
    PROVE  EmbeddingSpec(Text) => []RowsFollowTexts
<1>1. EmbeddingInit => EmbeddingInv(Text)
  BY EmbeddingStarts
<1>2. EmbeddingInv(Text) /\ [EmbeddingNext(Text)]_embedding => EmbeddingInv(Text)'
  <2> SUFFICES ASSUME EmbeddingInv(Text), [EmbeddingNext(Text)]_embedding
               PROVE  EmbeddingInv(Text)'
    OBVIOUS
  <2>1. CASE UNCHANGED embedding
    BY <2>1 DEF embedding, EmbeddingInv, EmbeddingTyped, RowsInv, PendingInv, RefusedInv, Sending, From
  <2>2. CASE \E ts \in Seq([text : Text, tokens : Nat]) : BeginEmbedding(ts)
    BY <2>2, BeginEmbeddingInv DEF Weighted
  <2>3. CASE Embed
    BY <2>3, EmbedInv
  <2> QED BY <2>1, <2>2, <2>3 DEF EmbeddingNext
<1>3. EmbeddingInv(Text) => RowsFollowTexts
  <2> SUFFICES ASSUME EmbeddingInv(Text) PROVE RowsFollowTexts
    OBVIOUS
  <2>1. DOMAIN rows = 1..Len(rows)
    BY DEF EmbeddingInv, EmbeddingTyped
  <2> QED BY <2>1 DEF RowsFollowTexts, EmbeddingInv, RowsInv, RefusedInv
<1> QED BY <1>1, <1>2, <1>3, PTL DEF EmbeddingSpec

----------------------------------------------------------------------------
(* Parsing.  What is found of a document comes from the document at hand   *)
(* alone, also what the chunker reads again from its sidecar.              *)

Pcs == {"idle", "engine", "read", "submit", "poll", "fetch", "clean", "write", "chunk"}

AllParts == UNION {PartsOf(d, Holds[d]) : d \in Docs}

(* The parts may be cut into the chunks of d. *)
Own(parts, d) ==
    /\ parts # {}
    /\ parts \subseteq PartsOf(d, Holds[d])
    /\ PartsOf(d, Holds[d] \ {"tables"}) \subseteq parts

HasStatus(r) == DOMAIN r = {"status", "engine", "options"} /\ r = [x \in DOMAIN r |-> r[x]]

ParsingTyped ==
    /\ record = [d \in Docs |-> record[d]] /\ \A d \in Docs : HasStatus(record[d])
    /\ at \in [doc : Docs \cup {Nothing}, pc : Pcs]
    /\ found \in [text : SUBSET AllParts, blocks : SUBSET AllParts]
    /\ sidecar = [s \in Range(Stem) |-> sidecar[s]]
    /\ chunked = [d \in Docs |-> chunked[d]]

AtInv == at.pc # "idle" => at.doc \in Docs /\ record[at.doc].status = "parsing"

FoundInv ==
    /\ at.pc \in {"clean", "write"} => Own(found.blocks, at.doc)
    /\ at.pc = "chunk" =>
          /\ Own(found.text, at.doc)
          /\ found.blocks # {} => found.blocks = found.text /\ sidecar[Directory] = found.blocks

ParsingInv == ParsingTyped /\ AtInv /\ FoundInv /\ CutFromItsOwn

LEMMA DirectoryIs == ASSUME NEW d \in Docs PROVE Stem[d] \in Range(Stem)
BY ParsingAssumption DEF Range

LEMMA StatusSet ==
    ASSUME NEW r, NEW s, HasStatus(r)
    PROVE  HasStatus([r EXCEPT !.status = s]) /\ [r EXCEPT !.status = s].status = s
BY DEF HasStatus

(* A record gets another status. *)
LEMMA RecordIs ==
    ASSUME ParsingTyped, NEW d \in Docs, NEW s, record' = [record EXCEPT ![d].status = s]
    PROVE  /\ record' = [x \in Docs |-> record'[x]] /\ \A x \in Docs : HasStatus(record'[x])
           /\ record'[d].status = s
           /\ \A x \in Docs \ {d} : record'[x] = record[x]
<1>1. record = [x \in Docs |-> record[x]] /\ \A x \in Docs : HasStatus(record[x])
  BY DEF ParsingTyped
<1>2. record' = [x \in Docs |-> IF x = d THEN [record[d] EXCEPT !.status = s] ELSE record[x]]
  BY <1>1
<1>3. HasStatus([record[d] EXCEPT !.status = s]) /\ [record[d] EXCEPT !.status = s].status = s
  BY <1>1, StatusSet
<1> QED BY <1>1, <1>2, <1>3

LEMMA ParsingStarts == ParsingInit => ParsingInv
<1> SUFFICES ASSUME ParsingInit PROVE ParsingInv
  OBVIOUS
<1>1. /\ record = [d \in Docs |-> Absent] /\ at = Done /\ found = NoText
      /\ sidecar = [s \in Range(Stem) |-> Nothing] /\ chunked = [d \in Docs |-> {}]
  BY DEF ParsingInit
<1>2. HasStatus(Absent) /\ Absent.status = "absent"
  BY DEF HasStatus, Absent
<1>3. Done \in [doc : Docs \cup {Nothing}, pc : Pcs] /\ Done.pc = "idle"
  BY DEF Done, Pcs
<1>4. NoText \in [text : SUBSET AllParts, blocks : SUBSET AllParts]
  BY DEF NoText
<1> QED BY <1>1, <1>2, <1>3, <1>4 DEF ParsingInv, ParsingTyped, AtInv, FoundInv, CutFromItsOwn

(* The document at hand goes no further. *)
LEMMA FailsInv == ASSUME ParsingInv, at.pc # "idle", Fails PROVE ParsingInv'
<1>1. /\ at.doc \in Docs /\ record' = [record EXCEPT ![at.doc].status = "failed"]
      /\ at' = Done /\ found' = NoText /\ UNCHANGED <<sidecar, chunked>>
  BY DEF Fails, Settled, ParsingInv, AtInv
<1>2. /\ record' = [x \in Docs |-> record'[x]] /\ \A x \in Docs : HasStatus(record'[x])
      /\ record'[at.doc].status = "failed"
      /\ \A x \in Docs \ {at.doc} : record'[x] = record[x]
  BY <1>1, RecordIs DEF ParsingInv
<1>3. Done \in [doc : Docs \cup {Nothing}, pc : Pcs] /\ Done.pc = "idle"
  BY DEF Done, Pcs
<1>4. NoText \in [text : SUBSET AllParts, blocks : SUBSET AllParts]
  BY DEF NoText
<1>5. ParsingTyped'
  BY <1>1, <1>2, <1>3, <1>4 DEF ParsingInv, ParsingTyped
<1>6. CutFromItsOwn'
  BY <1>1, <1>2 DEF ParsingInv, CutFromItsOwn
<1> QED BY <1>1, <1>3, <1>5, <1>6 DEF ParsingInv, AtInv, FoundInv

(* It goes on, and with it only what was found changes. *)
LEMMA GoToIs ==
    ASSUME ParsingInv, NEW pc \in Pcs, GoTo(pc)
    PROVE  at' \in [doc : Docs \cup {Nothing}, pc : Pcs] /\ at'.pc = pc /\ at'.doc = at.doc
BY DEF GoTo, ParsingInv, ParsingTyped

LEMMA OnwardInv ==
    ASSUME ParsingInv, at.pc # "idle", NEW pc \in Pcs, GoTo(pc),
           UNCHANGED <<record, chunked>>,
           found' \in [text : SUBSET AllParts, blocks : SUBSET AllParts],
           sidecar' = [s \in Range(Stem) |-> sidecar'[s]],
           FoundInv'
    PROVE  ParsingInv'
<1>1. at' \in [doc : Docs \cup {Nothing}, pc : Pcs] /\ at'.pc = pc /\ at'.doc = at.doc
  BY GoToIs
<1>2. ParsingTyped'
  BY <1>1 DEF ParsingInv, ParsingTyped
<1> QED BY <1>1, <1>2 DEF ParsingInv, AtInv, CutFromItsOwn

LEMMA EnqueueInv ==
    ASSUME ParsingInv, NEW d \in Docs, Enqueue(d) \/ Requeue(d) PROVE ParsingInv'
<1>1. /\ record[d].status # "parsing" /\ UNCHANGED <<at, found, sidecar, chunked>>
      /\ record' = [x \in Docs |-> record'[x]] /\ \A x \in Docs : HasStatus(record'[x])
      /\ record'[d].status = "pending"
      /\ \A x \in Docs \ {d} : record'[x] = record[x]
  <2>1. CASE Enqueue(d)
    <3> DEFINE new == [status |-> "pending", engine |-> Route(d).engine, options |-> Route(d).options]
    <3>1. /\ record[d].status = "absent" /\ record' = [record EXCEPT ![d] = new]
          /\ UNCHANGED <<at, found, sidecar, chunked>>
      BY <2>1 DEF Enqueue
    <3>2. HasStatus(new) /\ new.status = "pending"
      BY DEF HasStatus
    <3>3. record = [x \in Docs |-> record[x]] /\ \A x \in Docs : HasStatus(record[x])
      BY DEF ParsingInv, ParsingTyped
    <3> HIDE DEF new
    <3> QED BY <3>1, <3>2, <3>3
  <2>2. CASE Requeue(d)
    <3>1. /\ record[d].status = "failed" /\ record' = [record EXCEPT ![d].status = "pending"]
          /\ UNCHANGED <<at, found, sidecar, chunked>>
      BY <2>2 DEF Requeue
    <3> QED BY <3>1, RecordIs DEF ParsingInv
  <2> QED BY <2>1, <2>2
<1>2. ParsingTyped'
  BY <1>1 DEF ParsingInv, ParsingTyped
<1>3. AtInv' /\ FoundInv'
  BY <1>1 DEF ParsingInv, AtInv, FoundInv, Directory
<1>4. CutFromItsOwn'
  BY <1>1 DEF ParsingInv, CutFromItsOwn
<1> QED BY <1>2, <1>3, <1>4 DEF ParsingInv

LEMMA BeginParsingInv == ASSUME ParsingInv, NEW d \in Docs, Begin(d) PROVE ParsingInv'
<1>1. /\ record' = [record EXCEPT ![d].status = "parsing"]
      /\ at' = [doc |-> d, pc |-> "engine"] /\ UNCHANGED <<found, sidecar, chunked>>
  BY DEF Begin
<1>2. /\ record' = [x \in Docs |-> record'[x]] /\ \A x \in Docs : HasStatus(record'[x])
      /\ record'[d].status = "parsing" /\ \A x \in Docs \ {d} : record'[x] = record[x]
  BY <1>1, RecordIs DEF ParsingInv
<1>3. at' \in [doc : Docs \cup {Nothing}, pc : Pcs] /\ at'.pc = "engine" /\ at'.doc = d
  BY <1>1 DEF Pcs
<1>4. ParsingTyped'
  BY <1>1, <1>2, <1>3 DEF ParsingInv, ParsingTyped
<1>5. CutFromItsOwn'
  BY <1>1, <1>2 DEF ParsingInv, CutFromItsOwn
<1> QED BY <1>2, <1>3, <1>4, <1>5 DEF ParsingInv, AtInv, FoundInv

(* What either engine finds is the document's own. *)
LEMMA ExtractedIs ==
    ASSUME NEW d \in Docs, NEW bundle \in Bundle(d), Extracted(bundle).text # {}
    PROVE  /\ Own(Extracted(bundle).blocks, d)
           /\ Extracted(bundle) \in [text : SUBSET AllParts, blocks : SUBSET AllParts]
<1> DEFINE all   == PartsOf(d, Holds[d])
           prose == PartsOf(d, Holds[d] \ {"tables"})
<1>1. prose \subseteq all /\ all \subseteq AllParts
  BY DEF PartsOf, AllParts
<1> HIDE DEF all, prose
<1>2. bundle \in {[md |-> all, json |-> prose], [md |-> all, json |-> {}], [md |-> {}, json |-> prose]}
  BY DEF Bundle, all, prose
<1>3. \/ bundle.md = all /\ bundle.json \in {prose, {}}
      \/ bundle.md = {} /\ bundle.json = prose
  BY <1>2
<1>4. /\ Extracted(bundle) = [text   |-> IF bundle.md # {} THEN bundle.md ELSE bundle.json,
                              blocks |-> IF bundle.json # {} THEN bundle.json ELSE bundle.md]
  BY DEF Extracted
<1>5. /\ Extracted(bundle).blocks # {} /\ Extracted(bundle).blocks \in {prose, all}
      /\ Extracted(bundle).text \in {prose, all}
  BY <1>3, <1>4
<1>6. prose \subseteq Extracted(bundle).blocks /\ Extracted(bundle).blocks \subseteq all
  BY <1>1, <1>5
<1>7. Own(Extracted(bundle).blocks, d)
  BY <1>5, <1>6 DEF Own, all, prose
<1>8. Extracted(bundle) \in [text : SUBSET AllParts, blocks : SUBSET AllParts]
  <2>1. Extracted(bundle).text \in SUBSET AllParts /\ Extracted(bundle).blocks \in SUBSET AllParts
    BY <1>1, <1>5
  <2> QED BY <1>4, <2>1
<1> QED BY <1>7, <1>8

LEMMA FindsInv == ASSUME ParsingInv, ReadLegacy \/ Fetch PROVE ParsingInv'
<1>1. CASE ReadLegacy
  <2> DEFINE parts == ExtractText(at.doc)
  <2>1. /\ at.pc = "read" /\ parts # {} /\ found' = [text |-> parts, blocks |-> {}]
        /\ GoTo("chunk") /\ UNCHANGED <<record, sidecar, chunked>>
    BY <1>1 DEF ReadLegacy, At
  <2>2. at.doc \in Docs /\ at.pc # "idle"
    BY <2>1 DEF ParsingInv, AtInv
  <2>3. parts \subseteq AllParts /\ Own(parts, at.doc)
    BY <2>1, <2>2 DEF ExtractText, AllParts, Own, PartsOf
  <2> HIDE DEF parts
  <2>4. found'.text = parts /\ found'.blocks = {}
        /\ found' \in [text : SUBSET AllParts, blocks : SUBSET AllParts]
    BY <2>1, <2>3
  <2>5. "chunk" \in Pcs
    BY DEF Pcs
  <2>6. at'.pc = "chunk" /\ at'.doc = at.doc
    BY <2>1, <2>5, GoToIs
  <2>7. FoundInv'
    BY <2>3, <2>4, <2>6 DEF FoundInv
  <2>8. sidecar' = [s \in Range(Stem) |-> sidecar'[s]]
    BY <2>1 DEF ParsingInv, ParsingTyped
  <2> QED BY <2>1, <2>2, <2>4, <2>5, <2>7, <2>8, OnwardInv
<1>2. CASE Fetch
  <2>1. /\ at.pc = "fetch" /\ GoTo("clean") /\ UNCHANGED <<record, sidecar, chunked>>
        /\ \E bundle \in Bundle(at.doc) :
              Extracted(bundle).text # {} /\ found' = Extracted(bundle)
    BY <1>2 DEF Fetch, At
  <2>2. at.doc \in Docs /\ at.pc # "idle"
    BY <2>1 DEF ParsingInv, AtInv
  <2>3. /\ Own(found'.blocks, at.doc)
        /\ found' \in [text : SUBSET AllParts, blocks : SUBSET AllParts]
    BY <2>1, <2>2, ExtractedIs
  <2>4. "clean" \in Pcs
    BY DEF Pcs
  <2>5. at'.pc = "clean" /\ at'.doc = at.doc
    BY <2>1, <2>4, GoToIs
  <2>6. FoundInv'
    BY <2>3, <2>5 DEF FoundInv
  <2>7. sidecar' = [s \in Range(Stem) |-> sidecar'[s]]
    BY <2>1 DEF ParsingInv, ParsingTyped
  <2> QED BY <2>1, <2>2, <2>3, <2>4, <2>6, <2>7, OnwardInv
<1> QED BY <1>1, <1>2

(* On the way to the chunker, before anything is found or written. *)
LEMMA WaitsInv ==
    ASSUME ParsingInv, GetParser \/ Submit \/ PollSucceeded PROVE ParsingInv'
<1>1. PICK pc \in {"submit", "read", "poll", "fetch"} : GoTo(pc)
  BY DEF GetParser, Submit, PollSucceeded
<1>2. at.pc # "idle" /\ UNCHANGED <<record, found, sidecar, chunked>>
  BY DEF GetParser, Submit, PollSucceeded, At
<1>3. pc \in Pcs /\ pc \notin {"clean", "write", "chunk"}
  BY <1>1 DEF Pcs
<1>4. at'.pc = pc
  BY <1>1, <1>3, GoToIs
<1>5. FoundInv'
  BY <1>3, <1>4 DEF FoundInv
<1>6. /\ found' \in [text : SUBSET AllParts, blocks : SUBSET AllParts]
      /\ sidecar' = [s \in Range(Stem) |-> sidecar'[s]]
  BY <1>2 DEF ParsingInv, ParsingTyped
<1> QED BY <1>1, <1>2, <1>3, <1>5, <1>6, OnwardInv

LEMMA SidecarInv == ASSUME ParsingInv, CleanSidecar \/ WriteSidecar PROVE ParsingInv'
<1>1. at.pc \in {"clean", "write"} /\ UNCHANGED <<record, chunked>>
  BY DEF CleanSidecar, WriteSidecar, At
<1>2. /\ at.doc \in Docs /\ at.pc # "idle" /\ Own(found.blocks, at.doc)
      /\ found \in [text : SUBSET AllParts, blocks : SUBSET AllParts]
      /\ sidecar = [s \in Range(Stem) |-> sidecar[s]]
  BY <1>1 DEF ParsingInv, ParsingTyped, AtInv, FoundInv
<1>3. Directory \in Range(Stem)
  BY <1>2, DirectoryIs DEF Directory
<1>4. CASE CleanSidecar
  <2>1. /\ sidecar' = [sidecar EXCEPT ![Directory] = Nothing] /\ GoTo("write") /\ found' = found
    BY <1>4 DEF CleanSidecar
  <2>2. "write" \in Pcs
    BY DEF Pcs
  <2>3. at'.pc = "write" /\ at'.doc = at.doc
    BY <2>1, <2>2, GoToIs
  <2>4. FoundInv'
    BY <1>2, <2>1, <2>3 DEF FoundInv
  <2>5. sidecar' = [s \in Range(Stem) |-> sidecar'[s]]
    BY <1>2, <2>1
  <2> QED BY <1>1, <1>2, <2>1, <2>2, <2>4, <2>5, OnwardInv
<1>5. CASE WriteSidecar
  <2>1. /\ sidecar' = [sidecar EXCEPT ![Directory] = found.blocks] /\ GoTo("chunk")
        /\ found' = [found EXCEPT !.text = found.blocks]
    BY <1>5 DEF WriteSidecar
  <2>2. "chunk" \in Pcs
    BY DEF Pcs
  <2>3. at'.pc = "chunk" /\ at'.doc = at.doc
    BY <2>1, <2>2, GoToIs
  <2>4. /\ found' \in [text : SUBSET AllParts, blocks : SUBSET AllParts]
        /\ found'.text = found.blocks /\ found'.blocks = found.blocks
    BY <1>2, <2>1
  <2>5. sidecar' = [s \in Range(Stem) |-> sidecar'[s]] /\ sidecar'[Directory] = found.blocks
    BY <1>2, <1>3, <2>1
  <2>6. FoundInv'
    BY <1>2, <2>3, <2>4, <2>5 DEF FoundInv, Directory
  <2> QED BY <1>1, <1>2, <2>1, <2>2, <2>4, <2>5, <2>6, OnwardInv
<1> QED BY <1>4, <1>5

LEMMA ChunkInv == ASSUME ParsingInv, ChunkText PROVE ParsingInv'
<1>1. /\ at.pc = "chunk" /\ chunked' = [chunked EXCEPT ![at.doc] = Source]
      /\ record' = [record EXCEPT ![at.doc].status = "cut"]
      /\ at' = Done /\ found' = NoText /\ UNCHANGED sidecar
  BY DEF ChunkText, At, Settled
<1>2. at.doc \in Docs /\ Own(found.text, at.doc)
      /\ (found.blocks # {} => found.blocks = found.text /\ sidecar[Directory] = found.blocks)
  BY <1>1 DEF ParsingInv, AtInv, FoundInv
<1>3. Source = found.text
  BY <1>2 DEF Source
<1>4. /\ record' = [x \in Docs |-> record'[x]] /\ \A x \in Docs : HasStatus(record'[x])
      /\ record'[at.doc].status = "cut" /\ \A x \in Docs \ {at.doc} : record'[x] = record[x]
  BY <1>1, <1>2, RecordIs DEF ParsingInv
<1>5. /\ chunked' = [x \in Docs |-> chunked'[x]] /\ chunked'[at.doc] = found.text
      /\ \A x \in Docs \ {at.doc} : chunked'[x] = chunked[x]
  BY <1>1, <1>2, <1>3 DEF ParsingInv, ParsingTyped
<1>6. Done \in [doc : Docs \cup {Nothing}, pc : Pcs] /\ Done.pc = "idle"
  BY DEF Done, Pcs
<1>7. NoText \in [text : SUBSET AllParts, blocks : SUBSET AllParts]
  BY DEF NoText
<1>8. ParsingTyped'
  BY <1>1, <1>4, <1>5, <1>6, <1>7 DEF ParsingInv, ParsingTyped
<1>9. CutFromItsOwn'
  BY <1>2, <1>4, <1>5 DEF ParsingInv, CutFromItsOwn, Own
<1> QED BY <1>1, <1>6, <1>8, <1>9 DEF ParsingInv, AtInv, FoundInv

LEMMA WorkerKilledInv == ASSUME ParsingInv, WorkerKilled PROVE ParsingInv'
<1>1. /\ record' = [d \in Docs |-> IF record[d].status = "parsing"
                                   THEN [record[d] EXCEPT !.status = "pending"] ELSE record[d]]
      /\ at' = Done /\ found' = NoText /\ UNCHANGED <<sidecar, chunked>>
  BY DEF WorkerKilled
<1>2. \A d \in Docs : HasStatus(record[d])
  BY DEF ParsingInv, ParsingTyped
<1>3. ASSUME NEW d \in Docs
      PROVE  HasStatus(record'[d]) /\ (record'[d].status = "cut" => record[d].status = "cut")
  BY <1>1, <1>2, StatusSet
<1>4. Done \in [doc : Docs \cup {Nothing}, pc : Pcs] /\ Done.pc = "idle"
  BY DEF Done, Pcs
<1>5. NoText \in [text : SUBSET AllParts, blocks : SUBSET AllParts]
  BY DEF NoText
<1>6. record' = [d \in Docs |-> record'[d]]
  BY <1>1
<1>7. ParsingTyped'
  BY <1>1, <1>3, <1>4, <1>5, <1>6 DEF ParsingInv, ParsingTyped
<1>8. CutFromItsOwn'
  BY <1>1, <1>3 DEF ParsingInv, CutFromItsOwn
<1> QED BY <1>1, <1>4, <1>7, <1>8 DEF ParsingInv, AtInv, FoundInv

LEMMA ParseInv == ASSUME ParsingInv, Parse \/ Fault \/ ServiceWorks PROVE ParsingInv'
<1>1. CASE \/ Unavailable \/ LegacyRefuses \/ PollEnded \/ PollTimesOut \/ FetchEmpty
           \/ LegacyFails \/ DoclingFails \/ SidecarFails
  <2>1. at.pc # "idle" /\ Fails
    BY <1>1 DEF Unavailable, LegacyRefuses, PollEnded, PollTimesOut, FetchEmpty, LegacyFails,
                DoclingFails, SidecarFails, At
  <2> QED BY <2>1, FailsInv
<1>2. CASE ServiceWorks \/ PollAgain
  <2>1. UNCHANGED <<record, at, found, sidecar, chunked>>
    BY <1>2 DEF ServiceWorks, PollAgain
  <2> QED BY <2>1 DEF ParsingInv, ParsingTyped, AtInv, FoundInv, CutFromItsOwn, Directory
<1>3. CASE \E d \in Docs : Begin(d)
  BY <1>3, BeginParsingInv
<1>4. CASE GetParser \/ Submit \/ PollSucceeded
  BY <1>4, WaitsInv
<1>5. CASE ReadLegacy \/ Fetch
  BY <1>5, FindsInv
<1>6. CASE CleanSidecar \/ WriteSidecar
  BY <1>6, SidecarInv
<1>7. CASE ChunkText
  BY <1>7, ChunkInv
<1> QED BY <1>1, <1>2, <1>3, <1>4, <1>5, <1>6, <1>7 DEF Parse, Fault

(* Chunks are cut from their own document, all its prose included, whoever *)
(* else left a sidecar under its name and wherever a parser or the process *)
(* stopped.                                                                *)
THEOREM CutAlwaysFromItsOwn == ParsingSpec => []CutFromItsOwn
<1>1. ParsingInit => ParsingInv
  BY ParsingStarts
<1>2. ParsingInv /\ [ParsingNext]_parsingVars => ParsingInv'
  <2> SUFFICES ASSUME ParsingInv, [ParsingNext]_parsingVars PROVE ParsingInv'
    OBVIOUS
  <2>1. CASE UNCHANGED parsingVars
    BY <2>1 DEF parsingVars, ParsingInv, ParsingTyped, AtInv, FoundInv, CutFromItsOwn, Directory
  <2>2. CASE \E d \in Docs : Enqueue(d) \/ Requeue(d)
    BY <2>2, EnqueueInv
  <2>3. CASE Parse \/ Fault \/ ServiceWorks
    BY <2>3, ParseInv
  <2>4. CASE WorkerKilled
    BY <2>4, WorkerKilledInv
  <2> QED BY <2>1, <2>2, <2>3, <2>4 DEF ParsingNext
<1>3. ParsingInv => CutFromItsOwn
  BY DEF ParsingInv
<1> QED BY <1>1, <1>2, <1>3, PTL DEF ParsingSpec

----------------------------------------------------------------------------
(* The chunks of strategy F: windows of a text, for any size and overlap.  *)

(* Whole steps in a stretch, and one more of them.                         *)
LEMMA Divided ==
    ASSUME NEW a \in Nat, NEW d \in Nat \ {0}
    PROVE  a \div d \in Nat /\ (a \div d) * d <= a /\ a < (a \div d) * d + d
OBVIOUS

LEMMA Times ==
    ASSUME NEW a \in Nat, NEW b \in Nat, NEW d \in Nat \ {0}
    PROVE  a * d \in Nat /\ (a < b => a * d + d <= b * d) /\ (a * d < b * d => a < b)
OBVIOUS

(* The windows of a text are within it and of the size asked for, and no   *)
(* place is between two of them.                                           *)
LEMMA WindowsAre ==
    ASSUME NEW n \in Nat \ {0}, NEW size \in Nat \ {0}, NEW overlap \in Nat, overlap < size
    PROVE  \E c \in Nat : 
              /\ DOMAIN Windows(n, size, overlap) = 1..c
              /\ \A k \in 1..c : LET w == Windows(n, size, overlap)[k]
                                 IN  /\ w.first \in 1..n /\ w.last \in w.first..n
                                     /\ w.last - w.first + 1 <= size
              /\ \A i \in 1..n : \E k \in 1..c : LET w == Windows(n, size, overlap)[k]
                                                 IN  i \in w.first..w.last
<1> DEFINE step == size - overlap
           c == (n + step - 1) \div step
           W == Windows(n, size, overlap)
<1>1. step \in Nat \ {0} /\ step <= size
  OBVIOUS
<1> HIDE DEF step
<1>2. c \in Nat /\ c * step <= n + step - 1 /\ n + step - 1 < c * step + step
  <2>1. n + step - 1 \in Nat
    BY <1>1
  <2> QED BY <1>1, <2>1, Divided
<1>3. W = [k \in 1..c |-> [first |-> (k - 1) * step + 1,
                           last  |-> IF (k - 1) * step + size < n THEN (k - 1) * step + size ELSE n]]
  BY DEF Windows, step
<1> HIDE DEF c, W
<1>4. ASSUME NEW k \in 1..c
      PROVE  W[k].first \in 1..n /\ W[k].last \in W[k].first..n /\ W[k].last - W[k].first + 1 <= size
  <2> DEFINE p == (k - 1) * step
             q == c * step
  <2>1. p \in Nat /\ q \in Nat /\ p + step <= q
    <3>1. k - 1 \in Nat /\ k - 1 < c
      BY <1>2
    <3> QED BY <1>1, <1>2, <3>1, Times
  <2>2. W[k] = [first |-> p + 1, last |-> IF p + size < n THEN p + size ELSE n]
    BY <1>3
  <2>3. q <= n + step - 1
    BY <1>2
  <2> HIDE DEF p, q
  <2>4. p + 1 \in 1..n
    BY <1>1, <2>1, <2>3
  <2> QED BY <2>1, <2>2, <2>4
<1>5. ASSUME NEW i \in 1..n PROVE \E k \in 1..c : i \in W[k].first..W[k].last
  <2> DEFINE j == (i - 1) \div step
             p == j * step
             q == c * step
  <2>1. j \in Nat /\ p <= i - 1 /\ i - 1 < p + step
    <3>1. i - 1 \in Nat
      OBVIOUS
    <3> QED BY <1>1, <3>1, Divided
  <2>2. p \in Nat /\ q \in Nat
    <3> HIDE DEF j
    <3> QED BY <1>1, <1>2, <2>1, Times
  <2>3. p < q
    <3>1. n + step - 1 < q + step
      BY <1>2
    <3> HIDE DEF p, q
    <3> QED BY <1>1, <2>1, <2>2, <3>1
  <2>4. j < c
    <3> HIDE DEF j
    <3> QED BY <1>1, <1>2, <2>1, <2>3, Times
  <2>5. j + 1 \in 1..c /\ j + 1 - 1 = j
    <3> HIDE DEF j
    <3> QED BY <1>2, <2>1, <2>4
  <2>6. W[j + 1] = [first |-> p + 1, last |-> IF p + size < n THEN p + size ELSE n]
    <3> HIDE DEF j
    <3>1. PICK k \in 1..c : k = j + 1 /\ k - 1 = j
      BY <2>1, <2>5
    <3>2. W[k] = [first |-> (k - 1) * step + 1,
                  last  |-> IF (k - 1) * step + size < n THEN (k - 1) * step + size ELSE n]
      BY <1>3
    <3>3. (k - 1) * step = p
      BY <3>1
    <3> HIDE DEF p
    <3> QED BY <3>1, <3>2, <3>3
  <2>7. i \in W[j + 1].first..W[j + 1].last
    <3> HIDE DEF j, p
    <3> QED BY <1>1, <2>1, <2>2, <2>6
  <2> QED BY <2>5, <2>7
<1> QED BY <1>2, <1>3, <1>4, <1>5 DEF W

----------------------------------------------------------------------------
(* What str.strip leaves.                                                  *)

(* The text from a to b is what is left of s.                              *)
Core(s, a, b) ==
    /\ a \in 1..Len(s) /\ b \in a..Len(s)
    /\ s[a] \notin Marks /\ s[b] \notin Marks
    /\ \A i \in 1..Len(s) : s[i] \notin Marks => i \in a..b
    /\ Strip(s) = SubSeq(s, a, b)

Blanks(s) == \A i \in 1..Len(s) : s[i] \in Marks

(* A text is blank, or has a core.                                         *)
LEMMA StripIs ==
    ASSUME NEW s \in Seq(STRING)
    PROVE  /\ Blanks(s) => Strip(s) = <<>>
           /\ ~Blanks(s) => \E a, b \in 1..Len(s) : Core(s, a, b)
<1> DEFINE words == {i \in DOMAIN s : s[i] \notin Marks}
<1>1. Len(s) \in Nat /\ DOMAIN s = 1..Len(s) /\ words \in SUBSET (0..Len(s)) /\ words \in SUBSET Nat
  OBVIOUS
<1>2. Strip(s) = IF words = {} THEN <<>> ELSE SubSeq(s, Min(words), Max(words))
  BY DEF Strip
<1>3. Blanks(s) <=> words = {}
  BY <1>1 DEF Blanks
<1>4. ASSUME words # {} PROVE \E a, b \in 1..Len(s) : Core(s, a, b)
  <2>1. Max(words) \in words /\ \A y \in words : Max(words) >= y
    <3> HIDE DEF words
    <3> QED BY <1>1, <1>4, Greatest
  <2>2. Min(words) \in words /\ \A y \in words : Min(words) <= y
    <3>1. \E x \in words : \A y \in words : x <= y
      <4> HIDE DEF words
      <4> QED BY <1>1, <1>4, LeastNatural
    <3> HIDE DEF words
    <3> QED BY <3>1 DEF Min
  <2> DEFINE a == Min(words)
             b == Max(words)
  <2>3. Strip(s) = SubSeq(s, a, b)
    BY <1>2, <1>4
  <2> HIDE DEF a, b
  <2>4. /\ a \in 1..Len(s) /\ b \in 1..Len(s) /\ s[a] \notin Marks /\ s[b] \notin Marks
        /\ \A i \in 1..Len(s) : s[i] \notin Marks => a <= i /\ i <= b
    <3>1. a \in words /\ b \in words /\ \A i \in words : a <= i /\ b >= i
      BY <2>1, <2>2 DEF a, b
    <3>2. \A i \in 1..Len(s) : s[i] \notin Marks => i \in words
      BY <1>1
    <3>3. a \in 1..Len(s) /\ b \in 1..Len(s) /\ s[a] \notin Marks /\ s[b] \notin Marks
      BY <1>1, <3>1
    <3> HIDE DEF words
    <3>4. ASSUME NEW i \in 1..Len(s), s[i] \notin Marks PROVE a <= i /\ i <= b
      <4>1. a <= i /\ b >= i
        BY <3>1, <3>2, <3>4
      <4> QED BY <3>3, <4>1
    <3> QED BY <3>3, <3>4
  <2>5. b \in a..Len(s)
    BY <2>4
  <2>6. Core(s, a, b)
    BY <2>3, <2>4, <2>5 DEF Core
  <2> QED BY <2>4, <2>6
<1> QED BY <1>2, <1>3, <1>4

(* A core is a text without marks at its ends.                             *)
LEMMA CoreIs ==
    ASSUME NEW s \in Seq(STRING), NEW a \in 1..Len(s), NEW b \in 1..Len(s), Core(s, a, b)
    PROVE  Trimmed(Strip(s)) /\ Len(Strip(s)) = b - a + 1
<1> DEFINE t == Strip(s)
<1>1. a <= b /\ a \in 1..(Len(s) + 1) /\ b \in 0..Len(s) /\ a <= b + 1 /\ b - a + 1 \in Nat \ {0}
  BY DEF Core
<1>2. t = SubSeq(s, a, b)
  BY DEF Core
<1> HIDE DEF t
<1>3. /\ t \in Seq(STRING) /\ Len(t) = b - a + 1
      /\ \A i \in 1..(b - a + 1) : t[i] = s[a + i - 1]
  BY <1>1, <1>2, PieceIs
<1>4. t[1] = s[a] /\ t[Len(t)] = s[b]
  <2>1. 1 \in 1..(b - a + 1) /\ b - a + 1 \in 1..(b - a + 1) /\ a + 1 - 1 = a /\ a + (b - a + 1) - 1 = b
    BY <1>1
  <2> QED BY <1>3, <2>1
<1>5. Len(t) \in Nat \ {0} /\ 1 \in 1..Len(t) /\ Len(t) \in 1..Len(t)
  BY <1>1, <1>3
<1>6. t[1] \notin Marks /\ t[Len(t)] \notin Marks
  BY <1>4 DEF Core
<1>7. ~Blanks(t)
  BY <1>5, <1>6 DEF Blanks
<1>8. PICK c, d \in 1..Len(t) : Core(t, c, d)
  BY <1>3, <1>7, StripIs
<1>9. c = 1 /\ d = Len(t)
  <2>1. 1 \in c..d /\ Len(t) \in c..d
    BY <1>5, <1>6, <1>8 DEF Core
  <2> QED BY <1>5, <1>8, <2>1
<1>10. Strip(t) = SubSeq(t, 1, Len(t))
  BY <1>8, <1>9 DEF Core
<1>11. Strip(t) = t
  BY <1>3, <1>10
<1>12. t # <<>>
  BY <1>5
<1> QED BY <1>3, <1>11, <1>12 DEF Trimmed, t

----------------------------------------------------------------------------
(* The chunks of strategy F.                                               *)

(* A chunk stands in s from p to q, and has the words from f to l.         *)
Stands(chunk, s, f, l, p, q) ==
    /\ p \in 1..Len(s) /\ q \in p..Len(s) /\ Len(chunk) = q - p + 1
    /\ chunk = SubSeq(s, p, q)
    /\ \A i \in f..l : s[i] \notin Marks => i \in p..q

(* A window of words stands in the text.                                   *)
LEMMA WindowStands ==
    ASSUME NEW s \in Seq(STRING), NEW f \in 1..Len(s), NEW l \in f..Len(s)
    PROVE  LET chunk == Strip(SubSeq(s, f, l))
           IN  /\ chunk = <<>> => \A i \in f..l : s[i] \in Marks
               /\ chunk # <<>> => /\ Trimmed(chunk) /\ Len(chunk) <= l - f + 1
                                  /\ \E p, q \in 1..Len(s) : Stands(chunk, s, f, l, p, q)
<1> DEFINE t == SubSeq(s, f, l)
<1>1. f \in 1..(Len(s) + 1) /\ l \in 0..Len(s) /\ f <= l + 1 /\ l - f + 1 \in Nat
  OBVIOUS
<1>2. /\ t \in Seq(STRING) /\ Len(t) = l - f + 1
      /\ \A i \in 1..(l - f + 1) : t[i] = s[f + i - 1]
  BY <1>1, PieceIs
<1>3. ASSUME NEW i \in f..l PROVE i - f + 1 \in 1..(l - f + 1) /\ s[i] = t[i - f + 1]
  <2>1. i - f + 1 \in 1..(l - f + 1) /\ f + (i - f + 1) - 1 = i
    OBVIOUS
  <2> HIDE DEF t
  <2> QED BY <1>2, <2>1
<1> HIDE DEF t
<1>4. CASE Blanks(t)
  <2>1. Strip(t) = <<>>
    BY <1>2, <1>4, StripIs
  <2>2. \A i \in f..l : s[i] \in Marks
    BY <1>2, <1>3, <1>4 DEF Blanks
  <2> QED BY <2>1, <2>2 DEF t
<1>5. CASE ~Blanks(t)
  <2>1. PICK a, b \in 1..Len(t) : Core(t, a, b)
    BY <1>2, <1>5, StripIs
  <2>2. Trimmed(Strip(t)) /\ Len(Strip(t)) = b - a + 1 /\ b \in a..Len(t) /\ Strip(t) = SubSeq(t, a, b)
    BY <1>2, <2>1, CoreIs DEF Core
  <2> DEFINE p == f + a - 1
             q == f + b - 1
  <2>3. /\ p \in 1..Len(s) /\ q \in p..Len(s) /\ q - p + 1 = b - a + 1 /\ b - a + 1 <= l - f + 1
        /\ a \in 1..(l - f + 2) /\ b \in 0..(l - f + 1) /\ a <= b + 1
    BY <1>1, <1>2, <2>1, <2>2
  <2>4. Strip(t) = SubSeq(s, p, q)
    <3>1. SubSeq(SubSeq(s, f, l), a, b) = SubSeq(s, f + a - 1, f + b - 1)
      BY <1>1, <2>3, PieceOfPiece
    <3> QED BY <2>2, <3>1 DEF t
  <2>5. ASSUME NEW i \in f..l, s[i] \notin Marks PROVE i \in p..q
    <3>1. i - f + 1 \in a..b
      BY <1>2, <1>3, <2>1, <2>5 DEF Core
    <3> QED BY <1>1, <2>1, <2>3, <3>1
  <2> HIDE DEF p, q
  <2>6. Stands(Strip(t), s, f, l, p, q)
    BY <2>2, <2>3, <2>4, <2>5 DEF Stands
  <2>7. q \in 1..Len(s) /\ Len(Strip(t)) <= l - f + 1
    BY <2>2, <2>3
  <2>8. Strip(t) # <<>>
    BY <2>2 DEF Trimmed
  <2> QED BY <2>2, <2>3, <2>6, <2>7, <2>8 DEF t
<1> QED BY <1>4, <1>5

(* What strategy F makes of a text covers it.                              *)
LEMMA FixedCovers ==
    ASSUME NEW s \in Seq(STRING), NEW size \in Nat \ {0}, NEW overlap \in Nat, overlap < size
    PROVE  LET cuts   == FixedWindows(s, size, overlap)
               chunks == Taken(cuts, {k \in DOMAIN cuts : cuts[k] # <<>>})
           IN  /\ \A k \in DOMAIN chunks : Trimmed(chunks[k]) /\ Len(chunks[k]) <= size
               /\ Covers(chunks, s)
<1> DEFINE F == FixedWindows(s, size, overlap)
           P == {k \in DOMAIN F : F[k] # <<>>}
           C == Taken(F, P)
           n == Len(s)
<1>0. n \in Nat /\ DOMAIN s = 1..n
  OBVIOUS
<1>1. CASE Blanks(s)
  <2>1. F = <<>>
    BY <1>1, StripIs DEF FixedWindows
  <2>2. P = {}
    BY <2>1
  <2> HIDE DEF F, P
  <2>3. DOMAIN C = {}
    <3>1. Cardinality(P) = 0 /\ 1..0 = {}
      BY <2>2, FS_EmptySet
    <3> QED BY <3>1 DEF Taken
  <2> HIDE DEF C
  <2> DEFINE none == [k \in DOMAIN C |-> 1]
  <2>4. none \in [DOMAIN C -> 1..n]
    BY <2>3
  <2>5. \A i \in DOMAIN s : s[i] \in Marks
    BY <1>0, <1>1 DEF Blanks
  <2>6. Covers(C, s)
    BY <2>3, <2>4, <2>5 DEF Covers
  <2> QED BY <2>3, <2>6 DEF C, F, P
<1>2. CASE ~Blanks(s)
  <2>1. Strip(s) # <<>> /\ n # 0
    <3>1. PICK a, b \in 1..n : Core(s, a, b)
      BY <1>2, StripIs
    <3> QED BY <1>0, <3>1, CoreIs DEF Trimmed
  <2> DEFINE W == Windows(n, size, overlap)
  <2>2. PICK c \in Nat :
            /\ DOMAIN W = 1..c
            /\ \A k \in 1..c : /\ W[k].first \in 1..n /\ W[k].last \in W[k].first..n
                               /\ W[k].last - W[k].first + 1 <= size
            /\ \A i \in 1..n : \E k \in 1..c : i \in W[k].first..W[k].last
    <3>1. n \in Nat \ {0}
      BY <1>0, <2>1
    <3> QED BY <3>1, WindowsAre
  <2>3. F = [k \in 1..c |-> Strip(SubSeq(s, W[k].first, W[k].last))]
    BY <2>1, <2>2 DEF FixedWindows
  <2> HIDE DEF W, F
  <2>4. P = {k \in 1..c : F[k] # <<>>}
    BY <2>3
  <2>5. ASSUME NEW k \in 1..c
        PROVE  /\ F[k] = <<>> => \A i \in W[k].first..W[k].last : s[i] \in Marks
               /\ F[k] # <<>> => /\ Trimmed(F[k]) /\ Len(F[k]) <= size
                                 /\ \E p, q \in 1..n : Stands(F[k], s, W[k].first, W[k].last, p, q)
    <3> DEFINE f == W[k].first
               l == W[k].last
    <3>1. f \in 1..n /\ l \in f..n /\ l - f + 1 <= size /\ f \in Int /\ l \in Int
      BY <1>0, <2>2
    <3>2. F[k] = Strip(SubSeq(s, f, l))
      BY <2>3
    <3> HIDE DEF f, l
    <3>3. /\ F[k] = <<>> => \A i \in f..l : s[i] \in Marks
          /\ F[k] # <<>> => /\ Trimmed(F[k]) /\ Len(F[k]) <= l - f + 1
                            /\ \E p, q \in 1..n : Stands(F[k], s, f, l, p, q)
      BY <3>1, <3>2, WindowStands
    <3>4. ASSUME F[k] # <<>> PROVE Len(F[k]) <= size
      <4>1. PICK p, q \in 1..n : Stands(F[k], s, f, l, p, q)
        BY <3>3, <3>4
      <4>2. Len(F[k]) = q - p + 1 /\ Len(F[k]) <= l - f + 1
        BY <3>3, <3>4, <4>1 DEF Stands
      <4> QED BY <3>1, <4>2
    <3> QED BY <3>3, <3>4 DEF f, l
  <2> DEFINE m == Cardinality(P)
             Spot(k, p, q) == Stands(F[k], s, W[k].first, W[k].last, p, q)
             lo(k) == CHOOSE p \in 1..n : \E q \in 1..n : Spot(k, p, q)
             starts == [j \in 1..m |-> lo(Nth(P, j))]
  <2>6. ASSUME NEW k \in P PROVE lo(k) \in 1..n /\ \E q \in 1..n : Spot(k, lo(k), q)
    <3>1. \E p \in 1..n : \E q \in 1..n : Spot(k, p, q)
      BY <2>4, <2>5
    <3> HIDE DEF Spot
    <3> QED BY <3>1
  <2>7. /\ m \in 0..c
        /\ \A j \in 1..m : Nth(P, j) \in P
        /\ \A k \in P : \E j \in 1..m : Nth(P, j) = k
    <3>1. P \in SUBSET (1..c)
      BY <2>4
    <3> HIDE DEF P
    <3> QED BY <3>1, NthPlaces
  <2>8. C = [j \in 1..m |-> F[Nth(P, j)]]
    BY DEF Taken
  <2> HIDE DEF P, m, C, lo, Spot
  <2>9. starts \in [1..m -> 1..n] /\ DOMAIN C = 1..m
    BY <2>6, <2>7, <2>8
  <2>10. ASSUME NEW j \in 1..m
         PROVE  /\ Trimmed(C[j]) /\ Len(C[j]) <= size
                /\ starts[j] + Len(C[j]) - 1 <= n
                /\ SubSeq(s, starts[j], starts[j] + Len(C[j]) - 1) = C[j]
                /\ \A i \in W[Nth(P, j)].first..W[Nth(P, j)].last :
                       s[i] \notin Marks => i \in starts[j]..(starts[j] + Len(C[j]) - 1)
    <3> DEFINE k == Nth(P, j)
               p == lo(k)
    <3>1. k \in P /\ C[j] = F[k] /\ starts[j] = p
      BY <2>7, <2>8
    <3> HIDE DEF k
    <3>2. Trimmed(F[k]) /\ Len(F[k]) <= size
      BY <2>4, <2>5, <3>1
    <3>3. PICK q \in 1..n : Spot(k, p, q) /\ p \in 1..n
      BY <2>6, <3>1
    <3> HIDE DEF p, starts
    <3>4. /\ q \in p..n /\ Len(F[k]) = q - p + 1 /\ F[k] = SubSeq(s, p, q)
          /\ \A i \in W[k].first..W[k].last : s[i] \notin Marks => i \in p..q
      BY <3>3 DEF Spot, Stands
    <3>5. p + Len(F[k]) - 1 = q /\ q <= n
      BY <1>0, <3>3, <3>4
    <3> QED BY <3>1, <3>2, <3>4, <3>5 DEF k
  <2> HIDE DEF starts
  <2>11. ASSUME NEW i \in DOMAIN s, s[i] \notin Marks
         PROVE  \E j \in 1..m : i \in starts[j]..(starts[j] + Len(C[j]) - 1)
    <3>1. PICK k \in 1..c : i \in W[k].first..W[k].last
      BY <1>0, <2>2
    <3>2. k \in P
      BY <2>4, <2>5, <2>11, <3>1
    <3>3. PICK j \in 1..m : Nth(P, j) = k
      BY <2>7, <3>2
    <3> QED BY <2>10, <2>11, <3>1, <3>3
  <2>12. Covers(C, s)
    BY <1>0, <2>9, <2>10, <2>11 DEF Covers
  <2> QED BY <2>9, <2>10, <2>12 DEF C, F, P
<1> QED BY <1>1, <1>2

(* The chunks of a document are those of its text at every launch.         *)
CutIsOfText ==
    /\ document \in Documents
    /\ cut = ChunksOf(document.strategy, document.text, document.blocks, langchain)

(* The chunks strategy F makes of a text stand in it one by one and cover  *)
(* its words, none larger than asked for (chunker/token_size.py:74-86).    *)
THEOREM WindowsAlwaysCover == IndexingSpec => []WindowsCover
<1>1. IndexingInit => CutIsOfText
  BY DEF IndexingInit, CutIsOfText
<1>2. CutIsOfText /\ [IndexingNext]_indexingVars => CutIsOfText'
  <2> SUFFICES ASSUME CutIsOfText, [IndexingNext]_indexingVars PROVE CutIsOfText'
    OBVIOUS
  <2>1. UNCHANGED source
    <3>1. CASE Insert
      BY <3>1 DEF Insert
    <3>2. CASE Extraction
      BY <3>2 DEF Extraction
    <3>3. CASE EncodePassages
      BY <3>3 DEF EncodePassages
    <3>4. CASE Embedding
      BY <3>4 DEF Embedding
    <3>5. CASE Restart
      BY <3>5 DEF Restart
    <3>6. CASE UNCHANGED indexingVars
      BY <3>6 DEF indexingVars
    <3> QED BY <3>1, <3>2, <3>3, <3>4, <3>5, <3>6 DEF IndexingNext, Work
  <2> QED BY <2>1 DEF CutIsOfText, source
<1>3. CutIsOfText => WindowsCover
  <2> SUFFICES ASSUME CutIsOfText, document.strategy = "F"
               PROVE  /\ \A k \in DOMAIN cut : Trimmed(cut[k]) /\ Len(cut[k]) <= ChunkSize
                      /\ Covers(cut, document.text)
    BY DEF WindowsCover
  <2>1. document.text \in Seq(STRING)
    BY DocumentsAssumption DEF CutIsOfText
  <2> DEFINE cuts == FixedWindows(document.text, ChunkSize, Overlap)
  <2>2. cut = Taken(cuts, {k \in DOMAIN cuts : cuts[k] # <<>>})
    BY DEF CutIsOfText, ChunksOf, Cut
  <2> QED BY <2>1, <2>2, FixedCovers, ChunkingAssumption
<1> QED BY <1>1, <1>2, <1>3, PTL DEF IndexingSpec

================================================================================
