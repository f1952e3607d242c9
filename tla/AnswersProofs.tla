----------------------------- MODULE AnswersProofs -----------------------------
(***************************************************************************)
(* What a query and what the agent answer with.  A query, in any mode and  *)
(* whatever the rewriters do between its awaits, cites passages the corpus *)
(* had, each with its text.  The agent, for every limit, every budget,     *)
(* every set of tools and whatever the model asks for, leaves no call      *)
(* without its result, keeps the budget, cites by numbers that agree, and  *)
(* shows of the answer the final channel alone, in whatever tokens it      *)
(* comes.                                                                  *)
(***************************************************************************)
EXTENDS Retrieval, AgentLoop, FunctionTheorems, SequenceFacts

----------------------------------------------------------------------------
(* Retrieval.                                                              *)

USE DEF At, Goto, engine, rewriter

----------------------------------------------------------------------------
(* Rankings.                                                               *)

LEMMA OrderIsSeq ==
    ASSUME NEW S, NEW s \in Orders(S)
    PROVE  /\ s \in Seq(S) /\ Len(s) \in Nat /\ Len(s) <= TopK /\ DOMAIN s = 1..Len(s)
           /\ IsInjective(s) /\ Range(s) \subseteq S
<1>1. PICK m \in 0..TopK : s \in [1..m -> S]
  BY DEF Orders, BoundedSeq, SeqOf
<1>2. m \in Nat /\ m <= TopK /\ s \in Seq(S) /\ Len(s) = m
  BY <1>1, RetrievalAssumption
<1>3. IsInjective(s) /\ Range(s) \subseteq S
  BY <1>1 DEF Orders, Range
<1> QED BY <1>1, <1>2, <1>3

LEMMA SeqIsOrder ==
    ASSUME NEW S, NEW s \in Seq(S), Len(s) <= TopK, IsInjective(s)
    PROVE  s \in Orders(S)
<1>1. s \in [1..Len(s) -> S] /\ Len(s) \in 0..TopK
  BY RetrievalAssumption
<1> QED BY <1>1 DEF Orders, BoundedSeq, SeqOf

LEMMA EmptyOrder == ASSUME NEW S PROVE <<>> \in Orders(S) /\ Range(<<>>) = {}
<1>1. <<>> \in Seq(S) /\ Len(<<>>) <= TopK /\ IsInjective(<<>>)
  BY RetrievalAssumption DEF IsInjective
<1>2. Range(<<>>) = {}
  BY DEF Range
<1> QED BY <1>1, <1>2, SeqIsOrder

(* A sequence without repetition over the passages of a ranking is no      *)
(* longer than the ranking.                                                *)
LEMMA NoLonger ==
    ASSUME NEW S, NEW T, NEW s \in Seq(S), NEW t \in Seq(T),
           IsInjective(s), Range(s) \subseteq Range(t)
    PROVE  Len(s) <= Len(t)
<1> DEFINE f == [i \in 1..Len(s) |-> CHOOSE k \in 1..Len(t) : t[k] = s[i]]
<1>1. \A i \in 1..Len(s) : \E k \in 1..Len(t) : t[k] = s[i]
  <2>1. DOMAIN s = 1..Len(s) /\ DOMAIN t = 1..Len(t)
    OBVIOUS
  <2> QED BY <2>1 DEF Range
<1>2. \A i \in 1..Len(s) : f[i] \in 1..Len(t) /\ t[f[i]] = s[i]
  BY <1>1
<1>3. f \in [1..Len(s) -> 1..Len(t)]
  BY <1>2
<1> HIDE DEF f
<1>4. \A i, j \in 1..Len(s) : f[i] = f[j] => i = j
  <2>1. DOMAIN s = 1..Len(s)
    OBVIOUS
  <2> QED BY <1>2, <2>1 DEF IsInjective
<1>5. f \in Injection(1..Len(s), 1..Len(t))
  BY <1>3, <1>4 DEF Injection, IsInjective
<1> QED BY <1>5, Fun_NatInjLeq DEF ExistsInjection

LEMMA TypeInit == ASSUME Init PROVE TypeOK
<1>1. NotAsked \in Asked
  BY DEF NotAsked, Asked, QueryPcs
<1> QED BY <1>1 DEF Init, TypeOK, History

----------------------------------------------------------------------------
(* What steps do to the history and to a query.                            *)

LEMMA DisturbEffect ==
    ASSUME TypeOK, NEW M \in SUBSET Passage, Disturb(M)
    PROVE  /\ past' \in History
           /\ past'.torn = past.torn /\ past'.engineTorn = past.engineTorn
           /\ \A q \in Queries :
                 /\ past'.seen[q] = IF Running(q) THEN past.seen[q] \cup M ELSE past.seen[q]
                 /\ past'.disturbed[q] = (past.disturbed[q] \/ Running(q))
                 /\ past'.mixed[q] = (past.mixed[q] \/ At(q, "engine"))
<1>1. past \in History
  BY DEF TypeOK
<1> QED BY <1>1 DEF Disturb, History

LEMMA BeginsEffect ==
    ASSUME TypeOK, NEW q \in Queries, Begins(q)
    PROVE  /\ past' \in History
           /\ past'.mixed = past.mixed /\ past'.engineTorn = past.engineTorn
           /\ past'.seen[q] = Corpora /\ past'.disturbed[q] = Rewriting
           /\ past'.torn[q] = past.engineTorn
           /\ \A r \in Queries \ {q} :
                 /\ past'.seen[r] = past.seen[r] /\ past'.disturbed[r] = past.disturbed[r]
                 /\ past'.torn[r] = past.torn[r]
<1>1. past \in History /\ Corpora \in SUBSET Passage /\ Rewriting \in BOOLEAN
  BY DEF TypeOK, Corpora, Rewriting
<1>2. past' = [past EXCEPT !.seen[q] = Corpora, !.disturbed[q] = Rewriting,
                           !.torn[q] = past.engineTorn]
  BY DEF Begins, Corpora
<1> QED BY <1>1, <1>2 DEF History

LEMMA PreparesEffect ==
    ASSUME TypeOK, NEW q \in Queries, Prepares(q)
    PROVE  /\ past' \in History
           /\ past'.seen = past.seen /\ past'.engineTorn = past.engineTorn
           /\ past'.mixed[q] = Rewriting
           /\ past'.disturbed[q] = (past.disturbed[q] \/ Rewriting)
           /\ \A r \in Queries \ {q} :
                 /\ past'.mixed[r] = past.mixed[r]
                 /\ past'.disturbed[r] = past.disturbed[r]
           /\ \A r \in Queries : past'.torn[r] = (past.torn[r] \/ (Running(r) /\ Rewriting))
<1>1. past \in History /\ Rewriting \in BOOLEAN
  BY DEF TypeOK, Rewriting
<1> QED BY <1>1 DEF Prepares, History

LEMMA PreparedEffect ==
    ASSUME TypeOK, NEW q \in Queries, Prepared(q)
    PROVE  /\ past' \in History
           /\ past'.seen = past.seen /\ past'.mixed = past.mixed
           /\ past'.disturbed = past.disturbed
           /\ past'.engineTorn = past.mixed[q]
           /\ \A r \in Queries :
                 past'.torn[r] = ((past.mixed[q] /\ Running(r)) \/ (r # q /\ past.torn[r]))
<1>1. past \in History
  BY DEF TypeOK
<1> QED BY <1>1 DEF Prepared, History

LEMMA ForgottenEffect ==
    ASSUME TypeOK, NEW q \in Queries, Forgotten(q)
    PROVE  /\ past' \in History /\ query' \in [Queries -> Asked]
           /\ query'[q] = NotAsked
           /\ past'.engineTorn = past.engineTorn
           /\ \A r \in Queries \ {q} :
                 /\ query'[r] = query[r]
                 /\ past'.seen[r] = past.seen[r] /\ past'.disturbed[r] = past.disturbed[r]
                 /\ past'.torn[r] = past.torn[r] /\ past'.mixed[r] = past.mixed[r]
<1>1. past \in History /\ query \in [Queries -> Asked]
  BY DEF TypeOK
<1>2. NotAsked \in Asked
  BY DEF NotAsked, Asked, QueryPcs
<1> QED BY <1>1, <1>2 DEF Forgotten, History

(* A query goes on without a new answer.                                   *)
LEMMA GotoEffect ==
    ASSUME TypeOK, NEW q \in Queries, NEW point \in QueryPcs, Goto(q, point)
    PROVE  /\ query' \in [Queries -> Asked]
           /\ query'[q].pc = point /\ query'[q].mode = query[q].mode
           /\ query'[q].ids = query[q].ids /\ query'[q].docs = query[q].docs
           /\ \A r \in Queries \ {q} : query'[r] = query[r]
<1>1. query[q] \in Asked /\ query \in [Queries -> Asked]
  BY DEF TypeOK
<1> QED BY <1>1 DEF Asked

LEMMA ListingEffect ==
    ASSUME TypeOK, NEW q \in Queries, NEW page \in Seq(Passage), NEW point \in QueryPcs,
           Listing(q, page, page, point)
    PROVE  /\ query' \in [Queries -> Asked]
           /\ query'[q].pc = point /\ query'[q].mode = query[q].mode
           /\ query'[q].ids = page /\ query'[q].docs = page
           /\ \A r \in Queries \ {q} : query'[r] = query[r]
<1>1. query[q] \in Asked /\ query \in [Queries -> Asked]
  BY DEF TypeOK
<1>2. <<>> \in Seq(Passage) /\ {} \in SUBSET Passage
  OBVIOUS
<1>3. query'[q] = [query[q] EXCEPT !.pc = point, !.docs = page, !.ids = page, !.top = <<>>,
                                   !.missing = {}]
  BY <1>1 DEF Listing
<1>4. query'[q] \in Asked
  BY <1>1, <1>2, <1>3 DEF Asked
<1> QED BY <1>1, <1>3, <1>4 DEF Asked, Listing

(* Linking chooses where the query goes on and leaves its answer alone.    *)
LEMMA LinkEffect ==
    ASSUME TypeOK, NEW q \in Queries,
           \/ \E hits \in BoundedSeq(BOOLEAN, LinkingTopK),
                 picked \in SUBSET (0..(LinkingTopK + 1)) : LinkFacts(q, hits, picked)
           \/ \E seeded \in BOOLEAN : LinkSchemas(q, seeded)
    PROVE  /\ query' \in [Queries -> Asked]
           /\ UNCHANGED <<engine, vdb, kv, lock, rewriter, past>>
           /\ \/ query[q].pc = "facts" /\ query'[q].pc = "schemas"
              \/ query[q].pc = "schemas" /\ query'[q].pc \in {"dense", "rank"}
           /\ query'[q].mode = query[q].mode
           /\ query'[q].ids = query[q].ids /\ query'[q].docs = query[q].docs
           /\ \A r \in Queries \ {q} : query'[r] = query[r]
<1>1. query[q] \in Asked /\ query \in [Queries -> Asked]
  BY DEF TypeOK
<1>2. ASSUME NEW hits \in BoundedSeq(BOOLEAN, LinkingTopK),
             NEW picked \in SUBSET (0..(LinkingTopK + 1)), LinkFacts(q, hits, picked)
      PROVE  /\ query' \in [Queries -> Asked]
             /\ query[q].pc = "facts" /\ query'[q].pc = "schemas"
             /\ query'[q].mode = query[q].mode
             /\ query'[q].ids = query[q].ids /\ query'[q].docs = query[q].docs
             /\ \A r \in Queries \ {q} : query'[r] = query[r]
  <2>1. hits \in Seq(BOOLEAN)
    BY RetrievalAssumption DEF BoundedSeq, SeqOf
  <2>2. Reaching(hits) \in SUBSET Nat
    BY <2>1 DEF Reaching
  <2>3. Kept(hits, picked) \in SUBSET Nat
    BY <2>2, RetrievalAssumption DEF Kept
  <2>4. PICK kept \in SUBSET Nat :
          query' = [query EXCEPT ![q].pc = "schemas", ![q].hits = hits, ![q].kept = kept]
    BY <1>2, <2>2, <2>3 DEF LinkFacts
  <2> QED BY <1>1, <1>2, <2>1, <2>4 DEF LinkFacts, Asked, QueryPcs
<1>3. ASSUME NEW seeded \in BOOLEAN, LinkSchemas(q, seeded)
      PROVE  /\ query' \in [Queries -> Asked]
             /\ query[q].pc = "schemas" /\ query'[q].pc \in {"dense", "rank"}
             /\ query'[q].mode = query[q].mode
             /\ query'[q].ids = query[q].ids /\ query'[q].docs = query[q].docs
             /\ \A r \in Queries \ {q} : query'[r] = query[r]
  <2>1. PICK point \in {"dense", "rank"} :
          query' = [query EXCEPT ![q].pc = point, ![q].hits = <<>>, ![q].kept = {}]
    BY <1>3 DEF LinkSchemas
  <2>2. <<>> \in Seq(BOOLEAN) /\ {} \in SUBSET Nat /\ point \in QueryPcs
    BY DEF QueryPcs
  <2>3. query'[q] = [query[q] EXCEPT !.pc = point, !.hits = <<>>, !.kept = {}]
    BY <1>1, <2>1
  <2>4. query'[q] \in Asked
    BY <1>1, <2>2, <2>3 DEF Asked
  <2> QED BY <1>1, <1>3, <2>1, <2>3, <2>4, ZenonT(40) DEF LinkSchemas, Asked
<1>4. UNCHANGED <<engine, vdb, kv, lock, rewriter, past>>
  BY DEF LinkFacts, LinkSchemas
<1> QED BY <1>2, <1>3, <1>4

LEMMA AnswerPc == ASSUME NEW q PROVE Answer(q) \in {"done", "read"}
BY DEF Answer

LEMMA ScoredTyped == ASSUME TypeOK, NEW scored \in Scored PROVE scored \in SUBSET Passage
BY DEF TypeOK, Scored

LEMMA SelectedTyped ==
    ASSUME NEW top, NEW S, NEW s \in Selected(top, S)
    PROVE  /\ s \in Orders(Range(top) \cap S) /\ Range(s) = Range(top) \cap S
BY DEF Selected

LEMMA OrderWidens ==
    ASSUME NEW S, NEW T, S \subseteq T, NEW s \in Orders(S)
    PROVE  s \in Orders(T)
BY OrderIsSeq, SeqIsOrder

(* A ranking is answered with, as far as the text map knows its passages.  *)
LEMMA RankEffect ==
    ASSUME TypeOK, NEW q \in Queries, Rank(q)
    PROVE  /\ query' \in [Queries -> Asked]
           /\ UNCHANGED <<engine, vdb, kv, lock, rewriter, past>>
           /\ query[q].pc = "rank" /\ query'[q].mode = query[q].mode
           /\ \A r \in Queries \ {q} : query'[r] = query[r]
           /\ \/ /\ query'[q].pc = "dense"
                 /\ query'[q].ids = query[q].ids /\ query'[q].docs = query[q].docs
              \/ \E scored \in Scored : \E top \in Rankings(scored) :
                 \E known \in Selected(top, content) :
                    /\ query'[q].ids = known /\ query'[q].docs = known
                    /\ \/ Range(top) \subseteq content /\ query'[q].pc = Answer(q)
                       \/ /\ ~(Range(top) \subseteq content) /\ query'[q].pc = "texts"
                          /\ query'[q].top = top
                          /\ query'[q].missing = Range(top) \ content
<1>1. UNCHANGED <<engine, vdb, kv, lock, rewriter, past>> /\ query[q].pc = "rank"
  BY DEF Rank
<1>2. query[q] \in Asked /\ query \in [Queries -> Asked]
  BY DEF TypeOK
<1>3. PICK scored \in Scored :
          \/ /\ scored = {}
             /\ Goto(q, "dense")
          \/ \E top \in Rankings(scored) : \E known \in Selected(top, content) :
                IF Range(top) \ content = {}
                THEN Listing(q, known, known, Answer(q))
                ELSE query' = [query EXCEPT ![q].pc = "texts", ![q].top = top,
                         ![q].missing = Range(top) \ content,
                         ![q].docs = known, ![q].ids = known]
  BY DEF Rank
<1>4. CASE Goto(q, "dense")
  <2>1. "dense" \in QueryPcs
    BY DEF QueryPcs
  <2> QED BY <1>1, <1>4, <2>1, GotoEffect
<1>5. ASSUME NEW top \in Rankings(scored), NEW known \in Selected(top, content)
      PROVE  top \in Seq(Passage) /\ known \in Seq(Passage) /\ Range(top) \subseteq Passage
  <2>1. top \in Orders(scored) /\ scored \subseteq Passage
    BY ScoredTyped DEF Rankings
  <2>2. top \in Seq(Passage) /\ Range(top) \subseteq Passage
    BY <2>1, OrderWidens, OrderIsSeq
  <2>3. known \in Orders(Passage)
    BY <2>2, SelectedTyped, OrderWidens
  <2> QED BY <2>2, <2>3, OrderIsSeq
<1>6. ASSUME NEW top \in Rankings(scored), NEW known \in Selected(top, content),
             Range(top) \subseteq content, Listing(q, known, known, Answer(q))
      PROVE  /\ query' \in [Queries -> Asked] /\ query'[q].mode = query[q].mode
             /\ query'[q].ids = known /\ query'[q].docs = known
             /\ query'[q].pc = Answer(q)
             /\ \A r \in Queries \ {q} : query'[r] = query[r]
  <2>1. Answer(q) \in QueryPcs
    BY AnswerPc DEF QueryPcs
  <2> QED BY <1>5, <1>6, <2>1, ListingEffect
<1>7. ASSUME NEW top \in Rankings(scored), NEW known \in Selected(top, content),
             ~(Range(top) \subseteq content),
             query' = [query EXCEPT ![q].pc = "texts", ![q].top = top,
                         ![q].missing = Range(top) \ content,
                         ![q].docs = known, ![q].ids = known]
      PROVE  /\ query' \in [Queries -> Asked] /\ query'[q].mode = query[q].mode
             /\ query'[q].ids = known /\ query'[q].docs = known
             /\ query'[q].pc = "texts" /\ query'[q].top = top
             /\ query'[q].missing = Range(top) \ content
             /\ \A r \in Queries \ {q} : query'[r] = query[r]
  <2>1. query'[q] = [query[q] EXCEPT !.pc = "texts", !.top = top,
                       !.missing = Range(top) \ content, !.docs = known, !.ids = known]
    BY <1>2, <1>7
  <2>2. query'[q] \in Asked
    BY <1>2, <1>5, <2>1, ZenonT(40) DEF Asked, QueryPcs
  <2> QED BY <1>2, <1>7, <2>1, <2>2 DEF Asked
<1>8. CASE \E top \in Rankings(scored) : \E known \in Selected(top, content) :
                IF Range(top) \ content = {}
                THEN Listing(q, known, known, Answer(q))
                ELSE query' = [query EXCEPT ![q].pc = "texts", ![q].top = top,
                         ![q].missing = Range(top) \ content,
                         ![q].docs = known, ![q].ids = known]
  <2>0. PICK top \in Rankings(scored) : \E known \in Selected(top, content) :
                IF Range(top) \ content = {}
                THEN Listing(q, known, known, Answer(q))
                ELSE query' = [query EXCEPT ![q].pc = "texts", ![q].top = top,
                         ![q].missing = Range(top) \ content,
                         ![q].docs = known, ![q].ids = known]
    BY <1>8
  <2>1. PICK known \in Selected(top, content) :
                IF Range(top) \ content = {}
                THEN Listing(q, known, known, Answer(q))
                ELSE query' = [query EXCEPT ![q].pc = "texts", ![q].top = top,
                         ![q].missing = Range(top) \ content,
                         ![q].docs = known, ![q].ids = known]
    BY <2>0
  <2>2. CASE Range(top) \subseteq content
    <3>1. Listing(q, known, known, Answer(q))
      BY <2>1, <2>2
    <3>2. /\ query' \in [Queries -> Asked] /\ query'[q].mode = query[q].mode
          /\ query'[q].ids = known /\ query'[q].docs = known
          /\ query'[q].pc = Answer(q)
          /\ \A r \in Queries \ {q} : query'[r] = query[r]
      BY <2>2, <3>1, <1>6
    <3> QED BY <1>1, <2>2, <3>2
  <2>3. CASE ~(Range(top) \subseteq content)
    <3>1. query' = [query EXCEPT ![q].pc = "texts", ![q].top = top,
                         ![q].missing = Range(top) \ content,
                         ![q].docs = known, ![q].ids = known]
      BY <2>1, <2>3
    <3>2. /\ query' \in [Queries -> Asked] /\ query'[q].mode = query[q].mode
          /\ query'[q].ids = known /\ query'[q].docs = known
          /\ query'[q].pc = "texts" /\ query'[q].top = top
          /\ query'[q].missing = Range(top) \ content
          /\ \A r \in Queries \ {q} : query'[r] = query[r]
      BY <2>3, <3>1, <1>7
    <3> QED BY <1>1, <2>3, <3>2
  <2> QED BY <2>2, <2>3
<1> QED BY <1>3, <1>4, <1>8

(* Texts found late are put behind the answer and into the text map.       *)
LEMMA ResolveEffect ==
    ASSUME TypeOK, ListInv, NEW q \in Queries, ResolveTexts(q)
    PROVE  \E late \in Orders(Passage) :
              /\ Range(late) \subseteq (query[q].missing \cap kv) \ content
              /\ content' = content \cup Range(late)
              /\ UNCHANGED <<memory, listed, ppr, ready, vdb, kv, lock, rewriter, past>>
              /\ query[q].pc = "texts" /\ query'[q].pc = Answer(q)
              /\ query' \in [Queries -> Asked] /\ query'[q].mode = query[q].mode
              /\ query'[q].ids = query[q].ids \o late
              /\ query'[q].docs = query'[q].ids
              /\ \A r \in Queries \ {q} : query'[r] = query[r]
<1>1. PICK late \in Found(q) :
        /\ content' = content \cup Range(late)
        /\ Listing(q, query[q].docs \o late, query[q].ids \o late, Answer(q))
  BY DEF ResolveTexts, Appending
<1>2. query[q] \in Asked /\ query[q].docs = query[q].ids
  BY DEF TypeOK, ListInv
<1>3. late \in Orders(Passage) /\ Range(late) \subseteq (query[q].missing \cap kv) \ content
  <2>1. CASE late = <<>>
    BY <2>1, EmptyOrder
  <2>2. CASE late \in Selected(query[q].top, (query[q].missing \cap kv) \ content)
    <3> DEFINE S == (query[q].missing \cap kv) \ content
    <3>1. S \subseteq Passage
      BY <1>2 DEF Asked
    <3>2. late \in Orders(Range(query[q].top) \cap S)
          /\ Range(late) = Range(query[q].top) \cap S
      BY <2>2, SelectedTyped
    <3> HIDE DEF S
    <3>3. late \in Orders(Passage) /\ Range(late) \subseteq S
      BY <3>1, <3>2, OrderWidens
    <3> QED BY <3>3 DEF S
  <2> QED BY <1>1, <2>1, <2>2 DEF Found
<1>4. query[q].ids \o late \in Seq(Passage) /\ Answer(q) \in QueryPcs
  BY <1>2, <1>3, OrderIsSeq, AnswerPc DEF Asked, QueryPcs
<1>5. Listing(q, query[q].ids \o late, query[q].ids \o late, Answer(q))
  BY <1>1, <1>2
<1>6. /\ query' \in [Queries -> Asked]
      /\ query'[q].pc = Answer(q) /\ query'[q].mode = query[q].mode
      /\ query'[q].ids = query[q].ids \o late /\ query'[q].docs = query[q].ids \o late
      /\ \A r \in Queries \ {q} : query'[r] = query[r]
  BY <1>4, <1>5, ListingEffect
<1>7. /\ UNCHANGED <<memory, listed, ppr, ready, vdb, kv, lock, rewriter, past>>
      /\ query[q].pc = "texts"
  BY DEF ResolveTexts
<1> QED BY <1>1, <1>3, <1>6, <1>7

LEMMA DenseEffect ==
    ASSUME TypeOK, NEW q \in Queries, DenseRetrieve(q)
    PROVE  \E hits \in Rankings(vdb) :
              /\ UNCHANGED <<engine, vdb, kv, lock, rewriter, past>>
              /\ query[q].pc = "dense" /\ query'[q].pc = Answer(q)
              /\ query' \in [Queries -> Asked] /\ query'[q].mode = query[q].mode
              /\ query'[q].ids = hits /\ query'[q].docs = hits
              /\ \A r \in Queries \ {q} : query'[r] = query[r]
<1>1. PICK hits \in Rankings(vdb) : Listing(q, hits, hits, Answer(q))
  BY DEF DenseRetrieve
<1>2. hits \in Seq(Passage)
  <2>1. hits \in Orders(vdb) /\ vdb \subseteq Passage
    BY DEF Rankings, TypeOK
  <2> QED BY <2>1, OrderWidens, OrderIsSeq
<1>3. Answer(q) \in QueryPcs
  BY AnswerPc DEF QueryPcs
<1>4. UNCHANGED <<engine, vdb, kv, lock, rewriter, past>> /\ query[q].pc = "dense"
  BY DEF DenseRetrieve
<1>5. /\ query' \in [Queries -> Asked]
      /\ query'[q].pc = Answer(q) /\ query'[q].mode = query[q].mode
      /\ query'[q].ids = hits /\ query'[q].docs = hits
      /\ \A r \in Queries \ {q} : query'[r] = query[r]
  BY <1>1, <1>2, <1>3, ListingEffect
<1> QED BY <1>4, <1>5

(* The modes a query may be asked in, by any of the three routes.          *)
LEMMA BeginEffect ==
    ASSUME TypeOK, NEW q \in Queries,
           \/ \E mode \in Modes : Ask(q, mode) \/ AskStreamed(q, mode)
           \/ AskData(q)
    PROVE  \E mode \in AllModes : \E point \in FirstSteps(mode) :
              /\ Begins(q)
              /\ UNCHANGED <<engine, vdb, kv, lock, rewriter>>
              /\ query[q].pc = "idle" /\ query'[q].pc = point
              /\ query' \in [Queries -> Asked] /\ query'[q].mode = mode
              /\ query'[q].ids = query[q].ids /\ query'[q].docs = query[q].docs
              /\ \A r \in Queries \ {q} : query'[r] = query[r]
<1>1. PICK mode \in AllModes : Begin(q, mode)
  <2>1. ASSUME NEW mode \in Modes, Ask(q, mode) \/ AskStreamed(q, mode)
        PROVE  \E m \in AllModes : Begin(q, m)
    BY <2>1, RetrievalAssumption DEF AllModes, Ask, AskStreamed
  <2>2. AskData(q) => \E m \in AllModes : Begin(q, m)
    BY DEF AskData, AllModes
  <2> QED BY <2>1, <2>2
<1>2. PICK point \in FirstSteps(mode) :
        query' = [query EXCEPT ![q].mode = mode, ![q].pc = point]
  BY <1>1 DEF Begin
<1>3. point \in QueryPcs
  BY <1>2 DEF FirstSteps, Entry, QueryPcs
<1>4. query[q] \in Asked /\ query \in [Queries -> Asked]
  BY DEF TypeOK
<1>5. query'[q] = [query[q] EXCEPT !.mode = mode, !.pc = point]
  BY <1>2, <1>4
<1>6. query'[q] \in Asked
  BY <1>3, <1>4, <1>5 DEF Asked
<1> QED BY <1>1, <1>2, <1>4, <1>5, <1>6 DEF Begin, Asked

(* The other steps of a query change no answer.                            *)
LEMMA StepEffect ==
    ASSUME TypeOK, NEW q \in Queries,
           AcquireCorpus(q) \/ PrepareLists(q) \/ PrepareEngine(q) \/ Read(q)
    PROVE  /\ query' \in [Queries -> Asked]
           /\ query'[q].mode = query[q].mode
           /\ query'[q].ids = query[q].ids /\ query'[q].docs = query[q].docs
           /\ \A r \in Queries \ {q} : query'[r] = query[r]
           /\ AcquireCorpus(q) => query'[q].pc = "load"
           /\ PrepareLists(q) => query'[q].pc = "engine"
           /\ PrepareEngine(q) => query'[q].pc = IF query[q].mode = "naive" THEN "dense" ELSE "facts"
           /\ Read(q) => query'[q].pc = "done"
<1> USE DEF QueryPcs
<1>1. CASE AcquireCorpus(q)
  <2>1. Goto(q, "load") /\ "load" \in QueryPcs /\ query[q].pc = "wait"
    BY <1>1 DEF AcquireCorpus
  <2> QED BY <2>1, GotoEffect DEF AcquireCorpus, PrepareLists, PrepareEngine, Read
<1>2. CASE PrepareLists(q)
  <2>1. Goto(q, "engine") /\ "engine" \in QueryPcs /\ query[q].pc = "load"
    BY <1>2 DEF PrepareLists
  <2> QED BY <2>1, GotoEffect DEF AcquireCorpus, PrepareLists, PrepareEngine, Read
<1>3. CASE PrepareEngine(q)
  <2>1. PICK point \in QueryPcs : Goto(q, point) /\ point = IF query[q].mode = "naive" THEN "dense" ELSE "facts"
    BY <1>3 DEF PrepareEngine
  <2>2. query[q].pc = "engine"
    BY <1>3 DEF PrepareEngine
  <2> QED BY <2>1, <2>2, GotoEffect DEF AcquireCorpus, PrepareLists, PrepareEngine, Read
<1>4. CASE Read(q)
  <2>1. Goto(q, "done") /\ "done" \in QueryPcs /\ query[q].pc = "read"
    BY <1>4 DEF Read
  <2> QED BY <2>1, GotoEffect DEF AcquireCorpus, PrepareLists, PrepareEngine, Read
<1> QED BY <1>1, <1>2, <1>3, <1>4

(* A query is dropped, answered or not.                                    *)
LEMMA EndEffect ==
    ASSUME TypeOK, NEW q \in Queries, QueryFails(q) \/ Leave(q)
    PROVE  Forgotten(q) /\ UNCHANGED <<engine, vdb, kv, rewriter>>
BY DEF QueryFails, Leave

(* A step of the rewriter changes no query, and what it installs is seen.  *)
LEMMA RewriteEffect ==
    ASSUME TypeOK, Rewrite
    PROVE  /\ query' = query
           /\ \/ /\ past' = past /\ ~Rewriting /\ ~Rewriting' /\ ready' = FALSE
                 /\ UNCHANGED <<memory, content, listed, ppr, vdb, kv>>
              \/ \E M \in SUBSET Passage :
                    /\ Disturb(M) /\ memory' \subseteq memory \cup M
                    /\ content' \subseteq content \cup M
                    /\ Rewriting' => goal' = M
<1>1. CASE \E P \in SUBSET Passage : BeginInsert(P)
  BY <1>1 DEF BeginInsert, Rewriting
<1>2. ASSUME NEW P \in SUBSET Passage, BeginDelete(P)
      PROVE  query' = query /\ \E M \in SUBSET Passage :
                /\ Disturb(M) /\ memory' \subseteq memory \cup M
                /\ content' \subseteq content \cup M
                /\ Rewriting' => goal' = M
  BY <1>2 DEF BeginDelete, TypeOK
<1>3. CASE EnterInsert \/ DropVectors \/ SyncStores \/ SwapLists \/ SwapMemory
           \/ \E cleared \in BOOLEAN : ForgetCorpus(cleared)
  <2>1. /\ Disturb(goal) /\ query' = query /\ goal' = goal
        /\ memory' \in {memory, goal, {}} /\ content' \in {content, goal, {}}
    BY <1>3 DEF EnterInsert, DropVectors, SyncStores, SwapLists, SwapMemory, ForgetCorpus
  <2> QED BY <2>1 DEF TypeOK
<1> QED BY <1>1, <1>2, <1>3 DEF Rewrite

LEMMA TypeNext == ASSUME TypeOK, ListInv, [Next]_vars PROVE TypeOK'
<1>1. CASE Rewrite
  <2>1. query' \in [Queries -> Asked] /\ past' \in History
    BY <1>1, RewriteEffect, DisturbEffect DEF TypeOK
  <2>2. /\ memory' \subseteq Passage /\ goal' \subseteq Passage
        /\ vdb' \subseteq Passage /\ kv' \subseteq Passage
        /\ content' \subseteq Passage /\ listed' \subseteq Passage
        /\ ppr' = NoEngine \/ ppr' \subseteq Passage
        /\ ready' \in BOOLEAN /\ rewrites' \in Nat
    <3>1. ASSUME NEW P \in SUBSET Passage, BeginInsert(P)
          PROVE  /\ UNCHANGED <<memory, vdb, kv, content, listed, ppr>>
                 /\ goal' \subseteq Passage /\ ready' \in BOOLEAN /\ rewrites' \in Nat
      <4>1. /\ UNCHANGED <<memory, vdb, kv, content, listed, ppr>> /\ ready' = FALSE
            /\ goal' = memory \cup P /\ rewrites' = rewrites + 1
        BY <3>1 DEF BeginInsert
      <4>2. memory \subseteq Passage /\ rewrites \in Nat
        BY DEF TypeOK
      <4>3. goal' \subseteq Passage /\ ready' \in BOOLEAN
        BY <4>1, <4>2
      <4>4. rewrites' \in Nat
        BY <4>1, <4>2
      <4> QED BY <4>1, <4>3, <4>4
    <3>0. ASSUME NEW P \in SUBSET Passage, BeginDelete(P)
          PROVE  /\ UNCHANGED <<memory, vdb, content, listed, ppr, ready>>
                 /\ goal' \subseteq Passage /\ kv' \subseteq Passage /\ rewrites' \in Nat
      BY <3>0 DEF BeginDelete, TypeOK
    <3>2. CASE EnterInsert \/ DropVectors \/ SyncStores
      BY <3>2 DEF EnterInsert, DropVectors, SyncStores, TypeOK
    <3>3. CASE SwapLists \/ SwapMemory \/ \E cleared \in BOOLEAN : ForgetCorpus(cleared)
      BY <3>3 DEF SwapLists, SwapMemory, ForgetCorpus, TypeOK
    <3> QED BY <1>1, <3>0, <3>1, <3>2, <3>3 DEF Rewrite, TypeOK
  <2> QED BY <2>1, <2>2 DEF TypeOK
<1>2. ASSUME NEW q \in Queries,
             \/ \E mode \in Modes : Ask(q, mode) \/ AskStreamed(q, mode)
             \/ AskData(q)
      PROVE  TypeOK'
  BY <1>2, BeginEffect, BeginsEffect DEF TypeOK
<1>3. ASSUME NEW q \in Queries, AcquireCorpus(q) \/ Read(q) PROVE TypeOK'
  BY <1>3, StepEffect DEF AcquireCorpus, Read, TypeOK
<1>4. ASSUME NEW q \in Queries, PrepareLists(q) PROVE TypeOK'
  BY <1>4, StepEffect, PreparesEffect DEF PrepareLists, TypeOK
<1>5. ASSUME NEW q \in Queries, PrepareEngine(q) PROVE TypeOK'
  BY <1>5, StepEffect, PreparedEffect DEF PrepareEngine, TypeOK
<1>6. ASSUME NEW q \in Queries,
             \/ \E hits \in BoundedSeq(BOOLEAN, LinkingTopK),
                   picked \in SUBSET (0..(LinkingTopK + 1)) : LinkFacts(q, hits, picked)
             \/ \E seeded \in BOOLEAN : LinkSchemas(q, seeded)
      PROVE  TypeOK'
  BY <1>6, LinkEffect DEF TypeOK
<1>7. ASSUME NEW q \in Queries, Rank(q) PROVE TypeOK'
  BY <1>7, RankEffect DEF TypeOK
<1>8. ASSUME NEW q \in Queries, ResolveTexts(q) PROVE TypeOK'
  BY <1>8, ResolveEffect DEF TypeOK
<1>9. ASSUME NEW q \in Queries, DenseRetrieve(q) PROVE TypeOK'
  BY <1>9, DenseEffect DEF TypeOK
<1>10. ASSUME NEW q \in Queries, QueryFails(q) \/ Leave(q) PROVE TypeOK'
  BY <1>10, EndEffect, ForgottenEffect DEF TypeOK
<1>11. CASE UNCHANGED vars
  BY <1>11 DEF vars, TypeOK
<1> QED BY <1>1, <1>2, <1>3, <1>4, <1>5, <1>6, <1>7, <1>8, <1>9, <1>10, <1>11 DEF Next, Serve

----------------------------------------------------------------------------
(* Alignment.                                                              *)

LEMMA ListInit == ASSUME Init PROVE ListInv
BY EmptyOrder DEF Init, ListInv, NotAsked

(* Two parts of one ranking without a common passage make one without      *)
(* repetition.                                                             *)
LEMMA AppendOrder ==
    ASSUME NEW s \in Orders(Passage), NEW t \in Orders(Passage), NEW top \in Orders(Passage),
           Range(s) \subseteq Range(top), Range(t) \subseteq Range(top),
           Range(s) \cap Range(t) = {}
    PROVE  /\ s \o t \in Orders(Passage)
           /\ Range(s \o t) = Range(s) \cup Range(t)
<1>1. /\ s \in Seq(Passage) /\ t \in Seq(Passage) /\ top \in Seq(Passage)
      /\ Len(s) \in Nat /\ Len(t) \in Nat /\ Len(top) \in Nat /\ Len(top) <= TopK
      /\ DOMAIN s = 1..Len(s) /\ DOMAIN t = 1..Len(t)
      /\ IsInjective(s) /\ IsInjective(t)
  BY OrderIsSeq
<1> DEFINE u == s \o t
<1>2. /\ u \in Seq(Passage) /\ Len(u) = Len(s) + Len(t) /\ DOMAIN u = 1..Len(s) + Len(t)
      /\ \A i \in 1..Len(s) : u[i] = s[i]
      /\ \A i \in 1..Len(t) : u[Len(s) + i] = t[i]
      /\ \A i \in (Len(s) + 1)..(Len(s) + Len(t)) : u[i] = t[i - Len(s)]
  BY <1>1
<1> HIDE DEF u
<1>3. Range(u) = Range(s) \cup Range(t)
  <2>1. ASSUME NEW i \in DOMAIN u PROVE u[i] \in Range(s) \cup Range(t)
    <3>1. CASE i \in 1..Len(s)
      BY <1>1, <1>2, <3>1 DEF Range
    <3>2. CASE i \notin 1..Len(s)
      <4>1. i - Len(s) \in 1..Len(t) /\ u[i] = t[i - Len(s)]
        BY <1>1, <1>2, <3>2
      <4> QED BY <1>1, <4>1 DEF Range
    <3> QED BY <3>1, <3>2
  <2>2. ASSUME NEW i \in DOMAIN s PROVE s[i] \in Range(u)
    BY <1>1, <1>2 DEF Range
  <2>3. ASSUME NEW i \in DOMAIN t PROVE t[i] \in Range(u)
    <3>1. Len(s) + i \in DOMAIN u /\ u[Len(s) + i] = t[i]
      BY <1>1, <1>2
    <3> QED BY <3>1 DEF Range
  <2> QED BY <2>1, <2>2, <2>3 DEF Range
<1>4. IsInjective(u)
  <2> SUFFICES ASSUME NEW i \in DOMAIN u, NEW j \in DOMAIN u, u[i] = u[j] PROVE i = j
    BY DEF IsInjective
  <2>1. \A k \in DOMAIN u :
          \/ k \in 1..Len(s) /\ u[k] = s[k] /\ u[k] \in Range(s)
          \/ /\ k - Len(s) \in 1..Len(t) /\ u[k] = t[k - Len(s)] /\ u[k] \in Range(t)
             /\ k \in Nat
    <3> SUFFICES ASSUME NEW k \in DOMAIN u
                 PROVE  \/ k \in 1..Len(s) /\ u[k] = s[k] /\ u[k] \in Range(s)
                        \/ /\ k - Len(s) \in 1..Len(t) /\ u[k] = t[k - Len(s)] /\ u[k] \in Range(t)
                           /\ k \in Nat
      OBVIOUS
    <3>1. CASE k \in 1..Len(s)
      BY <1>1, <1>2, <3>1 DEF Range
    <3>2. CASE k \notin 1..Len(s)
      <4>1. k - Len(s) \in 1..Len(t) /\ u[k] = t[k - Len(s)] /\ k \in Nat
        BY <1>1, <1>2, <3>2
      <4> QED BY <1>1, <4>1 DEF Range
    <3> QED BY <3>1, <3>2
  <2>2. CASE i \in 1..Len(s) /\ u[i] = s[i] /\ u[i] \in Range(s)
    <3>1. j \in 1..Len(s) /\ u[j] = s[j]
      BY <2>1, <2>2
    <3> QED BY <1>1, <2>2, <3>1 DEF IsInjective
  <2>3. CASE /\ i - Len(s) \in 1..Len(t) /\ u[i] = t[i - Len(s)] /\ u[i] \in Range(t)
             /\ i \in Nat
    <3>1. j - Len(s) \in 1..Len(t) /\ u[j] = t[j - Len(s)] /\ j \in Nat
      BY <2>1, <2>3
    <3>2. i - Len(s) = j - Len(s)
      BY <1>1, <2>3, <3>1 DEF IsInjective
    <3> QED BY <1>1, <2>3, <3>1, <3>2
  <2> QED BY <2>1, <2>2, <2>3
<1>5. Len(u) <= TopK
  <2>1. Len(u) <= Len(top)
    BY <1>1, <1>2, <1>3, <1>4, NoLonger
  <2> QED BY <2>1, <1>1, <1>2, RetrievalAssumption
<1>6. u \in Orders(Passage)
  BY <1>2, <1>4, <1>5, SeqIsOrder
<1> QED BY <1>3, <1>6 DEF u

LEMMA ListNext == ASSUME TypeOK, ListInv, [Next]_vars PROVE ListInv'
<1>1. CASE Rewrite
  BY <1>1, RewriteEffect DEF ListInv
<1>2. ASSUME NEW q \in Queries,
             \A r \in Queries \ {q} : query'[r] = query[r],
             query'[q].docs = query'[q].ids, query'[q].ids \in Orders(Passage),
             query'[q].pc # "texts"
      PROVE  ListInv'
  BY <1>2 DEF ListInv
<1>3. ASSUME NEW q \in Queries,
             \A r \in Queries \ {q} : query'[r] = query[r],
             query'[q].docs = query[q].docs, query'[q].ids = query[q].ids,
             query'[q].pc # "texts"
      PROVE  ListInv'
  BY <1>2, <1>3 DEF ListInv
<1>4. ASSUME NEW q \in Queries,
             \/ \E mode \in Modes : Ask(q, mode) \/ AskStreamed(q, mode)
             \/ AskData(q)
      PROVE  ListInv'
  <2>1. \A mode \in AllModes : "texts" \notin FirstSteps(mode)
    BY DEF FirstSteps, Entry
  <2> QED BY <1>3, <1>4, <2>1, BeginEffect
<1>5. ASSUME NEW q \in Queries,
             AcquireCorpus(q) \/ PrepareLists(q) \/ PrepareEngine(q) \/ Read(q)
      PROVE  ListInv'
  <2>1. query'[q].pc # "texts"
    BY <1>5, StepEffect
  <2> QED BY <1>3, <1>5, <2>1, StepEffect
<1>6. ASSUME NEW q \in Queries,
             \/ \E hits \in BoundedSeq(BOOLEAN, LinkingTopK),
                   picked \in SUBSET (0..(LinkingTopK + 1)) : LinkFacts(q, hits, picked)
             \/ \E seeded \in BOOLEAN : LinkSchemas(q, seeded)
      PROVE  ListInv'
  BY <1>3, <1>6, LinkEffect
<1>7. ASSUME NEW q \in Queries, Rank(q) PROVE ListInv'
  <2>1. CASE /\ query'[q].pc = "dense"
             /\ query'[q].ids = query[q].ids /\ query'[q].docs = query[q].docs
    BY <1>3, <1>7, <2>1, RankEffect
  <2>2. ASSUME NEW scored \in Scored, NEW top \in Rankings(scored),
               NEW known \in Selected(top, content),
               query'[q].ids = known, query'[q].docs = known,
               \/ Range(top) \subseteq content /\ query'[q].pc = Answer(q)
               \/ /\ query'[q].pc = "texts" /\ query'[q].top = top
                  /\ query'[q].missing = Range(top) \ content
        PROVE  ListInv'
    <3>1. top \in Orders(Passage)
      BY ScoredTyped, OrderWidens DEF Rankings
    <3>2. known \in Orders(Passage) /\ Range(known) = Range(top) \cap content
      <4>1. known \in Orders(Range(top) \cap content) /\ Range(known) = Range(top) \cap content
        BY SelectedTyped
      <4>2. Range(top) \cap content \subseteq Passage
        BY <3>1, OrderIsSeq
      <4> QED BY <4>1, <4>2, OrderWidens
    <3> QED BY <1>7, <2>2, <3>1, <3>2, RankEffect DEF ListInv, Answer
  <2> QED BY <1>7, <2>1, <2>2, RankEffect
<1>8. ASSUME NEW q \in Queries, ResolveTexts(q) PROVE ListInv'
  <2>1. PICK late \in Orders(Passage) :
              /\ Range(late) \subseteq (query[q].missing \cap kv) \ content
              /\ query[q].pc = "texts" /\ query'[q].pc = Answer(q)
              /\ query'[q].ids = query[q].ids \o late
              /\ query'[q].docs = query'[q].ids
              /\ \A r \in Queries \ {q} : query'[r] = query[r]
    BY <1>8, ResolveEffect
  <2>2. query'[q].ids \in Orders(Passage)
    <3>1. /\ query[q].ids \in Orders(Passage) /\ query[q].top \in Orders(Passage)
          /\ Range(query[q].ids) \subseteq Range(query[q].top)
          /\ Range(late) \subseteq Range(query[q].top)
          /\ Range(query[q].ids) \cap Range(late) = {}
      BY <2>1 DEF ListInv
    <3> QED BY <2>1, <3>1, AppendOrder
  <2> QED BY <1>2, <2>1, <2>2, AnswerPc
<1>9. ASSUME NEW q \in Queries, DenseRetrieve(q) PROVE ListInv'
  <2>1. PICK hits \in Rankings(vdb) :
              /\ query'[q].pc = Answer(q)
              /\ query'[q].ids = hits /\ query'[q].docs = hits
              /\ \A r \in Queries \ {q} : query'[r] = query[r]
    BY <1>9, DenseEffect
  <2>2. hits \in Orders(Passage)
    BY OrderWidens DEF Rankings, TypeOK
  <2> QED BY <1>2, <2>1, <2>2, AnswerPc
<1>10. ASSUME NEW q \in Queries, QueryFails(q) \/ Leave(q) PROVE ListInv'
  BY <1>2, <1>10, EndEffect, ForgottenEffect, EmptyOrder DEF NotAsked
<1>11. CASE UNCHANGED vars
  BY <1>11 DEF vars, ListInv
<1> QED BY <1>1, <1>4, <1>5, <1>6, <1>7, <1>8, <1>9, <1>10, <1>11 DEF Next, Serve

----------------------------------------------------------------------------
(* The stores.                                                             *)

LEMMA StoreInit == ASSUME Init PROVE StoreInv
BY DEF Init, StoreInv, Rewriting

LEMMA ServeStores ==
    ASSUME TypeOK, ListInv, NEW q \in Queries, Serve(q)
    PROVE  UNCHANGED <<memory, vdb, kv, rewriter>>
<1>1. CASE \/ \E mode \in Modes : Ask(q, mode) \/ AskStreamed(q, mode)
           \/ AskData(q)
  BY <1>1, BeginEffect
<1>2. CASE AcquireCorpus(q) \/ PrepareLists(q) \/ PrepareEngine(q) \/ Read(q)
  BY <1>2 DEF AcquireCorpus, PrepareLists, PrepareEngine, Read
<1>3. CASE \/ \E hits \in BoundedSeq(BOOLEAN, LinkingTopK),
                 picked \in SUBSET (0..(LinkingTopK + 1)) : LinkFacts(q, hits, picked)
           \/ \E seeded \in BOOLEAN : LinkSchemas(q, seeded)
  BY <1>3, LinkEffect
<1>4. CASE Rank(q) \/ ResolveTexts(q) \/ DenseRetrieve(q)
  BY <1>4, RankEffect, ResolveEffect, DenseEffect
<1>5. CASE QueryFails(q) \/ Leave(q)
  BY <1>5, EndEffect
<1> QED BY <1>1, <1>2, <1>3, <1>4, <1>5 DEF Serve

LEMMA StoreNext == ASSUME TypeOK, ListInv, StoreInv, [Next]_vars PROVE StoreInv'
<1>1. CASE Rewrite
  <2> USE DEF StoreInv, Rewriting
  <2>1. CASE \E P \in SUBSET Passage : BeginInsert(P)
    BY <2>1 DEF BeginInsert
  <2>2. CASE \E P \in SUBSET Passage : BeginDelete(P)
    BY <2>2 DEF BeginDelete
  <2>3. CASE EnterInsert
    BY <2>3 DEF EnterInsert
  <2>4. CASE DropVectors
    BY <2>4 DEF DropVectors
  <2>5. CASE SyncStores \/ SwapLists
    BY <2>5 DEF SyncStores, SwapLists
  <2>6. CASE SwapMemory \/ \E cleared \in BOOLEAN : ForgetCorpus(cleared)
    BY <2>6 DEF SwapMemory, ForgetCorpus
  <2> QED BY <1>1, <2>1, <2>2, <2>3, <2>4, <2>5, <2>6 DEF Rewrite
<1>2. CASE UNCHANGED <<memory, vdb, kv, rewriter>>
  BY <1>2 DEF StoreInv, Rewriting
<1> QED BY <1>1, <1>2, ServeStores DEF Next, vars

(* The stores hold passages of the memory or of what replaces it.          *)
LEMMA StoredInCorpora == ASSUME StoreInv PROVE vdb \subseteq Corpora /\ kv \subseteq Corpora
BY DEF StoreInv, Corpora, Rewriting

----------------------------------------------------------------------------
(* What queries have seen.                                                 *)

LEMMA SeenInit == ASSUME Init PROVE SeenInv
BY DEF Init, SeenInv, Running, NotAsked

(* What a step of one query leaves of another one, and of the engine.      *)
LEMMA OtherEffect ==
    ASSUME TypeOK, ListInv, StoreInv, NEW q \in Queries, Serve(q), NEW r \in Queries, r # q
    PROVE  /\ query'[r] = query[r]
           /\ past'.seen[r] = past.seen[r] /\ past'.disturbed[r] = past.disturbed[r]
           /\ past'.mixed[r] = past.mixed[r]
           /\ past.torn[r] => past'.torn[r]
           /\ ~Running(r) => past'.torn[r] = past.torn[r]
           /\ content' \subseteq content \cup Corpora
           /\ ~Rewriting /\ content = memory => content' = memory
           /\ listed' = listed \/ listed' = memory
           /\ \/ ppr' = ppr
              \/ ppr' = listed /\ (past.mixed[q] /\ Running(r) => past'.torn[r])
                 /\ query[q].pc = "engine"
<1>0. past.torn[r] \in BOOLEAN
  BY DEF TypeOK, History
<1>1. CASE \/ \E mode \in Modes : Ask(q, mode) \/ AskStreamed(q, mode)
           \/ AskData(q)
  BY <1>1, BeginEffect, BeginsEffect
<1>2. CASE AcquireCorpus(q) \/ Read(q)
  BY <1>2, StepEffect DEF AcquireCorpus, Read
<1>3. CASE PrepareLists(q)
  <2>1. Prepares(q) /\ content' = memory /\ listed' = memory /\ ppr' = ppr
    BY <1>3 DEF PrepareLists
  <2>2. /\ past'.seen = past.seen /\ past'.mixed[r] = past.mixed[r]
        /\ past'.disturbed[r] = past.disturbed[r]
        /\ past'.torn[r] = (past.torn[r] \/ (Running(r) /\ Rewriting))
    BY <2>1, PreparesEffect
  <2> QED BY <1>0, <1>3, <2>1, <2>2, StepEffect DEF Corpora
<1>4. CASE PrepareEngine(q)
  <2>1. /\ Prepared(q) /\ content' = content /\ listed' = listed /\ ppr' = listed
        /\ query[q].pc = "engine"
    BY <1>4 DEF PrepareEngine
  <2>2. /\ past'.seen = past.seen /\ past'.mixed = past.mixed
        /\ past'.disturbed = past.disturbed
        /\ past'.torn[r] = ((past.mixed[q] /\ Running(r)) \/ past.torn[r])
    BY <2>1, PreparedEffect
  <2> QED BY <1>0, <1>4, <2>1, <2>2, StepEffect
<1>5. CASE \/ \E hits \in BoundedSeq(BOOLEAN, LinkingTopK),
                 picked \in SUBSET (0..(LinkingTopK + 1)) : LinkFacts(q, hits, picked)
           \/ \E seeded \in BOOLEAN : LinkSchemas(q, seeded)
  BY <1>5, LinkEffect
<1>6. CASE Rank(q) \/ DenseRetrieve(q)
  BY <1>6, RankEffect, DenseEffect
<1>7. CASE ResolveTexts(q)
  BY <1>7, ResolveEffect, StoredInCorpora DEF StoreInv
<1>8. CASE QueryFails(q) \/ Leave(q)
  BY <1>8, EndEffect, ForgottenEffect
<1> QED BY <1>1, <1>2, <1>3, <1>4, <1>5, <1>6, <1>7, <1>8 DEF Serve

LEMMA SeenNext == ASSUME TypeOK, ListInv, StoreInv, SeenInv, [Next]_vars PROVE SeenInv'
<1>1. CASE Rewrite
  <2> SUFFICES ASSUME NEW q \in Queries, Running(q)'
               PROVE  /\ Corpora' \subseteq past'.seen[q]
                      /\ ~past'.disturbed[q] => ~Rewriting' /\ past'.seen[q] = memory'
    BY DEF SeenInv
  <2>1. Running(q) /\ Corpora \subseteq past.seen[q] /\ memory \subseteq past.seen[q]
    BY <1>1, RewriteEffect DEF Running, SeenInv, Corpora
  <2>2. CASE /\ past' = past /\ ~Rewriting /\ ~Rewriting'
             /\ UNCHANGED <<memory, content, listed, ppr, vdb, kv>>
    BY <2>1, <2>2 DEF SeenInv, Corpora
  <2>3. ASSUME NEW M \in SUBSET Passage, Disturb(M), memory' \subseteq memory \cup M,
               Rewriting' => goal' = M
        PROVE  Corpora' \subseteq past'.seen[q] /\ past'.disturbed[q]
    BY <2>1, <2>3, DisturbEffect DEF Corpora
  <2> QED BY <1>1, <2>2, <2>3, RewriteEffect
<1>2. ASSUME NEW q \in Queries, Serve(q) PROVE SeenInv'
  <2> SUFFICES ASSUME NEW r \in Queries, Running(r)'
               PROVE  /\ Corpora' \subseteq past'.seen[r]
                      /\ ~past'.disturbed[r] => ~Rewriting' /\ past'.seen[r] = memory'
    BY DEF SeenInv
  <2>1. Corpora' = Corpora /\ Rewriting' = Rewriting /\ memory' = memory
    BY <1>2, ServeStores DEF Corpora, Rewriting
  <2>2. CASE r # q
    BY <1>2, <2>1, <2>2, OtherEffect DEF SeenInv, Running
  <2>3. CASE r = q /\ Running(q) /\ past'.seen[q] = past.seen[q]
             /\ (past.disturbed[q] => past'.disturbed[q])
    BY <2>1, <2>3 DEF SeenInv
  <2>4. CASE \/ \E mode \in Modes : Ask(q, mode) \/ AskStreamed(q, mode)
             \/ AskData(q)
    BY <2>1, <2>2, <2>4, BeginEffect, BeginsEffect DEF Corpora
  <2>5. CASE AcquireCorpus(q) \/ PrepareEngine(q) \/ Read(q)
    BY <2>2, <2>3, <2>5, PreparedEffect DEF AcquireCorpus, PrepareEngine, Read, Running
  <2>6. CASE PrepareLists(q)
    BY <2>2, <2>3, <2>6, PreparesEffect DEF PrepareLists, Running
  <2>7. CASE \/ \E hits \in BoundedSeq(BOOLEAN, LinkingTopK),
                   picked \in SUBSET (0..(LinkingTopK + 1)) : LinkFacts(q, hits, picked)
             \/ \E seeded \in BOOLEAN : LinkSchemas(q, seeded)
    BY <2>2, <2>3, <2>7, LinkEffect DEF Running
  <2>8. CASE Rank(q) \/ ResolveTexts(q) \/ DenseRetrieve(q)
    BY <2>2, <2>3, <2>8, RankEffect, ResolveEffect, DenseEffect DEF Running
  <2>9. CASE QueryFails(q) \/ Leave(q)
    BY <2>2, <2>9, EndEffect, ForgottenEffect DEF Running, NotAsked
  <2> QED BY <1>2, <2>4, <2>5, <2>6, <2>7, <2>8, <2>9 DEF Serve
<1>3. CASE UNCHANGED vars
  BY <1>3 DEF vars, SeenInv, Running, Corpora, Rewriting
<1> QED BY <1>1, <1>2, <1>3 DEF Next

----------------------------------------------------------------------------
(* The prepared engine.                                                    *)

LEMMA EngineInit == ASSUME Init PROVE EngineInv
BY DEF Init, EngineInv, NotAsked

LEMMA EngineRewrite == ASSUME TypeOK, StoreInv, EngineInv, Rewrite PROVE EngineInv'
<1>1. CASE \E P \in SUBSET Passage : BeginInsert(P)
  BY <1>1 DEF BeginInsert, EngineInv, Rewriting
<1>2. ASSUME NEW M \in SUBSET Passage, Disturb(M), query' = query,
             ready' => ready /\ Rewriting' /\ content' \subseteq Corpora'
      PROVE  EngineInv'
  <2>1. \A q \in Queries : At(q, "engine")' => past'.mixed[q]
    BY <1>2, DisturbEffect
  <2>2. past'.engineTorn = past.engineTorn
    BY <1>2, DisturbEffect
  <2> QED BY <1>2, <2>1, <2>2 DEF EngineInv
<1>3. ASSUME NEW P \in SUBSET Passage, BeginDelete(P) PROVE EngineInv'
  <2>1. CASE ready /\ past.engineTorn
    <3>1. Disturb(memory \ P) /\ query' = query /\ past'.engineTorn
      BY <1>3, <2>1, DisturbEffect DEF BeginDelete, TypeOK
    <3>2. \A q \in Queries : At(q, "engine")' => past'.mixed[q]
      BY <3>1, DisturbEffect DEF TypeOK
    <3> QED BY <3>1, <3>2 DEF EngineInv
  <2>2. CASE ~(ready /\ past.engineTorn)
    BY <1>2, <1>3, <2>2 DEF BeginDelete, EngineInv, Corpora, Rewriting, TypeOK
  <2> QED BY <2>1, <2>2
<1>4. CASE EnterInsert \/ DropVectors \/ SyncStores
  <2>1. CASE ready /\ past.engineTorn
    <3>1. Disturb(goal) /\ query' = query /\ past'.engineTorn
      BY <1>4, <2>1, DisturbEffect DEF EnterInsert, DropVectors, SyncStores, TypeOK
    <3>2. \A q \in Queries : At(q, "engine")' => past'.mixed[q]
      BY <3>1, DisturbEffect DEF TypeOK
    <3> QED BY <3>1, <3>2 DEF EngineInv
  <2>2. CASE ~(ready /\ past.engineTorn)
    <3>1. Disturb(goal) /\ query' = query /\ ready' = ready /\ Rewriting'
          /\ content' = content /\ goal' = goal /\ memory' = memory
      BY <1>4 DEF EnterInsert, DropVectors, SyncStores, Rewriting
    <3>2. ready => content \subseteq Corpora'
      BY <2>2, <3>1 DEF EngineInv, Corpora
    <3> QED BY <1>2, <3>1, <3>2 DEF TypeOK
  <2> QED BY <2>1, <2>2
<1>5. CASE SwapLists
  BY <1>2, <1>5 DEF SwapLists, Corpora, Rewriting, TypeOK
<1>6. CASE SwapMemory \/ \E cleared \in BOOLEAN : ForgetCorpus(cleared)
  BY <1>2, <1>6 DEF SwapMemory, ForgetCorpus, TypeOK
<1> QED BY <1>1, <1>3, <1>4, <1>5, <1>6 DEF Rewrite

LEMMA EngineServe ==
    ASSUME TypeOK, ListInv, StoreInv, EngineInv, NEW q \in Queries, Serve(q)
    PROVE  EngineInv'
<1>1. /\ memory' = memory /\ Corpora' = Corpora /\ Rewriting' = Rewriting
  BY ServeStores DEF Corpora, Rewriting
<1>2. \A r \in Queries : r # q /\ At(r, "engine")' /\ ~past'.mixed[r] =>
        ~Rewriting' /\ listed' = memory' /\ content' = memory'
  BY <1>1, OtherEffect DEF EngineInv
<1>3. ASSUME query'[q].pc # "engine", UNCHANGED engine, past'.engineTorn = past.engineTorn
      PROVE  EngineInv'
  BY <1>1, <1>2, <1>3 DEF EngineInv
<1>4. CASE \/ \E mode \in Modes : Ask(q, mode) \/ AskStreamed(q, mode)
           \/ AskData(q)
  <2>1. \A mode \in AllModes : "engine" \notin FirstSteps(mode)
    BY DEF FirstSteps, Entry
  <2> QED BY <1>3, <1>4, <2>1, BeginEffect, BeginsEffect
<1>5. CASE AcquireCorpus(q) \/ Read(q)
  <2>1. query'[q].pc # "engine"
    BY <1>5, StepEffect
  <2> QED BY <1>3, <1>5, <2>1 DEF AcquireCorpus, Read
<1>6. CASE PrepareLists(q)
  <2>1. /\ content' = memory /\ listed' = memory /\ ppr' = ppr /\ ready' = ready
        /\ past'.mixed[q] = Rewriting /\ past'.engineTorn = past.engineTorn
    BY <1>6, PreparesEffect DEF PrepareLists
  <2> QED BY <1>1, <1>2, <2>1 DEF EngineInv, Corpora
<1>7. CASE PrepareEngine(q)
  <2>1. /\ content' = content /\ ppr' = listed /\ past'.engineTorn = past.mixed[q]
        /\ At(q, "engine") /\ query'[q].pc # "engine"
    <3>1. Prepared(q) /\ content' = content /\ ppr' = listed /\ At(q, "engine")
      BY <1>7 DEF PrepareEngine
    <3>2. query'[q].pc = IF query[q].mode = "naive" THEN "dense" ELSE "facts"
      BY <1>7, StepEffect
    <3>3. past'.engineTorn = past.mixed[q]
      BY <3>1, PreparedEffect
    <3> QED BY <3>1, <3>2, <3>3
  <2>2. ~past.mixed[q] => listed = memory /\ content = memory
    BY <2>1 DEF EngineInv
  <2> QED BY <1>1, <1>2, <2>1, <2>2 DEF EngineInv, Corpora
<1>8. CASE \/ \E hits \in BoundedSeq(BOOLEAN, LinkingTopK),
                 picked \in SUBSET (0..(LinkingTopK + 1)) : LinkFacts(q, hits, picked)
           \/ \E seeded \in BOOLEAN : LinkSchemas(q, seeded)
  BY <1>3, <1>8, LinkEffect
<1>9. CASE Rank(q) \/ DenseRetrieve(q)
  BY <1>3, <1>9, RankEffect, DenseEffect, AnswerPc
<1>10. CASE ResolveTexts(q)
  <2>1. PICK late : /\ Range(late) \subseteq kv /\ content' = content \cup Range(late)
                    /\ UNCHANGED <<listed, ppr, ready, past>>
                    /\ query'[q].pc = Answer(q)
    BY <1>10, ResolveEffect
  <2>2. kv \subseteq Corpora /\ (~Rewriting => kv = memory)
    BY StoredInCorpora DEF StoreInv
  <2>3. query'[q].pc # "engine"
    BY <2>1, AnswerPc
  <2> QED BY <1>1, <1>2, <2>1, <2>2, <2>3 DEF EngineInv
<1>11. CASE QueryFails(q) \/ Leave(q)
  <2>1. query'[q].pc # "engine"
    BY <1>11, EndEffect, ForgottenEffect DEF NotAsked
  <2> QED BY <1>3, <1>11, <2>1, EndEffect, ForgottenEffect
<1> QED BY <1>4, <1>5, <1>6, <1>7, <1>8, <1>9, <1>10, <1>11 DEF Serve

LEMMA EngineNext ==
    ASSUME TypeOK, ListInv, StoreInv, EngineInv, [Next]_vars PROVE EngineInv'
<1>1. CASE UNCHANGED vars
  BY <1>1 DEF vars, EngineInv, Corpora, Rewriting
<1> QED BY <1>1, EngineRewrite, EngineServe DEF Next

----------------------------------------------------------------------------
(* What is answered with.                                                  *)

LEMMA UseInit == ASSUME Init PROVE UseInv
BY DEF Init, UseInv, Works, NotAsked, PastPreparation

(* A rewrite disturbs every query that runs, so only what was seen counts. *)
LEMMA UseRewrite == ASSUME TypeOK, UseInv, Rewrite PROVE UseInv'
<1> SUFFICES ASSUME NEW q \in Queries, query'[q].mode # "bypass" PROVE Works(q)'
  BY DEF UseInv
<1>1. query' = query /\ Works(q)
  BY RewriteEffect DEF UseInv
<1>2. CASE past' = past /\ UNCHANGED <<memory, content, ppr>>
  BY <1>1, <1>2 DEF Works
<1>3. ASSUME NEW M \in SUBSET Passage, Disturb(M), content' \subseteq content \cup M
      PROVE  Works(q)'
  <2>1. CASE Running(q)
    <3>1. past'.disturbed[q] /\ past'.seen[q] = past.seen[q] \cup M /\ past'.torn = past.torn
      BY <1>3, <2>1, DisturbEffect
    <3> QED BY <1>1, <1>3, <2>1, <3>1 DEF Works, PastPreparation, Running
  <2>2. CASE ~Running(q)
    <3>1. /\ past'.disturbed[q] = past.disturbed[q] /\ past'.seen[q] = past.seen[q]
          /\ past'.torn = past.torn
      <4>1. past.disturbed[q] \in BOOLEAN
        BY DEF TypeOK, History
      <4> QED BY <1>3, <2>2, <4>1, DisturbEffect
    <3> QED BY <1>1, <1>3, <2>2, <3>1 DEF Works, PastPreparation, Running
  <2> QED BY <2>1, <2>2
<1> QED BY <1>2, <1>3, RewriteEffect

LEMMA UseOther ==
    ASSUME TypeOK, ListInv, StoreInv, SeenInv, EngineInv, UseInv,
           NEW q \in Queries, Serve(q), NEW r \in Queries, r # q, query'[r].mode # "bypass"
    PROVE  Works(r)'
<1>1. /\ query'[r] = query[r]
      /\ past'.seen[r] = past.seen[r] /\ past'.disturbed[r] = past.disturbed[r]
      /\ past.torn[r] => past'.torn[r]
      /\ ~Running(r) => past'.torn[r] = past.torn[r]
      /\ content' \subseteq content \cup Corpora
      /\ ~Rewriting /\ content = memory => content' = memory
      /\ memory' = memory
  BY OtherEffect, ServeStores
<1>2. Running(r) => Corpora \subseteq past.seen[r] /\ (~past.disturbed[r] => ~Rewriting)
  BY DEF SeenInv
<1>3. Running(r) /\ ~past'.torn[r] => ppr' = ppr \/ ppr' = memory
  <2>1. CASE ppr' = ppr
    BY <2>1
  <2>2. CASE /\ ppr' = listed /\ (past.mixed[q] /\ Running(r) => past'.torn[r])
             /\ query[q].pc = "engine"
    BY <2>2 DEF EngineInv
  <2> QED BY <2>1, <2>2, OtherEffect
<1>4. Works(r)
  BY <1>1 DEF UseInv
<1>5. CASE Running(r)
  <2>1. content \subseteq past.seen[r] => content' \subseteq past'.seen[r]
    BY <1>1, <1>2, <1>5
  <2>2. At(r, "engine")' => content' \subseteq past'.seen[r]
    BY <1>1, <1>4, <2>1 DEF Works
  <2>3. query'[r].pc \in PastPreparation /\ ~past'.torn[r] => content' \subseteq past'.seen[r]
    BY <1>1, <1>4, <2>1 DEF Works
  <2>4. query'[r].pc \in {"facts", "schemas", "rank"} /\ ~past'.torn[r] /\ ~past'.disturbed[r] =>
          ppr' = memory' /\ content' = memory'
    BY <1>1, <1>2, <1>3, <1>4, <1>5 DEF Works
  <2> QED BY <1>1, <1>4, <2>2, <2>3, <2>4 DEF Works
<1>6. CASE ~Running(r)
  BY <1>1, <1>4, <1>6 DEF Works, Running, PastPreparation
<1> QED BY <1>5, <1>6

(* A selection from a ranking that leaves nothing out is a ranking.        *)
LEMMA SelectedRanking ==
    ASSUME NEW S, NEW T, NEW top \in Rankings(S), NEW known \in Selected(top, T),
           Range(top) \subseteq T
    PROVE  known \in Rankings(S)
<1>1. top \in Orders(S) /\ (Len(top) = TopK \/ Range(top) = S)
  BY DEF Rankings
<1>2. Range(top) \cap T = Range(top)
  OBVIOUS
<1>3. known \in Orders(Range(top)) /\ Range(known) = Range(top)
  BY <1>2, SelectedTyped
<1>4. /\ top \in Seq(S) /\ IsInjective(top) /\ Len(top) \in Nat /\ Range(top) \subseteq S
      /\ known \in Seq(Range(top)) /\ IsInjective(known) /\ Len(known) \in Nat
  BY <1>1, <1>3, OrderIsSeq
<1>5. Len(known) <= Len(top) /\ Len(top) <= Len(known)
  BY <1>3, <1>4, NoLonger
<1>6. Len(known) = Len(top)
  BY <1>4, <1>5
<1>7. known \in Orders(S)
  BY <1>3, <1>4, OrderWidens
<1> QED BY <1>1, <1>3, <1>6, <1>7 DEF Rankings

LEMMA UseRank ==
    ASSUME TypeOK, SeenInv, UseInv, NEW q \in Queries, Rank(q), query'[q].mode # "bypass"
    PROVE  Works(q)'
<1>1. /\ UNCHANGED <<engine, vdb, kv, lock, rewriter, past>> /\ query[q].pc = "rank"
      /\ query'[q].mode = query[q].mode
  BY RankEffect
<1>2. Works(q) /\ Running(q)
  BY <1>1 DEF UseInv, Running
<1>3. ~past.torn[q] => content \subseteq past.seen[q]
  BY <1>1, <1>2 DEF Works, PastPreparation
<1>4. ~past.torn[q] /\ ~past.disturbed[q] =>
        /\ ppr = memory /\ content = memory /\ past.seen[q] = memory
        /\ \A scored \in Scored : scored = memory
  <2>1. ppr = memory => ppr # NoEngine
    BY RetrievalAssumption DEF TypeOK
  <2> QED BY <1>1, <1>2, <2>1 DEF Works, SeenInv, Scored
<1>5. CASE query'[q].pc = "dense"
  BY <1>1, <1>3, <1>5 DEF Works, PastPreparation
<1>6. ASSUME NEW scored \in Scored, NEW top \in Rankings(scored),
             NEW known \in Selected(top, content),
             query'[q].ids = known,
             \/ Range(top) \subseteq content /\ query'[q].pc = Answer(q)
             \/ ~(Range(top) \subseteq content) /\ query'[q].pc = "texts"
      PROVE  Works(q)'
  <2>1. Range(known) \subseteq content
    <3>1. Range(known) = Range(top) \cap content
      BY SelectedTyped
    <3> QED BY <3>1
  <2>2. Range(top) \subseteq scored
    BY OrderIsSeq DEF Rankings
  <2>3. CASE Range(top) \subseteq content /\ query'[q].pc = Answer(q)
    <3>1. query'[q].pc \in {"done", "read"}
      BY <2>3, AnswerPc
    <3>2. known \in Rankings(scored)
      BY <2>3, SelectedRanking
    <3>3. ~past.torn[q] /\ ~past.disturbed[q] => known \in Rankings(past.seen[q])
      BY <1>4, <3>2
    <3>4. /\ ~past'.torn[q] => content' \subseteq past'.seen[q]
          /\ ~past'.torn[q] => Range(query'[q].ids) \subseteq past'.seen[q]
      BY <1>1, <1>3, <1>6, <2>1
    <3>5. ~past'.torn[q] /\ ~past'.disturbed[q] => query'[q].ids \in Rankings(past'.seen[q])
      BY <1>1, <1>6, <3>3 DEF Rankings
    <3>6. Rankings(past.seen[q])' = Rankings(past'.seen[q])
      BY DEF Rankings, Orders
    <3> QED BY <3>1, <3>4, <3>5, <3>6 DEF Works
  <2>4. CASE ~(Range(top) \subseteq content) /\ query'[q].pc = "texts"
    <3>1. past.torn[q] \/ past.disturbed[q]
      BY <1>4, <2>2, <2>4
    <3> QED BY <1>1, <1>3, <1>6, <2>1, <2>4, <3>1 DEF Works
  <2> QED BY <1>6, <2>3, <2>4
<1> QED BY <1>5, <1>6, RankEffect

LEMMA UseOwn ==
    ASSUME TypeOK, ListInv, StoreInv, SeenInv, EngineInv, UseInv,
           NEW q \in Queries, Serve(q), query'[q].mode # "bypass"
    PROVE  Works(q)'
<1>0. Running(q) => Corpora \subseteq past.seen[q]
                    /\ (~past.disturbed[q] => ~Rewriting /\ past.seen[q] = memory)
  BY DEF SeenInv
<1>1. CASE \/ \E mode \in Modes : Ask(q, mode) \/ AskStreamed(q, mode)
           \/ AskData(q)
  <2>1. PICK mode \in AllModes : \E point \in FirstSteps(mode) :
              /\ Begins(q)
              /\ UNCHANGED <<engine, vdb, kv, lock, rewriter>>
              /\ query'[q].pc = point /\ query'[q].mode = mode
    BY <1>1, BeginEffect
  <2>2. query'[q].pc \in {"dense", "facts", "load", "wait"}
        /\ (query'[q].pc \in {"dense", "facts"} => ready)
    BY <2>1 DEF FirstSteps, Entry, AllModes
  <2>3. /\ past'.seen[q] = Corpora /\ past'.disturbed[q] = Rewriting
        /\ past'.torn[q] = past.engineTorn
    BY <2>1, BeginsEffect
  <2> QED BY <2>1, <2>2, <2>3 DEF Works, PastPreparation, EngineInv
<1>2. CASE AcquireCorpus(q)
  BY <1>2, StepEffect DEF Works, PastPreparation
<1>3. CASE PrepareLists(q)
  <2>1. /\ content' = memory /\ past'.seen[q] = past.seen[q] /\ query'[q].pc = "engine"
        /\ Running(q)
    BY <1>3, StepEffect, PreparesEffect DEF PrepareLists, Running
  <2> QED BY <1>0, <2>1 DEF Works, PastPreparation, Corpora
<1>4. CASE PrepareEngine(q)
  <2>1. /\ content' = content /\ ppr' = listed /\ memory' = memory
        /\ At(q, "engine") /\ query'[q].pc \in {"dense", "facts"} /\ Running(q)
        /\ query'[q].mode = query[q].mode
    BY <1>4, StepEffect DEF PrepareEngine, Running
  <2>2. past'.seen[q] = past.seen[q] /\ (~past'.torn[q] => ~past.mixed[q])
    BY <1>4, <2>1, PreparedEffect DEF PrepareEngine
  <2>3. content \subseteq past.seen[q]
    BY <2>1 DEF UseInv, Works
  <2>4. ~past'.torn[q] => listed = memory /\ content = memory
    BY <2>1, <2>2 DEF EngineInv
  <2> QED BY <2>1, <2>2, <2>3, <2>4 DEF Works, PastPreparation
<1>5. CASE \/ \E hits \in BoundedSeq(BOOLEAN, LinkingTopK),
                 picked \in SUBSET (0..(LinkingTopK + 1)) : LinkFacts(q, hits, picked)
           \/ \E seeded \in BOOLEAN : LinkSchemas(q, seeded)
  <2>1. /\ UNCHANGED <<memory, content, ppr, past>> /\ query'[q].mode = query[q].mode
        /\ \/ query[q].pc = "facts" /\ query'[q].pc = "schemas"
           \/ query[q].pc = "schemas" /\ query'[q].pc \in {"dense", "rank"}
    BY <1>5, LinkEffect
  <2> QED BY <2>1 DEF UseInv, Works, PastPreparation
<1>6. CASE Rank(q)
  BY <1>6, UseRank
<1>7. CASE ResolveTexts(q)
  <2>1. PICK late \in Orders(Passage) :
              /\ Range(late) \subseteq kv /\ content' = content \cup Range(late)
              /\ past' = past /\ query[q].pc = "texts" /\ query'[q].pc = Answer(q)
              /\ query'[q].ids = query[q].ids \o late
              /\ query'[q].mode = query[q].mode
              /\ Range(late) \subseteq query[q].missing
    BY <1>7, ResolveEffect
  <2>2. Range(query'[q].ids) = Range(query[q].ids) \cup Range(late)
    <3>1. /\ query[q].ids \in Orders(Passage) /\ query[q].top \in Orders(Passage)
          /\ Range(query[q].ids) \subseteq Range(query[q].top)
          /\ Range(late) \subseteq Range(query[q].top)
          /\ Range(query[q].ids) \cap Range(late) = {}
      BY <2>1 DEF ListInv
    <3> QED BY <2>1, <3>1, AppendOrder
  <2>3. Works(q) /\ Running(q) /\ kv \subseteq past.seen[q]
    BY <1>0, <2>1, StoredInCorpora DEF UseInv, Running
  <2>4. query'[q].pc \in {"done", "read"}
    BY <2>1, AnswerPc
  <2> QED BY <2>1, <2>2, <2>3, <2>4 DEF Works, PastPreparation
<1>8. CASE DenseRetrieve(q)
  <2>1. PICK hits \in Rankings(vdb) :
              /\ UNCHANGED <<content, past>> /\ query[q].pc = "dense"
              /\ query'[q].pc = Answer(q) /\ query'[q].ids = hits
              /\ query'[q].mode = query[q].mode
    BY <1>8, DenseEffect
  <2>2. Works(q) /\ Running(q) /\ vdb \subseteq past.seen[q]
    BY <1>0, <2>1, StoredInCorpora DEF UseInv, Running
  <2>3. ~past.disturbed[q] => vdb = past.seen[q]
    BY <1>0, <2>2 DEF StoreInv
  <2>4. Range(hits) \subseteq past.seen[q] /\ (~past.disturbed[q] => hits \in Rankings(past.seen[q]))
    BY <2>2, <2>3, OrderIsSeq DEF Rankings
  <2>5. query'[q].pc \in {"done", "read"}
    BY <2>1, AnswerPc
  <2>6. Rankings(past.seen[q])' = Rankings(past'.seen[q])
    BY DEF Rankings, Orders
  <2> QED BY <2>1, <2>2, <2>4, <2>5, <2>6 DEF Works, PastPreparation
<1>9. CASE Read(q)
  <2>1. /\ UNCHANGED <<memory, content, ppr, past>> /\ query[q].pc = "read"
        /\ query'[q].pc = "done" /\ query'[q].mode = query[q].mode
        /\ query'[q].ids = query[q].ids
    BY <1>9, StepEffect DEF Read
  <2> QED BY <2>1 DEF UseInv, Works, PastPreparation
<1>10. CASE QueryFails(q) \/ Leave(q)
  BY <1>10, EndEffect, ForgottenEffect DEF Works, PastPreparation, NotAsked
<1> QED BY <1>1, <1>2, <1>3, <1>4, <1>5, <1>6, <1>7, <1>8, <1>9, <1>10 DEF Serve

LEMMA UseNext ==
    ASSUME TypeOK, ListInv, StoreInv, SeenInv, EngineInv, UseInv, [Next]_vars PROVE UseInv'
<1>1. CASE UNCHANGED vars
  BY <1>1 DEF vars, UseInv, Works
<1>2. ASSUME NEW q \in Queries, Serve(q) PROVE UseInv'
  BY <1>2, UseOther, UseOwn DEF UseInv
<1> QED BY <1>1, <1>2, UseRewrite DEF Next

----------------------------------------------------------------------------
(* The theorems.                                                           *)

Inv == TypeOK /\ ListInv /\ StoreInv /\ SeenInv /\ EngineInv /\ UseInv

LEMMA InvAlways == Spec => []Inv
<1>1. Init => Inv
  BY TypeInit, ListInit, StoreInit, SeenInit, EngineInit, UseInit DEF Inv
<1>2. Inv /\ [Next]_vars => Inv'
  BY TypeNext, ListNext, StoreNext, SeenNext, EngineNext, UseNext DEF Inv
<1> QED BY <1>1, <1>2, PTL DEF Spec

(* Every answer, finished or in the making, lists each passage once, at    *)
(* most top_k of them, and each text under its own id: a passage looked up *)
(* late is missing from what was known at the ranking, whatever the text   *)
(* map became in between.                                                  *)
THEOREM AlwaysAligned == Spec => []AnswersAligned
<1>1. Inv => AnswersAligned
  BY OrderIsSeq DEF Inv, ListInv, AnswersAligned
<1> QED BY <1>1, InvAlways, PTL

(* A settled query is answered with top_k passages of the corpus, or with  *)
(* all of them, by whichever of the routes it was ranked.                  *)
THEOREM SettledAlways == Spec => []SettledAnswer
<1>1. Inv => SettledAnswer
  BY DEF Inv, UseInv, Works, SettledAnswer, Answered
<1> QED BY <1>1, InvAlways, PTL

(* No query answers with a passage that was in no corpus of its time.      *)
THEOREM AlwaysWasThere == Spec => []AnswerWasThere
<1>1. Inv => AnswerWasThere
  BY DEF Inv, UseInv, Works, AnswerWasThere, Answered
<1> QED BY <1>1, InvAlways, PTL

----------------------------------------------------------------------------
(* The agent loop.                                                         *)

Message == [role : {"assistant", "tool"}, calls : Nat, id : Nat,
            body : {"calls", "notice", "passages", "dropped"}, weight : Nat]

LoopTyped ==
    /\ pc \in {"enter", "decide", "thinking", "acting", "render", "streaming",
               "done", "refused", "failed"}
    /\ messages \in Seq(Message)
    /\ todo \in Seq([id : Nat, key : Calls])

Replies(m) == Min2(m.calls, MaxCallsPerTurn)

(* The turn at place i of ms has all its results, and nothing else.        *)
Whole(ms, i) ==
    /\ i + Replies(ms[i]) <= Len(ms)
    /\ \A j \in (i + 1)..(i + Replies(ms[i])) : IsReply(ms[j]) /\ ms[j].id = j - i
    /\ \A j \in 1..Len(ms) : j = i + Replies(ms[i]) + 1 => ~IsReply(ms[j])

AllWhole(ms) == \A i \in 1..Len(ms) : ~IsReply(ms[i]) => Whole(ms, i)

(* The turn at place p is under way: the calls of todo are those without a *)
(* result.                                                                 *)
UnderWay(p) ==
    /\ ~IsReply(messages[p])
    /\ p + Replies(messages[p]) = Len(messages) + Len(todo)
    /\ \A i \in (p + 1)..Len(messages) : IsReply(messages[i]) /\ messages[i].id = i - p
    /\ \A j \in 1..Len(todo) : todo[j].id = Len(messages) - p + j
    /\ \A i \in 1..(p - 1) : ~IsReply(messages[i]) =>
          i + Replies(messages[i]) < p /\ Whole(messages, i)

TurnInv ==
    IF pc = "acting" THEN \E p \in 1..Len(messages) : UnderWay(p) ELSE AllWhole(messages)

(* The toolbox: the n-th passage is cited as n.                            *)
Ref == [n : Nat, doc : Excerpt]
Numbering(ds) == [i \in 1..Len(ds) |-> [n |-> i, doc |-> ds[i]]]

CiteInv ==
    /\ docs \in Seq(Excerpt) /\ refs = Numbering(docs) /\ fence = Len(docs) + 1
    /\ sent = <<>> \/ \E n \in 0..Len(docs) : sent = <<SubSeq(refs, 1, n)>>

--------------------------------------------------------------------------------

LEMMA BoundedIsSeq ==
    ASSUME NEW S, NEW n \in Nat, NEW s \in BoundedSeq(S, n)
    PROVE  s \in Seq(S) /\ Len(s) \in Nat
<1>1. PICK m \in 0..n : s \in [1..m -> S]
  BY DEF BoundedSeq, SeqOf
<1> QED BY <1>1

LEMMA FunctionIsSeq ==
    ASSUME NEW S, NEW n \in Nat, NEW f \in [1..n -> S]
    PROVE  f \in Seq(S) /\ Len(f) = n
OBVIOUS

LEMMA KeptNat ==
    ASSUME NEW m \in Message
    PROVE  Replies(m) \in Nat
BY AgentAssumption DEF Replies, Min2, Message

(* Each message of a sequence of them keeps a number of its calls.         *)
LEMMA AllKept ==
    ASSUME NEW ms \in Seq(Message)
    PROVE  Len(ms) \in Nat /\ \A i \in 1..Len(ms) : ms[i] \in Message /\ Replies(ms[i]) \in Nat
BY KeptNat

(* Eviction.                                                               *)

(* However far it goes, it changes neither the order of the messages nor   *)
(* which call a result belongs to.                                         *)
LEMMA DropKeeps ==
    ASSUME NEW ms \in Seq(Message), NEW n
    PROVE  /\ DropUpTo(ms, n) \in Seq(Message) /\ Len(DropUpTo(ms, n)) = Len(ms)
           /\ \A i \in 1..Len(ms) :
                 /\ DropUpTo(ms, n)[i].role = ms[i].role
                 /\ DropUpTo(ms, n)[i].calls = ms[i].calls
                 /\ DropUpTo(ms, n)[i].id = ms[i].id
<1>1. \A m \in Message : /\ Drop(m) \in Message /\ Drop(m).role = m.role
                         /\ Drop(m).calls = m.calls /\ Drop(m).id = m.id
  BY AgentAssumption DEF Drop, Message
<1>2. DOMAIN ms = 1..Len(ms) /\ Len(ms) \in Nat /\ \A i \in 1..Len(ms) : ms[i] \in Message
  OBVIOUS
<1>3. DropUpTo(ms, n) =
         [i \in 1..Len(ms) |-> IF i <= n /\ IsReply(ms[i]) THEN Drop(ms[i]) ELSE ms[i]]
  BY <1>2 DEF DropUpTo
<1>4. \A i \in 1..Len(ms) : DropUpTo(ms, n)[i] \in {ms[i], Drop(ms[i])}
  BY <1>3
<1>5. DropUpTo(ms, n) \in [1..Len(ms) -> Message]
  BY <1>1, <1>2, <1>3
<1>6. DropUpTo(ms, n) \in Seq(Message) /\ Len(DropUpTo(ms, n)) = Len(ms)
  BY <1>2, <1>5
<1> QED BY <1>1, <1>2, <1>4, <1>6

LEMMA EnforceKeeps ==
    ASSUME NEW ms \in Seq(Message)
    PROVE  /\ Enforced(ms) \in Seq(Message) /\ Len(Enforced(ms)) = Len(ms)
           /\ \A i \in 1..Len(ms) :
                 /\ Enforced(ms)[i].role = ms[i].role
                 /\ Enforced(ms)[i].calls = ms[i].calls
                 /\ Enforced(ms)[i].id = ms[i].id
<1>1. PICK n : Enforced(ms) = DropUpTo(ms, n)
  BY DEF Enforced
<1> QED BY <1>1, DropKeeps

(* Messages that agree in roles, calls and ids are whole together.         *)
LEMMA SameShape ==
    ASSUME NEW ms \in Seq(Message), NEW ns \in Seq(Message), Len(ns) = Len(ms),
           \A i \in 1..Len(ms) : /\ ns[i].role = ms[i].role /\ ns[i].calls = ms[i].calls
                                 /\ ns[i].id = ms[i].id,
           AllWhole(ms)
    PROVE  AllWhole(ns)
<1> SUFFICES ASSUME NEW i \in 1..Len(ns), ~IsReply(ns[i]) PROVE Whole(ns, i)
  BY DEF AllWhole
<1>1. Whole(ms, i) /\ Replies(ns[i]) = Replies(ms[i])
  BY DEF AllWhole, IsReply, Replies
<1>2. Replies(ms[i]) \in Nat /\ Len(ms) \in Nat
  BY AllKept
<1>3. \A j \in 1..Len(ms) : IsReply(ns[j]) = IsReply(ms[j]) /\ ns[j].id = ms[j].id
  BY DEF IsReply
<1>4. i + Replies(ms[i]) <= Len(ms)
  BY <1>1 DEF Whole
<1>5. ASSUME NEW j \in (i + 1)..(i + Replies(ms[i])) PROVE IsReply(ns[j]) /\ ns[j].id = j - i
  <2>1. j \in 1..Len(ms)
    BY <1>2, <1>4
  <2> QED BY <2>1, <1>1, <1>3 DEF Whole
<1>6. ASSUME NEW j \in 1..Len(ns), j = i + Replies(ms[i]) + 1 PROVE ~IsReply(ns[j])
  BY <1>1, <1>3, <1>6 DEF Whole
<1> QED BY <1>1, <1>4, <1>5, <1>6 DEF Whole

--------------------------------------------------------------------------------
(* Turns.                                                                  *)

LEMMA TurnInit == AgentInit => LoopTyped /\ TurnInv
BY DEF AgentInit, LoopTyped, TurnInv, AllWhole

LEMMA CurrentCall ==
    ASSUME LoopTyped, Acting
    PROVE  Current.id \in Nat
<1>1. Head(todo) \in [id : Nat, key : Calls]
  BY HeadTailProperties DEF LoopTyped, Acting
<1> QED BY <1>1 DEF Current

(* A reply ends the first call of todo.                                    *)
LEMMA ReplyStep ==
    ASSUME LoopTyped, TurnInv, Acting, NEW reply \in Message, IsReply(reply),
           reply.id = Current.id, Answering(reply), pc' = pc
    PROVE  LoopTyped' /\ TurnInv'
<1>1. /\ pc = "acting" /\ todo # <<>> /\ messages' = Append(messages, reply)
      /\ todo' = Tail(todo) /\ Len(messages) \in Nat /\ Len(todo) \in Nat
  BY DEF Acting, Answering, LoopTyped
<1>2. LoopTyped'
  BY <1>1 DEF LoopTyped
<1>3. /\ Len(messages') = Len(messages) + 1 /\ Len(todo') = Len(todo) - 1
      /\ \A i \in 1..Len(messages) : messages'[i] = messages[i]
      /\ messages'[Len(messages) + 1] = reply
      /\ \A j \in 1..Len(todo') : todo'[j] = todo[j + 1]
      /\ reply.id = todo[1].id
  BY <1>1 DEF LoopTyped, Current
<1>4. PICK p \in 1..Len(messages) : UnderWay(p)
  BY <1>1 DEF TurnInv
<1>5. \A i \in 1..Len(messages) : Replies(messages[i]) \in Nat
  BY AllKept DEF LoopTyped
<1>6. UnderWay(p)'
  <2>1. /\ ~IsReply(messages'[p])
        /\ p + Replies(messages'[p]) = Len(messages') + Len(todo')
    BY <1>1, <1>3, <1>4, <1>5 DEF UnderWay
  <2>2. ASSUME NEW i \in (p + 1)..Len(messages')
        PROVE  IsReply(messages'[i]) /\ messages'[i].id = i - p
    <3>1. CASE i = Len(messages) + 1
      BY <3>1, <1>1, <1>3, <1>4 DEF UnderWay
    <3>2. CASE i # Len(messages) + 1
      <4>1. i \in (p + 1)..Len(messages)
        BY <3>2, <1>1, <1>3, <1>4
      <4> QED BY <4>1, <1>3, <1>4 DEF UnderWay
    <3> QED BY <3>1, <3>2
  <2>3. \A j \in 1..Len(todo') : todo'[j].id = Len(messages') - p + j
    BY <1>1, <1>3, <1>4 DEF UnderWay
  <2>4. ASSUME NEW i \in 1..(p - 1), ~IsReply(messages'[i])
        PROVE  i + Replies(messages'[i]) < p /\ Whole(messages', i)
    <3>1. /\ i \in 1..Len(messages) /\ messages'[i] = messages[i] /\ ~IsReply(messages[i])
          /\ Replies(messages'[i]) = Replies(messages[i]) /\ Replies(messages[i]) \in Nat
      BY <2>4, <1>1, <1>3, <1>5
    <3>2. i + Replies(messages[i]) < p /\ Whole(messages, i)
      BY <3>1, <1>4 DEF UnderWay
    <3>3. \A j \in 1..Len(messages') : j <= p => j \in 1..Len(messages)
      BY <1>1, <1>3
    <3> QED BY <3>1, <3>2, <3>3, <1>1, <1>3 DEF Whole
  <2> QED BY <2>1, <2>2, <2>3, <2>4 DEF UnderWay
<1> QED BY <1>1, <1>2, <1>3, <1>6 DEF TurnInv

LEMMA CallsStep ==
    ASSUME LoopTyped, TurnInv, NEW calls \in BoundedSeq(Calls, MaxAsked), ModelCalls(calls)
    PROVE  LoopTyped' /\ TurnInv'
<1>1. calls \in Seq(Calls) /\ Len(calls) \in Nat
  BY AgentAssumption, BoundedIsSeq
<1>2. /\ pc = "thinking" /\ pc' = "acting" /\ messages' = Append(messages, Turn(Len(calls)))
      /\ todo' = Numbered(calls)
  BY DEF ModelCalls, Deciding
<1>3. Turn(Len(calls)) \in Message /\ ~IsReply(Turn(Len(calls)))
      /\ Turn(Len(calls)).calls = Len(calls)
  BY <1>1 DEF Turn, Message, IsReply
<1>4. /\ todo' \in Seq([id : Nat, key : Calls]) /\ Len(todo') = Replies(Turn(Len(calls)))
      /\ \A j \in 1..Len(todo') : todo'[j].id = j
  <2> DEFINE K == IF Len(calls) < MaxCallsPerTurn THEN Len(calls) ELSE MaxCallsPerTurn
  <2>1. K \in Nat /\ K <= Len(calls) /\ K = Replies(Turn(Len(calls)))
    BY <1>1, <1>3, AgentAssumption DEF Replies, Min2
  <2>2. todo' = [i \in 1..K |-> [id |-> i, key |-> calls[i]]]
    BY <1>2 DEF Numbered
  <2>3. \A i \in 1..K : calls[i] \in Calls
    BY <1>1, <2>1
  <2> HIDE DEF K
  <2>4. todo' \in [1..K -> [id : Nat, key : Calls]]
    BY <2>1, <2>2, <2>3
  <2>5. todo' \in Seq([id : Nat, key : Calls]) /\ Len(todo') = K
    BY <2>1, <2>4, FunctionIsSeq
  <2> QED BY <2>1, <2>2, <2>5
<1>5. LoopTyped'
  BY <1>2, <1>3, <1>4 DEF LoopTyped
<1>6. /\ Len(messages) \in Nat /\ Len(messages') = Len(messages) + 1
      /\ \A i \in 1..Len(messages) : messages'[i] = messages[i]
      /\ messages'[Len(messages) + 1] = Turn(Len(calls))
  BY <1>2, <1>3 DEF LoopTyped
<1>7. \A i \in 1..Len(messages) : Replies(messages[i]) \in Nat
  BY AllKept DEF LoopTyped
<1>p. PICK p \in Nat : p = Len(messages) + 1
  BY <1>6
<1>8. UnderWay(p)'
  <2>1. /\ ~IsReply(messages'[p]) /\ p + Replies(messages'[p]) = Len(messages') + Len(todo')
        /\ \A i \in (p + 1)..Len(messages') : IsReply(messages'[i]) /\ messages'[i].id = i - p
        /\ \A j \in 1..Len(todo') : todo'[j].id = Len(messages') - p + j
    BY <1>p, <1>3, <1>4, <1>6
  <2>2. ASSUME NEW i \in 1..(p - 1), ~IsReply(messages'[i])
        PROVE  i + Replies(messages'[i]) < p /\ Whole(messages', i)
    <3>1. /\ i \in 1..Len(messages) /\ messages'[i] = messages[i] /\ ~IsReply(messages[i])
          /\ Replies(messages'[i]) = Replies(messages[i]) /\ Replies(messages[i]) \in Nat
      BY <2>2, <1>6, <1>7, <1>p
    <3>2. Whole(messages, i)
      BY <3>1, <1>2 DEF TurnInv, AllWhole
    <3>3. i + Replies(messages[i]) <= Len(messages)
      BY <3>2 DEF Whole
    <3>4. ASSUME NEW j \in (i + 1)..(i + Replies(messages[i]))
          PROVE  IsReply(messages'[j]) /\ messages'[j].id = j - i
      <4>1. j \in 1..Len(messages)
        BY <3>1, <3>3, <1>6
      <4> QED BY <4>1, <3>2, <1>6 DEF Whole
    <3>5. ASSUME NEW j \in 1..Len(messages'), j = i + Replies(messages[i]) + 1
          PROVE  ~IsReply(messages'[j])
      <4>1. CASE j = p
        BY <4>1, <1>3, <1>6, <1>p
      <4>2. CASE j # p
        <5>1. j \in 1..Len(messages)
          BY <4>2, <1>6, <1>p
        <5> QED BY <5>1, <3>2, <3>5, <1>6 DEF Whole
      <4> QED BY <4>1, <4>2
    <3>6. Whole(messages', i)
      BY <3>1, <3>3, <3>4, <3>5, <1>6 DEF Whole
    <3> QED BY <3>1, <3>3, <3>6, <1>6, <1>p
  <2> QED BY <2>1, <2>2 DEF UnderWay
<1>9. p \in 1..Len(messages')
  BY <1>6, <1>p
<1> QED BY <1>2, <1>5, <1>8, <1>9 DEF TurnInv

(* A turn whose calls are all run is whole.                                *)
LEMMA TurnEnds ==
    ASSUME LoopTyped, TurnInv, pc = "acting", todo = <<>> PROVE AllWhole(messages)
<1>1. PICK p \in 1..Len(messages) : UnderWay(p)
  BY DEF TurnInv
<1>2. Len(messages) \in Nat /\ Len(todo) = 0 /\ messages \in Seq(Message)
      /\ \A i \in 1..Len(messages) : Replies(messages[i]) \in Nat
  BY AllKept DEF LoopTyped
<1> SUFFICES ASSUME NEW i \in 1..Len(messages), ~IsReply(messages[i])
             PROVE  Whole(messages, i)
  BY DEF AllWhole
<1>3. CASE i < p
  <2>1. i \in 1..(p - 1)
    BY <1>2, <1>3
  <2>2. \A k \in 1..(p - 1) : ~IsReply(messages[k]) => Whole(messages, k)
    BY <1>1 DEF UnderWay
  <2> QED BY <2>1, <2>2
<1>4. CASE i = p
  <2>1. p + Replies(messages[p]) = Len(messages)
    BY <1>1, <1>2 DEF UnderWay
  <2> QED BY <1>1, <1>2, <1>4, <2>1 DEF UnderWay, Whole
<1>5. CASE i > p
  <2>1. i \in (p + 1)..Len(messages)
    BY <1>2, <1>5
  <2> QED BY <1>1, <2>1 DEF UnderWay
<1> QED BY <1>2, <1>3, <1>4, <1>5

LEMMA TurnNext == ASSUME LoopTyped, TurnInv, [AgentNext]_agentVars PROVE LoopTyped' /\ TurnInv'
<1>1. CASE UNCHANGED agentVars
  BY <1>1 DEF agentVars, loop, LoopTyped, TurnInv, UnderWay
<1>2. CASE Enter \/ PrecheckRefuses \/ ModelCannotCall \/ ModelReady \/ ProviderFails
  BY <1>2 DEF Enter, PrecheckRefuses, ModelCannotCall, ModelReady, ProviderFails, Deciding,
              loop, LoopTyped, TurnInv
<1>3. CASE BeginTurn
  <2>1. /\ pc = "decide" /\ pc' = "thinking" /\ messages' = Enforced(messages) /\ todo' = todo
    BY <1>3 DEF BeginTurn
  <2>2. AllWhole(messages) /\ messages \in Seq(Message)
    BY <2>1 DEF TurnInv, LoopTyped
  <2>3. AllWhole(messages') /\ messages' \in Seq(Message)
    BY <2>1, <2>2, EnforceKeeps, SameShape
  <2> QED BY <2>1, <2>3 DEF LoopTyped, TurnInv
<1>4. CASE \E calls \in BoundedSeq(Calls, MaxAsked) : ModelCalls(calls)
  BY <1>4, CallsStep
<1>5. CASE SkipRepeated \/ RunWithoutPassages \/ ListDocuments
  <2>1. Acting /\ pc' = pc /\ Answering(Notice(Current.id))
    BY <1>5 DEF SkipRepeated, RunWithoutPassages, ListDocuments
  <2>2. Current.id \in Nat
    BY <2>1, CurrentCall
  <2>3. Notice(Current.id) \in Message /\ IsReply(Notice(Current.id))
        /\ Notice(Current.id).id = Current.id
    BY <2>2, AgentAssumption DEF Notice, Reply, Message, IsReply
  <2> QED BY <2>1, <2>3, ReplyStep
<1>6. CASE \E found \in Findable : RunSearch(found)
  <2>1. PICK found \in Findable : RunSearch(found)
    BY <1>6
  <2> DEFINE reply == Reply(Current.id, "passages", Len(found) * PassageTokens)
  <2>2. Acting /\ pc' = pc /\ Answering(reply)
    BY <2>1 DEF RunSearch
  <2>3. Current.id \in Nat
    BY <2>2, CurrentCall
  <2>4. Len(found) \in Nat
    BY <2>1, AgentAssumption, BoundedIsSeq DEF Findable
  <2>5. Len(found) * PassageTokens \in Nat
    BY <2>4, AgentAssumption
  <2>6. reply \in Message /\ IsReply(reply) /\ reply.id = Current.id
    BY <2>3, <2>5 DEF Reply, Message, IsReply
  <2> QED BY <2>2, <2>6, ReplyStep
<1>7. CASE EndTurn
  <2>1. /\ pc = "acting" /\ todo = <<>> /\ pc' \in {"render", "decide"}
        /\ messages' = messages /\ todo' = todo
    BY <1>7 DEF EndTurn, loop
  <2> QED BY <2>1, TurnEnds DEF LoopTyped, TurnInv
<1>8. CASE \E transcript \in Transcripts : BeginAnswer(transcript)
  <2>1. messages' = <<>> /\ todo' = todo /\ pc' = "streaming"
    BY <1>8 DEF BeginAnswer
  <2> QED BY <2>1 DEF LoopTyped, TurnInv, AllWhole
<1>9. CASE \E n \in 1..MaxToken : StreamToken(n)
  <2>1. messages' = messages /\ todo' = todo /\ pc' = pc
    BY <1>9 DEF StreamToken, loop
  <2> QED BY <2>1 DEF LoopTyped, TurnInv, UnderWay
<1>10. CASE FinishAnswer
  BY <1>10 DEF FinishAnswer, loop, LoopTyped, TurnInv
<1> QED BY <1>1, <1>2, <1>3, <1>4, <1>5, <1>6, <1>7, <1>8, <1>9, <1>10
        DEF AgentNext, Think, Tool, Write

(* When the model is asked again, each kept call has its result in its     *)
(* place, whatever was repeated, refused, failed or evicted                *)
(* (agent/loop.py:199-242, agent/budget.py:103-106).                       *)
THEOREM EveryCallIsAnswered == AgentSpec => []TranscriptWhole
<1>1. LoopTyped /\ TurnInv => TranscriptWhole
  <2> SUFFICES ASSUME LoopTyped, AllWhole(messages), NEW i \in DOMAIN messages,
                      ~IsReply(messages[i])
               PROVE  LET n == Min2(messages[i].calls, MaxCallsPerTurn)
                      IN  /\ i + n <= Len(messages)
                          /\ \A k \in 1..n : IsReply(messages[i + k]) /\ messages[i + k].id = k
                          /\ i + n < Len(messages) => ~IsReply(messages[i + n + 1])
    BY DEF TranscriptWhole, TurnInv
  <2> DEFINE n == Replies(messages[i])
  <2>1. Whole(messages, i) /\ n \in Nat /\ Len(messages) \in Nat /\ i \in 1..Len(messages)
    BY AllKept DEF AllWhole, LoopTyped
  <2>2. ASSUME NEW k \in 1..n PROVE IsReply(messages[i + k]) /\ messages[i + k].id = k
    <3>1. i + k \in (i + 1)..(i + n) /\ (i + k) - i = k
      BY <2>1
    <3> QED BY <3>1, <2>1 DEF Whole
  <2>3. ASSUME i + n < Len(messages) PROVE ~IsReply(messages[i + n + 1])
    <3>1. i + n + 1 \in 1..Len(messages)
      BY <2>1, <2>3
    <3> QED BY <3>1, <2>1 DEF Whole
  <2>4. i + n <= Len(messages)
    BY <2>1 DEF Whole
  <2> QED BY <2>2, <2>3, <2>4 DEF Replies
<1> QED BY <1>1, TurnInit, TurnNext, PTL DEF AgentSpec

--------------------------------------------------------------------------------
(* The budget.                                                             *)

(* A result is evicted only after every older one.                         *)
OldestFirst(ms) ==
    \A i, j \in 1..Len(ms) :
        (i < j /\ IsReply(ms[i]) /\ Dropped(ms[j])) => Dropped(ms[i])

AllDropped(ms) == \A i \in 1..Len(ms) : IsReply(ms[i]) => Dropped(ms[i])

BudgetInv ==
    /\ OldestFirst(messages)
    /\ pc = "thinking" => Tokens(messages) <= Ceiling \/ AllDropped(messages)

(* The first of some places is one of them, and none is before it.        *)
LEMMA FirstIs ==
    ASSUME NEW S \in SUBSET Nat, S # {} PROVE FirstOf(S) \in S /\ \A j \in S : FirstOf(S) <= j
BY LeastNatural DEF FirstOf

(* Evicting up to a place evicts what is before it and nothing after it.   *)
LEMMA DropAt ==
    ASSUME NEW ms \in Seq(Message), NEW n, NEW i \in 1..Len(ms)
    PROVE  /\ IsReply(DropUpTo(ms, n)[i]) <=> IsReply(ms[i])
           /\ Dropped(DropUpTo(ms, n)[i]) <=>
                 (Dropped(ms[i]) \/ (i <= n /\ IsReply(ms[i])))
<1>1. DropUpTo(ms, n)[i] = IF i <= n /\ IsReply(ms[i]) THEN Drop(ms[i]) ELSE ms[i]
  BY DEF DropUpTo
<1>2. ms[i] \in Message
  OBVIOUS
<1>3. Drop(ms[i]).role = ms[i].role /\ Drop(ms[i]).body = "dropped"
  BY <1>2 DEF Drop, Message
<1> QED BY <1>1, <1>3 DEF IsReply, Dropped

LEMMA EnforcedFits ==
    ASSUME NEW ms \in Seq(Message), OldestFirst(ms)
    PROVE  /\ OldestFirst(Enforced(ms))
           /\ Tokens(Enforced(ms)) <= Ceiling \/ AllDropped(Enforced(ms))
<1> DEFINE fits == {n \in 0..Len(ms) : Tokens(DropUpTo(ms, n)) <= Ceiling}
<1>1. Len(ms) \in Nat /\ Len(Enforced(ms)) = Len(ms)
  BY EnforceKeeps
<1>2. ASSUME NEW n \in Nat, Enforced(ms) = DropUpTo(ms, n)
      PROVE  OldestFirst(Enforced(ms))
  <2> SUFFICES ASSUME NEW i \in 1..Len(ms), NEW j \in 1..Len(ms), i < j,
                      IsReply(Enforced(ms)[i]), Dropped(Enforced(ms)[j])
               PROVE  Dropped(Enforced(ms)[i])
    BY <1>1 DEF OldestFirst
  <2>1. IsReply(ms[i]) /\ (Dropped(ms[j]) \/ j <= n)
    BY <1>2, DropAt
  <2>2. CASE j <= n
    BY <1>2, <2>1, <2>2, DropAt
  <2>3. CASE Dropped(ms[j])
    BY <1>2, <2>1, <2>3, DropAt DEF OldestFirst
  <2> QED BY <2>1, <2>2, <2>3
<1>3. CASE fits = {}
  <2>1. Enforced(ms) = DropUpTo(ms, Len(ms))
    BY <1>3 DEF Enforced
  <2>2. AllDropped(Enforced(ms))
    BY <1>1, <2>1, DropAt DEF AllDropped
  <2> QED BY <1>1, <1>2, <2>1, <2>2
<1>4. CASE fits # {}
  <2>1. Enforced(ms) = DropUpTo(ms, FirstOf(fits))
    BY <1>4 DEF Enforced
  <2>2. fits \in SUBSET Nat
    BY <1>1
  <2>3. FirstOf(fits) \in fits
    BY <1>4, <2>2, FirstIs
  <2>4. Tokens(DropUpTo(ms, FirstOf(fits))) <= Ceiling /\ FirstOf(fits) \in Nat
    BY <2>2, <2>3
  <2> QED BY <1>2, <2>1, <2>4
<1> QED BY <1>3, <1>4

(* What is added to the messages is never an evicted result.               *)
LEMMA AppendOldest ==
    ASSUME LoopTyped, NEW m \in Message, ~Dropped(m), messages' = Append(messages, m),
           OldestFirst(messages)
    PROVE  OldestFirst(messages')
<1>1. /\ Len(messages) \in Nat /\ Len(messages') = Len(messages) + 1
      /\ \A i \in 1..Len(messages) : messages'[i] = messages[i]
      /\ messages'[Len(messages) + 1] = m
  BY DEF LoopTyped
<1> SUFFICES ASSUME NEW i \in 1..Len(messages'), NEW j \in 1..Len(messages'), i < j,
                    IsReply(messages'[i]), Dropped(messages'[j])
             PROVE  Dropped(messages'[i])
  BY DEF OldestFirst
<1>2. j # Len(messages) + 1
  BY <1>1
<1>3. i \in 1..Len(messages) /\ j \in 1..Len(messages)
  BY <1>1, <1>2
<1> QED BY <1>1, <1>3 DEF OldestFirst

LEMMA BudgetNext ==
    ASSUME LoopTyped, BudgetInv, [AgentNext]_agentVars PROVE BudgetInv'
<1>1. CASE UNCHANGED messages /\ (pc' = "thinking" => pc = "thinking")
  BY <1>1 DEF BudgetInv
<1>2. CASE BeginTurn
  <2>1. messages' = Enforced(messages) /\ messages \in Seq(Message)
    BY <1>2 DEF BeginTurn, LoopTyped
  <2> QED BY <2>1, EnforcedFits DEF BudgetInv
<1>3. CASE \E calls \in BoundedSeq(Calls, MaxAsked) : ModelCalls(calls)
  <2>1. PICK calls \in BoundedSeq(Calls, MaxAsked) : ModelCalls(calls)
    BY <1>3
  <2>2. Len(calls) \in Nat
    BY <2>1, AgentAssumption, BoundedIsSeq
  <2>3. Turn(Len(calls)) \in Message /\ ~Dropped(Turn(Len(calls)))
    BY <2>2 DEF Turn, Message, Dropped, IsReply
  <2>4. messages' = Append(messages, Turn(Len(calls))) /\ pc' = "acting"
    BY <2>1 DEF ModelCalls
  <2> QED BY <2>3, <2>4, AppendOldest DEF BudgetInv
<1>4. CASE SkipRepeated \/ RunWithoutPassages \/ ListDocuments
  <2>1. Acting /\ pc' = pc /\ messages' = Append(messages, Notice(Current.id))
    BY <1>4 DEF SkipRepeated, RunWithoutPassages, ListDocuments, Answering
  <2>2. Current.id \in Nat /\ pc = "acting"
    BY <2>1, CurrentCall DEF Acting
  <2>3. Notice(Current.id) \in Message /\ ~Dropped(Notice(Current.id))
    BY <2>2, AgentAssumption DEF Notice, Reply, Message, Dropped
  <2> QED BY <2>1, <2>2, <2>3, AppendOldest DEF BudgetInv
<1>5. CASE \E found \in Findable : RunSearch(found)
  <2>1. PICK found \in Findable : RunSearch(found)
    BY <1>5
  <2> DEFINE reply == Reply(Current.id, "passages", Len(found) * PassageTokens)
  <2>2. Acting /\ pc' = pc /\ messages' = Append(messages, reply)
    BY <2>1 DEF RunSearch, Answering
  <2>3. Current.id \in Nat /\ pc = "acting"
    BY <2>2, CurrentCall DEF Acting
  <2>4. Len(found) * PassageTokens \in Nat
    BY <2>1, AgentAssumption, BoundedIsSeq DEF Findable
  <2>5. reply \in Message /\ ~Dropped(reply)
    BY <2>3, <2>4 DEF Reply, Message, Dropped
  <2> HIDE DEF reply
  <2> QED BY <2>2, <2>3, <2>5, AppendOldest DEF BudgetInv
<1>6. CASE \E transcript \in Transcripts : BeginAnswer(transcript)
  <2>1. messages' = <<>> /\ pc' = "streaming"
    BY <1>6 DEF BeginAnswer
  <2> QED BY <2>1 DEF BudgetInv, OldestFirst
<1>7. CASE \/ Enter \/ PrecheckRefuses \/ ModelCannotCall \/ ModelReady \/ ProviderFails
           \/ EndTurn \/ FinishAnswer \/ \E n \in 1..MaxToken : StreamToken(n)
           \/ UNCHANGED agentVars
  <2>1. UNCHANGED messages /\ (pc' = "thinking" => pc = "thinking")
    BY <1>7 DEF Enter, PrecheckRefuses, ModelCannotCall, ModelReady, ProviderFails,
                EndTurn, FinishAnswer, StreamToken, loop, agentVars
  <2> QED BY <1>1, <2>1
<1> QED BY <1>2, <1>3, <1>4, <1>5, <1>6, <1>7 DEF AgentNext, Think, Tool, Write

(* What the model is asked with fits the budget, or has nothing left to    *)
(* evict, and no result is evicted before an older one, whatever the       *)
(* weights of messages and the ceiling (agent/budget.py:100-123).          *)
THEOREM BudgetAlwaysKept == AgentSpec => []BudgetKept
<1>1. AgentInit => BudgetInv
  BY DEF AgentInit, BudgetInv, OldestFirst
<1>2. LoopTyped /\ BudgetInv => BudgetKept
  <2>1. messages \in Seq(Message) => DOMAIN messages = 1..Len(messages)
    OBVIOUS
  <2> QED BY <2>1 DEF LoopTyped, BudgetInv, BudgetKept, OldestFirst, AllDropped
<1> QED BY <1>1, <1>2, TurnInit, TurnNext, BudgetNext, PTL DEF AgentSpec

--------------------------------------------------------------------------------
(* Citations.                                                              *)

(* The first k entries of a list are a prefix of it.                       *)
LEMMA FirstEntries ==
    ASSUME NEW S, NEW s \in Seq(S), NEW k \in 0..Len(s)
    PROVE  IsPrefix(SubSeq(s, 1, k), s)
<1>1. SubSeq(s, 1, k) \in Seq(S) /\ Len(SubSeq(s, 1, k)) = k /\ k <= Len(s)
  OBVIOUS
<1>2. SubSeq(SubSeq(s, 1, k), 1, k) = SubSeq(s, 1, k)
  BY <1>1
<1> QED BY <1>1, <1>2 DEF IsPrefix

LEMMA CiteInit == AgentInit => CiteInv
BY DEF AgentInit, NewToolbox, CiteInv, Numbering

(* A retrieval goes on where the numbering ended.                          *)
LEMMA SearchStep ==
    ASSUME CiteInv, NEW found \in Findable, RunSearch(found) PROVE CiteInv'
<1>1. found \in Seq(Excerpt) /\ Len(found) \in Nat
  BY AgentAssumption, BoundedIsSeq DEF Findable
<1>2. docs \in Seq(Excerpt) /\ Len(docs) \in Nat
  BY DEF CiteInv
<1>3. docs' = docs \o found /\ refs' = refs \o Cited(found) /\ fence' = fence + Len(found)
      /\ sent' = sent
  BY DEF RunSearch
<1>4. docs' \in Seq(Excerpt) /\ Len(docs') = Len(docs) + Len(found)
      /\ \A i \in 1..Len(docs) + Len(found) :
            docs'[i] = IF i <= Len(docs) THEN docs[i] ELSE found[i - Len(docs)]
  BY <1>1, <1>2, <1>3, ConcatProperties
<1>5. refs \in Seq(Ref) /\ Len(refs) = Len(docs)
      /\ \A i \in 1..Len(docs) : refs[i] = [n |-> i, doc |-> docs[i]]
  <2>1. refs \in [1..Len(docs) -> Ref]
    BY <1>2 DEF CiteInv, Numbering, Ref
  <2> QED BY <1>2, <2>1 DEF CiteInv, Numbering
<1>6. Cited(found) \in Seq(Ref) /\ Len(Cited(found)) = Len(found)
      /\ \A i \in 1..Len(found) : Cited(found)[i] = [n |-> Len(docs) + i, doc |-> found[i]]
  <2>1. Cited(found) = [i \in 1..Len(found) |-> [n |-> Len(docs) + i, doc |-> found[i]]]
    BY <1>1, <1>2 DEF Cited, CiteInv
  <2>2. Cited(found) \in [1..Len(found) -> Ref]
    BY <1>1, <1>2, <2>1 DEF Ref
  <2> QED BY <1>1, <2>1, <2>2
<1>7. refs' \in Seq(Ref) /\ Len(refs') = Len(docs') /\ Len(docs') \in Nat
      /\ \A i \in 1..Len(docs') : refs'[i] = [n |-> i, doc |-> docs'[i]]
  <2>1. refs' \in Seq(Ref) /\ Len(refs') = Len(docs') /\ Len(docs') \in Nat
    <3>1. refs \o Cited(found) \in Seq(Ref)
          /\ Len(refs \o Cited(found)) = Len(refs) + Len(Cited(found))
      BY <1>5, <1>6, ConcatProperties
    <3> QED BY <3>1, <1>1, <1>2, <1>3, <1>4, <1>5, <1>6
  <2>2. \A i \in 1..Len(docs) + Len(found) :
           refs'[i] = IF i <= Len(docs) THEN refs[i] ELSE Cited(found)[i - Len(docs)]
    BY <1>3, <1>5, <1>6, ConcatProperties
  <2>3. ASSUME NEW i \in 1..Len(docs') PROVE refs'[i] = [n |-> i, doc |-> docs'[i]]
    <3>0. i \in 1..Len(docs) + Len(found) /\ i \in Nat
      BY <1>4
    <3>1. CASE i <= Len(docs)
      <4>1. i \in 1..Len(docs) /\ refs'[i] = refs[i] /\ docs'[i] = docs[i]
        BY <3>0, <3>1, <2>2, <1>2, <1>4
      <4> QED BY <4>1, <1>5
    <3>2. CASE ~(i <= Len(docs))
      <4>1. i - Len(docs) \in 1..Len(found) /\ Len(docs) + (i - Len(docs)) = i
        BY <3>0, <3>2, <1>1, <1>2
      <4>2. refs'[i] = Cited(found)[i - Len(docs)] /\ docs'[i] = found[i - Len(docs)]
        BY <3>0, <3>2, <2>2, <1>4
      <4> QED BY <4>1, <4>2, <1>6
    <3> QED BY <3>1, <3>2
  <2> QED BY <2>1, <2>3
<1>8. refs' = Numbering(docs')
  <2> DEFINE f == Numbering(docs')
  <2>1. f \in [1..Len(docs') -> Ref] /\ \A i \in 1..Len(docs') : f[i] = [n |-> i, doc |-> docs'[i]]
    BY <1>4, <1>7 DEF Numbering, Ref
  <2> HIDE DEF f
  <2>2. f \in Seq(Ref) /\ Len(f) = Len(docs')
    BY <2>1, <1>7, FunctionIsSeq
  <2>3. \A i \in 1..Len(refs') : refs'[i] = f[i]
    BY <2>1, <1>7
  <2>4. refs' = f
    BY <2>2, <2>3, <1>7, SeqEqual
  <2> QED BY <2>4 DEF f
<1>9. fence' = Len(docs') + 1
  BY <1>1, <1>2, <1>3, <1>4 DEF CiteInv
<1>10. ASSUME NEW n \in 0..Len(docs) PROVE SubSeq(refs', 1, n) = SubSeq(refs, 1, n)
  <2>1. /\ \A i \in 1..n : refs[i] \in Ref /\ refs'[i] \in Ref /\ refs'[i] = refs[i]
        /\ n \in Int
    BY <1>1, <1>2, <1>4, <1>5, <1>7
  <2>2. /\ SubSeq(refs, 1, n) \in Seq(Ref) /\ SubSeq(refs', 1, n) \in Seq(Ref)
        /\ Len(SubSeq(refs, 1, n)) = Len(SubSeq(refs', 1, n))
        /\ Len(SubSeq(refs, 1, n)) = IF 1 <= n THEN n ELSE 0
        /\ \A i \in 1..n : SubSeq(refs, 1, n)[i] = refs[i] /\ SubSeq(refs', 1, n)[i] = refs'[i]
    BY <2>1, <1>2, <1>5, <1>7
  <2>3. \A i \in 1..Len(SubSeq(refs', 1, n)) : SubSeq(refs', 1, n)[i] = SubSeq(refs, 1, n)[i]
    BY <2>1, <2>2
  <2> QED BY <2>2, <2>3, SeqEqual
<1> QED BY <1>1, <1>2, <1>3, <1>4, <1>8, <1>9, <1>10 DEF CiteInv

LEMMA CiteNext == ASSUME CiteInv, [AgentNext]_agentVars PROVE CiteInv'
<1>1. CASE UNCHANGED <<toolbox, sent>>
  BY <1>1 DEF toolbox, CiteInv
<1>2. CASE \E found \in Findable : RunSearch(found)
  BY <1>2, SearchStep
<1>3. CASE EndTurn \/ FinishAnswer
  <2>1. UNCHANGED toolbox /\ sent' \in {sent, <<refs>>}
    BY <1>3 DEF EndTurn, FinishAnswer
  <2>2. refs = SubSeq(refs, 1, Len(docs)) /\ Len(docs) \in 0..Len(docs)
    BY DEF CiteInv, Numbering
  <2> QED BY <2>1, <2>2 DEF toolbox, CiteInv
<1> QED
  BY <1>1, <1>2, <1>3
  DEF AgentNext, Think, Tool, Write, agentVars, Enter, PrecheckRefuses, BeginTurn, ModelCalls,
      ModelCannotCall, ModelReady, ProviderFails, SkipRepeated, RunWithoutPassages,
      ListDocuments, BeginAnswer, StreamToken

(* Whatever is retrieved and in how many calls, passage n of the answering *)
(* prompt is cited as n, and the client is told nothing else of number n   *)
(* (agent/tools.py:178-186, agent/loop.py:246-252).                        *)
THEOREM CitationsAlwaysAgree == AgentSpec => []CitationsAgree
<1>1. CiteInv => CitationsAgree
  <2> SUFFICES ASSUME CiteInv PROVE CitationsAgree
    OBVIOUS
  <2>1. DOMAIN docs = 1..Len(docs) /\ Len(docs) \in Nat
    BY DEF CiteInv
  <2>2. refs = [i \in DOMAIN docs |-> [n |-> i, doc |-> docs[i]]]
    BY <2>1 DEF CiteInv, Numbering
  <2>3. refs \in Seq(Ref) /\ Len(refs) = Len(docs)
    <3>1. refs \in [1..Len(docs) -> Ref]
      BY <2>1 DEF CiteInv, Numbering, Ref
    <3> QED BY <2>1, <3>1
  <2>4. \A k \in DOMAIN sent : \A r \in Range(sent[k]) :
           r.n \in DOMAIN docs /\ docs[r.n] = r.doc
    <3>1. CASE sent = <<>>
      BY <3>1
    <3>2. CASE sent # <<>>
      <4>1. PICK m \in 0..Len(docs) : sent = <<SubSeq(refs, 1, m)>>
        BY <3>2 DEF CiteInv
      <4> DEFINE list == SubSeq(refs, 1, m)
      <4>2. DOMAIN sent = {1} /\ sent[1] = list
        BY <4>1
      <4>3. DOMAIN list = 1..m /\ \A i \in 1..m : list[i] = refs[i]
        BY <2>1, <2>3, <4>1
      <4> HIDE DEF list
      <4>4. ASSUME NEW r \in Range(list) PROVE r.n \in DOMAIN docs /\ docs[r.n] = r.doc
        <5>1. PICK i \in DOMAIN list : r = list[i]
          BY DEF Range
        <5>2. i \in 1..m /\ i \in 1..Len(docs) /\ r = refs[i]
          <6>1. i \in 1..m /\ r = refs[i]
            BY <4>3, <5>1
          <6>2. Len(docs) \in Nat /\ m \in 0..Len(docs)
            BY <2>1
          <6> QED BY <6>1, <6>2
        <5>3. i \in DOMAIN docs /\ r = [n |-> i, doc |-> docs[i]]
          BY <2>1, <2>2, <5>2
        <5> QED BY <5>3
      <4> QED BY <4>2, <4>4
    <3> QED BY <3>1, <3>2
  <2> QED BY <2>2, <2>4 DEF CitationsAgree, CiteInv
<1> QED BY <1>1, CiteInit, CiteNext, PTL DEF AgentSpec

--------------------------------------------------------------------------------
(* What stands in the pieces of a text.                                    *)

(* The tags of a piece, and the separators at the beginning of a text, are *)
(* those of the text.                                                      *)
LEMMA TagsOfPiece ==
    ASSUME NEW T \in Seq(STRING), NEW a \in 1..(Len(T) + 1), NEW b \in 0..Len(T), a <= b + 1
    PROVE  TagsIn(SubSeq(T, a, b)) = {i \in 1..(b - a) : a + i - 1 \in TagsIn(T)}
<1> DEFINE x == SubSeq(T, a, b)
<1>1. x \in Seq(STRING) /\ Len(x) = b - a + 1 /\ \A i \in 1..(b - a + 1) : x[i] = T[a + i - 1]
  BY PieceIs
<1> HIDE DEF x
<1>2. TagsIn(x) = {i \in 1..(b - a) : x[i] = "<" /\ x[i + 1] \in Bars}
  <2>1. Len(x) - 1 = b - a
    BY <1>1
  <2> QED BY <2>1 DEF TagsIn
<1>3. ASSUME NEW i \in 1..(b - a)
      PROVE  x[i] = "<" /\ x[i + 1] \in Bars <=> a + i - 1 \in TagsIn(T)
  <2>1. /\ i \in 1..(b - a + 1) /\ i + 1 \in 1..(b - a + 1) /\ a + (i + 1) - 1 = a + i - 1 + 1
        /\ a + i - 1 \in 1..(Len(T) - 1)
    OBVIOUS
  <2>2. x[i] = T[a + i - 1] /\ x[i + 1] = T[a + i - 1 + 1]
    BY <1>1, <2>1
  <2> QED BY <2>1, <2>2 DEF TagsIn
<1>4. TagsIn(x) = {i \in 1..(b - a) : a + i - 1 \in TagsIn(T)}
  BY <1>2, <1>3
<1> QED BY <1>4 DEF x

(* A separator is two symbols.                                             *)
LEMMA PlacesAre ==
    ASSUME NEW T \in Seq(STRING), NEW s \in {TaggedFinal, UntaggedFinal}
    PROVE  Places(T, s) = {i \in 1..(Len(T) - 1) : T[i] = s[1] /\ T[i + 1] = s[2]}
<1> DEFINE V == {"<", "|final", "assistant", "final"}
<1>1. s \in Seq(V) /\ Len(s) = 2
  <2>1. CASE s = TaggedFinal
    <3>1. "<" \in V /\ "|final" \in V
      OBVIOUS
    <3> HIDE DEF V
    <3> QED BY <2>1, <3>1 DEF TaggedFinal
  <2>2. CASE s = UntaggedFinal
    <3>1. "assistant" \in V /\ "final" \in V
      OBVIOUS
    <3> HIDE DEF V
    <3> QED BY <2>2, <3>1 DEF UntaggedFinal
  <2> QED BY <2>1, <2>2
<1> HIDE DEF V
<1>2. ASSUME NEW i \in 1..Len(T)
      PROVE  IsPrefix(s, From(T, i)) <=> i \in 1..(Len(T) - 1) /\ T[i] = s[1] /\ T[i + 1] = s[2]
  <2> DEFINE x == SubSeq(T, i, Len(T))
  <2>1. /\ x \in Seq(STRING) /\ Len(x) = Len(T) - i + 1
        /\ \A k \in 1..(Len(T) - i + 1) : x[k] = T[i + k - 1]
    BY PieceIs
  <2> HIDE DEF x
  <2>2. SubSeq(s, 1, 2) = s
    BY <1>1
  <2>3. IsPrefix(s, x) <=> 2 <= Len(x) /\ SubSeq(x, 1, 2) = s
    BY <1>1, <2>2 DEF IsPrefix
  <2>4. ASSUME 2 <= Len(x)
        PROVE  SubSeq(x, 1, 2) = s <=> T[i] = s[1] /\ T[i + 1] = s[2]
    <3>1. x[1] = T[i] /\ x[2] = T[i + 1]
      BY <2>1, <2>4
    <3>2. SubSeq(x, 1, 2) \in Seq(STRING) /\ Len(SubSeq(x, 1, 2)) = 2
          /\ SubSeq(x, 1, 2)[1] = x[1] /\ SubSeq(x, 1, 2)[2] = x[2]
      BY <2>1, <2>4
    <3> DEFINE y == SubSeq(x, 1, 2)
    <3> HIDE DEF y
    <3>3. y = s <=> y[1] = s[1] /\ y[2] = s[2]
      <4>1. y \in Seq(STRING) /\ Len(y) = 2
        BY <3>2 DEF y
      <4>2. y = <<y[1], y[2]>> /\ s = <<s[1], s[2]>>
        BY <4>1, <1>1
      <4> QED BY <4>2
    <3> QED BY <3>1, <3>2, <3>3 DEF y
  <2>5. 2 <= Len(x) <=> i \in 1..(Len(T) - 1)
    BY <2>1
  <2> QED BY <2>3, <2>4, <2>5 DEF From, x
<1> QED BY <1>2 DEF Places

LEMMA PlacesOfPrefix ==
    ASSUME NEW T \in Seq(STRING), NEW n \in 0..Len(T), NEW s \in {TaggedFinal, UntaggedFinal}
    PROVE  Places(SubSeq(T, 1, n), s) = {i \in Places(T, s) : i < n}
<1> DEFINE x == SubSeq(T, 1, n)
<1>1. x \in Seq(STRING) /\ Len(x) = n /\ \A i \in 1..n : x[i] = T[i]
  <2>1. n - 1 + 1 = n /\ \A i \in Int : 1 + i - 1 = i
    OBVIOUS
  <2>2. 1 \in 1..(Len(T) + 1) /\ 1 <= n + 1
    OBVIOUS
  <2>3. x \in Seq(STRING) /\ Len(x) = n - 1 + 1 /\ \A i \in 1..(n - 1 + 1) : x[i] = T[1 + i - 1]
    BY <2>2, PieceIs
  <2> HIDE DEF x
  <2> QED BY <2>1, <2>3
<1> HIDE DEF x
<1>2. Places(x, s) = {i \in 1..(n - 1) : x[i] = s[1] /\ x[i + 1] = s[2]}
  BY <1>1, PlacesAre
<1>3. Places(T, s) = {i \in 1..(Len(T) - 1) : T[i] = s[1] /\ T[i + 1] = s[2]}
  BY PlacesAre
<1>4. \A i \in 1..(n - 1) : x[i] = T[i] /\ x[i + 1] = T[i + 1]
  BY <1>1
<1>5. Places(x, s) = {i \in Places(T, s) : i < n}
  BY <1>2, <1>3, <1>4
<1> QED BY <1>5 DEF x

(* Prefixes.                                                               *)
LEMMA NothingFirst == ASSUME NEW S, NEW s \in Seq(S) PROVE IsPrefix(<<>>, s)
<1>1. SubSeq(s, 1, 0) = <<>> /\ 0 \in 0..Len(s)
  OBVIOUS
<1> QED BY <1>1, FirstEntries

LEMMA AllFirst == ASSUME NEW S, NEW s \in Seq(S) PROVE IsPrefix(s, s)
<1>1. SubSeq(s, 1, Len(s)) = s /\ Len(s) \in 0..Len(s)
  OBVIOUS
<1> QED BY <1>1, FirstEntries

(* A piece is a prefix of what goes on from the same place.                *)
LEMMA PieceFirst ==
    ASSUME NEW T \in Seq(STRING), NEW a \in 1..(Len(T) + 1), NEW m \in 0..Len(T), a <= m + 1,
           NEW e \in 0..Len(T), m <= e
    PROVE  IsPrefix(SubSeq(T, a, m), SubSeq(T, a, e))
<1> DEFINE V == SubSeq(T, a, e)
           j == m - a + 1
<1>1. PICK L \in Nat : L = Len(T)
  OBVIOUS
<1>2. /\ a <= e + 1 /\ 1 \in 1..(e - a + 2) /\ j \in 0..(e - a + 1) /\ 1 <= j + 1
      /\ a + 1 - 1 = a /\ a + j - 1 = m
  BY <1>1
<1> HIDE DEF j
<1>3. SubSeq(V, 1, j) = SubSeq(T, a + 1 - 1, a + j - 1)
  BY <1>2, PieceOfPiece
<1>4. V \in Seq(STRING) /\ Len(V) = e - a + 1
  BY <1>2, PieceIs
<1> HIDE DEF V
<1>5. IsPrefix(SubSeq(V, 1, j), V)
  BY <1>2, <1>4, FirstEntries
<1> QED BY <1>2, <1>3, <1>5 DEF V

--------------------------------------------------------------------------------
(* The filter, fed the beginning of a text.                                *)

(* Of the text from place a to place n, out was shown and buffer is held   *)
(* back: nothing, or a "<" a tag may begin with.                           *)
HeldBack(T, a, n, buffer, out) ==
    \E m \in {n, n - 1} :
        /\ a <= m + 1 /\ out = SubSeq(T, a, m) /\ buffer = SubSeq(T, m + 1, n)
        /\ m = n => n < a \/ T[n] # "<"
        /\ m # n => T[n] = "<"
        /\ \A i \in TagsIn(T) : i < a \/ i > m

(* Where the answer begins: behind the first separator.                    *)
AnswerAt(T) == FirstOf(Places(T, Separator(T))) + 2

(* A filter that was fed the first n symbols of text T, and showed out.    *)
Fed(T, n, f, out) ==
    /\ f = [buffer |-> f.buffer, state |-> f.state, separator |-> f.separator]
    /\ f.state \in States
    /\ f.state = "deciding" =>
           f.buffer = SubSeq(T, 1, n) /\ out = <<>> /\ (n < 2 \/ ~Scaffolded(T))
    /\ f.state = "passthrough" => ~Scaffolded(T) /\ HeldBack(T, 1, n, f.buffer, out)
    /\ f.state = "waiting" =>
           /\ Scaffolded(T) /\ f.separator = Separator(T)
           /\ f.buffer = SubSeq(T, 1, n) /\ out = <<>>
           /\ \A i \in Places(T, Separator(T)) : n <= i
    /\ f.state = "emitting" =>
           /\ Scaffolded(T) /\ f.separator = Separator(T)
           /\ Places(T, Separator(T)) # {}
           /\ HeldBack(T, AnswerAt(T), n, f.buffer, out)
    /\ f.state = "closed" => out = Visible(T)

(* A text without a tag has no harmony scaffolding, or the untagged one.   *)
LEMMA SeparatorIs == ASSUME NEW T PROVE Separator(T) \in {TaggedFinal, UntaggedFinal}
BY DEF Separator

LEMMA ReadableTags ==
    ASSUME NEW T \in Seq(STRING), Readable(T)
    PROVE  /\ ~Scaffolded(T) => TagsIn(T) = {}
           /\ TagsIn(T) # {} => Separator(T) = TaggedFinal /\ Scaffolded(T)
           /\ TagsIn(T) = {} => Separator(T) = UntaggedFinal
BY DEF Readable, Scaffolded, Separator

(* That is within the text.                                                *)
LEMMA AnswerBegins ==
    ASSUME NEW T \in Seq(STRING), Places(T, Separator(T)) # {}
    PROVE  /\ FirstOf(Places(T, Separator(T))) \in Places(T, Separator(T))
           /\ \A i \in Places(T, Separator(T)) : FirstOf(Places(T, Separator(T))) <= i
           /\ AnswerAt(T) \in 3..(Len(T) + 1)
<1> DEFINE P == Places(T, Separator(T))
<1>1. P \in SUBSET (1..(Len(T) - 1))
  BY PlacesAre, SeparatorIs
<1>2. P \in SUBSET Nat /\ P # {}
  BY <1>1
<1> HIDE DEF P
<1>3. FirstOf(P) \in P /\ \A i \in P : FirstOf(P) <= i
  BY <1>2, FirstIs
<1>4. FirstOf(P) + 2 \in 3..(Len(T) + 1)
  <2>1. Len(T) \in Nat
    OBVIOUS
  <2>2. FirstOf(P) \in 1..(Len(T) - 1)
    BY <1>1, <1>3
  <2> QED BY <2>1, <2>2
<1> QED BY <1>3, <1>4 DEF P, AnswerAt

(* What of a text with an answer is for the user.                          *)
LEMMA VisibleIs ==
    ASSUME NEW T \in Seq(STRING), Readable(T), Scaffolded(T), Places(T, Separator(T)) # {}
    PROVE  LET o == AnswerAt(T)
               later == {i \in TagsIn(T) : i >= o}
           IN  /\ later = {} => Visible(T) = SubSeq(T, o, Len(T))
               /\ later # {} => /\ FirstOf(later) \in later /\ \A i \in later : FirstOf(later) <= i
                                /\ Visible(T) = SubSeq(T, o, FirstOf(later) - 1)
<1> DEFINE o == AnswerAt(T)
           later == {i \in TagsIn(T) : i >= o}
           L == Len(T)
           rest == SubSeq(T, o, L)
<1>1. o \in 3..(L + 1) /\ L \in Nat
  BY AnswerBegins
<1>2. TagsIn(T) \in SUBSET (1..(L - 1)) /\ later \in SUBSET Nat
  BY DEF TagsIn
<1>3. Visible(T) = IF 1 \in TagsIn(T) /\ TagsIn(rest) # {}
                   THEN SubSeq(rest, 1, FirstOf(TagsIn(rest)) - 1) ELSE rest
  BY DEF Visible, FinalChannel, AnswerAt, From
<1>4. TagsIn(rest) = {i \in 1..(L - o) : o + i - 1 \in TagsIn(T)}
  BY <1>1, TagsOfPiece
<1>5. rest \in Seq(STRING) /\ Len(rest) = L - o + 1
  BY <1>1, PieceIs
<1> HIDE DEF o, rest
<1>6. CASE later = {}
  <2>1. TagsIn(rest) = {}
    BY <1>1, <1>4, <1>6
  <2> QED BY <1>3, <1>6, <2>1 DEF o, rest
<1>7. CASE later # {}
  <2>1. FirstOf(later) \in later /\ \A i \in later : FirstOf(later) <= i
    <3> HIDE DEF later
    <3> QED BY <1>2, <1>7, FirstIs
  <2> DEFINE k == FirstOf(later) - o + 1
  <2>2. FirstOf(later) \in TagsIn(T) /\ FirstOf(later) >= o /\ FirstOf(later) \in 1..(L - 1)
    BY <1>2, <2>1
  <2>3. k \in 1..(L - o) /\ o + k - 1 = FirstOf(later)
    <3> HIDE DEF later
    <3> QED BY <1>1, <2>2
  <2>4. k \in TagsIn(rest)
    BY <1>4, <2>2, <2>3
  <2>5. TagsIn(rest) \in SUBSET Nat /\ TagsIn(rest) # {}
    BY <1>4, <2>4
  <2> DEFINE h == FirstOf(TagsIn(rest))
  <2>6. h \in TagsIn(rest) /\ h <= k
    BY <2>4, <2>5, FirstIs
  <2>7. h \in 1..(L - o) /\ o + h - 1 \in later
    <3>1. h \in 1..(L - o) /\ o + h - 1 \in TagsIn(T)
      <4> HIDE DEF h
      <4> QED BY <1>4, <2>6
    <3>2. o + h - 1 >= o
      BY <1>1, <3>1
    <3> QED BY <3>1, <3>2
  <2> HIDE DEF later
  <2>8. h = k
    BY <1>1, <2>1, <2>3, <2>6, <2>7
  <2>9. 1 \in TagsIn(T)
    BY <2>2 DEF Readable
  <2>10. Visible(T) = SubSeq(rest, 1, k - 1)
    BY <1>3, <2>5, <2>8, <2>9
  <2>11. SubSeq(rest, 1, k - 1) = SubSeq(T, o + 1 - 1, o + (k - 1) - 1)
    <3>1. 1 \in 1..(L - o + 2) /\ k - 1 \in 0..(L - o + 1) /\ 1 <= k - 1 + 1 /\ L \in 0..Len(T)
          /\ o \in 1..(Len(T) + 1) /\ o <= L + 1
      BY <1>1, <2>3
    <3> HIDE DEF k
    <3> QED BY <3>1, PieceOfPiece DEF rest
  <2>12. o + 1 - 1 = o /\ o + (k - 1) - 1 = FirstOf(later) - 1
    BY <1>1, <2>3
  <2>13. Visible(T) = SubSeq(T, o, FirstOf(later) - 1)
    BY <2>10, <2>11, <2>12
  <2> QED BY <2>1, <2>13, <1>7 DEF later, o
<1> QED BY <1>6, <1>7 DEF o, rest, later

(* What is fed next continues the piece that is held back.                 *)
LEMMA Continues ==
    ASSUME NEW T \in Seq(STRING), NEW n \in 0..Len(T), NEW k \in 1..(Len(T) - n)
    PROVE  /\ SubSeq(From(T, n + 1), 1, k) = SubSeq(T, n + 1, n + k)
           /\ From(From(T, n + 1), k + 1) = From(T, n + k + 1)
           /\ Len(From(T, n + 1)) = Len(T) - n
<1> DEFINE L == Len(T)
<1>1. /\ L \in Nat /\ n + 1 \in 1..(L + 1) /\ L \in 0..L /\ n + 1 <= L + 1
      /\ 1 \in 1..(L - (n + 1) + 2) /\ k \in 0..(L - (n + 1) + 1) /\ 1 <= k + 1
      /\ k + 1 \in 1..(L - (n + 1) + 2) /\ L - n \in 0..(L - (n + 1) + 1) /\ k + 1 <= L - n + 1
      /\ n + 1 + 1 - 1 = n + 1 /\ n + 1 + k - 1 = n + k
      /\ n + 1 + (k + 1) - 1 = n + k + 1 /\ n + 1 + (L - n) - 1 = L
      /\ L - (n + 1) + 1 = L - n
  OBVIOUS
<1> HIDE DEF L
<1>2. Len(SubSeq(T, n + 1, L)) = L - n
  <2>1. Len(SubSeq(T, n + 1, L)) = L - (n + 1) + 1
    BY <1>1, PieceIs DEF L
  <2> QED BY <1>1, <2>1
<1>3. SubSeq(SubSeq(T, n + 1, L), 1, k) = SubSeq(T, n + 1 + 1 - 1, n + 1 + k - 1)
  BY <1>1, PieceOfPiece DEF L
<1>4. SubSeq(SubSeq(T, n + 1, L), k + 1, L - n) = SubSeq(T, n + 1 + (k + 1) - 1, n + 1 + (L - n) - 1)
  BY <1>1, PieceOfPiece DEF L
<1> QED BY <1>1, <1>2, <1>3, <1>4 DEF From, L

(* Of the text from place a to place n, out was shown, up to place m, and  *)
(* the filter may release more.                                            *)
Ready(T, a, m, n, f, out) ==
    /\ a \in 1..(Len(T) + 1) /\ m \in 0..n /\ a <= m + 1 /\ (m < n \/ n < a)
    /\ f = [buffer |-> f.buffer, state |-> f.state, separator |-> f.separator]
    /\ f.buffer = SubSeq(T, m + 1, n) /\ out = SubSeq(T, a, m)
    /\ f.state \in {"emitting", "passthrough"}
    /\ f.state = "passthrough" => ~Scaffolded(T) /\ a = 1
    /\ f.state = "emitting" =>
           /\ Scaffolded(T) /\ f.separator = Separator(T)
           /\ Places(T, Separator(T)) # {} /\ a = AnswerAt(T)
    /\ \A i \in TagsIn(T) : i < a \/ i > m

(* Releasing: the end of the text fed may be held back, or end the answer. *)
LEMMA ReleasedFed ==
    ASSUME NEW T \in Seq(STRING), Readable(T), NEW n \in 0..Len(T), NEW m, NEW a, NEW f, NEW out,
           Ready(T, a, m, n, f, out)
    PROVE  Fed(T, n, Released(f).filter, out \o Released(f).out)
<1>1. PICK L \in Nat : L = Len(T)
  OBVIOUS
<1>2. PICK buffer : buffer = f.buffer
  OBVIOUS
<1>3. /\ n \in 0..L /\ m \in 0..L /\ m \in 0..n /\ a \in 1..(L + 1) /\ a <= m + 1
      /\ m + 1 \in 1..(L + 1) /\ m + 1 <= n + 1 /\ (m < n \/ n < a)
  <2>1. a \in 1..(Len(T) + 1) /\ m \in 0..n /\ a <= m + 1 /\ (m < n \/ n < a)
    BY Zenon DEF Ready
  <2> QED BY <1>1, <2>1
<1>4. /\ out = SubSeq(T, a, m) /\ buffer = SubSeq(T, m + 1, n)
      /\ f.state \in {"emitting", "passthrough"}
      /\ f = [buffer |-> buffer, state |-> f.state, separator |-> f.separator]
      /\ \A i \in TagsIn(T) : i < a \/ i > m
  BY <1>2 DEF Ready
<1>5. f.state = "passthrough" => ~Scaffolded(T) /\ a = 1
  BY DEF Ready
<1>6. f.state = "emitting" => /\ Scaffolded(T) /\ f.separator = Separator(T)
                              /\ Places(T, Separator(T)) # {} /\ a = AnswerAt(T)
  BY DEF Ready
<1>7. buffer \in Seq(STRING) /\ Len(buffer) = n - m /\ \A i \in 1..(n - m) : buffer[i] = T[m + i]
  <2>1. n - (m + 1) + 1 = n - m /\ \A i \in 1..(n - m) : m + 1 + i - 1 = m + i
    BY <1>3
  <2>2. /\ buffer \in Seq(STRING) /\ Len(buffer) = n - (m + 1) + 1
        /\ \A i \in 1..(n - (m + 1) + 1) : buffer[i] = T[m + 1 + i - 1]
    BY <1>1, <1>3, <1>4, PieceIs
  <2> QED BY <2>1, <2>2
<1>8. TagsIn(buffer) = {i \in 1..(n - m - 1) : m + i \in TagsIn(T)}
  <2>1. TagsIn(buffer) = {i \in 1..(n - (m + 1)) : m + 1 + i - 1 \in TagsIn(T)}
    BY <1>1, <1>3, <1>4, TagsOfPiece
  <2>2. n - (m + 1) = n - m - 1 /\ \A i \in Int : m + 1 + i - 1 = m + i
    BY <1>3
  <2> QED BY <2>1, <2>2, <1>3
<1>9. CASE f.state = "emitting" /\ f.separator = TaggedFinal /\ TagsIn(buffer) # {}
  <2> DEFINE h == FirstOf(TagsIn(buffer))
  <2>1. h \in TagsIn(buffer) /\ \A i \in TagsIn(buffer) : h <= i
    <3>1. TagsIn(buffer) \in SUBSET Nat
      BY <1>8
    <3> QED BY <3>1, <1>9, FirstIs
  <2>2. /\ Released(f).filter = [f EXCEPT !.state = "closed", !.buffer = <<>>]
        /\ Released(f).out = SubSeq(buffer, 1, h - 1)
    BY <1>2, <1>9 DEF Released
  <2> HIDE DEF h
  <2>3. h \in 1..(n - m - 1) /\ m + h \in TagsIn(T)
    BY <1>8, <2>1
  <2> DEFINE later == {i \in TagsIn(T) : i >= a}
  <2>4. m + h \in later
    BY <1>3, <2>3
  <2>5. later # {} /\ FirstOf(later) \in later /\ (\A i \in later : FirstOf(later) <= i)
        /\ Visible(T) = SubSeq(T, a, FirstOf(later) - 1)
    BY <1>6, <1>9, <2>4, VisibleIs
  <2>6. FirstOf(later) = m + h
    <3>1. FirstOf(later) \in TagsIn(T) /\ FirstOf(later) >= a
      BY <2>5
    <3>2. FirstOf(later) \in Nat
      BY <3>1 DEF TagsIn
    <3>3. FirstOf(later) <= m + h
      BY <2>4, <2>5
    <3>4. FirstOf(later) < a \/ FirstOf(later) > m
      BY <1>4, <3>1
    <3> DEFINE p == FirstOf(later)
               j == p - m
    <3> HIDE DEF later
    <3>5. j \in 1..(n - m - 1) /\ m + j = p
      <4> HIDE DEF p
      <4>1. p \in Nat /\ p >= a /\ p <= m + h /\ (p < a \/ p > m)
        BY <3>1, <3>2, <3>3, <3>4 DEF p
      <4> QED BY <1>3, <2>3, <4>1
    <3>6. j \in TagsIn(buffer)
      BY <1>8, <3>1, <3>5
    <3>7. h <= j
      BY <2>1, <3>6
    <3> HIDE DEF j
    <3>8. p = m + h
      <4> HIDE DEF p
      <4>1. p <= m + h
        BY <3>3 DEF p
      <4> QED BY <1>3, <2>3, <3>5, <3>7, <4>1
    <3> QED BY <3>8 DEF p
  <2>7. SubSeq(buffer, 1, h - 1) = SubSeq(T, m + 1, m + h - 1)
    <3>1. /\ 1 \in 1..(n - (m + 1) + 2) /\ h - 1 \in 0..(n - (m + 1) + 1) /\ 1 <= h - 1 + 1
          /\ m + 1 + 1 - 1 = m + 1 /\ m + 1 + (h - 1) - 1 = m + h - 1
      BY <1>3, <2>3
    <3>2. SubSeq(SubSeq(T, m + 1, n), 1, h - 1) = SubSeq(T, m + 1 + 1 - 1, m + 1 + (h - 1) - 1)
      BY <1>1, <1>3, <3>1, PieceOfPiece
    <3> QED BY <3>1, <3>2, <1>4
  <2>8. out \o SubSeq(T, m + 1, m + h - 1) = SubSeq(T, a, m + h - 1)
    <3>1. m + h - 1 \in 0..Len(T) /\ m <= m + h - 1
      BY <1>1, <1>3, <2>3
    <3> QED BY <1>1, <1>3, <1>4, <3>1, PiecesJoin
  <2>9. out \o Released(f).out = Visible(T)
    <3>1. Released(f).out = SubSeq(T, m + 1, m + h - 1)
      BY <2>2, <2>7
    <3>2. Visible(T) = SubSeq(T, a, m + h - 1)
      <4> HIDE DEF later
      <4> QED BY <1>3, <2>3, <2>5, <2>6
    <3> HIDE DEF later
    <3> QED BY <3>1, <3>2, <2>8
  <2>10. Released(f).filter = [buffer |-> <<>>, state |-> "closed", separator |-> f.separator]
    BY <2>2, <1>4
  <2> QED BY <2>9, <2>10 DEF Fed, States
<1>10. CASE ~(f.state = "emitting" /\ f.separator = TaggedFinal /\ TagsIn(buffer) # {})
  <2> DEFINE held == IF buffer # <<>> /\ Last(buffer) = "<" THEN 1 ELSE 0
             keep == Len(buffer) - held
             e == m + keep
  <2>1. /\ Released(f).filter = [f EXCEPT !.buffer = From(buffer, keep + 1)]
        /\ Released(f).out = SubSeq(buffer, 1, keep)
    BY <1>2, <1>4, <1>10 DEF Released
  <2>2. buffer # <<>> => n > m /\ Last(buffer) = T[n]
    <3>1. ASSUME buffer # <<>> PROVE n > m /\ Last(buffer) = T[n]
      <4>1. Len(buffer) # 0
        <5> QED BY <1>7, <3>1
      <4>2. n > m /\ n - m \in 1..(n - m) /\ m + (n - m) = n
        BY <1>3, <1>7, <4>1
      <4>3. Last(buffer) = buffer[n - m]
        BY <1>7 DEF Last
      <4> QED BY <1>7, <4>2, <4>3
    <3> QED BY <3>1
  <2>3. buffer = <<>> => n = m
    <3> QED BY <1>3, <1>7
  <2>4. /\ e \in {n, n - 1} /\ m <= e /\ keep \in 0..(n - m) /\ e \in 0..L
        /\ e = n => n = m \/ T[n] # "<"
        /\ e # n => T[n] = "<"
    <3>1. CASE buffer # <<>> /\ Last(buffer) = "<"
      BY <3>1, <1>3, <1>7, <2>2
    <3>2. CASE ~(buffer # <<>> /\ Last(buffer) = "<")
      BY <3>2, <1>3, <1>7, <2>2, <2>3
    <3> QED BY <3>1, <3>2
  <2> HIDE DEF held, keep
  <2>5. From(buffer, keep + 1) = SubSeq(T, e + 1, n) /\ SubSeq(buffer, 1, keep) = SubSeq(T, m + 1, e)
    <3>1. /\ 1 \in 1..(n - (m + 1) + 2) /\ keep \in 0..(n - (m + 1) + 1) /\ 1 <= keep + 1
          /\ keep + 1 \in 1..(n - (m + 1) + 2) /\ n - m \in 0..(n - (m + 1) + 1) /\ keep + 1 <= n - m + 1
          /\ m + 1 + 1 - 1 = m + 1 /\ m + 1 + keep - 1 = e
          /\ m + 1 + (keep + 1) - 1 = e + 1 /\ m + 1 + (n - m) - 1 = n
      BY <1>3, <2>4
    <3>2. SubSeq(SubSeq(T, m + 1, n), 1, keep) = SubSeq(T, m + 1 + 1 - 1, m + 1 + keep - 1)
      BY <1>1, <1>3, <3>1, PieceOfPiece
    <3>3. SubSeq(SubSeq(T, m + 1, n), keep + 1, n - m) = SubSeq(T, m + 1 + (keep + 1) - 1, m + 1 + (n - m) - 1)
      BY <1>1, <1>3, <3>1, PieceOfPiece
    <3> HIDE DEF e
    <3> QED BY <3>1, <3>2, <3>3, <1>7, <1>4 DEF From
  <2>6. out \o SubSeq(T, m + 1, e) = SubSeq(T, a, e)
    <3> HIDE DEF e
    <3> QED BY <1>1, <1>3, <1>4, <2>4, PiecesJoin
  <2>7. Released(f).filter = [buffer |-> SubSeq(T, e + 1, n), state |-> f.state, separator |-> f.separator]
    <3> HIDE DEF e
    <3> QED BY <1>4, <2>1, <2>5
  <2>8. f.state = "emitting" /\ f.separator # TaggedFinal => TagsIn(T) = {}
    BY <1>6, ReadableTags
  <2>9. f.state = "passthrough" => TagsIn(T) = {}
    BY <1>5, ReadableTags
  <2>10. f.state \in {"emitting", "passthrough"}
    BY <1>4
  <2> HIDE DEF e
  <2>11. ASSUME NEW i \in TagsIn(T) PROVE i < a \/ i > e
    <3>1. TagsIn(buffer) = {} /\ i \in 1..(L - 1) /\ T[i] = "<"
      BY <1>1, <1>10, <2>8, <2>9, <2>10 DEF TagsIn
    <3>2. i < a \/ i > m
      BY <1>4
    <3>3. ASSUME i > m, i < n PROVE FALSE
      <4>1. i - m \in 1..(n - m - 1) /\ m + (i - m) = i
        BY <1>3, <3>1, <3>3
      <4> QED BY <1>8, <3>1, <4>1
    <3>4. i = n => e # n \/ n = m
      BY <2>4, <3>1
    <3> QED BY <1>3, <2>4, <3>1, <3>2, <3>3, <3>4
  <2>12. HeldBack(T, a, n, SubSeq(T, e + 1, n), SubSeq(T, a, e))
    <3>1. a <= e + 1
      BY <1>3, <2>4
    <3>2. e = n => n < a \/ T[n] # "<"
      BY <1>3, <2>4
    <3> QED BY <2>4, <2>11, <3>1, <3>2 DEF HeldBack
  <2>13. out \o Released(f).out = SubSeq(T, a, e)
    BY <2>1, <2>5, <2>6
  <2>14. CASE f.state = "passthrough"
    <3>1. a = 1
      BY <1>5, <2>14
    <3> QED BY <3>1, <1>5, <2>7, <2>12, <2>13, <2>14 DEF Fed, States
  <2>15. CASE f.state = "emitting"
    <3>1. a = AnswerAt(T)
      BY <1>6, <2>15
    <3> QED BY <3>1, <1>6, <2>7, <2>12, <2>13, <2>15 DEF Fed, States
  <2> QED BY <2>10, <2>14, <2>15
<1> QED BY <1>9, <1>10

(* What is held back is ready once more has come, up to place e.           *)
Extended(T, a, m, n, e, buffer, out) ==
    /\ m \in 0..e /\ a <= m + 1 /\ m < e
    /\ buffer \o SubSeq(T, n + 1, e) = SubSeq(T, m + 1, e)
    /\ out = SubSeq(T, a, m)
    /\ \A i \in TagsIn(T) : i < a \/ i > m

LEMMA HeldReady ==
    ASSUME NEW T \in Seq(STRING), NEW n \in 0..Len(T), NEW k \in 1..(Len(T) - n), NEW a,
           a \in 1..(Len(T) + 1), NEW buffer, NEW out, HeldBack(T, a, n, buffer, out)
    PROVE  \E m : Extended(T, a, m, n, n + k, buffer, out)
<1>1. PICK m \in {n, n - 1} :
        /\ a <= m + 1 /\ out = SubSeq(T, a, m) /\ buffer = SubSeq(T, m + 1, n)
        /\ \A i \in TagsIn(T) : i < a \/ i > m
  BY Zenon DEF HeldBack
<1>2. PICK L \in Nat : L = Len(T)
  OBVIOUS
<1>3. /\ m \in 0..(n + k) /\ m < n + k /\ m + 1 \in 1..(L + 1) /\ n \in 0..L /\ n + k \in 0..L
      /\ m + 1 <= n + 1 /\ n <= n + k
  BY <1>1, <1>2
<1>4. buffer \o SubSeq(T, n + 1, n + k) = SubSeq(T, m + 1, n + k)
  BY <1>1, <1>2, <1>3, PiecesJoin
<1>5. Extended(T, a, m, n, n + k, buffer, out)
  BY <1>1, <1>3, <1>4 DEF Extended
<1> QED BY <1>5

(* What a filter was fed may be waiting for the answer to begin.           *)
Waiting(T, n, f, out) ==
    /\ f = [buffer |-> f.buffer, state |-> f.state, separator |-> f.separator]
    /\ f.state = "waiting" /\ Scaffolded(T) /\ f.separator = Separator(T)
    /\ f.buffer = SubSeq(T, 1, n) /\ out = <<>>

(* The reasoning ends at the first separator of the text.                  *)
LEMMA OpenedFed ==
    ASSUME NEW T \in Seq(STRING), NEW n \in 0..Len(T), NEW f, NEW out, Waiting(T, n, f, out)
    PROVE  \/ Fed(T, n, Opened(f), out) /\ Opened(f).state = "waiting"
           \/ \E a, m : Ready(T, a, m, n, Opened(f), out)
<1> DEFINE s == Separator(T)
           P == Places(T, s)
           Q == Places(SubSeq(T, 1, n), s)
<1>1. PICK L \in Nat : L = Len(T)
  OBVIOUS
<1>2. Q = {i \in P : i < n}
  BY PlacesOfPrefix, SeparatorIs
<1>3. P \in SUBSET (1..(L - 1))
  BY <1>1, PlacesAre, SeparatorIs
<1>4. Len(s) = 2
  <2>1. s \in {TaggedFinal, UntaggedFinal}
    BY SeparatorIs
  <2> QED BY <2>1 DEF TaggedFinal, UntaggedFinal
<1>5. /\ f = [buffer |-> SubSeq(T, 1, n), state |-> "waiting", separator |-> s]
      /\ Scaffolded(T) /\ out = <<>>
  BY DEF Waiting
<1>6. Opened(f) = IF Q # {}
                  THEN [f EXCEPT !.state = "emitting",
                                 !.buffer = From(SubSeq(T, 1, n), FirstOf(Q) + Len(s))]
                  ELSE f
  BY <1>5 DEF Opened
<1> HIDE DEF P, Q, s
<1>7. CASE Q = {}
  <2>1. Opened(f) = f
    BY <1>6, <1>7
  <2>2. \A i \in P : n <= i
    BY <1>1, <1>2, <1>3, <1>7
  <2>3. Fed(T, n, f, out)
    BY <1>5, <2>2 DEF Fed, States, P, s
  <2> QED BY <1>5, <2>1, <2>3
<1>8. CASE Q # {}
  <2>1. P # {} /\ P \in SUBSET Nat /\ Q \in SUBSET Nat
    <3>1. Q \subseteq P /\ \A i \in 1..(L - 1) : i \in Nat
      BY <1>1, <1>2
    <3>2. P \subseteq Nat
      BY <1>3, <3>1
    <3> QED BY <1>8, <3>1, <3>2
  <2>2. FirstOf(P) \in P /\ FirstOf(Q) \in Q
        /\ (\A i \in P : FirstOf(P) <= i) /\ \A i \in Q : FirstOf(Q) <= i
    BY <1>8, <2>1, FirstIs
  <2>3. FirstOf(P) = FirstOf(Q) /\ FirstOf(Q) \in 1..(L - 1) /\ FirstOf(Q) < n
    <3> DEFINE p == FirstOf(P)
               q == FirstOf(Q)
    <3> HIDE DEF p, q
    <3>1. p \in P /\ q \in Q /\ (\A i \in P : p <= i) /\ \A i \in Q : q <= i
      BY <2>2 DEF p, q
    <3>2. p \in 1..(L - 1) /\ q \in 1..(L - 1) /\ q < n /\ p <= q
      BY <1>1, <1>2, <1>3, <3>1
    <3>3. p \in Q
      BY <1>2, <3>1, <3>2
    <3>4. q <= p
      BY <3>1, <3>3
    <3>5. p = q
      BY <3>2, <3>4
    <3> QED BY <3>2, <3>5 DEF p, q
  <2> DEFINE a == FirstOf(Q) + 2
  <2>4. a = AnswerAt(T)
    BY <2>3 DEF AnswerAt, P, s
  <2>5. /\ a \in 1..(L + 1) /\ a - 1 \in 0..n /\ a <= a - 1 + 1 /\ (a - 1 < n \/ n < a)
        /\ a - 1 + 1 = a /\ a \in 1..(n - 1 + 2) /\ n \in 0..(n - 1 + 1) /\ a <= n + 1
        /\ 1 + a - 1 = a /\ 1 + n - 1 = n /\ n \in 0..L /\ 1 \in 1..(L + 1) /\ 1 <= n + 1
        /\ n - 1 + 1 = n
    BY <1>1, <2>3
  <2> HIDE DEF a
  <2>6. From(SubSeq(T, 1, n), a) = SubSeq(T, a, n)
    <3>1. Len(SubSeq(T, 1, n)) = n
      <4>1. Len(SubSeq(T, 1, n)) = n - 1 + 1
        BY <1>1, <2>5, PieceIs
      <4> QED BY <2>5, <4>1
    <3>2. SubSeq(SubSeq(T, 1, n), a, n) = SubSeq(T, 1 + a - 1, 1 + n - 1)
      BY <1>1, <2>5, PieceOfPiece
    <3> QED BY <2>5, <3>1, <3>2 DEF From
  <2>7. Opened(f) = [buffer |-> SubSeq(T, a, n), state |-> "emitting", separator |-> s]
    <3>1. FirstOf(Q) + Len(s) = a
      BY <1>4 DEF a
    <3> QED BY <1>5, <1>6, <1>8, <2>6, <3>1
  <2>8. out = SubSeq(T, a, a - 1)
    <3>1. SubSeq(T, a, a - 1) = <<>>
      BY <2>5
    <3> QED BY <1>5, <3>1
  <2>9. ASSUME NEW i \in TagsIn(T) PROVE i < a \/ i > a - 1
    <3>1. i \in Int
      BY DEF TagsIn
    <3> QED BY <2>5, <3>1
  <2>10. Ready(T, a, a - 1, n, Opened(f), out)
    <3>1. a \in 1..(Len(T) + 1) /\ a - 1 \in 0..n /\ a <= a - 1 + 1 /\ (a - 1 < n \/ n < a)
      BY <1>1, <2>5
    <3>2. Opened(f).buffer = SubSeq(T, a - 1 + 1, n)
      BY <2>5, <2>7
    <3>3. Places(T, Separator(T)) # {} /\ Opened(f).separator = Separator(T)
      BY <2>1, <2>7 DEF P, s
    <3>4. Opened(f).state = "emitting"
          /\ Opened(f) = [buffer |-> Opened(f).buffer, state |-> Opened(f).state,
                          separator |-> Opened(f).separator]
      BY <2>7
    <3> QED BY <1>5, <2>4, <2>8, <2>9, <3>1, <3>2, <3>3, <3>4 DEF Ready
  <2> QED BY <2>10
<1> QED BY <1>7, <1>8

(* What is for the user is a text.                                         *)
LEMMA WithoutIs == ASSUME NEW T \in Seq(STRING), NEW gone PROVE Without(T, gone) \in Seq(STRING)
<1> DEFINE kept == {i \in 1..Len(T) : i \notin gone}
<1>1. kept \in SUBSET (DOMAIN T)
  OBVIOUS
<1>2. Without(T, gone) = Taken(T, kept)
  BY DEF Without, Taken, Nth
<1> HIDE DEF kept
<1> QED BY <1>1, <1>2, TakenIs

LEMMA VisibleText ==
    ASSUME NEW T \in Seq(STRING), Readable(T) PROVE Visible(T) \in Seq(STRING)
<1>1. CASE ~Scaffolded(T) \/ Places(T, Separator(T)) = {}
  BY <1>1, WithoutIs DEF Visible
<1>2. CASE Scaffolded(T) /\ Places(T, Separator(T)) # {}
  <2> DEFINE o == AnswerAt(T)
             later == {i \in TagsIn(T) : i >= o}
             L == Len(T)
  <2>1. o \in 3..(L + 1) /\ L \in Nat
    BY <1>2, AnswerBegins
  <2>2. /\ later = {} => Visible(T) = SubSeq(T, o, L)
        /\ later # {} => FirstOf(later) \in later /\ Visible(T) = SubSeq(T, o, FirstOf(later) - 1)
    BY <1>2, VisibleIs
  <2> HIDE DEF o
  <2>3. CASE later = {}
    <3>1. o \in 1..(Len(T) + 1) /\ L \in 0..Len(T) /\ o <= L + 1
      BY <2>1
    <3> HIDE DEF later
    <3> QED BY <2>2, <2>3, <3>1, PieceIs
  <2>4. CASE later # {}
    <3> DEFINE h == FirstOf(later)
    <3>1. h \in TagsIn(T) /\ h >= o
      BY <2>2, <2>4
    <3> HIDE DEF h
    <3>2. o \in 1..(Len(T) + 1) /\ h - 1 \in 0..Len(T) /\ o <= h - 1 + 1
      BY <2>1, <3>1 DEF TagsIn
    <3>3. Visible(T) = SubSeq(T, o, h - 1)
      BY <2>2, <2>4 DEF h
    <3> QED BY <3>2, <3>3, PieceIs
  <2> QED BY <2>3, <2>4
<1> QED BY <1>1, <1>2

LEMMA Buffered ==
    ASSUME NEW f, NEW x, f = [buffer |-> f.buffer, state |-> f.state, separator |-> f.separator]
    PROVE  [f EXCEPT !.buffer = x] = [buffer |-> x, state |-> f.state, separator |-> f.separator]
OBVIOUS

(* However many symbols the next token has, the filter is then where the   *)
(* longer text brings it.                                                  *)
LEMMA FeedFed ==
    ASSUME NEW T \in Seq(STRING), Readable(T), NEW n \in 0..Len(T), NEW k \in 1..(Len(T) - n),
           NEW f, NEW out, Fed(T, n, f, out)
    PROVE  LET fed == Feed(f, SubSeq(T, n + 1, n + k))
           IN  Fed(T, n + k, fed.filter, out \o fed.out)
<1> DEFINE token == SubSeq(T, n + 1, n + k)
           N == n + k
           e == [f EXCEPT !.buffer = @ \o token]
           d == Decided(e)
           g == Opened(d)
           fed == Feed(f, token)
<1> SUFFICES Fed(T, N, fed.filter, out \o fed.out)
  OBVIOUS
<1>1. PICK L \in Nat : L = Len(T)
  OBVIOUS
<1>2. /\ N \in 0..L /\ N \in 0..Len(T) /\ n \in 0..L /\ N > n /\ N >= 1
      /\ 1 \in 1..(L + 1) /\ 1 <= n + 1 /\ 1 <= N + 1 /\ n <= N
  BY <1>1
<1>3. f.state \in States
      /\ f = [buffer |-> f.buffer, state |-> f.state, separator |-> f.separator]
  BY DEF Fed
<1>4. SubSeq(T, 1, n) \o token = SubSeq(T, 1, N)
  BY <1>1, <1>2, PiecesJoin
<1>5. e = [buffer |-> f.buffer \o token, state |-> f.state, separator |-> f.separator]
  BY <1>3, Buffered
<1>6. f.state # "closed" => fed = Released(g)
  BY DEF Feed
<1> HIDE DEF N, token, e, d, g, fed
<1>7. ASSUME f.state # "closed", NEW a, NEW m, Ready(T, a, m, N, g, out)
      PROVE  Fed(T, N, fed.filter, out \o fed.out)
  BY <1>2, <1>6, <1>7, ReleasedFed
<1>8. ASSUME f.state # "closed", g.state \notin {"emitting", "passthrough"}, out = <<>>,
             Fed(T, N, g, out)
      PROVE  Fed(T, N, fed.filter, out \o fed.out)
  <2>1. fed = [filter |-> g, out |-> <<>>]
    BY <1>6, <1>8 DEF Released, Quiet
  <2>2. out \o fed.out = out
    BY <2>1, <1>8
  <2> QED BY <1>8, <2>1, <2>2
<1>9. CASE f.state = "closed"
  <2>1. fed = [filter |-> f, out |-> <<>>]
    BY <1>9 DEF fed, Feed, Quiet
  <2>2. out = Visible(T) /\ out \in Seq(STRING)
    BY <1>9, VisibleText DEF Fed
  <2>3. out \o fed.out = out
    BY <2>1, <2>2
  <2>4. Fed(T, N, f, out)
    BY <1>3, <1>9, <2>2 DEF Fed
  <2> QED BY <2>1, <2>3, <2>4
<1>10. CASE f.state \in {"passthrough", "emitting"}
  <2> DEFINE a == IF f.state = "passthrough" THEN 1 ELSE AnswerAt(T)
  <2>1. /\ a \in 1..(Len(T) + 1) /\ HeldBack(T, a, n, f.buffer, out)
        /\ f.state = "passthrough" => ~Scaffolded(T) /\ a = 1
        /\ f.state = "emitting" => /\ Scaffolded(T) /\ f.separator = Separator(T)
                                   /\ Places(T, Separator(T)) # {} /\ a = AnswerAt(T)
    <3>1. CASE f.state = "passthrough"
      BY <3>1 DEF Fed
    <3>2. CASE f.state = "emitting"
      <4>1. Places(T, Separator(T)) # {} /\ HeldBack(T, AnswerAt(T), n, f.buffer, out)
        BY <3>2 DEF Fed
      <4>2. AnswerAt(T) \in 3..(Len(T) + 1)
        BY <4>1, AnswerBegins
      <4>3. AnswerAt(T) \in 1..(Len(T) + 1)
        BY <4>2
      <4> QED BY <3>2, <4>1, <4>3 DEF Fed
    <3> QED BY <1>10, <3>1, <3>2
  <2> HIDE DEF a
  <2>2. g = e
    BY <1>5, <1>10 DEF g, d, Decided, Opened
  <2>3. PICK m \in 0..N : /\ a <= m + 1 /\ m < N
                          /\ f.buffer \o token = SubSeq(T, m + 1, N)
                          /\ out = SubSeq(T, a, m)
                          /\ \A i \in TagsIn(T) : i < a \/ i > m
    <3>1. a \in 1..(Len(T) + 1) /\ HeldBack(T, a, n, f.buffer, out)
      BY <2>1
    <3>2. \E m : Extended(T, a, m, n, n + k, f.buffer, out)
      BY <3>1, HeldReady
    <3> QED BY <3>2 DEF N, token, Extended
  <2>4. g = [buffer |-> g.buffer, state |-> g.state, separator |-> g.separator]
        /\ g.buffer = SubSeq(T, m + 1, N) /\ g.state = f.state /\ g.separator = f.separator
    BY <1>5, <2>2, <2>3
  <2>5. Ready(T, a, m, N, g, out)
    BY <1>10, <2>1, <2>3, <2>4 DEF Ready
  <2> QED BY <1>7, <1>10, <2>5
<1>11. ASSUME NEW s, d = [buffer |-> SubSeq(T, 1, N), state |-> "waiting", separator |-> s],
              Scaffolded(T), s = Separator(T), out = <<>>, f.state # "closed"
       PROVE  Fed(T, N, fed.filter, out \o fed.out)
  <2>1. Waiting(T, N, d, out)
    BY <1>11 DEF Waiting
  <2>2. \/ Fed(T, N, g, out) /\ g.state = "waiting"
        \/ \E a, m : Ready(T, a, m, N, g, out)
    BY <1>2, <2>1, OpenedFed DEF g
  <2>3. CASE Fed(T, N, g, out) /\ g.state = "waiting"
    BY <1>8, <1>11, <2>3
  <2>4. CASE \E a, m : Ready(T, a, m, N, g, out)
    BY <1>7, <1>11, <2>4
  <2> QED BY <2>2, <2>3, <2>4
<1>12. CASE f.state = "waiting"
  <2>1. /\ Scaffolded(T) /\ f.separator = Separator(T) /\ f.buffer = SubSeq(T, 1, n) /\ out = <<>>
    BY <1>12 DEF Fed
  <2>2. d = [buffer |-> SubSeq(T, 1, N), state |-> "waiting", separator |-> f.separator]
    BY <1>4, <1>5, <1>12, <2>1 DEF d, Decided
  <2> QED BY <1>11, <1>12, <2>1, <2>2
<1>13. CASE f.state = "deciding"
  <2>1. f.buffer = SubSeq(T, 1, n) /\ out = <<>>
    BY <1>13 DEF Fed
  <2> DEFINE x == SubSeq(T, 1, N)
  <2>2. x \in Seq(STRING) /\ Len(x) = N /\ \A i \in 1..N : x[i] = T[i]
    <3>1. N - 1 + 1 = N /\ \A i \in 1..N : 1 + i - 1 = i
      BY <1>2
    <3>2. x \in Seq(STRING) /\ Len(x) = N - 1 + 1 /\ \A i \in 1..(N - 1 + 1) : x[i] = T[1 + i - 1]
      BY <1>1, <1>2, PieceIs
    <3> HIDE DEF x
    <3> QED BY <3>1, <3>2
  <2>3. TagsIn(x) = {i \in 1..(N - 1) : i \in TagsIn(T)}
    <3>1. TagsIn(x) = {i \in 1..(N - 1) : 1 + i - 1 \in TagsIn(T)}
      BY <1>1, <1>2, TagsOfPiece
    <3>2. \A i \in 1..(N - 1) : 1 + i - 1 = i
      BY <1>2
    <3> HIDE DEF x
    <3> QED BY <3>1, <3>2
  <2>4. e = [buffer |-> x, state |-> "deciding", separator |-> f.separator]
    BY <1>4, <1>5, <1>13, <2>1
  <2> HIDE DEF x
  <2>5. CASE TagsIn(x) # {}
    <3>1. d = [buffer |-> x, state |-> "waiting", separator |-> TaggedFinal]
      BY <2>4, <2>5 DEF d, Decided
    <3>2. TagsIn(T) # {}
      BY <2>3, <2>5
    <3>3. Scaffolded(T) /\ TaggedFinal = Separator(T)
      BY <3>2, ReadableTags
    <3> QED BY <1>11, <1>13, <2>1, <3>1, <3>3 DEF x
  <2>6. CASE TagsIn(x) = {} /\ Len(x) > 1
    <3>1. TagsIn(T) = {} /\ Len(T) > 1 /\ x[1] = T[1] /\ N >= 2
      <4>1. N >= 2 /\ Len(T) > 1 /\ 1 \in 1..(N - 1) /\ 1 \in 1..N
        BY <1>1, <1>2, <2>2, <2>6
      <4>2. 1 \notin TagsIn(T)
        BY <2>3, <2>6, <4>1
      <4> QED BY <2>2, <4>1, <4>2 DEF Readable
    <3>2. Separator(T) = UntaggedFinal
      BY <3>1, ReadableTags
    <3>3. CASE x[1] = "analysis"
      <4>1. d = [buffer |-> x, state |-> "waiting", separator |-> UntaggedFinal]
        BY <2>4, <2>6, <3>3 DEF d, Decided
      <4>2. Scaffolded(T)
        BY <3>1, <3>3 DEF Scaffolded
      <4> QED BY <1>11, <1>13, <2>1, <3>2, <4>1, <4>2 DEF x
    <3>4. CASE x[1] # "analysis"
      <4>1. ~Scaffolded(T)
        BY <3>1, <3>4 DEF Scaffolded
      <4>2. CASE Len(x) >= Probe
        <5>1. g = [buffer |-> x, state |-> "passthrough", separator |-> f.separator]
          BY <2>4, <2>6, <3>4, <4>2 DEF g, d, Decided, Opened
        <5>2. /\ 1 \in 1..(Len(T) + 1) /\ 0 \in 0..N /\ 1 <= 0 + 1 /\ 0 < N /\ 0 + 1 = 1
              /\ \A i \in TagsIn(T) : i < 1 \/ i > 0
          BY <1>1, <1>2, <3>1
        <5>3. out = SubSeq(T, 1, 0)
          <6>1. SubSeq(T, 1, 0) = <<>>
            OBVIOUS
          <6> QED BY <2>1, <6>1
        <5>4. Ready(T, 1, 0, N, g, out)
          BY <4>1, <5>1, <5>2, <5>3 DEF Ready, x
        <5> QED BY <1>7, <1>13, <5>4
      <4>3. CASE ~(Len(x) >= Probe)
        <5>1. g = [buffer |-> x, state |-> "deciding", separator |-> f.separator]
          BY <2>4, <2>6, <3>4, <4>3 DEF g, d, Decided, Opened
        <5>2. Fed(T, N, g, out)
          BY <2>1, <4>1, <5>1 DEF Fed, States, x
        <5> QED BY <1>8, <1>13, <2>1, <5>1, <5>2
      <4> QED BY <4>2, <4>3
    <3> QED BY <3>3, <3>4
  <2>7. CASE TagsIn(x) = {} /\ ~(Len(x) > 1)
    <3>1. ~(Len(x) >= Probe) /\ N < 2
      BY <1>2, <2>2, <2>7, HarmonyAssumption
    <3>2. g = [buffer |-> x, state |-> "deciding", separator |-> f.separator]
      BY <2>4, <2>7, <3>1 DEF g, d, Decided, Opened
    <3>3. Fed(T, N, g, out)
      BY <2>1, <3>1, <3>2 DEF Fed, States, x
    <3> QED BY <1>8, <1>13, <2>1, <3>2, <3>3
  <2> QED BY <2>5, <2>6, <2>7
<1> QED BY <1>3, <1>9, <1>10, <1>12, <1>13 DEF States

(* What was shown so far is the beginning of what is for the user.         *)
LEMMA FedShows ==
    ASSUME NEW T \in Seq(STRING), Readable(T), NEW n \in 0..Len(T), NEW f, NEW out, Fed(T, n, f, out)
    PROVE  IsPrefix(out, Visible(T))
<1>1. Visible(T) \in Seq(STRING)
  BY VisibleText
<1>2. CASE f.state = "closed"
  BY <1>1, <1>2, AllFirst DEF Fed
<1>3. CASE f.state \in {"deciding", "waiting"}
  <2>1. out = <<>>
    BY <1>3 DEF Fed
  <2> QED BY <1>1, <2>1, NothingFirst
<1>4. CASE f.state = "passthrough"
  <2>1. Visible(T) = T /\ HeldBack(T, 1, n, f.buffer, out)
    BY <1>4 DEF Fed, Visible
  <2>2. PICK m \in {n, n - 1} : 1 <= m + 1 /\ out = SubSeq(T, 1, m)
    BY <2>1 DEF HeldBack
  <2>3. m \in 0..Len(T)
    BY <2>2
  <2> QED BY <2>1, <2>2, <2>3, FirstEntries
<1>5. CASE f.state = "emitting"
  <2> DEFINE o == AnswerAt(T)
             later == {i \in TagsIn(T) : i >= o}
  <2>1. Scaffolded(T) /\ Places(T, Separator(T)) # {} /\ HeldBack(T, o, n, f.buffer, out)
    BY <1>5 DEF Fed
  <2>2. PICK m \in {n, n - 1} : /\ o <= m + 1 /\ out = SubSeq(T, o, m)
                                /\ \A i \in TagsIn(T) : i < o \/ i > m
    BY <2>1 DEF HeldBack
  <2>3. o \in 3..(Len(T) + 1)
    BY <2>1, AnswerBegins
  <2>4. PICK L \in Nat : L = Len(T)
    OBVIOUS
  <2>5. /\ later = {} => Visible(T) = SubSeq(T, o, Len(T))
        /\ later # {} => FirstOf(later) \in later /\ Visible(T) = SubSeq(T, o, FirstOf(later) - 1)
    BY <2>1, VisibleIs
  <2> HIDE DEF o
  <2>6. m \in 0..Len(T) /\ o \in 1..(Len(T) + 1)
    BY <2>2, <2>3
  <2>7. CASE later = {}
    <3>1. Len(T) \in 0..Len(T) /\ m <= Len(T)
      BY <2>4, <2>6
    <3> HIDE DEF later
    <3> QED BY <2>2, <2>5, <2>6, <2>7, <3>1, PieceFirst
  <2>8. CASE later # {}
    <3> DEFINE h == FirstOf(later)
    <3>1. h \in TagsIn(T) /\ h >= o
      BY <2>5, <2>8
    <3> HIDE DEF h
    <3>2. h \in 1..(L - 1)
      BY <2>4, <3>1 DEF TagsIn
    <3>3. h - 1 \in 0..Len(T) /\ m <= h - 1
      BY <2>2, <2>3, <2>4, <2>6, <3>1, <3>2
    <3>4. Visible(T) = SubSeq(T, o, h - 1)
      BY <2>5, <2>8 DEF h
    <3> QED BY <2>2, <2>6, <3>3, <3>4, PieceFirst
  <2> QED BY <2>7, <2>8
<1> QED BY <1>2, <1>3, <1>4, <1>5 DEF Fed, States

(* At the end of the text, what is held back is the rest of it.            *)
LEMMA FlushShows ==
    ASSUME NEW T \in Seq(STRING), Readable(T), ~Welded(T), NEW f, NEW out,
           Fed(T, Len(T), f, out)
    PROVE  out \o Flush(f).out = Visible(T)
<1>1. Visible(T) \in Seq(STRING) /\ SubSeq(T, 1, Len(T)) = T
  BY VisibleText
<1>2. PICK L \in Nat : L = Len(T)
  OBVIOUS
<1>3. CASE f.state = "closed"
  <2>1. out = Visible(T) /\ Flush(f).out = <<>>
    BY <1>3 DEF Fed, Flush
  <2> QED BY <1>1, <2>1
<1>4. CASE f.state = "waiting"
  <2>1. /\ Scaffolded(T) /\ f.buffer = T /\ out = <<>>
        /\ \A i \in Places(T, Separator(T)) : Len(T) <= i
    BY <1>1, <1>4 DEF Fed
  <2>2. Places(T, Separator(T)) \in SUBSET (1..(L - 1))
    BY <1>2, PlacesAre, SeparatorIs
  <2>3. Places(T, Separator(T)) = {}
    BY <1>2, <2>1, <2>2
  <2>4. Visible(T) = Stripped(T) /\ Flush(f).out = Stripped(T)
    BY <1>4, <2>1, <2>3 DEF Visible, Flush, Welded, Stripped
  <2> QED BY <1>1, <2>1, <2>4
<1>5. CASE f.state = "deciding"
  <2>1. f.buffer = T /\ out = <<>> /\ (L < 2 \/ ~Scaffolded(T))
    BY <1>1, <1>2, <1>5 DEF Fed
  <2>2. ~Scaffolded(T)
    <3>1. ASSUME L < 2 PROVE ~Scaffolded(T)
      BY <1>2, <3>1 DEF Scaffolded, TagsIn
    <3> QED BY <2>1, <3>1
  <2>3. Flush(f).out = T /\ Visible(T) = T
    BY <1>5, <2>1, <2>2 DEF Flush, Visible
  <2> QED BY <2>1, <2>3
<1>6. ASSUME f.state \in {"passthrough", "emitting"}, NEW a \in 1..(L + 1),
             HeldBack(T, a, L, f.buffer, out)
      PROVE  /\ out \o Flush(f).out = SubSeq(T, a, L)
             /\ \A i \in TagsIn(T) : i < a
  <2>1. PICK m \in {L, L - 1} : /\ a <= m + 1 /\ out = SubSeq(T, a, m)
                                /\ f.buffer = SubSeq(T, m + 1, L)
                                /\ \A i \in TagsIn(T) : i < a \/ i > m
    BY <1>6, Zenon DEF HeldBack
  <2>2. m \in 0..L /\ L \in 0..L /\ m <= L
    BY <1>2, <1>6, <2>1
  <2>3. Flush(f).out = f.buffer
    BY <1>6 DEF Flush
  <2>4. SubSeq(T, a, m) \o SubSeq(T, m + 1, L) = SubSeq(T, a, L)
    BY <1>2, <1>6, <2>1, <2>2, PiecesJoin
  <2>5. ASSUME NEW i \in TagsIn(T) PROVE i < a
    <3>1. i \in 1..(L - 1)
      BY <1>2 DEF TagsIn
    <3>2. ~(i > m)
      BY <1>2, <2>1, <2>2, <3>1
    <3> QED BY <2>1, <3>2
  <2> QED BY <2>1, <2>3, <2>4, <2>5
<1>7. CASE f.state = "passthrough"
  <2>1. Visible(T) = T /\ HeldBack(T, 1, L, f.buffer, out) /\ 1 \in 1..(L + 1)
    BY <1>2, <1>7 DEF Fed, Visible
  <2> QED BY <1>1, <1>2, <1>6, <1>7, <2>1
<1>8. CASE f.state = "emitting"
  <2>1. /\ Scaffolded(T) /\ Places(T, Separator(T)) # {}
        /\ HeldBack(T, AnswerAt(T), L, f.buffer, out)
    BY <1>2, <1>8 DEF Fed
  <2>2. AnswerAt(T) \in 3..(L + 1)
    BY <1>2, <2>1, AnswerBegins
  <2>3. AnswerAt(T) \in 1..(L + 1)
    BY <1>2, <2>2
  <2>4. out \o Flush(f).out = SubSeq(T, AnswerAt(T), L) /\ \A i \in TagsIn(T) : i < AnswerAt(T)
    BY <1>6, <1>8, <2>1, <2>3
  <2>5. {i \in TagsIn(T) : i >= AnswerAt(T)} = {}
    <3>1. \A i \in TagsIn(T) : i \in Int
      BY DEF TagsIn
    <3> QED BY <2>3, <2>4, <3>1
  <2>6. Visible(T) = SubSeq(T, AnswerAt(T), L)
    BY <1>2, <2>1, <2>5, VisibleIs
  <2> QED BY <2>4, <2>6
<1> QED BY <1>3, <1>4, <1>5, <1>7, <1>8 DEF Fed, States

--------------------------------------------------------------------------------
(* The answer as it is streamed.                                           *)

(* Of a transcript, the model has sent n symbols, and the filter and the   *)
(* client are where they bring them.                                       *)
Streamed(t, n) ==
    /\ rendering = t /\ stream = From(t.text, n + 1)
    /\ Fed(t.text, n, filter, shown)

Early == {"enter", "decide", "thinking", "acting", "render", "refused"}

StreamInv ==
    /\ pc \in Early \cup {"streaming", "done", "failed"}
    /\ pc \in Early => shown = <<>> /\ rendering.answer = <<>> /\ filter = NewFilter
    /\ pc = "streaming" => \E t \in Transcripts : \E n \in 0..Len(t.text) : Streamed(t, n)
    /\ pc \in {"done", "failed"} => OnlyAnswerShown

LEMMA StreamInit == AgentInit => StreamInv
BY DEF AgentInit, StreamInv, Early

(* Whatever was streamed, what was shown is the beginning of the answer.   *)
LEMMA StreamShows == ASSUME StreamInv PROVE OnlyAnswerShown
<1>1. CASE pc \in Early
  <2>1. shown = <<>> /\ rendering.answer = <<>> /\ pc # "done"
    BY <1>1 DEF StreamInv, Early
  <2>2. <<>> \in Seq(STRING)
    OBVIOUS
  <2> QED BY <2>1, <2>2, NothingFirst DEF OnlyAnswerShown
<1>2. CASE pc = "streaming"
  <2>0. PICK t \in Transcripts : \E n \in 0..Len(t.text) : Streamed(t, n)
    BY <1>2 DEF StreamInv
  <2>1. PICK n \in 0..Len(t.text) : Streamed(t, n)
    BY <2>0
  <2>2. t.text \in Seq(STRING) /\ Readable(t.text) /\ t.answer = Visible(t.text)
    BY TranscriptAssumption
  <2>3. PICK T : T = t.text
    OBVIOUS
  <2>4. IsPrefix(shown, Visible(T))
    BY <2>1, <2>2, <2>3, FedShows DEF Streamed
  <2> QED BY <1>2, <2>1, <2>2, <2>3, <2>4 DEF Streamed, OnlyAnswerShown
<1>3. CASE pc \in {"done", "failed"}
  BY <1>3 DEF StreamInv
<1> QED BY <1>1, <1>2, <1>3 DEF StreamInv

LEMMA StreamNext == ASSUME StreamInv, [AgentNext]_agentVars PROVE StreamInv'
<1>1. CASE UNCHANGED answer /\ pc' = pc
  <2>1. UNCHANGED <<pc, stream, filter, shown, rendering>>
    BY <1>1 DEF answer
  <2> QED BY <2>1 DEF StreamInv, Streamed, OnlyAnswerShown
<1>2. CASE UNCHANGED answer /\ pc \in Early /\ pc' \in Early
  BY <1>2 DEF StreamInv, Early, answer
<1>3. CASE ProviderFails
  <2>1. UNCHANGED <<shown, rendering>> /\ pc' = "failed"
    BY <1>3 DEF ProviderFails, answer
  <2>2. ~Welded(rendering.text) => IsPrefix(shown, rendering.answer)
    BY StreamShows DEF OnlyAnswerShown
  <2>3. OnlyAnswerShown'
    BY <2>1, <2>2 DEF OnlyAnswerShown
  <2> QED BY <2>1, <2>3 DEF StreamInv, Early
<1>4. ASSUME NEW t \in Transcripts, BeginAnswer(t) PROVE StreamInv'
  <2>1. /\ stream' = t.text /\ rendering' = t /\ filter' = NewFilter /\ shown' = <<>>
        /\ pc' = "streaming"
    BY <1>4 DEF BeginAnswer, StreamInv, Early
  <2>2. PICK T \in Seq(STRING) : T = t.text
    BY TranscriptAssumption
  <2>3. From(T, 0 + 1) = T /\ 0 \in 0..Len(T) /\ SubSeq(T, 1, 0) = <<>>
    BY DEF From
  <2>4. Fed(T, 0, NewFilter, <<>>)
    BY <2>3 DEF Fed, NewFilter, States
  <2>5. Streamed(t, 0)'
    BY <2>1, <2>2, <2>3, <2>4 DEF Streamed
  <2> QED BY <2>1, <2>2, <2>3, <2>5 DEF StreamInv, Early
<1>5. ASSUME NEW k, StreamToken(k) PROVE StreamInv'
  <2>1. /\ pc = "streaming" /\ pc' = pc /\ k \in 1..Len(stream) /\ rendering' = rendering
        /\ filter' = Feed(filter, SubSeq(stream, 1, k)).filter
        /\ shown' = shown \o Feed(filter, SubSeq(stream, 1, k)).out
        /\ stream' = From(stream, k + 1)
    BY <1>5 DEF StreamToken
  <2>0. PICK t \in Transcripts : \E n \in 0..Len(t.text) : Streamed(t, n)
    BY <2>1 DEF StreamInv
  <2>2. PICK n \in 0..Len(t.text) : Streamed(t, n)
    BY <2>0
  <2>3. PICK T \in Seq(STRING) : T = t.text /\ Readable(T)
    BY TranscriptAssumption
  <2>4. n \in 0..Len(T) /\ stream = From(T, n + 1) /\ Fed(T, n, filter, shown)
    BY <2>2, <2>3 DEF Streamed
  <2>5. n + k \in 0..Len(T) /\ k \in 1..(Len(T) - n)
    <3>1. Len(stream) = Len(T) - n
      <4>1. CASE n = Len(T)
        BY <2>4, <4>1 DEF From
      <4>2. CASE n # Len(T)
        <5>1. 1 \in 1..(Len(T) - n)
          BY <2>4, <4>2
        <5> QED BY <2>4, <5>1, Continues
      <4> QED BY <4>1, <4>2
    <3> QED BY <2>1, <2>4, <3>1
  <2>6. SubSeq(stream, 1, k) = SubSeq(T, n + 1, n + k) /\ stream' = From(T, n + k + 1)
    BY <2>1, <2>4, <2>5, Continues
  <2>7. Fed(T, n + k, filter', shown')
    BY <2>1, <2>3, <2>4, <2>5, <2>6, FeedFed
  <2>8. Streamed(t, n + k)'
    BY <2>1, <2>2, <2>3, <2>6, <2>7 DEF Streamed
  <2> QED BY <2>1, <2>3, <2>5, <2>8 DEF StreamInv, Early
<1>6. CASE FinishAnswer
  <2>1. /\ pc = "streaming" /\ pc' = "done" /\ stream = <<>> /\ rendering' = rendering
        /\ shown' = shown \o Flush(filter).out
    BY <1>6 DEF FinishAnswer, Trailing
  <2>0. PICK t \in Transcripts : \E n \in 0..Len(t.text) : Streamed(t, n)
    BY <2>1 DEF StreamInv
  <2>2. PICK n \in 0..Len(t.text) : Streamed(t, n)
    BY <2>0
  <2>3. PICK T \in Seq(STRING) : T = t.text /\ Readable(T) /\ t.answer = Visible(T)
    BY TranscriptAssumption
  <2>4. /\ n \in 0..Len(T) /\ stream = From(T, n + 1) /\ Fed(T, n, filter, shown)
        /\ rendering' = t
    BY <2>1, <2>2, <2>3 DEF Streamed
  <2>5. n = Len(T)
    <3>1. ASSUME n # Len(T) PROVE FALSE
      <4>1. 1 \in 1..(Len(T) - n)
        BY <2>4, <3>1
      <4>2. Len(stream) = Len(T) - n
        BY <2>4, <4>1, Continues
      <4> QED BY <2>1, <2>4, <3>1, <4>2
    <3> QED BY <3>1
  <2>6. ~Welded(T) => shown' = Visible(T)
    BY <2>1, <2>3, <2>4, <2>5, FlushShows
  <2>7. IsPrefix(Visible(T), Visible(T))
    BY <2>3, VisibleText, AllFirst
  <2>8. OnlyAnswerShown'
    BY <2>1, <2>3, <2>4, <2>6, <2>7 DEF OnlyAnswerShown
  <2> QED BY <2>1, <2>8 DEF StreamInv, Early
<1>7. CASE Think
  <2>1. ProviderFails \/ (UNCHANGED answer /\ pc \in Early /\ pc' \in Early)
    BY <1>7
    DEF Think, Early, Enter, PrecheckRefuses, BeginTurn, ModelCalls, ModelCannotCall, ModelReady,
        Deciding
  <2> QED BY <1>2, <1>3, <2>1
<1>8. CASE Tool
  <2>1. UNCHANGED answer /\ (pc' = pc \/ (pc = "acting" /\ pc' \in {"render", "decide"}))
    BY <1>8
    DEF Tool, SkipRepeated, RunWithoutPassages, ListDocuments, RunSearch, EndTurn
  <2> QED BY <1>1, <1>2, <2>1 DEF Early
<1>9. CASE Write
  BY <1>4, <1>5, <1>6, <1>9 DEF Write
<1>10. CASE UNCHANGED agentVars
  BY <1>1, <1>10 DEF agentVars
<1> QED BY <1>7, <1>8, <1>9, <1>10 DEF AgentNext

(* The filter is fed the stream in tokens cut anywhere, and yet the client *)
(* sees of every rendering but the welded one what is for it alone, in     *)
(* order, and has all of it at the end (agent/harmony.py:68-129).          *)
THEOREM OnlyAnswerAlwaysShown == AgentSpec => []OnlyAnswerShown
<1>1. StreamInv => OnlyAnswerShown
  BY StreamShows
<1> QED BY <1>1, StreamInit, StreamNext, PTL DEF AgentSpec

================================================================================
