--------------------------- MODULE EmbeddingClient ---------------------------
(***************************************************************************)
(* One call of openai_embed (llm/openai_compatible.py): the texts are cut  *)
(* into requests; a refused request is sent again without the dimensions   *)
(* parameter, then with its texts cut shorter, then in two halves; and a   *)
(* transient error repeats the request.                                    *)
(*                                                                         *)
(* A text weighs its tokens.  The provider is a set of limits the client   *)
(* does not know.  A row of the result is the text it was made from and    *)
(* how much of the text was sent.                                          *)
(***************************************************************************)
EXTENDS Integers, Sequences, FiniteSets, SequencesExt

CONSTANTS
    BatchItems,       \* EMBEDDING_BATCH_SIZE
    BatchTokens,      \* EMBEDDING_BATCH_MAX_TOKENS
    TokenBudget,      \* budget of one text, or 0 for none
    LeastBudget,      \* the budget a text is never cut below
    EmbedAttempts,    \* stop_after_attempt
    Providers         \* what providers accept: items, tokens of a text, dimensions

ASSUME EmbeddingAssumption ==
    /\ {BatchItems, BatchTokens, LeastBudget, EmbedAttempts} \subseteq Nat \ {0}
    /\ TokenBudget \in Nat
    /\ \A p \in Providers : p.items \in Nat \ {0} /\ p.tokens \in Nat

VARIABLES
    ephase,    \* where the call stands
    texts,     \* the texts, with their weight
    pending,   \* the parts of the batch still to send, by their first and last text
    request,   \* how the next one is sent
    provider,  \* the provider's limits
    rows,      \* the rows so far
    faults     \* history: the transient errors of the current request

embedding == <<ephase, texts, pending, request, provider, rows, faults>>

(* A request as it is first sent; budget 0 stands for uncut texts. *)
Fresh == [dimensions |-> TRUE, budget |-> TokenBudget, again |-> FALSE]

EmbeddingInit ==
    /\ ephase = "idle" /\ texts = <<>> /\ pending = <<>> /\ rows = <<>>
    /\ request = Fresh /\ provider = (CHOOSE p \in Providers : TRUE) /\ faults = 0

Weight(batch) == FoldLeft(LAMBDA sum, t : sum + t.tokens, 0, batch)

(* As many texts to a request as items and tokens allow, one at least:     *)
(* the request that starts with text i ends with text LastOf(ts, i).       *)
LastOf(ts, i) ==
    Max({j \in i..Len(ts) : j = i \/ (j - i < BatchItems /\ Weight(SubSeq(ts, i, j)) <= BatchTokens)})

Part(first, last) == [first |-> first, last |-> last]

(* The batches before text i are sent: the next one, if there is a text.   *)
(* The texts do not change, so the batches are cut one at a time.          *)
BatchesFrom(ts, i) ==
    IF i > Len(ts) THEN <<>> ELSE <<Part(i, LastOf(ts, i))>>

BeginEmbedding(ts) ==
    /\ ephase = "idle"
    /\ texts' = ts
    /\ pending' = BatchesFrom(ts, 1)
    /\ rows' = <<>> /\ request' = Fresh /\ faults' = 0
    /\ ephase' = IF pending' = <<>> THEN "embedded" ELSE "sending"
    /\ provider' \in Providers

Sending == ephase = "sending"
From    == Head(pending).first
To      == Head(pending).last
Batch   == SubSeq(texts, From, To)

(* What is sent of a text. *)
Sent(t) == IF request.budget = 0 \/ t.tokens <= request.budget THEN t.tokens ELSE request.budget

DimensionsRefused == request.dimensions /\ ~provider.dimensions
TooMuch == Len(Batch) > provider.items \/ \E i \in DOMAIN Batch : Sent(Batch[i]) > provider.tokens

Accepted ==
    /\ Sending /\ ~DimensionsRefused /\ ~TooMuch
    /\ rows' = rows \o [i \in DOMAIN Batch |-> [text |-> Batch[i].text, sent |-> Sent(Batch[i])]]
    /\ pending' = IF Len(pending) > 1 THEN Tail(pending) ELSE BatchesFrom(texts, To + 1)
    /\ request' = Fresh /\ faults' = 0
    /\ ephase' = IF pending' = <<>> THEN "embedded" ELSE "sending"
    /\ UNCHANGED <<texts, provider>>

WithoutDimensions ==
    /\ Sending /\ DimensionsRefused
    /\ request' = [request EXCEPT !.dimensions = FALSE]
    /\ UNCHANGED <<ephase, texts, pending, provider, rows, faults>>

Refused == Sending /\ ~DimensionsRefused /\ TooMuch
MayCut  == TokenBudget > 0 /\ ~request.again

(* The provider tells its limit: the budget is scaled by what it overshot. *)
CutToLimit(scaled) ==
    /\ Refused /\ MayCut
    /\ scaled \in LeastBudget..(TokenBudget - 1)
    /\ request' = [request EXCEPT !.budget = scaled, !.again = TRUE]
    /\ UNCHANGED <<ephase, texts, pending, provider, rows, faults>>

(* It does not: the budget is halved. *)
CutInHalf ==
    /\ Refused /\ MayCut
    /\ request' = [request EXCEPT !.budget = IF TokenBudget \div 2 < LeastBudget THEN LeastBudget
                                             ELSE TokenBudget \div 2,
                                  !.again = TRUE]
    /\ UNCHANGED <<ephase, texts, pending, provider, rows, faults>>

(* A mutant: the second half is sent first. *)
BisectSwapped ==
    /\ Refused
    /\ Len(Batch) > 1
    /\ LET mid == From + Len(Batch) \div 2
       IN  pending' = <<Part(mid, To), Part(From, mid - 1)>> \o Tail(pending)
    /\ request' = Fresh /\ faults' = 0
    /\ UNCHANGED <<ephase, texts, provider, rows>>

(* Refused for good, also when there is no budget to cut to or it would    *)
(* not be smaller: halves, each a request of its own.                      *)
Bisect ==
    /\ Refused
    /\ Len(Batch) > 1
    /\ LET mid == From + Len(Batch) \div 2
       IN  pending' = <<Part(From, mid - 1), Part(mid, To)>> \o Tail(pending)
    /\ request' = Fresh /\ faults' = 0
    /\ UNCHANGED <<ephase, texts, provider, rows>>

RefusedAlone ==
    /\ Refused
    /\ Len(Batch) = 1
    /\ ephase' = "refused"
    /\ UNCHANGED <<texts, pending, request, provider, rows, faults>>

(* A transient error repeats the request as it was first sent. *)
EmbedTransientError ==
    /\ Sending
    /\ faults' = faults + 1
    /\ request' = Fresh
    /\ ephase' = IF faults + 1 < EmbedAttempts THEN "sending" ELSE "unavailable"
    /\ UNCHANGED <<texts, pending, provider, rows>>

Embed ==
    \/ Accepted
    \/ WithoutDimensions
    \/ \E scaled \in LeastBudget..TokenBudget : CutToLimit(scaled)
    \/ CutInHalf
    \/ Bisect
    \/ RefusedAlone
    \/ EmbedTransientError

(* A call for any texts. *)
EmbeddingNext(Text) ==
    \/ \E ts \in Seq([text : Text, tokens : Nat]) : BeginEmbedding(ts)
    \/ Embed

EmbeddingSpec(Text) == EmbeddingInit /\ [][EmbeddingNext(Text)]_embedding

----------------------------------------------------------------------------
(* Properties.                                                             *)

(* However the texts were batched, cut, halved and sent again, the rows    *)
(* are those of the first texts, in order, each once, and in the end those *)
(* of all: the caller pairs them by position (openai_compatible.py:524-580,*)
(* core.py:1466-1480).  A request is given up for its size only when it    *)
(* holds a single text the provider would not take.                        *)
RowsFollowTexts ==
    /\ Len(rows) <= Len(texts)
    /\ \A i \in DOMAIN rows : rows[i].text = texts[i].text
    /\ ephase = "embedded" => Len(rows) = Len(texts)
    /\ ephase = "refused" =>
        \E i \in DOMAIN texts : texts[i].tokens > provider.tokens

=============================================================================
