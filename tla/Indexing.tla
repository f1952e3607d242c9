------------------------------- MODULE Indexing -------------------------------
(***************************************************************************)
(* What an insert asks of the model provider, from the text of a document  *)
(* to the vectors of its chunks: Chunking cuts the text, OpenIEExtraction  *)
(* asks for the triples of its chunks, EmbeddingClient for their vectors.  *)
(* The process may be killed while it extracts, and inserts again.         *)
(***************************************************************************)
EXTENDS Chunking, OpenIEExtraction, EmbeddingClient

CONSTANTS
    Documents   \* the documents: strategy, text, and the blocks of its sidecar

ASSUME DocumentsAssumption == \A d \in Documents : d.text \in Seq(STRING)

VARIABLES
    document,   \* the document being inserted
    langchain,  \* langchain is installed, with the extra "api"
    cut         \* its chunks, the same at every launch

source == <<document, langchain, cut>>
indexingVars == <<source, extraction, embedding>>

IndexingInit ==
    /\ document \in Documents /\ langchain \in BOOLEAN
    /\ cut = ChunksOf(document.strategy, document.text, document.blocks, langchain)
    /\ ExtractionInit
    /\ EmbeddingInit

(* An insert of the chunks, at every launch; there must be some. *)
Insert ==
    /\ cut # <<>>
    /\ BeginExtraction(cut)
    /\ UNCHANGED <<source, embedding>>

Weighed(chunk) == [text |-> chunk, tokens |-> Len(chunk)]

(* The chunks are embedded once each: their ids are a set. *)
EncodePassages ==
    /\ xphase = "ready"
    /\ BeginEmbedding(SetToSeq({Weighed(chunk) : chunk \in Range(cut)}))
    /\ UNCHANGED <<source, extraction>>

Extraction == Extract /\ UNCHANGED <<source, embedding>>
Embedding  == Embed /\ UNCHANGED <<source, extraction>>

Restart ==
    /\ ephase = "idle"
    /\ Kill
    /\ UNCHANGED <<source, embedding>>

Work == Insert \/ Extraction \/ EncodePassages \/ Embedding
IndexingNext == Work \/ Restart

IndexingSpec == IndexingInit /\ [][IndexingNext]_indexingVars

----------------------------------------------------------------------------
(* Properties.                                                             *)

(* The chunks are the same at every launch.                                *)
FirstLaunch == xphase = "idle" /\ kills = 0

Trimmed(chunk) == Strip(chunk) = chunk /\ chunk # <<>>

(* The chunks stand in the text one by one, and every word is in one.      *)
Covers(chunks, text) ==
    \E starts \in [DOMAIN chunks -> 1..Len(text)] :
        /\ \A k \in DOMAIN chunks :
            /\ starts[k] + Len(chunks[k]) - 1 <= Len(text)
            /\ SubSeq(text, starts[k], starts[k] + Len(chunks[k]) - 1) = chunks[k]
        /\ \A i \in DOMAIN text : text[i] \notin Marks =>
            \E k \in DOMAIN chunks : i \in starts[k]..(starts[k] + Len(chunks[k]) - 1)

(* Strategy F leaves no word between two windows, and no window is larger  *)
(* than asked for or blank (chunker/token_size.py:74-86).                  *)
WindowsCover ==
    (FirstLaunch /\ document.strategy = "F") =>
        /\ \A k \in DOMAIN cut : Trimmed(cut[k]) /\ Len(cut[k]) <= ChunkSize
        /\ Covers(cut, document.text)

(* The words of the chunks stand in those of the text, the chunks in their *)
(* order, and every word is in one.                                        *)
KeepsWords(chunks, text) ==
    LET words == Words(text)
        End(k, start) == start + Len(Words(chunks[k])) - 1
    IN  \E starts \in [DOMAIN chunks -> DOMAIN words] :
            /\ \A k \in DOMAIN chunks :
                /\ End(k, starts[k]) <= Len(words)
                /\ SubSeq(words, starts[k], End(k, starts[k])) = Words(chunks[k])
                /\ k > 1 => starts[k - 1] <= starts[k]
            /\ \A i \in DOMAIN words : \E k \in DOMAIN chunks : i \in starts[k]..End(k, starts[k])

(* The tokens of a chunk that count against the size.  Strategy P forgets  *)
(* those of what joins its blocks, so that its chunks may be larger than   *)
(* asked for (chunker/paragraph_semantic.py:43 says up to the size, :54    *)
(* and :101 do not see to it).                                             *)
CountedTokens(chunk) ==
    Len(IF document.strategy = "P" /\ document.blocks # <<>>
        THEN SelectSeq(chunk, LAMBDA x : x # Paragraph) ELSE chunk)

(* The other strategies lose no word either: R and P keep all of them in   *)
(* their order, with langchain and without, a split at a character keeps   *)
(* them where it does not fail.  No chunk is larger than asked for, but    *)
(* for what joins the blocks of P.  How far chunks overlap is not said:    *)
(* against docs/FileProcessingPipeline.md:36, R does not overlap without   *)
(* langchain, and P only where a block is cut, by a tenth of the size.     *)
WordsKept ==
    (FirstLaunch /\ document.strategy # "F") =>
        /\ \A k \in DOMAIN cut : Trimmed(cut[k]) /\ CountedTokens(cut[k]) <= ChunkSize
        /\ document.strategy \in {"R", "P"} => KeepsWords(cut, document.text)
        /\ document.strategy = "split" \/ (document.strategy = "only" /\ cut # <<>>) =>
            Covers(cut, document.text)

(* The text of a document is all in its chunks, whatever strategy cuts it. *)
ChunksCover == WindowsCover /\ WordsKept

=============================================================================
