------------------------------- MODULE Chunking -------------------------------
(***************************************************************************)
(* How a parsed document is cut into the chunks that are indexed, for the  *)
(* three strategies of chunker/: fixed windows (F), a recursive splitter   *)
(* (R), langchain's where it is installed and a simple one where it is     *)
(* not, and blocks merged up to a size (P).                                *)
(*                                                                         *)
(* A text is a sequence of symbols of one token each: words, the paragraph *)
(* mark and the blank.  A chunk is the text in it, which stands for its    *)
(* hash as well: equal chunks have equal ids.                              *)
(***************************************************************************)
EXTENDS Integers, Sequences, FiniteSets, SequencesExt, Picks

CONSTANTS
    ChunkSize,     \* chunk_token_size
    Overlap        \* chunk_overlap_token_size

ASSUME ChunkingAssumption ==
    ChunkSize \in Nat \ {0} /\ Overlap \in Nat /\ Overlap < ChunkSize

Paragraph == "|"
Blank     == "_"
Marks     == {Paragraph, Blank}

Words(s) == SelectSeq(s, LAMBDA x : x \notin Marks)

(* str.strip *)
Strip(s) ==
    LET at == {i \in DOMAIN s : s[i] \notin Marks}
    IN  IF at = {} THEN <<>> ELSE SubSeq(s, Min(at), Max(at))

(* str.split, at every occurrence of a mark *)
SplitAt(s, mark) ==
    FoldLeft(LAMBDA parts, x : IF x = mark THEN Append(parts, <<>>)
                               ELSE [parts EXCEPT ![Len(parts)] = Append(@, x)],
             <<<<>>>>, s)

----------------------------------------------------------------------------

(* A mutant: the overlap widens the step between two windows. *)
WindowsApart(n, size, overlap) ==
    LET step == size + overlap
    IN  [k \in 1..((n + step - 1) \div step) |->
            [first |-> (k - 1) * step + 1,
             last  |-> IF (k - 1) * step + size < n THEN (k - 1) * step + size ELSE n]]

(* The windows of a text of n tokens, each with its first and last token. *)
Windows(n, size, overlap) ==
    LET step == size - overlap
    IN  [k \in 1..((n + step - 1) \div step) |->
            [first |-> (k - 1) * step + 1,
             last  |-> IF (k - 1) * step + size < n THEN (k - 1) * step + size ELSE n]]

FixedWindows(s, size, overlap) ==
    IF Strip(s) = <<>> THEN <<>>
    ELSE LET cut == Windows(Len(s), size, overlap)
         IN  [k \in DOMAIN cut |-> Strip(SubSeq(s, cut[k].first, cut[k].last))]

(* split_by_character: what stands between two marks is a chunk, and cut   *)
(* into windows when it is too large.                                      *)
SplitWindows(s, mark) ==
    LET Fit(part) == IF Len(part) > ChunkSize THEN FixedWindows(part, ChunkSize, Overlap)
                                              ELSE <<Strip(part)>>
    IN  IF Strip(s) = <<>> THEN <<>>
        ELSE FlattenSeq([k \in DOMAIN SplitAt(s, mark) |-> Fit(SplitAt(s, mark)[k])])

(* split_by_character_only: a part that is too large is an error instead,  *)
(* and the document has no chunk.                                          *)
SplitOnly(s, mark) ==
    IF \E part \in Range(SplitAt(s, mark)) : Len(part) > ChunkSize THEN <<>>
    ELSE SplitWindows(s, mark)

----------------------------------------------------------------------------

(* The separators in the order they are tried; the last is no separator. *)
Separators == <<Paragraph, Blank>>

(* What is being collected is written out. *)
WriteOut(acc) ==
    [out  |-> IF Strip(acc.buffer) = <<>> THEN acc.out ELSE Append(acc.out, Strip(acc.buffer)),
     buffer |-> <<>>, size |-> 0]

(* The first separator of a text, from a level on. *)
FirstSeparator(s, level) ==
    LET marked == {i \in level..Len(Separators) : Separators[i] \in Range(s)}
    IN  IF marked = {} THEN Len(Separators) + 1 ELSE Min(marked)

Singles(s) == [i \in DOMAIN s |-> <<s[i]>>]
NotEmpty(parts) == SelectSeq(parts, LAMBDA p : p # <<>>)

(* _simple_recursive_split: the separators between two chunks are lost. *)
SimpleSplit[level \in 1..(Len(Separators) + 2), s \in Seq(STRING)] ==
    IF Len(s) <= ChunkSize THEN IF Strip(s) = <<>> THEN <<>> ELSE <<s>>
    ELSE LET at    == FirstSeparator(s, level)
             none  == at > Len(Separators)
             glue  == IF none THEN <<>> ELSE <<Separators[at]>>
             parts == IF none THEN Singles(s) ELSE NotEmpty(SplitAt(s, Separators[at]))
             Collect(acc, part) ==
                LET extra == IF acc.buffer = <<>> THEN 0 ELSE Len(glue)
                    full  == acc.buffer # <<>> /\ acc.size + extra + Len(part) > ChunkSize
                    base  == IF full THEN WriteOut(acc) ELSE acc
                IN  IF Len(part) > ChunkSize
                    THEN [WriteOut(acc) EXCEPT !.out = @ \o SimpleSplit[at + 1, part]]
                    ELSE [out    |-> base.out,
                          buffer |-> base.buffer \o (IF base.buffer = <<>> THEN <<>> ELSE glue) \o part,
                          size   |-> base.size + extra + Len(part)]
         IN  WriteOut(FoldLeft(Collect, [out |-> <<>>, buffer |-> <<>>, size |-> 0], parts)).out

(* RecursiveCharacterTextSplitter of langchain: a separator begins the     *)
(* part behind it, and the last parts of a chunk, up to the overlap, begin *)
(* the next one too.                                                       *)
KeepingSplit(s, mark) ==
    LET parts == SplitAt(s, mark)
    IN  NotEmpty([k \in DOMAIN parts |-> IF k = 1 THEN parts[1] ELSE <<mark>> \o parts[k]])

Joined(current, out) ==
    LET text == Strip(FlattenSeq(current)) IN IF text = <<>> THEN out ELSE Append(out, text)

MergeSplits(parts) ==
    LET Behind(current, k) == SubSeq(current, k + 1, Len(current))
        Kept(current, part) ==
            LET fit == {k \in 0..Len(current) :
                           LET n == Len(FlattenSeq(Behind(current, k)))
                           IN  n <= Overlap /\ (n = 0 \/ n + Len(part) <= ChunkSize)}
            IN  Behind(current, Min(fit))
        Add(acc, part) ==
            IF Len(FlattenSeq(acc.current)) + Len(part) > ChunkSize
            THEN [out     |-> Joined(acc.current, acc.out),
                  current |-> Append(Kept(acc.current, part), part)]
            ELSE [acc EXCEPT !.current = Append(@, part)]
        all == FoldLeft(Add, [out |-> <<>>, current |-> <<>>], parts)
    IN  Joined(all.current, all.out)

(* Its _split_text: a part that fills a chunk is split further. *)
LangchainSplit[level \in 1..(Len(Separators) + 2), s \in Seq(STRING)] ==
    LET at    == FirstSeparator(s, level)
        none  == at > Len(Separators)
        parts == IF none THEN Singles(s) ELSE KeepingSplit(s, Separators[at])
        Collect(acc, part) ==
            IF Len(part) < ChunkSize THEN [acc EXCEPT !.small = Append(@, part)]
            ELSE [out   |-> acc.out \o MergeSplits(acc.small)
                            \o (IF none THEN <<part>> ELSE LangchainSplit[at + 1, part]),
                  small |-> <<>>]
        all == FoldLeft(Collect, [out |-> <<>>, small |-> <<>>], parts)
    IN  all.out \o MergeSplits(all.small)

Recursive(s, langchain) ==
    LET split  == IF langchain THEN LangchainSplit[1, s] ELSE SimpleSplit[1, s]
        pieces == SelectSeq(split, LAMBDA p : Strip(p) # <<>>)
    IN  IF Strip(s) = <<>> THEN <<>>
        ELSE IF pieces = <<>> THEN <<Strip(s)>>
        ELSE [k \in DOMAIN pieces |-> Strip(pieces[k])]

----------------------------------------------------------------------------

(* Windows of strategy P overlap by a tenth, and by a hundred at most. *)
BlockOverlap == IF ChunkSize \div 10 < 100 THEN ChunkSize \div 10 ELSE 100

(* What joins two blocks is not counted. *)
Join(acc, text) ==
    [acc EXCEPT !.buffer = @ \o (IF @ = <<>> THEN <<>> ELSE <<Paragraph>>) \o text,
                !.size = @ + Len(text)]

(* A block too large on its own is cut into windows. *)
MergedBlocks(blocks) ==
    LET Merge(acc, block) ==
            LET text == Strip(block)
                n    == Len(text)
                base == IF acc.size + n > ChunkSize THEN WriteOut(acc) ELSE acc
            IN  IF text = <<>> THEN acc
                ELSE IF n > ChunkSize
                THEN [WriteOut(acc) EXCEPT !.out = @ \o FixedWindows(text, ChunkSize, BlockOverlap)]
                ELSE IF n >= ChunkSize THEN WriteOut(Join(base, text)) ELSE Join(base, text)
    IN  WriteOut(FoldLeft(Merge, [out |-> <<>>, buffer |-> <<>>, size |-> 0], blocks)).out

(* Without blocks strategy P falls back to R. *)
ByParagraph(blocks, s, langchain) ==
    IF blocks = <<>> THEN Recursive(s, langchain) ELSE MergedBlocks(blocks)

----------------------------------------------------------------------------

(* get_chunker and what the pipeline makes of its chunks: the blank ones   *)
(* are dropped, the order and the repetitions are kept.  Strategy F has    *)
(* two variants, asked for in chunk_options.                               *)
Cut(strategy, s, blocks, langchain) ==
    CASE strategy = "F" -> FixedWindows(s, ChunkSize, Overlap)
      [] strategy = "split" -> SplitWindows(s, Paragraph)
      [] strategy = "only"  -> SplitOnly(s, Paragraph)
      [] strategy = "R" -> Recursive(s, langchain)
      [] strategy = "P" -> ByParagraph(blocks, s, langchain)

ChunksOf(strategy, s, blocks, langchain) ==
    LET chunks == Cut(strategy, s, blocks, langchain)
    IN  Taken(chunks, {k \in DOMAIN chunks : chunks[k] # <<>>})

=============================================================================
