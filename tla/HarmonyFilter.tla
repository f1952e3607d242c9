----------------------------- MODULE HarmonyFilter -----------------------------
(***************************************************************************)
(* The filter that keeps the final channel of a harmony-format answer      *)
(* (agent/harmony.py), as functions of its state.                          *)
(*                                                                         *)
(* A stream is a sequence of symbols, cut into tokens anywhere.  A tag is  *)
(* two symbols, "<" and what follows it, so that a cut may fall inside it; *)
(* "|final" ends the tag that opens the answer and "|channel" any other    *)
(* tag with the channel name next to it.  The rendering without tags opens *)
(* with "analysis" and announces the answer with "assistant", "final".     *)
(***************************************************************************)
EXTENDS Naturals, Sequences, SequencesExt

CONSTANT Probe   \* PROBE_CHARS, in symbols

(* A rendering shows itself in two symbols: what _decide holds is longer.   *)
ASSUME HarmonyAssumption == Probe \in Nat /\ Probe >= 2

Bars == {"|channel", "|final"}
ChannelNames == {"analysis", "final"}
TaggedFinal   == <<"<", "|final">>
UntaggedFinal == <<"assistant", "final">>

States == {"deciding", "passthrough", "waiting", "emitting", "closed"}

NewFilter == [buffer |-> <<>>, state |-> "deciding", separator |-> <<>>]

----------------------------------------------------------------------------

From(s, i) == SubSeq(s, i, Len(s))

(* Where a tag starts, and where the separator does. *)
TagsIn(s) == {i \in 1..(Len(s) - 1) : s[i] = "<" /\ s[i + 1] \in Bars}
Places(s, separator) == {i \in 1..Len(s) : IsPrefix(separator, From(s, i))}
FirstOf(S) == CHOOSE i \in S : \A j \in S : i <= j

(* _decide: the separator is known once a tag or the bare channel name     *)
(* has shown; a stream that shows neither in time passes through.          *)
Decided(f) ==
    IF f.state # "deciding" THEN f
    ELSE IF TagsIn(f.buffer) # {}
         THEN [f EXCEPT !.state = "waiting", !.separator = TaggedFinal]
    ELSE IF Len(f.buffer) > 1 /\ f.buffer[1] = "analysis"
         THEN [f EXCEPT !.state = "waiting", !.separator = UntaggedFinal]
    ELSE IF Len(f.buffer) >= Probe THEN [f EXCEPT !.state = "passthrough"] ELSE f

(* The reasoning before the separator is dropped. *)
Opened(f) ==
    IF f.state = "waiting" /\ Places(f.buffer, f.separator) # {}
    THEN [f EXCEPT !.state = "emitting",
                   !.buffer = From(@, FirstOf(Places(@, f.separator)) + Len(f.separator))]
    ELSE f

Quiet(f) == [filter |-> f, out |-> <<>>]

(* A mutant: a "<" that may begin a tag is not held back. *)
ReleasedAtOnce(f) ==
    IF f.state \notin {"emitting", "passthrough"} THEN Quiet(f)
    ELSE IF f.state = "emitting" /\ f.separator = TaggedFinal /\ TagsIn(f.buffer) # {}
    THEN [filter |-> [f EXCEPT !.state = "closed", !.buffer = <<>>],
          out    |-> SubSeq(f.buffer, 1, FirstOf(TagsIn(f.buffer)) - 1)]
    ELSE [filter |-> [f EXCEPT !.buffer = <<>>], out |-> f.buffer]

(* _release: everything but a trailing "<"; a tag after the answer closes. *)
Released(f) ==
    IF f.state \notin {"emitting", "passthrough"} THEN Quiet(f)
    ELSE IF f.state = "emitting" /\ f.separator = TaggedFinal /\ TagsIn(f.buffer) # {}
    THEN [filter |-> [f EXCEPT !.state = "closed", !.buffer = <<>>],
          out    |-> SubSeq(f.buffer, 1, FirstOf(TagsIn(f.buffer)) - 1)]
    ELSE LET held == IF f.buffer # <<>> /\ Last(f.buffer) = "<" THEN 1 ELSE 0
             keep == Len(f.buffer) - held
         IN  [filter |-> [f EXCEPT !.buffer = From(@, keep + 1)],
              out    |-> SubSeq(f.buffer, 1, keep)]

Feed(f, token) ==
    IF f.state = "closed" THEN Quiet(f)
    ELSE Released(Opened(Decided([f EXCEPT !.buffer = @ \o token])))

(* What a tag is made of, and the channel names that open a text or follow *)
(* a tag.                                                                  *)
Marks(s) == {i \in 1..Len(s) : i \in TagsIn(s) \/ (i - 1) \in TagsIn(s)}
LeadingNames(s) == {i \in 1..Len(s) : s[i] \in ChannelNames /\ (i = 1 \/ (i - 2) \in TagsIn(s))}

(* A name is recognised where its word ends: at the end, before a tag or   *)
(* another "<", and not when it is welded to the text.                     *)
Parted(s) == {i \in LeadingNames(s) : i = Len(s) \/ s[i + 1] = "<"}

Without(s, gone) ==
    LET kept == {i \in 1..Len(s) : i \notin gone}
    IN  [k \in 1..Cardinality(kept) |->
            s[CHOOSE i \in kept : Cardinality({j \in kept : j <= i}) = k]]

(* _strip_scaffolding: tags go, and the leading names that are recognised. *)
Stripped(s) == Without(s, Marks(s) \cup Parted(s))

(* flush: a channel that was never closed is shown without its scaffolding. *)
Flush(f) ==
    [filter |-> [f EXCEPT !.state = "closed", !.buffer = <<>>],
     out    |-> IF f.state = "closed" THEN <<>>
                ELSE IF f.state = "waiting" THEN Stripped(f.buffer) ELSE f.buffer]

----------------------------------------------------------------------------
(* What of a whole stream is for the user, for the streams the filter is   *)
(* made for (harmony.py:11-22): one that opens with a tag, or without any. *)

Readable(text) == 1 \in TagsIn(text) \/ TagsIn(text) = {}

Scaffolded(text) == 1 \in TagsIn(text) \/ (Len(text) > 1 /\ text[1] = "analysis")
Separator(text)  == IF 1 \in TagsIn(text) THEN TaggedFinal ELSE UntaggedFinal

(* The final channel, up to the tag that ends it.                          *)
FinalChannel(text) ==
    LET final == From(text, FirstOf(Places(text, Separator(text))) + 2)
    IN  IF 1 \in TagsIn(text) /\ TagsIn(final) # {}
        THEN SubSeq(final, 1, FirstOf(TagsIn(final)) - 1) ELSE final

(* A channel that is never closed is for the user too, its reasoning       *)
(* included, without tags and leading channel names (harmony.py:27-29).    *)
Visible(text) ==
    IF ~Scaffolded(text) THEN text
    ELSE IF Places(text, Separator(text)) = {}
         THEN Without(text, Marks(text) \cup LeadingNames(text))
    ELSE FinalChannel(text)

(* A channel that is never closed and whose name is not recognised.        *)
Welded(text) ==
    /\ Scaffolded(text) /\ Places(text, Separator(text)) = {}
    /\ Parted(text) # LeadingNames(text)

=============================================================================
