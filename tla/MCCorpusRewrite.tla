--------------------------- MODULE MCCorpusRewrite ---------------------------
(***************************************************************************)
(* Small instances of CorpusRewrite: two passages, a fact in the first     *)
(* with its two ends and its schema, an entity only named in the second.   *)
(***************************************************************************)
EXTENDS CorpusRewrite, TLC

CONSTANTS p1, p2, f1, e1, e2, o1

MCPassage == {p1, p2}
MCFact    == {f1}
MCEntity  == {e1, e2}
MCSchema  == {o1}

MCFactsOf    == (p1 :> {f1}) @@ (p2 :> {})
MCSurfacesOf == (p1 :> {e1}) @@ (p2 :> {e2})
MCEndsOf     == f1 :> {e1}
MCSchemasOf  == f1 :> {o1}

(* Passages without facts or entities, for what concerns passages alone.   *)
MCNoFacts    == [p \in MCPassage |-> {}]

Symmetric == Permutations(Readers)
=============================================================================
