---------------------------- MODULE MCDocPipeline ----------------------------
(***************************************************************************)
(* Small instances of DocPipeline: a content-addressed document (uploaded  *)
(* or scanned) and a document posted as text under a client-chosen id,     *)
(* which may come back with another body.  The two share a chunk.          *)
(***************************************************************************)
EXTENDS DocPipeline, TLC

CONSTANTS d1, d2, b1, b2, b3, c1, c2, c3

MCDocs   == {d1, d2}
MCBodies == {b1, b2, b3}
MCChunks == {c1, c2, c3}

MCChunksOf == (b1 :> {c1, c2}) @@ (b2 :> {c2}) @@ (b3 :> {c3})
MCMayHold  == (d1 :> {b1}) @@ (d2 :> {b2, b3})

(* Every id is the hash of one content, and the two share a chunk. *)
MCHashedOnly == (d1 :> {b1}) @@ (d2 :> {b2})

Symmetric == Permutations(Slots)
=============================================================================
