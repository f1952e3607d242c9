--------------------------------- MODULE Picks ---------------------------------
(***************************************************************************)
(* The elements of a sequence at the places of a set, in order: what a     *)
(* list comprehension with a condition returns.                            *)
(***************************************************************************)
EXTENDS Naturals, Sequences, FiniteSets

(* The k-th of some places, and what s has at them. *)
Nth(places, k)   == CHOOSE i \in places : Cardinality({j \in places : j <= i}) = k
Taken(s, places) == [k \in 1..Cardinality(places) |-> s[Nth(places, k)]]

================================================================================
