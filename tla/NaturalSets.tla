----------------------------- MODULE NaturalSets -----------------------------
(***************************************************************************)
(* A set of numbers in ascending order: the ids of search hits, the places *)
(* of the elements that a filter keeps.  What SetToSortSeq computes, said  *)
(* so that it can be proved about.                                         *)
(***************************************************************************)
EXTENDS Naturals, FiniteSets

CountUpTo(S, i) == Cardinality({j \in S : j <= i})

Ascending(S) == [k \in 1 .. Cardinality(S) |-> CHOOSE i \in S : CountUpTo(S, i) = k]

\* The elements of a sequence at some of its places, in their order.
AtPlaces(seq, S) == [k \in 1 .. Cardinality(S) |-> seq[Ascending(S)[k]]]
=============================================================================
