------------------------ MODULE MCActionResolution ------------------------
EXTENDS ActionResolution

(* Ascending is the sort of the community modules.                         *)
ASSUME AscendingSorts ==
    \A S \in SUBSET (1 .. 5) : Ascending(S) = SetToSortSeq(S, LAMBDA i, j : i < j)

MCShardOf == [i \in Ids |-> IF i % 2 = 1 THEN "d1" ELSE "d2"]
MCNamespaceOf == [i \in Ids |-> IF i = 4 THEN "unknown" ELSE IF i = 3 THEN "n2" ELSE "n1"]
MCExplicit == {<<2, 1>>, <<3, 1, 3>>, <<4, 3>>}
=============================================================================
