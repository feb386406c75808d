-------------------------- MODULE MCHistoryBuilder --------------------------
EXTENDS HistoryBuilder

MCOwnID == [i \in Activities \cup Children |-> i]
MCFailures == {<<"m">>}
MCSymmetry == Permutations(Activities)
=============================================================================
