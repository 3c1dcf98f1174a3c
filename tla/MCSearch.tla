------------------------------ MODULE MCSearch ------------------------------
(***************************************************************************)
(* Small instances of Search: two sources in one of the collections, so    *)
(* that ranks and LIMIT matter; the second is ready from the start.        *)
(***************************************************************************)
EXTENDS Search, TLC

CONSTANTS c1, c2

TwoSources == 1..2
AllInC1 == [s \in Sources |-> c1]
One == {1}
Two == {2}

Symmetry == Permutations(Searches) \cup Permutations(Queries)

=============================================================================
