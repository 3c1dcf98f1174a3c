----------------------------- MODULE MCResearch -----------------------------
(***************************************************************************)
(* Small instances of Research: rankings of chunks of one source or of two *)
(* and answers that cite them, a source too many or nothing.               *)
(***************************************************************************)
EXTENDS Research, TLC

CONSTANTS a, b

AnyRanking == {<<>>, <<a, b, a>>}
Symmetry == Permutations(Calls)

OneRanking == {<<>>, <<a>>}

=============================================================================
