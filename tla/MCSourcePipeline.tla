-------------------------- MODULE MCSourcePipeline --------------------------
(***************************************************************************)
(* Small instances of SourcePipeline: two requests for one URL, so that    *)
(* the second is a re-ingest, the same for one file, or a single upload.   *)
(***************************************************************************)
EXTENDS SourcePipeline, TLC

CONSTANTS c1, url, file

OneCollection == {c1}
BothOrigins == {url, file}
OneFile == {file}
ForC1 == [r \in Requests |-> c1]
AllUrl == [r \in Requests |-> url]
AllFile == [r \in Requests |-> file]

Symmetry == Permutations(Requests)

=============================================================================
