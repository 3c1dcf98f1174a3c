---------------------------- MODULE MCDeployment ----------------------------
(***************************************************************************)
(* A small instance of Deployment: an old and a new image, a call of each  *)
(* kind of tool, and just enough connections for the pools of both APIs.   *)
(***************************************************************************)
EXTENDS Deployment

CONSTANTS old, new, asking, searching, ingesting

FilesOfImages == [c \in Starts |-> IF c = old THEN 1 ELSE 2]
OneOfEach ==
  [m \in ToolCalls |->
     CASE m = asking -> "ask" [] m = searching -> "search" [] m = ingesting -> "ingest"]

=============================================================================
