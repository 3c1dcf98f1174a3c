--------------------------- MODULE SchemaHistory ---------------------------
(***************************************************************************)
(* What scripts/migrate.py and the entrypoint promise together, without    *)
(* connections, runs or faults: the schema and schema_migrations are two   *)
(* counts that never differ by more than one migration, and an image       *)
(* serves on a record that has reached it.  Deployment implements it.      *)
(***************************************************************************)
EXTENDS Naturals

CONSTANTS
  Starts,  \* the containers of the program
  Files    \* the image of start c has the migrations 1..Files[c]

VARIABLES
  executed,  \* how many migrations the schema shows
  logged,    \* how many schema_migrations has recorded
  serving    \* the starts whose API serves

historyVars == <<executed, logged, serving>>

Init == executed = 0 /\ logged = 0 /\ serving = {}

\* Only from a record without gaps, and what some image has.
Execute ==
  /\ executed = logged
  /\ \E c \in Starts : executed < Files[c]
  /\ executed' = executed + 1
  /\ UNCHANGED <<logged, serving>>

Record ==
  /\ logged < executed
  /\ logged' = executed
  /\ UNCHANGED <<executed, serving>>

\* An older image serves on the schema of a newer one as well.
Serve(c) ==
  /\ c \notin serving /\ Files[c] <= logged
  /\ serving' = serving \cup {c}
  /\ UNCHANGED <<executed, logged>>

Stop(c) ==
  /\ c \in serving
  /\ serving' = serving \ {c}
  /\ UNCHANGED <<executed, logged>>

Next ==
  \/ Execute
  \/ Record
  \/ \E c \in Starts : Serve(c) \/ Stop(c)

Spec == Init /\ [][Next]_historyVars

=============================================================================
