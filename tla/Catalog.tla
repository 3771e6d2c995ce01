------------------------------- MODULE Catalog -------------------------------
(***************************************************************************)
(* What a load promises: the businesses table changes in one step, from    *)
(* what it held to what it held overlaid with every surviving record of    *)
(* the input file, at most once per run of the loader.                     *)
(***************************************************************************)
EXTENDS BusinessTable

CONSTANT MaxRuns   \* bound on the runs of the loader

VARIABLES
  table,    \* the businesses table
  file,     \* the file being loaded
  attempt,  \* number of the run
  loaded    \* this run has changed the table

catalogVars == <<table, file, attempt, loaded>>

Init ==
  /\ table \in Tables
  /\ file \in Feeds
  /\ attempt = 1
  /\ loaded = FALSE

Load ==
  /\ ~loaded
  /\ UniqueIds(file, Survivors(file))
  /\ table' = Upserted(table, file, Survivors(file), attempt)
  /\ loaded' = TRUE
  /\ UNCHANGED <<file, attempt>>

NextRun ==
  /\ attempt < MaxRuns
  /\ attempt' = attempt + 1
  /\ file' \in Feeds
  /\ loaded' = FALSE
  /\ UNCHANGED table

Next == Load \/ NextRun

Spec == Init /\ [][Next]_catalogVars
=============================================================================
