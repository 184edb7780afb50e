------------------------------ MODULE AnalysisRun ------------------------------
(***************************************************************************)
(* What one analysis run promises the session that started it              *)
(* (agent/orchestrator.py): it owns its background workers, all of them    *)
(* have ended when it hands anything over, and a checkpoint it hands over  *)
(* holds the evidence its retry starts from.                               *)
(***************************************************************************)
EXTENDS Naturals

CONSTANT Workers    \* background workers a run may own

\* How much evidence a result holds (each level includes those below it).
Levels       == 0..6
Observations == 2
Analysis     == 3

Retries == {"none", "candidate_scoring", "reporting"}

Checkpoint == [kind : {"none", "partial", "complete"}, level : Levels,
               retry : Retries, limited : BOOLEAN, failed : BOOLEAN]

\* A retry finds everything it will not compute again.
Sufficient(c) ==
  /\ c.retry = "reporting" => c.level >= Analysis
  /\ c.retry = "candidate_scoring" => c.level >= Observations

VARIABLES
  running,   \* a run is under way
  active,    \* its workers that have not ended
  saved      \* the result the session holds

vars == <<running, active, saved>>

Init ==
  /\ running = FALSE
  /\ active = {}
  /\ saved \in Checkpoint
  /\ saved.kind = "none" /\ saved.level = 0 /\ saved.retry = "none"

Begin ==
  /\ ~running
  /\ running' = TRUE
  /\ active' \in SUBSET Workers
  /\ UNCHANGED saved

Hire ==
  /\ running
  /\ \E w \in Workers \ active : active' = active \union {w}
  /\ UNCHANGED <<running, saved>>

Leave ==
  /\ \E w \in active : active' = active \ {w}
  /\ UNCHANGED <<running, saved>>

\* The end: nothing runs on, and what is handed over supports its retry.
Deliver ==
  /\ running
  /\ active = {}
  /\ running' = FALSE
  /\ saved' = saved \/ (saved' \in Checkpoint /\ Sufficient(saved'))
  /\ UNCHANGED active

Next == Begin \/ Hire \/ Leave \/ Deliver

Spec == Init /\ [][Next]_vars
=============================================================================
