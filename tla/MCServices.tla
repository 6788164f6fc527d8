----------------------------- MODULE MCServices -----------------------------
(***************************************************************************)
(* Small instances of the services around the tickets, side by side: of    *)
(* RepositoryAnalysis with two requests, two repositories and two workers, *)
(* and of SchedulePlanning with a short calendar.  They share no variable: *)
(* one moves while the others stand at their start, and so every state of  *)
(* each of them is visited.                                                *)
(***************************************************************************)
EXTENDS RepositoryAnalysis, SchedulePlanning, TLC

CONSTANTS q1, q2, r1, r2, w1, w2

MCAsked == [q \in Request |-> IF q = q1 THEN {r1, r2} ELSE {r1}]

\* The workers are alike.
MCSymmetry == Permutations(Worker)

ServicesInit == AnalysisInit /\ PlanningInit

ServicesNext ==
  \/ PlanningInit /\ AnalysisNext /\ UNCHANGED planningVars
  \/ AnalysisInit /\ PlanningNext /\ UNCHANGED analysisVars

ServicesSpec == ServicesInit /\ [][ServicesNext]_<<analysisVars, planningVars>>
=============================================================================
