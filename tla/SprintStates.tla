---------------------------- MODULE SprintStates ----------------------------
(***************************************************************************)
(* Which sprint of a project is active (createSprint and updateSprint of   *)
(* services/tickets/sprints.ts).  A request that activates a sprint takes  *)
(* the active ones back to planned in one statement and writes its own in  *)
(* another; nothing holds the two together, and no constraint of V22 keeps *)
(* a second sprint from being active.                                      *)
(***************************************************************************)
EXTENDS Naturals, FiniteSets

CONSTANTS Activation,    \* the requests that activate a sprint
          Sprint,
          MaxChanges     \* bound of the model: requests that are made

ASSUME SprintsAssumption == MaxChanges \in Nat

VARIABLES
  sprints,    \* the status of each sprint that there is
  active,     \* the activations under way
  changes,    \* requests made so far
  crowded     \* history: the last activation had another beside it

sprintVars == <<sprints, active, changes, crowded>>

SprintStatus == {"planned", "active", "closed"}

SprintsInit ==
  /\ sprints = [s \in {} |-> "planned"]
  /\ active = [a \in {} |-> "none"]
  /\ changes = 0
  /\ crowded = FALSE

Change == changes < MaxChanges /\ changes' = changes + 1

\* updateSprint spares the sprint it is about to activate; a new one of
\* createSprint is not there yet.
NoneTakenBack(s) == sprints
TakenBack(s) ==
  [u \in DOMAIN sprints |-> IF sprints[u] = "active" /\ u # s THEN "planned" ELSE sprints[u]]
Activate(a, s) ==
  /\ a \notin DOMAIN active /\ Change
  /\ sprints' = TakenBack(s)
  /\ active' = [b \in DOMAIN active \cup {a} |->
                  IF b = a THEN [sprint |-> s, alone |-> active = <<>>]
                  ELSE [active[b] EXCEPT !.alone = FALSE]]
  /\ UNCHANGED crowded

WithStatus(s, status) ==
  [u \in DOMAIN sprints \cup {s} |-> IF u = s THEN status ELSE sprints[u]]
WriteActiveSprint(a) ==
  /\ a \in DOMAIN active
  /\ sprints' = WithStatus(active[a].sprint, "active")
  /\ crowded' = ~active[a].alone
  /\ active' = [b \in DOMAIN active \ {a} |-> active[b]]
  /\ UNCHANGED changes
\* The request is lost between its statements.
ActivationFails(a) ==
  /\ a \in DOMAIN active
  /\ active' = [b \in DOMAIN active \ {a} |-> active[b]]
  /\ UNCHANGED <<sprints, changes, crowded>>

\* Any other status is written in one statement.
PlanOrClose(s, status) ==
  /\ status # "active" /\ Change
  /\ sprints' = WithStatus(s, status)
  /\ UNCHANGED <<active, crowded>>

SprintsNext ==
  \/ \E a \in Activation, s \in Sprint : Activate(a, s)
  \/ \E a \in DOMAIN active : WriteActiveSprint(a) \/ ActivationFails(a)
  \/ \E s \in Sprint, status \in SprintStatus : PlanOrClose(s, status)

SprintsSpec == SprintsInit /\ [][SprintsNext]_sprintVars

-----------------------------------------------------------------------------
SprintsTypeOK ==
  /\ DOMAIN sprints \subseteq Sprint /\ \A s \in DOMAIN sprints : sprints[s] \in SprintStatus
  /\ DOMAIN active \subseteq Activation /\ \A a \in DOMAIN active : active[a].sprint \in Sprint
  /\ changes \in 0 .. MaxChanges /\ crowded \in BOOLEAN

\* After an activation that had no other beside it at most one sprint is active,
\* whatever those before it have left and whatever comes in between.
OneActiveSprint ==
  ~crowded => Cardinality({s \in DOMAIN sprints : sprints[s] = "active"}) <= 1
=============================================================================
