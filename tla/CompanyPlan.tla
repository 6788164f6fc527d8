---------------------------- MODULE CompanyPlan ----------------------------
(***************************************************************************)
(* Who is in a generated company: generateCompany and assignFlowRows of    *)
(* services/companyGenerator.ts, acceptCompanyPlan of                      *)
(* activities/companyRoster.ts, and the refusal of applyCompanyRoster      *)
(* (activities/companyApply.ts).  All are functions of an order, a size    *)
(* and a mix of roles, and of the planner's answer: a company is ordered,  *)
(* made from the template, and then planned.                               *)
(*                                                                         *)
(* An agent is its index in the roster, 0 is nobody, and an answer may     *)
(* name an index past its end.  Titles, departments, instructions, skills  *)
(* and the fifty shuffled names are left out.                              *)
(***************************************************************************)
EXTENDS Naturals, Sequences, FiniteSets, FiniteSetsExt, SequencesExt

CONSTANTS Order,      \* the orders that are made: records of a size and a mix
          Planned,    \* pairs of an order and an answer its planner may give
          Flow,
          LayerOf,    \* [Flow -> Layer], layerFor: from the flow's kind and names
          NoOrder

Layer == {"frontend", "backend", "fullstack"}
MixKeys == <<"business", "qa", "frontend", "backend", "fullstack", "junior", "aiml",
             "devops", "security">>

ASSUME CompanyPlanAssumption ==
  /\ NoOrder \notin Order
  /\ \A o \in Order : o.size \in 3 .. 40 /\ o.mix \in [ToSet(MixKeys) -> Nat]
  /\ \A p \in Planned :
       /\ p[1] \in Order /\ p[2] \in Seq(ToSet(p[2]))
       /\ \A a \in ToSet(p[2]) : a.flows \in Seq(ToSet(a.flows))
  /\ IsFiniteSet(Flow) /\ LayerOf \in [Flow -> Layer]

VARIABLES
  order,     \* the order that was made, or NoOrder
  answer,    \* the planner's answer to it, empty before there is one
  roster,    \* the agents that are made of them
  owners     \* the flow owners that are asked for with them: a sequence of rows

planVars == <<order, answer, roster, owners>>

PlanInit == order = NoOrder /\ answer = <<>> /\ roster = <<>> /\ owners = <<>>

LeastOf(S) == IF S = {} THEN 0 ELSE Min(S)
-----------------------------------------------------------------------------
(***************************************************************************)
(* The seats of an order.                                                  *)
(***************************************************************************)
LeaderOrder == <<"ceo", "cto", "product_owner", "scrum_master", "cfo", "ui_ux_designer",
                 "documentation", "research", "coach", "pr_coordinator">>
LeadershipFor(size) ==
  SubSeq(LeaderOrder, 1, IF size >= 12 THEN 10 ELSE IF size >= 8 THEN 5 ELSE IF size >= 5 THEN 4 ELSE 3)

\* The largest remainders; the code's fractions are of floating point, and of two
\* that are equal it may take the later first.
Total(mix) == SumFunctionOnSet(mix, DOMAIN mix)
Floors(mix, slots, k) == (mix[k] * slots) \div Total(mix)
Rest(mix, slots, k) == (mix[k] * slots) % Total(mix)
Rounded(mix, slots) ==
  LET short == slots - SumFunctionOnSet([k \in DOMAIN mix |-> Floors(mix, slots, k)], DOMAIN mix)
      at(k) == Min({n \in DOMAIN MixKeys : MixKeys[n] = k})
      ahead(k) == {j \in DOMAIN mix : \/ Rest(mix, slots, j) > Rest(mix, slots, k)
                                      \/ Rest(mix, slots, j) = Rest(mix, slots, k) /\ at(j) < at(k)}
  IN  [k \in DOMAIN mix |->
         Floors(mix, slots, k) + IF Cardinality(ahead(k)) < short THEN 1 ELSE 0]

Cycle(names, n) == [i \in 1 .. n |-> names[((i - 1) % Len(names)) + 1]]
ScaleMix(mix, slots) ==
  IF Total(mix) = 0
    THEN Cycle(<<"fullstack", "frontend", "backend", "qa", "junior">>, slots)
    ELSE LET take == Rounded(mix, slots) IN
         FlattenSeq([n \in DOMAIN MixKeys |->
           IF MixKeys[n] = "security"
             THEN Cycle(<<"cybersecurity", "red_team", "blue_team">>, take["security"])
             ELSE Cycle(<<MixKeys[n]>>, take[MixKeys[n]])])

AlwaysPresent == <<"ui_ux_designer", "documentation", "pr_coordinator", "research", "coach",
                   "red_team", "blue_team">>
Seated(o) ==
  LET leaders == LeadershipFor(o.size) IN leaders \o ScaleMix(o.mix, o.size - Len(leaders))
Seats(o) ==
  Seated(o) \o FlattenSeq([n \in DOMAIN AlwaysPresent |->
                 IF AlwaysPresent[n] \in ToSet(Seated(o)) THEN <<>> ELSE <<AlwaysPresent[n]>>])

\* seatFor, and the manager of a role whose own manager has no seat.
SeatManager(role) ==
  CASE role = "ceo" -> "none"
    [] role \in {"cfo", "cto", "business", "product_owner", "research", "coach"} -> "ceo"
    [] role \in {"scrum_master", "ui_ux_designer", "documentation"} -> "product_owner"
    [] role = "qa" -> "scrum_master"
    [] OTHER -> "cto"
ManagerRole(role, present) ==
  LET wanted == SeatManager(role) IN
  IF wanted \in present \cup {"none"} THEN wanted ELSE IF "cto" \in present THEN "cto" ELSE "ceo"

\* generateCompany without its flows.
Template(o) ==
  LET roles == Seats(o)
      those(role) == {j \in DOMAIN roles : roles[j] = role}
      manager(i) == LeastOf(those(ManagerRole(roles[i], ToSet(roles))))
      same(i) == LeastOf(those(roles[i]) \ {i})
  IN  [i \in DOMAIN roles |->
         [role |-> roles[i], name |-> 0, enabled |-> i <= o.size, manager |-> manager(i),
          backup |-> IF same(i) # 0 THEN same(i) ELSE IF manager(i) # 0 THEN manager(i)
                     ELSE LeastOf(DOMAIN roles \ {i})]]
-----------------------------------------------------------------------------
(***************************************************************************)
(* Who owns the flows.                                                     *)
(***************************************************************************)
OwnerRoles(layer) ==
  IF layer = "fullstack" THEN <<"fullstack", "cto", "ceo">>
  ELSE <<layer, "fullstack", "cto", "ceo">>
BackupRoles(role) ==
  CASE role = "frontend" -> <<"backend", "fullstack", "cto">>
    [] role = "backend" -> <<"frontend", "fullstack", "cto">>
    [] OTHER -> <<"cto", "ceo">>
FirstOf(team, roles) ==
  LET found(r) == {i \in DOMAIN team : team[i].role = r}
      n == LeastOf({k \in DOMAIN roles : found(roles[k]) # {}})
  IN  IF n = 0 THEN 1 ELSE LeastOf(found(roles[n]))

\* assignFlowRows: an owner for each flow, and a backup that is somebody else.
FlowRows(team, flows) ==
  LET owner(f) == FirstOf(team, OwnerRoles(LayerOf[f]))
      wanted(f) == FirstOf(team, BackupRoles(team[owner(f)].role))
      backup(f) == IF wanted(f) = owner(f) THEN LeastOf(DOMAIN team \ {owner(f)}) ELSE wanted(f)
      row(f, role, i) == [flow |-> f, layer |-> LayerOf[f], role |-> role, agent |-> i]
  IN  FlattenSeq(SetToSeq({<<row(f, "owner", owner(f)), row(f, "backup", backup(f))>> : f \in flows}))

\* assertOwnerInvariant, of the rows of every flow.
Refused(rows) ==
  LET layers(f) == {rows[n].layer : n \in {m \in DOMAIN rows : rows[m].flow = f /\ rows[m].role = "owner"}}
  IN  \/ \E f \in Flow : "fullstack" \in layers(f) /\ layers(f) \cap {"frontend", "backend"} # {}
      \/ \E m, n \in DOMAIN rows :
           /\ m < n
           /\ rows[m].flow = rows[n].flow /\ rows[m].layer = rows[n].layer /\ rows[m].role = rows[n].role
-----------------------------------------------------------------------------
(***************************************************************************)
(* acceptCompanyPlan.  A planned agent has the name the planner gave it    *)
(* and what is left of it when it is cleaned.                              *)
(***************************************************************************)
AllDifferent(names) == IsInjective(names)
SameCounts(left, right) ==
  \A r \in ToSet(left) \cup ToSet(right) :
    Cardinality({i \in DOMAIN left : left[i] = r}) = Cardinality({i \in DOMAIN right : right[i] = r})

HaveManagers(plan, ceo) == \A i \in DOMAIN plan \ {ceo} : plan[i].manager \in DOMAIN plan
\* From every agent the managers lead to the ceo.
AcyclicToCeo(plan, ceo) ==
  \A start \in DOMAIN plan :
    LET at[k \in 0 .. Len(plan)] ==
          IF k = 0 THEN start ELSE IF at[k - 1] \in DOMAIN plan THEN plan[at[k - 1]].manager ELSE 0
    IN  \E k \in 0 .. Len(plan) : at[k] = ceo

Accepted(o, plan) ==
  LET roles == [i \in DOMAIN plan |-> plan[i].role]
      ceos == {i \in DOMAIN plan : plan[i].role = "ceo"}
      ceo == LeastOf({i \in ceos : plan[i].manager = 0})
  IN  /\ Len(plan) = o.size
      /\ SameCounts(roles, Seated(o))
      /\ AllDifferent([i \in DOMAIN plan |-> plan[i].name])
      /\ ceo # 0 /\ Cardinality(ceos) = 1
      /\ AcyclicToCeo(plan, ceo)
      /\ AllDifferent([i \in DOMAIN plan |-> plan[i].cleaned])

\* The seat of the template that a planned agent takes: the next of its role.
SlotOf(seated, plan, i) ==
  LET those(roles, n) == {j \in 1 .. n : roles[j].role = plan[i].role} IN
  CHOOSE s \in those(seated, Len(plan)) : Cardinality(those(seated, s)) = Cardinality(those(plan, i))

\* The planned agents, and those of the template (the roster as it still is) that
\* are not enabled, whose managers and backups are the agents that took the seats.
PlannedRoster(template, o, plan) ==
  LET taker(s) == LeastOf({i \in DOMAIN plan : SlotOf(template, plan, i) = s})
      backup(i) == IF plan[i].backup \in DOMAIN plan \ {i} THEN plan[i].backup
                   ELSE LeastOf(DOMAIN plan \ {i})
  IN  [i \in DOMAIN template |->
         IF i <= o.size
           THEN [role |-> plan[i].role, name |-> plan[i].cleaned, enabled |-> TRUE,
                 manager |-> plan[i].manager, backup |-> backup(i)]
           ELSE [template[i] EXCEPT !.manager = taker(@), !.backup = taker(@)]]

\* The owners the planner names, an unknown layer read as fullstack, and those of
\* the template's rules for a flow that it gives no owner.
PlannedRows(plan) ==
  LET row(i, f) == [flow |-> f.flow, layer |-> IF f.layer \in Layer THEN f.layer ELSE "fullstack",
                    role |-> f.role, agent |-> i]
      known(f) == f.flow \in Flow /\ f.role \in {"owner", "backup"}
      named == FlattenSeq([i \in DOMAIN plan |-> FlattenSeq([n \in DOMAIN plan[i].flows |->
                 IF known(plan[i].flows[n]) THEN <<row(i, plan[i].flows[n])>> ELSE <<>>])])
      owned == {named[n].flow : n \in {m \in DOMAIN named : named[m].role = "owner"}}
  IN  named \o FlowRows(plan, Flow \ owned)
-----------------------------------------------------------------------------
\* generateProjectCompany makes the company of the template at once.
MakeCompany(o) ==
  /\ order = NoOrder
  /\ order' = o /\ roster' = Template(o)
  /\ owners' = FlowRows(roster', Flow)
  /\ UNCHANGED answer

\* executeCompany, of a run for it: what is not accepted leaves the template, and
\* so does a roster whose flow owners applyCompanyRoster refuses.
PlanCompany(plan) ==
  LET rows == PlannedRows(plan) IN
  /\ answer' = plan
  /\ IF Accepted(order, plan) /\ ~Refused(rows)
       THEN roster' = PlannedRoster(roster, order, plan) /\ owners' = rows
       ELSE UNCHANGED <<roster, owners>>
  /\ UNCHANGED order

PlanNext ==
  \/ \E o \in Order : MakeCompany(o)
  \/ answer = <<>> /\ \E p \in Planned : order = p[1] /\ PlanCompany(p[2])

PlanSpec == PlanInit /\ [][PlanNext]_planVars
-----------------------------------------------------------------------------
Seat == {i \in DOMAIN roster : roster[i].enabled}

\* Every mix role has its share of the specialists' seats, rounded up or down.
SharesKept ==
  LET mix == order.mix
      slots == order.size - Len(LeadershipFor(order.size))
      leads == ToSet(LeadershipFor(order.size))
      kind(r) == IF r \in {"cybersecurity", "red_team", "blue_team"} THEN "security" ELSE r
      have(k) == Cardinality({i \in Seat : kind(roster[i].role) = k /\ roster[i].role \notin leads})
  IN  Total(mix) > 0 =>
        \A k \in DOMAIN mix :
          /\ have(k) * Total(mix) < mix[k] * slots + Total(mix)
          /\ have(k) * Total(mix) + Total(mix) > mix[k] * slots

\* The managers make a tree under one ceo: every set of seats without the ceo has
\* one whose manager is outside of it, and who has no seat answers to one who has.
TreeKept ==
  LET chairs == Seat IN
  \E ceo \in chairs :
    /\ \A i \in DOMAIN roster : (roster[i].manager = 0 <=> i = ceo) /\ (roster[i].role = "ceo" <=> i = ceo)
    /\ \A S \in SUBSET (chairs \ {ceo}) : S # {} => \E i \in S : roster[i].manager \in chairs \ S
    /\ \A i \in DOMAIN roster \ chairs : roster[i].manager \in chairs

\* A company that is made, from the template or from the planner's answer, has the
\* size and the shares that were ordered, one tree of managers, every role that must
\* be there, nobody who is his own backup, and every flow has an owner, in one
\* layer of the stack or in its halves but not in both.
RosterSound ==
  order # NoOrder =>
    /\ Cardinality(Seat) = order.size /\ SharesKept /\ TreeKept
    /\ \A r \in ToSet(AlwaysPresent) : \E i \in DOMAIN roster : roster[i].role = r
    /\ \A i \in DOMAIN roster : roster[i].backup \in DOMAIN roster \ {i}
    /\ \A i, j \in Seat : i # j /\ answer # <<>> /\ roster[i].name # 0 => roster[i].name # roster[j].name
    /\ \A f \in Flow : \E n \in DOMAIN owners : owners[n].flow = f /\ owners[n].role = "owner" /\ owners[n].agent \in Seat
    /\ ~Refused(owners)
=============================================================================
