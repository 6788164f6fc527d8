----------------------------- MODULE FlowOwners -----------------------------
(***************************************************************************)
(* The owners and backups of one flow (services/flows/flowOwners.ts), as   *)
(* they are edited (assignFlow of services/company.service.ts and the      *)
(* PUT of routes/m2.routes.ts) and as agents are deleted (deleteAgent).    *)
(* An edit replaces all the rows in one transaction: it deletes the rows   *)
(* that its statement sees, waiting for those another transaction has      *)
(* deleted, and inserts its own.                                           *)
(*                                                                         *)
(* The inserts and the commit are one step: what they wait for has ended   *)
(* by then.  A row is known, whatever its role becomes, by the edit that   *)
(* wrote it, its layer and its agent.                                      *)
(***************************************************************************)
EXTENDS Naturals, FiniteSets, Sequences

CONSTANTS Agent, Editor,
          OwnerLists,    \* what a PUT may ask for: sets of [layer, role, agent]
          FlowLayer,     \* the layer that is stored with the flow, for assignFlow
          MaxEdits       \* bound of the model: edits that are made

OwnerLayer == {"frontend", "backend", "fullstack"}
FlowRole == {"owner", "backup"}
OwnerRow == [layer : OwnerLayer, role : FlowRole, agent : Agent]

ASSUME FlowOwnersAssumption ==
  /\ OwnerLists \subseteq SUBSET OwnerRow
  /\ FlowLayer \in OwnerLayer /\ MaxEdits \in Nat /\ Agent \cap Editor = {}

VARIABLES
  seats,      \* the agents there are
  flowRows,   \* the rows of flow_owners: [layer, role, agent, edit]
  edits,      \* the edits under way
  parting,    \* the deletions whose reassignment is written and not committed:
              \*   the rows each removes and adds
  editCount,  \* edits so far
  mingled     \* history: the last edit committed beside another

ownersVars == <<seats, flowRows, edits, parting, editCount, mingled>>

NoFunction == [e \in {} |-> 0]

OwnersInit ==
  /\ seats = Agent /\ flowRows = {} /\ edits = NoFunction /\ parting = NoFunction
  /\ editCount = 0 /\ mingled = FALSE

PlainRow(r) == [layer |-> r.layer, role |-> r.role, agent |-> r.agent]
SameRow(r, s) == r.edit = s.edit /\ r.layer = s.layer /\ r.agent = s.agent
Without(f, x) == [y \in DOMAIN f \ {x} |-> f[y]]
With(f, x, v) == [y \in DOMAIN f \cup {x} |-> IF y = x THEN v ELSE f[y]]

\* assertOwnerInvariant.
AssertNothing(rows) == TRUE
AssertOwnerInvariant(rows) ==
  LET layers == {r.layer : r \in {s \in rows : s.role = "owner"}} IN
  /\ ~("fullstack" \in layers /\ layers \cap {"frontend", "backend"} # {})
  /\ \A r, s \in rows : r.layer = s.layer /\ r.role = s.role => r = s

-----------------------------------------------------------------------------
\* The rows of an edit are known, and checked, before its transaction.
Begin(e, rows) ==
  /\ e \notin DOMAIN edits /\ editCount < MaxEdits
  /\ AssertOwnerInvariant(rows)
  /\ editCount' = editCount + 1
  /\ edits' = With(edits, e, [phase |-> "planned", no |-> editCount + 1, rows |-> rows,
                              seen |-> {}, gone |-> {}, alone |-> TRUE])
  /\ UNCHANGED <<seats, flowRows, parting, mingled>>
PutOwners(e) == \E rows \in OwnerLists : Begin(e, rows)

\* assignFlow reads the rows, and exchanges the ones of the flow's layer that are
\* given; each agent that is given has a seat.
AssignFlow(e) ==
  \E owner, backup \in seats \cup {"keep", "none"} :
    LET given(role) == IF role = "owner" THEN owner ELSE backup
        kept == {r \in flowRows : r.layer = FlowLayer => given(r.role) = "keep"}
        new == {[layer |-> FlowLayer, role |-> role, agent |-> given(role)] :
                  role \in {x \in FlowRole : given(x) \in seats}}
    IN  Begin(e, {PlainRow(r) : r \in kept} \cup new)

\* setOwners: an agent without a seat refuses the edit; else its delete sees the
\* rows that are committed.
Snapshot(e) ==
  /\ edits[e].phase = "planned" /\ \A r \in edits[e].rows : r.agent \in seats
  /\ edits' = [edits EXCEPT ![e].phase = "clearing", ![e].seen = flowRows]
  /\ UNCHANGED <<seats, flowRows, parting, editCount, mingled>>

\* The rows that a transaction under way has written.
Written(x) ==
  IF x \in DOMAIN edits THEN edits[x].gone ELSE IF x \in DOMAIN parting THEN parting[x].gone ELSE {}
Clear(e) ==
  LET still == {r \in flowRows : \E s \in edits[e].seen : SameRow(r, s)} IN
  /\ edits[e].phase = "clearing"
  /\ \A x \in (DOMAIN edits \ {e}) \cup DOMAIN parting : Written(x) \cap still = {}
  /\ edits' = [edits EXCEPT ![e].phase = "cleared", ![e].gone = still]
  /\ UNCHANGED <<seats, flowRows, parting, editCount, mingled>>

\* A key that is taken, or an agent that is gone, fails the inserts.
Commit(e) ==
  LET left == flowRows \ edits[e].gone IN
  /\ edits[e].phase = "cleared"
  /\ \A r \in edits[e].rows :
       r.agent \in seats /\ \A s \in left : ~(s.layer = r.layer /\ s.role = r.role)
  /\ flowRows' = left \cup {[layer |-> r.layer, role |-> r.role, agent |-> r.agent, edit |-> edits[e].no] :
                              r \in edits[e].rows}
  /\ edits' = [f \in DOMAIN Without(edits, e) |->
                 IF edits[f].phase = "planned" THEN edits[f] ELSE [edits[f] EXCEPT !.alone = FALSE]]
  /\ mingled' = ~edits[e].alone
  /\ UNCHANGED <<seats, parting, editCount>>

\* It is refused, fails, or its process dies: nothing of it is left.
Rollback(e) ==
  /\ e \in DOMAIN edits
  /\ edits' = Without(edits, e)
  /\ UNCHANGED <<seats, flowRows, parting, editCount, mingled>>

\* deleteAgent: the backup of each layer the agent owns inherits it ...
Promoted(rows, a) ==
  {IF r.role = "backup" /\ \E s \in rows : s.layer = r.layer /\ s.role = "owner" /\ s.agent = a
     THEN [r EXCEPT !.role = "owner"] ELSE r : r \in rows}
Reassign(a) ==
  LET rest == {r \in Promoted(flowRows, a) : r.agent # a}
      gone == flowRows \ rest IN
  /\ a \in seats /\ a \notin DOMAIN parting
  /\ \A x \in DOMAIN edits \cup DOMAIN parting : Written(x) \cap gone = {}
  /\ parting' = With(parting, a, [gone |-> gone, new |-> rest \ flowRows])
  /\ UNCHANGED <<seats, flowRows, edits, editCount, mingled>>
\* ... and the agent goes, with the rows an edit has given it in the meantime.
DeleteAgent(a) ==
  /\ a \in DOMAIN parting
  /\ \A x \in DOMAIN edits \cup (DOMAIN parting \ {a}) : \A r \in Written(x) : r.agent # a
  /\ seats' = seats \ {a}
  /\ flowRows' = {r \in (flowRows \ parting[a].gone) \cup parting[a].new : r.agent # a}
  /\ parting' = Without(parting, a)
  /\ UNCHANGED <<edits, editCount, mingled>>

\* The deletion fails, or is broken off as one of two that wait for each other.
AbandonDelete(a) ==
  /\ a \in DOMAIN parting
  /\ parting' = Without(parting, a)
  /\ UNCHANGED <<seats, flowRows, edits, editCount, mingled>>

OwnersNext ==
  \/ \E e \in Editor : PutOwners(e) \/ AssignFlow(e)
  \/ \E e \in DOMAIN edits : Snapshot(e) \/ Clear(e) \/ Commit(e) \/ Rollback(e)
  \/ \E a \in Agent : Reassign(a) \/ DeleteAgent(a) \/ AbandonDelete(a)

OwnersSpec == OwnersInit /\ [][OwnersNext]_ownersVars
-----------------------------------------------------------------------------
OwnersTypeOK ==
  /\ seats \subseteq Agent
  /\ \A r \in flowRows : PlainRow(r) \in OwnerRow /\ r.edit \in 1 .. MaxEdits
  /\ DOMAIN edits \subseteq Editor /\ DOMAIN parting \subseteq Agent
  /\ editCount \in 0 .. MaxEdits /\ mingled \in BOOLEAN

\* After an edit beside which no other was committed the flow has a fullstack owner
\* or frontend and backend owners, not both, one owner and one backup in a layer,
\* and all of them have seats, whatever agents are deleted meanwhile.
OwnersExclusive ==
  ~mingled =>
    /\ \A r, s \in flowRows : r.role = "owner" /\ s.role = "owner" /\ r.layer = "fullstack" => s.layer = "fullstack"
    /\ \A r, s \in flowRows : r # s => <<r.layer, r.role>> # <<s.layer, s.role>>
    /\ \A r \in flowRows : r.agent \in seats
=============================================================================
