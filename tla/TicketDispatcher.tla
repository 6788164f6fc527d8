-------------------------- MODULE TicketDispatcher --------------------------
(***************************************************************************)
(* Who works on a ticket: the sweep that dispatches ready tickets          *)
(* (services/tickets/ticketDispatcher.ts), the routing it uses             *)
(* (services/ownership/pathOwners.ts, services/flows/flowOwners.ts), and   *)
(* what changes under it: owners who approve, reassign and switch agents   *)
(* off, agents who write a status of their own (agentTicket.service.ts),   *)
(* tickets that their runs move on, merges that make owners.               *)
(*                                                                         *)
(* The sweep is one promise of runWorker's housekeeping, so one at a time. *)
(* It reads the ready tickets once and then takes them one by one, one     *)
(* action per step: resolve an agent (whose queries are one action, with   *)
(* the handoff it may record), check the agent, assign, dispatch.  An      *)
(* approval goes the same way beside it: load, resolve or route, assign,   *)
(* approve.  The tickets share one row of path_owners and one flow; a      *)
(* ticket has paths under that row or none, and is of the flow or not.     *)
(* Their runs are TicketPipeline's matter.                                 *)
(***************************************************************************)
EXTENDS Naturals, Sequences, SequencesExt, FiniteSets

CONSTANTS Ticket, Agent,
          NoAgent,
          ByPriority,      \* the tickets in the order of the SELECT
          SweepLimit,      \* its LIMIT, 40
          OnPath,          \* tickets whose predicted_paths match the row
          OfFlow,          \* tickets of the flow
          Developer,       \* agents whose role_key may develop
          WipLimit,        \* ARIA_AGENT_WIP_LIMIT
          MergeCounts,     \* ARIA_AWAITING_MERGE_COUNTS_ACTIVE
          FirstPath, FirstFlow,  \* the owner and backup at the start
          Readied,         \* tickets whose owner had made them ready by hand
          MaxUserActs,     \* bound of the model: what owners, and agents of themselves, do
          MaxFaults        \* bound of the model: statements that throw

Owners == [owner : Agent \cup {NoAgent}, backup : Agent \cup {NoAgent}]

ASSUME TicketDispatcherAssumption ==
  /\ NoAgent \notin Agent /\ IsFiniteSet(Ticket)
  /\ ByPriority \in Seq(Ticket) /\ IsInjective(ByPriority)
  /\ SweepLimit \in Nat \ {0}
  /\ OnPath \cup OfFlow \cup Readied \subseteq Ticket
  /\ Developer \subseteq Agent
  /\ WipLimit \in Nat \ {0} /\ MergeCounts \in BOOLEAN
  /\ {FirstPath, FirstFlow} \subseteq Owners
  /\ {MaxUserActs, MaxFaults} \subseteq Nat

VARIABLES
  status,    \* tickets.status
  assignee,  \* tickets.assignee_agent_id, and assigned_skill_id with it
  enabled,   \* skills.enabled
  path,      \* the row of path_owners
  flow,      \* the flow's rows of flow_owners
  queue,     \* the rows the sweep has still to take: the ticket and its assignee
  stage,     \* where the sweep stands with the first of them
  agent,     \* the agent it resolved
  approved,  \* tickets.human_approved
  approval,  \* the approval under way, of which the model has one at a time
  chosen,    \* history: whom an owner last gave the ticket to
  excused,   \* history: tickets whose chosen agent could not take them, or
             \*   that were given away while the sweep or an approval had them in hand
  pushed,    \* history: agents to whom an owner gave a ticket, by assigning it or by
             \*   approving one at work or about to be dispatched
  forced,    \* history: tickets at work where an agent's own write has put them
  acts,      \* history: how often owners and agents acted
  faults     \* history: how many statements threw

dispatchVars == <<status, assignee, enabled, path, flow, queue, stage, agent,
                  approved, approval, chosen, excused, pushed, forced, acts, faults>>

\* "done" stands for "rejected" too.
Status == {"backlog", "ready_for_dev", "in_progress", "ready_for_review", "in_qa",
           "awaiting_merge", "blocked", "done"}

\* approveTicket: where it stands, its ticket, the assignee it read and then the
\* agent it found.
Approvals == [step : {"resolve", "assign", "approve"}, ticket : Ticket,
              agent : Agent \cup {NoAgent}]
NoApproval == [step |-> "none"]

DispatchTypeOK ==
  /\ status \in [Ticket -> Status]
  /\ assignee \in [Ticket -> Agent \cup {NoAgent}]
  /\ enabled \in [Agent -> BOOLEAN]
  /\ path \in Owners /\ flow \in Owners
  /\ queue \in Seq([ticket : Ticket, assignee : Agent \cup {NoAgent}])
  /\ stage \in {"idle", "resolve", "check", "assign", "dispatch"}
  /\ agent \in Agent \cup {NoAgent}
  /\ approved \subseteq Ticket
  /\ approval \in Approvals \cup {NoApproval}
  /\ chosen \in [Ticket -> Agent \cup {NoAgent}]
  /\ excused \cup forced \subseteq Ticket /\ pushed \subseteq Agent
  /\ acts \in 0 .. MaxUserActs /\ faults \in 0 .. MaxFaults
  /\ stage = "idle" <=> queue = <<>>
  /\ stage \in {"check", "assign", "dispatch"} => agent # NoAgent
  /\ approval.step \in {"assign", "approve"} => approval.agent # NoAgent

DispatchInit ==
  /\ status = [t \in Ticket |-> IF t \in Readied THEN "ready_for_dev" ELSE "backlog"]
  /\ assignee = [t \in Ticket |-> NoAgent]
  /\ enabled = [a \in Agent |-> TRUE]
  /\ path = FirstPath /\ flow = FirstFlow
  /\ queue = <<>> /\ stage = "idle" /\ agent = NoAgent
  /\ approved = Readied /\ approval = NoApproval
  /\ chosen = [t \in Ticket |-> NoAgent]
  /\ excused = {} /\ pushed = {} /\ forced = {}
  /\ acts = 0 /\ faults = 0

-----------------------------------------------------------------------------
\* activeStatuses: what counts as work in progress.
ActiveStatusesWithoutReview == {"in_progress", "in_qa"}
ActiveStatuses == {"in_progress", "ready_for_review", "in_qa"}
                  \cup (IF MergeCounts THEN {"awaiting_merge"} ELSE {})

Wip(a) == Cardinality({t \in Ticket : assignee[t] = a /\ status[t] \in ActiveStatuses})
Eligible(a) == a # NoAgent /\ enabled[a] /\ Wip(a) < WipLimit

\* The backup of an assignee who cannot take the ticket: of the row that the
\* paths match, else of a row the assignee owns, else of the flow.
BackupFor(t, a) ==
  LET ofPath == IF t \in OnPath \/ path.owner = a THEN path.backup ELSE NoAgent
  IN  IF ofPath # NoAgent THEN ofPath
      ELSE IF t \in OfFlow THEN flow.backup ELSE NoAgent

\* The first of an owner and its backup who can take the ticket.
FirstEligible(row) ==
  IF Eligible(row.owner) THEN row.owner
  ELSE IF row.owner # NoAgent /\ Eligible(row.backup) THEN row.backup ELSE NoAgent

\* resolveTicketOwner: the explicit assignee, that assignee's backup, the path's
\* owner or backup, the flow's.
ResolvedPathFirst(t, a) ==
  CASE t \in OnPath /\ FirstEligible(path) # NoAgent -> FirstEligible(path)
    [] Eligible(a) -> a
    [] t \in OfFlow -> FirstEligible(flow)
    [] OTHER -> NoAgent
Resolved(t, a) ==
  CASE Eligible(a) -> a
    [] ~Eligible(a) /\ a # NoAgent /\ BackupFor(t, a) # a /\ Eligible(BackupFor(t, a)) -> BackupFor(t, a)
    [] OTHER ->
         IF t \in OnPath /\ FirstEligible(path) # NoAgent THEN FirstEligible(path)
         ELSE IF t \in OfFlow THEN FirstEligible(flow) ELSE NoAgent

\* Whoever resolves for a ticket whose chosen agent cannot take it may route it
\* elsewhere.
Excuses(t, a) == excused' = IF Eligible(a) THEN excused ELSE excused \cup {t}

-----------------------------------------------------------------------------
\* dispatchReadyTickets: SELECT ... WHERE human_approved ORDER BY priority LIMIT 40.
Ready(t) == status[t] = "ready_for_dev" /\ t \in approved
Ahead(t) == {i \in DOMAIN ByPriority :
               /\ Ready(ByPriority[i])
               /\ \A j \in DOMAIN ByPriority : ByPriority[j] = t => i < j}
ReadyRows == {i \in DOMAIN ByPriority : Ready(ByPriority[i])}
SweptRows == {i \in ReadyRows : Cardinality(Ahead(ByPriority[i])) < SweepLimit}
Sweep ==
  /\ stage = "idle" /\ ReadyRows # {}
  /\ \E nth \in [1 .. Cardinality(SweptRows) -> SweptRows] :
       /\ \A i, j \in DOMAIN nth : i < j => nth[i] < nth[j]
       /\ queue' = [i \in DOMAIN nth |-> [ticket |-> ByPriority[nth[i]],
                                          assignee |-> assignee[ByPriority[nth[i]]]]]
  /\ stage' = "resolve"
  /\ UNCHANGED <<status, assignee, enabled, path, flow, agent, approved, approval,
                 chosen, excused, pushed, forced, acts, faults>>

\* continue: on to the next row, if there is one.
SkipRest == queue' = <<>> /\ stage' = "idle" /\ agent' = NoAgent
Skip ==
  /\ queue' = Tail(queue) /\ agent' = NoAgent
  /\ stage' = IF Tail(queue) = <<>> THEN "idle" ELSE "resolve"

Resolve ==
  /\ stage = "resolve"
  /\ LET row == Head(queue)
         found == Resolved(row.ticket, row.assignee)
     IN  /\ IF found = NoAgent
            THEN Skip
            ELSE stage' = "check" /\ agent' = found /\ UNCHANGED queue
         /\ Excuses(row.ticket, row.assignee)
  /\ UNCHANGED <<status, assignee, enabled, path, flow, approved, approval,
                 chosen, pushed, forced, acts, faults>>

\* The agent must be on, a developer, and still under its limit.
Check ==
  /\ stage = "check"
  /\ IF Eligible(agent) /\ agent \in Developer
     THEN stage' = "assign" /\ UNCHANGED <<queue, agent>>
     ELSE Skip
  /\ UNCHANGED <<status, assignee, enabled, path, flow, approved, approval,
                 chosen, excused, pushed, forced, acts, faults>>

\* UPDATE tickets SET assignee: whatever the ticket's assignee and status are now.
Assign ==
  /\ stage = "assign"
  /\ assignee' = [assignee EXCEPT ![Head(queue).ticket] = agent]
  /\ stage' = "dispatch"
  /\ UNCHANGED <<status, enabled, path, flow, queue, agent, approved, approval,
                 chosen, excused, pushed, forced, acts, faults>>

\* applyTransition 'dispatch'; from another status it throws, and the sweep ends.
Dispatch ==
  /\ stage = "dispatch"
  /\ LET t == Head(queue).ticket
     IN  IF status[t] = "ready_for_dev"
         THEN status' = [status EXCEPT ![t] = "in_progress"] /\ Skip
         ELSE SkipRest /\ UNCHANGED status
  /\ UNCHANGED <<assignee, enabled, path, flow, approved, approval,
                 chosen, excused, pushed, forced, acts, faults>>

Fault == faults < MaxFaults /\ faults' = faults + 1
Throw ==
  /\ stage # "idle" /\ Fault
  /\ SkipRest
  /\ UNCHANGED <<status, assignee, enabled, path, flow, approved, approval,
                 chosen, excused, pushed, forced, acts>>

-----------------------------------------------------------------------------
InHand == {queue[i].ticket : i \in DOMAIN queue}
Acts == acts < MaxUserActs /\ acts' = acts + 1

\* routeTicket: the flow's owner or backup, on or off, else any fullstack agent
\* that is on (here a developer).
Routed(t) ==
  LET ofFlow == IF t \notin OfFlow THEN NoAgent
                ELSE IF flow.owner # NoAgent THEN flow.owner ELSE flow.backup
  IN  IF ofFlow # NoAgent THEN {ofFlow} ELSE {a \in Developer : enabled[a]}

\* approveTicket: it loads the ticket, whatever its status, ...
AtWorkStatuses == {"in_progress", "ready_for_review", "in_qa"}
AtWork(t) == status[t] \in AtWorkStatuses
Approve(t) ==
  /\ Acts /\ approval.step = "none"
  /\ approval' = [step |-> "resolve", ticket |-> t, agent |-> assignee[t]]
  /\ UNCHANGED <<status, assignee, enabled, path, flow, queue, stage, agent, approved,
                 chosen, excused, pushed, forced, faults>>

\* ... resolves an agent from the assignee it has read, or routes to one; with
\* neither it is UNROUTABLE, ...
ApproveResolves ==
  /\ approval.step = "resolve"
  /\ LET t == approval.ticket
         resolved == Resolved(t, approval.agent)
         found == IF resolved # NoAgent THEN {resolved} ELSE Routed(t)
     IN  /\ \/ found = {} /\ approval' = NoApproval
            \/ \E a \in found : approval' = [step |-> "assign", ticket |-> t, agent |-> a]
         /\ Excuses(t, approval.agent)
  /\ UNCHANGED <<status, assignee, enabled, path, flow, queue, stage, agent, approved,
                 chosen, pushed, forced, acts, faults>>

\* ... writes it, whatever the ticket's assignee is by now, ...
ApproveAssigns ==
  /\ approval.step = "assign"
  /\ LET t == approval.ticket
     IN  /\ assignee' = [assignee EXCEPT ![t] = approval.agent]
         /\ pushed' = IF AtWork(t) \/ (stage = "dispatch" /\ Head(queue).ticket = t)
                      THEN pushed \cup {approval.agent} ELSE pushed
         /\ approval' = [step |-> "approve", ticket |-> t, agent |-> approval.agent]
  /\ UNCHANGED <<status, enabled, path, flow, queue, stage, agent, approved,
                 chosen, excused, forced, acts, faults>>

\* ... and approves, which applyTransition refuses past the backlog.
ApproveMoves ==
  /\ approval.step = "approve"
  /\ LET t == approval.ticket
     IN  IF status[t] = "backlog"
         THEN status' = [status EXCEPT ![t] = "ready_for_dev"] /\ approved' = approved \cup {t}
         ELSE UNCHANGED <<status, approved>>
  /\ approval' = NoApproval
  /\ UNCHANGED <<assignee, enabled, path, flow, queue, stage, agent,
                 chosen, excused, pushed, forced, acts, faults>>

\* Any of its statements may throw, which ends it where it stands.
ApproveThrows ==
  /\ approval.step # "none" /\ Fault
  /\ approval' = NoApproval
  /\ UNCHANGED <<status, assignee, enabled, path, flow, queue, stage, agent, approved,
                 chosen, excused, pushed, forced, acts>>

\* updateTicket with an assignee: no question asked of the agent.
BeingRouted(t) == t \in InHand \/ (approval.step # "none" /\ approval.ticket = t)
Reassign(t, a) ==
  /\ Acts
  /\ assignee' = [assignee EXCEPT ![t] = a]
  /\ chosen' = [chosen EXCEPT ![t] = a]
  /\ excused' = IF BeingRouted(t) THEN excused \cup {t} ELSE excused \ {t}
  /\ pushed' = pushed \cup {a}
  /\ UNCHANGED <<status, enabled, path, flow, queue, stage, agent, approved, approval,
                 forced, faults>>

\* updateTicket with a status, whose steps are TicketPipeline's: "ready_for_dev" is
\* refused past the backlog, but by the time it is written the status may be any.
HumanMaySet == Status \ (AtWorkStatuses \cup {"awaiting_merge"})
SetStatus(t, to) ==
  /\ Acts /\ to \in HumanMaySet \ {status[t]}
  /\ status' = [status EXCEPT ![t] = to]
  /\ forced' = forced \ {t}
  /\ UNCHANGED <<assignee, enabled, path, flow, queue, stage, agent, approved, approval,
                 chosen, excused, pushed, faults>>

\* updateTicket with humanApproved.
SetApproved(t) ==
  /\ Acts
  /\ approved' = IF t \in approved THEN approved \ {t} ELSE approved \cup {t}
  /\ UNCHANGED <<status, assignee, enabled, path, flow, queue, stage, agent, approval,
                 chosen, excused, pushed, forced, faults>>

\* agentUpdateTicketStatus: any status, and nobody's work is counted.
AgentSets(t, to) ==
  /\ Acts /\ to # status[t]
  /\ status' = [status EXCEPT ![t] = to]
  /\ forced' = IF to \in AtWorkStatuses THEN forced \cup {t} ELSE forced \ {t}
  /\ UNCHANGED <<assignee, enabled, path, flow, queue, stage, agent, approved, approval,
                 chosen, excused, pushed, faults>>

Switch(a) ==
  /\ Acts
  /\ enabled' = [enabled EXCEPT ![a] = ~@]
  /\ UNCHANGED <<status, assignee, path, flow, queue, stage, agent, approved, approval,
                 chosen, excused, pushed, forced, faults>>

\* reassignPathOwner.
ReassignPath(a) ==
  /\ Acts
  /\ path' = [path EXCEPT !.owner = a]
  /\ UNCHANGED <<status, assignee, enabled, flow, queue, stage, agent, approved, approval,
                 chosen, excused, pushed, forced, faults>>

\* assignFlow: the owner or the backup of the flow, replaced or removed.
AssignFlow(a) ==
  /\ Acts
  /\ \/ flow' = [flow EXCEPT !.owner = a]
     \/ flow' = [flow EXCEPT !.backup = a]
  /\ UNCHANGED <<status, assignee, enabled, path, queue, stage, agent, approved, approval,
                 chosen, excused, pushed, forced, faults>>

\* What a ticket's runs and the owner's unblock make of its status.
Moves == { <<"in_progress", "ready_for_review">>, <<"in_progress", "in_qa">>,
           <<"in_progress", "blocked">>, <<"ready_for_review", "in_qa">>,
           <<"ready_for_review", "in_progress">>, <<"in_qa", "awaiting_merge">>,
           <<"in_qa", "in_progress">>, <<"blocked", "ready_for_dev">> }
MoveOn(t) ==
  /\ \E m \in Moves : status[t] = m[1] /\ status' = [status EXCEPT ![t] = m[2]]
  /\ forced' = IF status'[t] \in AtWorkStatuses THEN forced ELSE forced \ {t}
  /\ UNCHANGED <<assignee, enabled, path, flow, queue, stage, agent, approved, approval,
                 chosen, excused, pushed, acts, faults>>

\* pr_merged, and upsertPathOwnersFromMerge: the agent who built a path owns it;
\* the row's backup is left as it was.
Merge(t) ==
  /\ status[t] \in {"awaiting_merge", "in_qa", "ready_for_review", "in_progress"}
  /\ status' = [status EXCEPT ![t] = "done"]
  /\ forced' = forced \ {t}
  /\ path' = IF t \in OnPath /\ assignee[t] # NoAgent THEN [path EXCEPT !.owner = assignee[t]] ELSE path
  /\ UNCHANGED <<assignee, enabled, flow, queue, stage, agent, approved, approval,
                 chosen, excused, pushed, acts, faults>>

Proceed == Sweep \/ Resolve \/ Check \/ Assign \/ Dispatch

DispatchNext ==
  \/ Proceed \/ Throw
  \/ ApproveResolves \/ ApproveAssigns \/ ApproveMoves \/ ApproveThrows
  \/ \E t \in Ticket : \/ Approve(t) \/ SetApproved(t) \/ MoveOn(t) \/ Merge(t)
                       \/ \E to \in Status : SetStatus(t, to) \/ AgentSets(t, to)
                       \/ \E a \in Agent : Reassign(t, a)
  \/ \E a \in Agent : Switch(a) \/ ReassignPath(a)
  \/ \E a \in Agent \cup {NoAgent} : AssignFlow(a)

\* The worker's tick starts the housekeeping every two seconds, and its
\* statements return.
DispatchSpec == DispatchInit /\ [][DispatchNext]_dispatchVars /\ WF_dispatchVars(Proceed)

-----------------------------------------------------------------------------
\* No agent works on more tickets than ARIA_AGENT_WIP_LIMIT at a time, counting
\* those in review and in QA, unless an owner gave it one, by assigning it or by
\* approving what is already at work or about to be dispatched: the sweep counts
\* before it dispatches, and between the two only an owner adds to the count.
\* Tickets that an agent wrote into work by itself, which nobody counts, are set
\* aside while they stay there.
Working(a) == {t \in Ticket \ forced : assignee[t] = a /\ AtWork(t)}
WipRespected == \A a \in Agent \ pushed : Cardinality(Working(a)) <= WipLimit

\* The agent an owner gave a ticket to keeps it, unless it was off or at its
\* limit when the ticket was routed, or the owner spoke while the sweep or an
\* approval had already read the ticket, which then writes what it found.
ChoiceStands ==
  \A t \in Ticket \ excused : chosen[t] # NoAgent => assignee[t] = chosen[t]

\* A ready ticket that routing would give to a developer, and that has fewer than
\* SweepLimit ready tickets ahead of it, does not stay so: tickets ahead of it that
\* nobody can take, or whose backup is no developer, do not hold it up, sweep after
\* sweep.  SweepLimit of them do.
Takeable(t) ==
  /\ Ready(t) /\ Cardinality(Ahead(t)) < SweepLimit
  /\ Resolved(t, assignee[t]) \in Developer
NoneHeldUp == \A t \in Ticket : Takeable(t) ~> ~Takeable(t)
=============================================================================
