---------------------------- MODULE TicketBoard ----------------------------
(***************************************************************************)
(* The hierarchy of a project's tickets (createTicket and updateTicket of  *)
(* services/tickets.service.ts, agentCreateTicket of                       *)
(* services/agentTicket.service.ts).                                       *)
(*                                                                         *)
(* An epic stands alone, a story may have an epic for its parent, a        *)
(* sub-task has a story, and any but an epic may name an epic.  A request  *)
(* reads what it needs, decides, and writes in a statement of its own:     *)
(* between the two other requests write.  The columns have no constraint   *)
(* but that what they name exists (V22).                                   *)
(***************************************************************************)
EXTENDS Naturals, FiniteSets

CONSTANTS Ticket, NoTicket, Request,
          MaxRequests    \* bound of the model: requests that are made

ASSUME BoardAssumption == NoTicket \notin Ticket /\ MaxRequests \in Nat

VARIABLES
  board,      \* each ticket that there is: its issue type, parent and epic
  req,        \* the requests under way
  made,       \* requests made so far
  retyped,    \* history: tickets whose issue type was changed
  byAgent,    \* history: tickets an agent made, and no update has checked since
  crossed     \* history: tickets with an update over another's, unseen

boardVars == <<board, req, made, retyped, byAgent, crossed>>

IssueType == {"epic", "story", "sub_task"}
Row == [type : IssueType, parent : Ticket \cup {NoTicket}, epic : Ticket \cup {NoTicket}]
Field == {"type", "parent", "epic"}

NoRequest == [kind |-> "none"]

BoardInit ==
  /\ board = [t \in {} |-> NoTicket]
  /\ req = [q \in Request |-> NoRequest]
  /\ made = 0
  /\ retyped = {} /\ byAgent = {} /\ crossed = {}

There == DOMAIN board
Unused(t) == t \notin There /\ \A q \in Request : req[q].kind = "create" => req[q].ticket # t
IsA(t, type) == t \in There /\ board[t].type = type

\* assertHierarchy; its two queries, of the parent and of the epic, are one step.
NotAsserted(row) == TRUE
AssertHierarchy(row) ==
  /\ row.type = "epic" => row.parent = NoTicket /\ row.epic = NoTicket
  /\ row.type = "sub_task" => row.parent # NoTicket
  /\ row.parent # NoTicket =>
       /\ row.parent \in There
       /\ row.type = "sub_task" => IsA(row.parent, "story")
       /\ row.type = "story" => IsA(row.parent, "epic")
  /\ row.epic # NoTicket => IsA(row.epic, "epic")

-----------------------------------------------------------------------------
\* A bound of the model: MaxRequests are made in all.
Free == IF made < MaxRequests THEN {q \in Request : req[q] = NoRequest} ELSE {}
Begins(q, request) ==
  /\ made' = made + 1
  /\ req' = [req EXCEPT ![q] = request]
\* A request that is refused changes nothing, and is not modelled.

\* The epic that a new ticket gets when none is named.
DefaultEpic(row) ==
  IF row.epic # NoTicket \/ row.parent \notin There THEN row.epic
  ELSE CASE row.type = "sub_task" -> board[row.parent].epic
         [] row.type = "story" -> row.parent
         [] OTHER -> NoTicket

\* createTicket decides ...
CreateTicket(q, t, asked) ==
  /\ Unused(t)
  /\ LET row == [asked EXCEPT !.epic = DefaultEpic(asked)]
     IN  AssertHierarchy(row) /\ Begins(q, [kind |-> "create", ticket |-> t, row |-> row, agent |-> FALSE])
  /\ UNCHANGED <<board, retyped, byAgent, crossed>>
\* ... agentCreateTicket looks at the parent of a sub-task only ...
AgentCreateTicket(q, t, asked) ==
  /\ Unused(t)
  /\ asked.type = "sub_task" => IsA(asked.parent, "story")
  /\ {asked.parent, asked.epic} \subseteq There \cup {NoTicket}
  /\ LET row == IF asked.type = "sub_task" THEN [asked EXCEPT !.epic = DefaultEpic(asked)] ELSE asked
     IN  Begins(q, [kind |-> "create", ticket |-> t, row |-> row, agent |-> TRUE])
  /\ UNCHANGED <<board, retyped, byAgent, crossed>>
\* ... and both insert.
InsertTicket(q) ==
  /\ req[q].kind = "create"
  /\ board' = [t \in There \cup {req[q].ticket} |-> IF t = req[q].ticket THEN req[q].row ELSE board[t]]
  /\ byAgent' = IF req[q].agent THEN byAgent \cup {req[q].ticket} ELSE byAgent
  /\ req' = [req EXCEPT ![q] = NoRequest]
  /\ UNCHANGED <<made, retyped, crossed>>

\* updateTicket: what is not asked for is taken from the row it has read, ...
Completed(t, asked, fields) == [f \in Field |-> IF f \in fields THEN asked[f] ELSE board[t][f]]
UpdateTicket(q, t, asked) ==
  /\ t \in There
  /\ LET fields == {f \in Field : asked[f] # board[t][f]}
     IN  /\ fields # {}
         /\ AssertHierarchy(Completed(t, asked, fields))
         /\ Begins(q, [kind |-> "update", ticket |-> t, row |-> asked, fields |-> fields, overtaken |-> FALSE])
  /\ UNCHANGED <<board, retyped, byAgent, crossed>>
\* ... and only what is asked for is written; the model tells the others that are
\* about to write the same ticket.
WriteTicket(q) ==
  /\ req[q].kind = "update"
  /\ LET t == req[q].ticket
         row == [f \in Field |-> IF f \in req[q].fields THEN req[q].row[f] ELSE board[t][f]]
     IN  /\ board' = [board EXCEPT ![t] = row]
         /\ retyped' = IF row.type # board[t].type THEN retyped \cup {t} ELSE retyped
         /\ byAgent' = byAgent \ {t}
         /\ crossed' = IF req[q].overtaken THEN crossed \cup {t} ELSE crossed
         /\ req' = [p \in Request |->
                      IF p = q THEN NoRequest
                      ELSE IF req[p].kind = "update" /\ req[p].ticket = t
                      THEN [req[p] EXCEPT !.overtaken = TRUE] ELSE req[p]]
  /\ UNCHANGED made

BoardNext ==
  \/ \E q \in Request : InsertTicket(q) \/ WriteTicket(q)
  \/ \E q \in Free, t \in Ticket, asked \in Row :
       \/ CreateTicket(q, t, asked) \/ AgentCreateTicket(q, t, asked)
       \/ UpdateTicket(q, t, asked)

BoardSpec == BoardInit /\ [][BoardNext]_boardVars

-----------------------------------------------------------------------------
BoardTypeOK ==
  /\ There \subseteq Ticket /\ \A t \in There : board[t] \in Row
  /\ made \in 0 .. MaxRequests
  /\ retyped \cup byAgent \cup crossed \subseteq There

\* Every ticket stands in the hierarchy as assertHierarchy has it, whatever the
\* requests that come between its check and its write; unless an agent made it,
\* two updates of it crossed, or the ticket it names was itself given another
\* type: nobody looks at those below it.
HierarchyKept ==
  \A t \in There \ (byAgent \cup crossed) :
    LET row == board[t]
    IN  /\ row.type = "epic" => row.parent = NoTicket /\ row.epic = NoTicket
        /\ row.type = "sub_task" => row.parent # NoTicket
        /\ row.parent \notin retyped \cup {NoTicket} =>
             IsA(row.parent, IF row.type = "sub_task" THEN "story" ELSE "epic")
        /\ row.epic \notin retyped \cup {NoTicket} => IsA(row.epic, "epic")
=============================================================================
