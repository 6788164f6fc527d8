---------------------------- MODULE BoardProofs ----------------------------
(***************************************************************************)
(* Proofs about what stands beside the runs: TicketBoard, for every set of *)
(* tickets and of requests; SprintStates, for every set of sprints and of  *)
(* requests; PlannerWorktrees, for every set of planners, in whatever      *)
(* processes, and whichever runs they plan; FlowOwners, for every set of   *)
(* agents and of editors; CompanyRuns, for every set of requests and       *)
(* however often a run is tried or asked for again; CompanyPlan, for every *)
(* set of orders and whatever their planners answer; FleetWaits, for every *)
(* finite set of agents.                                                   *)
(***************************************************************************)
EXTENDS TicketBoard, SprintStates, PlannerWorktrees, FlowOwners, CompanyRuns, CompanyPlan,
        FleetWaits, FoldFacts

-----------------------------------------------------------------------------
(***************************************************************************)
(* TicketBoard.                                                            *)
(***************************************************************************)
CreateReq == [kind : {"create"}, ticket : Ticket, row : Row, agent : BOOLEAN]
UpdateReq == [kind : {"update"}, ticket : Ticket, row : Row, fields : SUBSET Field, overtaken : BOOLEAN]

\* The parts of the type invariant that the hierarchy needs; what is to be updated is there.
BoardTyped ==
  /\ There \subseteq Ticket /\ \A t \in There : board[t] \in Row
  /\ DOMAIN req = Request
  /\ \A q \in Request : req[q] \in {NoRequest} \cup CreateReq \cup UpdateReq
  /\ \A q \in Request : req[q].kind = "update" => req[q].ticket \in There

\* What is to be inserted is not there, and is one request's.
NewTickets ==
  \A q \in Request : req[q].kind = "create" =>
    /\ req[q].ticket \notin There
    /\ \A p \in Request \ {q} : req[p].kind = "create" => req[p].ticket # req[q].ticket

\* A row as assertHierarchy has it, but for what was given another type since.
Placed(row) ==
  /\ row.type = "epic" => row.parent = NoTicket /\ row.epic = NoTicket
  /\ row.type = "sub_task" => row.parent # NoTicket
  /\ row.parent \notin retyped \cup {NoTicket} =>
       IsA(row.parent, IF row.type = "sub_task" THEN "story" ELSE "epic")
  /\ row.epic \notin retyped \cup {NoTicket} => IsA(row.epic, "epic")

\* What a request is about to write is placed so, unless it is an agent's or has
\* been overtaken.
WillBePlaced ==
  \A q \in Request :
    /\ req[q].kind = "create" /\ ~req[q].agent => Placed(req[q].row)
    /\ req[q].kind = "update" /\ ~req[q].overtaken =>
         Placed(Completed(req[q].ticket, req[q].row, req[q].fields))

BoardInv == BoardTyped /\ NewTickets /\ WillBePlaced /\ HierarchyKept

-----------------------------------------------------------------------------
\* Nothing is on the board at the start.
LEMMA BoardInvInit == BoardInit => BoardInv
BY DEF BoardInit, BoardInv, BoardTyped, NewTickets, WillBePlaced, HierarchyKept, There, NoRequest

\* What assertHierarchy lets pass is placed.
LEMMA AssertedPlaced ==
  ASSUME NEW row \in Row, AssertHierarchy(row)
  PROVE  Placed(row)
BY DEF AssertHierarchy, Placed, IsA, Row, IssueType

\* A row completed with what stands is a row.
LEMMA CompletedRow ==
  ASSUME NEW t \in There, board[t] \in Row, NEW wanted \in Row, NEW fields \in SUBSET Field
  PROVE  Completed(t, wanted, fields) \in Row
<1> DEFINE row == Completed(t, wanted, fields)
<1>1. row = [type |-> row.type, parent |-> row.parent, epic |-> row.epic]
  BY DEF Completed, Field
<1>2. row.type \in IssueType /\ row.parent \in Ticket \cup {NoTicket} /\ row.epic \in Ticket \cup {NoTicket}
  BY DEF Completed, Field, Row
<1> QED BY <1>1, <1>2 DEF Row

\* The default epic is a ticket or none.
LEMMA DefaultRow ==
  ASSUME BoardTyped, NEW wanted \in Row
  PROVE  [wanted EXCEPT !.epic = DefaultEpic(wanted)] \in Row
<1>1. DefaultEpic(wanted) \in Ticket \cup {NoTicket}
  BY DEF DefaultEpic, Row, BoardTyped, There, IssueType
<1> QED BY <1>1 DEF Row

\* A request that is decided changes nothing on the board.
LEMMA RequestBegins ==
  ASSUME BoardInv, NEW q \in Free, NEW request \in CreateReq \cup UpdateReq, Begins(q, request),
         UNCHANGED <<board, retyped, byAgent, crossed>>,
         request.kind = "create" => Unused(request.ticket),
         request.kind = "create" /\ ~request.agent => Placed(request.row),
         request.kind = "update" =>
           /\ request.ticket \in There
           /\ Placed(Completed(request.ticket, request.row, request.fields))
  PROVE  BoardInv'
<1>1. /\ q \in Request /\ req'[q] = request /\ DOMAIN req' = Request
      /\ \A p \in Request \ {q} : req'[p] = req[p]
  BY DEF Begins, Free, BoardInv, BoardTyped
<1>2. There' = There
  BY DEF There
<1>3. BoardTyped'
  BY <1>1, <1>2 DEF BoardInv, BoardTyped
<1>4. NewTickets'
  BY <1>1, <1>2 DEF BoardInv, NewTickets, Unused
<1>6. WillBePlaced'
  <2> SUFFICES ASSUME NEW p \in Request
               PROVE  /\ (req[p].kind = "create" /\ ~req[p].agent => Placed(req[p].row))'
                      /\ (req[p].kind = "update" /\ ~req[p].overtaken =>
                           Placed(Completed(req[p].ticket, req[p].row, req[p].fields)))'
    BY DEF WillBePlaced
  <2>1. PICK r : r = req'[p]
    OBVIOUS
  <2>2. /\ r.kind = "create" /\ ~r.agent => Placed(r.row)
        /\ r.kind = "update" /\ ~r.overtaken => Placed(Completed(r.ticket, r.row, r.fields))
    BY <1>1, <2>1 DEF BoardInv, WillBePlaced
  <2>3. Placed(r.row) => Placed(req[p].row)'
    BY <1>2, <2>1 DEF Placed, IsA
  <2>4. Placed(Completed(r.ticket, r.row, r.fields)) => Placed(Completed(req[p].ticket, req[p].row, req[p].fields))'
    <3>1. PICK row : row = Completed(r.ticket, r.row, r.fields)
      OBVIOUS
    <3>2. Completed(req[p].ticket, req[p].row, req[p].fields)' = row
      BY <2>1, <3>1 DEF Completed
    <3>3. Placed(row) => Placed(row)'
      BY <1>2 DEF Placed, IsA
    <3> QED BY <3>1, <3>2, <3>3
  <2> QED BY <2>1, <2>2, <2>3, <2>4
<1>7. HierarchyKept'
  BY <1>2 DEF BoardInv, HierarchyKept, IsA
<1> QED BY <1>3, <1>4, <1>6, <1>7 DEF BoardInv

\* What comes to the board is placed if its request was.
LEMMA TicketInserted ==
  ASSUME BoardInv, NEW q \in Request, InsertTicket(q)
  PROVE  BoardInv'
<1>1. PICK r \in CreateReq : r = req[q]
  BY DEF InsertTicket, BoardInv, BoardTyped, NoRequest, UpdateReq
<1> DEFINE n == r.ticket
<1>2. /\ n \in Ticket /\ n \notin There /\ r.row \in Row /\ r.kind = "create"
      /\ ~r.agent => Placed(r.row)
  BY <1>1 DEF BoardInv, NewTickets, WillBePlaced, CreateReq
<1>3. /\ There' = There \cup {n} /\ board'[n] = r.row
      /\ \A t \in There : board'[t] = board[t]
      /\ UNCHANGED <<made, retyped, crossed>>
      /\ byAgent' = IF r.agent THEN byAgent \cup {n} ELSE byAgent
  BY <1>1, <1>2 DEF InsertTicket, There
<1>4. /\ DOMAIN req' = Request /\ req'[q] = NoRequest
      /\ \A p \in Request \ {q} : req'[p] = req[p]
  BY DEF InsertTicket, BoardInv, BoardTyped
<1>5. BoardTyped'
  BY <1>2, <1>3, <1>4 DEF BoardInv, BoardTyped, NoRequest
<1>6. NewTickets'
  <2> SUFFICES ASSUME NEW p \in Request, req'[p].kind = "create"
               PROVE  /\ req'[p].ticket \notin There'
                      /\ \A o \in Request \ {p} : req'[o].kind = "create" => req'[o].ticket # req'[p].ticket
    BY DEF NewTickets
  <2>1. p # q /\ req'[p] = req[p]
    BY <1>4 DEF NoRequest
  <2>2. req[p].ticket \notin There /\ req[p].ticket # n
    BY <1>1, <1>2, <2>1 DEF BoardInv, NewTickets
  <2> QED BY <1>3, <1>4, <2>1, <2>2 DEF BoardInv, NewTickets, NoRequest
<1>7. ASSUME NEW row, Placed(row)
      PROVE  /\ row.type = "epic" => row.parent = NoTicket /\ row.epic = NoTicket
             /\ row.type = "sub_task" => row.parent # NoTicket
             /\ row.parent \notin retyped' \cup {NoTicket} =>
                  IsA(row.parent, IF row.type = "sub_task" THEN "story" ELSE "epic")'
             /\ row.epic \notin retyped' \cup {NoTicket} => IsA(row.epic, "epic")'
  BY <1>3, <1>7 DEF Placed, IsA
<1>8. WillBePlaced'
  <2> SUFFICES ASSUME NEW p \in Request
               PROVE  /\ (req[p].kind = "create" /\ ~req[p].agent => Placed(req[p].row))'
                      /\ (req[p].kind = "update" /\ ~req[p].overtaken =>
                           Placed(Completed(req[p].ticket, req[p].row, req[p].fields)))'
    BY DEF WillBePlaced
  <2>1. PICK s : s = req'[p]
    OBVIOUS
  <2>2. CASE s.kind = "create" /\ ~s.agent
    <3>1. Placed(s.row)
      BY <1>4, <2>1, <2>2 DEF BoardInv, WillBePlaced, NoRequest
    <3> QED BY <1>7, <2>1, <2>2, <3>1 DEF Placed
  <2>3. CASE s.kind = "update" /\ ~s.overtaken
    <3>1. s.ticket \in There /\ Placed(Completed(s.ticket, s.row, s.fields))
      BY <1>4, <2>1, <2>3 DEF BoardInv, BoardTyped, WillBePlaced, NoRequest
    <3>2. PICK c : c = Completed(s.ticket, s.row, s.fields)
      OBVIOUS
    <3>3. c = Completed(s.ticket, s.row, s.fields)'
      BY <1>3, <3>1, <3>2 DEF Completed
    <3>4. Placed(c)'
      BY <1>7, <3>1, <3>2 DEF Placed
    <3> QED BY <2>1, <2>3, <3>3, <3>4 DEF Placed
  <2> QED BY <2>1, <2>2, <2>3
<1>9. HierarchyKept'
  <2> SUFFICES ASSUME NEW t \in There', t \notin byAgent' \cup crossed'
               PROVE  Placed(board[t])'
    BY DEF HierarchyKept, Placed
  <2>1. PICK row : row = board'[t]
    OBVIOUS
  <2>2. Placed(row)
    BY <1>2, <1>3, <2>1 DEF BoardInv, HierarchyKept, Placed
  <2> QED BY <1>7, <2>1, <2>2 DEF Placed
<1> QED BY <1>5, <1>6, <1>8, <1>9 DEF BoardInv

\* What is written is placed if its request was, and those that stand below a
\* ticket that is given another type are not looked at.
LEMMA TicketWritten ==
  ASSUME BoardInv, NEW q \in Request, WriteTicket(q)
  PROVE  BoardInv'
<1>1. PICK r \in UpdateReq : r = req[q]
  BY DEF WriteTicket, BoardInv, BoardTyped, NoRequest, CreateReq
<1> DEFINE t == r.ticket
           row == Completed(t, r.row, r.fields)
<1>2. /\ t \in There /\ r.row \in Row /\ r.fields \in SUBSET Field /\ r.kind = "update"
      /\ ~r.overtaken => Placed(row)
  BY <1>1 DEF BoardInv, BoardTyped, WillBePlaced, UpdateReq
<1>3. PICK c \in Row : c = row
  BY <1>2, CompletedRow DEF BoardInv, BoardTyped
<1>4. /\ board' = [board EXCEPT ![t] = c]
      /\ retyped' = IF c.type # board[t].type THEN retyped \cup {t} ELSE retyped
      /\ byAgent' = byAgent \ {t}
      /\ crossed' = IF r.overtaken THEN crossed \cup {t} ELSE crossed
      /\ req' = [p \in Request |->
                   IF p = q THEN NoRequest
                   ELSE IF req[p].kind = "update" /\ req[p].ticket = t
                   THEN [req[p] EXCEPT !.overtaken = TRUE] ELSE req[p]]
  BY <1>1, <1>2, <1>3 DEF WriteTicket, Completed
<1> HIDE DEF row
<1>5. /\ There' = There /\ board'[t] = c
      /\ \A u \in There \ {t} : board'[u] = board[u]
  BY <1>2, <1>4 DEF There
<1>6. /\ \A p \in Request :
           /\ p = q => req'[p] = NoRequest
           /\ p # q /\ req[p].kind = "update" /\ req[p].ticket = t =>
                req'[p] \in UpdateReq /\ req'[p].overtaken /\ req'[p].ticket = t
           /\ p # q /\ ~(req[p].kind = "update" /\ req[p].ticket = t) => req'[p] = req[p]
      /\ DOMAIN req' = Request
  <2> SUFFICES ASSUME NEW p \in Request, p # q, req[p].kind = "update", req[p].ticket = t
               PROVE  [req[p] EXCEPT !.overtaken = TRUE] \in UpdateReq
                      /\ [req[p] EXCEPT !.overtaken = TRUE].overtaken
                      /\ [req[p] EXCEPT !.overtaken = TRUE].ticket = t
    BY <1>4
  <2>1. req[p] \in UpdateReq
    BY DEF BoardInv, BoardTyped, NoRequest, CreateReq
  <2> QED BY <2>1 DEF UpdateReq
<1>7. BoardTyped'
  BY <1>2, <1>3, <1>5, <1>6 DEF BoardInv, BoardTyped, NoRequest
<1>8. NewTickets'
  <2>1. \A p \in Request : req'[p].kind = "create" => p # q /\ req'[p] = req[p]
    BY <1>6 DEF NoRequest, UpdateReq
  <2> QED BY <1>5, <2>1 DEF BoardInv, NewTickets
<1>9. ASSUME NEW x, Placed(x)
      PROVE  /\ x.type = "epic" => x.parent = NoTicket /\ x.epic = NoTicket
             /\ x.type = "sub_task" => x.parent # NoTicket
             /\ x.parent \notin retyped' \cup {NoTicket} =>
                  IsA(x.parent, IF x.type = "sub_task" THEN "story" ELSE "epic")'
             /\ x.epic \notin retyped' \cup {NoTicket} => IsA(x.epic, "epic")'
  <2>1. ASSUME NEW u, NEW type, u \notin retyped', IsA(u, type) PROVE IsA(u, type)'
    BY <1>4, <1>5, <2>1 DEF IsA
  <2>2. retyped \subseteq retyped'
    BY <1>4
  <2> QED BY <1>9, <2>1, <2>2 DEF Placed
<1>10. WillBePlaced'
  <2> SUFFICES ASSUME NEW p \in Request
               PROVE  /\ (req[p].kind = "create" /\ ~req[p].agent => Placed(req[p].row))'
                      /\ (req[p].kind = "update" /\ ~req[p].overtaken =>
                           Placed(Completed(req[p].ticket, req[p].row, req[p].fields)))'
    BY DEF WillBePlaced
  <2>1. PICK s : s = req'[p]
    OBVIOUS
  <2>2. CASE s.kind = "create" /\ ~s.agent
    <3>1. Placed(s.row)
      BY <1>6, <2>1, <2>2 DEF BoardInv, WillBePlaced, NoRequest, UpdateReq
    <3> QED BY <1>9, <2>1, <2>2, <3>1 DEF Placed
  <2>3. CASE s.kind = "update" /\ ~s.overtaken
    <3>1. s = req[p] /\ s.ticket # t
      BY <1>6, <2>1, <2>3 DEF NoRequest
    <3>2. s.ticket \in There /\ Placed(Completed(s.ticket, s.row, s.fields))
      BY <2>3, <3>1 DEF BoardInv, BoardTyped, WillBePlaced
    <3>3. PICK d : d = Completed(s.ticket, s.row, s.fields)
      OBVIOUS
    <3>4. d = Completed(s.ticket, s.row, s.fields)'
      BY <1>5, <3>1, <3>2, <3>3 DEF Completed
    <3>5. Placed(d)'
      BY <1>9, <3>2, <3>3 DEF Placed
    <3> QED BY <2>1, <2>3, <3>4, <3>5 DEF Placed
  <2> QED BY <2>1, <2>2, <2>3
<1>11. HierarchyKept'
  <2> SUFFICES ASSUME NEW u \in There', u \notin byAgent' \cup crossed'
               PROVE  Placed(board[u])'
    BY DEF HierarchyKept, Placed
  <2>1. PICK x : x = board'[u]
    OBVIOUS
  <2>2. Placed(x)
    <3>1. CASE u = t
      BY <1>2, <1>3, <1>4, <1>5, <2>1, <3>1
    <3>2. CASE u # t
      BY <1>4, <1>5, <2>1, <3>2 DEF BoardInv, HierarchyKept, Placed
    <3> QED BY <3>1, <3>2
  <2> QED BY <1>9, <2>1, <2>2 DEF Placed
<1> QED BY <1>7, <1>8, <1>10, <1>11 DEF BoardInv

\* A step of any request keeps the invariant.
LEMMA BoardInvStep ==
  ASSUME BoardInv, [BoardNext]_boardVars
  PROVE  BoardInv'
<1>1. ASSUME NEW q \in Free, NEW t \in Ticket, NEW wanted \in Row, CreateTicket(q, t, wanted)
      PROVE  BoardInv'
  <2>1. PICK row \in Row : /\ row = [wanted EXCEPT !.epic = DefaultEpic(wanted)]
                           /\ AssertHierarchy(row)
                           /\ Begins(q, [kind |-> "create", ticket |-> t, row |-> row, agent |-> FALSE])
    BY <1>1, DefaultRow DEF CreateTicket, BoardInv
  <2>2. PICK r \in CreateReq : r = [kind |-> "create", ticket |-> t, row |-> row, agent |-> FALSE]
    BY DEF CreateReq
  <2>3. r.kind = "create" /\ r.ticket = t /\ r.row = row
    BY <2>2
  <2>4. UNCHANGED <<board, retyped, byAgent, crossed>> /\ Unused(t) /\ Placed(row)
    BY <1>1, <2>1, AssertedPlaced DEF CreateTicket
  <2> QED BY <2>1, <2>2, <2>3, <2>4, RequestBegins
<1>2. ASSUME NEW q \in Free, NEW t \in Ticket, NEW wanted \in Row, AgentCreateTicket(q, t, wanted)
      PROVE  BoardInv'
  <2>1. PICK row \in Row : Begins(q, [kind |-> "create", ticket |-> t, row |-> row, agent |-> TRUE])
    BY <1>2, DefaultRow DEF AgentCreateTicket, BoardInv
  <2>2. PICK r \in CreateReq : r = [kind |-> "create", ticket |-> t, row |-> row, agent |-> TRUE]
    BY DEF CreateReq
  <2>3. r.kind = "create" /\ r.ticket = t /\ r.agent
    BY <2>2
  <2>4. UNCHANGED <<board, retyped, byAgent, crossed>> /\ Unused(t)
    BY <1>2 DEF AgentCreateTicket
  <2> QED BY <2>1, <2>2, <2>3, <2>4, RequestBegins
<1>3. ASSUME NEW q \in Free, NEW t \in Ticket, NEW wanted \in Row, UpdateTicket(q, t, wanted)
      PROVE  BoardInv'
  <2>1. PICK fields \in SUBSET Field :
          /\ AssertHierarchy(Completed(t, wanted, fields))
          /\ Begins(q, [kind |-> "update", ticket |-> t, row |-> wanted, fields |-> fields, overtaken |-> FALSE])
    BY <1>3 DEF UpdateTicket
  <2>2. PICK r \in UpdateReq :
          r = [kind |-> "update", ticket |-> t, row |-> wanted, fields |-> fields, overtaken |-> FALSE]
    BY DEF UpdateReq
  <2>3. r.kind = "update" /\ r.ticket = t /\ r.row = wanted /\ r.fields = fields
    BY <2>2
  <2>4. UNCHANGED <<board, retyped, byAgent, crossed>> /\ t \in There
    BY <1>3 DEF UpdateTicket
  <2>5. Placed(Completed(t, wanted, fields))
    BY <2>1, <2>4, CompletedRow, AssertedPlaced DEF BoardInv, BoardTyped
  <2> QED BY <2>1, <2>2, <2>3, <2>4, <2>5, RequestBegins
<1>4. CASE UNCHANGED boardVars
  <2>1. UNCHANGED <<board, req, retyped, byAgent, crossed>>
    BY <1>4 DEF boardVars
  <2>2. BoardTyped' /\ NewTickets'
    BY <2>1 DEF BoardInv, BoardTyped, NewTickets, There
  <2>3. WillBePlaced'
    <3> SUFFICES ASSUME NEW p \in Request
                 PROVE  /\ (req[p].kind = "create" /\ ~req[p].agent => Placed(req[p].row))'
                        /\ (req[p].kind = "update" /\ ~req[p].overtaken =>
                             Placed(Completed(req[p].ticket, req[p].row, req[p].fields)))'
      BY DEF WillBePlaced
    <3>1. PICK r : r = req[p]
      OBVIOUS
    <3>2. /\ r.kind = "create" /\ ~r.agent => Placed(r.row)
          /\ r.kind = "update" /\ ~r.overtaken => Placed(Completed(r.ticket, r.row, r.fields))
      BY <3>1 DEF BoardInv, WillBePlaced
    <3>3. req'[p] = r
      BY <2>1, <3>1
    <3>4. Placed(r.row) => Placed(req[p].row)'
      BY <2>1, <3>3 DEF Placed, IsA, There
    <3>5. Placed(Completed(r.ticket, r.row, r.fields)) => Placed(Completed(req[p].ticket, req[p].row, req[p].fields))'
      <4>1. PICK row : row = Completed(r.ticket, r.row, r.fields)
        OBVIOUS
      <4>2. Completed(req[p].ticket, req[p].row, req[p].fields)' = row
        BY <2>1, <3>3, <4>1 DEF Completed
      <4>3. Placed(row) => Placed(row)'
        BY <2>1 DEF Placed, IsA, There
      <4> QED BY <4>1, <4>2, <4>3
    <3> QED BY <3>2, <3>3, <3>4, <3>5
  <2>4. HierarchyKept'
    BY <2>1 DEF BoardInv, HierarchyKept, IsA, There
  <2> QED BY <2>2, <2>3, <2>4 DEF BoardInv
<1> QED BY <1>1, <1>2, <1>3, <1>4, TicketInserted, TicketWritten DEF BoardNext

\* The hierarchy of the tickets is kept, whatever requests come between a check and
\* its write.
THEOREM TicketsStand == BoardSpec => []HierarchyKept
<1>1. BoardInv => HierarchyKept
  BY DEF BoardInv
<1> QED BY BoardInvInit, BoardInvStep, <1>1, PTL DEF BoardSpec

-----------------------------------------------------------------------------
(***************************************************************************)
(* SprintStates.                                                           *)
(***************************************************************************)
Active == {s \in DOMAIN sprints : sprints[s] = "active"}

\* An activation that has had no other beside it is the only one under way, and
\* leaves no sprint active but its own.
AloneIsAlone ==
  \A a \in DOMAIN active :
    active[a].alone => DOMAIN active = {a} /\ Active \subseteq {active[a].sprint}

AtMostOne == ~crowded => \A s, u \in Active : s = u

SInv == AloneIsAlone /\ AtMostOne

-----------------------------------------------------------------------------
\* The invariant of the sprints holds when there are none.
LEMMA SInvInit == SprintsInit => SInv
BY DEF SprintsInit, SInv, AloneIsAlone, AtMostOne, Active

\* Each step of a request keeps it.
LEMMA SInvStep ==
  ASSUME SInv, [SprintsNext]_sprintVars
  PROVE  SInv'
<1> USE DEF SInv, AloneIsAlone, AtMostOne, Active
<1>1. ASSUME NEW a \in Activation, NEW s \in Sprint, Activate(a, s) PROVE SInv'
  <2>1. Active' \subseteq {s}
    BY <1>1 DEF Activate, TakenBack
  <2>2. AtMostOne'
    BY <2>1
  <2>3. ASSUME NEW b \in DOMAIN active', active'[b].alone
        PROVE  DOMAIN active' = {b} /\ active'[b].sprint = s
    <3>1. active' = [c \in DOMAIN active \cup {a} |->
                       IF c = a THEN [sprint |-> s, alone |-> active = <<>>]
                       ELSE [active[c] EXCEPT !.alone = FALSE]]
      BY <1>1 DEF Activate
    <3>2. b = a
      BY <2>3, <3>1
    <3>3. active = <<>>
      BY <2>3, <3>1, <3>2
    <3> QED BY <3>1, <3>2, <3>3
  <2> QED BY <2>1, <2>2, <2>3
<1>2. ASSUME NEW a \in DOMAIN active, WriteActiveSprint(a) PROVE SInv'
  <2>1. Active' \subseteq Active \cup {active[a].sprint}
    BY <1>2 DEF WriteActiveSprint, WithStatus
  <2>2. AtMostOne'
    BY <1>2, <2>1 DEF WriteActiveSprint
  <2>3. ASSUME NEW b \in DOMAIN active' PROVE ~active'[b].alone
    <3>1. b \in DOMAIN active /\ b # a /\ active'[b] = active[b]
      BY <1>2 DEF WriteActiveSprint
    <3> QED BY <3>1
  <2> QED BY <2>2, <2>3
<1>3. ASSUME NEW a \in DOMAIN active, ActivationFails(a) PROVE SInv'
  BY <1>3 DEF ActivationFails
<1>4. ASSUME NEW s \in Sprint, NEW status \in SprintStatus, PlanOrClose(s, status) PROVE SInv'
  <2>1. Active' \subseteq Active
    BY <1>4 DEF PlanOrClose, WithStatus
  <2> QED BY <1>4, <2>1 DEF PlanOrClose
<1>5. CASE UNCHANGED sprintVars
  BY <1>5 DEF sprintVars
<1> QED BY <1>1, <1>2, <1>3, <1>4, <1>5 DEF SprintsNext

-----------------------------------------------------------------------------
\* After an activation that had no other beside it at most one sprint is active.
THEOREM SprintAlone == SprintsSpec => []OneActiveSprint
<1>1. ASSUME SInv PROVE OneActiveSprint
  <2>1. CASE Active = {}
    BY <2>1, FS_EmptySet DEF OneActiveSprint, Active
  <2>2. ASSUME NEW s \in Active, ~crowded PROVE OneActiveSprint
    <3>1. Active = {s}
      BY <1>1, <2>2 DEF SInv, AtMostOne
    <3>2. Cardinality(Active) = 1
      BY <3>1, FS_Singleton
    <3> QED BY <3>2 DEF OneActiveSprint, Active
  <2> QED BY <2>1, <2>2 DEF OneActiveSprint
<1> QED BY SInvInit, SInvStep, <1>1, PTL DEF SprintsSpec

-----------------------------------------------------------------------------
(***************************************************************************)
(* PlannerWorktrees: the lock.                                             *)
(***************************************************************************)
\* The parts of the type invariant that the lock needs.
LockTyped ==
  /\ at \in [Planner -> At]
  /\ lock \in Planner \cup {NoLock}
  /\ seen \in [Planner -> Planner \cup {NoLock}]
  /\ robbed \in BOOLEAN

\* A lock is found old only when its process has died, and so is one that a
\* waiter has seen to be old and is about to remove.
OldIsDead ==
  /\ old => lock # NoLock /\ at[lock] = "dead"
  /\ \A p \in Planner : at[p] = "statted" => seen[p] \in Planner /\ at[seen[p]] = "dead"

\* Who is at the mirror has the lock file, until it is taken for a dead one's.
InsideHasLock == ~robbed => \A p \in Planner : at[p] \in {"inside", "added"} => lock = p

LockInv == LockTyped /\ OldIsDead /\ InsideHasLock

-----------------------------------------------------------------------------
\* The invariant of the lock holds at the start.
LEMMA LockInvInit == WorktreesInit => LockInv
BY WorktreesAssumption
   DEF WorktreesInit, LockInv, LockTyped, OldIsDead, InsideHasLock, At

\* Each step of a planner keeps it.
LEMMA LockInvStep ==
  ASSUME LockInv, [WorktreesNext]_worktreeVars
  PROVE  LockInv'
<1> USE WorktreesAssumption DEF LockInv, LockTyped, OldIsDead, InsideHasLock, At, MovesOn
<1>1. ASSUME NEW p \in Planner, AskCwd(p) PROVE LockInv'
  BY <1>1 DEF AskCwd
<1>2. ASSUME NEW p \in Planner, TakeLock(p) PROVE LockInv'
  <2>1. LockTyped' /\ OldIsDead'
    BY <1>2 DEF TakeLock
  <2>2. InsideHasLock'
    BY <1>2 DEF TakeLock
  <2> QED BY <2>1, <2>2
<1>3. ASSUME NEW p \in Planner, StatLock(p) PROVE LockInv'
  BY <1>3 DEF StatLock, OldLock
<1>4. ASSUME NEW p \in Planner, RemoveOldLock(p) PROVE LockInv'
  <2>1. PICK to \in {"waiting", "over"} : at' = [at EXCEPT ![p] = to]
    BY <1>4 DEF RemoveOldLock
  <2>2. LockTyped' /\ OldIsDead'
    BY <1>4, <2>1 DEF RemoveOldLock
  <2>3. InsideHasLock'
    <3> SUFFICES ASSUME ~robbed', NEW q \in Planner, at'[q] \in {"inside", "added"}
                 PROVE  FALSE
      BY DEF InsideHasLock
    <3>1. at[q] \in {"inside", "added"} /\ ~robbed /\ lock \in {NoLock, seen[p]}
      BY <1>4, <2>1 DEF RemoveOldLock
    <3>2. lock = q /\ at[seen[p]] = "dead"
      BY <1>4, <3>1 DEF RemoveOldLock
    <3> QED BY <3>1, <3>2
  <2> QED BY <2>2, <2>3
<1>5. ASSUME NEW p \in Planner, GiveUp(p) PROVE LockInv'
  BY <1>5 DEF GiveUp
<1>6. ASSUME NEW p \in Planner, AddWorktree(p) PROVE LockInv'
  BY <1>6 DEF AddWorktree
<1>7. ASSUME NEW p \in Planner, GitFails(p) PROVE LockInv'
  BY <1>7 DEF GitFails, Unlock
<1>8. ASSUME NEW p \in Planner, HoldWorktree(p) PROVE LockInv'
  BY <1>8 DEF HoldWorktree, Unlock
<1>9. ASSUME NEW p \in Planner, Release(p) PROVE LockInv'
  <2>1. PICK to \in {"over", "removing"} : at' = [at EXCEPT ![p] = to]
    BY <1>9 DEF Release
  <2> QED BY <1>9, <2>1 DEF Release
<1>10. ASSUME NEW p \in Planner, RemoveWorktree(p) \/ ClearWorktree(p) \/ PruneMirror(p) PROVE LockInv'
  <2>1. PICK to \in {"clearing", "pruning", "over"} : at' = [at EXCEPT ![p] = to]
    BY <1>10 DEF RemoveWorktree, ClearWorktree, PruneMirror
  <2>2. at[p] \in {"removing", "clearing", "pruning"} /\ UNCHANGED <<lock, seen, old, robbed>>
    BY <1>10 DEF RemoveWorktree, ClearWorktree, PruneMirror
  <2> QED BY <2>1, <2>2
<1>11. CASE LockAges
  BY <1>11 DEF LockAges
<1>12. ASSUME NEW s \in Process, ProcessDies(s) PROVE LockInv'
  <2>1. \A p \in Planner : at'[p] = "dead" \/ at'[p] = at[p]
    BY <1>12 DEF ProcessDies
  <2>2. \A p \in Planner : at[p] = "dead" => at'[p] = "dead"
    BY <1>12 DEF ProcessDies
  <2>3. at' \in [Planner -> At]
    BY <1>12 DEF ProcessDies
  <2>4. UNCHANGED <<lock, seen, old, robbed>>
    BY <1>12 DEF ProcessDies
  <2> QED BY <2>1, <2>2, <2>3, <2>4
<1>13. CASE UNCHANGED worktreeVars
  BY <1>13 DEF worktreeVars
<1> QED BY <1>1, <1>2, <1>3, <1>4, <1>5, <1>6, <1>7, <1>8, <1>9, <1>10, <1>11, <1>12, <1>13
        DEF WorktreesNext

-----------------------------------------------------------------------------
\* One planner at a time clones or fetches the mirror and adds a worktree to it, unless a
\* waiter removed the lock of one that had come after the dead one's; who removes a
\* worktree has git at work there out of turn.
THEOREM OneAtTheMirror == WorktreesSpec => []MirrorExclusive
<1>1. ASSUME LockInv PROVE MirrorExclusive
  <2> DEFINE Inside == {p \in Planner : at[p] = "inside"}
  <2> SUFFICES ASSUME ~robbed PROVE Cardinality(Inside) <= 1
    BY DEF MirrorExclusive
  <2>1. CASE Inside = {}
    BY <2>1, FS_EmptySet
  <2>2. ASSUME NEW p \in Inside PROVE Cardinality(Inside) <= 1
    <3>1. Inside = {p}
      BY <1>1, <2>2 DEF LockInv, InsideHasLock
    <3> HIDE DEF Inside
    <3> QED BY <3>1, FS_Singleton
  <2> HIDE DEF Inside
  <2> QED BY <2>1, <2>2
<1> QED BY LockInvInit, LockInvStep, <1>1, PTL DEF WorktreesSpec

-----------------------------------------------------------------------------
(***************************************************************************)
(* PlannerWorktrees: the worktrees.                                        *)
(***************************************************************************)
\* Who uses a worktree.
Users(c) == {p \in Planner : at[p] = "using" /\ cwd[p] = c}

Slot == [cwd : Planner, holders : Nat \ {0}]
\* Where a planner's own worktree is not yet another's.
Before == {"new", "waiting", "statted", "inside", "added"}

\* The parts of the type invariant that the worktrees need.
TreesTyped ==
  /\ at \in [Planner -> At] /\ cwd \in [Planner -> Planner]
  /\ DOMAIN held = Process
  /\ \A s \in Process : /\ held[s] = [r \in DOMAIN held[s] |-> held[s][r]]
                        /\ \A r \in DOMAIN held[s] : held[s][r] \in Slot

\* A worktree is used in the process and for the run of the planner that had it
\* added, by that planner first.
SharedWithin ==
  /\ \A p \in Planner : at[p] \in Before => cwd[p] = p
  /\ \A p \in Planner : cwd[p] # p => at[p] \notin Before /\ at[cwd[p]] \notin Before
  /\ \A p \in Planner : ProcessOf[cwd[p]] = ProcessOf[p] /\ RunOf[cwd[p]] = RunOf[p]

\* A slot of heldWorktrees is of a worktree in use, and counts who uses it.
SlotCounts(slot, s, r) ==
  /\ ProcessOf[slot.cwd] = s /\ RunOf[slot.cwd] = r /\ at[slot.cwd] \notin Before
  /\ IsFiniteSet(Users(slot.cwd)) /\ Cardinality(Users(slot.cwd)) = slot.holders
SlotsCount == \A s \in Process : \A r \in DOMAIN held[s] : SlotCounts(held[s][r], s, r)

\* What is in use is there; what has no slot is used by one alone, and what is to
\* be removed by none.
BeingRemoved == {"removing", "clearing"}
HasSlot(c) == RunOf[c] \in DOMAIN Slots(c) /\ Slots(c)[RunOf[c]].cwd = c
Stands(c) ==
  /\ Users(c) # {} => c \in disk
  /\ ~HasSlot(c) => \A p, q \in Users(c) : p = q
  /\ \A p \in Planner : at[p] \in BeingRemoved /\ cwd[p] = c => Users(c) = {}
UsedStands == \A c \in Planner : RunOf[c] \notin replaced => Stands(c)
AddedThere == \A p \in Planner : at[p] = "added" => p \in disk

\* What a failure left is there; what else there is, somebody has or had.
LitterLeft == littered \subseteq disk \cap Planner
Had(c) == \E p \in Planner : at[p] \in {"added", "using", "dead"} \cup BeingRemoved /\ cwd[p] = c
NoneForgotten == \A c \in disk \ littered : Had(c)

TreesInv == TreesTyped /\ SharedWithin /\ SlotsCount /\ UsedStands /\ AddedThere /\ LitterLeft /\ NoneForgotten

-----------------------------------------------------------------------------
\* No worktree is there at the start.
LEMMA TreesInvInit == WorktreesInit => TreesInv
BY WorktreesAssumption
   DEF WorktreesInit, TreesInv, TreesTyped, SharedWithin, SlotsCount, UsedStands, AddedThere,
       LitterLeft, NoneForgotten, Stands, NoSlots, Users, Before, At

\* A planner that asks for its turn, waits for it, takes it or gives it up changes
\* nothing of the worktrees.
LEMMA TreesWait ==
  ASSUME TreesInv, NEW p \in Planner, at[p] \in {"new", "waiting", "statted"},
         NEW to \in {"waiting", "statted", "inside", "over"}, MovesOn(p, to),
         UNCHANGED <<held, cwd, disk, replaced, littered>>
  PROVE  TreesInv'
<1> USE WorktreesAssumption
<1>1. /\ at'[p] = to /\ \A q \in Planner \ {p} : at'[q] = at[q]
      /\ at' \in [Planner -> At]
  BY DEF MovesOn, TreesInv, TreesTyped, At
<1>2. \A c : Users(c)' = Users(c)
  BY <1>1 DEF Users
<1>3. TreesTyped'
  BY <1>1 DEF TreesInv, TreesTyped
<1>4. SharedWithin'
  BY <1>1 DEF TreesInv, TreesTyped, SharedWithin, Before
<1>5. SlotsCount'
  <2> SUFFICES ASSUME NEW s \in Process, NEW r \in DOMAIN held[s]
               PROVE  SlotCounts(held[s][r], s, r)'
    BY DEF SlotsCount
  <2>1. SlotCounts(held[s][r], s, r) /\ held[s][r].cwd \in Planner
    BY DEF TreesInv, TreesTyped, Slot, SlotsCount
  <2>2. held[s][r].cwd # p
    BY <2>1 DEF SlotCounts, Before
  <2> QED BY <1>1, <1>2, <2>1, <2>2 DEF SlotCounts
<1>6. UsedStands'
  <2> SUFFICES ASSUME NEW c \in Planner, RunOf[c] \notin replaced PROVE Stands(c)'
    BY DEF UsedStands
  <2>1. Stands(c)
    BY DEF TreesInv, UsedStands
  <2> QED BY <1>1, <1>2, <2>1 DEF Stands, HasSlot, Slots, BeingRemoved
<1>7. AddedThere' /\ LitterLeft'
  BY <1>1 DEF TreesInv, TreesTyped, AddedThere, LitterLeft
<1>8. NoneForgotten'
  BY <1>1 DEF TreesInv, NoneForgotten, Had, BeingRemoved
<1> QED BY <1>3, <1>4, <1>5, <1>6, <1>7, <1>8 DEF TreesInv

\* A planner that finds its run's worktree is counted among those who use it.
LEMMA TreesShared ==
  ASSUME TreesInv, NEW p \in Planner, AskCwd(p), RunOf[p] \in DOMAIN Slots(p)
  PROVE  TreesInv'
<1> USE WorktreesAssumption
<1>1. PICK s \in Process : s = ProcessOf[p]
  OBVIOUS
<1>2. PICK r \in DOMAIN held[s] : r = RunOf[p]
  BY <1>1 DEF Slots
<1>3. PICK slot \in Slot : slot = held[s][r]
  BY DEF TreesInv, TreesTyped
<1>4. PICK c \in Planner : c = slot.cwd
  BY <1>3 DEF Slot
<1>5. SlotCounts(slot, s, r)
  BY <1>3 DEF TreesInv, SlotsCount
<1>6. /\ at[p] = "new" /\ cwd' = [cwd EXCEPT ![p] = c] /\ at' = [at EXCEPT ![p] = "using"]
      /\ held' = [held EXCEPT ![s] = [held[s] EXCEPT ![r].holders = @ + 1]]
      /\ UNCHANGED <<disk, replaced, littered>>
  BY <1>1, <1>2, <1>3, <1>4 DEF AskCwd, SetSlots, Slots, MovesOn
<1>7. /\ at' \in [Planner -> At] /\ cwd' \in [Planner -> Planner]
      /\ at'[p] = "using" /\ cwd'[p] = c
      /\ \A q \in Planner \ {p} : at'[q] = at[q] /\ cwd'[q] = cwd[q]
  BY <1>6 DEF TreesInv, TreesTyped, At
<1>8. /\ DOMAIN held' = Process /\ held'[s] = [held[s] EXCEPT ![r].holders = @ + 1]
      /\ \A u \in Process \ {s} : held'[u] = held[u]
  BY <1>6 DEF TreesInv, TreesTyped
<1>9. /\ DOMAIN held'[s] = DOMAIN held[s]
      /\ held'[s][r] = [slot EXCEPT !.holders = @ + 1]
      /\ \A u \in DOMAIN held[s] \ {r} : held'[s][u] = held[s][u]
  BY <1>3, <1>8
<1>10. /\ held'[s][r] \in Slot /\ held'[s][r].cwd = c
       /\ held'[s][r].holders = slot.holders + 1
  BY <1>3, <1>4, <1>9 DEF Slot
<1>11. /\ ProcessOf[c] = s /\ RunOf[c] = r /\ at[c] \notin Before /\ c # p
       /\ IsFiniteSet(Users(c)) /\ Cardinality(Users(c)) = slot.holders
  BY <1>4, <1>5, <1>6 DEF SlotCounts, Before
<1>12. /\ Users(c)' = Users(c) \cup {p} /\ p \notin Users(c)
       /\ \A d \in Planner \ {c} : Users(d)' = Users(d)
  BY <1>6, <1>7 DEF Users
<1>13. TreesTyped'
  <2>1. ASSUME NEW u \in Process
        PROVE  /\ held'[u] = [x \in DOMAIN held'[u] |-> held'[u][x]]
               /\ \A x \in DOMAIN held'[u] : held'[u][x] \in Slot
    BY <1>8, <1>9, <1>10 DEF TreesInv, TreesTyped
  <2> QED BY <1>7, <1>8, <2>1 DEF TreesTyped
<1>14. SharedWithin'
  BY <1>1, <1>2, <1>6, <1>7, <1>11 DEF TreesInv, TreesTyped, SharedWithin, Before
<1>15. SlotsCount'
  <2> SUFFICES ASSUME NEW u \in Process, NEW x \in DOMAIN held'[u]
               PROVE  SlotCounts(held[u][x], u, x)'
    BY DEF SlotsCount
  <2>1. CASE u = s /\ x = r
    <3>1. IsFiniteSet(Users(c)') /\ Cardinality(Users(c)') = slot.holders + 1
      BY <1>11, <1>12, FS_AddElement
    <3> QED BY <1>7, <1>10, <1>11, <2>1, <3>1 DEF SlotCounts, Before
  <2>2. CASE ~(u = s /\ x = r)
    <3>1. x \in DOMAIN held[u] /\ held'[u][x] = held[u][x]
      BY <1>8, <1>9, <2>2
    <3>2. SlotCounts(held[u][x], u, x) /\ held[u][x].cwd \in Planner
      BY <3>1 DEF TreesInv, TreesTyped, SlotsCount, Slot
    <3>3. held[u][x].cwd # c /\ held[u][x].cwd # p
      BY <1>6, <1>11, <2>2, <3>2 DEF SlotCounts, Before
    <3> QED BY <1>7, <1>12, <3>1, <3>2, <3>3 DEF SlotCounts
  <2> QED BY <2>1, <2>2
<1>16. ASSUME NEW d \in Planner, RunOf[d] \notin replaced PROVE Stands(d)'
  <2>1. Stands(d)
    BY <1>16 DEF TreesInv, UsedStands
  <2>2. HasSlot(d)' <=> HasSlot(d)
    <3>1. ProcessOf[d] \in Process
      OBVIOUS
    <3>2. /\ DOMAIN held'[ProcessOf[d]] = DOMAIN held[ProcessOf[d]]
          /\ RunOf[d] \in DOMAIN held[ProcessOf[d]] =>
               held'[ProcessOf[d]][RunOf[d]].cwd = held[ProcessOf[d]][RunOf[d]].cwd
      BY <1>3, <1>4, <1>8, <1>9, <1>10, <3>1
    <3> QED BY <3>2 DEF HasSlot, Slots
  <2>3. CASE d # c
    BY <1>6, <1>7, <1>12, <2>1, <2>2, <2>3 DEF Stands, BeingRemoved
  <2>4. CASE d = c
    <3>1. HasSlot(c) /\ Users(c) # {}
      <4>1. HasSlot(c)
        BY <1>3, <1>4, <1>11 DEF HasSlot, Slots
      <4>2. Cardinality(Users(c)) # 0
        BY <1>3, <1>11 DEF Slot
      <4> QED BY <4>1, <4>2, FS_EmptySet
    <3>2. c \in disk /\ \A q \in Planner : at[q] \in BeingRemoved => cwd[q] # c
      BY <2>1, <2>4, <3>1 DEF Stands, BeingRemoved
    <3> QED BY <1>6, <1>7, <2>2, <2>4, <3>1, <3>2 DEF Stands, BeingRemoved
  <2> QED BY <2>3, <2>4
<1>17. UsedStands' /\ AddedThere'
  BY <1>6, <1>7, <1>16 DEF TreesInv, UsedStands, AddedThere
<1>19. LitterLeft'
  BY <1>6, <1>7 DEF TreesInv, LitterLeft
<1>20. NoneForgotten'
  BY <1>6, <1>7 DEF TreesInv, NoneForgotten, Had, BeingRemoved
<1> QED BY <1>13, <1>14, <1>15, <1>17, <1>19, <1>20 DEF TreesInv

\* A worktree is added, with or without a failure after it; nobody uses it yet.
LEMMA TreesAdded ==
  ASSUME TreesInv, NEW p \in Planner, AddWorktree(p) \/ GitFails(p)
  PROVE  TreesInv'
<1> USE WorktreesAssumption
<1>1. /\ at[p] = "inside" /\ cwd[p] = p
      /\ \A q \in Planner : cwd[q] = p => q = p
  BY DEF AddWorktree, GitFails, TreesInv, TreesTyped, SharedWithin, LitterLeft, Before
<1>2. PICK to \in {"added", "over"} :
        /\ at' = [at EXCEPT ![p] = to]
        /\ UNCHANGED <<held, cwd, replaced>>
        /\ to = "added" => disk' = disk \cup {p} /\ littered' = littered
        /\ to = "over" => \/ UNCHANGED <<disk, littered>>
                          \/ disk' = disk \cup {p} /\ littered' = littered \cup {p}
  BY DEF AddWorktree, GitFails, MovesOn
<1>3. /\ at'[p] = to /\ \A q \in Planner \ {p} : at'[q] = at[q]
      /\ at' \in [Planner -> At]
  BY <1>2 DEF TreesInv, TreesTyped, At
<1>4. \A c : Users(c)' = Users(c)
  BY <1>1, <1>2, <1>3 DEF Users
<1>5. TreesTyped'
  BY <1>2, <1>3 DEF TreesInv, TreesTyped
<1>6. SharedWithin'
  BY <1>1, <1>2, <1>3 DEF TreesInv, TreesTyped, SharedWithin, Before
<1>7. SlotsCount'
  <2> SUFFICES ASSUME NEW s \in Process, NEW r \in DOMAIN held[s]
               PROVE  SlotCounts(held[s][r], s, r)'
    BY <1>2 DEF SlotsCount
  <2>1. SlotCounts(held[s][r], s, r) /\ held[s][r].cwd \in Planner
    BY DEF TreesInv, TreesTyped, Slot, SlotsCount
  <2>2. held[s][r].cwd # p
    BY <1>1, <2>1 DEF SlotCounts, Before
  <2> QED BY <1>2, <1>3, <1>4, <2>1, <2>2 DEF SlotCounts
<1>8. UsedStands'
  <2> SUFFICES ASSUME NEW c \in Planner, RunOf[c] \notin replaced PROVE Stands(c)'
    BY <1>2 DEF UsedStands
  <2>1. Stands(c)
    BY DEF TreesInv, UsedStands
  <2> QED BY <1>2, <1>3, <1>4, <2>1 DEF Stands, HasSlot, Slots, BeingRemoved
<1>9. AddedThere' /\ LitterLeft'
  BY <1>1, <1>2, <1>3 DEF TreesInv, TreesTyped, AddedThere, LitterLeft
<1>10. NoneForgotten'
  <2> SUFFICES ASSUME NEW c \in disk' \ littered' PROVE Had(c)'
    BY DEF NoneForgotten
  <2>1. CASE c = p /\ to = "added"
    BY <1>1, <1>2, <1>3, <2>1 DEF Had, BeingRemoved
  <2>2. CASE ~(c = p /\ to = "added")
    <3>1. c \in disk \ littered
      BY <1>2, <2>2
    <3> QED BY <1>1, <1>2, <1>3, <3>1 DEF TreesInv, NoneForgotten, Had, BeingRemoved
  <2> QED BY <2>1, <2>2
<1> QED BY <1>5, <1>6, <1>7, <1>8, <1>9, <1>10 DEF TreesInv

\* Who removes a worktree takes it from nobody, unless its run's was replaced; if it
\* cannot, it is littered.
LEMMA TreesRemoved ==
  ASSUME TreesInv, NEW p \in Planner, RemoveWorktree(p) \/ ClearWorktree(p) \/ PruneMirror(p)
  PROVE  TreesInv'
<1> USE WorktreesAssumption
<1>1. PICK c \in Planner : c = cwd[p]
  BY DEF TreesInv, TreesTyped
<1>2. PICK to \in {"clearing", "pruning", "over"} :
        /\ at' = [at EXCEPT ![p] = to]
        /\ UNCHANGED <<held, cwd, replaced>>
        /\ to = "clearing" => at[p] \in BeingRemoved
        /\ \/ at[p] \in BeingRemoved /\ disk' = disk \ {c} /\ littered' = littered \ {c}
           \/ at[p] = "pruning" /\ UNCHANGED <<disk, littered>>
           \/ to = "clearing" /\ UNCHANGED <<disk, littered>>
           \/ at[p] \in BeingRemoved /\ c \in disk /\ UNCHANGED disk /\ littered' = littered \cup {c}
  BY <1>1 DEF RemoveWorktree, ClearWorktree, PruneMirror, MovesOn, IsGone, BeingRemoved
<1>3. /\ at'[p] = to /\ \A q \in Planner \ {p} : at'[q] = at[q]
      /\ at' \in [Planner -> At] /\ at[p] \in BeingRemoved \cup {"pruning"}
  BY <1>2 DEF TreesInv, TreesTyped, At
<1>4. \A d : Users(d)' = Users(d)
  BY <1>2, <1>3 DEF Users, BeingRemoved
<1>5. at[c] \notin Before
  BY <1>1, <1>3 DEF TreesInv, SharedWithin, Before, BeingRemoved
<1>6. TreesTyped' /\ SharedWithin'
  BY <1>2, <1>3 DEF TreesInv, TreesTyped, SharedWithin, Before, BeingRemoved
<1>7. SlotsCount'
  <2> SUFFICES ASSUME NEW s \in Process, NEW r \in DOMAIN held[s]
               PROVE  SlotCounts(held[s][r], s, r)'
    BY <1>2 DEF SlotsCount
  <2>1. SlotCounts(held[s][r], s, r) /\ held[s][r].cwd \in Planner
    BY DEF TreesInv, TreesTyped, Slot, SlotsCount
  <2> QED BY <1>2, <1>3, <1>4, <2>1 DEF SlotCounts, Before
<1>8. UsedStands'
  <2> SUFFICES ASSUME NEW d \in Planner, RunOf[d] \notin replaced PROVE Stands(d)'
    BY <1>2 DEF UsedStands
  <2>1. Stands(d)
    BY DEF TreesInv, UsedStands
  <2>2. \A q \in Planner : at'[q] \in BeingRemoved => at[q] \in BeingRemoved
    BY <1>2, <1>3 DEF BeingRemoved
  <2>3. Users(d) # {} /\ d \in disk => d \in disk'
    BY <1>1, <1>2, <2>1 DEF Stands
  <2> QED BY <1>2, <1>4, <2>1, <2>2, <2>3 DEF Stands, HasSlot, Slots
<1>9. AddedThere' /\ LitterLeft'
  BY <1>1, <1>2, <1>3, <1>5 DEF TreesInv, TreesTyped, AddedThere, LitterLeft, Before
<1>10. NoneForgotten'
  <2> SUFFICES ASSUME NEW d \in disk' \ littered' PROVE Had(d)'
    BY DEF NoneForgotten
  <2>1. d \in disk \ littered
    BY <1>2
  <2>2. PICK q \in Planner : at[q] \in {"added", "using", "dead"} \cup BeingRemoved /\ cwd[q] = d
    BY <2>1 DEF TreesInv, NoneForgotten, Had
  <2>3. CASE q # p
    BY <1>2, <1>3, <2>2, <2>3 DEF Had
  <2>4. CASE q = p
    BY <1>1, <1>2, <1>3, <2>1, <2>2, <2>4 DEF Had, BeingRemoved
  <2> QED BY <2>3, <2>4
<1> QED BY <1>6, <1>7, <1>8, <1>9, <1>10 DEF TreesInv

\* A process that dies takes its slots and all who used them with it.
LEMMA TreesDie ==
  ASSUME TreesInv, NEW s \in Process, ProcessDies(s)
  PROVE  TreesInv'
<1> USE WorktreesAssumption
<1>1. /\ at' = [p \in Planner |-> IF ProcessOf[p] = s /\ at[p] # "over" THEN "dead" ELSE at[p]]
      /\ held' = [held EXCEPT ![s] = NoSlots]
      /\ UNCHANGED <<cwd, disk, replaced, littered>>
  BY DEF ProcessDies
<1>2. /\ at' \in [Planner -> At]
      /\ \A p \in Planner : at'[p] = at[p] \/ at'[p] = "dead"
      /\ \A p \in Planner : ProcessOf[p] # s \/ at[p] = "over" => at'[p] = at[p]
      /\ \A p \in Planner : ProcessOf[p] = s => at'[p] \in {"over", "dead"}
  BY <1>1 DEF TreesInv, TreesTyped, At
<1>3. /\ DOMAIN held' = Process /\ DOMAIN held'[s] = {}
      /\ held'[s] = [r \in DOMAIN held'[s] |-> held'[s][r]]
      /\ \A u \in Process \ {s} : held'[u] = held[u]
  BY <1>1 DEF TreesInv, TreesTyped, NoSlots
<1>4. \A c \in Planner : ProcessOf[c] # s => Users(c)' = Users(c)
  BY <1>1, <1>2 DEF Users, TreesInv, TreesTyped, SharedWithin
<1>5. \A c \in Planner : Users(c)' \subseteq Users(c)
  BY <1>1, <1>2 DEF Users
<1>6. TreesTyped'
  <2>1. ASSUME NEW u \in Process
        PROVE  /\ held'[u] = [r \in DOMAIN held'[u] |-> held'[u][r]]
               /\ \A r \in DOMAIN held'[u] : held'[u][r] \in Slot
    BY <1>3 DEF TreesInv, TreesTyped
  <2> QED BY <1>1, <1>2, <1>3, <2>1 DEF TreesInv, TreesTyped
<1>7. SharedWithin'
  BY <1>1, <1>2 DEF TreesInv, TreesTyped, SharedWithin, Before
<1>8. SlotsCount'
  <2> SUFFICES ASSUME NEW u \in Process, NEW r \in DOMAIN held'[u]
               PROVE  SlotCounts(held[u][r], u, r)'
    BY DEF SlotsCount
  <2>1. u # s /\ held'[u] = held[u]
    BY <1>3
  <2>2. SlotCounts(held[u][r], u, r) /\ held[u][r].cwd \in Planner
    BY <2>1 DEF TreesInv, TreesTyped, Slot, SlotsCount
  <2> QED BY <1>2, <1>4, <2>1, <2>2 DEF SlotCounts
<1>9. UsedStands'
  <2> SUFFICES ASSUME NEW c \in Planner, RunOf[c] \notin replaced PROVE Stands(c)'
    BY <1>1 DEF UsedStands
  <2>1. Stands(c)
    BY DEF TreesInv, UsedStands
  <2>2. CASE ProcessOf[c] = s
    <3>1. Users(c)' = {}
      BY <1>1, <1>2, <2>2 DEF Users, TreesInv, SharedWithin
    <3> QED BY <3>1 DEF Stands, BeingRemoved
  <2>3. CASE ProcessOf[c] # s
    <3>1. HasSlot(c)' <=> HasSlot(c)
      BY <1>3, <2>3 DEF HasSlot, Slots
    <3> QED BY <1>1, <1>2, <1>4, <2>1, <2>3, <3>1 DEF Stands, BeingRemoved
  <2> QED BY <2>2, <2>3
<1>10. AddedThere' /\ LitterLeft'
  BY <1>1, <1>2 DEF TreesInv, TreesTyped, AddedThere, LitterLeft
<1>11. NoneForgotten'
  BY <1>1, <1>2 DEF TreesInv, NoneForgotten, Had, BeingRemoved
<1> QED BY <1>6, <1>7, <1>8, <1>9, <1>10, <1>11 DEF TreesInv

\* A planner that takes its own worktree into use leaves at most one other without
\* a slot, unless its run's was replaced.
LEMMA TreesHeld ==
  ASSUME TreesInv, NEW p \in Planner, HoldWorktree(p)
  PROVE  TreesInv'
<1> USE WorktreesAssumption
<1>1. PICK s \in Process, r \in {RunOf[p]} : s = ProcessOf[p] /\ r = RunOf[p]
  OBVIOUS
<1>2. PICK slot \in Slot : slot = [cwd |-> p, holders |-> 1]
  <2>1. [cwd |-> p, holders |-> 1] \in Slot
    BY SMT DEF Slot
  <2> QED BY <2>1
<1>3. /\ at[p] = "added" /\ at' = [at EXCEPT ![p] = "using"]
      /\ held' = [held EXCEPT ![s] = [x \in DOMAIN held[s] \cup {r} |->
                                        IF x = r THEN slot ELSE held[s][x]]]
      /\ replaced' = IF r \in DOMAIN held[s] /\ held[s][r].holders > 1
                     THEN replaced \cup {r} ELSE replaced
      /\ UNCHANGED <<cwd, disk, littered>>
  BY <1>1, <1>2 DEF HoldWorktree, MovesOn, SetSlots, Slots
<1>4. /\ at' \in [Planner -> At] /\ at'[p] = "using"
      /\ \A q \in Planner \ {p} : at'[q] = at[q]
  BY <1>3 DEF TreesInv, TreesTyped, At
<1>5. /\ DOMAIN held' = Process
      /\ held'[s] = [x \in DOMAIN held[s] \cup {r} |-> IF x = r THEN slot ELSE held[s][x]]
      /\ \A u \in Process \ {s} : held'[u] = held[u]
  BY <1>3 DEF TreesInv, TreesTyped
<1>6. /\ DOMAIN held'[s] = DOMAIN held[s] \cup {r} /\ held'[s][r] = slot
      /\ \A x \in DOMAIN held[s] \ {r} : held'[s][x] = held[s][x]
  BY <1>5
<1>7. cwd[p] = p /\ p \in disk /\ \A q \in Planner : cwd[q] = p => q = p
  BY <1>3 DEF TreesInv, SharedWithin, AddedThere, Before
<1>8. /\ Users(p)' = {p}
      /\ \A d \in Planner \ {p} : Users(d)' = Users(d)
  BY <1>3, <1>4, <1>7 DEF Users, TreesInv, LitterLeft
<1>9. TreesTyped'
  <2>1. ASSUME NEW u \in Process
        PROVE  /\ held'[u] = [x \in DOMAIN held'[u] |-> held'[u][x]]
               /\ \A x \in DOMAIN held'[u] : held'[u][x] \in Slot
    BY <1>5, <1>6 DEF TreesInv, TreesTyped
  <2> QED BY <1>3, <1>4, <1>5, <2>1 DEF TreesInv, TreesTyped
<1>10. SharedWithin'
  BY <1>3, <1>4 DEF TreesInv, TreesTyped, SharedWithin, Before
<1>11. SlotsCount'
  <2> SUFFICES ASSUME NEW u \in Process, NEW x \in DOMAIN held'[u]
               PROVE  SlotCounts(held[u][x], u, x)'
    BY DEF SlotsCount
  <2>1. CASE u = s /\ x = r
    <3>1. IsFiniteSet(Users(p)') /\ Cardinality(Users(p)') = 1
      <4>1. IsFiniteSet({p}) /\ Cardinality({p}) = 1
        BY FS_Singleton
      <4>2. Users(p)' = {p}
        BY <1>8
      <4> QED BY <4>1, <4>2
    <3> QED BY <1>1, <1>2, <1>4, <1>6, <2>1, <3>1 DEF SlotCounts, Before
  <2>2. CASE ~(u = s /\ x = r)
    <3>1. x \in DOMAIN held[u] /\ held'[u][x] = held[u][x]
      BY <1>5, <1>6, <2>2
    <3>2. SlotCounts(held[u][x], u, x) /\ held[u][x].cwd \in Planner
      BY <3>1 DEF TreesInv, TreesTyped, SlotsCount, Slot
    <3>3. held[u][x].cwd # p
      BY <1>3, <3>2 DEF SlotCounts, Before
    <3> QED BY <1>4, <1>8, <3>1, <3>2, <3>3 DEF SlotCounts
  <2> QED BY <2>1, <2>2
<1>12. ASSUME NEW d \in Planner, RunOf[d] \notin replaced' PROVE Stands(d)'
  <2>1. RunOf[d] \notin replaced /\ Stands(d)
    BY <1>3, <1>12 DEF TreesInv, UsedStands
  <2>2. CASE d = p
    <3>1. HasSlot(p)'
      BY <1>1, <1>2, <1>6 DEF HasSlot, Slots
    <3> QED BY <1>3, <1>4, <1>7, <2>2, <3>1 DEF Stands, BeingRemoved
  <2>3. CASE d # p
    <3>1. \A q \in Planner : at'[q] \in BeingRemoved => at[q] \in BeingRemoved
      BY <1>4 DEF BeingRemoved
    <3>2. Users(d) # {} => d \in disk'
      BY <1>3, <2>1 DEF Stands, BeingRemoved
    <3>3. \A q \in Planner : at'[q] \in BeingRemoved /\ cwd[q] = d => Users(d) = {}
      BY <2>1, <3>1 DEF Stands, BeingRemoved
    <3>4. ASSUME ~HasSlot(d)', NEW x \in Users(d), NEW y \in Users(d) PROVE x = y
      <4>1. CASE ~HasSlot(d)
        BY <2>1, <3>4, <4>1 DEF Stands, BeingRemoved
      <4>2. CASE HasSlot(d)
        <5>1. ProcessOf[d] = s /\ RunOf[d] = r
          BY <1>5, <1>6, <3>4, <4>2 DEF HasSlot, Slots
        <5>2. r \in DOMAIN held[s] /\ held[s][r].cwd = d /\ held[s][r] \in Slot
          BY <4>2, <5>1 DEF HasSlot, Slots, TreesInv, TreesTyped
        <5>3. SlotCounts(held[s][r], s, r)
          BY <5>2 DEF TreesInv, SlotsCount
        <5>4. held[s][r].holders = 1
          BY <1>3, <1>12, <2>1, <5>1, <5>2 DEF Slot
        <5>5. PICK o : Users(d) = {o}
          BY <5>2, <5>3, <5>4, FS_Singleton DEF SlotCounts
        <5> QED BY <3>4, <5>5
      <4> QED BY <4>1, <4>2
    <3>5. Users(d)' = Users(d)
      BY <1>8, <2>3
    <3> QED BY <1>3, <3>2, <3>3, <3>4, <3>5 DEF Stands, BeingRemoved
  <2> QED BY <2>2, <2>3
<1>13. UsedStands' /\ AddedThere' /\ LitterLeft'
  BY <1>3, <1>4, <1>8, <1>12 DEF TreesInv, UsedStands, AddedThere, LitterLeft
<1>14. NoneForgotten'
  BY <1>3, <1>4 DEF TreesInv, NoneForgotten, Had, BeingRemoved
<1> QED BY <1>9, <1>10, <1>11, <1>13, <1>14 DEF TreesInv

\* The slots of a worktree are that of its run, if it is there.
LEMMA SharesOne ==
  ASSUME TreesInv, NEW p \in Planner, at[p] = "using"
  PROVE  /\ ProcessOf[cwd[p]] = ProcessOf[p] /\ RunOf[cwd[p]] = RunOf[p]
         /\ Sharing(p) = IF HasSlot(cwd[p]) THEN {RunOf[p]} ELSE {}
<1>1. /\ ProcessOf[cwd[p]] = ProcessOf[p] /\ RunOf[cwd[p]] = RunOf[p]
      /\ ProcessOf[p] \in Process
  BY WorktreesAssumption DEF TreesInv, SharedWithin
<1>2. \A r \in Sharing(p) : r = RunOf[p] /\ HasSlot(cwd[p])
  BY <1>1 DEF Sharing, Slots, HasSlot, TreesInv, SlotsCount, SlotCounts
<1>3. HasSlot(cwd[p]) => RunOf[p] \in Sharing(p)
  BY <1>1 DEF Sharing, Slots, HasSlot
<1> QED BY <1>1, <1>2, <1>3

\* A planner that lets go leaves the worktree to the others that are counted.
LEMMA TreesLeft ==
  ASSUME TreesInv, NEW p \in Planner, Release(p), LeavesOthers(p)
  PROVE  TreesInv'
<1> USE WorktreesAssumption
<1>1. PICK s \in Process, c \in Planner, r \in {RunOf[p]} : s = ProcessOf[p] /\ r = RunOf[p] /\ c = cwd[p]
  BY DEF TreesInv, TreesTyped
<1>2. at[p] = "using"
  BY DEF Release
<1>3. /\ ProcessOf[c] = s /\ RunOf[c] = r /\ HasSlot(c) /\ Sharing(p) = {r}
  BY <1>1, <1>2, SharesOne DEF LeavesOthers
<1>4. PICK slot \in Slot : slot = held[s][r] /\ r \in DOMAIN held[s] /\ slot.cwd = c /\ slot.holders > 1
  BY <1>1, <1>3 DEF HasSlot, Slots, LeavesOthers, TreesInv, TreesTyped
<1>5. /\ at' = [at EXCEPT ![p] = "over"]
      /\ held' = [held EXCEPT ![s] = [x \in DOMAIN held[s] |->
                                        IF x \in {r} THEN [held[s][x] EXCEPT !.holders = @ - 1] ELSE held[s][x]]]
      /\ UNCHANGED <<cwd, disk, replaced, littered>>
  BY <1>1, <1>3 DEF Release, SetSlots, Slots, MovesOn
<1>6. /\ at' \in [Planner -> At] /\ at'[p] = "over"
      /\ \A q \in Planner \ {p} : at'[q] = at[q]
  BY <1>5 DEF TreesInv, TreesTyped, At
<1>7. /\ DOMAIN held' = Process
      /\ held'[s] = [x \in DOMAIN held[s] |->
                       IF x \in {r} THEN [held[s][x] EXCEPT !.holders = @ - 1] ELSE held[s][x]]
      /\ \A u \in Process \ {s} : held'[u] = held[u]
  BY <1>5 DEF TreesInv, TreesTyped
<1>8. /\ DOMAIN held'[s] = DOMAIN held[s] /\ held'[s][r] = [slot EXCEPT !.holders = @ - 1]
      /\ \A x \in DOMAIN held[s] \ {r} : held'[s][x] = held[s][x]
  BY <1>4, <1>7
<1>9. /\ held'[s][r] \in Slot /\ held'[s][r].cwd = c /\ held'[s][r].holders = slot.holders - 1
  BY <1>4, <1>8 DEF Slot
<1>10. at[c] \notin Before /\ IsFiniteSet(Users(c)) /\ Cardinality(Users(c)) = slot.holders
  BY <1>4 DEF TreesInv, SlotsCount, SlotCounts
<1>11. /\ Users(c)' = Users(c) \ {p} /\ p \in Users(c)
       /\ \A d \in Planner \ {c} : Users(d)' = Users(d)
  BY <1>1, <1>2, <1>5, <1>6 DEF Users
<1>12. IsFiniteSet(Users(c)') /\ Cardinality(Users(c)') = slot.holders - 1
  BY <1>10, <1>11, FS_RemoveElement
<1>13. PICK o \in Planner : o # p /\ o \in Users(c)
  <2>1. Users(c)' # {}
    BY <1>4, <1>12, FS_EmptySet DEF Slot
  <2> QED BY <1>11, <2>1 DEF Users
<1>14. TreesTyped'
  <2>1. ASSUME NEW u \in Process
        PROVE  /\ held'[u] = [x \in DOMAIN held'[u] |-> held'[u][x]]
               /\ \A x \in DOMAIN held'[u] : held'[u][x] \in Slot
    BY <1>7, <1>8, <1>9 DEF TreesInv, TreesTyped
  <2> QED BY <1>5, <1>6, <1>7, <2>1 DEF TreesInv, TreesTyped
<1>15. SharedWithin'
  BY <1>5, <1>6 DEF TreesInv, TreesTyped, SharedWithin, Before
<1>16. SlotsCount'
  <2> SUFFICES ASSUME NEW u \in Process, NEW x \in DOMAIN held'[u]
               PROVE  SlotCounts(held[u][x], u, x)'
    BY DEF SlotsCount
  <2>1. CASE u = s /\ x = r
    BY <1>3, <1>6, <1>9, <1>10, <1>12, <2>1 DEF SlotCounts, Before
  <2>2. CASE ~(u = s /\ x = r)
    <3>1. x \in DOMAIN held[u] /\ held'[u][x] = held[u][x]
      BY <1>7, <1>8, <2>2
    <3>2. SlotCounts(held[u][x], u, x) /\ held[u][x].cwd \in Planner
      BY <3>1 DEF TreesInv, TreesTyped, SlotsCount, Slot
    <3>3. held[u][x].cwd # c
      BY <1>3, <2>2, <3>2 DEF SlotCounts
    <3> QED BY <1>6, <1>11, <3>1, <3>2, <3>3 DEF SlotCounts, Before
  <2> QED BY <2>1, <2>2
<1>17. ASSUME NEW d \in Planner, RunOf[d] \notin replaced PROVE Stands(d)'
  <2>1. Stands(d)
    BY <1>17 DEF TreesInv, UsedStands
  <2>2. HasSlot(d)' <=> HasSlot(d)
    <3>1. ProcessOf[d] \in Process
      OBVIOUS
    <3>2. /\ DOMAIN held'[ProcessOf[d]] = DOMAIN held[ProcessOf[d]]
          /\ RunOf[d] \in DOMAIN held[ProcessOf[d]] =>
               held'[ProcessOf[d]][RunOf[d]].cwd = held[ProcessOf[d]][RunOf[d]].cwd
      BY <1>4, <1>7, <1>8, <1>9, <3>1
    <3> QED BY <3>2 DEF HasSlot, Slots
  <2>3. Users(d)' \subseteq Users(d)
    BY <1>11
  <2> QED BY <1>5, <1>6, <2>1, <2>2, <2>3 DEF Stands, BeingRemoved
<1>18. UsedStands' /\ AddedThere'
  BY <1>5, <1>6, <1>17 DEF TreesInv, UsedStands, AddedThere
<1>19. LitterLeft'
  BY <1>5, <1>6 DEF TreesInv, TreesTyped, LitterLeft
<1>20. NoneForgotten'
  <2> SUFFICES ASSUME NEW d \in disk \ littered PROVE Had(d)'
    BY <1>5 DEF NoneForgotten
  <2>1. CASE d = c
    BY <1>5, <1>6, <1>13, <2>1 DEF Had, Users, BeingRemoved
  <2>2. CASE d # c
    BY <1>1, <1>5, <1>6, <2>2 DEF TreesInv, NoneForgotten, Had, BeingRemoved
  <2> QED BY <2>1, <2>2
<1> QED BY <1>14, <1>15, <1>16, <1>18, <1>19, <1>20 DEF TreesInv

\* A planner that lets go as the last removes what nobody uses, unless its run's
\* worktree was replaced.
LEMMA TreesLetGo ==
  ASSUME TreesInv, NEW p \in Planner, Release(p), ~LeavesOthers(p)
  PROVE  TreesInv'
<1> USE WorktreesAssumption
<1>1. PICK s \in Process, c \in Planner, r \in {RunOf[p]} : s = ProcessOf[p] /\ r = RunOf[p] /\ c = cwd[p]
  BY DEF TreesInv, TreesTyped
<1>2. at[p] = "using"
  BY DEF Release
<1>3. /\ ProcessOf[c] = s /\ RunOf[c] = r /\ Sharing(p) = IF HasSlot(c) THEN {r} ELSE {}
  BY <1>1, <1>2, SharesOne
<1>4. /\ at' = [at EXCEPT ![p] = "removing"]
      /\ held' = [held EXCEPT ![s] = [x \in DOMAIN held[s] \ Sharing(p) |-> held[s][x]]]
      /\ UNCHANGED <<cwd, disk, replaced, littered>>
  BY <1>1 DEF Release, SetSlots, Slots, MovesOn
<1>5. /\ at' \in [Planner -> At] /\ at'[p] = "removing"
      /\ \A q \in Planner \ {p} : at'[q] = at[q]
  BY <1>4 DEF TreesInv, TreesTyped, At
<1>6. /\ DOMAIN held' = Process
      /\ held'[s] = [x \in DOMAIN held[s] \ Sharing(p) |-> held[s][x]]
      /\ \A u \in Process \ {s} : held'[u] = held[u]
  BY <1>4 DEF TreesInv, TreesTyped
<1>7. /\ DOMAIN held'[s] = DOMAIN held[s] \ Sharing(p)
      /\ \A x \in DOMAIN held'[s] : held'[s][x] = held[s][x]
  BY <1>6
<1>8. /\ Users(c)' = Users(c) \ {p} /\ p \in Users(c)
      /\ \A d \in Planner \ {c} : Users(d)' = Users(d)
  BY <1>1, <1>2, <1>4, <1>5 DEF Users
<1>9. TreesTyped'
  <2>1. ASSUME NEW u \in Process
        PROVE  /\ held'[u] = [x \in DOMAIN held'[u] |-> held'[u][x]]
               /\ \A x \in DOMAIN held'[u] : held'[u][x] \in Slot
    BY <1>6, <1>7 DEF TreesInv, TreesTyped
  <2> QED BY <1>4, <1>5, <1>6, <2>1 DEF TreesInv, TreesTyped
<1>10. SharedWithin'
  BY <1>2, <1>4, <1>5 DEF TreesInv, TreesTyped, SharedWithin, Before
<1>11. SlotsCount'
  <2> SUFFICES ASSUME NEW u \in Process, NEW x \in DOMAIN held'[u]
               PROVE  SlotCounts(held[u][x], u, x)'
    BY DEF SlotsCount
  <2>1. x \in DOMAIN held[u] /\ held'[u][x] = held[u][x] /\ (u = s => x \notin Sharing(p))
    BY <1>6, <1>7
  <2>2. SlotCounts(held[u][x], u, x) /\ held[u][x].cwd \in Planner
    BY <2>1 DEF TreesInv, TreesTyped, SlotsCount, Slot
  <2>3. held[u][x].cwd # c
    BY <1>1, <1>3, <2>1, <2>2 DEF SlotCounts, Sharing, Slots
  <2> QED BY <1>5, <1>8, <2>1, <2>2, <2>3 DEF SlotCounts, Before
<1>12. ASSUME NEW d \in Planner, RunOf[d] \notin replaced PROVE Stands(d)'
  <2>1. Stands(d)
    BY <1>12 DEF TreesInv, UsedStands
  <2>2. CASE d = c
    <3>1. Users(c) = {p}
      <4>1. CASE HasSlot(c)
        <5>1. r \in DOMAIN held[s] /\ held[s][r].cwd = c /\ held[s][r] \in Slot /\ ~(held[s][r].holders > 1)
          BY <1>1, <1>3, <4>1 DEF HasSlot, Slots, LeavesOthers, TreesInv, TreesTyped
        <5>2. SlotCounts(held[s][r], s, r) /\ held[s][r].holders = 1
          BY <5>1 DEF TreesInv, SlotsCount, Slot
        <5>3. PICK o : Users(c) = {o}
          BY <5>1, <5>2, FS_Singleton DEF SlotCounts
        <5> QED BY <1>8, <5>3
      <4>2. CASE ~HasSlot(c)
        BY <1>8, <2>1, <2>2, <4>2 DEF Stands, BeingRemoved
      <4> QED BY <4>1, <4>2
    <3>2. Users(d)' = {}
      BY <1>8, <2>2, <3>1
    <3> QED BY <3>2 DEF Stands, BeingRemoved
  <2>3. CASE d # c
    <3>1. HasSlot(d) => HasSlot(d)'
      BY <1>1, <1>3, <1>6, <1>7, <2>3 DEF HasSlot, Slots, Sharing
    <3> QED BY <1>1, <1>4, <1>5, <1>8, <2>1, <2>3, <3>1 DEF Stands, BeingRemoved
  <2> QED BY <2>2, <2>3
<1>13. UsedStands' /\ AddedThere'
  BY <1>4, <1>5, <1>12 DEF TreesInv, UsedStands, AddedThere
<1>14. LitterLeft'
  BY <1>2, <1>4, <1>5 DEF TreesInv, TreesTyped, LitterLeft
<1>15. NoneForgotten'
  BY <1>4, <1>5 DEF TreesInv, NoneForgotten, Had, BeingRemoved
<1> QED BY <1>9, <1>10, <1>11, <1>13, <1>14, <1>15 DEF TreesInv

\* A step of any planner, or the end of a process, keeps the invariant.
LEMMA TreesInvStep ==
  ASSUME TreesInv, [WorktreesNext]_worktreeVars
  PROVE  TreesInv'
<1>1. ASSUME NEW p \in Planner, AskCwd(p), RunOf[p] \notin DOMAIN Slots(p) PROVE TreesInv'
  BY <1>1, TreesWait DEF AskCwd
<1>2. ASSUME NEW p \in Planner, TakeLock(p) \/ StatLock(p) \/ GiveUp(p) PROVE TreesInv'
  BY <1>2, TreesWait DEF TakeLock, StatLock, GiveUp
<1>3. ASSUME NEW p \in Planner, RemoveOldLock(p) PROVE TreesInv'
  <2>1. PICK to \in {"waiting", "over"} : MovesOn(p, to)
    BY <1>3 DEF RemoveOldLock
  <2> QED BY <1>3, <2>1, TreesWait DEF RemoveOldLock
<1>4. CASE LockAges \/ UNCHANGED worktreeVars
  <2>1. UNCHANGED <<at, held, cwd, disk, replaced, littered>>
    BY <1>4 DEF LockAges, worktreeVars
  <2> QED BY <2>1 DEF TreesInv, TreesTyped, SharedWithin, SlotsCount, SlotCounts, UsedStands, Stands,
                      HasSlot, Slots, AddedThere, LitterLeft, NoneForgotten, Had, BeingRemoved, Users
<1> QED BY <1>1, <1>2, <1>3, <1>4, TreesShared, TreesAdded, TreesRemoved, TreesDie, TreesHeld,
           TreesLeft, TreesLetGo
        DEF WorktreesNext

\* A worktree stands while it is used, and in the end what is left is what failures
\* left.
THEOREM WorktreesStand == WorktreesSpec => []WorktreeStands
<1>1. ASSUME TreesInv PROVE WorktreeStands
  <2>1. ASSUME NEW p \in Planner, at[p] = "using", RunOf[p] \notin replaced PROVE cwd[p] \in disk
    BY <1>1, <2>1 DEF TreesInv, TreesTyped, SharedWithin, UsedStands, Stands, Users
  <2>2. ASSUME \A p \in Planner : at[p] \in {"new", "over"}
        PROVE  disk = littered /\ \A s \in Process : held[s] = NoSlots
    <3>1. disk = littered
      BY <1>1, <2>2 DEF TreesInv, LitterLeft, NoneForgotten, Had, BeingRemoved
    <3>2. ASSUME NEW s \in Process, NEW r \in DOMAIN held[s] PROVE FALSE
      <4>1. SlotCounts(held[s][r], s, r) /\ held[s][r] \in Slot
        BY <1>1 DEF TreesInv, TreesTyped, SlotsCount
      <4>2. Users(held[s][r].cwd) = {}
        BY <2>2 DEF Users
      <4> QED BY <4>1, <4>2, FS_EmptySet DEF SlotCounts, Slot
    <3>3. ASSUME NEW s \in Process PROVE held[s] = NoSlots
      <4>1. DOMAIN held[s] = {} /\ held[s] = [r \in DOMAIN held[s] |-> held[s][r]]
        BY <1>1, <3>2 DEF TreesInv, TreesTyped
      <4> QED BY <4>1 DEF NoSlots
    <3> QED BY <3>1, <3>3
  <2> QED BY <2>1, <2>2 DEF WorktreeStands
<1> QED BY TreesInvInit, TreesInvStep, <1>1, PTL DEF WorktreesSpec

-----------------------------------------------------------------------------
(***************************************************************************)
(* FlowOwners.                                                             *)
(***************************************************************************)
FlowRow == [layer : OwnerLayer, role : FlowRole, agent : Agent, edit : Nat]
Edit == [phase : {"planned", "clearing", "cleared"}, no : Nat, rows : SUBSET OwnerRow,
         seen : SUBSET FlowRow, gone : SUBSET FlowRow, alone : BOOLEAN]

Typed ==
  /\ flowRows \subseteq FlowRow /\ seats \subseteq Agent /\ editCount \in Nat
  /\ DOMAIN edits \subseteq Editor /\ \A e \in DOMAIN edits : edits[e] \in Edit
  /\ DOMAIN parting \subseteq Agent
  /\ \A a \in DOMAIN parting : parting[a] \in [gone : SUBSET FlowRow, new : SUBSET FlowRow]

Checked == \A e \in DOMAIN edits : AssertOwnerInvariant(edits[e].rows)

\* What a deletion takes is there, and is its own.
Apart ==
  \A a \in DOMAIN parting :
    /\ parting[a].gone \subseteq flowRows
    /\ \A b \in DOMAIN parting \ {a} : parting[a].gone \cap parting[b].gone = {}
    /\ \A e \in DOMAIN edits : parting[a].gone \cap edits[e].gone = {}

\* What a deletion adds is a backup that it takes, as the owner of a layer whose
\* owner it takes too.
Heirs ==
  \A a \in DOMAIN parting : \A n \in parting[a].new :
    /\ n.role = "owner"
    /\ \E g \in parting[a].gone : SameRow(n, g) /\ g.role = "backup"
    /\ \E h \in parting[a].gone : h.layer = n.layer /\ h.role = "owner"

\* An edit beside which none was committed has all the rows before it.
Covers ==
  \A e \in DOMAIN edits : edits[e].alone =>
    /\ edits[e].phase = "clearing" => \A r \in flowRows : \E s \in edits[e].seen : SameRow(r, s)
    /\ edits[e].phase = "cleared" => flowRows \subseteq edits[e].gone

OwnersInv == Typed /\ Checked /\ Apart /\ Heirs /\ Covers /\ OwnersExclusive

-----------------------------------------------------------------------------
\* The invariant holds at the start.
LEMMA OwnersInvInit == OwnersInit => OwnersInv
BY FlowOwnersAssumption
   DEF OwnersInit, NoFunction, OwnersInv, Typed, Checked, Apart, Heirs, Covers, OwnersExclusive

\* An edit begins with rows that the owner invariant allows.
LEMMA EditBegins ==
  ASSUME OwnersInv, NEW e \in Editor, NEW rows \in SUBSET OwnerRow, Begin(e, rows)
  PROVE  OwnersInv'
<1> DEFINE edit == [phase |-> "planned", no |-> editCount + 1, rows |-> rows,
                    seen |-> {}, gone |-> {}, alone |-> TRUE]
<1>1. /\ edits' = With(edits, e, edit) /\ AssertOwnerInvariant(rows) /\ editCount' = editCount + 1
      /\ UNCHANGED <<seats, flowRows, parting, mingled>>
  BY DEF Begin
<1>2. /\ edit \in Edit /\ edit.rows = rows /\ edit.gone = {} /\ edit.phase = "planned"
  BY DEF Edit, OwnersInv, Typed
<1> HIDE DEF edit
<1>3. /\ DOMAIN edits' = DOMAIN edits \cup {e} /\ edits'[e] = edit
      /\ \A f \in DOMAIN edits \ {e} : edits'[f] = edits[f]
  BY <1>1 DEF With
<1>4. Typed'
  BY <1>1, <1>2, <1>3 DEF OwnersInv, Typed
<1>5. Checked'
  BY <1>1, <1>2, <1>3 DEF OwnersInv, Checked, AssertOwnerInvariant
<1>6. Apart' /\ Heirs' /\ Covers' /\ OwnersExclusive'
  BY <1>1, <1>2, <1>3 DEF OwnersInv, Apart, Heirs, Covers, OwnersExclusive, SameRow
<1> QED BY <1>4, <1>5, <1>6 DEF OwnersInv

\* It is given every row, or those of one flow.
LEMMA RowsGiven ==
  ASSUME OwnersInv, NEW e \in Editor, PutOwners(e) \/ AssignFlow(e)
  PROVE  OwnersInv'
<1>1. CASE PutOwners(e)
  BY <1>1, EditBegins, FlowOwnersAssumption DEF PutOwners
<1>2. CASE AssignFlow(e)
  <2> USE DEF AssignFlow
  <2>1. PICK owner \in seats \cup {"keep", "none"}, backup \in seats \cup {"keep", "none"} :
          LET given(role) == IF role = "owner" THEN owner ELSE backup
              kept == {r \in flowRows : r.layer = FlowLayer => given(r.role) = "keep"}
              new == {[layer |-> FlowLayer, role |-> role, agent |-> given(role)] :
                        role \in {x \in FlowRole : given(x) \in seats}}
          IN  Begin(e, {PlainRow(r) : r \in kept} \cup new)
    BY <1>2
  <2> DEFINE given(role) == IF role = "owner" THEN owner ELSE backup
             kept == {r \in flowRows : r.layer = FlowLayer => given(r.role) = "keep"}
             new == {[layer |-> FlowLayer, role |-> role, agent |-> given(role)] :
                       role \in {x \in FlowRole : given(x) \in seats}}
  <2>2. \A r \in flowRows : PlainRow(r) \in OwnerRow
    BY DEF OwnersInv, Typed, FlowRow, PlainRow, OwnerRow
  <2>3. new \subseteq OwnerRow
    BY FlowOwnersAssumption DEF OwnersInv, Typed, OwnerRow
  <2>4. {PlainRow(r) : r \in kept} \cup new \in SUBSET OwnerRow
    BY <2>2, <2>3
  <2>5. Begin(e, {PlainRow(r) : r \in kept} \cup new)
    BY <2>1
  <2> HIDE DEF kept, new
  <2> QED BY <2>4, <2>5, EditBegins
<1> QED BY <1>1, <1>2

\* Its delete sees the rows that are committed.
LEMMA Snapshots ==
  ASSUME OwnersInv, NEW e \in DOMAIN edits, Snapshot(e)
  PROVE  OwnersInv'
<1>1. /\ edits' = [edits EXCEPT ![e].phase = "clearing", ![e].seen = flowRows]
      /\ UNCHANGED <<seats, flowRows, parting, editCount, mingled>> /\ edits[e] \in Edit
  BY DEF Snapshot, OwnersInv, Typed
<1>2. /\ DOMAIN edits' = DOMAIN edits /\ \A f \in DOMAIN edits \ {e} : edits'[f] = edits[f]
      /\ edits'[e] = [edits[e] EXCEPT !.phase = "clearing", !.seen = flowRows]
  BY <1>1
<1>3. /\ edits'[e] \in Edit /\ edits'[e].phase = "clearing" /\ edits'[e].seen = flowRows
      /\ edits'[e].rows = edits[e].rows /\ edits'[e].gone = edits[e].gone
  BY <1>1, <1>2 DEF Edit, OwnersInv, Typed
<1>4. Typed'
  BY <1>1, <1>2, <1>3 DEF OwnersInv, Typed
<1>5. Checked'
  BY <1>2, <1>3 DEF OwnersInv, Checked, AssertOwnerInvariant
<1>6. Apart' /\ Heirs' /\ OwnersExclusive'
  BY <1>1, <1>2, <1>3 DEF OwnersInv, Apart, Heirs, OwnersExclusive, SameRow
<1>7. Covers'
  BY <1>1, <1>2, <1>3 DEF OwnersInv, Covers, SameRow
<1> QED BY <1>4, <1>5, <1>6, <1>7 DEF OwnersInv

\* It takes those away.
LEMMA Clears ==
  ASSUME OwnersInv, NEW e \in DOMAIN edits, Clear(e)
  PROVE  OwnersInv'
<1> DEFINE still == {r \in flowRows : \E s \in edits[e].seen : SameRow(r, s)}
<1>1. /\ edits' = [edits EXCEPT ![e].phase = "cleared", ![e].gone = still]
      /\ edits[e].phase = "clearing"
      /\ \A a \in DOMAIN parting : parting[a].gone \cap still = {}
      /\ UNCHANGED <<seats, flowRows, parting, editCount, mingled>> /\ edits[e] \in Edit
  BY FlowOwnersAssumption DEF Clear, Written, OwnersInv, Typed
<1>2. still \subseteq flowRows /\ (edits[e].alone => flowRows \subseteq still)
  BY <1>1 DEF OwnersInv, Covers
<1> HIDE DEF still
<1>3. /\ DOMAIN edits' = DOMAIN edits /\ \A f \in DOMAIN edits \ {e} : edits'[f] = edits[f]
      /\ edits'[e] = [edits[e] EXCEPT !.phase = "cleared", !.gone = still]
  BY <1>1
<1>4. /\ edits'[e] \in Edit /\ edits'[e].phase = "cleared" /\ edits'[e].gone = still
      /\ edits'[e].rows = edits[e].rows /\ edits'[e].alone = edits[e].alone
  BY <1>1, <1>2, <1>3 DEF Edit, OwnersInv, Typed
<1>5. Typed'
  BY <1>1, <1>3, <1>4 DEF OwnersInv, Typed
<1>6. Checked'
  BY <1>3, <1>4 DEF OwnersInv, Checked, AssertOwnerInvariant
<1>7. Apart' /\ Heirs' /\ OwnersExclusive'
  BY <1>1, <1>3, <1>4 DEF OwnersInv, Apart, Heirs, OwnersExclusive, SameRow
<1>8. Covers'
  BY <1>1, <1>2, <1>3, <1>4 DEF OwnersInv, Covers, SameRow
<1> QED BY <1>5, <1>6, <1>7, <1>8 DEF OwnersInv

\* It adds its own.
LEMMA Commits ==
  ASSUME OwnersInv, NEW e \in DOMAIN edits, Commit(e)
  PROVE  OwnersInv'
<1> DEFINE left == flowRows \ edits[e].gone
           Made(r) == [layer |-> r.layer, role |-> r.role, agent |-> r.agent, edit |-> edits[e].no]
<1>1. /\ edits[e] \in Edit /\ edits[e].phase = "cleared"
      /\ \A r \in edits[e].rows : r.agent \in seats
      /\ flowRows' = left \cup {Made(r) : r \in edits[e].rows}
      /\ mingled' = ~edits[e].alone
      /\ UNCHANGED <<seats, parting, editCount>>
  BY DEF Commit, OwnersInv, Typed
<1>2. /\ DOMAIN edits' = DOMAIN edits \ {e}
      /\ \A f \in DOMAIN edits \ {e} :
           edits'[f] = IF edits[f].phase = "planned" THEN edits[f] ELSE [edits[f] EXCEPT !.alone = FALSE]
  BY DEF Commit, Without
<1>3. \A f \in DOMAIN edits \ {e} :
        /\ edits'[f] \in Edit
        /\ edits'[f].rows = edits[f].rows /\ edits'[f].gone = edits[f].gone /\ edits'[f].phase = edits[f].phase
        /\ edits'[f].phase # "planned" => ~edits'[f].alone
  <2> TAKE f \in DOMAIN edits \ {e}
  <2>1. edits[f] \in Edit
    BY DEF OwnersInv, Typed
  <2>2. CASE edits[f].phase = "planned"
    BY <1>2, <2>1, <2>2
  <2>3. CASE edits[f].phase # "planned"
    <3>1. edits'[f] = [edits[f] EXCEPT !.alone = FALSE]
      BY <1>2, <2>3
    <3>2. /\ edits'[f] \in Edit /\ edits'[f].alone = FALSE
          /\ edits'[f].rows = edits[f].rows /\ edits'[f].gone = edits[f].gone /\ edits'[f].phase = edits[f].phase
      BY <2>1, <3>1 DEF Edit
    <3> QED BY <3>2
  <2> QED BY <2>2, <2>3
<1>4. \A r \in edits[e].rows :
        /\ Made(r) \in FlowRow
        /\ Made(r).layer = r.layer /\ Made(r).role = r.role /\ Made(r).agent = r.agent
  BY <1>1 DEF Edit, OwnerRow, FlowRow
<1>5. Typed'
  BY <1>1, <1>2, <1>3, <1>4 DEF OwnersInv, Typed
<1>6. Checked'
  BY <1>2, <1>3 DEF OwnersInv, Checked, AssertOwnerInvariant
<1>7. Apart'
  <2> SUFFICES ASSUME NEW a \in DOMAIN parting
               PROVE  /\ parting[a].gone \subseteq flowRows'
                      /\ \A b \in DOMAIN parting \ {a} : parting[a].gone \cap parting[b].gone = {}
                      /\ \A f \in DOMAIN edits' : parting[a].gone \cap edits'[f].gone = {}
    BY <1>1 DEF Apart
  <2> HIDE DEF Made
  <2> QED BY <1>1, <1>2, <1>3 DEF OwnersInv, Apart
<1>8. Heirs'
  BY <1>1 DEF OwnersInv, Heirs, SameRow
<1>9. Covers'
  BY <1>2, <1>3 DEF Covers
<1>10. OwnersExclusive'
  <2> SUFFICES ASSUME edits[e].alone PROVE OwnersExclusive'
    BY <1>1 DEF OwnersExclusive
  <2>1. left = {}
    BY <1>1 DEF OwnersInv, Covers
  <2>2. /\ \A r \in flowRows' : \E s \in edits[e].rows : r = Made(s)
        /\ AssertOwnerInvariant(edits[e].rows)
    BY <1>1, <2>1 DEF OwnersInv, Checked
  <2>3. \A r \in flowRows' : \E s \in edits[e].rows :
          r = Made(s) /\ r.layer = s.layer /\ r.role = s.role /\ r.agent = s.agent
    BY <1>4, <2>2
  <2>4. /\ ~(\E r, s \in edits[e].rows :
               r.role = "owner" /\ s.role = "owner" /\ r.layer = "fullstack" /\ s.layer \in {"frontend", "backend"})
        /\ \A r, s \in edits[e].rows : r.layer = s.layer /\ r.role = s.role => r = s
    BY <2>2 DEF AssertOwnerInvariant
  <2>5. \A s \in edits[e].rows : s.layer \in OwnerLayer
    BY <1>1 DEF Edit, OwnerRow
  <2> HIDE DEF Made, left
  <2>6. \A r, s \in flowRows' : r.role = "owner" /\ s.role = "owner" /\ r.layer = "fullstack" => s.layer = "fullstack"
    BY <2>3, <2>4, <2>5 DEF OwnerLayer
  <2>7. \A r, s \in flowRows' : r # s => <<r.layer, r.role>> # <<s.layer, s.role>>
    BY <2>3, <2>4
  <2>8. \A r \in flowRows' : r.agent \in seats'
    BY <1>1, <2>3
  <2> QED BY <2>6, <2>7, <2>8 DEF OwnersExclusive
<1> QED BY <1>5, <1>6, <1>7, <1>8, <1>9, <1>10 DEF OwnersInv

\* It is refused or fails, and leaves nothing.
LEMMA RollsBack ==
  ASSUME OwnersInv, NEW e \in DOMAIN edits, Rollback(e)
  PROVE  OwnersInv'
<1>1. /\ DOMAIN edits' = DOMAIN edits \ {e} /\ \A f \in DOMAIN edits \ {e} : edits'[f] = edits[f]
      /\ UNCHANGED <<seats, flowRows, parting, editCount, mingled>>
  BY DEF Rollback, Without
<1>2. Typed' /\ Heirs' /\ Covers' /\ Apart' /\ OwnersExclusive'
  BY <1>1 DEF OwnersInv, Typed, Heirs, Covers, Apart, OwnersExclusive, SameRow
<1>3. Checked'
  BY <1>1 DEF OwnersInv, Checked, AssertOwnerInvariant
<1> QED BY <1>2, <1>3 DEF OwnersInv

\* Deleting an agent, its layers go to their backups.
LEMMA Reassigns ==
  ASSUME OwnersInv, NEW a \in Agent, Reassign(a)
  PROVE  OwnersInv'
<1> DEFINE rest == {r \in Promoted(flowRows, a) : r.agent # a}
           gone == flowRows \ rest
           put == [gone |-> gone, new |-> rest \ flowRows]
<1>1. /\ a \notin DOMAIN parting /\ parting' = With(parting, a, put)
      /\ UNCHANGED <<seats, flowRows, edits, editCount, mingled>>
  BY DEF Reassign
<1>2. /\ \A b \in DOMAIN parting : parting[b].gone \cap gone = {}
      /\ \A e \in DOMAIN edits : edits[e].gone \cap gone = {}
  BY FlowOwnersAssumption DEF Reassign, Written, OwnersInv, Typed
<1>3. \A n \in rest : \E r \in flowRows :
        \/ n = r
        \/ /\ n = [r EXCEPT !.role = "owner"] /\ r.role = "backup"
           /\ \E s \in flowRows : s.layer = r.layer /\ s.role = "owner" /\ s.agent = a
  BY DEF Promoted
<1>4. \A r \in rest : r.agent # a
  OBVIOUS
<1>5. \A r \in flowRows :
        r.role = "backup" /\ (\E s \in flowRows : s.layer = r.layer /\ s.role = "owner" /\ s.agent = a) => r \in gone
  <2> SUFFICES ASSUME NEW r \in flowRows, r.role = "backup", r \in rest,
                      NEW s \in flowRows, s.layer = r.layer, s.role = "owner", s.agent = a
               PROVE  FALSE
    OBVIOUS
  <2>1. PICK q \in flowRows :
          r = IF q.role = "backup" /\ \E t \in flowRows : t.layer = q.layer /\ t.role = "owner" /\ t.agent = a
                THEN [q EXCEPT !.role = "owner"] ELSE q
    BY DEF Promoted
  <2>2. CASE r = q
    <3>1. [q EXCEPT !.role = "owner"].role = "owner"
      BY DEF OwnersInv, Typed, FlowRow
    <3> QED BY <2>1, <2>2, <3>1
  <2>3. CASE r # q
    <3>1. r = [q EXCEPT !.role = "owner"] /\ q \in FlowRow
      BY <2>1, <2>3 DEF OwnersInv, Typed
    <3>2. r.role = "owner"
      BY <3>1 DEF FlowRow
    <3> QED BY <3>2
  <2> QED BY <2>2, <2>3
<1>6. \A n \in rest \ flowRows :
        /\ n \in FlowRow /\ n.role = "owner"
        /\ \E g \in gone : SameRow(n, g) /\ g.role = "backup"
        /\ \E h \in gone : h.layer = n.layer /\ h.role = "owner"
  <2> TAKE n \in rest \ flowRows
  <2>1. PICK r \in flowRows :
          /\ n = [r EXCEPT !.role = "owner"] /\ r.role = "backup"
          /\ \E s \in flowRows : s.layer = r.layer /\ s.role = "owner" /\ s.agent = a
    BY <1>3
  <2>2. PICK s \in flowRows : s.layer = r.layer /\ s.role = "owner" /\ s.agent = a
    BY <2>1
  <2>3. r \in gone /\ s \in gone
    BY <1>4, <1>5, <2>1, <2>2
  <2>4. r \in FlowRow
    BY DEF OwnersInv, Typed
  <2>5. /\ n \in FlowRow /\ n.role = "owner" /\ n.layer = r.layer /\ n.agent = r.agent /\ n.edit = r.edit
    BY <2>1, <2>4 DEF FlowRow, FlowRole
  <2> HIDE DEF gone, rest
  <2> QED BY <2>1, <2>2, <2>3, <2>5 DEF SameRow
<1>7. put.gone = gone /\ put.new = rest \ flowRows /\ gone \subseteq flowRows
  OBVIOUS
<1>8. put \in [gone : SUBSET FlowRow, new : SUBSET FlowRow]
  BY <1>6, <1>7 DEF OwnersInv, Typed
<1> HIDE DEF rest, gone, put
<1>9. /\ DOMAIN parting' = DOMAIN parting \cup {a} /\ parting'[a] = put
      /\ \A b \in DOMAIN parting : parting'[b] = parting[b]
  BY <1>1 DEF With
<1>10. Typed'
  BY <1>1, <1>8, <1>9 DEF OwnersInv, Typed
<1>11. Apart'
  BY <1>1, <1>2, <1>7, <1>9 DEF OwnersInv, Apart
<1>12. Heirs'
  <2> SUFFICES ASSUME NEW b \in DOMAIN parting', NEW n \in parting'[b].new
               PROVE  /\ n.role = "owner"
                      /\ \E g \in parting'[b].gone : SameRow(n, g) /\ g.role = "backup"
                      /\ \E h \in parting'[b].gone : h.layer = n.layer /\ h.role = "owner"
    BY DEF Heirs, SameRow
  <2>1. CASE b = a
    BY <1>6, <1>7, <1>9, <2>1
  <2>2. CASE b # a
    BY <1>9, <2>2 DEF OwnersInv, Heirs
  <2> QED BY <2>1, <2>2
<1>13. Checked' /\ Covers' /\ OwnersExclusive'
  BY <1>1 DEF OwnersInv, Checked, AssertOwnerInvariant, Covers, OwnersExclusive, SameRow
<1> QED BY <1>10, <1>11, <1>12, <1>13 DEF OwnersInv

\* Then the agent is gone.
LEMMA Deletes ==
  ASSUME OwnersInv, NEW a \in Agent, DeleteAgent(a)
  PROVE  OwnersInv'
<1> DEFINE gone == parting[a].gone
           new == parting[a].new
<1>1. /\ a \in DOMAIN parting /\ seats' = seats \ {a}
      /\ flowRows' = {r \in (flowRows \ gone) \cup new : r.agent # a}
      /\ UNCHANGED <<edits, editCount, mingled>>
  BY DEF DeleteAgent
<1>2. /\ DOMAIN parting' = DOMAIN parting \ {a}
      /\ \A b \in DOMAIN parting \ {a} : parting'[b] = parting[b]
  BY DEF DeleteAgent, Without
<1>3. \A b \in DOMAIN parting \ {a} : \A r \in parting[b].gone : r.agent # a
  BY FlowOwnersAssumption DEF DeleteAgent, Written, OwnersInv, Typed
<1>4. gone \subseteq flowRows /\ gone \subseteq FlowRow /\ new \subseteq FlowRow
  BY <1>1 DEF OwnersInv, Typed, Apart
<1>5. \A n \in new :
        /\ n.role = "owner"
        /\ \E g \in gone : SameRow(n, g) /\ g.role = "backup"
        /\ \E h \in gone : h.layer = n.layer /\ h.role = "owner"
  BY <1>1 DEF OwnersInv, Heirs
<1>6. Typed'
  BY <1>1, <1>2, <1>4 DEF OwnersInv, Typed
<1>7. Checked'
  BY <1>1 DEF OwnersInv, Checked, AssertOwnerInvariant
<1>8. Heirs'
  BY <1>2 DEF OwnersInv, Heirs, SameRow
<1>9. Apart'
  <2> SUFFICES ASSUME NEW b \in DOMAIN parting \ {a}
               PROVE  /\ parting[b].gone \subseteq flowRows'
                      /\ \A c \in DOMAIN parting \ {a, b} : parting[b].gone \cap parting[c].gone = {}
                      /\ \A e \in DOMAIN edits : parting[b].gone \cap edits[e].gone = {}
    BY <1>1, <1>2 DEF Apart
  <2>1. parting[b].gone \subseteq flowRows /\ parting[b].gone \cap gone = {}
    BY <1>1 DEF OwnersInv, Apart
  <2> QED BY <1>1, <1>3, <2>1 DEF OwnersInv, Apart
<1>10. Covers'
  <2> SUFFICES ASSUME NEW e \in DOMAIN edits, edits[e].alone
               PROVE  /\ edits[e].phase = "clearing" => \A r \in flowRows' : \E s \in edits[e].seen : SameRow(r, s)
                      /\ edits[e].phase = "cleared" => flowRows' \subseteq edits[e].gone
    BY <1>1 DEF Covers, SameRow
  <2>1. ASSUME edits[e].phase = "clearing", NEW r \in flowRows'
        PROVE  \E s \in edits[e].seen : SameRow(r, s)
    <3>1. \A q \in flowRows : \E s \in edits[e].seen : SameRow(q, s)
      BY <2>1 DEF OwnersInv, Covers
    <3>2. \E q \in flowRows : SameRow(r, q)
      BY <1>1, <1>4, <1>5 DEF SameRow
    <3> QED BY <3>1, <3>2 DEF SameRow
  <2>2. ASSUME edits[e].phase = "cleared" PROVE flowRows' \subseteq edits[e].gone
    <3>1. flowRows \subseteq edits[e].gone /\ gone \cap edits[e].gone = {}
      BY <1>1, <2>2 DEF OwnersInv, Covers, Apart
    <3>2. gone = {} /\ new = {}
      BY <1>4, <1>5, <3>1
    <3> HIDE DEF gone, new
    <3> QED BY <1>1, <3>1, <3>2
  <2> QED BY <2>1, <2>2
<1>11. OwnersExclusive'
  <2> SUFFICES ASSUME ~mingled PROVE OwnersExclusive'
    BY <1>1 DEF OwnersExclusive
  <2>1. /\ \A r, s \in flowRows : r.role = "owner" /\ s.role = "owner" /\ r.layer = "fullstack" => s.layer = "fullstack"
        /\ \A r, s \in flowRows : r.layer = s.layer /\ r.role = s.role => r = s
        /\ \A r \in flowRows : r.agent \in seats
    BY DEF OwnersInv, OwnersExclusive
  <2> HIDE DEF gone, new
  <2>2. \A r \in flowRows' : r.role = "owner" => \E h \in flowRows : h.role = "owner" /\ h.layer = r.layer
    BY <1>1, <1>4, <1>5
  <2>3. \A r, s \in flowRows' : r.role = "owner" /\ s.role = "owner" /\ r.layer = "fullstack" => s.layer = "fullstack"
    BY <2>1, <2>2
  <2>4. ASSUME NEW r \in new, NEW s \in (flowRows \ gone) \cup new, r.layer = s.layer, r.role = s.role PROVE r = s
    <3>1. CASE s \in flowRows \ gone
      BY <1>4, <1>5, <2>1, <2>4, <3>1
    <3>2. CASE s \in new
      <4>1. PICK g \in gone : SameRow(r, g) /\ g.role = "backup"
        BY <1>5
      <4>2. PICK h \in gone : SameRow(s, h) /\ h.role = "backup"
        BY <1>5, <3>2
      <4>3. g = h
        BY <1>4, <2>1, <2>4, <4>1, <4>2 DEF SameRow
      <4>4. r.agent = s.agent /\ r.edit = s.edit
        BY <4>1, <4>2, <4>3 DEF SameRow
      <4> QED BY <1>4, <2>4, <3>2, <4>4 DEF FlowRow
    <3> QED BY <2>4, <3>1, <3>2
  <2>5. \A r, s \in flowRows' : r.layer = s.layer /\ r.role = s.role => r = s
    BY <1>1, <2>1, <2>4
  <2>6. \A r \in flowRows' : r.agent \in seats'
    <3> TAKE r \in flowRows'
    <3>1. r.agent \in seats
      BY <1>1, <1>4, <1>5, <2>1 DEF SameRow
    <3> QED BY <1>1, <3>1
  <2>7. \A r, s \in flowRows' : r # s => <<r.layer, r.role>> # <<s.layer, s.role>>
    BY <2>5
  <2> QED BY <2>3, <2>6, <2>7 DEF OwnersExclusive
<1> QED BY <1>6, <1>7, <1>8, <1>9, <1>10, <1>11 DEF OwnersInv

\* Or the deletion stops half way.
LEMMA Abandons ==
  ASSUME OwnersInv, NEW a \in Agent, AbandonDelete(a)
  PROVE  OwnersInv'
<1>1. /\ DOMAIN parting' = DOMAIN parting \ {a}
      /\ \A b \in DOMAIN parting \ {a} : parting'[b] = parting[b]
      /\ UNCHANGED <<seats, flowRows, edits, editCount, mingled>>
  BY DEF AbandonDelete, Without
<1>2. Typed' /\ Apart' /\ Heirs'
  BY <1>1 DEF OwnersInv, Typed, Apart, Heirs, SameRow
<1>3. Checked' /\ Covers' /\ OwnersExclusive'
  BY <1>1 DEF OwnersInv, Checked, AssertOwnerInvariant, Covers, OwnersExclusive, SameRow
<1> QED BY <1>2, <1>3 DEF OwnersInv

\* Each step keeps the invariant.
LEMMA OwnersInvNext == OwnersInv /\ [OwnersNext]_ownersVars => OwnersInv'
<1> SUFFICES ASSUME OwnersInv, [OwnersNext]_ownersVars PROVE OwnersInv'
  OBVIOUS
<1>1. ASSUME NEW e \in Editor, PutOwners(e) \/ AssignFlow(e) PROVE OwnersInv'
  BY <1>1, RowsGiven
<1>2. ASSUME NEW e \in DOMAIN edits, Snapshot(e) \/ Clear(e) \/ Commit(e) \/ Rollback(e) PROVE OwnersInv'
  BY <1>2, Snapshots, Clears, Commits, RollsBack
<1>3. ASSUME NEW a \in Agent, Reassign(a) \/ DeleteAgent(a) \/ AbandonDelete(a) PROVE OwnersInv'
  BY <1>3, Reassigns, Deletes, Abandons
<1>4. CASE UNCHANGED ownersVars
  <2>1. Typed' /\ Apart' /\ Heirs'
    BY <1>4 DEF ownersVars, OwnersInv, Typed, Apart, Heirs, SameRow
  <2>2. Checked' /\ Covers' /\ OwnersExclusive'
    BY <1>4 DEF ownersVars, OwnersInv, Checked, AssertOwnerInvariant, Covers, OwnersExclusive, SameRow
  <2> QED BY <2>1, <2>2 DEF OwnersInv
<1> QED BY <1>1, <1>2, <1>3, <1>4 DEF OwnersNext

\* After an edit that no other was committed beside, the owners of the flow are of
\* the fullstack or of its halves, one owner and one backup in a layer, each with a
\* seat: setOwners keeps assertOwnerInvariant and deleteAgent does not break it, for
\* every set of agents and editors and however many deletions run beside the edits.
THEOREM OwnersStayExclusive == OwnersSpec => []OwnersExclusive
<1>1. OwnersInv => OwnersExclusive
  BY DEF OwnersInv
<1> QED BY <1>1, OwnersInvInit, OwnersInvNext, PTL DEF OwnersSpec

-----------------------------------------------------------------------------
(***************************************************************************)
(* CompanyRuns.                                                            *)
(***************************************************************************)
CompanyAsk == [phase : {"none", "checked", "applied", "counted", "done", "over"}, number : Nat]
CompanyRun == [of : CompanyRequest, force : BOOLEAN, attempt : Nat, planning : SUBSET Nat,
               status : {"queued", "running", "succeeded", "failed", "blocked", "cancelled"}]
RunKey == Seq(Nat) \ {<<>>}

\* The parts of the type invariant that the rosters need.
CompanyTyped ==
  /\ company \in CompanyRequest \cup {NoCompany}
  /\ asked \in [CompanyRequest -> CompanyAsk]
  /\ DOMAIN companyRuns \subseteq RunKey /\ IsFiniteSet(DOMAIN companyRuns)
  /\ \A n \in DOMAIN companyRuns : companyRuns[n] \in CompanyRun

\* A number in a key is never above the runs there are, and so the next is free; no
\* request has counted more than there are.
RunsNumbered ==
  /\ \A m \in Nat : <<m>> \in DOMAIN companyRuns => m <= Cardinality(DOMAIN companyRuns)
  /\ \A g \in CompanyRequest : asked[g].phase = "counted" => asked[g].number <= Cardinality(DOMAIN companyRuns)

\* No run goes on that would apply another's roster.
NoneOfAnother(g) == \A n \in DOMAIN companyRuns : Unfinished(n) => companyRuns[n].of = g

\* A request under way that none has come beside is the only one, no run of another
\* goes on unless it was asked for again since, and the next of what it has counted is
\* free: a retry takes no number.
Undisturbed(g) ==
  UnderWay(g) =>
    /\ \A h \in CompanyRequest \ {g} : ~UnderWay(h)
    /\ g \notin overtaken => NoneOfAnother(g)
    /\ asked[g].phase = "counted" => \A m \in Nat : <<m>> \in DOMAIN companyRuns => m <= asked[g].number

\* Once it is answered it has its run; while it is the newest, the roster is its own,
\* and no run goes on, or is about to be queued, that would apply another's.
Answered(g) ==
  /\ asked[g].phase = "done" => <<asked[g].number>> \in DOMAIN companyRuns /\ companyRuns[<<asked[g].number>>].of = g
  /\ newest = g => \A b \in CompanyRequest \ {g} : asked[b].phase \notin {"applied", "counted"}
  /\ newest = g /\ g \notin overtaken => company = g /\ NoneOfAnother(g)

CompanyInv ==
  /\ CompanyTyped /\ RunsNumbered
  /\ \A g \in CompanyRequest \ intertwined : Undisturbed(g) /\ Answered(g)

-----------------------------------------------------------------------------
\* Nothing has been asked for at the start.
LEMMA CompanyInvInit == CompanyInit => CompanyInv
<1> SUFFICES ASSUME CompanyInit PROVE CompanyInv
  OBVIOUS
<1> USE CompanyRunsAssumption DEF CompanyInit
<1>1. DOMAIN companyRuns = {} /\ IsFiniteSet(DOMAIN companyRuns)
  BY FS_EmptySet
<1>2. CompanyTyped /\ RunsNumbered
  BY <1>1 DEF CompanyTyped, CompanyAsk, Unasked, RunsNumbered
<1>3. \A g \in CompanyRequest : Undisturbed(g) /\ Answered(g)
  BY DEF Undisturbed, Answered, UnderWay, Unasked
<1> QED BY <1>2, <1>3 DEF CompanyInv

\* What a request has asked for changes by its own steps.
LEMMA AskMoves ==
  ASSUME CompanyTyped, NEW g \in CompanyRequest, NEW to \in CompanyAsk, asked' = [asked EXCEPT ![g] = to]
  PROVE  /\ asked' \in [CompanyRequest -> CompanyAsk] /\ asked'[g] = to
         /\ \A h \in CompanyRequest \ {g} : asked'[h] = asked[h]
BY DEF CompanyTyped

\* The phases a request may be put in.
LEMMA PhaseMoves ==
  ASSUME CompanyTyped, NEW g \in CompanyRequest
  PROVE  /\ GivenUp(g) => \E to \in CompanyAsk : to.phase = "over" /\ asked' = [asked EXCEPT ![g] = to]
         /\ \A phase \in {"checked", "applied"} :
              Phase(g, phase) => \E to \in CompanyAsk : to.phase = phase /\ asked' = [asked EXCEPT ![g] = to]
<1>1. [Unasked EXCEPT !.phase = "over"] \in CompanyAsk /\ [Unasked EXCEPT !.phase = "over"].phase = "over"
  BY DEF Unasked, CompanyAsk
<1>2. ASSUME NEW phase \in {"checked", "applied"}
      PROVE  [asked[g] EXCEPT !.phase = phase] \in CompanyAsk /\ [asked[g] EXCEPT !.phase = phase].phase = phase
  BY DEF CompanyTyped, CompanyAsk
<1> QED BY <1>1, <1>2 DEF GivenUp, Phase

\* A request is made, and refused or not.
LEMMA RequestAsked ==
  ASSUME CompanyInv, NEW g \in CompanyRequest, Ask(g)
  PROVE  CompanyInv'
<1>1. PICK to \in CompanyAsk : to.phase \in {"over", "checked"} /\ asked' = [asked EXCEPT ![g] = to]
  BY PhaseMoves DEF Ask, CompanyInv
<1>2. /\ asked[g].phase = "none"
      /\ UNCHANGED <<company, companyRuns, newest, overtaken>>
      /\ intertwined \subseteq intertwined'
      /\ \A h \in CompanyRequest : UnderWay(h) => h \in intertwined' /\ g \in intertwined'
      /\ \A n \in DOMAIN companyRuns : Unfinished(n) => g \in intertwined'
  BY DEF Ask
<1>3. /\ asked' \in [CompanyRequest -> CompanyAsk] /\ asked'[g] = to
      /\ \A h \in CompanyRequest \ {g} : asked'[h] = asked[h]
  BY <1>1, AskMoves DEF CompanyInv
<1>4. CompanyTyped' /\ RunsNumbered'
  BY <1>1, <1>2, <1>3 DEF CompanyInv, CompanyTyped, RunsNumbered
<1>5. ASSUME NEW h \in CompanyRequest \ intertwined' PROVE Undisturbed(h)' /\ Answered(h)'
  <2>1. Undisturbed(h) /\ Answered(h) /\ ~UnderWay(h)
    BY <1>2, <1>5 DEF CompanyInv
  <2>2. Undisturbed(h)'
    <3>1. CASE h = g
      BY <1>1, <1>2, <1>3, <1>5, <3>1 DEF Undisturbed, UnderWay, Unfinished, NoneOfAnother
    <3>2. CASE h # g
      BY <1>3, <2>1, <3>2 DEF Undisturbed, UnderWay
    <3> QED BY <3>1, <3>2
  <2>3. Answered(h)'
    BY <1>1, <1>2, <1>3, <2>1 DEF Answered, Unfinished, NoneOfAnother
  <2> QED BY <2>2, <2>3
<1> QED BY <1>4, <1>5 DEF CompanyInv

\* Its template is put in place, or refused.
LEMMA TemplateApplied ==
  ASSUME CompanyInv, NEW g \in CompanyRequest, ApplyTemplate(g)
  PROVE  CompanyInv'
<1>1. PICK to \in CompanyAsk :
        /\ to.phase \in {"applied", "over"} /\ asked[g].phase = "checked"
        /\ asked' = [asked EXCEPT ![g] = to]
        /\ to.phase = "applied" => newest' = g /\ company' = g
        /\ to.phase = "over" => UNCHANGED <<company, newest>>
        /\ UNCHANGED <<companyRuns, intertwined, overtaken>>
  <2>1. asked[g].phase = "checked" /\ UNCHANGED <<companyRuns, intertwined, overtaken>>
    BY DEF ApplyTemplate
  <2>2. CASE CanApply(g \in Forced)
    <3>1. Phase(g, "applied") /\ newest' = g /\ company' = g
      BY <2>2 DEF ApplyTemplate, Apply
    <3>2. PICK to \in CompanyAsk : to.phase = "applied" /\ asked' = [asked EXCEPT ![g] = to]
      BY <3>1, PhaseMoves DEF CompanyInv
    <3> QED BY <2>1, <3>1, <3>2
  <2>3. CASE ~CanApply(g \in Forced)
    <3>1. GivenUp(g) /\ UNCHANGED <<company, newest>>
      BY <2>3 DEF ApplyTemplate
    <3>2. PICK to \in CompanyAsk : to.phase = "over" /\ asked' = [asked EXCEPT ![g] = to]
      BY <3>1, PhaseMoves DEF CompanyInv
    <3> QED BY <2>1, <3>1, <3>2
  <2> QED BY <2>2, <2>3
<1>2. /\ asked' \in [CompanyRequest -> CompanyAsk] /\ asked'[g] = to
      /\ \A h \in CompanyRequest \ {g} : asked'[h] = asked[h]
  BY <1>1, AskMoves DEF CompanyInv
<1>3. CompanyTyped' /\ RunsNumbered'
  BY <1>1, <1>2 DEF CompanyInv, CompanyTyped, RunsNumbered
<1>4. ASSUME NEW h \in CompanyRequest \ intertwined PROVE Undisturbed(h)' /\ Answered(h)'
  <2>1. Undisturbed(h) /\ Answered(h)
    BY <1>4 DEF CompanyInv
  <2>2. NoneOfAnother(h)' <=> NoneOfAnother(h)
    BY <1>1 DEF NoneOfAnother, Unfinished
  <2>3. Undisturbed(h)'
    BY <1>1, <1>2, <2>1, <2>2 DEF Undisturbed, UnderWay
  <2>4. CASE h = g
    BY <1>1, <1>2, <2>1, <2>2, <2>4 DEF Undisturbed, UnderWay, Answered
  <2>5. CASE h # g
    <3>1. asked'[h] = asked[h] /\ (newest' = h => newest = h /\ to.phase = "over")
      BY <1>1, <1>2, <2>5
    <3>2. newest' = h => company' = company
      BY <1>1, <3>1
    <3>3. newest' = h => \A k \in CompanyRequest \ {h} : asked'[k].phase \notin {"applied", "counted"}
      BY <1>2, <2>1, <3>1 DEF Answered
    <3> QED BY <1>1, <2>1, <2>2, <2>3, <3>1, <3>2, <3>3 DEF Answered
  <2> QED BY <2>3, <2>4, <2>5
<1> QED BY <1>1, <1>3, <1>4 DEF CompanyInv

\* The runs are counted, or the request is lost.
LEMMA RequestMoves ==
  ASSUME CompanyInv, NEW g \in CompanyRequest, CountRuns(g) \/ LoseRequest(g)
  PROVE  CompanyInv'
<1>1. PICK to \in CompanyAsk :
        /\ \/ asked[g].phase = "applied" /\ to.phase = "counted" /\ to.number = Cardinality(DOMAIN companyRuns)
           \/ UnderWay(g) /\ to.phase = "over"
        /\ asked' = [asked EXCEPT ![g] = to]
        /\ UNCHANGED <<company, companyRuns, newest, intertwined, overtaken>>
  <2>1. asked[g] \in CompanyAsk /\ Cardinality(DOMAIN companyRuns) \in Nat
    BY FS_CardinalityType DEF CompanyInv, CompanyTyped
  <2>2. CASE CountRuns(g)
    <3> DEFINE to == [asked[g] EXCEPT !.phase = "counted", !.number = Cardinality(DOMAIN companyRuns)]
    <3>1. to \in CompanyAsk /\ to.phase = "counted" /\ to.number = Cardinality(DOMAIN companyRuns)
      BY <2>1 DEF CompanyAsk
    <3>2. asked' = [asked EXCEPT ![g] = to]
      BY <2>2 DEF CountRuns, CompanyInv, CompanyTyped
    <3>3. asked[g].phase = "applied" /\ UNCHANGED <<company, companyRuns, newest, intertwined, overtaken>>
      BY <2>2 DEF CountRuns
    <3> HIDE DEF to
    <3> QED BY <3>1, <3>2, <3>3
  <2>3. CASE LoseRequest(g)
    <3>1. PICK to \in CompanyAsk : to.phase = "over" /\ asked' = [asked EXCEPT ![g] = to]
      BY <2>3, PhaseMoves DEF LoseRequest, CompanyInv
    <3>2. UnderWay(g) /\ UNCHANGED <<company, companyRuns, newest, intertwined, overtaken>>
      BY <2>3 DEF LoseRequest
    <3> QED BY <3>1, <3>2
  <2> QED BY <2>2, <2>3
<1>2. /\ asked' \in [CompanyRequest -> CompanyAsk] /\ asked'[g] = to
      /\ \A h \in CompanyRequest \ {g} : asked'[h] = asked[h]
  BY <1>1, AskMoves DEF CompanyInv
<1>3. CompanyTyped'
  BY <1>1, <1>2 DEF CompanyInv, CompanyTyped
<1>4. RunsNumbered'
  <2>1. Cardinality(DOMAIN companyRuns) \in Nat
    BY FS_CardinalityType DEF CompanyInv, CompanyTyped
  <2> QED BY <1>1, <1>2, <2>1 DEF CompanyInv, RunsNumbered
<1>5. ASSUME NEW h \in CompanyRequest \ intertwined PROVE Undisturbed(h)' /\ Answered(h)'
  <2>1. Undisturbed(h) /\ Answered(h)
    BY <1>5 DEF CompanyInv
  <2>2. NoneOfAnother(h)' <=> NoneOfAnother(h)
    BY <1>1 DEF NoneOfAnother, Unfinished
  <2>3. Undisturbed(h)'
    BY <1>1, <1>2, <2>1, <2>2 DEF Undisturbed, UnderWay, CompanyInv, RunsNumbered
  <2>4. Answered(h)'
    BY <1>1, <1>2, <2>1, <2>2 DEF Answered, UnderWay
  <2> QED BY <2>3, <2>4
<1> QED BY <1>1, <1>3, <1>4, <1>5 DEF CompanyInv

-----------------------------------------------------------------------------
\* A run is queued under a key, unless there is one of that key.
LEMMA KeyQueued ==
  ASSUME CompanyTyped, NEW key \in RunKey, NEW input, Queue(key, input),
         input.of \in CompanyRequest, input.force \in BOOLEAN
  PROVE  /\ DOMAIN companyRuns' = DOMAIN companyRuns \cup {key}
         /\ \A k \in DOMAIN companyRuns : companyRuns'[k] = companyRuns[k]
         /\ key \notin DOMAIN companyRuns => companyRuns'[key].of = input.of
         /\ DOMAIN companyRuns' \subseteq RunKey /\ IsFiniteSet(DOMAIN companyRuns')
         /\ \A k \in DOMAIN companyRuns' : companyRuns'[k] \in CompanyRun
         /\ Cardinality(DOMAIN companyRuns) \in Nat /\ Cardinality(DOMAIN companyRuns') \in Nat
         /\ Cardinality(DOMAIN companyRuns') >= Cardinality(DOMAIN companyRuns)
         /\ key \notin DOMAIN companyRuns => Cardinality(DOMAIN companyRuns') = Cardinality(DOMAIN companyRuns) + 1
<1> DEFINE run == [of |-> input.of, force |-> input.force, status |-> "queued", attempt |-> 0, planning |-> {}]
<1>1. run \in CompanyRun /\ run.of = input.of
  BY DEF CompanyRun
<1>2. companyRuns' = IF key \in DOMAIN companyRuns THEN companyRuns
                     ELSE [k \in DOMAIN companyRuns \cup {key} |-> IF k = key THEN run ELSE companyRuns[k]]
  BY DEF Queue
<1> HIDE DEF run
<1>3. DOMAIN companyRuns' = DOMAIN companyRuns \cup {key}
      /\ \A k \in DOMAIN companyRuns : companyRuns'[k] = companyRuns[k]
  <2>1. CASE key \in DOMAIN companyRuns
    BY <1>2, <2>1
  <2>2. CASE key \notin DOMAIN companyRuns
    BY <1>2, <2>2
  <2> QED BY <2>1, <2>2
<1>4. key \notin DOMAIN companyRuns => companyRuns'[key] = run
  BY <1>2
<1>5. /\ IsFiniteSet(DOMAIN companyRuns) /\ IsFiniteSet(DOMAIN companyRuns \cup {key})
      /\ Cardinality(DOMAIN companyRuns \cup {key}) =
           IF key \in DOMAIN companyRuns THEN Cardinality(DOMAIN companyRuns) ELSE Cardinality(DOMAIN companyRuns) + 1
      /\ Cardinality(DOMAIN companyRuns) \in Nat
  BY FS_AddElement, FS_CardinalityType DEF CompanyTyped
<1>6. \A k \in DOMAIN companyRuns' : companyRuns'[k] \in CompanyRun
  <2> TAKE k \in DOMAIN companyRuns'
  <2>1. CASE k \in DOMAIN companyRuns
    BY <1>3, <2>1 DEF CompanyTyped
  <2>2. CASE k \notin DOMAIN companyRuns
    BY <1>1, <1>3, <1>4, <2>2
  <2> QED BY <2>1, <2>2
<1>7. DOMAIN companyRuns' \subseteq RunKey
  BY <1>3 DEF CompanyTyped
<1> QED BY <1>1, <1>3, <1>4, <1>5, <1>6, <1>7

\* The run is queued, with the next number if no other took it.
LEMMA CompanyQueued ==
  ASSUME CompanyInv, NEW g \in CompanyRequest, EnqueueCompany(g)
  PROVE  CompanyInv'
<1>1. PICK n \in Nat : n = asked[g].number + 1
  BY DEF CompanyInv, CompanyTyped, CompanyAsk
<1>2. PICK to \in CompanyAsk :
        /\ asked[g].phase = "counted" /\ to.phase = "done" /\ to.number = n
        /\ asked' = [asked EXCEPT ![g] = to]
  <2> DEFINE to == [asked[g] EXCEPT !.phase = "done", !.number = n]
  <2>1. to \in CompanyAsk /\ to.phase = "done" /\ to.number = n
    BY <1>1 DEF CompanyInv, CompanyTyped, CompanyAsk
  <2>2. asked' = [asked EXCEPT ![g] = to] /\ asked[g].phase = "counted"
    BY <1>1 DEF EnqueueCompany, CompanyInv, CompanyTyped
  <2> HIDE DEF to
  <2> QED BY <2>1, <2>2
<1>3. /\ asked' \in [CompanyRequest -> CompanyAsk] /\ asked'[g] = to
      /\ \A h \in CompanyRequest \ {g} : asked'[h] = asked[h]
  BY <1>2, AskMoves DEF CompanyInv
<1>4. PICK k, j \in Nat :
        /\ k = Cardinality(DOMAIN companyRuns) /\ j = Cardinality(DOMAIN companyRuns')
        /\ DOMAIN companyRuns' = DOMAIN companyRuns \cup {<<n>>}
        /\ \A m \in DOMAIN companyRuns : companyRuns'[m] = companyRuns[m]
        /\ <<n>> \notin DOMAIN companyRuns => companyRuns'[<<n>>].of = g /\ j = k + 1
        /\ j >= k
        /\ CompanyTyped'
        /\ UNCHANGED <<company, newest, intertwined, overtaken>>
  <2>1. <<n>> \in RunKey /\ RunInput(g).of = g /\ RunInput(g).force \in BOOLEAN
    BY DEF RunKey, RunInput
  <2>2. Queue(<<n>>, RunInput(g)) /\ UNCHANGED <<company, newest, intertwined, overtaken>>
    BY <1>1 DEF EnqueueCompany
  <2> DEFINE input == RunInput(g)
             key == <<n>>
  <2>3. key \in RunKey /\ Queue(key, input) /\ input.of = g /\ input.of \in CompanyRequest /\ input.force \in BOOLEAN
    BY <2>1, <2>2
  <2> HIDE DEF input, key
  <2>4. /\ DOMAIN companyRuns' = DOMAIN companyRuns \cup {key}
        /\ \A m \in DOMAIN companyRuns : companyRuns'[m] = companyRuns[m]
        /\ key \notin DOMAIN companyRuns => companyRuns'[key].of = input.of
        /\ DOMAIN companyRuns' \subseteq RunKey /\ IsFiniteSet(DOMAIN companyRuns')
        /\ \A m \in DOMAIN companyRuns' : companyRuns'[m] \in CompanyRun
        /\ Cardinality(DOMAIN companyRuns) \in Nat /\ Cardinality(DOMAIN companyRuns') \in Nat
        /\ Cardinality(DOMAIN companyRuns') >= Cardinality(DOMAIN companyRuns)
        /\ key \notin DOMAIN companyRuns => Cardinality(DOMAIN companyRuns') = Cardinality(DOMAIN companyRuns) + 1
    BY <2>3, KeyQueued DEF CompanyInv
  <2>5. CompanyTyped'
    BY <1>3, <2>2, <2>4 DEF CompanyInv, CompanyTyped
  <2> QED BY <2>2, <2>3, <2>4, <2>5 DEF key
<1>5. asked[g].number \in Nat /\ asked[g].number <= k
  BY <1>2, <1>4 DEF CompanyInv, CompanyTyped, RunsNumbered, CompanyAsk
<1>6. \A m \in Nat : <<m>> \in DOMAIN companyRuns' => <<m>> \in DOMAIN companyRuns \/ m = n
  BY <1>4
<1>7. RunsNumbered'
  <2>1. n <= j
    <3>1. CASE <<n>> \in DOMAIN companyRuns
      BY <1>4, <3>1 DEF CompanyInv, RunsNumbered
    <3>2. CASE <<n>> \notin DOMAIN companyRuns
      BY <1>1, <1>4, <1>5, <3>2
    <3> QED BY <3>1, <3>2
  <2>2. \A m \in Nat : <<m>> \in DOMAIN companyRuns => m <= k
    BY <1>4 DEF CompanyInv, RunsNumbered
  <2>3. ASSUME NEW h \in CompanyRequest, asked'[h].phase = "counted" PROVE asked'[h].number <= j
    <3>1. h # g /\ asked'[h] = asked[h]
      BY <1>2, <1>3, <2>3
    <3>2. asked[h].number <= k /\ asked[h].number \in Nat
      BY <1>4, <2>3, <3>1 DEF CompanyInv, CompanyTyped, RunsNumbered, CompanyAsk
    <3> QED BY <1>4, <3>1, <3>2
  <2>4. ASSUME NEW m \in Nat, <<m>> \in DOMAIN companyRuns' PROVE m <= j
    <3>1. m <= k \/ m = n
      BY <1>6, <2>2, <2>4
    <3> QED BY <1>4, <2>1, <3>1
  <2>5. Cardinality(DOMAIN companyRuns') = j
    BY <1>4
  <2> QED BY <2>3, <2>4, <2>5 DEF RunsNumbered
<1>8. ASSUME NEW h \in CompanyRequest \ intertwined PROVE Undisturbed(h)' /\ Answered(h)'
  <2>1. Undisturbed(h) /\ Answered(h)
    BY <1>8 DEF CompanyInv
  <2>2. Undisturbed(h)'
    BY <1>2, <1>3, <2>1 DEF Undisturbed, UnderWay
  <2>3. CASE h = g
    <3>1. <<n>> \notin DOMAIN companyRuns
      <4>1. \A m \in Nat : <<m>> \in DOMAIN companyRuns => m <= asked[g].number
        BY <1>2, <2>1, <2>3 DEF Undisturbed, UnderWay
      <4> QED BY <1>1, <1>5, <4>1
    <3>2. companyRuns'[<<n>>].of = g
      BY <1>4, <3>1
    <3>3. <<asked'[h].number>> \in DOMAIN companyRuns' /\ companyRuns'[<<asked'[h].number>>].of = h
      BY <1>2, <1>3, <1>4, <2>3, <3>2
    <3>4. h \notin overtaken' => NoneOfAnother(h)'
      BY <1>2, <1>4, <2>1, <2>3, <3>2 DEF Undisturbed, UnderWay, Unfinished, NoneOfAnother
    <3>5. newest' = h /\ h \notin overtaken' => company' = h
      BY <1>4, <2>1 DEF Answered
    <3>6. newest' = h => \A i \in CompanyRequest \ {h} : asked'[i].phase \notin {"applied", "counted"}
      BY <1>3, <1>4, <2>1, <2>3 DEF Answered
    <3> QED BY <2>2, <3>3, <3>4, <3>5, <3>6 DEF Answered
  <2>4. CASE h # g
    <3>1. newest # h
      BY <1>2, <2>1, <2>4 DEF Answered
    <3>2. newest' # h /\ asked'[h] = asked[h]
      BY <1>3, <1>4, <2>4, <3>1
    <3>3. asked[h].phase = "done" => /\ <<asked[h].number>> \in DOMAIN companyRuns'
                                     /\ companyRuns'[<<asked[h].number>>].of = h
      BY <1>4, <2>1 DEF Answered
    <3> QED BY <2>2, <3>2, <3>3 DEF Answered
  <2> QED BY <2>2, <2>3, <2>4
<1> QED BY <1>4, <1>7, <1>8 DEF CompanyInv

\* A run that ended is asked for again: a request that is to have, or has, the newest
\* roster is noted unless the run is its own, and no number is taken.
LEMMA RunRetried ==
  ASSUME CompanyInv, NEW n \in DOMAIN companyRuns, RetryCompany(n)
  PROVE  CompanyInv'
<1>1. PICK run \in CompanyRun : run = companyRuns[n]
  BY DEF CompanyInv, CompanyTyped
<1>2. PICK key \in RunKey : key = Append(n, run.attempt) /\ \A m \in Nat : key # <<m>>
  <2>1. n \in Seq(Nat) /\ n # <<>> /\ run.attempt \in Nat
    BY <1>1 DEF CompanyInv, CompanyTyped, RunKey, CompanyRun
  <2>2. PICK key : key = Append(n, run.attempt)
    OBVIOUS
  <2>3. key \in Seq(Nat) /\ key # <<>> /\ Len(key) = Len(n) + 1
    BY <2>1, <2>2, AppendProperties
  <2>4. Len(n) \in Nat /\ Len(n) # 0
    BY <2>1, EmptySeq, LenProperties
  <2>5. ASSUME NEW m \in Nat PROVE key # <<m>>
    <3>1. Len(<<m>>) = 1
      OBVIOUS
    <3>2. PICK l \in Nat : l = Len(n) /\ l # 0
      BY <2>4
    <3>3. Len(key) # 1
      <4>1. Len(key) = l + 1 /\ l + 1 # 1
        BY <2>3, <3>2
      <4> QED BY <4>1
    <3> QED BY <3>1, <3>3
  <2> QED BY <2>2, <2>3, <2>5 DEF RunKey
<1>3. /\ Queue(key, run) /\ UNCHANGED <<company, asked, newest, intertwined>>
      /\ overtaken' = overtaken \cup {g \in CompanyRequest \ (intertwined \cup {run.of}) : newest = g \/ UnderWay(g)}
  BY <1>1, <1>2 DEF RetryCompany
<1>4. /\ DOMAIN companyRuns' = DOMAIN companyRuns \cup {key}
      /\ \A k \in DOMAIN companyRuns : companyRuns'[k] = companyRuns[k]
      /\ key \notin DOMAIN companyRuns => companyRuns'[key].of = run.of
      /\ DOMAIN companyRuns' \subseteq RunKey /\ IsFiniteSet(DOMAIN companyRuns')
      /\ \A k \in DOMAIN companyRuns' : companyRuns'[k] \in CompanyRun
      /\ Cardinality(DOMAIN companyRuns) \in Nat /\ Cardinality(DOMAIN companyRuns') \in Nat
      /\ Cardinality(DOMAIN companyRuns') >= Cardinality(DOMAIN companyRuns)
  <2>1. run.of \in CompanyRequest /\ run.force \in BOOLEAN
    BY DEF CompanyRun
  <2> QED BY <1>3, <2>1, KeyQueued DEF CompanyInv
<1>5. CompanyTyped'
  BY <1>3, <1>4 DEF CompanyInv, CompanyTyped
<1>6. \A m \in Nat : <<m>> \in DOMAIN companyRuns' => <<m>> \in DOMAIN companyRuns
  BY <1>2, <1>4
<1>7. RunsNumbered'
  <2>1. PICK k, j \in Nat : k = Cardinality(DOMAIN companyRuns) /\ j = Cardinality(DOMAIN companyRuns') /\ k <= j
    BY <1>4
  <2>2. \A m \in Nat : <<m>> \in DOMAIN companyRuns' => m <= k
    BY <1>6, <2>1 DEF CompanyInv, RunsNumbered
  <2>3. \A g \in CompanyRequest : asked'[g].phase = "counted" => asked'[g].number <= k /\ asked'[g].number \in Nat
    BY <1>3, <2>1 DEF CompanyInv, CompanyTyped, CompanyAsk, RunsNumbered
  <2>4. \A m \in Nat : m <= k => m <= j
    BY <2>1
  <2> QED BY <2>1, <2>2, <2>3, <2>4 DEF RunsNumbered
<1>8. ASSUME NEW g \in CompanyRequest \ intertwined PROVE Undisturbed(g)' /\ Answered(g)'
  <2>1. Undisturbed(g) /\ Answered(g)
    BY <1>8 DEF CompanyInv
  <2>2. (newest = g \/ UnderWay(g)) /\ g \notin overtaken' => run.of = g
    BY <1>3, <1>8
  <2>3. run.of = g /\ NoneOfAnother(g) => NoneOfAnother(g)'
    BY <1>4 DEF NoneOfAnother, Unfinished
  <2>4. g \notin overtaken' => g \notin overtaken
    BY <1>3
  <2>5. Undisturbed(g)'
    BY <1>3, <1>6, <2>1, <2>2, <2>3, <2>4 DEF Undisturbed, UnderWay
  <2>6. asked[g].phase = "done" => /\ <<asked[g].number>> \in DOMAIN companyRuns'
                                   /\ companyRuns'[<<asked[g].number>>].of = g
    BY <1>4, <2>1 DEF Answered
  <2>7. Answered(g)'
    BY <1>3, <2>1, <2>2, <2>3, <2>4, <2>6 DEF Answered
  <2> QED BY <2>5, <2>7
<1> QED BY <1>3, <1>5, <1>7, <1>8 DEF CompanyInv

\* A run goes on or ends; what its executor applies is the roster of the request it was
\* made for.
LEMMA CompanyRunMoves ==
  ASSUME CompanyInv, NEW n \in DOMAIN companyRuns, NEW to \in CompanyRun,
         companyRuns' = [companyRuns EXCEPT ![n] = to],
         to.of = companyRuns[n].of,
         to.status \in {"queued", "running"} \/ to.planning # {} => Unfinished(n),
         company' = company \/ (Unfinished(n) /\ company' = to.of),
         UNCHANGED <<asked, newest, intertwined, overtaken>>
  PROVE  CompanyInv'
<1>1. /\ DOMAIN companyRuns' = DOMAIN companyRuns /\ companyRuns'[n] = to
      /\ \A m \in DOMAIN companyRuns \ {n} : companyRuns'[m] = companyRuns[m]
  OBVIOUS
<1>2. to.of \in CompanyRequest
  BY DEF CompanyRun
<1>3. CompanyTyped' /\ RunsNumbered'
  BY <1>1, <1>2 DEF CompanyInv, CompanyTyped, RunsNumbered
<1>4. ASSUME NEW g \in CompanyRequest \ intertwined PROVE Undisturbed(g)' /\ Answered(g)'
  <2>1. Undisturbed(g) /\ Answered(g)
    BY <1>4 DEF CompanyInv
  <2>2. \A m \in DOMAIN companyRuns : companyRuns'[m].of = companyRuns[m].of
    BY <1>1
  <2>3. \A m \in DOMAIN companyRuns : Unfinished(m)' => Unfinished(m)
    BY <1>1 DEF Unfinished
  <2>4. NoneOfAnother(g) => NoneOfAnother(g)'
    BY <1>1, <2>2, <2>3 DEF NoneOfAnother
  <2>5. Undisturbed(g)'
    BY <1>1, <2>1, <2>4 DEF Undisturbed, UnderWay
  <2>6. newest = g /\ g \notin overtaken => company' = g
    BY <2>1 DEF Answered, NoneOfAnother
  <2> QED BY <1>1, <2>1, <2>2, <2>4, <2>5, <2>6 DEF Answered
<1> QED BY <1>3, <1>4 DEF CompanyInv

\* What a step makes of a run.
LEMMA RunBecomes ==
  ASSUME NEW run \in CompanyRun, NEW e
  PROVE  /\ TryAgain(run) \in CompanyRun /\ TryAgain(run).of = run.of /\ TryAgain(run).planning = run.planning
         /\ BlockedRun(run) \in CompanyRun /\ BlockedRun(run).of = run.of /\ BlockedRun(run).planning = run.planning
         /\ LeaveRun(run, e) \in CompanyRun /\ LeaveRun(run, e).of = run.of
         /\ LeaveRun(run, e).planning \subseteq run.planning /\ LeaveRun(run, e).status = run.status
<1>1. run.attempt + 1 \in Nat
  BY DEF CompanyRun
<1>2. TryAgain(run) \in CompanyRun /\ TryAgain(run).of = run.of /\ TryAgain(run).planning = run.planning
  <2>1. PICK status \in {"queued", "failed"} : TryAgain(run) = [run EXCEPT !.attempt = run.attempt + 1, !.status = status]
    BY DEF TryAgain
  <2> QED BY <1>1, <2>1 DEF CompanyRun
<1>3. BlockedRun(run) \in CompanyRun /\ BlockedRun(run).of = run.of /\ BlockedRun(run).planning = run.planning
  BY DEF BlockedRun, CompanyRun
<1>4. /\ LeaveRun(run, e) \in CompanyRun /\ LeaveRun(run, e).of = run.of
      /\ LeaveRun(run, e).planning \subseteq run.planning /\ LeaveRun(run, e).status = run.status
  BY DEF LeaveRun, CompanyRun
<1> QED BY <1>2, <1>3, <1>4

\* An executor that has something to do has its run go on; what it writes at its end
\* is another attempt or a block, if it holds the run.
LEMMA ExecutorMoves ==
  ASSUME CompanyInv, NEW n \in DOMAIN companyRuns, NEW e, ApplyPlanned(n, e) \/ CompanyRunBreaks(n, e)
  PROVE  CompanyInv'
<1>1. PICK run \in CompanyRun : run = companyRuns[n]
  BY DEF CompanyInv, CompanyTyped
<1>2. Unfinished(n) /\ UNCHANGED <<asked, newest, intertwined, overtaken>>
  BY DEF ApplyPlanned, CompanyRunBreaks, HoldsRun, Unfinished
<1>3. PICK mid \in {run, TryAgain(run), BlockedRun(run)} :
        /\ companyRuns' = [companyRuns EXCEPT ![n] = LeaveRun(mid, e)]
        /\ company' = company \/ company' = run.of
  <2>1. CASE ApplyPlanned(n, e)
    BY <1>1, <2>1 DEF ApplyPlanned, EndWritten, RunIs, Apply
  <2>2. CASE CompanyRunBreaks(n, e)
    BY <1>1, <2>2 DEF CompanyRunBreaks, EndWritten, RunIs
  <2> QED BY <2>1, <2>2
<1>4. mid \in CompanyRun /\ mid.of = run.of
  BY <1>3, RunBecomes
<1>5. PICK to \in CompanyRun : to = LeaveRun(mid, e) /\ to.of = run.of
  BY <1>4, RunBecomes
<1> QED BY <1>1, <1>2, <1>3, <1>5, CompanyRunMoves

\* A step of a request, of a run or of the project's users keeps the invariant.
LEMMA CompanyInvStep ==
  ASSUME CompanyInv, [CompanyNext]_companyVars
  PROVE  CompanyInv'
<1>1. ASSUME NEW n \in DOMAIN companyRuns, ClaimCompany(n) \/ FinishCompany(n) \/ CancelCompany(n) \/ ReapCompany(n)
      PROVE  CompanyInv'
  <2>1. PICK run \in CompanyRun : run = companyRuns[n]
    BY DEF CompanyInv, CompanyTyped
  <2>2. UNCHANGED <<company, asked, newest, intertwined, overtaken>>
    BY <1>1 DEF ClaimCompany, FinishCompany, CancelCompany, ReapCompany
  <2>3. PICK to \in CompanyRun :
          /\ companyRuns' = [companyRuns EXCEPT ![n] = to] /\ to.of = run.of
          /\ to.status \in {"queued", "running"} \/ to.planning # {} => Unfinished(n)
    <3>1. CASE ClaimCompany(n)
      <4> DEFINE to == [run EXCEPT !.status = "running", !.planning = @ \cup {run.attempt}]
      <4>1. to \in CompanyRun /\ to.of = run.of
        BY DEF CompanyRun
      <4>2. companyRuns' = [companyRuns EXCEPT ![n] = to] /\ Unfinished(n)
        BY <2>1, <3>1 DEF ClaimCompany, Unfinished
      <4> HIDE DEF to
      <4> QED BY <4>1, <4>2
    <3>2. CASE FinishCompany(n) \/ CancelCompany(n)
      <4>1. PICK status \in {"succeeded", "cancelled"} : companyRuns' = [companyRuns EXCEPT ![n].status = status]
        BY <3>2 DEF FinishCompany, CancelCompany
      <4> DEFINE to == [run EXCEPT !.status = status]
      <4>2. to \in CompanyRun /\ to.of = run.of /\ to.status \notin {"queued", "running"} /\ to.planning = run.planning
        BY DEF CompanyRun
      <4>3. companyRuns' = [companyRuns EXCEPT ![n] = to]
        BY <2>1, <4>1
      <4> HIDE DEF to
      <4> QED BY <2>1, <4>2, <4>3 DEF Unfinished
    <3>3. CASE ReapCompany(n)
      <4>1. companyRuns' = [companyRuns EXCEPT ![n] = TryAgain(run)] /\ Unfinished(n)
        BY <2>1, <3>3 DEF ReapCompany, RunIs, Unfinished
      <4> QED BY <4>1, RunBecomes
    <3> QED BY <1>1, <3>1, <3>2, <3>3
  <2> QED BY <2>1, <2>2, <2>3, CompanyRunMoves
<1>2. CASE UseCompany \/ PinAgent \/ UNCHANGED companyVars
  <2>1. UNCHANGED <<company, asked, companyRuns, newest, intertwined, overtaken>>
    BY <1>2 DEF UseCompany, PinAgent, companyVars
  <2> QED BY <2>1 DEF CompanyInv, CompanyTyped, RunsNumbered, Undisturbed, Answered, NoneOfAnother, UnderWay, Unfinished
<1> QED BY <1>1, <1>2, RequestAsked, TemplateApplied, RequestMoves, CompanyQueued, RunRetried, ExecutorMoves
        DEF CompanyNext

\* A request made apart from others has a run of its own, and while it is the newest
\* the company is the one it asked for, unless an older one's run was asked for again:
\* for every number of requests, attempts and retries.
THEOREM CompanyAsAsked == CompanySpec => []RosterAsAsked
<1>1. CompanyInv => RosterAsAsked
  BY DEF CompanyInv, Answered, RosterAsAsked
<1> QED BY CompanyInvInit, CompanyInvStep, <1>1, PTL DEF CompanySpec

-----------------------------------------------------------------------------
(***************************************************************************)
(* CompanyPlan: the mix of roles, and its largest remainders.              *)
(***************************************************************************)
Mix == ToSet(MixKeys)

\* The mix has nine roles, each once.
LEMMA MixKeysFacts ==
  /\ DOMAIN MixKeys = 1 .. 9 /\ Len(MixKeys) = 9 /\ MixKeys \in Seq(Mix) /\ IsFiniteSet(Mix)
  /\ Mix = {MixKeys[n] : n \in 1 .. 9}
  /\ \A i, j \in 1 .. 9 : MixKeys[i] = MixKeys[j] => i = j
<1>1. DOMAIN MixKeys = 1 .. 9 /\ Len(MixKeys) = 9
  BY DEF MixKeys
<1>2. Mix = {MixKeys[n] : n \in 1 .. 9}
  BY <1>1 DEF Mix, ToSet
<1>3. MixKeys \in Seq(Mix)
  <2>1. MixKeys = [n \in 1 .. 9 |-> MixKeys[n]]
    BY DEF MixKeys
  <2> QED BY <1>2, <2>1
<1>4. \A i, j \in 1 .. 9 : MixKeys[i] = MixKeys[j] => i = j
  BY DEF MixKeys
<1>5. IsFiniteSet(Mix)
  <2>1. MixKeys \in Surjection(1 .. 9, Mix)
    <3>1. MixKeys \in [1 .. 9 -> Mix]
      BY <1>1, <1>3
    <3> QED BY <1>2, <3>1 DEF Surjection
  <2>2. IsFiniteSet(1 .. 9)
    <3>1. PICK n \in Nat : n = 9
      OBVIOUS
    <3>2. IsFiniteSet(1 .. n)
      BY FS_Interval
    <3> QED BY <3>1, <3>2
  <2> QED BY <2>1, <2>2, FS_Surjection
<1> QED BY <1>1, <1>2, <1>3, <1>4, <1>5

\* A quotient and its rest.
LEMMA DivMod ==
  ASSUME NEW a \in Nat, NEW t \in Nat, t > 0
  PROVE  \E q \in Nat : \E r \in 0 .. t - 1 : q = a \div t /\ r = a % t /\ a = t * q + r
<1>1. a \div t \in Int /\ a % t \in 0 .. t - 1
  OBVIOUS
<1>2. PICK q, r \in Int : q = a \div t /\ r = a % t
  BY <1>1
<1>3. a = t * q + r
  BY <1>2
<1>4. q >= 0
  <2> SUFFICES ASSUME q < 0 PROVE FALSE
    OBVIOUS
  <2>1. PICK p \in Nat : p = 0 - (q + 1)
    OBVIOUS
  <2>2. t * p \in Nat /\ t * q = 0 - (t * p) - t
    BY <2>1
  <2> QED BY <1>1, <1>2, <1>3, <2>2
<1>5. q \in Nat /\ r \in 0 .. t - 1
  BY <1>1, <1>2, <1>4
<1> QED BY <1>2, <1>3, <1>5

-----------------------------------------------------------------------------
(***************************************************************************)
(* The largest remainders.                                                 *)
(***************************************************************************)
FloorOf(mix, slots) == [k \in Mix |-> Floors(mix, slots, k)]
RestOf(mix, slots) == [k \in Mix |-> Rest(mix, slots, k)]
Short(mix, slots) == slots - SumFunctionOnSet(FloorOf(mix, slots), Mix)
PlaceOf(k) == Min({n \in DOMAIN MixKeys : MixKeys[n] = k})
RanksBefore(mix, slots) ==
  {p \in Mix \X Mix :
     \/ Rest(mix, slots, p[1]) > Rest(mix, slots, p[2])
     \/ Rest(mix, slots, p[1]) = Rest(mix, slots, p[2]) /\ PlaceOf(p[1]) < PlaceOf(p[2])}
AheadOf(mix, slots, k) == {j \in Mix : <<j, k>> \in RanksBefore(mix, slots)}

\* The rounded shares, with what they are made of named.
LEMMA RoundedDef ==
  ASSUME NEW mix \in [Mix -> Nat], NEW slots
  PROVE  Rounded(mix, slots) =
           [k \in Mix |-> FloorOf(mix, slots)[k]
                         + IF Cardinality(AheadOf(mix, slots, k)) < Short(mix, slots) THEN 1 ELSE 0]
<1>1. DOMAIN mix = Mix
  OBVIOUS
<1>2. ASSUME NEW k \in Mix
      PROVE  AheadOf(mix, slots, k) =
               {j \in Mix : \/ Rest(mix, slots, j) > Rest(mix, slots, k)
                           \/ /\ Rest(mix, slots, j) = Rest(mix, slots, k)
                              /\ Min({n \in DOMAIN MixKeys : MixKeys[n] = j})
                                   < Min({n \in DOMAIN MixKeys : MixKeys[n] = k})}
  BY DEF AheadOf, RanksBefore, PlaceOf
<1>3. \A k \in Mix : FloorOf(mix, slots)[k] = Floors(mix, slots, k)
  BY DEF FloorOf
<1>4. Short(mix, slots) = slots - SumFunctionOnSet([k \in DOMAIN mix |-> Floors(mix, slots, k)], DOMAIN mix)
  BY <1>1 DEF Short, FloorOf
<1> QED BY <1>1, <1>2, <1>3, <1>4 DEF Rounded

\* Each role has a place of its own.
LEMMA PlacesDiffer ==
  /\ \A k \in Mix : PlaceOf(k) \in 1 .. 9 /\ MixKeys[PlaceOf(k)] = k
  /\ \A j, k \in Mix : PlaceOf(j) = PlaceOf(k) => j = k
<1>1. ASSUME NEW k \in Mix PROVE PlaceOf(k) \in 1 .. 9 /\ MixKeys[PlaceOf(k)] = k
  <2> DEFINE S == {n \in DOMAIN MixKeys : MixKeys[n] = k}
  <2>1. S \in SUBSET Nat /\ S # {} /\ \A n \in S : n \in 1 .. 9 /\ MixKeys[n] = k
    BY MixKeysFacts
  <2>2. Min(S) \in S
    <3> HIDE DEF S
    <3> QED BY <2>1, MinOfSome
  <2> QED BY <2>1, <2>2 DEF PlaceOf
<1> QED BY <1>1

\* What is before what is a strict order.
LEMMA BeforeIsOrder ==
  ASSUME NEW mix \in [Mix -> Nat], NEW slots, \A k \in Mix : Rest(mix, slots, k) \in Nat
  PROVE  LET R == RanksBefore(mix, slots)
         IN  /\ \A i \in Mix : <<i, i>> \notin R
             /\ \A i, j \in Mix : i # j => <<i, j>> \in R \/ <<j, i>> \in R
             /\ \A i, j, k \in Mix : <<i, j>> \in R /\ <<j, k>> \in R => <<i, k>> \in R
<1> DEFINE R == RanksBefore(mix, slots)
<1>1. PICK rest \in [Mix -> Nat] : \A k \in Mix : rest[k] = Rest(mix, slots, k)
  <2>1. [k \in Mix |-> Rest(mix, slots, k)] \in [Mix -> Nat]
    OBVIOUS
  <2> QED BY <2>1
<1>2. PICK place \in [Mix -> 1 .. 9] : \A k \in Mix : place[k] = PlaceOf(k)
  <2>1. [k \in Mix |-> PlaceOf(k)] \in [Mix -> 1 .. 9]
    BY PlacesDiffer
  <2> QED BY <2>1
<1>3. \A i, j \in Mix : <<i, j>> \in R <=> rest[i] > rest[j] \/ (rest[i] = rest[j] /\ place[i] < place[j])
  BY <1>1, <1>2 DEF RanksBefore
<1>4. \A i, j \in Mix : place[i] = place[j] => i = j
  BY <1>2, PlacesDiffer
<1>5. \A k \in Mix : rest[k] \in Nat /\ place[k] \in Nat
  OBVIOUS
<1> HIDE DEF R
<1>6. \A i \in Mix : <<i, i>> \notin R
  BY <1>3, <1>5
<1>7. \A i, j \in Mix : i # j => <<i, j>> \in R \/ <<j, i>> \in R
  BY <1>3, <1>4, <1>5
<1>8. \A i, j, k \in Mix : <<i, j>> \in R /\ <<j, k>> \in R => <<i, k>> \in R
  BY <1>3, <1>5
<1> QED BY <1>6, <1>7, <1>8 DEF R

\* The shares sum to the seats, and none is a whole seat off.
LEMMA RoundedShares ==
  ASSUME NEW mix \in [Mix -> Nat], NEW slots \in Nat, Total(mix) > 0
  PROVE  LET take == Rounded(mix, slots)
             t == Total(mix)
         IN  /\ t \in Nat /\ take \in [Mix -> Nat] /\ SumFunctionOnSet(take, Mix) = slots
             /\ \A k \in Mix : take[k] * t < mix[k] * slots + t /\ take[k] * t + t > mix[k] * slots
<1>1. PICK t : t = Total(mix)
  OBVIOUS
<1>2. t = SumFunctionOnSet(mix, Mix) /\ IsFiniteSet(Mix) /\ NatOn(mix, Mix)
  BY <1>1, MixKeysFacts DEF Total, NatOn
<1>3. t \in Nat /\ t > 0
  BY <1>1, <1>2, SumOf
<1>4. PICK fl, rest \in [Mix -> Nat] :
        /\ fl = FloorOf(mix, slots)
        /\ \A k \in Mix : rest[k] = Rest(mix, slots, k) /\ rest[k] <= t - 1 /\ mix[k] * slots = t * fl[k] + rest[k]
  <2>1. ASSUME NEW k \in Mix
        PROVE  /\ Floors(mix, slots, k) \in Nat /\ Rest(mix, slots, k) \in Nat /\ Rest(mix, slots, k) <= t - 1
               /\ mix[k] * slots = t * Floors(mix, slots, k) + Rest(mix, slots, k)
    <3>1. PICK a \in Nat : a = mix[k] * slots
      OBVIOUS
    <3>2. Floors(mix, slots, k) = a \div t /\ Rest(mix, slots, k) = a % t
      BY <1>1, <3>1 DEF Floors, Rest
    <3>3. \E q \in Nat : \E r \in 0 .. t - 1 : q = a \div t /\ r = a % t /\ a = t * q + r
      BY <1>3, DivMod
    <3>4. PICK q \in Nat, r \in 0 .. t - 1 : q = a \div t /\ r = a % t /\ a = t * q + r
      BY <3>3
    <3>5. q \in Nat /\ r \in Nat /\ r <= t - 1 /\ a = t * q + r
      BY <1>3, <3>4
    <3> QED BY <3>1, <3>2, <3>4, <3>5
  <2>2. RestOf(mix, slots) \in [Mix -> Nat] /\ FloorOf(mix, slots) \in [Mix -> Nat]
    BY <2>1 DEF RestOf, FloorOf
  <2>3. \A k \in Mix : RestOf(mix, slots)[k] = Rest(mix, slots, k) /\ FloorOf(mix, slots)[k] = Floors(mix, slots, k)
    BY DEF RestOf, FloorOf
  <2> QED BY <2>1, <2>2, <2>3
<1> DEFINE fls == SumFunctionOnSet(fl, Mix)
           rests == SumFunctionOnSet(rest, Mix)
           P == {k \in Mix : rest[k] > 0}
<1>5. fls \in Nat /\ rests \in Nat /\ NatOn(fl, Mix) /\ NatOn(rest, Mix)
  <2>1. NatOn(fl, Mix) /\ NatOn(rest, Mix)
    BY <1>4 DEF NatOn
  <2> QED BY <1>2, <2>1, SumOf
<1>6. slots * t = t * fls + rests
  <2>1. \A k \in Mix : slots * mix[k] = t * fl[k] + rest[k]
    <3>1. \A k \in Mix : slots * mix[k] = mix[k] * slots
      OBVIOUS
    <3> QED BY <1>4, <3>1
  <2> QED BY <1>2, <1>3, <1>5, <2>1, SumLinear
<1>7. IsFiniteSet(P) /\ Cardinality(P) \in Nat /\ Cardinality(P) <= Cardinality(Mix)
  BY <1>2, FS_Subset, FS_CardinalityType
<1>8. rests <= (t - 1) * Cardinality(P)
  <2>1. rests = SumFunctionOnSet(rest, P)
    <3>1. P \cup (Mix \ P) = Mix /\ P \cap (Mix \ P) = {}
      OBVIOUS
    <3>2. IsFiniteSet(Mix \ P) /\ NatOn(rest, P) /\ NatOn(rest, Mix \ P)
      BY <1>2, <1>5, FS_Subset DEF NatOn
    <3>3. rests = SumFunctionOnSet(rest, P) + SumFunctionOnSet(rest, Mix \ P)
      <4> HIDE DEF P
      <4> QED BY <1>5, <1>7, <3>1, <3>2, SumUnion
    <3>4. \A k \in Mix \ P : rest[k] = 0
      <4>1. \A k \in Mix : rest[k] \in Nat
        OBVIOUS
      <4> QED BY <4>1
    <3>5. SumFunctionOnSet(rest, Mix \ P) = 0
      BY <3>2, <3>4, SumNone
    <3>6. SumFunctionOnSet(rest, P) \in Nat
      BY <1>7, <3>2, SumOf
    <3> HIDE DEF P, rests
    <3> QED BY <3>3, <3>5, <3>6
  <2>2. t - 1 \in Nat /\ NatOn(rest, P) /\ \A k \in P : rest[k] <= t - 1
    BY <1>3, <1>4 DEF NatOn
  <2> HIDE DEF P, rests
  <2> QED BY <1>7, <2>1, <2>2, SumAtMost
<1> DEFINE short == Short(mix, slots)
<1>9. short = slots - fls
  BY <1>4 DEF Short
<1>10. short \in Nat /\ short <= Cardinality(P)
  <2> HIDE DEF fls, rests, short, P
  <2>1. PICK f, r, c \in Nat : f = fls /\ r = rests /\ c = Cardinality(P)
    BY <1>5, <1>7
  <2>2. slots * t = t * f + r /\ r <= (t - 1) * c
    BY <1>6, <1>8, <2>1
  <2>3. PICK s \in Int : s = slots - f
    OBVIOUS
  <2>4. t * s = r
    <3>1. t * s = t * slots - t * f
      BY <1>3, <2>3
    <3>2. slots * t = t * slots /\ t * slots \in Nat /\ t * f \in Nat
      BY <1>3
    <3> QED BY <2>2, <3>1, <3>2
  <2>5. s >= 0
    <3> SUFFICES ASSUME s < 0 PROVE FALSE
      OBVIOUS
    <3>1. PICK p \in Nat : p = 0 - (s + 1)
      OBVIOUS
    <3>2. t * p \in Nat /\ t * s = 0 - (t * p) - t
      BY <1>3, <3>1
    <3> QED BY <1>3, <2>4, <3>2
  <2>6. s <= c
    <3> SUFFICES ASSUME s > c PROVE FALSE
      OBVIOUS
    <3>1. PICK p \in Nat : p = s - (c + 1)
      OBVIOUS
    <3>2. t * p \in Nat /\ t * s = t * p + t * c + t /\ (t - 1) * c = t * c - c /\ t * c \in Nat
      BY <1>3, <3>1
    <3> QED BY <1>3, <2>2, <2>4, <3>2
  <2> QED BY <1>9, <2>1, <2>3, <2>5, <2>6
<1>11. LET R == RanksBefore(mix, slots)
       IN  /\ \A i \in Mix : <<i, i>> \notin R
           /\ \A i, j \in Mix : i # j => <<i, j>> \in R \/ <<j, i>> \in R
           /\ \A i, j, k \in Mix : <<i, j>> \in R /\ <<j, k>> \in R => <<i, k>> \in R
  <2>1. \A k \in Mix : Rest(mix, slots, k) \in Nat
    BY <1>4
  <2> QED BY <2>1, BeforeIsOrder
<1> DEFINE lucky == {k \in Mix : Cardinality(AheadOf(mix, slots, k)) < short}
<1>12. Cardinality(lucky) = short
  <2>1. short <= Cardinality(Mix)
    <3>1. Cardinality(Mix) \in Nat
      BY <1>2, FS_CardinalityType
    <3> HIDE DEF short, P
    <3> QED BY <1>7, <1>10, <3>1
  <2>2. PICK R : R = RanksBefore(mix, slots)
    OBVIOUS
  <2>3. lucky = {k \in Mix : Cardinality({j \in Mix : <<j, k>> \in R}) < short}
    BY <2>2 DEF AheadOf
  <2> HIDE DEF lucky, short, P
  <2>4. /\ \A i \in Mix : <<i, i>> \notin R
        /\ \A i, j \in Mix : i # j => <<i, j>> \in R \/ <<j, i>> \in R
        /\ \A i, j, k \in Mix : <<i, j>> \in R /\ <<j, k>> \in R => <<i, k>> \in R
    BY <1>11, <2>2
  <2> QED BY <1>2, <1>10, <2>1, <2>3, <2>4, FirstOfOrder
<1>13. ASSUME NEW k \in Mix, rest[k] = 0 PROVE k \notin lucky
  <2>1. P \in SUBSET AheadOf(mix, slots, k)
    <3>1. \A j \in P : <<j, k>> \in RanksBefore(mix, slots)
      <4>1. \A j \in P : Rest(mix, slots, j) > Rest(mix, slots, k)
        BY <1>4, <1>13
      <4> QED BY <4>1 DEF RanksBefore
    <3> QED BY <3>1 DEF AheadOf
  <2>2. IsFiniteSet(AheadOf(mix, slots, k))
    BY <1>2, FS_Subset DEF AheadOf
  <2>3. Cardinality(P) <= Cardinality(AheadOf(mix, slots, k)) /\ Cardinality(AheadOf(mix, slots, k)) \in Nat
    <3> HIDE DEF P
    <3> QED BY <2>1, <2>2, FS_Subset, FS_CardinalityType
  <2> HIDE DEF P, short
  <2>4. ~ (Cardinality(AheadOf(mix, slots, k)) < short)
    BY <1>7, <1>10, <2>3
  <2> QED BY <2>4
<1>14. PICK more \in [Mix -> Nat] : \A k \in Mix : more[k] = IF k \in lucky THEN 1 ELSE 0
  <2>1. [k \in Mix |-> IF k \in lucky THEN 1 ELSE 0] \in [Mix -> Nat]
    OBVIOUS
  <2> HIDE DEF lucky
  <2> QED BY <2>1
<1>15. PICK take : take = Rounded(mix, slots)
  OBVIOUS
<1>16. take \in [Mix -> Nat] /\ \A k \in Mix : take[k] = fl[k] + more[k]
  <2>1. \A k \in Mix : more[k] = IF Cardinality(AheadOf(mix, slots, k)) < short THEN 1 ELSE 0
    BY <1>14
  <2>2. take = [k \in Mix |-> fl[k] + IF Cardinality(AheadOf(mix, slots, k)) < short THEN 1 ELSE 0]
    BY <1>4, <1>15, RoundedDef
  <2> HIDE DEF short, lucky, P
  <2>3. \A k \in Mix : fl[k] \in Nat /\ more[k] \in Nat
    OBVIOUS
  <2> QED BY <2>1, <2>2, <2>3
<1> HIDE DEF lucky, short, fls, rests, P
<1>17. SumFunctionOnSet(more, Mix) = short
  <2>1. lucky \in SUBSET Mix /\ IsFiniteSet(lucky) /\ IsFiniteSet(Mix \ lucky)
    BY <1>2, FS_Subset DEF lucky
  <2>2. NatOn(more, lucky \cup (Mix \ lucky)) /\ lucky \cap (Mix \ lucky) = {} /\ lucky \cup (Mix \ lucky) = Mix
    BY <2>1 DEF NatOn
  <2>3. SumFunctionOnSet(more, Mix) = SumFunctionOnSet(more, lucky) + SumFunctionOnSet(more, Mix \ lucky)
    BY <2>1, <2>2, SumUnion
  <2>4. SumFunctionOnSet(more, lucky) = Cardinality(lucky)
    BY <1>14, <2>1, SumCounts
  <2>5. SumFunctionOnSet(more, Mix \ lucky) = 0
    <3>1. \A k \in Mix \ lucky : more[k] = 0
      BY <1>14
    <3> QED BY <2>1, <3>1, SumNone
  <2> QED BY <1>10, <1>12, <2>3, <2>4, <2>5
<1>18. SumFunctionOnSet(take, Mix) = slots
  <2>1. NatOn(take, Mix) /\ NatOn(more, Mix)
    BY <1>16 DEF NatOn
  <2>2. \A k \in Mix : 1 * take[k] = 1 * fl[k] + more[k]
    BY <1>16
  <2>3. 1 * SumFunctionOnSet(take, Mix) = 1 * fls + SumFunctionOnSet(more, Mix)
    BY <1>2, <1>5, <2>1, <2>2, SumLinear DEF fls
  <2>4. SumFunctionOnSet(take, Mix) \in Nat
    BY <1>2, <2>1, SumOf
  <2> QED BY <1>5, <1>9, <1>10, <1>17, <2>3, <2>4
<1>19. ASSUME NEW k \in Mix PROVE take[k] * t < mix[k] * slots + t /\ take[k] * t + t > mix[k] * slots
  <2>1. PICK f, r \in Nat : f = fl[k] /\ r = rest[k]
    OBVIOUS
  <2>2. mix[k] * slots = t * f + r /\ r <= t - 1
    BY <1>4, <2>1
  <2>3. PICK a \in Nat : a = mix[k] * slots
    OBVIOUS
  <2>4. CASE k \in lucky
    <3>1. r > 0 /\ take[k] = f + 1
      BY <1>13, <1>14, <1>16, <2>1, <2>4
    <3>2. (f + 1) * t = t * f + t /\ t * f \in Nat
      BY <1>3
    <3>3. (f + 1) * t < a + t /\ (f + 1) * t + t > a
      BY <1>3, <2>2, <2>3, <3>1, <3>2
    <3> QED BY <2>3, <3>1, <3>3
  <2>5. CASE k \notin lucky
    <3>1. take[k] = f
      BY <1>14, <1>16, <2>1, <2>5
    <3>2. f * t = t * f /\ t * f \in Nat
      BY <1>3
    <3>3. f * t < a + t /\ f * t + t > a
      BY <1>3, <2>2, <2>3, <3>2
    <3> QED BY <2>3, <3>1, <3>3
  <2> QED BY <2>4, <2>5
<1> QED BY <1>1, <1>3, <1>15, <1>16, <1>18, <1>19

(***************************************************************************)
(* The seats.                                                              *)
(***************************************************************************)
Security == {"cybersecurity", "red_team", "blue_team"}
Crew == {"business", "qa", "frontend", "backend", "fullstack", "junior", "aiml", "devops"} \cup Security
Kind(r) == IF r \in Security THEN "security" ELSE r

\* A cycle of names is of the names.
LEMMA CycleHas ==
  ASSUME NEW T, NEW names \in Seq(T), Len(names) > 0, NEW n \in Nat
  PROVE  Cycle(names, n) \in Seq(T) /\ Len(Cycle(names, n)) = n
<1>1. ASSUME NEW i \in 1 .. n PROVE names[((i - 1) % Len(names)) + 1] \in T
  <2>0. i - 1 \in Nat /\ Len(names) \in Nat
    OBVIOUS
  <2>1. PICK c, l \in Nat : c = i - 1 /\ l = Len(names)
    BY <2>0
  <2>2. c % l \in 0 .. l - 1
    BY <2>1
  <2>3. (c % l) + 1 \in 1 .. l
    BY <2>1, <2>2
  <2> QED BY <2>1, <2>3
<1>2. PICK e : e = Cycle(names, n)
  OBVIOUS
<1>3. e = [i \in 1 .. n |-> names[((i - 1) % Len(names)) + 1]]
  BY <1>2 DEF Cycle
<1>4. e \in [1 .. n -> T]
  BY <1>1, <1>3
<1>5. e \in Seq(T) /\ Len(e) = n
  BY <1>4
<1> QED BY <1>2, <1>5

\* The sequence of the roles of the mix, role by role.
CrewOf(mix, slots) ==
  [n \in DOMAIN MixKeys |->
     IF MixKeys[n] = "security"
       THEN Cycle(<<"cybersecurity", "red_team", "blue_team">>, Rounded(mix, slots)["security"])
       ELSE Cycle(<<MixKeys[n]>>, Rounded(mix, slots)[MixKeys[n]])]

AllOfRole(s, k, n) == s \in Seq(Crew) /\ Len(s) = n /\ \A i \in 1 .. Len(s) : Kind(s[i]) = k

\* Each role of the mix is asked for as often as its share says.
LEMMA CrewOfHas ==
  ASSUME NEW mix \in [Mix -> Nat], NEW slots, Rounded(mix, slots) \in [Mix -> Nat]
  PROVE  /\ CrewOf(mix, slots) \in Seq(Seq(Crew)) /\ Len(CrewOf(mix, slots)) = 9
         /\ \A n \in 1 .. 9 : AllOfRole(CrewOf(mix, slots)[n], MixKeys[n], Rounded(mix, slots)[MixKeys[n]])
<1>1. PICK c : c = CrewOf(mix, slots)
  OBVIOUS
<1>2. PICK take \in [Mix -> Nat] : take = Rounded(mix, slots)
  OBVIOUS
<1>3. c = [n \in 1 .. 9 |-> IF MixKeys[n] = "security"
                              THEN Cycle(<<"cybersecurity", "red_team", "blue_team">>, take["security"])
                              ELSE Cycle(<<MixKeys[n]>>, take[MixKeys[n]])]
  BY <1>1, <1>2, MixKeysFacts DEF CrewOf
<1>4. ASSUME NEW n \in 1 .. 9
      PROVE  AllOfRole(c[n], MixKeys[n], take[MixKeys[n]])
  <2>1. MixKeys[n] \in Mix
    BY MixKeysFacts
  <2>2. CASE MixKeys[n] = "security"
    <3>1. PICK names, m : names = <<"cybersecurity", "red_team", "blue_team">> /\ m = take["security"]
      OBVIOUS
    <3>2. names \in Seq(Security) /\ Len(names) > 0 /\ m \in Nat
      BY <2>1, <2>2, <3>1 DEF Security
    <3>3. Cycle(names, m) \in Seq(Security) /\ Len(Cycle(names, m)) = m
      BY <3>2, CycleHas
    <3>4. c[n] = Cycle(names, m)
      BY <1>3, <2>2, <3>1
    <3>5. PICK s \in Seq(Security) : s = c[n] /\ Len(s) = take[MixKeys[n]]
      BY <2>2, <3>1, <3>3, <3>4
    <3>6. \A i \in 1 .. Len(s) : s[i] \in Security
      OBVIOUS
    <3>7. \A i \in 1 .. Len(s) : Kind(s[i]) = "security"
      BY <3>6 DEF Kind
    <3>8. s \in Seq(Crew)
      <4>1. Security \subseteq Crew
        BY DEF Crew
      <4> QED BY <4>1, SeqMonotonic
    <3> QED BY <2>2, <3>5, <3>7, <3>8 DEF AllOfRole
  <2>3. CASE MixKeys[n] # "security"
    <3>1. PICK k : k = MixKeys[n]
      OBVIOUS
    <3>2. k \in Crew /\ k \notin Security
      BY <2>3, <3>1 DEF MixKeys, Crew, Security
    <3>3. <<k>> \in Seq({k}) /\ Len(<<k>>) > 0 /\ take[k] \in Nat
      BY <2>1, <3>1
    <3>4. Cycle(<<k>>, take[k]) \in Seq({k}) /\ Len(Cycle(<<k>>, take[k])) = take[k]
      BY <3>3, CycleHas
    <3>5. c[n] = Cycle(<<k>>, take[k])
      BY <1>3, <2>3, <3>1
    <3>6. PICK s \in Seq({k}) : s = c[n] /\ Len(s) = take[MixKeys[n]]
      BY <3>1, <3>4, <3>5
    <3>7. \A i \in 1 .. Len(s) : Kind(s[i]) = k
      <4>1. \A i \in 1 .. Len(s) : s[i] \in {k}
        OBVIOUS
      <4> QED BY <3>2, <4>1 DEF Kind
    <3>8. s \in Seq(Crew)
      <4>1. {k} \subseteq Crew
        BY <3>2
      <4> QED BY <4>1, SeqMonotonic
    <3> QED BY <3>1, <3>6, <3>7, <3>8 DEF AllOfRole
  <2> QED BY <2>2, <2>3
<1>5. c \in Seq(Seq(Crew)) /\ Len(c) = 9
  BY <1>3, <1>4 DEF AllOfRole
<1> QED BY <1>1, <1>2, <1>4, <1>5

RowAt(crew, slots, k, b) ==
  \E a \in Nat : a + b <= slots /\ \A i \in 1 .. slots : Kind(crew[i]) = k <=> i \in a + 1 .. a + b

\* The crew has one of its roles in each of the seats, and every role its share.
LEMMA ScaleMixHas ==
  ASSUME NEW mix \in [Mix -> Nat], NEW slots \in Nat
  PROVE  LET crew == ScaleMix(mix, slots) IN
         /\ crew \in Seq(Crew) /\ Len(crew) = slots
         /\ Total(mix) > 0 => \A k \in Mix : RowAt(crew, slots, k, Rounded(mix, slots)[k])
<1>1. Total(mix) \in Nat
  <2>1. IsFiniteSet(Mix) /\ NatOn(mix, Mix) /\ DOMAIN mix = Mix
    BY MixKeysFacts DEF NatOn
  <2> QED BY <2>1, SumOf DEF Total
<1>2. CASE Total(mix) = 0
  <2>1. PICK names : names = <<"fullstack", "frontend", "backend", "qa", "junior">>
    OBVIOUS
  <2>2. names \in Seq(Crew) /\ Len(names) > 0
    BY <2>1 DEF Crew
  <2>3. Cycle(names, slots) \in Seq(Crew) /\ Len(Cycle(names, slots)) = slots
    BY <2>2, CycleHas
  <2>4. ScaleMix(mix, slots) = Cycle(names, slots)
    BY <1>2, <2>1 DEF ScaleMix
  <2> QED BY <1>2, <2>3, <2>4
<1>3. CASE Total(mix) > 0
  <2>1. PICK take \in [Mix -> Nat] : take = Rounded(mix, slots) /\ SumFunctionOnSet(take, Mix) = slots
    BY <1>3, RoundedShares
  <2>2. PICK s, crew : s = CrewOf(mix, slots) /\ crew = FlattenSeq(s)
    OBVIOUS
  <2>3. ScaleMix(mix, slots) = crew
    BY <1>1, <1>3, <2>2 DEF ScaleMix, CrewOf
  <2>4. /\ s \in Seq(Seq(Crew)) /\ Len(s) = 9
        /\ \A n \in 1 .. 9 : /\ s[n] \in Seq(Crew) /\ Len(s[n]) = take[MixKeys[n]]
                             /\ \A i \in 1 .. Len(s[n]) : Kind(s[n][i]) = MixKeys[n]
    <3>1. Rounded(mix, slots) \in [Mix -> Nat]
      BY <2>1
    <3>2. /\ CrewOf(mix, slots) \in Seq(Seq(Crew)) /\ Len(CrewOf(mix, slots)) = 9
          /\ \A n \in 1 .. 9 : AllOfRole(CrewOf(mix, slots)[n], MixKeys[n], Rounded(mix, slots)[MixKeys[n]])
      BY <3>1, CrewOfHas
    <3> QED BY <2>1, <2>2, <3>2 DEF AllOfRole
  <2>5. crew \in Seq(Crew) /\ \E off : Blocks(off, s, crew)
    BY <2>2, <2>4, FlatBlocks
  <2>6. PICK off : Blocks(off, s, crew)
    BY <2>5
  <2>7. \A n \in 1 .. 9 : MixKeys[n] \in Mix /\ take[MixKeys[n]] \in Nat
    BY MixKeysFacts
  <2>8. /\ off \in [0 .. 9 -> Nat] /\ off[0] = 0 /\ Len(crew) = off[9]
        /\ \A n \in 1 .. 9 : off[n] = off[n - 1] + take[MixKeys[n]]
        /\ \A n \in 1 .. 9 : \A i \in 1 .. Len(s[n]) :
             off[n - 1] + i \in 1 .. Len(crew) /\ crew[off[n - 1] + i] = s[n][i]
        /\ \A p \in 1 .. Len(crew) : \E n \in 1 .. 9 : \E i \in 1 .. Len(s[n]) : p = off[n - 1] + i
    <3>1. /\ off \in [0 .. Len(s) -> Nat] /\ off[0] = 0 /\ Len(crew) = off[Len(s)]
          /\ \A n \in 1 .. Len(s) : off[n] = off[n - 1] + Len(s[n])
          /\ \A n \in 1 .. Len(s) : \A i \in 1 .. Len(s[n]) :
               off[n - 1] + i \in 1 .. Len(crew) /\ crew[off[n - 1] + i] = s[n][i]
          /\ \A p \in 1 .. Len(crew) : \E n \in 1 .. Len(s) : \E i \in 1 .. Len(s[n]) : p = off[n - 1] + i
      BY <2>6 DEF Blocks, Laid
    <3>2. Len(s) = 9 /\ \A n \in 1 .. 9 : Len(s[n]) = take[MixKeys[n]]
      BY <2>4
    <3>3. /\ off \in [0 .. 9 -> Nat] /\ off[0] = 0 /\ Len(crew) = off[9]
          /\ \A n \in 1 .. 9 : off[n] = off[n - 1] + Len(s[n])
          /\ \A n \in 1 .. 9 : \A i \in 1 .. Len(s[n]) :
               off[n - 1] + i \in 1 .. Len(crew) /\ crew[off[n - 1] + i] = s[n][i]
          /\ \A p \in 1 .. Len(crew) : \E n \in 1 .. 9 : \E i \in 1 .. Len(s[n]) : p = off[n - 1] + i
      <4>1. /\ off \in [0 .. 9 -> Nat] /\ off[0] = 0 /\ Len(crew) = off[9]
            /\ \A n \in 1 .. 9 : off[n] = off[n - 1] + Len(s[n])
        BY <3>1, <3>2
      <4>2. \A n \in 1 .. 9 : \A i \in 1 .. Len(s[n]) :
              off[n - 1] + i \in 1 .. Len(crew) /\ crew[off[n - 1] + i] = s[n][i]
        BY <3>1, <3>2
      <4>3. \A p \in 1 .. Len(crew) : \E n \in 1 .. 9 : \E i \in 1 .. Len(s[n]) : p = off[n - 1] + i
        <5>1. ASSUME NEW p \in 1 .. Len(crew)
              PROVE  \E n \in 1 .. 9 : \E i \in 1 .. Len(s[n]) : p = off[n - 1] + i
          <6>1. PICK n \in 1 .. Len(s) : \E i \in 1 .. Len(s[n]) : p = off[n - 1] + i
            BY <3>1
          <6>2. n \in 1 .. 9
            BY <3>2
          <6> QED BY <6>1, <6>2
        <5> QED BY <5>1
      <4> QED BY <4>1, <4>2, <4>3
    <3>4. \A n \in 1 .. 9 : off[n] = off[n - 1] + take[MixKeys[n]]
      <4>1. ASSUME NEW n \in 1 .. 9
            PROVE  off[n] = off[n - 1] + take[MixKeys[n]]
        <5>1. off[n] = off[n - 1] + Len(s[n])
          BY <3>3
        <5>2. Len(s[n]) = take[MixKeys[n]]
          BY <3>2
        <5> QED BY <5>1, <5>2
      <4> QED BY <4>1
    <3> QED BY <3>3, <3>4
  <2>9. Len(crew) = slots
    <3>1. off[9] = SumFunctionOnSet(take, {MixKeys[m] : m \in 1 .. 9})
      <4>1. PICK n \in Nat : n = 9
        OBVIOUS
      <4>2. PICK x : x = MixKeys
        OBVIOUS
      <4>3. \A m \in 1 .. n : take[x[m]] \in Nat /\ off[m] = off[m - 1] + take[x[m]]
        BY <2>7, <2>8, <4>1, <4>2
      <4>4. \A i, j \in 1 .. n : x[i] = x[j] => i = j
        BY <4>1, <4>2, MixKeysFacts
      <4>5. off[0] = 0
        BY <2>8
      <4>s. SumsUp(take, x, off, n)
        BY <4>3, <4>4, <4>5 DEF SumsUp
      <4>6. off[n] = SumFunctionOnSet(take, {x[m] : m \in 1 .. n})
        BY <4>s, SumInOrder
      <4> QED BY <4>1, <4>2, <4>6
    <3> QED BY <2>1, <2>8, <3>1, MixKeysFacts
  <2>10. ASSUME NEW k \in Mix PROVE RowAt(crew, slots, k, take[k])
    <3>1. PICK n \in 1 .. 9 : MixKeys[n] = k
      BY MixKeysFacts
    <3>2. PICK a, b \in Nat : a = off[n - 1] /\ b = take[k]
      <4>1. n - 1 \in 0 .. 9
        OBVIOUS
      <4> QED BY <2>8, <4>1
    <3>3. Len(s[n]) = b
      BY <2>4, <3>1, <3>2
    <3>4. ASSUME NEW i \in 1 .. slots, Kind(crew[i]) = k PROVE i \in a + 1 .. a + b
      <4>0. PICK m \in 1 .. 9 : \E j \in 1 .. Len(s[m]) : i = off[m - 1] + j
        BY <2>8, <2>9
      <4>1. PICK j \in 1 .. Len(s[m]) : i = off[m - 1] + j
        BY <4>0
      <4>2. Kind(s[m][j]) = MixKeys[m] /\ crew[i] = s[m][j]
        BY <2>4, <2>8, <4>1
      <4>3. m = n
        BY <3>1, <3>4, <4>2, MixKeysFacts
      <4> QED BY <3>2, <3>3, <4>1, <4>3
    <3>5. ASSUME NEW i \in a + 1 .. a + b PROVE i \in 1 .. slots /\ Kind(crew[i]) = k
      <4>1. PICK j : j = i - a
        OBVIOUS
      <4>2. j \in 1 .. Len(s[n]) /\ i = a + j
        BY <3>3, <4>1
      <4>3. i \in 1 .. Len(crew) /\ crew[i] = s[n][j]
        BY <2>8, <3>2, <4>2
      <4> QED BY <2>4, <2>9, <3>1, <4>2, <4>3
    <3>6. a + b <= slots
      <4>1. CASE b = 0
        <5>1. n - 1 \in 0 .. 9 /\ 9 \in 0 .. 9 /\ n - 1 <= 9
          OBVIOUS
        <5>2. /\ Len(s) = 9 /\ Len(s) \in Nat /\ \A m \in 1 .. Len(s) : Len(s[m]) \in Nat
          <6>1. \A m \in 1 .. 9 : Len(s[m]) \in Nat
            BY <2>4, <2>7
          <6> QED BY <2>4, <6>1
        <5>3. \A x, y \in 0 .. Len(s) : x <= y => off[x] <= off[y]
          BY <2>6, <5>2, BlocksApart
        <5>4. off[n - 1] <= off[9]
          BY <5>1, <5>2, <5>3
        <5>5. a <= slots
          BY <2>8, <2>9, <3>2, <5>4
        <5> QED BY <4>1, <5>5
      <4>2. CASE b > 0
        <5>1. a + b \in a + 1 .. a + b
          BY <4>2
        <5> QED BY <3>5, <5>1
      <4> QED BY <4>1, <4>2
    <3> QED BY <3>2, <3>4, <3>5, <3>6 DEF RowAt
  <2> QED BY <2>1, <2>3, <2>5, <2>9, <2>10
<1> QED BY <1>1, <1>2, <1>3

LeaderRole == {"ceo", "cto", "product_owner", "scrum_master", "cfo", "ui_ux_designer",
               "documentation", "research", "coach", "pr_coordinator"}
Role == LeaderRole \cup Crew
Top == {"ceo", "cto", "product_owner"}
Always == ToSet(AlwaysPresent)

\* The leadership of a company of a size that may be ordered.
LEMMA LeadersHave ==
  ASSUME NEW size \in 3 .. 40
  PROVE  LET leaders == LeadershipFor(size) IN
         /\ leaders \in Seq(LeaderRole) /\ Len(leaders) \in 3 .. 10 /\ Len(leaders) <= size
         /\ leaders[1] = "ceo" /\ leaders[2] = "cto" /\ leaders[3] = "product_owner"
         /\ \A i \in 4 .. Len(leaders) : leaders[i] \notin Top
<1>1. PICK m : m = IF size >= 12 THEN 10 ELSE IF size >= 8 THEN 5 ELSE IF size >= 5 THEN 4 ELSE 3
  OBVIOUS
<1>2. m \in 3 .. 10 /\ m <= size
  BY <1>1
<1>3. PICK l : l = LeaderOrder
  OBVIOUS
<1>4. /\ \A i \in 1 .. 10 : l[i] \in LeaderRole
      /\ l[1] = "ceo" /\ l[2] = "cto" /\ l[3] = "product_owner"
      /\ \A i \in 4 .. 10 : l[i] \notin Top
  BY <1>3 DEF LeaderOrder, LeaderRole, Top
<1>5. PICK s : s = SubSeq(l, 1, m)
  OBVIOUS
<1>6. s \in Seq(LeaderRole) /\ Len(s) = m /\ \A i \in 1 .. m : s[i] = l[i]
  <2>1. \A i \in 1 .. m : l[i] \in LeaderRole
    BY <1>2, <1>4
  <2>2. SubSeq(l, 1, m) \in Seq(LeaderRole) /\ Len(SubSeq(l, 1, m)) = m
        /\ \A i \in 1 .. m : SubSeq(l, 1, m)[i] = l[i]
    <3>1. m \in Int /\ 1 \in Int /\ 1 <= m /\ m - 1 + 1 = m /\ \A i \in 1 .. m : 1 + i - 1 = i
      BY <1>2
    <3>2. /\ SubSeq(l, 1, m) \in Seq(LeaderRole)
          /\ Len(SubSeq(l, 1, m)) = IF 1 <= m THEN m - 1 + 1 ELSE 0
          /\ \A i \in 1 .. m - 1 + 1 : SubSeq(l, 1, m)[i] = l[1 + i - 1]
      BY <2>1, <3>1, SubSeqProperties
    <3> QED BY <3>1, <3>2
  <2> QED BY <1>5, <2>2
<1>7. LeadershipFor(size) = s
  BY <1>1, <1>3, <1>5 DEF LeadershipFor
<1>8. s[1] = "ceo" /\ s[2] = "cto" /\ s[3] = "product_owner" /\ \A i \in 4 .. m : s[i] \notin Top
  BY <1>2, <1>4, <1>6
<1> QED BY <1>2, <1>6, <1>7, <1>8

\* No leader is of the crew.
LEMMA LeadersApart == LeaderRole \cap Crew = {} /\ Top \subseteq LeaderRole /\ Always \subseteq Role
<1>1. LeaderRole \cap Crew = {} /\ Top \subseteq LeaderRole
  BY DEF LeaderRole, Crew, Security, Top
<1>2. Always \subseteq Role
  BY DEF Always, ToSet, AlwaysPresent, Role, LeaderRole, Crew, Security
<1> QED BY <1>1, <1>2

\* What an order is.
LEMMA OrderIs ==
  ASSUME NEW o \in Order
  PROVE  o.size \in 3 .. 40 /\ o.mix \in [Mix -> Nat]
BY CompanyPlanAssumption DEF Mix

ShareAt(roles, size, k, b) ==
  \E a \in Nat : /\ a + b <= size
                 /\ \A i \in 1 .. size : Kind(roles[i]) = k /\ roles[i] \notin ToSet(LeadershipFor(size))
                                           <=> i \in a + 1 .. a + b

\* The seats of a company: the leaders, and then the crew.
LEMMA SeatedHas ==
  ASSUME NEW o \in Order
  PROVE  LET roles == Seated(o)
             slots == o.size - Len(LeadershipFor(o.size)) IN
         /\ roles \in Seq(Role) /\ Len(roles) = o.size
         /\ roles[1] = "ceo" /\ roles[2] = "cto" /\ roles[3] = "product_owner"
         /\ \A i \in 4 .. o.size : roles[i] \notin Top
         /\ slots \in Nat
         /\ Total(o.mix) > 0 => \A k \in Mix : ShareAt(roles, o.size, k, Rounded(o.mix, slots)[k])
<1>1. PICK size, mix, leaders, n :
        size = o.size /\ mix = o.mix /\ leaders = LeadershipFor(size) /\ n = Len(leaders)
  OBVIOUS
<1>2. size \in 3 .. 40 /\ mix \in [Mix -> Nat]
  BY <1>1, OrderIs
<1>3. /\ leaders \in Seq(LeaderRole) /\ n \in 3 .. 10 /\ n <= size
      /\ leaders[1] = "ceo" /\ leaders[2] = "cto" /\ leaders[3] = "product_owner"
      /\ \A i \in 4 .. n : leaders[i] \notin Top
  BY <1>1, <1>2, LeadersHave
<1>4. PICK slots \in Nat : slots = size - n
  BY <1>2, <1>3
<1>5. PICK crew : crew = ScaleMix(mix, slots)
  OBVIOUS
<1>6. /\ crew \in Seq(Crew) /\ Len(crew) = slots
      /\ Total(mix) > 0 => \A k \in Mix : RowAt(crew, slots, k, Rounded(mix, slots)[k])
  BY <1>2, <1>5, ScaleMixHas
<1>7. PICK roles : roles = leaders \o crew
  OBVIOUS
<1>8. Seated(o) = roles
  BY <1>1, <1>4, <1>5, <1>7 DEF Seated
<1>9. /\ roles \in Seq(Role) /\ Len(roles) = size
      /\ \A i \in 1 .. size : roles[i] = IF i <= n THEN leaders[i] ELSE crew[i - n]
  <2>1. leaders \in Seq(Role) /\ crew \in Seq(Role)
    BY <1>3, <1>6, SeqMonotonic DEF Role
  <2>2. /\ leaders \o crew \in Seq(Role) /\ Len(leaders \o crew) = n + slots
        /\ \A i \in 1 .. n + slots : (leaders \o crew)[i] = IF i <= n THEN leaders[i] ELSE crew[i - n]
    <3>1. /\ leaders \o crew \in Seq(Role) /\ Len(leaders \o crew) = Len(leaders) + Len(crew)
          /\ \A i \in 1 .. Len(leaders) + Len(crew) :
               (leaders \o crew)[i] = IF i <= Len(leaders) THEN leaders[i] ELSE crew[i - Len(leaders)]
      BY <2>1, ConcatProperties
    <3>2. Len(leaders) = n /\ Len(crew) = slots
      BY <1>1, <1>6
    <3> QED BY <3>1, <3>2
  <2>3. n + slots = size
    BY <1>2, <1>3, <1>4
  <2> QED BY <1>7, <2>2, <2>3
<1>10. \A i \in n + 1 .. size : i \in 1 .. size /\ i - n \in 1 .. slots /\ roles[i] = crew[i - n] /\ roles[i] \in Crew
  <2>1. \A i \in n + 1 .. size : i \in 1 .. size /\ i - n \in 1 .. slots /\ ~ (i <= n)
    BY <1>2, <1>3, <1>4
  <2>2. \A i \in 1 .. slots : crew[i] \in Crew
    BY <1>6
  <2> QED BY <1>9, <2>1, <2>2
<1>11. \A i \in 1 .. n : i \in 1 .. size /\ roles[i] = leaders[i] /\ leaders[i] \in LeaderRole
  <2>1. \A i \in 1 .. n : i \in 1 .. size /\ i <= n
    BY <1>2, <1>3
  <2>2. \A i \in 1 .. n : leaders[i] \in LeaderRole
    BY <1>1, <1>3
  <2> QED BY <1>9, <2>1, <2>2
<1>12. roles[1] = "ceo" /\ roles[2] = "cto" /\ roles[3] = "product_owner"
  <2>1. 1 \in 1 .. n /\ 2 \in 1 .. n /\ 3 \in 1 .. n
    BY <1>3
  <2> QED BY <1>3, <1>11, <2>1
<1>13. ASSUME NEW i \in 4 .. size PROVE roles[i] \notin Top
  <2>1. CASE i <= n
    <3>1. i \in 4 .. n /\ i \in 1 .. n
      BY <1>3, <2>1
    <3> QED BY <1>3, <1>11, <3>1
  <2>2. CASE ~ (i <= n)
    <3>1. i \in n + 1 .. size
      BY <1>2, <1>3, <2>2
    <3> QED BY <1>10, <3>1, LeadersApart
  <2> QED BY <2>1, <2>2
<1>14. ASSUME Total(mix) > 0, NEW k \in Mix PROVE ShareAt(roles, size, k, Rounded(mix, slots)[k])
  <2>0. PICK b \in Nat : b = Rounded(mix, slots)[k]
    BY <1>2, <1>14, RoundedShares
  <2>1. PICK a \in Nat : /\ \A i \in 1 .. slots : Kind(crew[i]) = k <=> i \in a + 1 .. a + b
                         /\ a + b <= slots
    BY <1>6, <1>14, <2>0 DEF RowAt
  <2>2. ToSet(LeadershipFor(size)) = {leaders[i] : i \in 1 .. n}
    BY <1>1, <1>3 DEF ToSet
  <2>3. PICK c \in Nat : c = n + a
    BY <1>3
  <2>4. c + b <= size
    BY <1>2, <1>3, <1>4, <2>1, <2>3
  <2>5. ASSUME NEW i \in 1 .. size
        PROVE  Kind(roles[i]) = k /\ roles[i] \notin {leaders[j] : j \in 1 .. n} <=> i \in c + 1 .. c + b
    <3>1. CASE i \in 1 .. n
      <4>1. roles[i] = leaders[i]
        BY <1>11, <3>1
      <4>2. ~ (i \in c + 1 .. c + b)
        BY <1>3, <2>3, <3>1
      <4> QED BY <3>1, <4>1, <4>2
    <3>2. CASE i \in n + 1 .. size
      <4>1. roles[i] \in Crew /\ roles[i] = crew[i - n] /\ i - n \in 1 .. slots
        BY <1>10, <3>2
      <4>2. roles[i] \notin {leaders[j] : j \in 1 .. n}
        BY <1>11, <4>1, LeadersApart
      <4>3. Kind(roles[i]) = k <=> i - n \in a + 1 .. a + b
        BY <2>1, <4>1
      <4>4. i - n \in a + 1 .. a + b <=> i \in c + 1 .. c + b
        BY <1>3, <2>3
      <4> QED BY <4>2, <4>3, <4>4
    <3>3. i \in 1 .. n \/ i \in n + 1 .. size
      BY <1>2, <1>3
    <3> QED BY <3>1, <3>2, <3>3
  <2> QED BY <2>0, <2>2, <2>3, <2>4, <2>5 DEF ShareAt
<1> QED BY <1>1, <1>4, <1>8, <1>9, <1>12, <1>13, <1>14

-----------------------------------------------------------------------------
\* The roles that must be there and have no seat.
Missing(present) == [n \in DOMAIN AlwaysPresent |-> IF AlwaysPresent[n] \in present THEN <<>> ELSE <<AlwaysPresent[n]>>]

\* Each of them once, and nothing else.
LEMMA MissingHas ==
  ASSUME NEW present
  PROVE  LET x == FlattenSeq(Missing(present)) IN
         /\ x \in Seq(Always)
         /\ \A i \in 1 .. Len(x) : x[i] \notin present
         /\ \A i, j \in 1 .. Len(x) : x[i] = x[j] => i = j
         /\ \A r \in Always \ present : \E i \in 1 .. Len(x) : x[i] = r
<1>1. PICK all : all = AlwaysPresent
  OBVIOUS
<1>2. /\ DOMAIN all = 1 .. 7 /\ Always = {all[n] : n \in 1 .. 7}
      /\ \A m, n \in 1 .. 7 : all[m] = all[n] => m = n
  <2>1. DOMAIN all = 1 .. 7
    BY <1>1 DEF AlwaysPresent
  <2>2. \A m, n \in 1 .. 7 : all[m] = all[n] => m = n
    BY <1>1 DEF AlwaysPresent
  <2> QED BY <1>1, <2>1, <2>2 DEF Always, ToSet
<1>3. PICK s, x : s = Missing(present) /\ x = FlattenSeq(s)
  OBVIOUS
<1>4. s = [n \in 1 .. 7 |-> IF all[n] \in present THEN <<>> ELSE <<all[n]>>]
  BY <1>1, <1>2, <1>3 DEF Missing
<1>5. ASSUME NEW n \in 1 .. 7
      PROVE  /\ s[n] \in Seq(Always) /\ Len(s[n]) \in Nat
             /\ \A i \in 1 .. Len(s[n]) : i = 1 /\ s[n][i] = all[n] /\ all[n] \notin present
             /\ all[n] \notin present => Len(s[n]) = 1
  <2>1. CASE all[n] \in present
    <3>1. s[n] = <<>>
      BY <1>4, <2>1
    <3> QED BY <2>1, <3>1
  <2>2. CASE all[n] \notin present
    <3>1. s[n] = <<all[n]>> /\ all[n] \in Always
      BY <1>2, <1>4, <2>2
    <3> QED BY <2>2, <3>1
  <2> QED BY <2>1, <2>2
<1>6. s \in Seq(Seq(Always)) /\ Len(s) = 7
  BY <1>4, <1>5
<1>7. x \in Seq(Always) /\ \E off : Blocks(off, s, x)
  BY <1>3, <1>6, FlatBlocks
<1>8. PICK off : Blocks(off, s, x)
  BY <1>7
<1>9. /\ \A n \in 1 .. 7 : \A i \in 1 .. Len(s[n]) : off[n - 1] + i \in 1 .. Len(x) /\ x[off[n - 1] + i] = s[n][i]
      /\ \A p \in 1 .. Len(x) : \E n \in 1 .. 7 : \E i \in 1 .. Len(s[n]) : p = off[n - 1] + i
  <2>1. /\ \A n \in 1 .. Len(s) : \A i \in 1 .. Len(s[n]) : off[n - 1] + i \in 1 .. Len(x) /\ x[off[n - 1] + i] = s[n][i]
        /\ \A p \in 1 .. Len(x) : \E n \in 1 .. Len(s) : \E i \in 1 .. Len(s[n]) : p = off[n - 1] + i
    BY <1>8 DEF Blocks, Laid
  <2> QED BY <1>6, <2>1
<1>10. ASSUME NEW p \in 1 .. Len(x)
       PROVE  \E n \in 1 .. 7 : p = off[n - 1] + 1 /\ x[p] = all[n] /\ all[n] \notin present
  <2>1. PICK n \in 1 .. 7 : \E i \in 1 .. Len(s[n]) : p = off[n - 1] + i
    BY <1>9
  <2>2. PICK i \in 1 .. Len(s[n]) : p = off[n - 1] + i
    BY <2>1
  <2>3. i = 1 /\ s[n][i] = all[n] /\ all[n] \notin present
    BY <1>5
  <2>4. x[p] = s[n][i]
    BY <1>9, <2>2
  <2> QED BY <2>2, <2>3, <2>4
<1>11. ASSUME NEW i \in 1 .. Len(x), NEW j \in 1 .. Len(x), x[i] = x[j] PROVE i = j
  <2>1. PICK m \in 1 .. 7 : i = off[m - 1] + 1 /\ x[i] = all[m]
    BY <1>10
  <2>2. PICK n \in 1 .. 7 : j = off[n - 1] + 1 /\ x[j] = all[n]
    BY <1>10
  <2>3. m = n
    BY <1>2, <1>11, <2>1, <2>2
  <2> QED BY <2>1, <2>2, <2>3
<1>12. ASSUME NEW r \in Always \ present PROVE \E i \in 1 .. Len(x) : x[i] = r
  <2>1. PICK n \in 1 .. 7 : r = all[n]
    BY <1>2
  <2>2. 1 \in 1 .. Len(s[n])
    <3>1. all[n] \notin present
      BY <2>1
    <3>2. Len(s[n]) = 1
      BY <1>5, <3>1
    <3> QED BY <3>2
  <2>3. off[n - 1] + 1 \in 1 .. Len(x) /\ x[off[n - 1] + 1] = s[n][1] /\ s[n][1] = all[n]
    BY <1>5, <1>9, <2>2
  <2> QED BY <2>1, <2>3
<1> QED BY <1>3, <1>7, <1>10, <1>11, <1>12

\* The seats of the template: those of the company, and the missing ones.
LEMMA SeatsHave ==
  ASSUME NEW o \in Order
  PROVE  LET roles == Seats(o) IN
         /\ roles \in Seq(Role) /\ o.size <= Len(roles)
         /\ \A i \in 1 .. o.size : roles[i] = Seated(o)[i]
         /\ \A i \in o.size + 1 .. Len(roles) : roles[i] \in Always /\ \A j \in 1 .. Len(roles) : roles[i] = roles[j] => i = j
         /\ \A r \in Always : \E i \in 1 .. Len(roles) : roles[i] = r
<1>1. PICK size, seated, x : size = o.size /\ seated = Seated(o) /\ x = FlattenSeq(Missing(ToSet(seated)))
  OBVIOUS
<1>2. size \in Nat /\ seated \in Seq(Role) /\ Len(seated) = size
  BY <1>1, OrderIs, SeatedHas
<1>3. /\ x \in Seq(Always) /\ Len(x) \in Nat
      /\ \A i \in 1 .. Len(x) : x[i] \notin ToSet(seated) /\ x[i] \in Always
      /\ \A i, j \in 1 .. Len(x) : x[i] = x[j] => i = j
      /\ \A r \in Always \ ToSet(seated) : \E i \in 1 .. Len(x) : x[i] = r
  <2>1. /\ x \in Seq(Always)
        /\ \A i \in 1 .. Len(x) : x[i] \notin ToSet(seated)
        /\ \A i, j \in 1 .. Len(x) : x[i] = x[j] => i = j
        /\ \A r \in Always \ ToSet(seated) : \E i \in 1 .. Len(x) : x[i] = r
    BY <1>1, MissingHas
  <2> QED BY <2>1
<1>4. PICK roles : roles = seated \o x
  OBVIOUS
<1>5. Seats(o) = roles
  BY <1>1, <1>4 DEF Seats, Missing
<1>6. /\ roles \in Seq(Role) /\ Len(roles) = size + Len(x)
      /\ \A i \in 1 .. size + Len(x) : roles[i] = IF i <= size THEN seated[i] ELSE x[i - size]
  <2>1. x \in Seq(Role)
    BY <1>3, LeadersApart, SeqMonotonic
  <2> QED BY <1>2, <1>4, <2>1, ConcatProperties
<1>7. \A i \in 1 .. size : i \in 1 .. Len(roles) /\ roles[i] = seated[i] /\ seated[i] \in ToSet(seated)
  <2>1. \A i \in 1 .. size : i \in 1 .. size + Len(x) /\ i <= size
    BY <1>2, <1>3
  <2>2. \A i \in 1 .. size : seated[i] \in ToSet(seated)
    BY <1>2 DEF ToSet
  <2> QED BY <1>6, <2>1, <2>2
<1>8. \A i \in size + 1 .. Len(roles) : i - size \in 1 .. Len(x) /\ roles[i] = x[i - size]
  <2>1. \A i \in size + 1 .. Len(roles) : i \in 1 .. size + Len(x) /\ ~ (i <= size) /\ i - size \in 1 .. Len(x)
    BY <1>2, <1>3, <1>6
  <2> QED BY <1>6, <2>1
<1>9. ASSUME NEW i \in size + 1 .. Len(roles), NEW j \in 1 .. Len(roles), roles[i] = roles[j] PROVE i = j
  <2>1. CASE j \in 1 .. size
    BY <1>3, <1>7, <1>8, <1>9, <2>1
  <2>2. CASE j \in size + 1 .. Len(roles)
    <3>1. x[i - size] = x[j - size] /\ i - size \in 1 .. Len(x) /\ j - size \in 1 .. Len(x)
      BY <1>8, <1>9, <2>2
    <3>2. i - size = j - size
      BY <1>3, <3>1
    <3> QED BY <1>2, <3>2
  <2> QED BY <1>2, <2>1, <2>2
<1>10. ASSUME NEW r \in Always PROVE \E i \in 1 .. Len(roles) : roles[i] = r
  <2>1. CASE r \in ToSet(seated)
    <3>1. PICK i \in 1 .. size : seated[i] = r
      BY <1>2, <2>1 DEF ToSet
    <3> QED BY <1>7, <3>1
  <2>2. CASE r \notin ToSet(seated)
    <3>1. PICK i \in 1 .. Len(x) : x[i] = r
      BY <1>3, <2>2
    <3>2. size + i \in size + 1 .. Len(roles) /\ (size + i) - size = i /\ size + i \in 1 .. Len(roles)
      BY <1>2, <1>3, <1>6
    <3> QED BY <1>8, <3>1, <3>2
  <2> QED BY <2>1, <2>2
<1>11. size <= Len(roles)
  BY <1>2, <1>3, <1>6
<1>12. \A i \in size + 1 .. Len(roles) : roles[i] \in Always
  BY <1>3, <1>8
<1> QED BY <1>1, <1>5, <1>6, <1>7, <1>9, <1>10, <1>11, <1>12

\* The least of some numbers is one of them.
LEMMA LeastHas ==
  ASSUME NEW U \in SUBSET Nat
  PROVE  /\ U # {} => LeastOf(U) \in U /\ \A u \in U : LeastOf(U) <= u
         /\ U = {} => LeastOf(U) = 0
BY MinOfSome DEF LeastOf

ToCeo == {"cfo", "cto", "business", "product_owner", "research", "coach"}
ToOwner == {"scrum_master", "ui_ux_designer", "documentation"}

\* The role that a role answers to, where the top three are seated.
LEMMA ManagerRoleIs ==
  ASSUME NEW present, Top \subseteq present, "none" \notin present, NEW role
  PROVE  ManagerRole(role, present) =
           IF role = "ceo" THEN "none"
           ELSE IF role \in ToCeo THEN "ceo"
           ELSE IF role \in ToOwner THEN "product_owner"
           ELSE IF role = "qa" /\ "scrum_master" \in present THEN "scrum_master" ELSE "cto"
<1>1. "ceo" \in present /\ "cto" \in present /\ "product_owner" \in present
  BY DEF Top
<1>2. CASE role = "ceo"
  BY <1>2 DEF ManagerRole, SeatManager
<1>3. CASE role \in ToCeo
  BY <1>1, <1>3 DEF ManagerRole, SeatManager, ToCeo
<1>4. CASE role \in ToOwner
  BY <1>1, <1>4 DEF ManagerRole, SeatManager, ToOwner, ToCeo
<1>5. CASE role = "qa"
  BY <1>1, <1>5 DEF ManagerRole, SeatManager, ToOwner, ToCeo
<1>6. CASE role \notin ToCeo \cup ToOwner \cup {"ceo", "qa"}
  <2>1. SeatManager(role) = "cto"
    BY <1>6 DEF SeatManager, ToOwner, ToCeo
  <2> QED BY <1>1, <1>6, <2>1 DEF ManagerRole
<1> QED BY <1>2, <1>3, <1>4, <1>5, <1>6

SeatAt(roles, r) == {j \in DOMAIN roles : roles[j] = r}
ManagerAt(roles, i) == LeastOf(SeatAt(roles, ManagerRole(roles[i], ToSet(roles))))
SameAt(roles, i) == LeastOf(SeatAt(roles, roles[i]) \ {i})

\* The template, with what it is made of named.
LEMMA TemplateDef ==
  ASSUME NEW o
  PROVE  Template(o) =
           [i \in DOMAIN Seats(o) |->
              [role |-> Seats(o)[i], name |-> 0, enabled |-> i <= o.size, manager |-> ManagerAt(Seats(o), i),
               backup |-> IF SameAt(Seats(o), i) # 0 THEN SameAt(Seats(o), i)
                          ELSE IF ManagerAt(Seats(o), i) # 0 THEN ManagerAt(Seats(o), i)
                          ELSE LeastOf(DOMAIN Seats(o) \ {i})]]
BY DEF Template, ManagerAt, SameAt, SeatAt

\* A role of the top is the role of one seat, and nobody's role is none.
RolesLaid(roles, size) ==
  /\ roles \in Seq(Role) /\ size \in 3 .. 40 /\ size <= Len(roles)
  /\ \A i \in 1 .. Len(roles) :
       /\ roles[i] = "ceo" <=> i = 1
       /\ roles[i] = "cto" <=> i = 2
       /\ roles[i] = "product_owner" <=> i = 3
  /\ \A i \in size + 1 .. Len(roles) : /\ roles[i] \in Always
                                       /\ \A j \in 1 .. Len(roles) : roles[i] = roles[j] => i = j
  /\ \A r \in Always : \E i \in 1 .. Len(roles) : roles[i] = r

\* The seats of an order are laid so.
LEMMA SeatsLaid ==
  ASSUME NEW o \in Order
  PROVE  RolesLaid(Seats(o), o.size)
<1>1. PICK roles, size : roles = Seats(o) /\ size = o.size
  OBVIOUS
<1>2. size \in 3 .. 40
  BY <1>1, OrderIs
<1>3. /\ roles \in Seq(Role) /\ size <= Len(roles)
      /\ \A i \in size + 1 .. Len(roles) : roles[i] \in Always /\ \A j \in 1 .. Len(roles) : roles[i] = roles[j] => i = j
      /\ \A r \in Always : \E i \in 1 .. Len(roles) : roles[i] = r
      /\ \A i \in 1 .. size : roles[i] = Seated(o)[i]
  BY <1>1, SeatsHave
<1>4. 1 \in 1 .. size /\ 2 \in 1 .. size /\ 3 \in 1 .. size /\ \A i \in 4 .. size : i \in 1 .. size
  BY <1>2
<1>5. roles[1] = "ceo" /\ roles[2] = "cto" /\ roles[3] = "product_owner" /\ \A i \in 4 .. size : roles[i] \notin Top
  <2>1. /\ Seated(o)[1] = "ceo" /\ Seated(o)[2] = "cto" /\ Seated(o)[3] = "product_owner"
        /\ \A i \in 4 .. size : Seated(o)[i] \notin Top
    BY <1>1, SeatedHas
  <2> QED BY <1>3, <1>4, <2>1
<1>6. Always \cap Top = {}
  BY DEF Always, ToSet, AlwaysPresent, Top
<1>7. \A i \in 4 .. Len(roles) : roles[i] \notin Top
  <2>1. \A i \in 4 .. Len(roles) : i \in 4 .. size \/ i \in size + 1 .. Len(roles)
    <3>1. size \in Nat /\ Len(roles) \in Nat
      BY <1>2, <1>3
    <3> QED BY <3>1
  <2>2. \A i \in size + 1 .. Len(roles) : roles[i] \notin Top
    BY <1>3, <1>6
  <2> QED BY <1>5, <2>1, <2>2
<1>8. \A i \in 1 .. Len(roles) : i = 1 \/ i = 2 \/ i = 3 \/ i \in 4 .. Len(roles)
  BY <1>3
<1>9. \A i \in 1 .. Len(roles) : /\ roles[i] = "ceo" <=> i = 1
                                 /\ roles[i] = "cto" <=> i = 2
                                 /\ roles[i] = "product_owner" <=> i = 3
  <2>1. \A i \in 4 .. Len(roles) : roles[i] # "ceo" /\ roles[i] # "cto" /\ roles[i] # "product_owner" /\ i # 1 /\ i # 2 /\ i # 3
    BY <1>7 DEF Top
  <2> QED BY <1>5, <1>8, <2>1
<1> QED BY <1>1, <1>2, <1>3, <1>9 DEF RolesLaid

\* The seat of a role of the top, of the scrum master, and of nobody.
LEMMA SeatOfRole ==
  ASSUME NEW roles, NEW size, RolesLaid(roles, size)
  PROVE  /\ LeastOf(SeatAt(roles, "none")) = 0
         /\ LeastOf(SeatAt(roles, "ceo")) = 1
         /\ LeastOf(SeatAt(roles, "cto")) = 2
         /\ LeastOf(SeatAt(roles, "product_owner")) = 3
         /\ "scrum_master" \in ToSet(roles) =>
              LET s == LeastOf(SeatAt(roles, "scrum_master")) IN s \in 1 .. size /\ roles[s] = "scrum_master"
<1>1. /\ roles \in Seq(Role) /\ size \in 3 .. 40 /\ size <= Len(roles)
      /\ \A i \in 1 .. Len(roles) : /\ roles[i] = "ceo" <=> i = 1
                                    /\ roles[i] = "cto" <=> i = 2
                                    /\ roles[i] = "product_owner" <=> i = 3
      /\ \A i \in size + 1 .. Len(roles) : roles[i] \in Always
  BY DEF RolesLaid
<1>2. DOMAIN roles = 1 .. Len(roles) /\ 1 \in DOMAIN roles /\ 2 \in DOMAIN roles /\ 3 \in DOMAIN roles
      /\ Len(roles) \in Nat /\ \A i \in DOMAIN roles : roles[i] \in Role
  BY <1>1
<1>3. "none" \notin Role
  BY DEF Role, LeaderRole, Crew, Security
<1>4. SeatAt(roles, "none") = {}
  BY <1>2, <1>3 DEF SeatAt
<1>5. SeatAt(roles, "ceo") = {1} /\ SeatAt(roles, "cto") = {2} /\ SeatAt(roles, "product_owner") = {3}
  BY <1>1, <1>2 DEF SeatAt
<1>6. \A i \in Nat : LeastOf({i}) = i
  BY LeastHas
<1>7. ASSUME "scrum_master" \in ToSet(roles)
      PROVE  LeastOf(SeatAt(roles, "scrum_master")) \in 1 .. size /\ roles[LeastOf(SeatAt(roles, "scrum_master"))] = "scrum_master"
  <2>1. SeatAt(roles, "scrum_master") # {} /\ SeatAt(roles, "scrum_master") \in SUBSET Nat
    BY <1>2, <1>7 DEF ToSet, SeatAt
  <2>2. LeastOf(SeatAt(roles, "scrum_master")) \in SeatAt(roles, "scrum_master")
    BY <2>1, LeastHas
  <2>3. "scrum_master" \notin Always
    BY DEF Always, ToSet, AlwaysPresent
  <2>4. \A i \in SeatAt(roles, "scrum_master") : i \in 1 .. size /\ roles[i] = "scrum_master"
    BY <1>1, <1>2, <2>3 DEF SeatAt
  <2> QED BY <2>2, <2>4
<1> QED BY <1>4, <1>5, <1>6, <1>7, LeastHas

\* Who everybody answers to.
ManagersLaid(roles, size) ==
  /\ ManagerAt(roles, 1) = 0 /\ ManagerAt(roles, 2) = 1 /\ ManagerAt(roles, 3) = 1
  /\ \A i \in 2 .. Len(roles) :
       LET m == ManagerAt(roles, i) IN
       /\ m \in 1 .. size /\ m # i
       /\ m \in {1, 2, 3} \/ (roles[i] = "qa" /\ roles[m] = "scrum_master")

\* The managers of the template.
LEMMA ManagersOf ==
  ASSUME NEW roles, NEW size, RolesLaid(roles, size)
  PROVE  ManagersLaid(roles, size)
<1>1. /\ roles \in Seq(Role) /\ size \in 3 .. 40 /\ size <= Len(roles)
      /\ \A i \in 1 .. Len(roles) : /\ roles[i] = "ceo" <=> i = 1
                                    /\ roles[i] = "cto" <=> i = 2
                                    /\ roles[i] = "product_owner" <=> i = 3
  BY DEF RolesLaid
<1>2. DOMAIN roles = 1 .. Len(roles) /\ 1 \in DOMAIN roles /\ 2 \in DOMAIN roles /\ 3 \in DOMAIN roles
      /\ Len(roles) \in Nat /\ \A i \in DOMAIN roles : roles[i] \in Role
  BY <1>1
<1>3. "none" \notin ToSet(roles) /\ Top \subseteq ToSet(roles)
  <2>1. "none" \notin Role
    BY DEF Role, LeaderRole, Crew, Security
  <2>2. ToSet(roles) = {roles[i] : i \in DOMAIN roles}
    BY DEF ToSet
  <2> QED BY <1>1, <1>2, <2>1, <2>2 DEF Top
<1>4. PICK s : s = LeastOf(SeatAt(roles, "scrum_master"))
  OBVIOUS
<1>5. /\ LeastOf(SeatAt(roles, "none")) = 0 /\ LeastOf(SeatAt(roles, "ceo")) = 1 /\ LeastOf(SeatAt(roles, "cto")) = 2
      /\ LeastOf(SeatAt(roles, "product_owner")) = 3
      /\ "scrum_master" \in ToSet(roles) => s \in 1 .. size /\ roles[s] = "scrum_master"
  BY <1>4, SeatOfRole
<1>6. \A i : ManagerAt(roles, i) =
         IF roles[i] = "ceo" THEN 0
         ELSE IF roles[i] \in ToCeo THEN 1
         ELSE IF roles[i] \in ToOwner THEN 3
         ELSE IF roles[i] = "qa" /\ "scrum_master" \in ToSet(roles) THEN s ELSE 2
  <2>1. ASSUME NEW i
        PROVE  ManagerRole(roles[i], ToSet(roles)) =
                 IF roles[i] = "ceo" THEN "none"
                 ELSE IF roles[i] \in ToCeo THEN "ceo"
                 ELSE IF roles[i] \in ToOwner THEN "product_owner"
                 ELSE IF roles[i] = "qa" /\ "scrum_master" \in ToSet(roles) THEN "scrum_master" ELSE "cto"
    BY <1>3, ManagerRoleIs
  <2> QED BY <1>4, <1>5, <2>1 DEF ManagerAt
<1>7. roles[1] = "ceo" /\ roles[2] = "cto" /\ roles[3] = "product_owner"
  BY <1>1, <1>2
<1>8. ManagerAt(roles, 1) = 0 /\ ManagerAt(roles, 2) = 1 /\ ManagerAt(roles, 3) = 1
  <2>1. "cto" \in ToCeo /\ "product_owner" \in ToCeo /\ "cto" # "ceo" /\ "product_owner" # "ceo"
    BY DEF ToCeo
  <2> QED BY <1>6, <1>7, <2>1
<1>9. ASSUME NEW i \in 2 .. Len(roles)
      PROVE  /\ ManagerAt(roles, i) \in 1 .. size /\ ManagerAt(roles, i) # i
             /\ ManagerAt(roles, i) \in {1, 2, 3} \/ (roles[i] = "qa" /\ roles[ManagerAt(roles, i)] = "scrum_master")
  <2>1. i \in DOMAIN roles /\ roles[i] # "ceo"
    BY <1>1, <1>2
  <2>2. PICK m, r : m = ManagerAt(roles, i) /\ r = roles[i]
    OBVIOUS
  <2>3. m = IF r \in ToCeo THEN 1
            ELSE IF r \in ToOwner THEN 3
            ELSE IF r = "qa" /\ "scrum_master" \in ToSet(roles) THEN s ELSE 2
    BY <1>6, <2>1, <2>2
  <2>4. 1 \in 1 .. size /\ 2 \in 1 .. size /\ 3 \in 1 .. size /\ i # 1
    BY <1>1
  <2>5. CASE r \in ToCeo
    <3>1. m = 1
      BY <2>3, <2>5
    <3>4. ManagerAt(roles, i) = 1 /\ 1 # i /\ 1 \in 1 .. size
      BY <2>2, <2>4, <3>1
    <3> QED BY <3>4
  <2>6. CASE r \in ToOwner
    <3>1. r \notin ToCeo /\ r # "product_owner"
      BY <2>6 DEF ToOwner, ToCeo
    <3>2. m = 3 /\ i # 3
      BY <1>7, <2>2, <2>3, <2>6, <3>1
    <3>4. ManagerAt(roles, i) = 3 /\ 3 # i /\ 3 \in 1 .. size
      BY <2>2, <2>4, <3>2
    <3> QED BY <3>4
  <2>7. CASE r = "qa" /\ "scrum_master" \in ToSet(roles)
    <3>1. r \notin ToOwner /\ r \notin ToCeo
      BY <2>7 DEF ToOwner, ToCeo
    <3>2. m = s
      BY <2>3, <2>7, <3>1
    <3>3. s # i
      BY <1>5, <2>2, <2>7
    <3> QED BY <1>5, <2>2, <2>7, <3>2, <3>3
  <2>8. CASE r \notin ToCeo \cup ToOwner /\ ~ (r = "qa" /\ "scrum_master" \in ToSet(roles))
    <3>1. m = 2
      BY <2>3, <2>8
    <3>2. i # 2
      BY <1>7, <2>2, <2>8 DEF ToCeo
    <3>4. ManagerAt(roles, i) = 2 /\ 2 # i /\ 2 \in 1 .. size
      BY <2>2, <2>4, <3>1, <3>2
    <3> QED BY <3>4
  <2> QED BY <2>5, <2>6, <2>7, <2>8
<1> QED BY <1>8, <1>9 DEF ManagersLaid

\* Every set of seats but the first has one whose manager is outside of it.
LEMMA TreeOfSeats ==
  ASSUME NEW roles, NEW size, RolesLaid(roles, size), NEW S \in SUBSET (2 .. size), S # {}
  PROVE  \E i \in S : ManagerAt(roles, i) \in (1 .. size) \ S
<1>1. size \in 3 .. 40 /\ size <= Len(roles) /\ Len(roles) \in Nat
  BY DEF RolesLaid
<1>2. /\ ManagerAt(roles, 2) = 1 /\ ManagerAt(roles, 3) = 1
      /\ \A i \in 2 .. Len(roles) :
           /\ ManagerAt(roles, i) \in 1 .. size /\ ManagerAt(roles, i) # i
           /\ ManagerAt(roles, i) \in {1, 2, 3} \/ (roles[i] = "qa" /\ roles[ManagerAt(roles, i)] = "scrum_master")
  BY ManagersOf DEF ManagersLaid
<1>3. 1 \in 1 .. size /\ 1 \notin S /\ \A i \in S : i \in 2 .. Len(roles)
  BY <1>1
<1>4. CASE 2 \in S \/ 3 \in S
  BY <1>2, <1>3, <1>4
<1>5. CASE ~ (2 \in S \/ 3 \in S)
  <2>1. CASE \E i \in S : ManagerAt(roles, i) \in {1, 2, 3}
    BY <1>2, <1>3, <1>5, <2>1
  <2>2. CASE \A i \in S : ManagerAt(roles, i) \notin {1, 2, 3}
    <3>1. \A i \in S : roles[i] = "qa" /\ roles[ManagerAt(roles, i)] = "scrum_master"
      BY <1>2, <1>3, <2>2
    <3> QED BY <1>2, <1>3, <3>1
  <2> QED BY <2>1, <2>2
<1> QED BY <1>4, <1>5

\* What the template of an order is.
TemplateLaid(t, roles, size) ==
  /\ RolesLaid(roles, size) /\ ManagersLaid(roles, size) /\ DOMAIN t = 1 .. Len(roles)
  /\ t = [i \in 1 .. Len(roles) |-> [role |-> roles[i], name |-> 0, enabled |-> i <= size,
                                     manager |-> ManagerAt(roles, i), backup |-> t[i].backup]]
  /\ \A i \in 1 .. Len(roles) : t[i].backup \in (1 .. Len(roles)) \ {i}
  /\ \A i \in size + 1 .. Len(roles) : t[i].backup = ManagerAt(roles, i) /\ ManagerAt(roles, i) \in {1, 2, 3}

\* The template has its seats and its managers, and for everybody a backup.
LEMMA TemplateHas ==
  ASSUME NEW o \in Order
  PROVE  TemplateLaid(Template(o), Seats(o), o.size)
<1>1. PICK t, roles, size : t = Template(o) /\ roles = Seats(o) /\ size = o.size
  OBVIOUS
<1>2. RolesLaid(roles, size) /\ ManagersLaid(roles, size)
  BY <1>1, SeatsLaid, ManagersOf
<1>3. /\ roles \in Seq(Role) /\ size \in 3 .. 40 /\ size <= Len(roles) /\ Len(roles) \in Nat /\ DOMAIN roles = 1 .. Len(roles)
      /\ \A i \in size + 1 .. Len(roles) : roles[i] \in Always /\ \A j \in 1 .. Len(roles) : roles[i] = roles[j] => i = j
  BY <1>2 DEF RolesLaid
<1>4. /\ ManagerAt(roles, 1) = 0
      /\ \A i \in 2 .. Len(roles) :
           /\ ManagerAt(roles, i) \in 1 .. size /\ ManagerAt(roles, i) # i
           /\ ManagerAt(roles, i) \in {1, 2, 3} \/ (roles[i] = "qa" /\ roles[ManagerAt(roles, i)] = "scrum_master")
  BY <1>2 DEF ManagersLaid
<1>5. PICK back : back = [i \in 1 .. Len(roles) |->
                            IF SameAt(roles, i) # 0 THEN SameAt(roles, i)
                            ELSE IF ManagerAt(roles, i) # 0 THEN ManagerAt(roles, i)
                            ELSE LeastOf(DOMAIN roles \ {i})]
  OBVIOUS
<1>6. t = [i \in 1 .. Len(roles) |-> [role |-> roles[i], name |-> 0, enabled |-> i <= size,
                                      manager |-> ManagerAt(roles, i), backup |-> back[i]]]
  BY <1>1, <1>3, <1>5, TemplateDef
<1>7. DOMAIN t = 1 .. Len(roles) /\ \A i \in 1 .. Len(roles) : t[i].backup = back[i]
  BY <1>6
<1>8. ASSUME NEW i \in 1 .. Len(roles) PROVE back[i] \in (1 .. Len(roles)) \ {i}
  <2>1. CASE SameAt(roles, i) # 0
    <3>1. SeatAt(roles, roles[i]) \ {i} \in SUBSET Nat /\ SeatAt(roles, roles[i]) \ {i} \in SUBSET (1 .. Len(roles))
      BY <1>3 DEF SeatAt
    <3>2. SameAt(roles, i) \in SeatAt(roles, roles[i]) \ {i}
      BY <2>1, <3>1, LeastHas DEF SameAt
    <3> QED BY <1>5, <2>1, <3>1, <3>2
  <2>2. CASE SameAt(roles, i) = 0 /\ ManagerAt(roles, i) # 0
    <3>1. i \in 2 .. Len(roles)
      BY <1>3, <1>4, <2>2
    <3>2. ManagerAt(roles, i) \in 1 .. Len(roles) /\ ManagerAt(roles, i) # i
      BY <1>3, <1>4, <3>1
    <3> QED BY <1>5, <2>2, <3>2
  <2>3. CASE SameAt(roles, i) = 0 /\ ManagerAt(roles, i) = 0
    <3>1. DOMAIN roles \ {i} \in SUBSET Nat /\ DOMAIN roles \ {i} # {}
      <4>1. 1 \in DOMAIN roles /\ 2 \in DOMAIN roles
        BY <1>3
      <4> QED BY <1>3, <4>1
    <3>2. LeastOf(DOMAIN roles \ {i}) \in DOMAIN roles \ {i}
      BY <3>1, LeastHas
    <3> QED BY <1>3, <1>5, <2>3, <3>2
  <2> QED BY <2>1, <2>2, <2>3
<1>9. ASSUME NEW i \in size + 1 .. Len(roles)
      PROVE  back[i] = ManagerAt(roles, i) /\ ManagerAt(roles, i) \in {1, 2, 3}
  <2>1. i \in 2 .. Len(roles) /\ i \in 1 .. Len(roles)
    BY <1>3
  <2>2. SeatAt(roles, roles[i]) \ {i} = {}
    BY <1>3 DEF SeatAt
  <2>3. SameAt(roles, i) = 0
    BY <2>2, LeastHas DEF SameAt
  <2>4. "qa" \notin Always
    BY DEF Always, ToSet, AlwaysPresent
  <2>5. ManagerAt(roles, i) \in {1, 2, 3}
    BY <1>3, <1>4, <2>1, <2>4
  <2> QED BY <1>5, <2>1, <2>3, <2>5
<1>10. t = [i \in 1 .. Len(roles) |-> [role |-> roles[i], name |-> 0, enabled |-> i <= size,
                                       manager |-> ManagerAt(roles, i), backup |-> t[i].backup]]
  BY <1>6, <1>7
<1>11. \A i \in 1 .. Len(roles) : t[i].backup \in (1 .. Len(roles)) \ {i}
  BY <1>7, <1>8
<1>12. \A i \in size + 1 .. Len(roles) : t[i].backup = ManagerAt(roles, i) /\ ManagerAt(roles, i) \in {1, 2, 3}
  <2>1. \A i \in size + 1 .. Len(roles) : i \in 1 .. Len(roles)
    BY <1>3
  <2> QED BY <1>7, <1>9, <2>1
<1>13. DOMAIN t = 1 .. Len(roles)
  BY <1>7
<1>14. TemplateLaid(t, roles, size)
  BY <1>2, <1>10, <1>11, <1>12, <1>13 DEF TemplateLaid
<1> QED BY <1>1, <1>14

\* How many of the seats of a role of the mix there are, leaders apart.
SeatsOfKind(roles, size, k) ==
  Cardinality({i \in 1 .. size : Kind(roles[i]) = k /\ roles[i] \notin ToSet(LeadershipFor(size))})
ShareHeld(roles, o) ==
  Total(o.mix) > 0 =>
    \A k \in Mix :
      /\ SeatsOfKind(roles, o.size, k) * Total(o.mix) < o.mix[k] * (o.size - Len(LeadershipFor(o.size))) + Total(o.mix)
      /\ SeatsOfKind(roles, o.size, k) * Total(o.mix) + Total(o.mix) > o.mix[k] * (o.size - Len(LeadershipFor(o.size)))

\* The seats of an order hold the shares that were ordered.
LEMMA SeatedShares ==
  ASSUME NEW o \in Order
  PROVE  ShareHeld(Seated(o), o)
<1>1. PICK roles, size, mix, slots :
        roles = Seated(o) /\ size = o.size /\ mix = o.mix /\ slots = o.size - Len(LeadershipFor(o.size))
  OBVIOUS
<1>2. mix \in [Mix -> Nat] /\ size \in Nat
  <2>1. mix \in [Mix -> Nat] /\ size \in 3 .. 40
    BY <1>1, OrderIs
  <2> QED BY <2>1
<1>3. slots \in Nat /\ (Total(mix) > 0 => \A k \in Mix : ShareAt(roles, size, k, Rounded(mix, slots)[k]))
  BY <1>1, SeatedHas
<1>4. ASSUME Total(mix) > 0, NEW k \in Mix
      PROVE  /\ SeatsOfKind(roles, size, k) * Total(mix) < mix[k] * slots + Total(mix)
             /\ SeatsOfKind(roles, size, k) * Total(mix) + Total(mix) > mix[k] * slots
  <2>1. PICK b : b = Rounded(mix, slots)[k]
    OBVIOUS
  <2>2. b \in Nat /\ b * Total(mix) < mix[k] * slots + Total(mix) /\ b * Total(mix) + Total(mix) > mix[k] * slots
    BY <1>2, <1>3, <1>4, <2>1, RoundedShares
  <2>3. ShareAt(roles, size, k, b)
    BY <1>3, <1>4, <2>1
  <2>4. PICK a \in Nat : /\ a + b <= size
                         /\ \A i \in 1 .. size : Kind(roles[i]) = k /\ roles[i] \notin ToSet(LeadershipFor(size))
                                                   <=> i \in a + 1 .. a + b
    BY <2>3 DEF ShareAt
  <2>5. a + 1 .. a + b \subseteq 1 .. size
    BY <1>2, <2>2, <2>4
  <2>6. {i \in 1 .. size : Kind(roles[i]) = k /\ roles[i] \notin ToSet(LeadershipFor(size))} = a + 1 .. a + b
    BY <2>4, <2>5
  <2>7. Cardinality(a + 1 .. a + b) = b
    <3>1. PICK lo \in Int, hi \in Int : lo = a + 1 /\ hi = a + b
      BY <2>2
    <3>2. (IF lo > hi THEN 0 ELSE hi - lo + 1) = b
      BY <2>2, <3>1
    <3>3. Cardinality(lo .. hi) = IF lo > hi THEN 0 ELSE hi - lo + 1
      BY FS_Interval
    <3> QED BY <3>1, <3>2, <3>3
  <2>8. SeatsOfKind(roles, size, k) = b
    BY <2>6, <2>7 DEF SeatsOfKind
  <2> QED BY <2>2, <2>8
<1> QED BY <1>1, <1>4 DEF ShareHeld

SameValues(A, B) ==
  /\ \A i \in DOMAIN A : \E j \in DOMAIN B : B[j] = A[i]
  /\ \A j \in DOMAIN B : \E i \in DOMAIN A : A[i] = B[j]

\* Two finite functions that have each value as often have the same values.
LEMMA SameCountsHave ==
  ASSUME NEW A, NEW B, IsFiniteSet(DOMAIN A), IsFiniteSet(DOMAIN B), SameCounts(A, B)
  PROVE  SameValues(A, B)
<1>1. \A r \in ToSet(A) \cup ToSet(B) :
        Cardinality({i \in DOMAIN A : A[i] = r}) = Cardinality({i \in DOMAIN B : B[i] = r})
  BY DEF SameCounts
<1>2. /\ \A i \in DOMAIN A : A[i] \in ToSet(A) \cup ToSet(B)
      /\ \A i \in DOMAIN B : B[i] \in ToSet(A) \cup ToSet(B)
  BY DEF ToSet
<1>3. ASSUME NEW f, IsFiniteSet(DOMAIN f), NEW r
      PROVE  Cardinality({i \in DOMAIN f : f[i] = r}) = 0 <=> {i \in DOMAIN f : f[i] = r} = {}
  <2>1. IsFiniteSet({i \in DOMAIN f : f[i] = r})
    BY <1>3, FS_Subset
  <2> QED BY <2>1, FS_EmptySet
<1>4. \A r \in ToSet(A) \cup ToSet(B) : {i \in DOMAIN A : A[i] = r} = {} <=> {i \in DOMAIN B : B[i] = r} = {}
  <2> SUFFICES ASSUME NEW r \in ToSet(A) \cup ToSet(B)
               PROVE  {i \in DOMAIN A : A[i] = r} = {} <=> {i \in DOMAIN B : B[i] = r} = {}
    OBVIOUS
  <2>1. /\ Cardinality({i \in DOMAIN A : A[i] = r}) = 0 <=> {i \in DOMAIN A : A[i] = r} = {}
        /\ Cardinality({i \in DOMAIN B : B[i] = r}) = 0 <=> {i \in DOMAIN B : B[i] = r} = {}
    BY <1>3
  <2>2. Cardinality({i \in DOMAIN A : A[i] = r}) = Cardinality({i \in DOMAIN B : B[i] = r})
    BY <1>1
  <2> QED BY <2>1, <2>2
<1> QED BY <1>2, <1>4 DEF SameValues

\* Such functions of the seats hold the same shares.
LEMMA SharesCopied ==
  ASSUME NEW o \in Order, NEW A, DOMAIN A = 1 .. o.size, SameCounts(A, Seated(o))
  PROVE  ShareHeld(A, o)
<1>1. PICK B, size, leads : B = Seated(o) /\ size = o.size /\ leads = ToSet(LeadershipFor(o.size))
  OBVIOUS
<1>2. size \in Nat /\ DOMAIN A = 1 .. size /\ DOMAIN B = 1 .. size /\ IsFiniteSet(1 .. size)
  <2>1. size \in Nat /\ B \in Seq(Role) /\ Len(B) = size
    BY <1>1, OrderIs, SeatedHas
  <2>2. IsFiniteSet(1 .. size)
    BY <2>1, FS_Interval
  <2> QED BY <1>1, <2>1, <2>2
<1>3. SameCounts(A, B)
  BY <1>1
<1>4. \A i \in 1 .. size : A[i] \in ToSet(B)
  <2>1. IsFiniteSet(DOMAIN A) /\ IsFiniteSet(DOMAIN B)
    BY <1>2
  <2>2. \A i \in DOMAIN A : \E j \in DOMAIN B : B[j] = A[i]
    <3>1. SameValues(A, B)
      BY <1>3, <2>1, SameCountsHave
    <3> QED BY <3>1 DEF SameValues
  <2> QED BY <1>2, <2>2 DEF ToSet
<1>5. IsFiniteSet(ToSet(B))
  <2>1. PICK f : f = [i \in 1 .. size |-> B[i]]
    OBVIOUS
  <2>2. f \in Surjection(1 .. size, ToSet(B))
    BY <1>2, <2>1 DEF ToSet, Surjection
  <2> QED BY <1>2, <2>2, FS_Surjection
<1>6. ASSUME NEW k PROVE SeatsOfKind(A, size, k) = SeatsOfKind(B, size, k)
  <2>1. PICK R : R = {r \in ToSet(B) : Kind(r) = k /\ r \notin leads}
    OBVIOUS
  <2>2. IsFiniteSet(R)
    BY <1>5, <2>1, FS_Subset
  <2>3. SameIn(A, B, R)
    BY <1>3, <2>1 DEF SameCounts, SameIn
  <2>4. CountIn(A, R) = CountIn(B, R)
    <3>1. IsFiniteSet(DOMAIN A) /\ IsFiniteSet(DOMAIN B)
      BY <1>2
    <3> QED BY <2>2, <2>3, <3>1, SameCountsOfSet
  <2>5. \A i \in 1 .. size : B[i] \in ToSet(B)
    BY <1>2 DEF ToSet
  <2>6. /\ {i \in DOMAIN A : A[i] \in R} = {i \in 1 .. size : Kind(A[i]) = k /\ A[i] \notin leads}
        /\ {i \in DOMAIN B : B[i] \in R} = {i \in 1 .. size : Kind(B[i]) = k /\ B[i] \notin leads}
    BY <1>2, <1>4, <2>1, <2>5
  <2> QED BY <1>1, <2>4, <2>6 DEF SeatsOfKind, CountIn
<1>7. ShareHeld(B, o)
  BY <1>1, SeatedShares
<1> QED BY <1>1, <1>6, <1>7 DEF ShareHeld

-----------------------------------------------------------------------------
\* The way up from an agent, as acceptCompanyPlan follows it.
WayUp(plan, start, way) ==
  way = [k \in 0 .. Len(plan) |-> IF k = 0 THEN start
                                 ELSE IF way[k - 1] \in DOMAIN plan THEN plan[way[k - 1]].manager ELSE 0]

\* A plan has no cycle when every way up comes to the CEO.
LEMMA AcyclicDef ==
  ASSUME NEW plan, NEW ceo
  PROVE  AcyclicToCeo(plan, ceo) <=>
           \A start \in DOMAIN plan : \E k \in 0 .. Len(plan) : (CHOOSE way : WayUp(plan, start, way))[k] = ceo
BY DEF AcyclicToCeo, WayUp

\* There is such a way, from everybody.
LEMMA WayUpExists ==
  ASSUME NEW plan, NEW start, Len(plan) \in Nat
  PROVE  \E way : WayUp(plan, start, way)
<1>1. PICK n, graph : n = Len(plan) /\ graph = [i \in DOMAIN plan |-> plan[i].manager]
  OBVIOUS
<1>2. PICK f : f = [k \in 0 .. n |-> IF k = 0 THEN start
                                    ELSE IF f[k - 1] \in DOMAIN graph THEN graph[f[k - 1]] ELSE 0]
  <2>1. n \in Nat
    BY <1>1
  <2>2. \E f : Steps(f, graph, start, 0, n)
    BY <2>1, StepsExist
  <2> QED BY <2>2 DEF Steps
<1>3. DOMAIN graph = DOMAIN plan /\ \A i \in DOMAIN plan : graph[i] = plan[i].manager
  BY <1>1
<1>4. f = [k \in 0 .. n |-> IF k = 0 THEN start
                            ELSE IF f[k - 1] \in DOMAIN plan THEN plan[f[k - 1]].manager ELSE 0]
  <2>1. \A k \in 0 .. n : (IF k = 0 THEN start ELSE IF f[k - 1] \in DOMAIN graph THEN graph[f[k - 1]] ELSE 0)
          = (IF k = 0 THEN start ELSE IF f[k - 1] \in DOMAIN plan THEN plan[f[k - 1]].manager ELSE 0)
    BY <1>3
  <2> QED BY <1>2, <2>1
<1> QED BY <1>1, <1>4 DEF WayUp

\* In a plan whose ways lead to the ceo, every set of the others has one whose manager
\* is outside of it.
LEMMA WaysLeadOut ==
  ASSUME NEW plan, NEW size \in Nat, Len(plan) = size, DOMAIN plan = 1 .. size, NEW ceo \in 1 .. size,
         AcyclicToCeo(plan, ceo), NEW S \in SUBSET ((1 .. size) \ {ceo}), S # {}
  PROVE  \E i \in S : plan[i].manager \in (1 .. size) \ S
<1>1. PICK start \in S : TRUE
  OBVIOUS
<1>2. PICK way : way = CHOOSE f : WayUp(plan, start, f)
  OBVIOUS
<1>3. WayUp(plan, start, way)
  <2>1. \E f : WayUp(plan, start, f)
    BY WayUpExists
  <2> QED BY <1>2, <2>1
<1>4. PICK last \in 0 .. size : way[last] = ceo
  BY <1>1, <1>2, AcyclicDef
<1>5. way[0] = start /\ \A k \in 1 .. size : way[k] = IF way[k - 1] \in 1 .. size THEN plan[way[k - 1]].manager ELSE 0
  <2>1. way = [k \in 0 .. size |-> IF k = 0 THEN start
                                  ELSE IF way[k - 1] \in 1 .. size THEN plan[way[k - 1]].manager ELSE 0]
    BY <1>3 DEF WayUp
  <2>2. 0 \in 0 .. size /\ \A k \in 1 .. size : k \in 0 .. size /\ k # 0
    OBVIOUS
  <2> QED BY <2>1, <2>2
<1>6. PICK N : N = {k \in 0 .. size : way[k] \notin S}
  OBVIOUS
<1>7. PICK m \in N : \A k \in N : m <= k
  <2>1. N \in SUBSET Nat /\ last \in N
    BY <1>4, <1>6
  <2> QED BY <2>1, MinOfSome
<1>8. m \in 1 .. size /\ m - 1 \in 0 .. size /\ way[m - 1] \in S /\ way[m] \notin S
  <2>1. m \in 0 .. size /\ m # 0 /\ way[m] \notin S
    BY <1>1, <1>5, <1>6, <1>7
  <2>2. m - 1 \in 0 .. size /\ ~ (m <= m - 1)
    BY <2>1
  <2>3. m - 1 \notin N
    BY <1>7, <2>2
  <2> QED BY <1>6, <2>1, <2>2, <2>3
<1>9. way[m] = plan[way[m - 1]].manager
  BY <1>5, <1>8
<1>10. way[m] \in 1 .. size
  <2> SUFFICES ASSUME way[m] \notin 1 .. size PROVE FALSE
    OBVIOUS
  <2>1. PICK M : M = {k \in m + 1 .. size : way[k] \in 1 .. size}
    OBVIOUS
  <2>2. last \in M
    <3>1. last \in N
      BY <1>4, <1>6
    <3>2. m <= last /\ m # last
      BY <1>4, <1>7, <3>1
    <3> QED BY <1>4, <1>8, <2>1, <3>2
  <2>3. PICK k \in M : \A j \in M : k <= j
    <3>1. M \in SUBSET Nat
      BY <1>8, <2>1
    <3> QED BY <2>2, <3>1, MinOfSome
  <2>4. k \in m + 1 .. size /\ way[k] \in 1 .. size
    BY <2>1, <2>3
  <2>5. way[k - 1] \notin 1 .. size
    <3>1. CASE k - 1 = m
      BY <3>1
    <3>2. CASE k - 1 # m
      <4>1. k - 1 \in m + 1 .. size /\ ~ (k <= k - 1)
        BY <1>8, <2>4, <3>2
      <4>2. k - 1 \notin M
        BY <2>3, <4>1
      <4> QED BY <2>1, <4>1, <4>2
    <3> QED BY <3>1, <3>2
  <2>6. way[k] = 0
    <3>1. k \in 1 .. size
      BY <1>8, <2>4
    <3> QED BY <1>5, <2>5, <3>1
  <2> QED BY <2>4, <2>6
<1> QED BY <1>8, <1>9, <1>10

\* A tree of managers under one ceo.
TreeOf(t, n, size) ==
  \E ceo \in 1 .. size :
    /\ \A i \in 1 .. n : (t[i].manager = 0 <=> i = ceo) /\ (t[i].role = "ceo" <=> i = ceo)
    /\ \A S \in SUBSET ((1 .. size) \ {ceo}) : S # {} => \E i \in S : t[i].manager \in (1 .. size) \ S
    /\ \A i \in size + 1 .. n : t[i].manager \in 1 .. size

\* A sound company but for its names and its owners.
SoundTeam(t, n, size) ==
  /\ n \in Nat /\ size \in 3 .. 40 /\ size <= n /\ DOMAIN t = 1 .. n
  /\ \A i \in 1 .. n : t[i].enabled <=> i <= size
  /\ TreeOf(t, n, size)
  /\ \A r \in Always : \E i \in 1 .. n : t[i].role = r
  /\ \A i \in 1 .. n : t[i].backup \in (1 .. n) \ {i}
RolesOf(t) == [i \in DOMAIN t |-> t[i].role]

\* The shares of the seats depend on the roles in the seats.
LEMMA ShareOfSame ==
  ASSUME NEW o \in Order, NEW A, NEW B, ShareHeld(A, o), \A i \in 1 .. o.size : B[i] = A[i]
  PROVE  ShareHeld(B, o)
<1>1. ASSUME NEW k PROVE SeatsOfKind(B, o.size, k) = SeatsOfKind(A, o.size, k)
  <2>1. {i \in 1 .. o.size : Kind(B[i]) = k /\ B[i] \notin ToSet(LeadershipFor(o.size))}
          = {i \in 1 .. o.size : Kind(A[i]) = k /\ A[i] \notin ToSet(LeadershipFor(o.size))}
    OBVIOUS
  <2> QED BY <2>1 DEF SeatsOfKind
<1> QED BY <1>1 DEF ShareHeld

\* The company of the template is sound.
LEMMA TemplateSound ==
  ASSUME NEW o \in Order
  PROVE  /\ SoundTeam(Template(o), Len(Seats(o)), o.size)
         /\ ShareHeld(RolesOf(Template(o)), o)
         /\ \A i \in 1 .. Len(Seats(o)) : Template(o)[i].role = Seats(o)[i] /\ Template(o)[i].name = 0
<1>1. PICK t, roles, size, n : t = Template(o) /\ roles = Seats(o) /\ size = o.size /\ n = Len(roles)
  OBVIOUS
<1>2. /\ RolesLaid(roles, size) /\ ManagersLaid(roles, size) /\ DOMAIN t = 1 .. n
      /\ t = [i \in 1 .. n |-> [role |-> roles[i], name |-> 0, enabled |-> i <= size,
                                manager |-> ManagerAt(roles, i), backup |-> t[i].backup]]
      /\ \A i \in 1 .. n : t[i].backup \in (1 .. n) \ {i}
  <2>1. TemplateLaid(t, roles, size)
    BY <1>1, TemplateHas
  <2> QED BY <1>1, <2>1 DEF TemplateLaid
<1>3. \A i \in 1 .. n : /\ t[i].role = roles[i] /\ t[i].name = 0 /\ t[i].manager = ManagerAt(roles, i)
                        /\ t[i].enabled <=> i <= size
  <2>1. PICK back : back = [i \in 1 .. n |-> t[i].backup]
    OBVIOUS
  <2>2. t = [i \in 1 .. n |-> [role |-> roles[i], name |-> 0, enabled |-> i <= size,
                               manager |-> ManagerAt(roles, i), backup |-> back[i]]]
    BY <1>2, <2>1
  <2> QED BY <2>2
<1>4. /\ roles \in Seq(Role) /\ size \in 3 .. 40 /\ size <= n /\ n \in Nat
      /\ \A i \in 1 .. n : roles[i] = "ceo" <=> i = 1
      /\ \A r \in Always : \E i \in 1 .. n : roles[i] = r
  BY <1>1, <1>2 DEF RolesLaid
<1>5. /\ ManagerAt(roles, 1) = 0
      /\ \A i \in 2 .. n : ManagerAt(roles, i) \in 1 .. size
  BY <1>1, <1>2 DEF ManagersLaid
<1>6. TreeOf(t, n, size)
  <2>1. 1 \in 1 .. size /\ \A i \in 1 .. n : i = 1 \/ i \in 2 .. n
    BY <1>4
  <2>2. \A i \in 2 .. n : i # 1 /\ i \in 1 .. n
    BY <1>4
  <2>3. \A i \in 1 .. n : (t[i].manager = 0 <=> i = 1) /\ (t[i].role = "ceo" <=> i = 1)
    <3>1. \A i \in 2 .. n : ManagerAt(roles, i) # 0
      BY <1>4, <1>5
    <3> QED BY <1>3, <1>4, <1>5, <2>1, <2>2, <3>1
  <2>4. ASSUME NEW S \in SUBSET ((1 .. size) \ {1}), S # {}
        PROVE  \E i \in S : t[i].manager \in (1 .. size) \ S
    <3>1. (1 .. size) \ {1} = 2 .. size /\ 2 .. size \subseteq 1 .. n
      BY <1>4
    <3>2. S \in SUBSET (2 .. size)
      BY <3>1
    <3>3. PICK i \in S : ManagerAt(roles, i) \in (1 .. size) \ S
      BY <1>2, <2>4, <3>2, TreeOfSeats
    <3>4. t[i].manager = ManagerAt(roles, i)
      BY <1>3, <3>1, <3>2
    <3> QED BY <3>3, <3>4
  <2>5. \A i \in size + 1 .. n : t[i].manager \in 1 .. size
    <3>1. \A i \in size + 1 .. n : i \in 2 .. n
      BY <1>4
    <3> QED BY <1>3, <1>5, <2>2, <3>1
  <2> QED BY <2>1, <2>3, <2>4, <2>5 DEF TreeOf
<1>7. \A r \in Always : \E i \in 1 .. n : t[i].role = r
  BY <1>3, <1>4
<1>8. SoundTeam(t, n, size)
  BY <1>2, <1>3, <1>4, <1>6, <1>7 DEF SoundTeam
<1>9. ShareHeld(RolesOf(t), o)
  <2>1. ShareHeld(Seated(o), o)
    BY SeatedShares
  <2>2. \A i \in 1 .. size : i \in 1 .. n /\ roles[i] = Seated(o)[i]
    <3>1. \A i \in 1 .. size : roles[i] = Seated(o)[i]
      BY <1>1, SeatsHave
    <3> QED BY <1>4, <3>1
  <2>3. \A i \in 1 .. size : RolesOf(t)[i] = Seated(o)[i]
    BY <1>2, <1>3, <2>2 DEF RolesOf
  <2> QED BY <1>1, <2>1, <2>3, ShareOfSame
<1> QED BY <1>1, <1>3, <1>8, <1>9

-----------------------------------------------------------------------------
\* What an accepted plan has.
PlanLaid(o, plan, ceo) ==
  /\ DOMAIN plan = 1 .. o.size /\ Len(plan) = o.size
  /\ SameCounts([i \in 1 .. o.size |-> plan[i].role], Seated(o))
  /\ ceo \in 1 .. o.size /\ plan[ceo].manager = 0
  /\ \A i \in 1 .. o.size : plan[i].role = "ceo" => i = ceo
  /\ plan[ceo].role = "ceo" /\ AcyclicToCeo(plan, ceo)
  /\ \A i, j \in 1 .. o.size : plan[i].cleaned = plan[j].cleaned => i = j

\* An accepted plan has these.
LEMMA AcceptedHas ==
  ASSUME NEW o \in Order, NEW T, NEW plan \in Seq(T), Accepted(o, plan)
  PROVE  \E ceo : PlanLaid(o, plan, ceo)
<1>1. PICK size \in Nat : size = o.size
  <2>1. o.size \in 3 .. 40
    BY OrderIs
  <2> QED BY <2>1
<1>2. PICK ceos : ceos = {i \in DOMAIN plan : plan[i].role = "ceo"}
  OBVIOUS
<1>3. PICK ceo : ceo = LeastOf({i \in ceos : plan[i].manager = 0})
  OBVIOUS
<1>4. /\ Len(plan) = size
      /\ SameCounts([i \in DOMAIN plan |-> plan[i].role], Seated(o))
      /\ ceo # 0 /\ Cardinality(ceos) = 1 /\ AcyclicToCeo(plan, ceo)
      /\ AllDifferent([i \in DOMAIN plan |-> plan[i].cleaned])
  BY <1>1, <1>2, <1>3 DEF Accepted
<1>5. DOMAIN plan = 1 .. size
  BY <1>4
<1>6. ceo \in ceos /\ plan[ceo].manager = 0
  <2>1. {i \in ceos : plan[i].manager = 0} \in SUBSET Nat
    BY <1>2, <1>5
  <2>2. {i \in ceos : plan[i].manager = 0} # {}
    BY <1>3, <1>4, <2>1, LeastHas
  <2>3. ceo \in {i \in ceos : plan[i].manager = 0}
    BY <1>3, <2>1, <2>2, LeastHas
  <2> QED BY <2>3
<1>7. \A i \in ceos : i = ceo
  <2>1. IsFiniteSet(ceos)
    <3>1. IsFiniteSet(1 .. size)
      BY FS_Interval
    <3> QED BY <1>2, <1>5, <3>1, FS_Subset
  <2>2. \E x : ceos = {x}
    BY <1>4, <2>1, FS_Singleton
  <2> QED BY <1>6, <2>2
<1>8. ASSUME NEW i \in 1 .. size, NEW j \in 1 .. size, plan[i].cleaned = plan[j].cleaned PROVE i = j
  <2>1. PICK names : names = [m \in DOMAIN plan |-> plan[m].cleaned]
    OBVIOUS
  <2>2. \A a, b \in DOMAIN names : names[a] = names[b] => a = b
    BY <1>4, <2>1 DEF AllDifferent, IsInjective
  <2>3. DOMAIN names = 1 .. size /\ names[i] = plan[i].cleaned /\ names[j] = plan[j].cleaned
    BY <1>5, <2>1
  <2> QED BY <1>8, <2>2, <2>3
<1>9. ceo \in 1 .. size /\ plan[ceo].role = "ceo" /\ \A i \in 1 .. size : plan[i].role = "ceo" => i = ceo
  BY <1>2, <1>5, <1>6, <1>7
<1>10. PlanLaid(o, plan, ceo)
  BY <1>1, <1>4, <1>5, <1>6, <1>8, <1>9 DEF PlanLaid
<1> QED BY <1>10

-----------------------------------------------------------------------------
TakerOf(template, plan, s) == LeastOf({i \in DOMAIN plan : SlotOf(template, plan, i) = s})

\* Who takes one of the first three seats is one of the plan.
LEMMA TakerHas ==
  ASSUME NEW o \in Order, NEW plan, NEW ceo, PlanLaid(o, plan, ceo), NEW s \in {1, 2, 3}
  PROVE  TakerOf(Template(o), plan, s) \in 1 .. o.size
<1>1. PICK t, size, role : t = Template(o) /\ size = o.size /\ role = Seats(o)[s]
  OBVIOUS
<1>2. /\ DOMAIN plan = 1 .. size /\ Len(plan) = size
      /\ SameCounts([i \in 1 .. size |-> plan[i].role], Seated(o))
  BY <1>1 DEF PlanLaid
<1>3. size \in 3 .. 40 /\ size \in Nat
  <2>1. size \in 3 .. 40
    BY <1>1, OrderIs
  <2> QED BY <2>1
<1>4. /\ \A i \in 1 .. size : t[i].role = Seats(o)[i] /\ Seats(o)[i] = Seated(o)[i]
      /\ s \in 1 .. size /\ \A i \in 1 .. size : Seats(o)[i] = role <=> i = s
  <2>1. RolesLaid(Seats(o), size)
    BY <1>1, SeatsLaid
  <2>2. /\ size <= Len(Seats(o)) /\ Seats(o) \in Seq(Role)
        /\ \A i \in 1 .. Len(Seats(o)) : /\ Seats(o)[i] = "ceo" <=> i = 1
                                         /\ Seats(o)[i] = "cto" <=> i = 2
                                         /\ Seats(o)[i] = "product_owner" <=> i = 3
    BY <2>1 DEF RolesLaid
  <2>3. s \in 1 .. size /\ \A i \in 1 .. size : i \in 1 .. Len(Seats(o))
    BY <1>3, <2>2
  <2>4. \A i \in 1 .. size : Seats(o)[i] = role <=> i = s
    BY <1>1, <2>2, <2>3
  <2>5. \A i \in 1 .. Len(Seats(o)) : t[i].role = Seats(o)[i]
    BY <1>1, TemplateSound
  <2>6. \A i \in 1 .. size : Seats(o)[i] = Seated(o)[i]
    BY <1>1, SeatsHave
  <2> QED BY <2>3, <2>4, <2>5, <2>6
<1>5. \E i : {j \in 1 .. size : plan[j].role = role} = {i}
  <2>1. PICK A : A = [i \in 1 .. size |-> plan[i].role]
    OBVIOUS
  <2>2. DOMAIN A = 1 .. size /\ \A i \in 1 .. size : A[i] = plan[i].role
    BY <2>1
  <2>3. DOMAIN Seated(o) = 1 .. size
    <3>1. Seated(o) \in Seq(Role) /\ Len(Seated(o)) = size
      BY <1>1, SeatedHas
    <3> QED BY <1>3, <3>1
  <2>4. {j \in DOMAIN Seated(o) : Seated(o)[j] = role} = {s} /\ role \in ToSet(Seated(o))
    BY <1>4, <2>3 DEF ToSet
  <2>5. Cardinality({j \in DOMAIN A : A[j] = role}) = Cardinality({s})
    <3>1. SameCounts(A, Seated(o))
      BY <1>2, <2>1
    <3>2. Cardinality({j \in DOMAIN A : A[j] = role}) = Cardinality({j \in DOMAIN Seated(o) : Seated(o)[j] = role})
      BY <2>4, <3>1 DEF SameCounts
    <3> QED BY <2>4, <3>2
  <2>6. IsFiniteSet({j \in DOMAIN A : A[j] = role})
    <3>1. IsFiniteSet(1 .. size)
      BY <1>3, FS_Interval
    <3> QED BY <2>2, <3>1, FS_Subset
  <2>7. Cardinality({s}) = 1
    BY FS_Singleton
  <2>8. \E i : {j \in DOMAIN A : A[j] = role} = {i}
    <3>1. Cardinality({j \in DOMAIN A : A[j] = role}) = 1
      BY <2>5, <2>7
    <3> QED BY <2>6, <3>1, FS_Singleton
  <2>9. {j \in DOMAIN A : A[j] = role} = {j \in 1 .. size : plan[j].role = role}
    BY <2>2
  <2> QED BY <2>8, <2>9
<1>6. PICK i : {j \in 1 .. size : plan[j].role = role} = {i}
  BY <1>5
<1>7. i \in 1 .. size /\ plan[i].role = role /\ \A j \in 1 .. size : plan[j].role = role => j = i
  BY <1>6
<1>8. SlotOf(t, plan, i) = s
  <2>1. {j \in 1 .. size : t[j].role = plan[i].role} = {s}
    BY <1>4, <1>7
  <2>2. {j \in 1 .. s : t[j].role = plan[i].role} = {s}
    <3>1. \A j \in 1 .. s : j \in 1 .. size
      BY <1>3, <1>4
    <3>2. s \in 1 .. s
      OBVIOUS
    <3> QED BY <1>4, <1>7, <3>1, <3>2
  <2>3. {j \in 1 .. i : plan[j].role = plan[i].role} = {i}
    <3>1. \A j \in 1 .. i : j \in 1 .. size
      BY <1>3, <1>7
    <3>2. i \in 1 .. i
      BY <1>7
    <3> QED BY <1>7, <3>1, <3>2
  <2>4. Cardinality({s}) = 1 /\ Cardinality({i}) = 1
    BY FS_Singleton
  <2>5. SlotOf(t, plan, i) =
          CHOOSE x \in {j \in 1 .. size : t[j].role = plan[i].role} :
            Cardinality({j \in 1 .. x : t[j].role = plan[i].role})
              = Cardinality({j \in 1 .. i : plan[j].role = plan[i].role})
    BY <1>2 DEF SlotOf
  <2>6. \A x \in {s} : Cardinality({j \in 1 .. x : t[j].role = plan[i].role})
                        = Cardinality({j \in 1 .. i : plan[j].role = plan[i].role})
    BY <2>2, <2>3, <2>4
  <2>7. SlotOf(t, plan, i) =
          CHOOSE x \in {s} : Cardinality({j \in 1 .. x : t[j].role = plan[i].role})
                              = Cardinality({j \in 1 .. i : plan[j].role = plan[i].role})
    BY <2>1, <2>5
  <2>8. SlotOf(t, plan, i) \in {s}
    BY <2>6, <2>7
  <2> QED BY <2>8
<1>9. PICK U : U = {j \in DOMAIN plan : SlotOf(t, plan, j) = s}
  OBVIOUS
<1>10. U \in SUBSET Nat /\ U \subseteq 1 .. size /\ U # {}
  BY <1>2, <1>7, <1>8, <1>9
<1>11. LeastOf(U) \in 1 .. size
  BY <1>10, LeastHas
<1> QED BY <1>1, <1>9, <1>11 DEF TakerOf

BackupIn(plan, i) ==
  IF plan[i].backup \in DOMAIN plan \ {i} THEN plan[i].backup ELSE LeastOf(DOMAIN plan \ {i})

\* The planned roster, with what it is made of named.
LEMMA PlannedRosterDef ==
  ASSUME NEW template, NEW o, NEW plan
  PROVE  PlannedRoster(template, o, plan) =
           [i \in DOMAIN template |->
              IF i <= o.size
                THEN [role |-> plan[i].role, name |-> plan[i].cleaned, enabled |-> TRUE,
                      manager |-> plan[i].manager, backup |-> BackupIn(plan, i)]
                ELSE [template[i] EXCEPT !.manager = TakerOf(template, plan, @),
                                         !.backup = TakerOf(template, plan, @)]]
BY DEF PlannedRoster, BackupIn, TakerOf

\* The company that is made of a template and an accepted plan, seat by seat.
LEMMA PlannedHas ==
  ASSUME NEW o \in Order, NEW plan, NEW ceo, PlanLaid(o, plan, ceo)
  PROVE  LET t == PlannedRoster(Template(o), o, plan)
             n == Len(Seats(o)) IN
         /\ DOMAIN t = 1 .. n /\ n \in Nat /\ o.size \in 3 .. 40 /\ o.size <= n
         /\ \A i \in 1 .. o.size : /\ t[i].role = plan[i].role /\ t[i].name = plan[i].cleaned /\ t[i].enabled
                                   /\ t[i].manager = plan[i].manager /\ t[i].backup = BackupIn(plan, i)
         /\ \A i \in o.size + 1 .. n : /\ t[i].role = Seats(o)[i] /\ ~ t[i].enabled
                                       /\ t[i].manager \in 1 .. o.size /\ t[i].backup \in 1 .. o.size
<1>1. PICK u, roles, size, n : u = Template(o) /\ roles = Seats(o) /\ size = o.size /\ n = Len(roles)
  OBVIOUS
<1>2. /\ RolesLaid(roles, size) /\ DOMAIN u = 1 .. n
      /\ u = [i \in 1 .. n |-> [role |-> roles[i], name |-> 0, enabled |-> i <= size,
                                manager |-> ManagerAt(roles, i), backup |-> u[i].backup]]
      /\ \A i \in size + 1 .. n : u[i].backup = ManagerAt(roles, i) /\ ManagerAt(roles, i) \in {1, 2, 3}
  <2>1. TemplateLaid(u, roles, size)
    BY <1>1, TemplateHas
  <2> QED BY <1>1, <2>1 DEF TemplateLaid
<1>3. size \in 3 .. 40 /\ size <= n /\ n \in Nat
  BY <1>1, <1>2 DEF RolesLaid
<1>4. PICK taker : taker = [s \in {1, 2, 3} |-> TakerOf(u, plan, s)]
  OBVIOUS
<1>5. \A s \in {1, 2, 3} : taker[s] \in 1 .. size /\ taker[s] = TakerOf(u, plan, s)
  BY <1>1, <1>4, TakerHas
<1>6. PICK back, mana : back = [i \in 1 .. n |-> u[i].backup] /\ mana = [i \in 1 .. n |-> ManagerAt(roles, i)]
  OBVIOUS
<1>7. u = [i \in 1 .. n |-> [role |-> roles[i], name |-> 0, enabled |-> i <= size,
                             manager |-> mana[i], backup |-> back[i]]]
  BY <1>2, <1>6
<1>8. \A i \in size + 1 .. n : i \in 1 .. n /\ mana[i] \in {1, 2, 3} /\ back[i] = mana[i]
  <2>1. \A i \in size + 1 .. n : i \in 1 .. n
    BY <1>3
  <2>2. \A i \in 1 .. n : mana[i] = ManagerAt(roles, i) /\ back[i] = u[i].backup
    BY <1>6
  <2> QED BY <1>2, <2>1, <2>2
<1>9. PICK t : t = PlannedRoster(u, o, plan)
  OBVIOUS
<1>10. t = [i \in 1 .. n |->
              IF i <= size
                THEN [role |-> plan[i].role, name |-> plan[i].cleaned, enabled |-> TRUE,
                      manager |-> plan[i].manager, backup |-> BackupIn(plan, i)]
                ELSE [u[i] EXCEPT !.manager = TakerOf(u, plan, @), !.backup = TakerOf(u, plan, @)]]
  BY <1>1, <1>2, <1>9, PlannedRosterDef
<1>11. ASSUME NEW i \in size + 1 .. n
       PROVE  t[i].role = roles[i] /\ ~ t[i].enabled /\ t[i].manager \in 1 .. size /\ t[i].backup \in 1 .. size
  <2>1. i \in 1 .. n /\ ~ (i <= size) /\ mana[i] \in {1, 2, 3} /\ back[i] = mana[i]
    BY <1>3, <1>8
  <2>2. u[i] = [role |-> roles[i], name |-> 0, enabled |-> i <= size, manager |-> mana[i], backup |-> back[i]]
    BY <1>7, <2>1
  <2>3. t[i] = [u[i] EXCEPT !.manager = TakerOf(u, plan, @), !.backup = TakerOf(u, plan, @)]
    BY <1>10, <2>1
  <2>4. u[i].manager = mana[i] /\ u[i].backup = mana[i] /\ u[i].role = roles[i] /\ (u[i].enabled <=> i <= size)
    <3>1. \A j \in 1 .. n : /\ u[j].manager = mana[j] /\ u[j].backup = back[j] /\ u[j].role = roles[j]
                            /\ u[j].enabled <=> j <= size
      BY <1>7
    <3>2. u[i].manager = mana[i] /\ u[i].backup = mana[i] /\ u[i].role = roles[i]
      BY <2>1, <3>1
    <3>3. u[i].enabled <=> i <= size
      BY <2>1, <3>1
    <3> QED BY <3>2, <3>3
  <2>5. /\ t[i].manager = TakerOf(u, plan, u[i].manager) /\ t[i].backup = TakerOf(u, plan, u[i].backup)
        /\ t[i].role = u[i].role /\ t[i].enabled = u[i].enabled
    BY <2>2, <2>3
  <2>6. TakerOf(u, plan, mana[i]) \in 1 .. size
    BY <1>5, <2>1
  <2> QED BY <2>1, <2>4, <2>5, <2>6
<1>12. ASSUME NEW i \in 1 .. size
       PROVE  /\ t[i].role = plan[i].role /\ t[i].name = plan[i].cleaned /\ t[i].enabled
              /\ t[i].manager = plan[i].manager /\ t[i].backup = BackupIn(plan, i)
  <2>1. i \in 1 .. n /\ i <= size
    BY <1>3
  <2>2. t[i] = [role |-> plan[i].role, name |-> plan[i].cleaned, enabled |-> TRUE,
                manager |-> plan[i].manager, backup |-> BackupIn(plan, i)]
    BY <1>10, <2>1
  <2> QED BY <2>2
<1>13. DOMAIN t = 1 .. n
  BY <1>10
<1> QED BY <1>1, <1>3, <1>9, <1>11, <1>12, <1>13

\* It is sound, holds the shares, and no two of its names are equal.
LEMMA PlannedSound ==
  ASSUME NEW o \in Order, NEW T, NEW plan \in Seq(T), Accepted(o, plan)
  PROVE  LET t == PlannedRoster(Template(o), o, plan) IN
         /\ SoundTeam(t, Len(Seats(o)), o.size) /\ ShareHeld(RolesOf(t), o)
         /\ \A i, j \in 1 .. o.size : t[i].name = t[j].name => i = j
<1>1. PICK ceo : PlanLaid(o, plan, ceo)
  BY AcceptedHas
<1>2. PICK t, roles, size, n :
        t = PlannedRoster(Template(o), o, plan) /\ roles = Seats(o) /\ size = o.size /\ n = Len(roles)
  OBVIOUS
<1>3. /\ DOMAIN t = 1 .. n /\ n \in Nat /\ size \in 3 .. 40 /\ size <= n
      /\ \A i \in 1 .. size : /\ t[i].role = plan[i].role /\ t[i].name = plan[i].cleaned /\ t[i].enabled
                              /\ t[i].manager = plan[i].manager /\ t[i].backup = BackupIn(plan, i)
      /\ \A i \in size + 1 .. n : /\ t[i].role = roles[i] /\ ~ t[i].enabled
                                  /\ t[i].manager \in 1 .. size /\ t[i].backup \in 1 .. size
  BY <1>1, <1>2, PlannedHas
<1>4. /\ DOMAIN plan = 1 .. size /\ Len(plan) = size
      /\ SameCounts([i \in 1 .. size |-> plan[i].role], Seated(o))
      /\ ceo \in 1 .. size /\ plan[ceo].manager = 0
      /\ \A i \in 1 .. size : plan[i].role = "ceo" => i = ceo
      /\ plan[ceo].role = "ceo" /\ AcyclicToCeo(plan, ceo)
      /\ \A i, j \in 1 .. size : plan[i].cleaned = plan[j].cleaned => i = j
  BY <1>1, <1>2 DEF PlanLaid
<1>5. PICK A : A = [i \in 1 .. size |-> plan[i].role]
  OBVIOUS
<1>6. DOMAIN A = 1 .. size /\ SameCounts(A, Seated(o)) /\ \A i \in 1 .. size : A[i] = plan[i].role
  BY <1>4, <1>5
<1>7. RolesLaid(roles, size)
  BY <1>2, SeatsLaid
<1>8. /\ \A i \in 1 .. n : roles[i] = "ceo" <=> i = 1
      /\ \A r \in Always : \E i \in 1 .. n : roles[i] = r
  BY <1>2, <1>7 DEF RolesLaid
<1>9. \A i \in 1 .. n : i \in 1 .. size \/ i \in size + 1 .. n
  <2>1. n \in Nat /\ size \in Nat
    BY <1>3
  <2> QED BY <2>1
<1>10. \A i \in size + 1 .. n : i \in 1 .. n /\ ~ (i <= size) /\ i # 1
  BY <1>3
<1>11. \A i \in 1 .. size : i \in 1 .. n /\ i <= size
  BY <1>3
<1>12. \A S \in SUBSET ((1 .. size) \ {ceo}) : S # {} => \E i \in S : plan[i].manager \in (1 .. size) \ S
  <2>1. size \in Nat
    BY <1>3
  <2> QED BY <1>4, <2>1, WaysLeadOut
<1>13. TreeOf(t, n, size)
  <2>1. ASSUME NEW i \in 1 .. size, i # ceo PROVE plan[i].manager \in 1 .. size
    <3>1. {i} \in SUBSET ((1 .. size) \ {ceo}) /\ {i} # {}
      BY <2>1
    <3>2. \E j \in {i} : plan[j].manager \in (1 .. size) \ {i}
      BY <1>12, <3>1
    <3> QED BY <3>2
  <2>2. 0 \notin 1 .. size
    OBVIOUS
  <2>3. ASSUME NEW i \in 1 .. n PROVE (t[i].manager = 0 <=> i = ceo) /\ (t[i].role = "ceo" <=> i = ceo)
    <3>1. CASE i \in 1 .. size
      BY <1>3, <1>4, <2>1, <2>2, <3>1
    <3>2. CASE i \in size + 1 .. n
      <4>1. t[i].manager \in 1 .. size /\ t[i].role = roles[i] /\ roles[i] # "ceo"
        BY <1>3, <1>8, <1>10, <3>2
      <4>2. i # ceo
        BY <1>4, <1>10, <3>2
      <4> QED BY <2>2, <4>1, <4>2
    <3> QED BY <1>9, <3>1, <3>2
  <2>4. ASSUME NEW S \in SUBSET ((1 .. size) \ {ceo}), S # {}
        PROVE  \E i \in S : t[i].manager \in (1 .. size) \ S
    <3>1. PICK i \in S : plan[i].manager \in (1 .. size) \ S
      BY <1>12, <2>4
    <3> QED BY <1>3, <3>1
  <2> QED BY <1>3, <1>4, <2>3, <2>4 DEF TreeOf
<1>14. ASSUME NEW i \in 1 .. n PROVE t[i].enabled <=> i <= size
  <2>1. CASE i \in 1 .. size
    BY <1>3, <1>11, <2>1
  <2>2. CASE i \in size + 1 .. n
    BY <1>3, <1>10, <2>2
  <2> QED BY <1>9, <2>1, <2>2
<1>15. ASSUME NEW r \in Always PROVE \E i \in 1 .. n : t[i].role = r
  <2>1. PICK j \in 1 .. n : roles[j] = r
    BY <1>8
  <2>2. CASE j \in 1 .. size
    <3>1. DOMAIN Seated(o) = 1 .. size /\ IsFiniteSet(1 .. size) /\ Seated(o)[j] = r
      <4>1. Seated(o) \in Seq(Role) /\ Len(Seated(o)) = size /\ size \in Nat
        BY <1>2, <1>3, SeatedHas
      <4>2. Seated(o)[j] = r
        BY <1>2, <2>1, <2>2, SeatsHave
      <4>3. IsFiniteSet(1 .. size)
        BY <4>1, FS_Interval
      <4> QED BY <4>1, <4>2, <4>3
    <3>2. IsFiniteSet(DOMAIN A) /\ IsFiniteSet(DOMAIN Seated(o))
      BY <1>6, <3>1
    <3>3. SameValues(A, Seated(o))
      BY <1>6, <3>2, SameCountsHave
    <3>4. PICK i \in 1 .. size : A[i] = r
      BY <1>6, <2>2, <3>1, <3>3 DEF SameValues
    <3>5. t[i].role = r /\ i \in 1 .. n
      BY <1>3, <1>6, <1>11, <3>4
    <3> QED BY <3>5
  <2>3. CASE j \in size + 1 .. n
    BY <1>3, <2>1, <2>3
  <2> QED BY <1>9, <2>2, <2>3
<1>16. ASSUME NEW i \in 1 .. n PROVE t[i].backup \in (1 .. n) \ {i}
  <2>1. CASE i \in 1 .. size
    <3>1. t[i].backup = BackupIn(plan, i)
      BY <1>3, <2>1
    <3>2. PICK U : U = (1 .. size) \ {i}
      OBVIOUS
    <3>3. U \in SUBSET Nat /\ U # {}
      <4>1. 1 \in 1 .. size /\ 2 \in 1 .. size
        BY <1>3
      <4> QED BY <3>2, <4>1
    <3>4. LeastOf(U) \in U
      BY <3>3, LeastHas
    <3>5. BackupIn(plan, i) \in U
      BY <1>4, <3>2, <3>4 DEF BackupIn
    <3> QED BY <1>11, <3>1, <3>2, <3>5
  <2>2. CASE i \in size + 1 .. n
    <3>1. t[i].backup \in 1 .. size /\ i \notin 1 .. size
      BY <1>3, <1>10, <2>2
    <3> QED BY <1>11, <3>1
  <2> QED BY <1>9, <2>1, <2>2
<1>17. SoundTeam(t, n, size)
  BY <1>3, <1>13, <1>14, <1>15, <1>16 DEF SoundTeam
<1>18. ShareHeld(RolesOf(t), o)
  <2>1. ShareHeld(A, o)
    BY <1>2, <1>6, SharesCopied
  <2>2. \A i \in 1 .. size : RolesOf(t)[i] = A[i]
    BY <1>3, <1>6, <1>11 DEF RolesOf
  <2> QED BY <1>2, <2>1, <2>2, ShareOfSame
<1>19. \A i, j \in 1 .. size : t[i].name = t[j].name => i = j
  BY <1>3, <1>4
<1> QED BY <1>2, <1>17, <1>18, <1>19

FoundAt(team, r) == {i \in DOMAIN team : team[i].role = r}
FirstFound(team, roles) == LeastOf({k \in DOMAIN roles : FoundAt(team, roles[k]) # {}})

\* The first of some roles, with what it is looked up in named.
LEMMA FirstOfDef ==
  ASSUME NEW team, NEW roles
  PROVE  FirstOf(team, roles) = IF FirstFound(team, roles) = 0 THEN 1
                                ELSE LeastOf(FoundAt(team, roles[FirstFound(team, roles)]))
BY DEF FirstOf, FirstFound, FoundAt

\* The first of some roles is in one of the first seats, where all others have other roles.
LEMMA FirstOfHas ==
  ASSUME NEW team, NEW n \in Nat, DOMAIN team = 1 .. n, NEW size \in Nat, 1 <= size, size <= n,
         NEW roles, DOMAIN roles \subseteq Nat \ {0},
         \A i \in size + 1 .. n : \A k \in DOMAIN roles : team[i].role # roles[k]
  PROVE  FirstOf(team, roles) \in 1 .. size
<1>1. PICK m : m = FirstFound(team, roles)
  OBVIOUS
<1>2. CASE m = 0
  <2>1. FirstOf(team, roles) = 1
    BY <1>1, <1>2, FirstOfDef
  <2> QED BY <2>1
<1>3. CASE m # 0
  <2>1. PICK U : U = {k \in DOMAIN roles : FoundAt(team, roles[k]) # {}}
    OBVIOUS
  <2>2. U \in SUBSET Nat /\ m = LeastOf(U)
    BY <1>1, <2>1 DEF FirstFound
  <2>3. m \in U
    BY <1>3, <2>2, LeastHas
  <2>4. m \in DOMAIN roles /\ FoundAt(team, roles[m]) # {}
    BY <2>1, <2>3
  <2>5. FoundAt(team, roles[m]) \in SUBSET Nat /\ FoundAt(team, roles[m]) \subseteq 1 .. size
    <3>1. ASSUME NEW i \in FoundAt(team, roles[m]) PROVE i \in 1 .. size
      <4>1. i \in 1 .. n /\ team[i].role = roles[m]
        BY <3>1 DEF FoundAt
      <4>2. i \notin size + 1 .. n
        BY <2>4, <4>1
      <4> QED BY <4>1, <4>2
    <3> QED BY <3>1
  <2>6. LeastOf(FoundAt(team, roles[m])) \in FoundAt(team, roles[m])
    BY <2>4, <2>5, LeastHas
  <2> QED BY <1>1, <1>3, <2>5, <2>6, FirstOfDef
<1> QED BY <1>2, <1>3

-----------------------------------------------------------------------------
OwnerOf(team, f) == FirstOf(team, OwnerRoles(LayerOf[f]))
WantedOf(team, f) == FirstOf(team, BackupRoles(team[OwnerOf(team, f)].role))
BackupOf(team, f) ==
  IF WantedOf(team, f) = OwnerOf(team, f) THEN LeastOf(DOMAIN team \ {OwnerOf(team, f)}) ELSE WantedOf(team, f)
RowOf(f, role, i) == [flow |-> f, layer |-> LayerOf[f], role |-> role, agent |-> i]
PairOf(team, f) == <<RowOf(f, "owner", OwnerOf(team, f)), RowOf(f, "backup", BackupOf(team, f))>>

\* The rows of the rules, with what they are made of named.
LEMMA FlowRowsDef ==
  ASSUME NEW team, NEW flows
  PROVE  FlowRows(team, flows) = FlattenSeq(SetToSeq({PairOf(team, f) : f \in flows}))
BY DEF FlowRows, PairOf, RowOf, BackupOf, WantedOf, OwnerOf

\* The rows of the rules: for each of the flows an owner and a backup, once.
RuleRows(rows, team, flows) ==
  /\ \E R : rows \in Seq(R)
  /\ \A p \in 1 .. Len(rows) : rows[p].flow \in flows /\ rows[p].layer = LayerOf[rows[p].flow]
  /\ \A p, q \in 1 .. Len(rows) : rows[p].flow = rows[q].flow /\ rows[p].role = rows[q].role => p = q
  /\ \A f \in flows : \E p \in 1 .. Len(rows) :
       rows[p].flow = f /\ rows[p].role = "owner" /\ rows[p].agent = OwnerOf(team, f)

\* The rows of the rules are so.
LEMMA FlowRowsHas ==
  ASSUME NEW team, NEW flows, IsFiniteSet(flows)
  PROVE  RuleRows(FlowRows(team, flows), team, flows)
<1>1. PICK pair : pair = [f \in flows |-> PairOf(team, f)]
  OBVIOUS
<1>2. PICK owner, backup : /\ owner = [f \in flows |-> RowOf(f, "owner", OwnerOf(team, f))]
                           /\ backup = [f \in flows |-> RowOf(f, "backup", BackupOf(team, f))]
  OBVIOUS
<1>3. PICK T : T = {owner[f] : f \in flows} \cup {backup[f] : f \in flows}
  OBVIOUS
<1>4. \A f \in flows : pair[f] = <<owner[f], backup[f]>> /\ owner[f] \in T /\ backup[f] \in T
  BY <1>1, <1>2, <1>3 DEF PairOf
<1>5. \A f \in flows : /\ pair[f] \in Seq(T) /\ Len(pair[f]) = 2
                       /\ pair[f][1] = owner[f] /\ pair[f][2] = backup[f]
  <2> SUFFICES ASSUME NEW f \in flows
               PROVE  /\ pair[f] \in Seq(T) /\ Len(pair[f]) = 2
                      /\ pair[f][1] = owner[f] /\ pair[f][2] = backup[f]
    OBVIOUS
  <2>1. PICK a \in T, b \in T : a = owner[f] /\ b = backup[f]
    BY <1>4
  <2>2. pair[f] = <<a, b>>
    BY <1>4, <2>1
  <2>3. <<a, b>> \in Seq(T) /\ Len(<<a, b>>) = 2 /\ <<a, b>>[1] = a /\ <<a, b>>[2] = b
    OBVIOUS
  <2> QED BY <2>1, <2>2, <2>3
<1>6. \A f \in flows : /\ owner[f].flow = f /\ owner[f].layer = LayerOf[f] /\ owner[f].role = "owner"
                       /\ owner[f].agent = OwnerOf(team, f)
                       /\ backup[f].flow = f /\ backup[f].layer = LayerOf[f] /\ backup[f].role = "backup"
  BY <1>2 DEF RowOf
<1>7. PICK S, s, x : S = {pair[f] : f \in flows} /\ s = SetToSeq(S) /\ x = FlattenSeq(s)
  OBVIOUS
<1>8. FlowRows(team, flows) = x
  <2>1. {PairOf(team, f) : f \in flows} = S
    BY <1>1, <1>7
  <2> QED BY <1>7, <2>1, FlowRowsDef
<1>9. IsFiniteSet(S)
  <2>1. pair \in Surjection(flows, S)
    BY <1>1, <1>7 DEF Surjection
  <2> QED BY <2>1, FS_Surjection
<1>10. /\ s \in Seq(S) /\ \A i, j \in 1 .. Len(s) : s[i] = s[j] => i = j
       /\ \A y \in S : \E i \in 1 .. Len(s) : s[i] = y
  BY <1>7, <1>9, SetToSeqHas
<1>11. \A n \in 1 .. Len(s) : \E f \in flows : s[n] = pair[f]
  <2>1. \A n \in 1 .. Len(s) : s[n] \in S
    BY <1>10
  <2> QED BY <1>7, <2>1
<1>12. x \in Seq(T) /\ \E off : Blocks(off, s, x)
  <2>1. S \subseteq Seq(T)
    BY <1>5, <1>7
  <2>2. s \in Seq(Seq(T))
    BY <1>10, <2>1, SeqMonotonic
  <2> QED BY <1>7, <2>2, FlatBlocks
<1>13. PICK off : Blocks(off, s, x)
  BY <1>12
<1>14. /\ \A n \in 1 .. Len(s) : \A i \in 1 .. Len(s[n]) : off[n - 1] + i \in 1 .. Len(x) /\ x[off[n - 1] + i] = s[n][i]
       /\ \A p \in 1 .. Len(x) : \E n \in 1 .. Len(s) : \E i \in 1 .. Len(s[n]) : p = off[n - 1] + i
  BY <1>13 DEF Blocks, Laid
<1>15. \A n \in 1 .. Len(s) : \A f \in flows : s[n] = pair[f] =>
         /\ off[n - 1] + 1 \in 1 .. Len(x) /\ x[off[n - 1] + 1] = owner[f]
         /\ off[n - 1] + 2 \in 1 .. Len(x) /\ x[off[n - 1] + 2] = backup[f]
  <2> SUFFICES ASSUME NEW n \in 1 .. Len(s), NEW f \in flows, s[n] = pair[f]
               PROVE  /\ off[n - 1] + 1 \in 1 .. Len(x) /\ x[off[n - 1] + 1] = owner[f]
                      /\ off[n - 1] + 2 \in 1 .. Len(x) /\ x[off[n - 1] + 2] = backup[f]
    OBVIOUS
  <2>1. 1 \in 1 .. Len(s[n]) /\ 2 \in 1 .. Len(s[n]) /\ s[n][1] = owner[f] /\ s[n][2] = backup[f]
    BY <1>5
  <2> QED BY <1>14, <2>1
<1>16. ASSUME NEW p \in 1 .. Len(x)
       PROVE  \E n \in 1 .. Len(s) : \E f \in flows :
                /\ s[n] = pair[f]
                /\ (p = off[n - 1] + 1 /\ x[p] = owner[f]) \/ (p = off[n - 1] + 2 /\ x[p] = backup[f])
  <2>1. PICK n \in 1 .. Len(s) : \E i \in 1 .. Len(s[n]) : p = off[n - 1] + i
    BY <1>14
  <2>2. PICK i \in 1 .. Len(s[n]) : p = off[n - 1] + i
    BY <2>1
  <2>3. PICK f \in flows : s[n] = pair[f]
    BY <1>11
  <2>4. i = 1 \/ i = 2
    <3>1. Len(s[n]) = 2
      BY <1>5, <2>3
    <3> QED BY <2>2, <3>1
  <2> QED BY <1>15, <2>2, <2>3, <2>4
<1>17. \A p \in 1 .. Len(x) : x[p].flow \in flows /\ x[p].layer = LayerOf[x[p].flow]
  BY <1>6, <1>16
<1>18. ASSUME NEW p \in 1 .. Len(x), NEW q \in 1 .. Len(x), x[p].flow = x[q].flow, x[p].role = x[q].role
       PROVE  p = q
  <2>1. PICK m \in 1 .. Len(s) : \E f \in flows :
          /\ s[m] = pair[f]
          /\ (p = off[m - 1] + 1 /\ x[p] = owner[f]) \/ (p = off[m - 1] + 2 /\ x[p] = backup[f])
    BY <1>16
  <2>2. PICK f \in flows :
          /\ s[m] = pair[f]
          /\ (p = off[m - 1] + 1 /\ x[p] = owner[f]) \/ (p = off[m - 1] + 2 /\ x[p] = backup[f])
    BY <2>1
  <2>3. PICK n \in 1 .. Len(s) : \E g \in flows :
          /\ s[n] = pair[g]
          /\ (q = off[n - 1] + 1 /\ x[q] = owner[g]) \/ (q = off[n - 1] + 2 /\ x[q] = backup[g])
    BY <1>16
  <2>4. PICK g \in flows :
          /\ s[n] = pair[g]
          /\ (q = off[n - 1] + 1 /\ x[q] = owner[g]) \/ (q = off[n - 1] + 2 /\ x[q] = backup[g])
    BY <2>3
  <2>5. f = g
    BY <1>6, <1>18, <2>2, <2>4
  <2>6. m = n
    <3>1. s[m] = pair[f] /\ s[n] = pair[g]
      BY <2>2, <2>4
    <3> QED BY <1>10, <2>5, <3>1
  <2>7. "owner" # "backup"
    OBVIOUS
  <2> QED BY <1>6, <1>18, <2>2, <2>4, <2>5, <2>6, <2>7
<1>19. ASSUME NEW f \in flows
       PROVE  \E p \in 1 .. Len(x) : x[p].flow = f /\ x[p].role = "owner" /\ x[p].agent = OwnerOf(team, f)
  <2>1. PICK n \in 1 .. Len(s) : s[n] = pair[f]
    BY <1>7, <1>10
  <2>2. off[n - 1] + 1 \in 1 .. Len(x) /\ x[off[n - 1] + 1] = owner[f]
    BY <1>15, <2>1
  <2> QED BY <1>6, <2>2
<1> QED BY <1>8, <1>12, <1>17, <1>18, <1>19 DEF RuleRows

\* The rows of the rules are not refused.
LEMMA RulesNotRefused ==
  ASSUME NEW rows, NEW team, NEW flows, RuleRows(rows, team, flows)
  PROVE  ~ Refused(rows)
<1>1. DOMAIN rows = 1 .. Len(rows) /\ Len(rows) \in Nat
  <2>1. PICK R : rows \in Seq(R)
    BY DEF RuleRows
  <2> QED BY <2>1
<1>2. /\ \A p \in DOMAIN rows : rows[p].layer = LayerOf[rows[p].flow]
      /\ \A p, q \in DOMAIN rows : rows[p].flow = rows[q].flow /\ rows[p].role = rows[q].role => p = q
  BY <1>1 DEF RuleRows
<1>3. ASSUME NEW f
      PROVE  ~ ("fullstack" \in {rows[n].layer : n \in {m \in DOMAIN rows : rows[m].flow = f /\ rows[m].role = "owner"}}
                /\ {rows[n].layer : n \in {m \in DOMAIN rows : rows[m].flow = f /\ rows[m].role = "owner"}}
                     \cap {"frontend", "backend"} # {})
  <2>1. \A l \in {rows[n].layer : n \in {m \in DOMAIN rows : rows[m].flow = f /\ rows[m].role = "owner"}} : l = LayerOf[f]
    BY <1>2
  <2> QED BY <2>1
<1>4. ~ \E m, n \in DOMAIN rows :
          /\ m < n
          /\ rows[m].flow = rows[n].flow /\ rows[m].layer = rows[n].layer /\ rows[m].role = rows[n].role
  <2> SUFFICES ASSUME NEW m \in DOMAIN rows, NEW n \in DOMAIN rows, m < n,
                      rows[m].flow = rows[n].flow, rows[m].role = rows[n].role
               PROVE  FALSE
    OBVIOUS
  <2>1. m = n
    BY <1>2
  <2> QED BY <1>1, <2>1
<1> QED BY <1>3, <1>4 DEF Refused

\* The roles that may own a flow are no roles that must always be there.
LEMMA OwnerRolesHave ==
  ASSUME NEW layer \in Layer
  PROVE  /\ DOMAIN OwnerRoles(layer) \subseteq Nat \ {0}
         /\ \A k \in DOMAIN OwnerRoles(layer) : OwnerRoles(layer)[k] \notin Always
<1>1. PICK own : own = {"frontend", "backend", "fullstack", "cto", "ceo"}
  OBVIOUS
<1>2. own \cap Always = {}
  BY <1>1 DEF Always, ToSet, AlwaysPresent
<1>3. CASE layer = "fullstack"
  <2>1. OwnerRoles(layer) = <<"fullstack", "cto", "ceo">>
    BY <1>3 DEF OwnerRoles
  <2>2. /\ DOMAIN OwnerRoles(layer) = 1 .. 3
        /\ \A k \in 1 .. 3 : OwnerRoles(layer)[k] \in own
    BY <1>1, <2>1
  <2> QED BY <1>2, <2>2
<1>4. CASE layer # "fullstack"
  <2>1. OwnerRoles(layer) = <<layer, "fullstack", "cto", "ceo">> /\ layer \in own
    BY <1>1, <1>4 DEF OwnerRoles, Layer
  <2>2. /\ DOMAIN OwnerRoles(layer) = 1 .. 4
        /\ \A k \in 1 .. 4 : OwnerRoles(layer)[k] \in own
    BY <1>1, <2>1
  <2> QED BY <1>2, <2>2
<1> QED BY <1>3, <1>4

\* The owner of a flow by the rules has a seat, where those without have other roles.
LEMMA OwnerSeated ==
  ASSUME NEW team, NEW n \in Nat, DOMAIN team = 1 .. n, NEW size \in Nat, 1 <= size, size <= n,
         \A i \in size + 1 .. n : team[i].role \in Always, NEW f \in Flow
  PROVE  OwnerOf(team, f) \in 1 .. size
<1>1. PICK roles : roles = OwnerRoles(LayerOf[f])
  OBVIOUS
<1>2. LayerOf[f] \in Layer
  BY CompanyPlanAssumption
<1>3. DOMAIN roles \subseteq Nat \ {0} /\ \A k \in DOMAIN roles : roles[k] \notin Always
  BY <1>1, <1>2, OwnerRolesHave
<1>4. \A i \in size + 1 .. n : \A k \in DOMAIN roles : team[i].role # roles[k]
  BY <1>3
<1>5. FirstOf(team, roles) \in 1 .. size
  BY <1>3, <1>4, FirstOfHas
<1> QED BY <1>1, <1>5 DEF OwnerOf

\* Every flow has an owner who has a seat.
FlowsOwned(rows, size) ==
  \A f \in Flow : \E p \in DOMAIN rows : rows[p].flow = f /\ rows[p].role = "owner" /\ rows[p].agent \in 1 .. size

\* The template gives every flow its owner, and is not refused.
LEMMA TemplateOwners ==
  ASSUME NEW o \in Order
  PROVE  /\ FlowsOwned(FlowRows(Template(o), Flow), o.size)
         /\ ~ Refused(FlowRows(Template(o), Flow))
<1>1. PICK t, roles, size, n, rows :
        /\ t = Template(o) /\ roles = Seats(o) /\ size = o.size /\ n = Len(roles)
        /\ rows = FlowRows(t, Flow)
  OBVIOUS
<1>2. IsFiniteSet(Flow)
  BY CompanyPlanAssumption
<1>3. RuleRows(rows, t, Flow)
  BY <1>1, <1>2, FlowRowsHas
<1>4. /\ DOMAIN t = 1 .. n /\ n \in Nat /\ size \in Nat /\ 1 <= size /\ size <= n
      /\ \A i \in 1 .. n : t[i].role = roles[i]
  <2>1. SoundTeam(t, n, size) /\ \A i \in 1 .. n : t[i].role = roles[i]
    BY <1>1, TemplateSound
  <2>2. DOMAIN t = 1 .. n /\ n \in Nat /\ size \in 3 .. 40 /\ size <= n
    BY <2>1 DEF SoundTeam
  <2> QED BY <2>1, <2>2
<1>5. \A i \in size + 1 .. n : t[i].role \in Always
  <2>1. RolesLaid(roles, size)
    BY <1>1, SeatsLaid
  <2>2. \A i \in size + 1 .. n : roles[i] \in Always /\ i \in 1 .. n
    BY <1>1, <1>4, <2>1 DEF RolesLaid
  <2> QED BY <1>4, <2>2
<1>6. \A f \in Flow : OwnerOf(t, f) \in 1 .. size
  BY <1>4, <1>5, OwnerSeated
<1>7. \A f \in Flow : \E p \in 1 .. Len(rows) :
        rows[p].flow = f /\ rows[p].role = "owner" /\ rows[p].agent = OwnerOf(t, f)
  BY <1>3 DEF RuleRows
<1>8. DOMAIN rows = 1 .. Len(rows)
  <2>1. PICK R : rows \in Seq(R)
    BY <1>3 DEF RuleRows
  <2> QED BY <2>1
<1>9. FlowsOwned(rows, size)
  BY <1>6, <1>7, <1>8 DEF FlowsOwned
<1>10. ~ Refused(rows)
  BY <1>3, RulesNotRefused
<1> QED BY <1>1, <1>9, <1>10

-----------------------------------------------------------------------------
NamedRow(i, f) ==
  [flow |-> f.flow, layer |-> IF f.layer \in Layer THEN f.layer ELSE "fullstack", role |-> f.role, agent |-> i]
KnownRow(f) == f.flow \in Flow /\ f.role \in {"owner", "backup"}
NamedBy(plan, i) ==
  [n \in DOMAIN plan[i].flows |-> IF KnownRow(plan[i].flows[n]) THEN <<NamedRow(i, plan[i].flows[n])>> ELSE <<>>]
NamedOf(plan) == FlattenSeq([i \in DOMAIN plan |-> FlattenSeq(NamedBy(plan, i))])
OwnedIn(named) == {named[n].flow : n \in {m \in DOMAIN named : named[m].role = "owner"}}

\* The rows of a plan, with what they are made of named.
LEMMA PlannedRowsDef ==
  ASSUME NEW plan
  PROVE  PlannedRows(plan) = NamedOf(plan) \o FlowRows(plan, Flow \ OwnedIn(NamedOf(plan)))
BY DEF PlannedRows, NamedOf, NamedBy, NamedRow, KnownRow, OwnedIn

\* The rows that a plan names are of its agents.
LEMMA NamedHas ==
  ASSUME NEW plan, NEW size \in Nat, DOMAIN plan = 1 .. size, Len(plan) = size,
         \A i \in 1 .. size : plan[i].flows \in Seq(ToSet(plan[i].flows))
  PROVE  \E R : NamedOf(plan) \in Seq(R) /\ \A r \in R : r.agent \in 1 .. size
<1>1. PICK F : F = UNION {ToSet(plan[i].flows) : i \in 1 .. size}
  OBVIOUS
<1>2. PICK R : R = UNION {{NamedRow(i, f) : f \in F} : i \in 1 .. size}
  OBVIOUS
<1>3. \A r \in R : r.agent \in 1 .. size
  BY <1>2 DEF NamedRow
<1>4. ASSUME NEW i \in 1 .. size PROVE FlattenSeq(NamedBy(plan, i)) \in Seq(R)
  <2>1. PICK g : g = plan[i].flows
    OBVIOUS
  <2>2. PICK m \in Nat : DOMAIN g = 1 .. m
    <3>1. g \in Seq(ToSet(g))
      BY <2>1
    <3> QED BY <3>1
  <2>3. PICK b : b = NamedBy(plan, i)
    OBVIOUS
  <2>4. b = [n \in 1 .. m |-> IF KnownRow(g[n]) THEN <<NamedRow(i, g[n])>> ELSE <<>>]
    BY <2>1, <2>2, <2>3 DEF NamedBy
  <2>5. ASSUME NEW n \in 1 .. m PROVE b[n] \in Seq(R)
    <3>1. PICK r : r = NamedRow(i, g[n])
      OBVIOUS
    <3>2. g[n] \in F
      BY <1>1, <2>1, <2>2 DEF ToSet
    <3>3. r \in R
      BY <1>2, <3>1, <3>2
    <3>4. b[n] = <<r>> \/ b[n] = <<>>
      BY <2>4, <3>1
    <3>5. <<r>> \in Seq(R)
      BY <3>3
    <3>6. <<>> \in Seq(R)
      OBVIOUS
    <3> QED BY <3>4, <3>5, <3>6
  <2>6. b \in Seq(Seq(R))
    BY <2>4, <2>5
  <2> QED BY <2>3, <2>6, FlatBlocks
<1>5. PICK s : s = [i \in DOMAIN plan |-> FlattenSeq(NamedBy(plan, i))]
  OBVIOUS
<1>6. s \in Seq(Seq(R))
  <2>1. s = [i \in 1 .. size |-> s[i]] /\ \A i \in 1 .. size : s[i] \in Seq(R)
    BY <1>4, <1>5
  <2> QED BY <2>1
<1>7. FlattenSeq(s) \in Seq(R)
  BY <1>6, FlatBlocks
<1> QED BY <1>3, <1>5, <1>7 DEF NamedOf

\* A plan gives every flow an owner who has a seat.
LEMMA PlannedOwners ==
  ASSUME NEW plan, NEW size \in Nat, 1 <= size, DOMAIN plan = 1 .. size, Len(plan) = size,
         \A i \in 1 .. size : plan[i].flows \in Seq(ToSet(plan[i].flows))
  PROVE  FlowsOwned(PlannedRows(plan), size)
<1>1. PICK named, flows, rule :
        named = NamedOf(plan) /\ flows = Flow \ OwnedIn(named) /\ rule = FlowRows(plan, flows)
  OBVIOUS
<1>2. PICK rows : rows = named \o rule
  OBVIOUS
<1>3. PlannedRows(plan) = rows
  BY <1>1, <1>2, PlannedRowsDef
<1>4. PICK R : named \in Seq(R) /\ \A r \in R : r.agent \in 1 .. size
  BY <1>1, NamedHas
<1>5. IsFiniteSet(flows)
  <2>1. IsFiniteSet(Flow) /\ flows \in SUBSET Flow
    BY <1>1, CompanyPlanAssumption
  <2> QED BY <2>1, FS_Subset
<1>6. RuleRows(rule, plan, flows)
  BY <1>1, <1>5, FlowRowsHas
<1>7. PICK Q : rule \in Seq(Q)
  BY <1>6 DEF RuleRows
<1>8. /\ DOMAIN named = 1 .. Len(named) /\ Len(named) \in Nat /\ Len(rule) \in Nat /\ DOMAIN rule = 1 .. Len(rule)
      /\ \A m \in 1 .. Len(named) : named[m].agent \in 1 .. size
  BY <1>4, <1>7
<1>9. /\ DOMAIN rows = 1 .. Len(named) + Len(rule)
      /\ \A i \in 1 .. Len(named) + Len(rule) : rows[i] = IF i <= Len(named) THEN named[i] ELSE rule[i - Len(named)]
  <2>1. named \in Seq(R \cup Q) /\ rule \in Seq(R \cup Q)
    BY <1>4, <1>7, SeqMonotonic
  <2>2. /\ rows \in Seq(R \cup Q) /\ Len(rows) = Len(named) + Len(rule)
        /\ \A i \in 1 .. Len(named) + Len(rule) : rows[i] = IF i <= Len(named) THEN named[i] ELSE rule[i - Len(named)]
    BY <1>2, <2>1, ConcatProperties
  <2> QED BY <2>2
<1>10. \A f \in Flow : OwnerOf(plan, f) \in 1 .. size
  <2>1. \A i \in size + 1 .. size : plan[i].role \in Always
    OBVIOUS
  <2>2. size <= size
    OBVIOUS
  <2> QED BY <2>1, <2>2, OwnerSeated
<1>11. ASSUME NEW f \in Flow
       PROVE  \E p \in DOMAIN rows : rows[p].flow = f /\ rows[p].role = "owner" /\ rows[p].agent \in 1 .. size
  <2>1. CASE f \in OwnedIn(named)
    <3>1. PICK m \in DOMAIN named : named[m].role = "owner" /\ named[m].flow = f
      BY <2>1 DEF OwnedIn
    <3>2. m \in 1 .. Len(named) + Len(rule) /\ m <= Len(named)
      BY <1>8, <3>1
    <3>3. rows[m] = named[m] /\ named[m].agent \in 1 .. size
      BY <1>8, <1>9, <3>1, <3>2
    <3> QED BY <1>9, <3>1, <3>2, <3>3
  <2>2. CASE f \notin OwnedIn(named)
    <3>1. f \in flows
      BY <1>1, <2>2
    <3>2. PICK q \in 1 .. Len(rule) : rule[q].flow = f /\ rule[q].role = "owner" /\ rule[q].agent = OwnerOf(plan, f)
      BY <1>6, <3>1 DEF RuleRows
    <3>3. PICK p \in Nat : p = Len(named) + q
      BY <1>8, <3>2
    <3>4. p \in 1 .. Len(named) + Len(rule) /\ ~ (p <= Len(named)) /\ p - Len(named) = q
      BY <1>8, <3>2, <3>3
    <3>5. rows[p] = rule[q]
      BY <1>9, <3>4
    <3> QED BY <1>9, <1>10, <3>2, <3>4, <3>5
  <2> QED BY <2>1, <2>2
<1> QED BY <1>3, <1>11 DEF FlowsOwned

\* What a roster and its owners are made of: of the template, or of the answer.
OfTemplate == roster = Template(order) /\ owners = FlowRows(Template(order), Flow)
OfAnswer ==
  /\ answer \in Seq(ToSet(answer)) /\ \A a \in ToSet(answer) : a.flows \in Seq(ToSet(a.flows))
  /\ Accepted(order, answer) /\ ~ Refused(owners)
  /\ roster = PlannedRoster(Template(order), order, answer) /\ owners = PlannedRows(answer)

PlanInv ==
  /\ order \in Order \cup {NoOrder}
  /\ order = NoOrder => answer = <<>>
  /\ order # NoOrder => OfTemplate \/ OfAnswer
  /\ order # NoOrder /\ answer = <<>> => OfTemplate

\* A team that is sound, holds its shares and has its owners is what RosterSound asks for.
LEMMA SoundEnough ==
  ASSUME order \in Order, NEW n, SoundTeam(roster, n, order.size), ShareHeld(RolesOf(roster), order),
         FlowsOwned(owners, order.size), ~ Refused(owners),
         \A i, j \in 1 .. order.size :
           i # j /\ answer # <<>> /\ roster[i].name # 0 => roster[i].name # roster[j].name
  PROVE  RosterSound
<1>1. PICK size : size = order.size
  OBVIOUS
<1>2. /\ n \in Nat /\ size \in 3 .. 40 /\ size <= n /\ DOMAIN roster = 1 .. n
      /\ \A i \in 1 .. n : roster[i].enabled <=> i <= size
      /\ TreeOf(roster, n, size)
      /\ \A r \in Always : \E i \in 1 .. n : roster[i].role = r
      /\ \A i \in 1 .. n : roster[i].backup \in (1 .. n) \ {i}
  BY <1>1 DEF SoundTeam
<1>3. n \in Nat /\ size \in 3 .. 40 /\ size <= n /\ \A i \in 1 .. size : i \in 1 .. n /\ i <= size
  <2>1. n \in Nat /\ size \in 3 .. 40 /\ size <= n
    BY <1>2
  <2> QED BY <2>1
<1>4. Seat = 1 .. size
  <2>1. n \in Nat /\ size \in Nat
    BY <1>3
  <2>2. \A i \in 1 .. n : i <= size <=> i \in 1 .. size
    BY <2>1
  <2> QED BY <1>2, <1>3, <2>2 DEF Seat
<1>5. Cardinality(Seat) = size
  <2>1. PICK a \in Int, b \in Int : a = 1 /\ b = size
    BY <1>2
  <2>2. (IF a > b THEN 0 ELSE b - a + 1) = size
    <3>1. size \in Nat
      BY <1>3
    <3> QED BY <2>1, <3>1
  <2>3. Cardinality(a .. b) = IF a > b THEN 0 ELSE b - a + 1
    BY FS_Interval
  <2> QED BY <1>4, <2>1, <2>2, <2>3
<1>6. SharesKept
  <2>1. DOMAIN order.mix = Mix
    BY OrderIs
  <2>2. ASSUME NEW k
        PROVE  Cardinality({i \in Seat : Kind(roster[i].role) = k
                                         /\ roster[i].role \notin ToSet(LeadershipFor(order.size))})
                 = SeatsOfKind(RolesOf(roster), size, k)
    <3>1. \A i \in 1 .. size : RolesOf(roster)[i] = roster[i].role
      BY <1>2, <1>3 DEF RolesOf
    <3>2. {i \in Seat : Kind(roster[i].role) = k /\ roster[i].role \notin ToSet(LeadershipFor(order.size))}
            = {i \in 1 .. size : Kind(RolesOf(roster)[i]) = k
                                 /\ RolesOf(roster)[i] \notin ToSet(LeadershipFor(size))}
      BY <1>1, <1>4, <3>1
    <3> QED BY <3>2 DEF SeatsOfKind
  <2>3. Total(order.mix) > 0 =>
          \A k \in DOMAIN order.mix :
            /\ SeatsOfKind(RolesOf(roster), size, k) * Total(order.mix)
                 < order.mix[k] * (order.size - Len(LeadershipFor(order.size))) + Total(order.mix)
            /\ SeatsOfKind(RolesOf(roster), size, k) * Total(order.mix) + Total(order.mix)
                 > order.mix[k] * (order.size - Len(LeadershipFor(order.size)))
    BY <1>1, <2>1 DEF ShareHeld
  <2>4. Total(order.mix) > 0 =>
          \A k \in DOMAIN order.mix :
            /\ Cardinality({i \in Seat : Kind(roster[i].role) = k
                                         /\ roster[i].role \notin ToSet(LeadershipFor(order.size))}) * Total(order.mix)
                 < order.mix[k] * (order.size - Len(LeadershipFor(order.size))) + Total(order.mix)
            /\ Cardinality({i \in Seat : Kind(roster[i].role) = k
                                         /\ roster[i].role \notin ToSet(LeadershipFor(order.size))}) * Total(order.mix)
                 + Total(order.mix)
                 > order.mix[k] * (order.size - Len(LeadershipFor(order.size)))
    BY <2>2, <2>3
  <2> QED BY <2>4 DEF SharesKept, Kind, Security
<1>7. TreeKept
  <2>1. PICK ceo \in 1 .. size :
          /\ \A i \in 1 .. n : (roster[i].manager = 0 <=> i = ceo) /\ (roster[i].role = "ceo" <=> i = ceo)
          /\ \A S \in SUBSET ((1 .. size) \ {ceo}) : S # {} => \E i \in S : roster[i].manager \in (1 .. size) \ S
          /\ \A i \in size + 1 .. n : roster[i].manager \in 1 .. size
    BY <1>2 DEF TreeOf
  <2>2. \A i \in DOMAIN roster \ Seat : i \in size + 1 .. n
    <3>1. DOMAIN roster \ Seat = (1 .. n) \ (1 .. size)
      BY <1>2, <1>4
    <3>2. n \in Nat /\ size \in Nat
      BY <1>3
    <3>3. \A i \in 1 .. n : i \notin 1 .. size => i \in size + 1 .. n
      BY <3>2
    <3> QED BY <3>1, <3>3
  <2>3. \A i \in DOMAIN roster \ Seat : roster[i].manager \in Seat
    BY <1>4, <2>1, <2>2
  <2>4. ceo \in Seat
    BY <1>4
  <2>5. \A i \in DOMAIN roster : (roster[i].manager = 0 <=> i = ceo) /\ (roster[i].role = "ceo" <=> i = ceo)
    BY <1>2, <2>1
  <2>6. \A S \in SUBSET (Seat \ {ceo}) : S # {} => \E i \in S : roster[i].manager \in Seat \ S
    BY <1>4, <2>1
  <2> QED BY <2>3, <2>4, <2>5, <2>6 DEF TreeKept
<1>8. /\ \A r \in ToSet(AlwaysPresent) : \E i \in DOMAIN roster : roster[i].role = r
      /\ \A i \in DOMAIN roster : roster[i].backup \in DOMAIN roster \ {i}
  BY <1>2 DEF Always
<1>9. \A i, j \in Seat : i # j /\ answer # <<>> /\ roster[i].name # 0 => roster[i].name # roster[j].name
  BY <1>1, <1>4
<1>10. \A f \in Flow : \E p \in DOMAIN owners :
         owners[p].flow = f /\ owners[p].role = "owner" /\ owners[p].agent \in Seat
  BY <1>1, <1>4 DEF FlowsOwned
<1> QED BY <1>1, <1>5, <1>6, <1>7, <1>8, <1>9, <1>10 DEF RosterSound

\* The invariant is strong enough.
LEMMA PlanInvSound == PlanInv => RosterSound
<1> SUFFICES ASSUME PlanInv, order # NoOrder PROVE RosterSound
  BY DEF RosterSound
<1>1. order \in Order /\ (OfTemplate \/ OfAnswer)
  BY DEF PlanInv
<1>2. PICK n : n = Len(Seats(order))
  OBVIOUS
<1>3. CASE OfTemplate
  <2>1. roster = Template(order) /\ owners = FlowRows(Template(order), Flow)
    BY <1>3 DEF OfTemplate
  <2>2. /\ SoundTeam(roster, n, order.size) /\ ShareHeld(RolesOf(roster), order)
        /\ \A i \in 1 .. n : roster[i].name = 0
    BY <1>1, <1>2, <2>1, TemplateSound
  <2>3. FlowsOwned(owners, order.size) /\ ~ Refused(owners)
    BY <1>1, <2>1, TemplateOwners
  <2>4. \A i, j \in 1 .. order.size :
          i # j /\ answer # <<>> /\ roster[i].name # 0 => roster[i].name # roster[j].name
    <3>1. \A i \in 1 .. order.size : i \in 1 .. n
      <4>1. n \in Nat /\ order.size \in 3 .. 40 /\ order.size <= n
        BY <2>2 DEF SoundTeam
      <4> QED BY <4>1
    <3> QED BY <2>2, <3>1
  <2> QED BY <1>1, <2>2, <2>3, <2>4, SoundEnough
<1>4. CASE OfAnswer
  <2>1. /\ answer \in Seq(ToSet(answer)) /\ \A a \in ToSet(answer) : a.flows \in Seq(ToSet(a.flows))
        /\ Accepted(order, answer) /\ ~ Refused(owners)
        /\ roster = PlannedRoster(Template(order), order, answer) /\ owners = PlannedRows(answer)
    BY <1>4 DEF OfAnswer
  <2>2. /\ SoundTeam(roster, n, order.size) /\ ShareHeld(RolesOf(roster), order)
        /\ \A i, j \in 1 .. order.size : roster[i].name = roster[j].name => i = j
    BY <1>1, <1>2, <2>1, PlannedSound
  <2>3. PICK size \in Nat : size = order.size /\ 1 <= size
    <3>1. order.size \in 3 .. 40
      BY <1>1, OrderIs
    <3> QED BY <3>1
  <2>4. Len(answer) = size /\ DOMAIN answer = 1 .. size
    BY <2>1, <2>3 DEF Accepted
  <2>5. \A i \in 1 .. size : answer[i].flows \in Seq(ToSet(answer[i].flows))
    <3>1. \A i \in 1 .. size : answer[i] \in ToSet(answer)
      BY <2>4 DEF ToSet
    <3> QED BY <2>1, <3>1
  <2>6. FlowsOwned(owners, order.size)
    BY <2>1, <2>3, <2>4, <2>5, PlannedOwners
  <2> QED BY <1>1, <2>1, <2>2, <2>6, SoundEnough
<1> QED BY <1>1, <1>3, <1>4

\* Making a company and planning it preserve it.
LEMMA PlanStep == PlanInv /\ [PlanNext]_planVars => PlanInv'
<1> SUFFICES ASSUME PlanInv, [PlanNext]_planVars PROVE PlanInv'
  OBVIOUS
<1>1. ASSUME NEW o \in Order, MakeCompany(o) PROVE PlanInv'
  <2>1. /\ order = NoOrder /\ order' = o /\ roster' = Template(o)
        /\ owners' = FlowRows(roster', Flow) /\ answer' = answer
    BY <1>1 DEF MakeCompany
  <2>2. order' \in Order /\ order' # NoOrder
    BY <2>1, CompanyPlanAssumption
  <2>3. OfTemplate'
    BY <2>1 DEF OfTemplate
  <2> QED BY <2>2, <2>3 DEF PlanInv
<1>2. ASSUME NEW p \in Planned, answer = <<>>, order = p[1], PlanCompany(p[2]) PROVE PlanInv'
  <2>1. order \in Order /\ order # NoOrder /\ order' = order /\ answer' = p[2]
        /\ p[2] \in Seq(ToSet(p[2])) /\ \A a \in ToSet(p[2]) : a.flows \in Seq(ToSet(a.flows))
    BY <1>2, CompanyPlanAssumption DEF PlanCompany
  <2>2. OfTemplate
    BY <1>2, <2>1 DEF PlanInv
  <2>3. roster = Template(order) /\ owners = FlowRows(Template(order), Flow)
    BY <2>2 DEF OfTemplate
  <2>4. CASE Accepted(order, p[2]) /\ ~ Refused(PlannedRows(p[2]))
    <3>1. roster' = PlannedRoster(roster, order, p[2]) /\ owners' = PlannedRows(p[2])
      BY <1>2, <2>4 DEF PlanCompany
    <3>2. OfAnswer'
      BY <2>1, <2>3, <2>4, <3>1 DEF OfAnswer
    <3>3. answer' # <<>>
      <4>1. Len(p[2]) = order.size /\ order.size \in 3 .. 40
        BY <2>1, <2>4, OrderIs DEF Accepted
      <4>2. p[2] # <<>>
        <5>1. Len(<<>>) = 0 /\ 0 \notin 3 .. 40
          OBVIOUS
        <5> QED BY <4>1, <5>1
      <4> QED BY <2>1, <4>2
    <3> QED BY <2>1, <3>2, <3>3 DEF PlanInv
  <2>5. CASE ~ (Accepted(order, p[2]) /\ ~ Refused(PlannedRows(p[2])))
    <3>1. roster' = roster /\ owners' = owners
      BY <1>2, <2>5 DEF PlanCompany
    <3>2. OfTemplate'
      BY <2>1, <2>3, <3>1 DEF OfTemplate
    <3> QED BY <2>1, <3>2 DEF PlanInv
  <2> QED BY <2>4, <2>5
<1>3. CASE UNCHANGED planVars
  <2>1. order' = order /\ answer' = answer /\ roster' = roster /\ owners' = owners
    BY <1>3 DEF planVars
  <2> QED BY <2>1 DEF PlanInv, OfTemplate, OfAnswer
<1> QED BY <1>1, <1>2, <1>3 DEF PlanNext

\* Every company that is made is sound, whatever is ordered and whatever its planner
\* answers: its size and its shares, one tree of managers, the roles that must be
\* there, backups, names, and the owners of its flows.
THEOREM RosterStands == PlanSpec => []RosterSound
<1>1. PlanInit => PlanInv
  BY DEF PlanInit, PlanInv
<1>2. PlanInv /\ [PlanNext]_planVars => PlanInv'
  BY PlanStep
<1> QED BY <1>1, <1>2, PlanInvSound, PTL DEF PlanSpec

-----------------------------------------------------------------------------
(***************************************************************************)
(* FleetWaits.                                                             *)
(***************************************************************************)
\* A graph as a sweep reads it: each of its agents waits on one agent.
IsWaitGraph(graph) == DOMAIN graph \subseteq Waiter /\ \A a \in DOMAIN graph : graph[a] \in Waiter

\* The nodes of a walk, as Walk defines them.
NodeRule(node, graph, start) ==
  node = [i \in 0 .. Cardinality(Waiter) |->
            IF i = 0 THEN start
            ELSE IF node[i - 1] \in DOMAIN graph THEN graph[node[i - 1]] ELSE NoWaiter]
Nodes(graph, start) == CHOOSE node : NodeRule(node, graph, start)
Ends(node, visited) ==
  {i \in 0 .. Cardinality(Waiter) : \/ node[i] \in visited \cup {NoWaiter}
                                    \/ \E j \in 0 .. i - 1 : node[j] = node[i]}
Back(node, end) == {j \in 0 .. end - 1 : node[j] = node[end]}

\* A walk, with its nodes named.
LEMMA WalkDef ==
  ASSUME NEW graph, NEW start, NEW visited
  PROVE  LET node == Nodes(graph, start)
             end == Min(Ends(node, visited))
             back == Back(node, end)
         IN  Walk(graph, start, visited) =
               [path |-> {node[i] : i \in 0 .. end - 1},
                ring |-> IF node[end] \in visited \/ back = {} THEN <<>>
                         ELSE [i \in 1 .. end - Min(back) |-> node[Min(back) + i - 1]]]
BY DEF Walk, Nodes, NodeRule, Ends, Back

\* They exist, for as many steps as are asked for.
LEMMA NodesExist ==
  ASSUME NEW graph, NEW start
  PROVE  NodeRule(Nodes(graph, start), graph, start)
<1>1. Cardinality(Waiter) \in Nat
  BY FleetAssumption, FS_CardinalityType
<1>2. \E node : Steps(node, graph, start, NoWaiter, Cardinality(Waiter))
  BY <1>1, StepsExist
<1>3. \E node : NodeRule(node, graph, start)
  BY <1>2 DEF NodeRule, Steps
<1> QED BY <1>3 DEF Nodes

\* Each node follows from the one before.
LEMMA NodeByNode ==
  ASSUME NEW graph, IsWaitGraph(graph), NEW start \in Waiter
  PROVE  LET node == Nodes(graph, start)
             n == Cardinality(Waiter)
         IN  /\ n \in Nat /\ node[0] = start
             /\ \A i \in 0 .. n : node[i] \in Waiter \cup {NoWaiter}
             /\ \A i \in 0 .. n - 1 : node[i] \in DOMAIN graph => node[i + 1] = graph[node[i]]
             /\ \A i \in 0 .. n - 1 : node[i] \notin DOMAIN graph => node[i + 1] = NoWaiter
<1> DEFINE n == Cardinality(Waiter)
<1>1. n \in Nat
  BY FleetAssumption, FS_CardinalityType
<1>2. PICK node : node = Nodes(graph, start)
  OBVIOUS
<1>3. NodeRule(node, graph, start)
  BY <1>2, NodesExist
<1> HIDE DEF n
<1>4. node = [i \in 0 .. n |-> IF i = 0 THEN start
                              ELSE IF node[i - 1] \in DOMAIN graph THEN graph[node[i - 1]] ELSE NoWaiter]
  BY <1>3 DEF NodeRule, n
<1>5. node[0] = start
  BY <1>1, <1>4
<1>6. ASSUME NEW i \in 0 .. n - 1
      PROVE  node[i + 1] = IF node[i] \in DOMAIN graph THEN graph[node[i]] ELSE NoWaiter
  <2>1. i + 1 \in 0 .. n /\ i + 1 # 0 /\ (i + 1) - 1 = i
    BY <1>1
  <2>2. node[i + 1] = IF node[(i + 1) - 1] \in DOMAIN graph THEN graph[node[(i + 1) - 1]] ELSE NoWaiter
    BY <1>4, <2>1
  <2> QED BY <2>1, <2>2
<1>7. ASSUME NEW i \in 0 .. n PROVE node[i] \in Waiter \cup {NoWaiter}
  <2>1. CASE i = 0
    BY <1>5, <2>1
  <2>2. CASE i # 0
    <3>1. i - 1 \in 0 .. n - 1 /\ (i - 1) + 1 = i
      BY <1>1, <2>2
    <3> QED BY <1>6, <3>1 DEF IsWaitGraph
  <2> QED BY <2>1, <2>2
<1> QED BY <1>1, <1>2, <1>5, <1>6, <1>7 DEF n

\* A walk ends: there are more nodes than agents.
LEMMA WalkEnds ==
  ASSUME NEW graph, IsWaitGraph(graph), NEW start \in Waiter, NEW visited
  PROVE  LET node == Nodes(graph, start)
             end == Min(Ends(node, visited))
         IN  /\ end \in 0 .. Cardinality(Waiter) /\ end \in Ends(node, visited)
             /\ \A i \in 0 .. end - 1 : i \notin Ends(node, visited)
<1> DEFINE n == Cardinality(Waiter)
<1>1. PICK node : node = Nodes(graph, start)
  OBVIOUS
<1>2. n \in Nat /\ \A i \in 0 .. n : node[i] \in Waiter \cup {NoWaiter}
  BY <1>1, NodeByNode
<1>3. Ends(node, visited) # {}
  <2> SUFFICES ASSUME Ends(node, visited) = {} PROVE FALSE
    OBVIOUS
  <2>1. \A i \in 0 .. n : i \notin Ends(node, visited)
    OBVIOUS
  <2>2. \A i \in 0 .. n : node[i] \in Waiter
    BY <1>2, <2>1 DEF Ends
  <2> DEFINE f == [i \in 0 .. n |-> node[i]]
  <2>3. f \in [0 .. n -> Waiter]
    BY <2>2
  <2>4. IsFiniteSet(0 .. n) /\ Cardinality(0 .. n) = n + 1
    BY <1>2, FS_Interval
  <2>5. n < Cardinality(0 .. n)
    BY <1>2, <2>4
  <2>6. PICK i, j \in 0 .. n : i # j /\ f[i] = f[j]
    <3> HIDE DEF f
    <3>1. IsFiniteSet(Waiter)
      BY FleetAssumption
    <3>2. PICK D : D = 0 .. n
      OBVIOUS
    <3>3. f \in [D -> Waiter] /\ IsFiniteSet(D) /\ Cardinality(Waiter) < Cardinality(D)
      BY <2>3, <2>4, <2>5, <3>2
    <3>4. \E i, j \in D : i # j /\ f[i] = f[j]
      BY <3>1, <3>3, FS_PigeonHole
    <3> QED BY <3>2, <3>4
  <2>7. node[i] = node[j]
    BY <2>6
  <2>8. i \in 0 .. j - 1 \/ j \in 0 .. i - 1
    BY <1>2, <2>6
  <2> QED BY <2>1, <2>7, <2>8 DEF Ends
<1>4. Ends(node, visited) \in SUBSET Nat /\ Ends(node, visited) \subseteq 0 .. n
  BY <1>2 DEF Ends
<1>5. PICK end : end = Min(Ends(node, visited))
  OBVIOUS
<1>6. end \in Ends(node, visited) /\ \A i \in Ends(node, visited) : end <= i
  BY <1>3, <1>4, <1>5, MinOfSome
<1>7. end \in 0 .. n
  BY <1>4, <1>6
<1>8. \A i \in 0 .. end - 1 : ~ (end <= i)
  BY <1>2, <1>7
<1> QED BY <1>1, <1>5, <1>6, <1>7, <1>8

\* A sequence of agents of which each waits on the next, and the last on the first.
NextIn(ring, i) == ring[IF i = Len(ring) THEN 1 ELSE i + 1]
IsRing(graph, ring) ==
  /\ ring \in Seq(Waiter) /\ Len(ring) > 0
  /\ \A i \in DOMAIN ring : ring[i] \in DOMAIN graph /\ graph[ring[i]] = NextIn(ring, i)
IsClosed(graph, R) == \A a \in R : a \in DOMAIN graph /\ graph[a] \in R

\* What a walk finds, of agents that no earlier walk has met: they wait on one another or
\* on such as were met; and a ring if some of them wait only on one another.
LEMMA WalkFinds ==
  ASSUME NEW graph, IsWaitGraph(graph), NEW start \in Waiter,
         NEW visited \in SUBSET Waiter, start \notin visited
  PROVE  LET walk == Walk(graph, start, visited)
         IN  /\ start \in walk.path /\ walk.path \subseteq Waiter \ visited
             /\ \A a \in walk.path : a \in DOMAIN graph => graph[a] \in walk.path \cup visited
             /\ walk.ring # <<>> => IsRing(graph, walk.ring) /\ ToSet(walk.ring) \subseteq walk.path
             /\ \A R \in SUBSET walk.path :
                  R # {} /\ IsClosed(graph, R) => walk.ring # <<>> /\ ToSet(walk.ring) \subseteq R
<1>1. PICK node : node = Nodes(graph, start)
  OBVIOUS
<1>2. PICK end : end = Min(Ends(node, visited))
  OBVIOUS
<1>3. PICK n : n = Cardinality(Waiter)
  OBVIOUS
<1>4. PICK back : back = Back(node, end)
  OBVIOUS
<1>5. PICK walk : walk = Walk(graph, start, visited)
  OBVIOUS
<1>6. PICK b : b = Min(back)
  OBVIOUS
<1>7. /\ walk.path = {node[i] : i \in 0 .. end - 1}
      /\ walk.ring = IF node[end] \in visited \/ back = {} THEN <<>>
                     ELSE [i \in 1 .. end - b |-> node[b + i - 1]]
  BY <1>1, <1>2, <1>4, <1>5, <1>6, WalkDef
<1>8. /\ n \in Nat /\ node[0] = start
      /\ \A i \in 0 .. n : node[i] \in Waiter \cup {NoWaiter}
      /\ \A i \in 0 .. n - 1 : node[i] \in DOMAIN graph => node[i + 1] = graph[node[i]]
      /\ \A i \in 0 .. n - 1 : node[i] \notin DOMAIN graph => node[i + 1] = NoWaiter
  BY <1>1, <1>3, NodeByNode
<1>9. /\ end \in 0 .. n
      /\ node[end] \in visited \cup {NoWaiter} \/ back # {}
      /\ \A i \in 0 .. end - 1 : node[i] \notin visited \cup {NoWaiter}
      /\ \A i \in 0 .. end - 1 : \A j \in 0 .. i - 1 : node[j] # node[i]
  <2>1. end \in 0 .. n /\ end \in Ends(node, visited)
        /\ \A i \in 0 .. end - 1 : i \notin Ends(node, visited)
    BY <1>1, <1>2, <1>3, WalkEnds
  <2>2. \A i \in 0 .. end - 1 : i \in 0 .. n
    BY <1>8, <2>1
  <2> QED BY <1>3, <1>4, <2>1, <2>2 DEF Ends, Back
<1>10. \A i \in 0 .. end - 1 : i \in 0 .. n /\ i \in 0 .. n - 1 /\ i + 1 \in 0 .. end
  BY <1>8, <1>9
<1>11. \A i \in 0 .. end - 1 : node[i] \in Waiter /\ node[i] \notin visited /\ node[i] \in walk.path
  BY <1>7, <1>8, <1>9, <1>10
<1>12. end > 0
  <2>1. start # NoWaiter
    BY FleetAssumption
  <2>2. back # {} => end > 0
    BY <1>4, <1>9 DEF Back
  <2> QED BY <1>8, <1>9, <2>1, <2>2
<1>13. start \in walk.path /\ walk.path \subseteq Waiter \ visited
  <2>1. 0 \in 0 .. end - 1
    BY <1>8, <1>9, <1>12
  <2> QED BY <1>7, <1>8, <1>11, <2>1
<1>14. back # {} => /\ b \in 0 .. end - 1 /\ node[b] = node[end]
                    /\ node[end] \in walk.path
  <2>1. back \in SUBSET Nat
    BY <1>4, <1>8, <1>9 DEF Back
  <2>2. back # {} => b \in back
    BY <1>6, <2>1, MinOfSome
  <2> QED BY <1>4, <1>11, <2>2 DEF Back
\* The end of the walk is on it, was met, or is nobody.
<1>15. node[end] \in walk.path \cup visited \cup {NoWaiter}
  BY <1>9, <1>14
<1>16. ASSUME NEW a \in walk.path, a \in DOMAIN graph PROVE graph[a] \in walk.path \cup visited
  <2>1. PICK i \in 0 .. end - 1 : a = node[i]
    BY <1>7
  <2>2. node[i + 1] = graph[a] /\ graph[a] \in Waiter
    BY <1>8, <1>10, <1>16, <2>1 DEF IsWaitGraph
  <2>3. i + 1 = end \/ i + 1 \in 0 .. end - 1
    BY <1>8, <1>9
  <2>4. graph[a] # NoWaiter
    BY <2>2, FleetAssumption
  <2> QED BY <1>11, <1>15, <2>2, <2>3, <2>4
<1>17. ASSUME walk.ring # <<>>
       PROVE  /\ back # {} /\ end - b \in Nat /\ end - b > 0 /\ DOMAIN walk.ring = 1 .. end - b
              /\ walk.ring \in Seq(Waiter) /\ Len(walk.ring) = end - b
              /\ \A i \in 1 .. end - b : walk.ring[i] = node[b + i - 1] /\ b + i - 1 \in 0 .. end - 1
  <2>1. back # {} /\ walk.ring = [i \in 1 .. end - b |-> node[b + i - 1]]
    BY <1>7, <1>17
  <2>2. end - b \in Nat /\ end - b > 0
    BY <1>8, <1>9, <1>14, <2>1
  <2>3. ASSUME NEW i \in 1 .. end - b PROVE b + i - 1 \in 0 .. end - 1 /\ node[b + i - 1] \in Waiter
    <3>1. b + i - 1 \in 0 .. end - 1
      BY <1>8, <1>9, <1>14, <2>1
    <3> QED BY <1>11, <3>1
  <2>4. walk.ring \in Seq(Waiter) /\ Len(walk.ring) = end - b
    BY <2>1, <2>2, <2>3
  <2> QED BY <2>1, <2>2, <2>3, <2>4
<1>18. ASSUME walk.ring # <<>> PROVE IsRing(graph, walk.ring) /\ ToSet(walk.ring) \subseteq walk.path
  <2>1. ASSUME NEW i \in 1 .. end - b
        PROVE  walk.ring[i] \in DOMAIN graph /\ graph[walk.ring[i]] = NextIn(walk.ring, i)
    <3>1. PICK k \in 0 .. end - 1 : k = b + i - 1 /\ walk.ring[i] = node[k]
      BY <1>17, <1>18
    <3>2. node[k + 1] # NoWaiter
      <4>1. k + 1 = end \/ k + 1 \in 0 .. end - 1
        BY <1>8, <1>9
      <4> QED BY <1>11, <1>14, <1>17, <1>18, <4>1, FleetAssumption
    <3>3. node[k] \in DOMAIN graph /\ graph[node[k]] = node[k + 1]
      BY <1>8, <1>10, <3>2
    <3>4. CASE i = end - b
      <4>1. k + 1 = end
        BY <1>8, <1>9, <1>14, <1>17, <1>18, <3>1, <3>4
      <4>2. NextIn(walk.ring, i) = walk.ring[1]
        BY <1>17, <1>18, <3>4 DEF NextIn
      <4>3. 1 \in 1 .. end - b /\ b + 1 - 1 = b
        BY <1>14, <1>17, <1>18
      <4>4. walk.ring[1] = node[b]
        BY <1>17, <1>18, <4>3
      <4> QED BY <1>14, <1>17, <1>18, <3>1, <3>3, <4>1, <4>2, <4>4
    <3>5. CASE i # end - b
      <4>1. i + 1 \in 1 .. end - b /\ b + (i + 1) - 1 = k + 1
        BY <1>14, <1>17, <1>18, <3>1, <3>5
      <4>2. NextIn(walk.ring, i) = walk.ring[i + 1]
        BY <1>17, <1>18, <3>5 DEF NextIn
      <4>3. walk.ring[i + 1] = node[k + 1]
        BY <1>17, <1>18, <4>1
      <4> QED BY <3>1, <3>3, <4>2, <4>3
    <3> QED BY <3>4, <3>5
  <2>2. ToSet(walk.ring) \subseteq walk.path
    BY <1>11, <1>17, <1>18 DEF ToSet
  <2>3. \A i \in DOMAIN walk.ring :
          walk.ring[i] \in DOMAIN graph /\ graph[walk.ring[i]] = NextIn(walk.ring, i)
    BY <1>17, <1>18, <2>1
  <2> QED BY <1>17, <1>18, <2>2, <2>3 DEF IsRing
<1>19. ASSUME NEW R \in SUBSET walk.path, IsClosed(graph, R), NEW k \in 0 .. end - 1, node[k] \in R
       PROVE  \A i \in k .. end : node[i] \in R
  <2> DEFINE U == {i \in k .. end : node[i] \notin R}
  <2>1. SUFFICES ASSUME U # {} PROVE FALSE
    OBVIOUS
  <2>2. U \in SUBSET Nat
    BY <1>8, <1>9
  <2>3. PICK m \in U : \A i \in U : m <= i
    BY <2>1, <2>2, NatLeast
  <2>4. m # k
    BY <1>19, <2>3
  <2>5. m - 1 \in k .. end /\ m - 1 \in 0 .. end - 1 /\ ~ (m <= m - 1) /\ (m - 1) + 1 = m
    BY <1>8, <1>9, <2>3, <2>4
  <2>6. node[m - 1] \in R
    BY <2>3, <2>5
  <2>7. node[m - 1] \in DOMAIN graph /\ graph[node[m - 1]] \in R
    BY <1>19, <2>6 DEF IsClosed
  <2>8. node[(m - 1) + 1] = graph[node[m - 1]]
    BY <1>8, <1>10, <2>5, <2>7
  <2>9. node[m] \in R
    BY <2>5, <2>7, <2>8
  <2> QED BY <2>9
<1>20. ASSUME NEW R \in SUBSET walk.path, R # {}, IsClosed(graph, R)
       PROVE  walk.ring # <<>> /\ ToSet(walk.ring) \subseteq R
  <2>1. PICK k \in 0 .. end - 1 : node[k] \in R
    BY <1>7, <1>20
  <2>2. end \in k .. end
    BY <1>8, <1>9
  <2>3. node[end] \in R
    BY <1>19, <1>20, <2>1, <2>2
  <2>4. node[end] \notin visited /\ node[end] # NoWaiter
    BY <1>13, <1>20, <2>3, FleetAssumption
  <2>5. back # {}
    BY <1>9, <2>4
  <2>6. end - b \in Nat /\ end - b > 0 /\ walk.ring = [i \in 1 .. end - b |-> node[b + i - 1]]
    BY <1>7, <1>8, <1>9, <1>14, <2>4, <2>5
  <2>7. walk.ring # <<>>
    <3>1. 1 \in DOMAIN walk.ring
      BY <2>6
    <3> QED BY <3>1
  <2>8. \A i \in b .. end : node[i] \in R
    BY <1>14, <1>19, <1>20, <2>3, <2>5
  <2>9. \A i \in 1 .. end - b : b + i - 1 \in b .. end
    BY <1>14, <2>5, <1>9, <1>8
  <2> QED BY <1>17, <2>7, <2>8, <2>9 DEF ToSet
<1> QED BY <1>5, <1>13, <1>16, <1>18, <1>20

-----------------------------------------------------------------------------
\* One agent's turn in detectCycles.
VisitOf(graph, found, start) ==
  LET walk == Walk(graph, start, found.visited) IN
  IF start \in found.visited THEN found
  ELSE [visited |-> found.visited \cup walk.path,
        rings |-> IF walk.ring = <<>> THEN found.rings ELSE Append(found.rings, walk.ring)]
NoneFound == [visited |-> {}, rings |-> <<>>]
FoldRule(g, graph, turns, D) ==
  g = [s \in SUBSET D |-> IF s = {} THEN NoneFound
                          ELSE VisitOf(graph, g[s \ {Max(s)}], turns[Max(s)])]
Fold(graph, turns) == CHOOSE g : FoldRule(g, graph, turns, DOMAIN turns)

\* The library's fold, spelt out.
LEMMA DetectDef ==
  ASSUME NEW graph, NEW turns
  PROVE  DetectCycles(graph, turns) = Fold(graph, turns)[DOMAIN turns].rings
BY DEF DetectCycles, FoldLeft, MapThenFoldSet, Fold, FoldRule, VisitOf, NoneFound

\* The greatest of the first numbers, when the last of them is among them.
LEMMA LastOfFirst ==
  ASSUME NEW m \in Nat
  PROVE  /\ \A s \in SUBSET (1 .. m + 1) : m + 1 \in s => Max(s) = m + 1 /\ s \ {m + 1} \in SUBSET (1 .. m)
         /\ \A s \in SUBSET (1 .. m + 1) : m + 1 \notin s => s \in SUBSET (1 .. m)
         /\ (1 .. m + 1) \ {m + 1} = 1 .. m
<1>1. ASSUME NEW s \in SUBSET (1 .. m + 1), m + 1 \in s PROVE Max(s) = m + 1
  <2>1. \A y \in s : y \in Int /\ m + 1 >= y
    OBVIOUS
  <2>2. ASSUME NEW x \in s, \A y \in s : x >= y PROVE x = m + 1
    <3>1. x \in Int /\ x >= m + 1 /\ m + 1 >= x
      BY <1>1, <2>1, <2>2
    <3> QED BY <3>1
  <2>3. Max(s) \in s /\ \A y \in s : Max(s) >= y
    BY <1>1, <2>1 DEF Max
  <2> QED BY <2>2, <2>3
<1> QED BY <1>1

\* The fold over the turns comes to an end, so it defines a function.
LEMMA FoldExists ==
  ASSUME NEW graph, NEW turns, NEW len \in Nat, DOMAIN turns = 1 .. len
  PROVE  FoldRule(Fold(graph, turns), graph, turns, 1 .. len)
<1> DEFINE N == {m \in Nat : \E g : FoldRule(g, graph, turns, 1 .. m)}
<1>1. 0 \in N
  <2> DEFINE g == [s \in SUBSET (1 .. 0) |-> NoneFound]
  <2>1. \A s \in SUBSET (1 .. 0) : s = {}
    OBVIOUS
  <2>2. FoldRule(g, graph, turns, 1 .. 0)
    BY <2>1 DEF FoldRule
  <2> QED BY <2>2
<1>2. ASSUME NEW m \in Nat, m \in N PROVE m + 1 \in N
  <2>1. PICK g : FoldRule(g, graph, turns, 1 .. m)
    BY <1>2
  <2>2. \A s \in SUBSET (1 .. m) : g[s] = IF s = {} THEN NoneFound
                                          ELSE VisitOf(graph, g[s \ {Max(s)}], turns[Max(s)])
    BY <2>1 DEF FoldRule
  <2> DEFINE h == [s \in SUBSET (1 .. m + 1) |->
                     IF m + 1 \in s THEN VisitOf(graph, g[s \ {m + 1}], turns[m + 1]) ELSE g[s]]
  <2>3. \A s \in SUBSET (1 .. m) : s \in SUBSET (1 .. m + 1) /\ m + 1 \notin s /\ h[s] = g[s]
    <3>1. \A s \in SUBSET (1 .. m) : s \in SUBSET (1 .. m + 1) /\ m + 1 \notin s
      OBVIOUS
    <3> QED BY <3>1
  <2>4. ASSUME NEW s \in SUBSET (1 .. m + 1)
        PROVE  h[s] = IF s = {} THEN NoneFound ELSE VisitOf(graph, h[s \ {Max(s)}], turns[Max(s)])
    <3>1. CASE m + 1 \in s
      <4>1. Max(s) = m + 1 /\ s \ {m + 1} \in SUBSET (1 .. m) /\ s # {}
        BY <3>1, LastOfFirst
      <4>2. h[s] = VisitOf(graph, g[s \ {m + 1}], turns[m + 1])
        BY <3>1
      <4>3. h[s \ {m + 1}] = g[s \ {m + 1}]
        BY <2>3, <4>1
      <4> HIDE DEF h
      <4> QED BY <4>1, <4>2, <4>3
    <3>2. CASE m + 1 \notin s
      <4>1. s \in SUBSET (1 .. m)
        BY <3>2, LastOfFirst
      <4>2. h[s] = g[s] /\ h[s \ {Max(s)}] = g[s \ {Max(s)}]
        <5>1. s \ {Max(s)} \in SUBSET (1 .. m)
          BY <4>1
        <5> HIDE DEF h
        <5> QED BY <2>3, <4>1, <5>1
      <4> HIDE DEF h
      <4> QED BY <2>2, <4>1, <4>2
    <3> QED BY <3>1, <3>2
  <2>5. h = [s \in SUBSET (1 .. m + 1) |-> h[s]]
    OBVIOUS
  <2> HIDE DEF h
  <2>6. FoldRule(h, graph, turns, 1 .. m + 1)
    BY <2>4, <2>5 DEF FoldRule
  <2> QED BY <2>6
<1>3. Nat \subseteq N
  <2> HIDE DEF N
  <2> QED BY <1>1, <1>2, NatInduct
<1>4. \E g : FoldRule(g, graph, turns, DOMAIN turns)
  BY <1>3
<1> QED BY <1>4 DEF Fold

\* The turns, one by one.
LEMMA TurnByTurn ==
  ASSUME NEW graph, NEW turns, NEW len \in Nat, DOMAIN turns = 1 .. len
  PROVE  LET g == Fold(graph, turns)
         IN  /\ g[1 .. 0] = NoneFound
             /\ \A k \in 0 .. len - 1 : g[1 .. k + 1] = VisitOf(graph, g[1 .. k], turns[k + 1])
<1>1. PICK g : g = Fold(graph, turns)
  OBVIOUS
<1>2. \A s \in SUBSET (1 .. len) : g[s] = IF s = {} THEN NoneFound
                                          ELSE VisitOf(graph, g[s \ {Max(s)}], turns[Max(s)])
  <2>1. FoldRule(g, graph, turns, 1 .. len)
    BY <1>1, FoldExists
  <2> QED BY <2>1 DEF FoldRule
<1>3. g[1 .. 0] = NoneFound
  <2>1. 1 .. 0 = {} /\ 1 .. 0 \in SUBSET (1 .. len)
    OBVIOUS
  <2> QED BY <1>2, <2>1
<1>4. ASSUME NEW k \in 0 .. len - 1 PROVE g[1 .. k + 1] = VisitOf(graph, g[1 .. k], turns[k + 1])
  <2>1. k \in Nat /\ 1 .. k + 1 \in SUBSET (1 .. len) /\ k + 1 \in 1 .. k + 1
    OBVIOUS
  <2>2. Max(1 .. k + 1) = k + 1 /\ (1 .. k + 1) \ {k + 1} = 1 .. k
    <3>1. PICK s : s = 1 .. k + 1
      OBVIOUS
    <3>2. s \in SUBSET (1 .. k + 1) /\ k + 1 \in s
      BY <2>1, <3>1
    <3>3. Max(s) = k + 1 /\ (1 .. k + 1) \ {k + 1} = 1 .. k
      BY <2>1, <3>2, LastOfFirst
    <3> QED BY <3>1, <3>3
  <2>3. 1 .. k + 1 # {}
    BY <2>1
  <2> QED BY <1>2, <2>1, <2>2, <2>3
<1> QED BY <1>1, <1>3, <1>4

-----------------------------------------------------------------------------
\* The agents that wait only on one another, and no fewer of them do.
IsLeastClosed(graph, S) ==
  S # {} /\ IsClosed(graph, S) /\ \A R \in SUBSET S : R # {} /\ IsClosed(graph, R) => R = S
RecordedOnce(rings, S) ==
  \E ring \in ToSet(rings) : ToSet(ring) = S /\ \A other \in ToSet(rings) : ToSet(other) = S => other = ring

\* What has been found after some turns: rings, and each ring among the agents met.
FoundSoFar(graph, found) ==
  /\ found.visited \subseteq Waiter /\ found.rings \in Seq(Seq(Waiter))
  /\ \A a \in found.visited : a \in DOMAIN graph => graph[a] \in found.visited
  /\ \A ring \in ToSet(found.rings) : IsRing(graph, ring) /\ ToSet(ring) \subseteq found.visited
  /\ \A S \in SUBSET found.visited : IsLeastClosed(graph, S) => RecordedOnce(found.rings, S)

\* A ring's agents wait only on one another.
LEMMA RingClosed ==
  ASSUME NEW graph, NEW ring, IsRing(graph, ring)
  PROVE  ToSet(ring) # {} /\ IsClosed(graph, ToSet(ring))
<1>1. 1 \in DOMAIN ring /\ DOMAIN ring = 1 .. Len(ring) /\ Len(ring) \in Nat
  BY DEF IsRing
<1>2. ASSUME NEW i \in DOMAIN ring PROVE graph[ring[i]] \in ToSet(ring)
  <2>1. graph[ring[i]] = ring[IF i = Len(ring) THEN 1 ELSE i + 1]
    BY DEF IsRing, NextIn
  <2>2. (IF i = Len(ring) THEN 1 ELSE i + 1) \in DOMAIN ring
    BY <1>1
  <2> QED BY <2>1, <2>2 DEF ToSet
<1>3. ToSet(ring) # {}
  BY <1>1 DEF ToSet
<1> QED BY <1>2, <1>3 DEF IsClosed, IsRing, ToSet

\* What is appended joins the members.
LEMMA ToSetAppend ==
  ASSUME NEW T, NEW s \in Seq(T), NEW x \in T
  PROVE  Append(s, x) \in Seq(T) /\ ToSet(Append(s, x)) = ToSet(s) \cup {x}
<1>1. /\ DOMAIN s = 1 .. Len(s) /\ DOMAIN Append(s, x) = 1 .. Len(s) + 1 /\ Len(s) \in Nat
      /\ \A i \in 1 .. Len(s) : Append(s, x)[i] = s[i]
      /\ Append(s, x)[Len(s) + 1] = x
      /\ Append(s, x) \in Seq(T)
  OBVIOUS
<1>2. PICK more : more = Append(s, x)
  OBVIOUS
<1>3. ASSUME NEW y \in ToSet(more) PROVE y \in ToSet(s) \cup {x}
  <2>1. PICK i \in 1 .. Len(s) + 1 : y = more[i]
    BY <1>1, <1>2, <1>3 DEF ToSet
  <2>2. i = Len(s) + 1 \/ i \in 1 .. Len(s)
    BY <1>1
  <2> QED BY <1>1, <1>2, <2>1, <2>2 DEF ToSet
<1>4. ASSUME NEW y \in ToSet(s) PROVE y \in ToSet(more)
  <2>1. PICK i \in 1 .. Len(s) : y = s[i]
    BY <1>1, <1>4 DEF ToSet
  <2>2. i \in 1 .. Len(s) + 1
    BY <1>1
  <2> QED BY <1>1, <1>2, <2>1, <2>2 DEF ToSet
<1>5. x \in ToSet(more)
  <2>1. Len(s) + 1 \in 1 .. Len(s) + 1
    BY <1>1
  <2> QED BY <1>1, <1>2, <2>1 DEF ToSet
<1> QED BY <1>1, <1>2, <1>3, <1>4, <1>5

\* A turn adds what the agent's walk meets, and the ring that it ends in, if that is a new one.
LEMMA TurnFinds ==
  ASSUME NEW graph, IsWaitGraph(graph), NEW start \in Waiter, NEW found, FoundSoFar(graph, found)
  PROVE  LET next == VisitOf(graph, found, start)
         IN  FoundSoFar(graph, next) /\ found.visited \cup {start} \subseteq next.visited
<1>1. CASE start \in found.visited
  BY <1>1 DEF VisitOf, FoundSoFar
<1>2. CASE start \notin found.visited
  <2>1. PICK walk : walk = Walk(graph, start, found.visited)
    OBVIOUS
  <2>2. found.visited \in SUBSET Waiter
    BY DEF FoundSoFar
  <2>3. /\ start \in walk.path /\ walk.path \subseteq Waiter \ found.visited
        /\ \A a \in walk.path : a \in DOMAIN graph => graph[a] \in walk.path \cup found.visited
        /\ walk.ring # <<>> => IsRing(graph, walk.ring) /\ ToSet(walk.ring) \subseteq walk.path
        /\ \A R \in SUBSET walk.path :
             R # {} /\ IsClosed(graph, R) => walk.ring # <<>> /\ ToSet(walk.ring) \subseteq R
    BY <1>2, <2>1, <2>2, WalkFinds
  <2>4. PICK next : next = VisitOf(graph, found, start)
    OBVIOUS
  <2>5. /\ next.visited = found.visited \cup walk.path
        /\ next.rings = IF walk.ring = <<>> THEN found.rings ELSE Append(found.rings, walk.ring)
    BY <1>2, <2>1, <2>4 DEF VisitOf
  <2>6. /\ next.rings \in Seq(Seq(Waiter))
        /\ ToSet(next.rings) = ToSet(found.rings) \cup (IF walk.ring = <<>> THEN {} ELSE {walk.ring})
    <3>1. walk.ring # <<>> => walk.ring \in Seq(Waiter)
      BY <2>3 DEF IsRing
    <3>2. found.rings \in Seq(Seq(Waiter))
      BY DEF FoundSoFar
    <3>3. walk.ring # <<>> => /\ Append(found.rings, walk.ring) \in Seq(Seq(Waiter))
                              /\ ToSet(Append(found.rings, walk.ring)) = ToSet(found.rings) \cup {walk.ring}
      BY <3>1, <3>2, ToSetAppend
    <3> QED BY <2>5, <3>2, <3>3
  <2>7. ASSUME NEW S \in SUBSET next.visited, IsLeastClosed(graph, S) PROVE RecordedOnce(next.rings, S)
    <3>1. S # {} /\ IsClosed(graph, S)
      BY <2>7 DEF IsLeastClosed
    <3>2. CASE S \cap found.visited # {}
      <4>1. IsClosed(graph, S \cap found.visited)
        BY <3>1 DEF IsClosed, FoundSoFar
      <4>2. S \cap found.visited = S
        BY <2>7, <3>2, <4>1 DEF IsLeastClosed
      <4>3. RecordedOnce(found.rings, S)
        BY <2>7, <4>2 DEF FoundSoFar
      <4>4. walk.ring # <<>> => ToSet(walk.ring) # S
        BY <2>3, <3>2
      <4> QED BY <2>6, <4>3, <4>4 DEF RecordedOnce
    <3>3. CASE S \cap found.visited = {}
      <4>1. S \in SUBSET walk.path
        BY <2>5, <3>3
      <4>2. walk.ring # <<>> /\ ToSet(walk.ring) \subseteq S
        BY <2>3, <3>1, <4>1
      <4>3. ToSet(walk.ring) # {} /\ IsClosed(graph, ToSet(walk.ring))
        BY <2>3, <4>2, RingClosed
      <4>4. ToSet(walk.ring) = S
        BY <2>7, <4>2, <4>3 DEF IsLeastClosed
      <4>5. \A ring \in ToSet(found.rings) : ToSet(ring) # S
        BY <3>1, <3>3 DEF FoundSoFar
      <4> QED BY <2>6, <4>2, <4>4, <4>5 DEF RecordedOnce
    <3> QED BY <3>2, <3>3
  <2>8. next.visited \subseteq Waiter
    BY <2>2, <2>3, <2>5
  <2>9. \A a \in next.visited : a \in DOMAIN graph => graph[a] \in next.visited
    BY <2>3, <2>5 DEF FoundSoFar
  <2>10. \A ring \in ToSet(next.rings) : IsRing(graph, ring) /\ ToSet(ring) \subseteq next.visited
    BY <2>3, <2>5, <2>6 DEF FoundSoFar
  <2>11. FoundSoFar(graph, next)
    BY <2>6, <2>7, <2>8, <2>9, <2>10 DEF FoundSoFar
  <2> QED BY <2>3, <2>4, <2>5, <2>11
<1> QED BY <1>1, <1>2

\* An turns of a finite set has each of its members.
LEMMA OrderHasAll ==
  ASSUME NEW S, IsFiniteSet(S), NEW turns \in SetToSeqs(S)
  PROVE  /\ Cardinality(S) \in Nat /\ turns \in [1 .. Cardinality(S) -> S]
         /\ \A a \in S : \E i \in 1 .. Cardinality(S) : turns[i] = a
<1>1. PICK n : n = Cardinality(S) /\ n \in Nat
  BY FS_CardinalityType
<1>2. PICK D : D = 1 .. n
  OBVIOUS
<1>3. turns \in [D -> S] /\ \A i, j \in D : i # j => turns[i] # turns[j]
  BY <1>1, <1>2 DEF SetToSeqs
<1>4. IsFiniteSet(D) /\ Cardinality(D) = n
  BY <1>1, <1>2, FS_Interval
<1>5. turns \in Injection(D, S)
  BY <1>3 DEF Injection, IsInjective
<1>6. turns \in Surjection(D, S)
  BY <1>1, <1>4, <1>5, FS_Injection
<1> QED BY <1>1, <1>2, <1>3, <1>6 DEF Surjection

\* detectCycles finds rings only, and each of them once, in whatever turns it goes.
LEMMA DetectFinds ==
  ASSUME NEW graph, IsWaitGraph(graph), NEW turns \in SetToSeqs(DOMAIN graph)
  PROVE  LET rings == DetectCycles(graph, turns)
         IN  /\ \A ring \in ToSet(rings) : IsRing(graph, ring)
             /\ \A S \in SUBSET DOMAIN graph : IsLeastClosed(graph, S) => RecordedOnce(rings, S)
<1>1. IsFiniteSet(DOMAIN graph)
  BY FleetAssumption, FS_Subset DEF IsWaitGraph
<1>2. PICK len : len = Cardinality(DOMAIN graph)
  OBVIOUS
<1>3. /\ len \in Nat /\ turns \in [1 .. len -> DOMAIN graph]
      /\ \A a \in DOMAIN graph : \E i \in 1 .. len : turns[i] = a
  BY <1>1, <1>2, OrderHasAll
<1>4. PICK g : g = Fold(graph, turns)
  OBVIOUS
<1>5. /\ g[1 .. 0] = NoneFound
      /\ \A k \in 0 .. len - 1 : g[1 .. k + 1] = VisitOf(graph, g[1 .. k], turns[k + 1])
  <2>1. DOMAIN turns = 1 .. len
    BY <1>3
  <2>2. len \in Nat
    BY <1>3
  <2> QED BY <1>4, <2>1, <2>2, TurnByTurn
<1> DEFINE Good(k) == FoundSoFar(graph, g[1 .. k]) /\ \A i \in 1 .. k : turns[i] \in g[1 .. k].visited
           N == {k \in Nat : k <= len => Good(k)}
<1>6. 0 \in N
  <2>1. ToSet(<<>>) = {}
    BY DEF ToSet
  <2>2. \A S \in SUBSET {} : ~ IsLeastClosed(graph, S)
    BY DEF IsLeastClosed
  <2>3. FoundSoFar(graph, NoneFound)
    BY <2>1, <2>2 DEF FoundSoFar, NoneFound
  <2> QED BY <1>5, <2>3
<1>7. ASSUME NEW k \in Nat, k \in N PROVE k + 1 \in N
  <2> SUFFICES ASSUME k + 1 <= len PROVE Good(k + 1)
    OBVIOUS
  <2>1. k \in 0 .. len - 1 /\ k + 1 \in 1 .. len /\ Good(k)
    BY <1>3, <1>7
  <2>2. turns[k + 1] \in Waiter
    BY <1>3, <2>1 DEF IsWaitGraph
  <2>3. g[1 .. k + 1] = VisitOf(graph, g[1 .. k], turns[k + 1])
    BY <1>5, <2>1
  <2>4. FoundSoFar(graph, g[1 .. k + 1]) /\ g[1 .. k].visited \cup {turns[k + 1]} \subseteq g[1 .. k + 1].visited
    BY <2>1, <2>2, <2>3, TurnFinds
  <2>5. \A i \in 1 .. k + 1 : i = k + 1 \/ i \in 1 .. k
    OBVIOUS
  <2> QED BY <2>1, <2>4, <2>5
<1>8. Good(len)
  <2>1. Nat \subseteq N
    <3> HIDE DEF N
    <3> QED BY <1>6, <1>7, NatInduct
  <2> QED BY <1>3, <2>1
<1>9. DOMAIN graph \subseteq g[1 .. len].visited
  BY <1>3, <1>8
<1>10. DetectCycles(graph, turns) = g[1 .. len].rings
  BY <1>3, <1>4, DetectDef
<1> QED BY <1>8, <1>9, <1>10 DEF FoundSoFar

-----------------------------------------------------------------------------
\* A row is in the window, and says of its sender what was so before it came.
HeartbeatRow(row, t) ==
  /\ row.on \in Waiter \cup {NoWaiter}
  /\ row.since \in Nat /\ row.sent \in Nat /\ row.seen \in Nat
  /\ row.since <= row.sent /\ row.sent <= row.seen /\ row.seen - row.sent <= MaxDelay
  /\ row.seen <= t /\ t - row.seen <= Window
\* The rows are such, and so are the debts of the latest sweep.
FleetInv ==
  /\ clock \in 0 .. MaxClock
  /\ DOMAIN heartbeat \subseteq Waiter /\ \A a \in DOMAIN heartbeat : HeartbeatRow(heartbeat[a], clock)
  /\ debts.at \in 0 .. clock /\ \A ring \in debts.rings : ToSet(ring) \subseteq Waiter

\* The graph that a sweep reads is one.
LEMMA WaitGraphIsOne ==
  ASSUME FleetInv
  PROVE  /\ IsWaitGraph(WaitGraph)
         /\ \A a \in DOMAIN WaitGraph : a \in DOMAIN heartbeat /\ WaitGraph[a] = heartbeat[a].on
BY DEF FleetInv, HeartbeatRow, WaitGraph, IsWaitGraph

\* At the start there is no row and no debt.
LEMMA FleetInvInit == FleetInit => FleetInv
BY FleetAssumption DEF FleetInit, FleetInv

\* A heartbeat puts such a row in the place of the last.
LEMMA HeartbeatKeeps ==
  ASSUME FleetInv, NEW a \in Waiter, NEW on \in Waiter \cup {NoWaiter}, NEW sent \in 0 .. clock,
         clock - sent <= MaxDelay, NEW since \in 0 .. Min({sent, MaxSince}),
         RecordHeartbeat(a, on, since, sent)
  PROVE  FleetInv'
<1>1. sent \in Nat /\ MaxSince \in Nat /\ Window \in Nat /\ MaxDelay \in Nat /\ clock \in Nat
  BY FleetAssumption DEF FleetInv
<1>2. since \in Nat /\ since <= sent
  <2>1. Min({sent, MaxSince}) \in {sent, MaxSince} /\ Min({sent, MaxSince}) <= sent
    BY <1>1, MinOfSome
  <2> QED BY <1>1, <2>1
<1>3. HeartbeatRow([on |-> on, since |-> since, sent |-> sent, seen |-> clock], clock)
  BY <1>1, <1>2 DEF HeartbeatRow
<1>4. clock' = clock /\ debts' = debts
  BY DEF RecordHeartbeat
<1>5. DOMAIN heartbeat' \subseteq Waiter
  BY DEF RecordHeartbeat, FleetInv
<1>6. ASSUME NEW b \in DOMAIN heartbeat' PROVE HeartbeatRow(heartbeat'[b], clock)
  BY <1>3 DEF RecordHeartbeat, FleetInv
<1>7. \A b \in DOMAIN heartbeat' : HeartbeatRow(heartbeat'[b], clock')
  BY <1>4, <1>6 DEF HeartbeatRow
<1> QED BY <1>4, <1>5, <1>7 DEF FleetInv

\* Time passes; the rows that leave the window are dropped.
LEMMA MinuteKeeps ==
  ASSUME FleetInv, Minute PROVE FleetInv'
<1>1. clock' = clock + 1 /\ clock' \in 0 .. MaxClock /\ debts' = debts /\ clock \in Nat /\ Window \in Nat
  BY FleetAssumption DEF Minute, FleetInv
<1>2. ASSUME NEW a \in DOMAIN heartbeat'
      PROVE  /\ a \in Waiter /\ HeartbeatRow(heartbeat[a], clock)
             /\ heartbeat'[a] = heartbeat[a] /\ clock' - heartbeat[a].seen <= Window
  BY DEF Minute, FleetInv
<1>3. ASSUME NEW a \in DOMAIN heartbeat' PROVE HeartbeatRow(heartbeat'[a], clock')
  BY <1>1, <1>2 DEF HeartbeatRow
<1>4. debts'.at \in 0 .. clock'
  BY <1>1 DEF FleetInv
<1> QED BY <1>1, <1>2, <1>3, <1>4 DEF FleetInv

\* What a sweep records.
LEMMA SweepFinds ==
  ASSUME FleetInv, NEW turns \in SetToSeqs(DOMAIN WaitGraph), Sweep(turns)
  PROVE  /\ \A ring \in debts'.rings : IsRing(WaitGraph, ring) /\ AllTimedOut(ring)
         /\ \A S \in SUBSET DOMAIN WaitGraph :
              IsLeastClosed(WaitGraph, S) /\ (\A a \in S : clock - heartbeat[a].since >= Timeout) =>
                RecordedOnce(DetectCycles(WaitGraph, turns), S)
                /\ \A ring \in ToSet(DetectCycles(WaitGraph, turns)) : ToSet(ring) = S => AllTimedOut(ring)
<1>1. IsWaitGraph(WaitGraph) /\ \A a \in DOMAIN WaitGraph : a \in DOMAIN heartbeat
  BY WaitGraphIsOne
<1>2. /\ \A ring \in ToSet(DetectCycles(WaitGraph, turns)) : IsRing(WaitGraph, ring)
      /\ \A S \in SUBSET DOMAIN WaitGraph :
           IsLeastClosed(WaitGraph, S) => RecordedOnce(DetectCycles(WaitGraph, turns), S)
  BY <1>1, DetectFinds
<1>3. debts'.rings = {ring \in ToSet(DetectCycles(WaitGraph, turns)) : AllTimedOut(ring)}
  BY DEF Sweep
<1>4. ASSUME NEW S \in SUBSET DOMAIN WaitGraph, \A a \in S : clock - heartbeat[a].since >= Timeout,
             NEW ring, ToSet(ring) = S
      PROVE  AllTimedOut(ring)
  BY <1>1, <1>4 DEF AllTimedOut, ToSet
<1> QED BY <1>2, <1>3, <1>4

\* A sweep leaves the rows, and its rings are of agents.
LEMMA SweepKeeps ==
  ASSUME FleetInv, NEW turns \in SetToSeqs(DOMAIN WaitGraph), Sweep(turns) PROVE FleetInv'
<1>1. \A ring \in debts'.rings : IsRing(WaitGraph, ring)
  BY SweepFinds
<1>2. \A ring \in debts'.rings : ToSet(ring) \subseteq Waiter
  BY <1>1, WaitGraphIsOne DEF IsRing, IsWaitGraph, ToSet
<1>3. debts'.at = clock /\ UNCHANGED <<clock, heartbeat>>
  BY DEF Sweep
<1>4. \A a \in DOMAIN heartbeat : HeartbeatRow(heartbeat'[a], clock')
  BY <1>3 DEF FleetInv, HeartbeatRow
<1>5. clock \in 0 .. clock
  BY DEF FleetInv
<1> QED BY <1>2, <1>3, <1>4, <1>5 DEF FleetInv

\* One step per heartbeat, minute and sweep.
LEMMA FleetInvNext == FleetInv /\ [FleetNext]_fleetVars => FleetInv'
<1>1. ASSUME FleetInv, UNCHANGED fleetVars PROVE FleetInv'
  BY <1>1 DEF fleetVars, FleetInv, HeartbeatRow
<1>2. ASSUME FleetInv, FleetNext PROVE FleetInv'
  BY <1>2, HeartbeatKeeps, MinuteKeeps, SweepKeeps DEF FleetNext
<1> QED BY <1>1, <1>2

\* A set that Ring names is one whose agents wait only on one another, and no fewer.
LEMMA RingIsLeast ==
  ASSUME NEW S, Ring(S) PROVE IsLeastClosed(WaitGraph, S)
<1> DEFINE closed == {R \in (SUBSET S) \ {{}} : \A a \in R : a \in DOMAIN WaitGraph /\ WaitGraph[a] \in R}
<1>1. closed = {S}
  BY DEF Ring
<1>2. S \in closed /\ \A R \in closed : R = S
  BY <1>1
<1> QED BY <1>2 DEF IsLeastClosed, IsClosed

\* A sweep records rings whose agents have all waited at once, and each of them once.
LEMMA SweepStep ==
  ASSUME FleetInv, NEW turns \in SetToSeqs(DOMAIN WaitGraph), Sweep(turns)
  PROVE  /\ \A ring \in debts'.rings : \A i \in DOMAIN ring :
              LET row == heartbeat[ring[i]] IN
              /\ row.on = ring[IF i = Len(ring) THEN 1 ELSE i + 1]
              /\ \A t \in clock - Timeout .. clock - Window - MaxDelay : row.since <= t /\ t <= row.sent
         /\ \A S \in SUBSET DOMAIN WaitGraph :
              Ring(S) /\ (\A a \in S : clock - heartbeat[a].since >= Timeout) =>
                \E ring \in debts'.rings :
                  ToSet(ring) = S /\ \A other \in debts'.rings : ToSet(other) = S => other = ring
<1>1. debts'.rings = {ring \in ToSet(DetectCycles(WaitGraph, turns)) : AllTimedOut(ring)}
  BY DEF Sweep
<1>2. ASSUME NEW ring \in debts'.rings, NEW i \in DOMAIN ring
      PROVE  /\ heartbeat[ring[i]].on = ring[IF i = Len(ring) THEN 1 ELSE i + 1]
             /\ \A t \in clock - Timeout .. clock - Window - MaxDelay :
                  heartbeat[ring[i]].since <= t /\ t <= heartbeat[ring[i]].sent
  <2>1. IsRing(WaitGraph, ring) /\ AllTimedOut(ring)
    BY SweepFinds
  <2>2. PICK row : row = heartbeat[ring[i]]
    OBVIOUS
  <2>3. ring[i] \in DOMAIN heartbeat /\ clock - row.since >= Timeout
    BY <2>1, <2>2 DEF AllTimedOut
  <2>4. WaitGraph[ring[i]] = NextIn(ring, i) /\ WaitGraph[ring[i]] = row.on
    BY <2>1, <2>2, WaitGraphIsOne DEF IsRing
  <2>5. HeartbeatRow(row, clock)
    BY <2>2, <2>3 DEF FleetInv
  <2>6. ASSUME NEW t \in clock - Timeout .. clock - Window - MaxDelay PROVE row.since <= t /\ t <= row.sent
    <3>1. clock \in Nat /\ Timeout \in Nat /\ Window \in Nat /\ MaxDelay \in Nat
      BY FleetAssumption DEF FleetInv
    <3> QED BY <2>3, <2>5, <3>1 DEF HeartbeatRow
  <2> QED BY <2>2, <2>4, <2>6 DEF NextIn
<1>3. ASSUME NEW S \in SUBSET DOMAIN WaitGraph, Ring(S), \A a \in S : clock - heartbeat[a].since >= Timeout
      PROVE  \E ring \in debts'.rings :
               ToSet(ring) = S /\ \A other \in debts'.rings : ToSet(other) = S => other = ring
  <2>1. IsLeastClosed(WaitGraph, S)
    BY <1>3, RingIsLeast
  <2>2. /\ RecordedOnce(DetectCycles(WaitGraph, turns), S)
        /\ \A ring \in ToSet(DetectCycles(WaitGraph, turns)) : ToSet(ring) = S => AllTimedOut(ring)
    BY <1>3, <2>1, SweepFinds
  <2> QED BY <1>1, <2>2 DEF RecordedOnce
<1> QED BY <1>2, <1>3

\* Rows are in the window and say what was so before they came, and debts are of agents.
THEOREM SweepsAreSound == FleetSpec => []FleetTypeOK
<1>1. FleetInv => FleetTypeOK
  <2> SUFFICES ASSUME FleetInv PROVE FleetTypeOK
    OBVIOUS
  <2>1. ASSUME NEW a \in DOMAIN heartbeat
        PROVE  /\ a \in Waiter /\ heartbeat[a].on \in Waiter \cup {NoWaiter}
               /\ 0 <= heartbeat[a].since /\ heartbeat[a].since <= heartbeat[a].sent
               /\ heartbeat[a].sent \in heartbeat[a].seen - MaxDelay .. heartbeat[a].seen
               /\ heartbeat[a].seen \in clock - Window .. clock
    <3>1. HeartbeatRow(heartbeat[a], clock) /\ a \in Waiter /\ clock \in Nat /\ Window \in Nat /\ MaxDelay \in Nat
      BY FleetAssumption DEF FleetInv
    <3> QED BY <3>1 DEF HeartbeatRow
  <2> QED BY <2>1 DEF FleetInv, FleetTypeOK
<1> QED BY <1>1, FleetInvInit, FleetInvNext, PTL DEF FleetSpec

\* For every finite set of agents and every turns of heartbeats, minutes and sweeps, a sweep
\* records a debt for those rings of agents, and for them once, of which each has waited on
\* the next as long as the timeout (DeadlockBreakerService.sweep).
THEOREM SweepsAreRight == FleetSpec => SweepsFindDeadlocks
<1> DEFINE Right ==
       /\ \A ring \in debts'.rings : \A i \in DOMAIN ring :
            LET row == heartbeat[ring[i]] IN
            /\ row.on = ring[IF i = Len(ring) THEN 1 ELSE i + 1]
            /\ \A t \in clock - Timeout .. clock - Window - MaxDelay : row.since <= t /\ t <= row.sent
       /\ \A S \in SUBSET DOMAIN WaitGraph :
            Ring(S) /\ (\A a \in S : clock - heartbeat[a].since >= Timeout) =>
              \E ring \in debts'.rings :
                ToSet(ring) = S /\ \A other \in debts'.rings : ToSet(other) = S => other = ring
<1>1. ASSUME FleetInv, FleetNext, debts' # debts PROVE Right
  <2>1. PICK turns \in SetToSeqs(DOMAIN WaitGraph) : Sweep(turns)
    BY <1>1 DEF FleetNext, RecordHeartbeat, Minute
  <2> QED BY <1>1, <2>1, SweepStep
<1>2. FleetInv /\ [FleetNext]_fleetVars => [debts' # debts => Right]_fleetVars
  <2> HIDE DEF Right
  <2> QED BY <1>1
<1>3. FleetSpec => [][debts' # debts => Right]_fleetVars
  <2> HIDE DEF Right
  <2> QED BY <1>2, FleetInvInit, FleetInvNext, PTL DEF FleetSpec
<1> QED BY <1>3 DEF SweepsFindDeadlocks
=============================================================================
