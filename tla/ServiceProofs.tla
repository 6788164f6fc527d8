--------------------------- MODULE ServiceProofs ------------------------------
(***************************************************************************)
(* Proofs about the services around the tickets: TicketDispatcher,         *)
(* SchedulePlanning, RepositoryAnalysis and LiveLogs, for every set of     *)
(* tickets, agents, jobs, repositories, workers and runs, every limit and  *)
(* every number of calls and failures.                                     *)
(***************************************************************************)
EXTENDS TicketDispatcher, SchedulePlanning, RepositoryAnalysis, LiveLogs, FoldFacts

\* What counts as an agent's work.
Counted(t) == AtWork(t) /\ t \notin forced

\* The rows in hand are of different tickets, none of which counts as work.
QueueKept ==
  /\ \E S : queue \in Seq(S)
  /\ \A i \in DOMAIN queue : queue[i].ticket \in Ticket /\ ~Counted(queue[i].ticket)
  /\ \A i, j \in DOMAIN queue : queue[i].ticket = queue[j].ticket => i = j
  /\ queue = <<>> <=> stage = "idle"
  /\ DOMAIN status = Ticket /\ DOMAIN assignee = Ticket /\ DOMAIN chosen = Ticket

\* The agent that has been counted has room for the ticket, until it is dispatched,
\* unless an owner has given it one since.
RoomLeft ==
  /\ WipRespected
  /\ stage \in {"assign", "dispatch"} /\ agent \in Agent \ pushed => Cardinality(Working(agent)) < WipLimit
  /\ stage = "dispatch" => assignee[Head(queue).ticket] \in pushed \cup {agent}

\* A row was read with the agent its owner has chosen, and so was an approval's
\* ticket, and that agent was resolved, unless the ticket is excused.
Chose(t, a) == t \notin excused /\ chosen[t] # NoAgent => a = chosen[t]
ChoiceKept ==
  /\ \A t \in Ticket : Chose(t, assignee[t])
  /\ \A i \in DOMAIN queue : Chose(queue[i].ticket, queue[i].assignee)
  /\ stage \in {"check", "assign", "dispatch"} => Chose(Head(queue).ticket, agent)
  /\ approval.step \in {"resolve", "assign"} =>
       approval.ticket \in Ticket /\ Chose(approval.ticket, approval.agent)

DispatchInv == QueueKept /\ RoomLeft /\ ChoiceKept

\* There are finitely many tickets, so the work of an agent can be counted.
LEMMA WorkingFinite ==
  ASSUME NEW a PROVE IsFiniteSet(Working(a)) /\ Cardinality(Working(a)) \in Nat
BY TicketDispatcherAssumption, FS_Subset, FS_CardinalityType DEF Working

\* Who has no more tickets than before is not nearer to the limit.
LEMMA NoMoreWork ==
  ASSUME NEW a, Working(a)' \subseteq Working(a)
  PROVE  Cardinality(Working(a))' \in Nat /\ Cardinality(Working(a))' <= Cardinality(Working(a))
<1>1. PICK W : W = Working(a)'
  OBVIOUS
<1>2. IsFiniteSet(W) /\ Cardinality(W) <= Cardinality(Working(a)) /\ Cardinality(W) \in Nat
  BY <1>1, WorkingFinite, FS_Subset, FS_CardinalityType
<1> QED BY <1>1, <1>2

\* Nothing is in hand at the start.
LEMMA DispatchInvInit == DispatchInit => DispatchInv
<1> SUFFICES ASSUME DispatchInit PROVE DispatchInv
  OBVIOUS
<1> USE DEF DispatchInit
<1>1. queue \in Seq({})
  OBVIOUS
<1>2. QueueKept
  BY <1>1 DEF QueueKept
<1>3. \A a : Working(a) = {}
  BY DEF Working, AtWork, AtWorkStatuses
<1>4. RoomLeft
  <2>1. ASSUME NEW a \in Agent PROVE Cardinality(Working(a)) = 0
    BY <1>3, FS_EmptySet
  <2>2. WipRespected
    BY <2>1, TicketDispatcherAssumption DEF WipRespected
  <2> QED BY <2>2 DEF RoomLeft
<1>5. ChoiceKept
  BY DEF ChoiceKept, Chose, NoApproval
<1> QED BY <1>2, <1>4, <1>5 DEF DispatchInv

\* A step that gives nobody more work, nor takes anything from those who have been
\* given some.
LEMMA RoomKept ==
  ASSUME DispatchInv, \A a \in Agent \ pushed' : Working(a)' \subseteq Working(a), pushed \subseteq pushed',
         stage' \in {"assign", "dispatch"} =>
           /\ agent' = agent
           /\ stage \in {"assign", "dispatch"} \/ Eligible(agent),
         stage' = "dispatch" => assignee'[Head(queue').ticket] \in pushed' \cup {agent}
  PROVE  RoomLeft'
<1>1. ASSUME NEW a \in Agent \ pushed' PROVE /\ Cardinality(Working(a))' \in Nat
                                             /\ Cardinality(Working(a))' <= Cardinality(Working(a))
                                             /\ Cardinality(Working(a)) \in Nat
  BY NoMoreWork, WorkingFinite
<1>2. WipRespected'
  BY <1>1, TicketDispatcherAssumption DEF DispatchInv, RoomLeft, WipRespected
<1>3. ASSUME stage' \in {"assign", "dispatch"}, agent' \in Agent \ pushed'
      PROVE  Cardinality(Working(agent))' < WipLimit
  <2>1. agent' = agent /\ agent \in Agent \ pushed' /\ agent \in Agent \ pushed
    BY <1>3
  <2>2. Cardinality(Working(agent)) < WipLimit
    <3>1. CASE stage \in {"assign", "dispatch"}
      BY <2>1, <3>1 DEF DispatchInv, RoomLeft
    <3>2. CASE Eligible(agent)
      <4> DEFINE counted == {t \in Ticket : assignee[t] = agent /\ status[t] \in ActiveStatuses}
      <4>1. Working(agent) \subseteq counted
        BY DEF Working, AtWork, AtWorkStatuses, ActiveStatuses
      <4>2. IsFiniteSet(counted)
        BY TicketDispatcherAssumption, FS_Subset
      <4>3. Cardinality(Working(agent)) <= Cardinality(counted) /\ Cardinality(counted) \in Nat
        BY <4>1, <4>2, FS_Subset, FS_CardinalityType
      <4>4. Cardinality(counted) < WipLimit
        BY <3>2 DEF Eligible, Wip
      <4> HIDE DEF counted
      <4> QED BY <4>3, <4>4, WorkingFinite, TicketDispatcherAssumption
    <3> QED BY <1>3, <3>1, <3>2
  <2>3. Cardinality(Working(agent))' = Cardinality(Working(agent)')
    OBVIOUS
  <2>4. Cardinality(Working(agent)') <= Cardinality(Working(agent)) /\ Cardinality(Working(agent)') \in Nat
    BY <2>1, <1>1
  <2> QED BY <2>1, <2>2, <2>3, <2>4, WorkingFinite, TicketDispatcherAssumption
<1> QED BY <1>2, <1>3 DEF RoomLeft

\* The rest of a queue.
LEMMA RestOfQueue ==
  ASSUME QueueKept, stage # "idle"
  PROVE  /\ Head(queue) = queue[1] /\ 1 \in DOMAIN queue
         /\ queue[1].ticket \in Ticket /\ ~Counted(queue[1].ticket)
         /\ \E S : Tail(queue) \in Seq(S)
         /\ \A i \in DOMAIN Tail(queue) : i + 1 \in DOMAIN queue /\ i + 1 # 1 /\ Tail(queue)[i] = queue[i + 1]
         /\ \A i, j \in DOMAIN Tail(queue) : i + 1 = j + 1 => i = j
<1>1. PICK S : queue \in Seq(S)
  BY DEF QueueKept
<1>2. queue # <<>>
  BY DEF QueueKept
<1>3. Tail(queue) \in Seq(S) /\ Head(queue) = queue[1] /\ 1 \in DOMAIN queue
  BY <1>1, <1>2
<1>4. \A i \in DOMAIN Tail(queue) : i + 1 \in DOMAIN queue /\ i + 1 # 1 /\ Tail(queue)[i] = queue[i + 1] /\ i \in Nat
  BY <1>1, <1>2
<1>5. queue[1].ticket \in Ticket /\ ~Counted(queue[1].ticket)
  BY <1>3 DEF QueueKept
<1> QED BY <1>3, <1>4, <1>5

\* The sweep goes on to the next row, or ends: the statuses of those left stay.
LEMMA QueueShrinks ==
  ASSUME DispatchInv, stage # "idle", Skip \/ SkipRest,
         DOMAIN status' = Ticket, UNCHANGED <<assignee, chosen, approval>>, excused \subseteq excused',
         \A t \in Ticket : t # queue[1].ticket /\ Counted(t)' => Counted(t)
  PROVE  /\ QueueKept'
         /\ stage' \in {"idle", "resolve"}
         /\ ChoiceKept'
<1>1. QueueKept /\ ChoiceKept /\ excused \subseteq excused'
  BY DEF DispatchInv
<1>2. CASE SkipRest
  <2>1. queue' \in Seq({}) /\ DOMAIN queue' = {} /\ queue' = <<>>
    BY <1>2 DEF SkipRest
  <2>2. QueueKept'
    BY <1>1, <1>2, <2>1 DEF QueueKept, SkipRest
  <2>3. ChoiceKept'
    BY <1>1, <1>2, <2>1 DEF ChoiceKept, Chose, SkipRest
  <2> QED BY <1>2, <2>2, <2>3 DEF SkipRest
<1>3. CASE Skip
  <2>1. queue' = Tail(queue) /\ stage' = IF queue' = <<>> THEN "idle" ELSE "resolve"
    BY <1>3 DEF Skip
  <2>2. /\ \E S : queue' \in Seq(S)
        /\ \A i \in DOMAIN queue' : i + 1 \in DOMAIN queue /\ i + 1 # 1 /\ queue'[i] = queue[i + 1]
        /\ \A i, j \in DOMAIN queue' : i + 1 = j + 1 => i = j
        /\ 1 \in DOMAIN queue
    BY <1>1, <2>1, RestOfQueue
  <2>3. \A i \in DOMAIN queue' : /\ queue'[i].ticket \in Ticket
                                 /\ \A t : t = queue'[i].ticket => ~Counted(t)'
    BY <1>1, <2>2 DEF QueueKept
  <2>4. \A i, j \in DOMAIN queue' : queue'[i].ticket = queue'[j].ticket => i = j
    BY <1>1, <2>2 DEF QueueKept
  <2>5. QueueKept'
    BY <1>1, <2>1, <2>2, <2>3, <2>4 DEF QueueKept
  <2>6. ChoiceKept'
    BY <1>1, <2>1, <2>2 DEF ChoiceKept, Chose
  <2> QED BY <2>1, <2>5, <2>6
<1> QED BY <1>2, <1>3

\* The sweep reads the rows that are ready, each with the agent it has, ...
LEMMA SweepKeeps ==
  ASSUME DispatchInv, Sweep
  PROVE  DispatchInv'
<1>1. PICK nth \in [1 .. Cardinality(SweptRows) -> SweptRows] :
       /\ \A i, j \in DOMAIN nth : i < j => nth[i] < nth[j]
       /\ queue' = [i \in DOMAIN nth |-> [ticket |-> ByPriority[nth[i]],
                                          assignee |-> assignee[ByPriority[nth[i]]]]]
  BY DEF Sweep
<1>2. /\ stage = "idle" /\ stage' = "resolve" /\ ReadyRows # {}
      /\ UNCHANGED <<status, assignee, agent, approval, chosen, excused, pushed, forced>>
  BY DEF Sweep
<1>3. ByPriority \in Seq(Ticket) /\ (\A i, j \in DOMAIN ByPriority : ByPriority[i] = ByPriority[j] => i = j)
  BY TicketDispatcherAssumption DEF IsInjective
<1>4. Cardinality(SweptRows) \in Nat \ {0}
  <2>1. ReadyRows \subseteq 1 .. Len(ByPriority) /\ SweptRows \subseteq 1 .. Len(ByPriority)
        /\ Len(ByPriority) \in Nat
    BY <1>3 DEF ReadyRows, SweptRows
  <2>2. IsFiniteSet(SweptRows)
    <3>1. IsFiniteSet(1 .. Len(ByPriority))
      BY <2>1, FS_Interval
    <3> QED BY <2>1, <3>1, FS_Subset
  <2>3. PICK i \in ReadyRows : \A j \in ReadyRows : i <= j
    BY <1>2, <2>1, NatLeast
  <2>4. Ahead(ByPriority[i]) = {}
    BY <1>3, <2>1, <2>3 DEF Ahead, ReadyRows
  <2>5. i \in SweptRows
    <3>1. Cardinality(Ahead(ByPriority[i])) = 0
      BY <2>4, FS_EmptySet
    <3>2. SweepLimit \in Nat /\ 0 < SweepLimit
      BY TicketDispatcherAssumption
    <3>3. Cardinality(Ahead(ByPriority[i])) < SweepLimit
      BY <3>1, <3>2
    <3> QED BY <2>3, <3>3 DEF SweptRows
  <2> QED BY <2>2, <2>5, FS_CardinalityType, FS_EmptySet
<1>5. PICK n \in Nat \ {0} : n = Cardinality(SweptRows)
  BY <1>4
<1>6. DOMAIN nth = 1 .. n /\ \A i \in 1 .. n : nth[i] \in ReadyRows
  BY <1>1, <1>5 DEF SweptRows
<1>7. \A i, j \in 1 .. n : nth[i] = nth[j] => i = j
  <2>1. \A i \in 1 .. n : nth[i] \in Nat
    BY <1>3, <1>6 DEF ReadyRows
  <2> QED BY <1>1, <1>6, <2>1
<1>8. DOMAIN queue' = 1 .. n
  BY <1>1, <1>6
<1>9. ASSUME NEW i \in 1 .. n
      PROVE  /\ queue'[i].ticket = ByPriority[nth[i]] /\ queue'[i].ticket \in Ticket
             /\ queue'[i].assignee = assignee[queue'[i].ticket]
             /\ \A t : t = queue'[i].ticket => ~Counted(t)'
  BY <1>1, <1>2, <1>3, <1>6 DEF ReadyRows, Ready, Counted, AtWork, AtWorkStatuses
<1>10. \E S : queue' \in Seq(S)
  <2>1. queue' = [i \in 1 .. n |-> queue'[i]]
    BY <1>1, <1>6, <1>8
  <2>2. queue' \in [1 .. n -> {queue'[i] : i \in 1 .. n}]
    BY <2>1
  <2>3. queue' \in Seq({queue'[i] : i \in 1 .. n})
    BY <2>2
  <2> QED BY <2>3
<1>11. ASSUME NEW i \in 1 .. n, NEW j \in 1 .. n, queue'[i].ticket = queue'[j].ticket PROVE i = j
  <2>1. nth[i] \in DOMAIN ByPriority /\ nth[j] \in DOMAIN ByPriority
    BY <1>6 DEF ReadyRows
  <2>2. ByPriority[nth[i]] = ByPriority[nth[j]]
    BY <1>9, <1>11
  <2> QED BY <1>3, <1>7, <2>1, <2>2
<1>12. queue' # <<>>
  BY <1>8
<1>13. QueueKept'
  BY <1>2, <1>8, <1>9, <1>10, <1>11, <1>12 DEF DispatchInv, QueueKept
<1>14. ChoiceKept'
  BY <1>2, <1>8, <1>9 DEF DispatchInv, ChoiceKept, Chose
<1>15. RoomLeft'
  BY <1>2, RoomKept DEF Working, AtWork
<1> QED BY <1>13, <1>14, <1>15 DEF DispatchInv

\* Nobody is given what is resolved, and who may keep a ticket is resolved for it.
LEMMA ResolveKeeps ==
  ASSUME DispatchInv, Resolve
  PROVE  DispatchInv'
<1> DEFINE row == Head(queue)
           found == Resolved(row.ticket, row.assignee)
<1>1. /\ stage = "resolve"
      /\ excused' = (IF Eligible(row.assignee) THEN excused ELSE excused \cup {row.ticket})
      /\ UNCHANGED <<status, assignee, approval, chosen, pushed, forced>>
      /\ Skip \/ (stage' = "check" /\ agent' = found /\ UNCHANGED queue)
  BY DEF Resolve, Excuses
<1>2. /\ QueueKept /\ ChoiceKept /\ DOMAIN status = Ticket /\ row = queue[1] /\ 1 \in DOMAIN queue
      /\ row.ticket \in Ticket
  BY <1>1, RestOfQueue DEF DispatchInv, QueueKept
<1>3. row.ticket \notin excused' => found = row.assignee
  BY <1>1 DEF Resolved
<1>4. PICK t, a : t = row.ticket /\ a = found
  OBVIOUS
<1>7. Chose(t, a)'
  BY <1>1, <1>2, <1>3, <1>4 DEF ChoiceKept, Chose
<1> HIDE DEF found
<1>5. CASE Skip
  <2>1. QueueKept' /\ stage' \in {"idle", "resolve"} /\ ChoiceKept'
    BY <1>1, <1>2, <1>5, QueueShrinks DEF Counted, AtWork
  <2>2. RoomLeft'
    BY <1>1, <2>1, RoomKept DEF Working, AtWork
  <2> QED BY <2>1, <2>2 DEF DispatchInv
<1>6. CASE stage' = "check" /\ agent' = found /\ UNCHANGED queue
  <2>1. QueueKept'
    BY <1>1, <1>2, <1>6 DEF QueueKept, Counted, AtWork
  <2>2. ChoiceKept'
    <3>1. \A x \in Ticket : Chose(x, assignee[x])'
      BY <1>1, <1>2 DEF ChoiceKept, Chose
    <3>2. \A i \in DOMAIN queue' : Chose(queue[i].ticket, queue[i].assignee)'
      BY <1>1, <1>2, <1>6 DEF ChoiceKept, Chose
    <3>3. Chose(Head(queue).ticket, agent)'
      <4>1. Head(queue') = Head(queue) /\ agent' = a /\ Head(queue).ticket = t
        BY <1>4, <1>6
      <4>2. Chose(Head(queue).ticket, agent)' <=> Chose(t, a)'
        BY <4>1 DEF Chose
      <4> QED BY <1>7, <4>2
    <3>4. approval'.step \in {"resolve", "assign"} =>
            approval'.ticket \in Ticket /\ Chose(approval.ticket, approval.agent)'
      BY <1>1, <1>2 DEF ChoiceKept, Chose
    <3> QED BY <3>1, <3>2, <3>3, <3>4 DEF ChoiceKept
  <2>3. RoomLeft'
    BY <1>1, <1>6, RoomKept DEF Working, AtWork
  <2> QED BY <2>1, <2>2, <2>3 DEF DispatchInv
<1> QED BY <1>1, <1>5, <1>6

\* What is checked has room, and stays who has it.
LEMMA CheckKeeps ==
  ASSUME DispatchInv, Check
  PROVE  DispatchInv'
<1>1. /\ stage = "check"
      /\ UNCHANGED <<status, assignee, approval, chosen, excused, pushed, forced>>
      /\ Skip \/ (stage' = "assign" /\ UNCHANGED <<queue, agent>> /\ Eligible(agent))
  BY DEF Check
<1>2. QueueKept /\ DOMAIN status = Ticket
  BY DEF DispatchInv, QueueKept
<1>3. CASE Skip
  <2>1. QueueKept' /\ stage' \in {"idle", "resolve"} /\ ChoiceKept'
    BY <1>1, <1>2, <1>3, QueueShrinks DEF Counted, AtWork
  <2>2. RoomLeft'
    BY <1>1, <2>1, RoomKept DEF Working, AtWork
  <2> QED BY <2>1, <2>2 DEF DispatchInv
<1>4. CASE stage' = "assign" /\ UNCHANGED <<queue, agent>> /\ Eligible(agent)
  <2>1. QueueKept'
    BY <1>1, <1>2, <1>4 DEF QueueKept, Counted, AtWork
  <2>2. ChoiceKept'
    BY <1>1, <1>4 DEF DispatchInv, ChoiceKept, Chose
  <2>3. RoomLeft'
    BY <1>1, <1>4, RoomKept DEF Working, AtWork
  <2> QED BY <2>1, <2>2, <2>3 DEF DispatchInv
<1> QED BY <1>1, <1>3, <1>4

\* The ticket in hand is not at work, so assigning it adds to nobody's work.
LEMMA AssignKeeps ==
  ASSUME DispatchInv, Assign
  PROVE  DispatchInv'
<1>1. PICK t : t = Head(queue).ticket
  OBVIOUS
<1>2. /\ stage = "assign" /\ stage' = "dispatch"
      /\ assignee' = [assignee EXCEPT ![t] = agent]
      /\ UNCHANGED <<status, queue, agent, approval, chosen, excused, pushed, forced>>
  BY <1>1 DEF Assign
<1>3. /\ QueueKept /\ ChoiceKept /\ RoomLeft /\ DOMAIN assignee = Ticket /\ t \in Ticket
      /\ ~Counted(t)
  BY <1>1, <1>2, RestOfQueue DEF DispatchInv, QueueKept
<1>4. QueueKept'
  BY <1>2, <1>3 DEF QueueKept, Counted, AtWork
<1>5. Chose(t, agent)
  BY <1>1, <1>2, <1>3 DEF ChoiceKept
<1>6. ChoiceKept'
  BY <1>1, <1>2, <1>3, <1>5 DEF ChoiceKept, Chose
<1>7. \A a : Working(a)' \subseteq Working(a)
  BY <1>2, <1>3 DEF Working, Counted, AtWork
<1>8. assignee'[Head(queue').ticket] = agent
  BY <1>1, <1>2, <1>3
<1>9. RoomLeft'
  BY <1>2, <1>7, <1>8, RoomKept
<1> QED BY <1>4, <1>6, <1>9 DEF DispatchInv

\* The agent that is given more work had room for it, or has been given some.
LEMMA DispatchKeeps ==
  ASSUME DispatchInv, Dispatch
  PROVE  DispatchInv'
<1>1. PICK t : t = Head(queue).ticket
  OBVIOUS
<1>2. /\ stage = "dispatch" /\ UNCHANGED <<assignee, approval, chosen, excused, pushed, forced>>
      /\ \/ status' = [status EXCEPT ![t] = "in_progress"] /\ Skip
         \/ UNCHANGED status /\ SkipRest
  BY <1>1 DEF Dispatch
<1>3. /\ QueueKept /\ ChoiceKept /\ RoomLeft /\ DOMAIN status = Ticket /\ DOMAIN assignee = Ticket /\ t \in Ticket
      /\ t = queue[1].ticket
  BY <1>1, <1>2, RestOfQueue DEF DispatchInv, QueueKept
<1>4. QueueKept' /\ stage' \in {"idle", "resolve"} /\ ChoiceKept'
  BY <1>2, <1>3, QueueShrinks DEF Counted, AtWork
<1>5. WipRespected'
  <2> SUFFICES ASSUME NEW a \in Agent \ pushed' PROVE Cardinality(Working(a))' <= WipLimit
    BY DEF WipRespected
  <2>1. PICK more : more = Working(a)'
    OBVIOUS
  <2>2. /\ IsFiniteSet(Working(a)) /\ Cardinality(Working(a)) \in Nat
        /\ Cardinality(Working(a)) <= WipLimit /\ WipLimit \in Nat
    BY <1>2, <1>3, WorkingFinite, TicketDispatcherAssumption DEF RoomLeft, WipRespected
  <2>3. CASE assignee[t] # a
    <3>1. more \subseteq Working(a)
      BY <1>2, <1>3, <2>1, <2>3 DEF Working, AtWork
    <3>2. Cardinality(more) <= Cardinality(Working(a)) /\ Cardinality(more) \in Nat
      BY <2>2, <3>1, FS_Subset, FS_CardinalityType
    <3> QED BY <2>1, <2>2, <3>2
  <2>4. CASE assignee[t] = a
    <3>1. a = agent /\ Cardinality(Working(a)) < WipLimit
      BY <1>1, <1>2, <1>3, <2>4 DEF RoomLeft
    <3>2. more \subseteq Working(a) \cup {t}
      BY <1>2, <1>3, <2>1 DEF Working, AtWork
    <3>3. /\ IsFiniteSet(Working(a) \cup {t})
          /\ Cardinality(Working(a) \cup {t}) \in {Cardinality(Working(a)), Cardinality(Working(a)) + 1}
      BY <2>2, FS_AddElement
    <3>4. Cardinality(more) <= Cardinality(Working(a) \cup {t}) /\ Cardinality(more) \in Nat
      BY <3>2, <3>3, FS_Subset, FS_CardinalityType
    <3> QED BY <2>1, <2>2, <3>1, <3>3, <3>4
  <2> QED BY <2>3, <2>4
<1>6. RoomLeft'
  BY <1>4, <1>5 DEF RoomLeft
<1> QED BY <1>4, <1>6 DEF DispatchInv

\* A statement of the sweep throws: the sweep is over.
LEMMA ThrowKeeps ==
  ASSUME DispatchInv, Throw
  PROVE  DispatchInv'
<1>1. /\ stage # "idle" /\ SkipRest
      /\ UNCHANGED <<status, assignee, approval, chosen, excused, pushed, forced>>
      /\ DOMAIN status = Ticket
  BY DEF Throw, DispatchInv, QueueKept
<1>2. QueueKept' /\ stage' \in {"idle", "resolve"} /\ ChoiceKept'
  BY <1>1, QueueShrinks DEF Counted, AtWork
<1>3. RoomLeft'
  BY <1>1, <1>2, RoomKept DEF Working, AtWork
<1> QED BY <1>2, <1>3 DEF DispatchInv

\* Steps that give nobody work that counts, while the sweep stands where it stood and
\* an approval does too, or ends.
LEMMA NobodyIsGiven ==
  ASSUME DispatchInv, DOMAIN status' = Ticket, \A t \in Ticket : Counted(t)' => Counted(t),
         UNCHANGED <<assignee, queue, stage, agent, chosen, excused, pushed>>,
         approval' \in {approval, NoApproval}
  PROVE  DispatchInv'
<1>1. QueueKept /\ RoomLeft /\ ChoiceKept
  BY DEF DispatchInv
<1>2. QueueKept'
  BY <1>1 DEF QueueKept
<1>3. ChoiceKept'
  BY <1>1 DEF ChoiceKept, Chose, NoApproval
<1>4. \A a : Working(a)' \subseteq Working(a)
  BY DEF Working, Counted
<1>5. RoomLeft'
  BY <1>1, <1>4, RoomKept DEF RoomLeft
<1> QED BY <1>2, <1>3, <1>5 DEF DispatchInv

\* A status is written, by runs, owners or agents of themselves.
LEMMA MovesKeep ==
  ASSUME DispatchInv, NEW t \in Ticket,
         \/ MoveOn(t) \/ Merge(t) \/ SetApproved(t)
         \/ \E to \in Status : SetStatus(t, to) \/ AgentSets(t, to)
  PROVE  DispatchInv'
<1>1. DOMAIN status = Ticket
  BY DEF DispatchInv, QueueKept
<1>2. CASE MoveOn(t)
  <2>1. PICK m \in Moves : status[t] = m[1] /\ status' = [status EXCEPT ![t] = m[2]]
    BY <1>2 DEF MoveOn
  <2>2. m[2] \in AtWorkStatuses => m[1] \in AtWorkStatuses
    BY DEF Moves, AtWorkStatuses
  <2>3. status'[t] = m[2] /\ \A u \in Ticket \ {t} : status'[u] = status[u]
    BY <1>1, <2>1
  <2>4. forced' = IF m[2] \in AtWorkStatuses THEN forced ELSE forced \ {t}
    BY <1>2, <2>3 DEF MoveOn
  <2>5. \A u \in Ticket : Counted(u)' => Counted(u)
    BY <2>1, <2>2, <2>3, <2>4 DEF Counted, AtWork
  <2> QED BY <1>1, <1>2, <2>1, <2>5, NobodyIsGiven DEF MoveOn
<1>3. CASE Merge(t)
  <2>1. \A u \in Ticket : Counted(u)' => Counted(u)
    BY <1>1, <1>3 DEF Merge, Counted, AtWork, AtWorkStatuses
  <2> QED BY <1>1, <1>3, <2>1, NobodyIsGiven DEF Merge
<1>4. CASE SetApproved(t)
  BY <1>1, <1>4, NobodyIsGiven DEF SetApproved, Counted, AtWork
<1>5. ASSUME NEW to \in Status, SetStatus(t, to) PROVE DispatchInv'
  <2>1. \A u \in Ticket : Counted(u)' => Counted(u)
    BY <1>1, <1>5 DEF SetStatus, HumanMaySet, Counted, AtWork
  <2> QED BY <1>1, <1>5, <2>1, NobodyIsGiven DEF SetStatus
<1>6. ASSUME NEW to \in Status, AgentSets(t, to) PROVE DispatchInv'
  <2>1. \A u \in Ticket : Counted(u)' => Counted(u)
    BY <1>1, <1>6 DEF AgentSets, Counted, AtWork
  <2> QED BY <1>1, <1>6, <2>1, NobodyIsGiven DEF AgentSets
<1> QED BY <1>2, <1>3, <1>4, <1>5, <1>6

\* An approval reads the agent its ticket has, ...
LEMMA ApproveKeeps ==
  ASSUME DispatchInv, NEW t \in Ticket, Approve(t)
  PROVE  DispatchInv'
<1>1. /\ approval' = [step |-> "resolve", ticket |-> t, agent |-> assignee[t]]
      /\ UNCHANGED <<status, assignee, queue, stage, agent, chosen, excused, pushed, forced>>
  BY DEF Approve
<1>2. QueueKept' /\ RoomLeft'
  BY <1>1, RoomKept DEF DispatchInv, QueueKept, RoomLeft, Counted, Working, AtWork
<1>3. ChoiceKept'
  BY <1>1 DEF DispatchInv, ChoiceKept, Chose
<1> QED BY <1>2, <1>3 DEF DispatchInv

\* ... resolves who may keep it, or excuses it, ...
LEMMA ApproveResolvesKeeps ==
  ASSUME DispatchInv, ApproveResolves
  PROVE  DispatchInv'
<1> DEFINE t == approval.ticket
           read == approval.agent
<1>1. /\ approval.step = "resolve"
      /\ excused' = (IF Eligible(read) THEN excused ELSE excused \cup {t})
      /\ UNCHANGED <<status, assignee, queue, stage, agent, chosen, pushed, forced>>
  BY DEF ApproveResolves, Excuses
<1>2. QueueKept /\ ChoiceKept /\ RoomLeft
  BY DEF DispatchInv
<1>3. t \in Ticket /\ Chose(t, read)
  BY <1>1, <1>2 DEF ChoiceKept
<1>4. \/ approval' = NoApproval
      \/ \E a : /\ approval' = [step |-> "assign", ticket |-> t, agent |-> a]
                /\ Eligible(read) => a = read
  <2>1. Eligible(read) => Resolved(t, read) = read /\ read # NoAgent
    BY DEF Resolved, Eligible
  <2> QED BY <2>1 DEF ApproveResolves
<1>5. approval'.step \in {"resolve", "assign"} =>
        approval'.ticket \in Ticket /\ Chose(approval.ticket, approval.agent)'
  BY <1>1, <1>3, <1>4 DEF Chose, NoApproval
<1>6. ChoiceKept'
  BY <1>1, <1>2, <1>5 DEF ChoiceKept, Chose
<1>7. QueueKept' /\ RoomLeft'
  BY <1>1, <1>2, RoomKept DEF QueueKept, RoomLeft, Counted, Working, AtWork
<1> QED BY <1>6, <1>7 DEF DispatchInv

\* ... and gives it to that agent, who counts as given some if it is at work, or about
\* to be.
LEMMA ApproveAssignsKeeps ==
  ASSUME DispatchInv, ApproveAssigns
  PROVE  DispatchInv'
<1>1. PICK t, a : t = approval.ticket /\ a = approval.agent
  OBVIOUS
<1>2. /\ assignee' = [assignee EXCEPT ![t] = a]
      /\ pushed' = IF AtWork(t) \/ (stage = "dispatch" /\ Head(queue).ticket = t)
                   THEN pushed \cup {a} ELSE pushed
      /\ approval.step = "assign" /\ approval' = [step |-> "approve", ticket |-> t, agent |-> a]
      /\ UNCHANGED <<status, queue, stage, agent, chosen, excused, forced>>
  BY <1>1 DEF ApproveAssigns
<1>3. QueueKept /\ ChoiceKept /\ RoomLeft /\ DOMAIN status = Ticket /\ DOMAIN assignee = Ticket
  BY DEF DispatchInv, QueueKept
<1>4. t \in Ticket /\ Chose(t, a)
  BY <1>1, <1>2, <1>3 DEF ChoiceKept
<1>5. QueueKept'
  BY <1>2, <1>3 DEF QueueKept, Counted, AtWork
<1>6. approval'.step \notin {"resolve", "assign"}
  BY <1>2
<1>7. ChoiceKept'
  BY <1>2, <1>3, <1>4, <1>6 DEF ChoiceKept, Chose
<1>8. \A b \in Agent \ pushed' : Working(b)' \subseteq Working(b)
  BY <1>2, <1>3, <1>4 DEF Working, AtWork
<1>9. stage' = "dispatch" => assignee'[Head(queue').ticket] \in pushed' \cup {agent}
  BY <1>2, <1>3, <1>4 DEF RoomLeft
<1>10. RoomLeft'
  BY <1>2, <1>8, <1>9, RoomKept
<1> QED BY <1>5, <1>7, <1>10 DEF DispatchInv

\* The transition of an approval starts nobody's work.
LEMMA ApproveMovesKeeps ==
  ASSUME DispatchInv, ApproveMoves \/ ApproveThrows
  PROVE  DispatchInv'
<1>1. DOMAIN status = Ticket
  BY DEF DispatchInv, QueueKept
<1>2. CASE ApproveThrows
  BY <1>1, <1>2, NobodyIsGiven DEF ApproveThrows, Counted, AtWork
<1>3. CASE ApproveMoves
  <2>1. \A u \in Ticket : Counted(u)' => Counted(u)
    BY <1>1, <1>3 DEF ApproveMoves, Counted, AtWork, AtWorkStatuses
  <2> QED BY <1>1, <1>3, <2>1, NobodyIsGiven DEF ApproveMoves
<1> QED BY <1>2, <1>3

\* An owner gives a ticket to another agent.
LEMMA ReassignKeeps ==
  ASSUME DispatchInv, NEW t \in Ticket, NEW a \in Agent, Reassign(t, a)
  PROVE  DispatchInv'
<1>1. /\ assignee' = [assignee EXCEPT ![t] = a] /\ chosen' = [chosen EXCEPT ![t] = a]
      /\ excused' = (IF BeingRouted(t) THEN excused \cup {t} ELSE excused \ {t})
      /\ pushed' = pushed \cup {a}
      /\ UNCHANGED <<status, queue, stage, agent, approval, forced>>
  BY DEF Reassign
<1>2. QueueKept /\ ChoiceKept /\ RoomLeft /\ DOMAIN assignee = Ticket /\ DOMAIN chosen = Ticket
  BY DEF DispatchInv, QueueKept
<1>3. QueueKept'
  BY <1>1, <1>2 DEF QueueKept, Counted, AtWork
<1>4. ChoiceKept'
  <2>1. \A s \in Ticket : Chose(s, assignee[s])'
    BY <1>1, <1>2 DEF ChoiceKept, Chose
  <2>2. \A i \in DOMAIN queue' : Chose(queue[i].ticket, queue[i].assignee)'
    <3> SUFFICES ASSUME NEW i \in DOMAIN queue PROVE Chose(queue[i].ticket, queue[i].assignee)'
      BY <1>1
    <3>1. CASE queue[i].ticket = t
      <4>1. t \in excused'
        BY <1>1, <3>1 DEF BeingRouted, InHand
      <4> QED BY <1>1, <3>1, <4>1 DEF Chose
    <3>2. CASE queue[i].ticket # t
      BY <1>1, <1>2, <3>2 DEF ChoiceKept, Chose
    <3> QED BY <3>1, <3>2
  <2>3. stage' \in {"check", "assign", "dispatch"} => Chose(Head(queue).ticket, agent)'
    <3> SUFFICES ASSUME stage \in {"check", "assign", "dispatch"} PROVE Chose(Head(queue).ticket, agent)'
      BY <1>1
    <3>1. Head(queue) = queue[1] /\ 1 \in DOMAIN queue
      BY <1>2, RestOfQueue
    <3>2. CASE Head(queue).ticket = t
      <4>1. t \in excused'
        BY <1>1, <3>1, <3>2 DEF BeingRouted, InHand
      <4> QED BY <1>1, <3>2, <4>1 DEF Chose
    <3>3. CASE Head(queue).ticket # t
      BY <1>1, <1>2, <3>3 DEF ChoiceKept, Chose
    <3> QED BY <3>2, <3>3
  <2>4. approval'.step \in {"resolve", "assign"} =>
          approval'.ticket \in Ticket /\ Chose(approval.ticket, approval.agent)'
    <3>1. CASE approval.ticket = t
      BY <1>1, <1>2, <3>1 DEF ChoiceKept, Chose, BeingRouted
    <3>2. CASE approval.ticket # t
      BY <1>1, <1>2, <3>2 DEF ChoiceKept, Chose
    <3> QED BY <3>1, <3>2
  <2> QED BY <2>1, <2>2, <2>3, <2>4 DEF ChoiceKept
<1>5. \A b \in Agent \ pushed' : Working(b)' \subseteq Working(b)
  BY <1>1, <1>2 DEF Working, AtWork
<1>6. stage' = "dispatch" => assignee'[Head(queue').ticket] \in pushed' \cup {agent}
  BY <1>1, <1>2 DEF RoomLeft
<1>7. RoomLeft'
  BY <1>1, <1>5, <1>6, RoomKept
<1> QED BY <1>3, <1>4, <1>7 DEF DispatchInv

\* Steps that touch neither tickets nor the sweep.
LEMMA OthersKeep ==
  ASSUME DispatchInv,
         UNCHANGED <<status, assignee, queue, stage, agent, approval, chosen, excused, pushed, forced>>
  PROVE  DispatchInv'
<1>1. DOMAIN status' = Ticket
  BY DEF DispatchInv, QueueKept
<1>2. \A t \in Ticket : Counted(t)' => Counted(t)
  BY DEF Counted, AtWork
<1> QED BY <1>1, <1>2, NobodyIsGiven

\* One step per statement of the sweep, and one per call of an owner.
LEMMA DispatchInvNext == DispatchInv /\ [DispatchNext]_dispatchVars => DispatchInv'
<1> SUFFICES ASSUME DispatchInv, [DispatchNext]_dispatchVars PROVE DispatchInv'
  OBVIOUS
<1>1. CASE UNCHANGED dispatchVars
  BY <1>1, OthersKeep DEF dispatchVars
<1>2. CASE DispatchNext
  <2>1. CASE Proceed \/ Throw
    BY <2>1, SweepKeeps, ResolveKeeps, CheckKeeps, AssignKeeps, DispatchKeeps, ThrowKeeps DEF Proceed
  <2>2. ASSUME NEW t \in Ticket,
               \/ Approve(t) \/ SetApproved(t) \/ MoveOn(t) \/ Merge(t)
               \/ \E to \in Status : SetStatus(t, to) \/ AgentSets(t, to)
               \/ \E a \in Agent : Reassign(t, a)
        PROVE  DispatchInv'
    BY <2>2, ApproveKeeps, MovesKeep, ReassignKeeps
  <2>3. ASSUME NEW a, Switch(a) \/ ReassignPath(a) \/ AssignFlow(a) PROVE DispatchInv'
    BY <2>3, OthersKeep DEF Switch, ReassignPath, AssignFlow
  <2>4. CASE ApproveResolves \/ ApproveAssigns \/ ApproveMoves \/ ApproveThrows
    BY <2>4, ApproveResolvesKeeps, ApproveAssignsKeeps, ApproveMovesKeeps
  <2> QED BY <1>2, <2>1, <2>2, <2>3, <2>4 DEF DispatchNext
<1> QED BY <1>1, <1>2

\* No agent has more tickets at work than its limit, but those to whom an owner has
\* given one, and apart from tickets that agents wrote into work by themselves, for
\* any numbers of tickets and agents.
THEOREM WipStands == DispatchSpec => []WipRespected
<1>1. DispatchInv => WipRespected
  BY DEF DispatchInv, RoomLeft
<1> QED BY <1>1, DispatchInvInit, DispatchInvNext, PTL DEF DispatchSpec

\* A ticket for which an owner has chosen an agent is that agent's, but where the model
\* excuses it, for any numbers of tickets and agents.
THEOREM OwnersChoiceStands == DispatchSpec => []ChoiceStands
<1>1. DispatchInv => ChoiceStands
  BY DEF DispatchInv, ChoiceKept, Chose, ChoiceStands
<1> QED BY <1>1, DispatchInvInit, DispatchInvNext, PTL DEF DispatchSpec

-----------------------------------------------------------------------------
PlannerState == [at : {"asked", "read", "write", "due", "ended"},
                 started : Instant \cup {None}, points : Points \cup {None}]
PatchState == [at : {"idle", "read", "written"},
               started : Instant \cup {None}, points : Points \cup {None}]

\* The points are the owner's, once there are such, ...
PointsAreOwners ==
  /\ ownerWants # None => points = ownerWants
  /\ ownerWants # None /\ patch.at # "written" => decided
  /\ planner.at = "write" => ownerWants = None
\* ... and the due date is theirs, but for the planner's own between its two writes.
DueIsOfPoints == planner.at # "due" /\ started # None => due = DueAt(started, points)
\* Whoever has read the ticket has read what it still is.
ReadIsCurrent ==
  /\ planner.at \in {"read", "write", "due"} => planner.started = started
  /\ planner.at = "due" => planner.points = points
  /\ patch.at = "read" => patch.started = started

PlanningInv ==
  /\ planner \in PlannerState /\ patch \in PatchState
  /\ now \in Instant /\ started \in Instant \cup {None} /\ points \in Points \cup {None}
  /\ raced \/ (/\ ~(PlannerAtWork /\ PatchAtWork)
               /\ PointsAreOwners /\ DueIsOfPoints /\ ReadIsCurrent)
\* At the start nobody has estimated the ticket.
LEMMA PlanningInvInit == PlanningInit => PlanningInv
<1> SUFFICES ASSUME PlanningInit PROVE PlanningInv
  OBVIOUS
<1>1. 0 \in Instant /\ FirstPoints \in Points
  BY PlanningAssumption DEF Instant
<1>2. planner \in PlannerState /\ patch \in PatchState
  BY DEF PlanningInit, PlannerState, PatchState
<1>3. PointsAreOwners /\ DueIsOfPoints /\ ReadIsCurrent /\ ~PatchAtWork
  BY DEF PlanningInit, PointsAreOwners, DueIsOfPoints, ReadIsCurrent, PatchAtWork
<1> QED BY <1>1, <1>2, <1>3 DEF PlanningInit, PlanningInv

\* One step per statement of the planner, of a patch and of the scan.
LEMMA PlanningInvNext == PlanningInv /\ [PlanningNext]_planningVars => PlanningInv'
<1> SUFFICES ASSUME PlanningInv, [PlanningNext]_planningVars PROVE PlanningInv'
  OBVIOUS
<1> USE DEF PlanningInv, PlannerAtWork, PatchAtWork, PointsAreOwners, DueIsOfPoints, ReadIsCurrent
<1> USE DEF PlannerState, PatchState
<1>1. CASE Tick
  BY <1>1, PlanningAssumption DEF Tick, Instant
<1>2. CASE StartWork
  BY <1>2, PlanningAssumption DEF StartWork, Instant, None
<1>3. CASE EndWork
  BY <1>3 DEF EndWork
<1>4. CASE PlannerReads
  <2>1. PICK p \in Points : planner' = [at |-> "read", started |-> started, points |-> p]
    BY <1>4 DEF PlannerReads
  <2>2. planner' \in PlannerState /\ planner'.at = "read" /\ planner'.started = started
    BY <2>1
  <2> HIDE DEF PlannerState
  <2> QED BY <1>4, <2>2 DEF PlannerReads
<1>5. CASE PlannerLooks
  BY <1>5 DEF PlannerLooks
<1>6. CASE PlannerWrites
  BY <1>6 DEF PlannerWrites
<1>7. CASE PlannerDates
  BY <1>7 DEF PlannerDates
<1>8. CASE PatchReads
  <2>1. PICK p \in Points : patch' = [at |-> "read", started |-> started, points |-> p]
    BY <1>8 DEF PatchReads
  <2>2. patch' \in PatchState /\ patch'.at = "read" /\ patch'.started = started
    BY <2>1
  <2> HIDE DEF PatchState
  <2> QED BY <1>8, <2>2 DEF PatchReads
<1>9. CASE PatchWrites
  BY <1>9 DEF PatchWrites
<1>10. CASE PatchTells
  BY <1>10 DEF PatchTells
<1>11. CASE ScanReads
  BY <1>11 DEF ScanReads
<1>12. CASE ScanWrites
  BY <1>12 DEF ScanWrites
<1>13. CASE ScanTells
  BY <1>13 DEF ScanTells
<1>14. CASE UNCHANGED planningVars
  BY <1>14 DEF planningVars
<1> QED
  BY <1>1, <1>2, <1>3, <1>4, <1>5, <1>6, <1>7, <1>8, <1>9, <1>10, <1>11, <1>12, <1>13, <1>14 DEF PlanningNext

\* Points that an owner has set stay, and the due date is counted from them, unless the
\* planner and a patch were at work at once.
THEOREM PointsStand == PlanningSpec => []OwnersPointsStand
<1>1. PlanningInv => OwnersPointsStand
  BY DEF PlanningInv, OwnersPointsStand, PointsAreOwners, DueIsOfPoints, PlannerAtWork, PatchAtWork
<1> QED BY <1>1, PlanningInvInit, PlanningInvNext, PTL DEF PlanningSpec

-----------------------------------------------------------------------------
JobState == {"none", "queued", "running", "done", "failed"}
WorkerState == [at : {"idle", "reading", "merging", "written", "ended", "last"},
                job : Job \cup {NoJob}, seen : Reading]
RunState == [at : {"queued", "asking", "ended"}, seen : Reading]
ItemSet == SUBSET (Repo \X BOOLEAN)
ReadState == [exists : BOOLEAN, items : ItemSet, since : SUBSET Repo]

AnalysisTyped ==
  /\ job \in [Job -> JobState]
  /\ worker \in [Worker -> WorkerState]
  /\ \A w \in Worker : worker[w].at # "idle" => worker[w].job \in Job
  /\ map \in [exists : BOOLEAN, items : ItemSet, stamp : Nat]
  /\ DOMAIN run \subseteq Nat /\ run \in [DOMAIN run -> RunState]
  /\ drafted \in Nat /\ drafted <= map.stamp
  /\ analysed \subseteq Repo /\ overlapped \subseteq Repo

\* Once a job has ended well, somebody is left who hands the map to a model: a
\* job still to be done, or a worker that has written and has not yet counted.
SomeoneHandsOver ==
  settled = "done" =>
    \/ \E j \in Job : Active(j)
    \/ \E w \in Worker : worker[w].at \in {"written", "ended", "last"}
    \/ \E s \in DOMAIN run : s >= drafted

\* What a repository's analysis has written is in the map, and in what a reader
\* has read, unless the reader has read before.
Slices == analysed \ overlapped
ReadBefore(reader) == \A r \in Slices : r \in RepoIn(reader.seen.items) \cup reader.seen.since
SlicesStand ==
  /\ Slices \subseteq RepoIn(map.items)
  /\ \A w \in Worker : worker[w].at = "merging" => ReadBefore(worker[w])
  /\ \A s \in DOMAIN run : run[s].at = "asking" => ReadBefore(run[s])

AnalysisInv == AnalysisTyped /\ SomeoneHandsOver /\ SlicesStand

\* Nothing has been asked for at the start.
LEMMA AnalysisInvInit == AnalysisInit => AnalysisInv
<1> SUFFICES ASSUME AnalysisInit PROVE AnalysisInv
  OBVIOUS
<1> USE DEF AnalysisInit
<1>1. Idle \in WorkerState /\ Idle.at = "idle"
  BY DEF Idle, WorkerState, Nothing, Reading
<1>2. map \in [exists : BOOLEAN, items : ItemSet, stamp : Nat] /\ map.stamp = 0
  BY DEF NoMap, ItemSet
<1>3. DOMAIN run = {} /\ run \in [DOMAIN run -> RunState]
  OBVIOUS
<1>4. AnalysisTyped
  BY <1>1, <1>2, <1>3 DEF AnalysisTyped, JobState
<1>5. SomeoneHandsOver
  BY DEF SomeoneHandsOver
<1>6. SlicesStand
  BY <1>1, <1>3 DEF SlicesStand, Slices
<1> QED BY <1>4, <1>5, <1>6 DEF AnalysisInv

\* Requests and the recovery touch the jobs, and leave one active.
LEMMA RequestsKeep ==
  ASSUME AnalysisInv,
         \/ \E q \in Request, r \in Repo : LookForJob(q, r) \/ InsertJob(q, r)
         \/ \E j \in Job : RecoverJob(j)
  PROVE  AnalysisInv'
<1>1. UNCHANGED <<worker, map, run, settled, drafted, analysed, overlapped>>
  BY DEF LookForJob, InsertJob, RecoverJob
<1>2. job' \in [Job -> JobState] /\ \A j \in Job : Active(j) => Active(j)'
  <2>1. job \in [Job -> JobState]
    BY DEF AnalysisInv, AnalysisTyped
  <2>2. job' = job \/ \E k : job' = [job EXCEPT ![k] = "queued"]
    BY DEF LookForJob, InsertJob, RecoverJob
  <2> QED BY <2>1, <2>2 DEF JobState, Active
<1>3. AnalysisTyped'
  BY <1>1, <1>2 DEF AnalysisInv, AnalysisTyped
<1>4. SomeoneHandsOver'
  BY <1>1, <1>2 DEF AnalysisInv, SomeoneHandsOver
<1>5. SlicesStand'
  BY <1>1 DEF AnalysisInv, SlicesStand, Slices, ReadBefore
<1> QED BY <1>3, <1>4, <1>5 DEF AnalysisInv

\* A worker moves on without touching the map: its step keeps what was written
\* and not counted, or leaves a job active or a run for the map.
LEMMA ClaimKeeps ==
  ASSUME AnalysisInv, NEW w \in Worker, NEW j \in Job, ClaimJob(w, j)
  PROVE  AnalysisInv'
<1> DEFINE new == [Idle EXCEPT !.at = "reading", !.job = j]
<1>1. new \in WorkerState /\ new.at = "reading" /\ new.job = j
  BY DEF Idle, WorkerState, Nothing, Reading
<1> HIDE DEF new
<1>2. /\ job' = [job EXCEPT ![j] = "running"] /\ worker' = [worker EXCEPT ![w] = new]
      /\ UNCHANGED <<map, run, settled, drafted, analysed, overlapped>>
  BY DEF ClaimJob, new
<1>3. AnalysisTyped'
  BY <1>1, <1>2 DEF AnalysisInv, AnalysisTyped, JobState
<1>4. SomeoneHandsOver'
  BY <1>2 DEF AnalysisInv, AnalysisTyped, SomeoneHandsOver, Active
<1>5. SlicesStand'
  BY <1>1, <1>2 DEF AnalysisInv, AnalysisTyped, SlicesStand, Slices, ReadBefore
<1> QED BY <1>3, <1>4, <1>5 DEF AnalysisInv

\* What is read now is the map, with all that was written.
LEMMA SeenNow ==
  ASSUME AnalysisInv
  PROVE  Seen \in Reading /\ Slices \subseteq RepoIn(Seen.items) /\ Seen.since = {}
BY DEF AnalysisInv, AnalysisTyped, SlicesStand, Seen, Reading, ItemSet

\* A worker reads the map, ...
LEMMA ReadKeeps ==
  ASSUME AnalysisInv, NEW w \in Worker, ReadMap(w)
  PROVE  AnalysisInv'
<1>1. /\ Seen \in Reading /\ Slices \subseteq RepoIn(Seen.items)
  BY SeenNow
<1>2. PICK seen : seen = Seen
  OBVIOUS
<1>3. /\ worker' = [worker EXCEPT ![w].at = "merging", ![w].seen = seen]
      /\ worker[w].at = "reading"
      /\ UNCHANGED <<job, map, run, settled, drafted, analysed, overlapped>>
  BY <1>2 DEF ReadMap
<1>4. /\ worker' \in [Worker -> WorkerState]
      /\ worker'[w].at = "merging" /\ worker'[w].job = worker[w].job /\ worker'[w].seen = seen
      /\ \A v \in Worker \ {w} : worker'[v] = worker[v]
  BY <1>1, <1>2, <1>3 DEF AnalysisInv, AnalysisTyped, WorkerState
<1>5. AnalysisTyped'
  BY <1>3, <1>4 DEF AnalysisInv, AnalysisTyped
<1>6. SomeoneHandsOver'
  BY <1>3, <1>4 DEF AnalysisInv, SomeoneHandsOver, Active
<1>7. SlicesStand'
  BY <1>1, <1>2, <1>3, <1>4 DEF AnalysisInv, SlicesStand, Slices, ReadBefore
<1> QED BY <1>5, <1>6, <1>7 DEF AnalysisInv

\* A worker's step that ends its work on the map, or goes on after it.
LEMMA WorkerMoves ==
  ASSUME AnalysisInv, NEW w \in Worker, NEW new \in WorkerState, new.at # "merging",
         new.at = "idle" \/ new.job \in Job,
         worker' = [worker EXCEPT ![w] = new],
         job' \in [Job -> JobState], UNCHANGED <<map, drafted, analysed, overlapped>>,
         DOMAIN run \subseteq DOMAIN run', DOMAIN run' \subseteq Nat,
         run' \in [DOMAIN run' -> RunState],
         \A s \in DOMAIN run' : run'[s].at = "asking" => s \in DOMAIN run /\ run'[s] = run[s],
         SomeoneHandsOver'
  PROVE  AnalysisInv'
<1>1. AnalysisTyped'
  BY DEF AnalysisInv, AnalysisTyped
<1>2. SlicesStand'
  BY DEF AnalysisInv, AnalysisTyped, SlicesStand, Slices, ReadBefore
<1> QED BY <1>1, <1>2 DEF AnalysisInv

\* ... and ends its job, counts those left, and hands the map over if it was the last.
LEMMA EndKeeps ==
  ASSUME AnalysisInv, NEW w \in Worker,
         EndJob(w) \/ CountJobs(w) \/ EnqueueRun(w) \/ FailJob(w) \/ WorkerDies(w)
  PROVE  AnalysisInv'
<1> DEFINE old == worker[w]
<1>1. /\ old \in WorkerState /\ (old.at # "idle" => old.job \in Job)
      /\ job \in [Job -> JobState] /\ DOMAIN run \subseteq Nat /\ run \in [DOMAIN run -> RunState]
      /\ worker \in [Worker -> WorkerState]
  BY DEF AnalysisInv, AnalysisTyped
<1>2. Idle \in WorkerState /\ Idle.at = "idle"
  BY DEF Idle, WorkerState, Nothing, Reading
<1>3. ASSUME NEW next \in {"ended", "last"}
      PROVE  [old EXCEPT !.at = next] \in WorkerState /\ [old EXCEPT !.at = next].at = next
             /\ [old EXCEPT !.at = next].job = old.job
  BY <1>1 DEF WorkerState
<1>4. CASE EndJob(w)
  <2> DEFINE new == [old EXCEPT !.at = "ended"]
  <2>1. new \in WorkerState /\ new.at = "ended" /\ new.job \in Job
    BY <1>1, <1>3, <1>4 DEF EndJob
  <2> HIDE DEF new
  <2>2. worker' = [worker EXCEPT ![w] = new]
    BY <1>4 DEF EndJob, new
  <2>3. job' \in [Job -> JobState]
    BY <1>1, <1>4 DEF EndJob, JobState
  <2>4. SomeoneHandsOver'
    BY <1>1, <2>1, <2>2 DEF SomeoneHandsOver
  <2> QED BY <1>1, <1>4, <2>1, <2>2, <2>3, <2>4, WorkerMoves DEF EndJob
<1>5. CASE CountJobs(w)
  <2> DEFINE last == [old EXCEPT !.at = "last"]
             new == IF \E j \in Job : Active(j) THEN Idle ELSE last
  <2>1. last \in WorkerState /\ last.at = "last" /\ last.job \in Job
    BY <1>1, <1>3, <1>5 DEF CountJobs
  <2> HIDE DEF last
  <2>2. new \in WorkerState /\ new.at # "merging" /\ (new.at = "idle" \/ new.job \in Job)
        /\ (new.at = "last" \/ \E j \in Job : Active(j))
    BY <1>2, <2>1
  <2>3. worker' = [worker EXCEPT ![w] = new]
    BY <1>5 DEF CountJobs, last
  <2> HIDE DEF new
  <2>4. SomeoneHandsOver'
    BY <1>1, <1>5, <2>2, <2>3 DEF SomeoneHandsOver, CountJobs, Active
  <2> QED BY <1>1, <1>5, <2>2, <2>3, <2>4, WorkerMoves DEF CountJobs
<1>6. CASE EnqueueRun(w)
  <2>1. [at |-> "queued", seen |-> Nothing] \in RunState
    BY DEF RunState, Reading, Nothing
  <2>2. map.stamp \in Nat /\ drafted \in Nat /\ drafted <= map.stamp
    BY DEF AnalysisInv, AnalysisTyped
  <2>3. /\ DOMAIN run' = DOMAIN run \cup {map.stamp}
        /\ run' \in [DOMAIN run' -> RunState]
        /\ \A s \in DOMAIN run' : run'[s].at = "asking" => s \in DOMAIN run /\ run'[s] = run[s]
    BY <1>1, <1>6, <2>1 DEF EnqueueRun
  <2>4. SomeoneHandsOver'
    BY <1>6, <2>2, <2>3 DEF SomeoneHandsOver, EnqueueRun
  <2> QED BY <1>1, <1>2, <1>6, <2>2, <2>3, <2>4, WorkerMoves DEF EnqueueRun
<1>7. CASE FailJob(w)
  <2>1. job' \in [Job -> JobState]
    BY <1>1, <1>7 DEF FailJob, JobState
  <2>2. SomeoneHandsOver'
    BY <1>7 DEF FailJob, SomeoneHandsOver
  <2> QED BY <1>1, <1>2, <1>7, <2>1, <2>2, WorkerMoves DEF FailJob
<1>8. CASE WorkerDies(w)
  <2>1. SomeoneHandsOver'
    BY <1>1, <1>8 DEF WorkerDies, AnalysisInv, SomeoneHandsOver, Active
  <2> QED BY <1>1, <1>2, <1>8, <2>1, WorkerMoves DEF WorkerDies
<1> QED BY <1>4, <1>5, <1>6, <1>7, <1>8

\* A reader told of repository r knows that too, and has read what it had read.
ToldOf(x, r) == [x EXCEPT !.seen.since = @ \cup {r}]
\* A reader told of a repository has the type it had.
LEMMA ToldReader ==
  ASSUME NEW r \in Repo, NEW x, x.seen \in Reading
  PROVE  /\ x \in WorkerState => ToldOf(x, r) \in WorkerState /\ ToldOf(x, r).job = x.job
         /\ x \in RunState => ToldOf(x, r) \in RunState
         /\ x \in WorkerState \/ x \in RunState =>
              /\ ToldOf(x, r).at = x.at
              /\ ToldOf(x, r).seen.items = x.seen.items
              /\ ToldOf(x, r).seen.since = x.seen.since \cup {r}
<1>1. PICK s : s = [x.seen EXCEPT !.since = @ \cup {r}]
  OBVIOUS
<1>2. s \in Reading /\ s.items = x.seen.items /\ s.since = x.seen.since \cup {r}
  BY <1>1 DEF Reading
<1>3. ToldOf(x, r) = [x EXCEPT !.seen = s]
  BY <1>1 DEF ToldOf
<1>4. ASSUME x \in WorkerState
      PROVE  /\ ToldOf(x, r) \in WorkerState /\ ToldOf(x, r).job = x.job
             /\ ToldOf(x, r).at = x.at /\ ToldOf(x, r).seen = s
  BY <1>2, <1>3, <1>4 DEF WorkerState
<1>5. ASSUME x \in RunState
      PROVE  ToldOf(x, r) \in RunState /\ ToldOf(x, r).at = x.at /\ ToldOf(x, r).seen = s
  BY <1>2, <1>3, <1>5 DEF RunState
<1> QED BY <1>2, <1>4, <1>5

\* Those who have read before are told of repository r, and nothing else.
Was(old, new, r) ==
  /\ new.at = old.at
  /\ old.at \in {"merging", "asking"} =>
       new.seen.items = old.seen.items /\ new.seen.since = old.seen.since \cup {r}
\* All who have read the map are told of what is written to it.
LEMMA Told ==
  ASSUME AnalysisTyped, NEW r \in Repo
  PROVE  /\ Tell(worker, r) \in [Worker -> WorkerState]
         /\ \A w \in Worker : Was(worker[w], Tell(worker, r)[w], r) /\ Tell(worker, r)[w].job = worker[w].job
         /\ DOMAIN Tell(run, r) = DOMAIN run /\ Tell(run, r) \in [DOMAIN run -> RunState]
         /\ \A s \in DOMAIN run : Was(run[s], Tell(run, r)[s], r)
<1>1. ASSUME NEW readers
      PROVE  /\ Tell(readers, r) = [x \in DOMAIN readers |-> Tell(readers, r)[x]]
             /\ DOMAIN Tell(readers, r) = DOMAIN readers
             /\ \A x \in DOMAIN readers :
                  Tell(readers, r)[x] = IF readers[x].at \in {"merging", "asking"}
                                        THEN ToldOf(readers[x], r) ELSE readers[x]
  BY DEF Tell, ToldOf
<1>2. ASSUME NEW w \in Worker
      PROVE  /\ Tell(worker, r)[w] \in WorkerState /\ Tell(worker, r)[w].job = worker[w].job
             /\ Was(worker[w], Tell(worker, r)[w], r)
  <2>1. worker[w] \in WorkerState /\ worker[w].seen \in Reading /\ DOMAIN worker = Worker
    BY DEF AnalysisTyped, WorkerState
  <2> QED BY <1>1, <2>1, ToldReader DEF Was
<1>3. ASSUME NEW s \in DOMAIN run
      PROVE  Tell(run, r)[s] \in RunState /\ Was(run[s], Tell(run, r)[s], r)
  <2>1. run[s] \in RunState /\ run[s].seen \in Reading
    BY DEF AnalysisTyped, RunState
  <2> QED BY <1>1, <2>1, ToldReader DEF Was
<1>4. DOMAIN worker = Worker
  BY DEF AnalysisTyped
<1> QED BY <1>1, <1>2, <1>3, <1>4

\* What a worker writes has its repository, and what it read and was not told of.
LEMMA WriteKeeps ==
  ASSUME AnalysisInv, NEW w \in Worker, WriteMap(w)
  PROVE  AnalysisInv'
<1> DEFINE r == RepoOf(worker[w].job)
           seen == worker[w].seen
<1>1. /\ worker[w] \in WorkerState /\ worker[w].at = "merging" /\ worker[w].job \in Job
      /\ seen \in Reading /\ AnalysisTyped /\ ReadBefore(worker[w])
  BY DEF AnalysisInv, AnalysisTyped, WriteMap, WorkerState, SlicesStand
<1>2. r \in Repo
  BY <1>1, AnalysisAssumption DEF Job, RepoOf
<1>3. CASE map.exists /\ ~seen.exists
  <2>1. Idle \in WorkerState /\ Idle.at = "idle"
    BY DEF Idle, WorkerState, Nothing, Reading
  <2>2. job' \in [Job -> JobState]
    BY <1>1, <1>3 DEF WriteMap, AnalysisTyped, JobState
  <2>3. SomeoneHandsOver'
    BY <1>3 DEF WriteMap, SomeoneHandsOver
  <2>4. /\ worker' = [worker EXCEPT ![w] = Idle] /\ UNCHANGED <<map, run, drafted, analysed, overlapped>>
    BY <1>3 DEF WriteMap
  <2> QED BY <1>1, <2>1, <2>2, <2>3, <2>4, WorkerMoves DEF AnalysisTyped
<1>4. CASE ~(map.exists /\ ~seen.exists)
  <2> DEFINE items == ReplaceRepoSlice(seen.items, r)
             told == Tell(worker, r)
  <2>1. items \in ItemSet /\ RepoIn(items) = RepoIn(seen.items) \cup {r}
    <3>1. seen.items \in ItemSet
      BY <1>1 DEF Reading, ItemSet
    <3>2. items = (seen.items \ {<<r, TRUE>>}) \cup {<<r, TRUE>>}
      BY DEF ReplaceRepoSlice
    <3>3. items = seen.items \cup {<<r, TRUE>>} /\ <<r, TRUE>> \in Repo \X BOOLEAN
      BY <1>2, <3>2
    <3>4. items \in ItemSet
      BY <3>1, <3>3 DEF ItemSet
    <3>5. <<r, TRUE>>[1] = r
      OBVIOUS
    <3> HIDE DEF items
    <3> QED BY <3>3, <3>4, <3>5 DEF RepoIn
  <2>2. /\ map' = [exists |-> TRUE, items |-> items, stamp |-> map.stamp + 1]
        /\ drafted' = map.stamp + 1
        /\ analysed' = analysed \cup {r} /\ overlapped' = (overlapped \cup seen.since) \ {r}
        /\ worker' = [told EXCEPT ![w].at = "written", ![w].seen = Nothing]
        /\ run' = Tell(run, r) /\ UNCHANGED <<job, settled>>
    BY <1>4 DEF WriteMap
  <2>3. /\ told \in [Worker -> WorkerState]
        /\ \A v \in Worker : Was(worker[v], told[v], r) /\ told[v].job = worker[v].job
        /\ DOMAIN run' = DOMAIN run /\ run' \in [DOMAIN run -> RunState]
        /\ \A s \in DOMAIN run : Was(run[s], run'[s], r)
    BY <1>1, <1>2, <2>2, Told
  <2> HIDE DEF items, told
  <2>4. Nothing \in Reading
    BY DEF Nothing, Reading
  <2>5. /\ worker' \in [Worker -> WorkerState] /\ worker'[w].at = "written"
        /\ worker'[w].job = told[w].job /\ \A v \in Worker \ {w} : worker'[v] = told[v]
    BY <2>2, <2>3, <2>4 DEF WorkerState
  <2>6. AnalysisTyped'
    <3>1. map' \in [exists : BOOLEAN, items : ItemSet, stamp : Nat] /\ drafted' \in Nat /\ drafted' <= map'.stamp
      BY <1>1, <2>1, <2>2 DEF AnalysisTyped
    <3>2. \A v \in Worker : worker'[v].at # "idle" => worker'[v].job \in Job
      BY <1>1, <2>3, <2>5 DEF AnalysisTyped, Was
    <3>3. analysed' \subseteq Repo /\ overlapped' \subseteq Repo
      BY <1>1, <1>2, <2>2 DEF AnalysisTyped, Reading
    <3> QED BY <1>1, <2>2, <2>3, <2>5, <3>1, <3>2, <3>3 DEF AnalysisTyped
  <2>7. SomeoneHandsOver'
    BY <2>5 DEF SomeoneHandsOver
  <2>8. Slices' \subseteq Slices \cup {r} /\ Slices' \cap seen.since \subseteq {r}
    BY <2>2 DEF Slices
  <2>9. SlicesStand'
    <3>1. Slices' \subseteq RepoIn(map'.items)
      BY <1>1, <2>1, <2>2, <2>8 DEF ReadBefore
    <3>2. ASSUME NEW v \in Worker, worker'[v].at = "merging" PROVE ReadBefore(worker[v])'
      <4>1. v # w /\ worker'[v] = told[v] /\ worker[v].at = "merging" /\ ReadBefore(worker[v])
        BY <2>3, <2>5, <3>2 DEF Was, AnalysisInv, SlicesStand
      <4>2. worker'[v].seen.items = worker[v].seen.items /\ worker'[v].seen.since = worker[v].seen.since \cup {r}
        BY <2>3, <4>1 DEF Was
      <4> QED BY <2>8, <4>1, <4>2 DEF ReadBefore
    <3>3. ASSUME NEW s \in DOMAIN run', run'[s].at = "asking" PROVE ReadBefore(run[s])'
      <4>1. s \in DOMAIN run /\ run[s].at = "asking" /\ ReadBefore(run[s])
        BY <2>3, <3>3 DEF Was, AnalysisInv, SlicesStand
      <4>2. run'[s].seen.items = run[s].seen.items /\ run'[s].seen.since = run[s].seen.since \cup {r}
        BY <2>3, <4>1 DEF Was
      <4> QED BY <2>8, <4>1, <4>2 DEF ReadBefore
    <3> QED BY <3>1, <3>2, <3>3 DEF SlicesStand
  <2> QED BY <2>6, <2>7, <2>9 DEF AnalysisInv
<1> QED BY <1>3, <1>4

\* A model is asked about the map as it is, ...
LEMMA AskKeeps ==
  ASSUME AnalysisInv, NEW s \in DOMAIN run, AskModel(s)
  PROVE  AnalysisInv'
<1>1. PICK seen \in Reading : seen = Seen /\ Slices \subseteq RepoIn(seen.items)
  BY SeenNow
<1>2. PICK new \in RunState : new = [at |-> "asking", seen |-> seen]
  BY <1>1 DEF RunState
<1>3. /\ run' = [run EXCEPT ![s] = new]
      /\ UNCHANGED <<job, worker, map, settled, drafted, analysed, overlapped>>
  BY <1>1, <1>2 DEF AskModel
<1>4. AnalysisTyped'
  BY <1>3 DEF AnalysisInv, AnalysisTyped
<1>5. SomeoneHandsOver'
  BY <1>3 DEF AnalysisInv, SomeoneHandsOver, Active
<1>6. SlicesStand'
  BY <1>1, <1>2, <1>3 DEF AnalysisInv, SlicesStand, Slices, ReadBefore
<1> QED BY <1>4, <1>5, <1>6 DEF AnalysisInv

\* ... and its answer written over what was read, what it leaves out excepted.
LEMMA AnswerKeeps ==
  ASSUME AnalysisInv, NEW s \in DOMAIN run, ModelAnswers(s)
  PROVE  AnalysisInv'
<1> DEFINE seen == run[s].seen
           left == RepoIn(seen.items) \ RepoIn(map'.items)
<1>1. /\ AnalysisTyped /\ run[s] \in RunState /\ seen \in Reading /\ ReadBefore(run[s])
  BY DEF AnalysisInv, AnalysisTyped, RunState, ModelAnswers, SlicesStand
<1>2. PICK new \in RunState : new = [at |-> "ended", seen |-> Nothing]
  BY DEF RunState, Nothing, Reading
<1>3. /\ run' = [run EXCEPT ![s] = new]
      /\ UNCHANGED <<job, worker, settled, drafted, analysed>>
  BY <1>2 DEF ModelAnswers
<1>4. /\ map' \in [exists : BOOLEAN, items : ItemSet, stamp : Nat] /\ map'.stamp = map.stamp + 1
      /\ overlapped \subseteq overlapped' /\ overlapped' \subseteq Repo
      /\ Slices' \subseteq RepoIn(map'.items)
  <2>1. CASE map' = [map EXCEPT !.stamp = @ + 1] /\ UNCHANGED overlapped
    <3>1. map' \in [exists : BOOLEAN, items : ItemSet, stamp : Nat] /\ map'.stamp = map.stamp + 1
          /\ map'.items = map.items
      BY <1>1, <2>1 DEF AnalysisTyped
    <3> QED BY <1>1, <1>3, <2>1, <3>1 DEF AnalysisInv, AnalysisTyped, SlicesStand, Slices
  <2>2. CASE \E named \in SUBSET RepoIn(seen.items) :
               LET items == MergeKnowledge(seen.items, named)
               IN  /\ map' = [exists |-> TRUE, items |-> items, stamp |-> map.stamp + 1]
                   /\ overlapped' = overlapped \cup seen.since \cup (RepoIn(seen.items) \ RepoIn(items))
    <3>1. PICK named \in SUBSET RepoIn(seen.items) :
               /\ map' = [exists |-> TRUE, items |-> MergeKnowledge(seen.items, named), stamp |-> map.stamp + 1]
               /\ overlapped' = overlapped \cup seen.since
                                \cup (RepoIn(seen.items) \ RepoIn(MergeKnowledge(seen.items, named)))
      BY <2>2
    <3>2. MergeKnowledge(seen.items, named) \in ItemSet
      <4>1. seen.items \in ItemSet
        BY <1>1 DEF Reading, ItemSet
      <4>2. \A i \in seen.items : <<i[1], FALSE>> \in Repo \X BOOLEAN
        BY <4>1 DEF ItemSet
      <4> QED BY <4>1, <4>2 DEF MergeKnowledge, ItemSet
    <3>3. RepoIn(seen.items) \subseteq Repo /\ seen.since \subseteq Repo
      BY <1>1 DEF RepoIn, Reading
    <3>4. Slices' \subseteq RepoIn(map'.items)
      BY <1>1, <1>3, <3>1 DEF Slices, ReadBefore
    <3> QED BY <1>1, <3>1, <3>2, <3>3, <3>4 DEF AnalysisTyped
  <2> QED BY <2>1, <2>2 DEF ModelAnswers
<1>5. AnalysisTyped'
  BY <1>1, <1>3, <1>4 DEF AnalysisTyped
<1>6. SomeoneHandsOver'
  BY <1>3 DEF AnalysisInv, SomeoneHandsOver, Active
<1>7. SlicesStand'
  BY <1>1, <1>2, <1>3, <1>4 DEF AnalysisInv, SlicesStand, Slices, ReadBefore
<1> QED BY <1>5, <1>6, <1>7 DEF AnalysisInv

\* One step per statement of a worker and of the enrichment.
LEMMA AnalysisInvNext == AnalysisInv /\ [AnalysisNext]_analysisVars => AnalysisInv'
<1> SUFFICES ASSUME AnalysisInv, [AnalysisNext]_analysisVars PROVE AnalysisInv'
  OBVIOUS
<1>1. CASE UNCHANGED analysisVars
  BY <1>1 DEF analysisVars, AnalysisInv, AnalysisTyped, SomeoneHandsOver, Active, SlicesStand, Slices, ReadBefore
<1>2. CASE AnalysisNext
  BY <1>2, RequestsKeep, ClaimKeeps, ReadKeeps, WriteKeeps, EndKeeps, AskKeeps, AnswerKeeps DEF AnalysisNext
<1> QED BY <1>1, <1>2

\* Once the analysis of a project has ended well, a model is asked about the map
\* after everything that was written to it, or somebody is left who will ask.
THEOREM HandedOver == AnalysisSpec => []EnrichmentFollows
<1>1. AnalysisInv => EnrichmentFollows
  BY DEF AnalysisInv, SomeoneHandsOver, EnrichmentFollows, Active
<1> QED BY <1>1, AnalysisInvInit, AnalysisInvNext, PTL DEF AnalysisSpec

\* What a repository's analysis has written stays in the map, unless another write
\* of the map ran beside it.
THEOREM SlicesStandAll == AnalysisSpec => []SlicesKept
<1>1. AnalysisInv => SlicesKept
  <2> SUFFICES ASSUME AnalysisInv, NEW r \in Slices
               PROVE  \E tagged \in BOOLEAN : <<r, tagged>> \in map.items
    BY DEF SlicesKept, Slices
  <2>1. PICK i \in map.items : r = i[1]
    BY DEF AnalysisInv, SlicesStand, RepoIn
  <2>2. i \in Repo \X BOOLEAN
    BY DEF AnalysisInv, AnalysisTyped, ItemSet
  <2> QED BY <2>1, <2>2
<1> QED BY <1>1, AnalysisInvInit, AnalysisInvNext, PTL DEF AnalysisSpec

-----------------------------------------------------------------------------
\* A set of numbers that is not empty has a least one.
LEMMA LeastOfSome ==
  ASSUME NEW S \in SUBSET Nat, S # {}
  PROVE  Min(S) \in S
<1> DEFINE Less == OpToRel(<, Nat)
<1>1. PICK m \in S : \A k \in S : ~ (<<k, m>> \in Less)
  BY NatLessThanWellFounded, WFMin
<1>2. ASSUME NEW k \in S PROVE m =< k
  <2>1. k \in Nat /\ m \in Nat /\ <<k, m>> \in Nat \X Nat
    OBVIOUS
  <2>2. ~ (k < m)
    BY <1>1, <2>1 DEF OpToRel
  <2> QED BY <2>1, <2>2
<1>3. \E x \in S : \A y \in S : x =< y
  BY <1>2
<1> QED BY <1>3 DEF Min

-----------------------------------------------------------------------------
Piece == Nat \ {0}
Row == [kind : Kind, text : Seq(Piece)]
WriteRecord == [run : LogRun, kind : Kind, text : Seq(Piece),
                at : {"new", "inserted", "committed"}, seq : Nat]
RowName == [run : LogRun, seq : Nat]

ServerTypes ==
  /\ said \in [LogRun -> Nat]
  /\ bucket \in [LogRun -> Seq(Piece)]
  /\ writes \subseteq WriteRecord
  /\ lines \in [LogRun -> Seq(Row)]
  /\ dropped \in [LogRun -> SUBSET Piece]
PageTypes ==
  /\ wire \in Seq(RowName)
  /\ selected \in LogRun \cup {NoRun}
  /\ tail \in [at : {"none", "asked", "served", "done"}, upTo : Nat]
  /\ tail.at = "none" <=> selected = NoRun
  /\ earlier \subseteq [run : LogRun, before : Nat \ {0}, late : BOOLEAN]
  /\ DOMAIN shown \subseteq Nat
  /\ hole \in BOOLEAN /\ mixed \in BOOLEAN

\* How many rows of the log of r there are.
Rows(r) == Len(lines[r])

\* The number that a write under the lock has found is the next one, one that has
\* committed has a row, and there is one write of a run under the lock.
Numbered ==
  \A w \in writes :
    /\ w.at = "inserted" => w.seq \in {0, Rows(w.run) + 1}
    /\ w.at = "committed" => w.seq \in 1 .. Rows(w.run)
LockHeldOnce ==
  \A w, x \in writes : w.at = "inserted" /\ x.at = "inserted" /\ w.run = x.run => w = x

\* What is on its way to the page, and what it waits for, are rows of the log.
OnTheWire == \A i \in 1 .. Len(wire) : wire[i].seq \in 1 .. Rows(wire[i].run)
TailIsPast == tail.at \in {"served", "done"} => tail.upTo <= Rows(selected)
EarlierArePast ==
  ~mixed => \A e \in earlier : ~e.late => e.run = selected /\ e.before <= Rows(selected)
\* It shows rows of the run selected.
ShownAreItsOwn ==
  selected # NoRun /\ ~mixed => \A s \in DOMAIN shown : shown[s] = selected /\ s \in 1 .. Rows(selected)
\* Once its request for the last rows has been answered it shows them, ...
LastPageShown == ~hole /\ tail.at = "done" => Page(tail.upTo) \subseteq DOMAIN shown
\* ... and every row since the request was served is shown, on its way, or about
\* to be told.
Sent(r, s) == \E i \in 1 .. Len(wire) : wire[i].run = r /\ wire[i].seq = s
ToBeTold(r, s) == \E w \in writes : w.run = r /\ w.seq = s /\ w.at = "committed"
RowsSince ==
  ~hole /\ tail.at \in {"served", "done"} =>
    \A s \in Nat : s > tail.upTo /\ s <= Rows(selected) =>
      s \in DOMAIN shown \/ Sent(selected, s) \/ ToBeTold(selected, s)

PageInv ==
  /\ ServerTypes /\ PageTypes /\ Numbered /\ LockHeldOnce /\ OnTheWire
  /\ TailIsPast /\ EarlierArePast /\ ShownAreItsOwn /\ LastPageShown /\ RowsSince

-----------------------------------------------------------------------------
\* What an activity says makes at most one write, not begun yet.
LEMMA SayWrites ==
  ASSUME ServerTypes, NEW r \in LogRun, Say(r)
  PROVE  \E w \in WriteRecord : w.at = "new" /\ w.run = r /\ writes' \subseteq writes \cup {w}
<1>1. said[r] \in Nat /\ bucket[r] \in Seq(Piece)
  BY DEF ServerTypes
<1>2. said[r] + 1 \in Piece
  BY <1>1 DEF Piece
<1>3. Append(bucket[r], said[r] + 1) \in Seq(Piece) /\ <<said[r] + 1>> \in Seq(Piece)
  BY <1>1, <1>2
<1>4. \A kind \in Kind, text \in Seq(Piece) :
        /\ Write(r, kind, text) \in WriteRecord
        /\ Write(r, kind, text).at = "new" /\ Write(r, kind, text).run = r
  BY DEF Write, WriteRecord
<1>5. "text" \in Kind
  BY DEF Kind
<1>6. CASE UNCHANGED writes
  BY <1>3, <1>4, <1>5, <1>6
<1>7. CASE writes' = writes \cup {Write(r, "text", Append(bucket[r], said[r] + 1))}
  BY <1>3, <1>4, <1>5, <1>7
<1>8. CASE \E kind \in Kind : writes' = writes \cup {Write(r, kind, <<said[r] + 1>>)}
  BY <1>3, <1>4, <1>8
<1> QED BY <1>6, <1>7, <1>8 DEF Say

\* The buffers and the rows keep their types.
LEMMA ServerTypesStep ==
  ASSUME ServerTypes, PageTypes, [LogsNext]_logVars
  PROVE  ServerTypes'
<1> USE LiveLogsAssumption DEF ServerTypes, WriteRecord, Row, Piece, Kind
<1>1. ASSUME NEW r \in LogRun, Say(r) PROVE ServerTypes'
  <2>1. said' \in [LogRun -> Nat] /\ said[r] + 1 \in Piece /\ said[r] + 1 = said'[r]
    BY <1>1 DEF Say
  <2>2. Append(bucket[r], said[r] + 1) \in Seq(Piece) /\ <<said[r] + 1>> \in Seq(Piece)
        /\ <<>> \in Seq(Piece)
    BY <2>1
  <2>3. bucket' \in [LogRun -> Seq(Piece)]
    BY <1>1, <2>2 DEF Say, EmptiedBucket
  <2>4. writes' \subseteq WriteRecord
    BY <1>1, SayWrites
  <2> QED BY <1>1, <2>1, <2>3, <2>4 DEF Say
<1>2. ASSUME NEW r \in LogRun, Flush(r) PROVE ServerTypes'
  <2>1. <<>> \in Seq(Piece)
    OBVIOUS
  <2> QED BY <1>2, <2>1 DEF Flush, EmptiedBucket, Write
<1>3. ASSUME NEW w \in writes, InsertLine(w) PROVE ServerTypes'
  <2> DEFINE new == [w EXCEPT !.at = "inserted", !.seq = IF Admitted(w) THEN Len(lines[w.run]) + 1 ELSE 0]
  <2>1. w \in WriteRecord /\ Len(lines[w.run]) \in Nat
    OBVIOUS
  <2>2. new \in WriteRecord
    <3>1. (IF Admitted(w) THEN Len(lines[w.run]) + 1 ELSE 0) \in Nat
      BY <2>1
    <3> QED BY <2>1, <3>1
  <2>3. writes' = (writes \ {w}) \cup {new}
    BY <1>3 DEF InsertLine, Becomes
  <2> HIDE DEF new
  <2> QED BY <1>3, <2>2, <2>3 DEF InsertLine, serverVars
<1>4. ASSUME NEW w \in writes, CommitLine(w) PROVE ServerTypes'
  <2>1. w \in WriteRecord
    OBVIOUS
  <2>2. ToSet(w.text) \subseteq Piece
    BY <2>1 DEF ToSet
  <2>3. [kind |-> w.kind, text |-> w.text] \in Row
    BY <2>1
  <2>4. Append(lines[w.run], [kind |-> w.kind, text |-> w.text]) \in Seq(Row)
    BY <2>1, <2>3
  <2>5. lines' \in [LogRun -> Seq(Row)]
    BY <1>4, <2>1, <2>4 DEF CommitLine
  <2>6. dropped' \in [LogRun -> SUBSET Piece]
    <3>1. w.run \in LogRun
      BY <2>1
    <3>2. \/ dropped' = dropped
          \/ dropped' = [dropped EXCEPT ![w.run] = dropped[w.run] \cup ToSet(w.text)]
      BY <1>4 DEF CommitLine, Drop
    <3>3. dropped[w.run] \cup ToSet(w.text) \in SUBSET Piece
      BY <2>2, <3>1
    <3> QED BY <3>1, <3>2, <3>3
  <2>7. writes' \subseteq WriteRecord
    <3>1. [w EXCEPT !.at = "committed"] \in WriteRecord
      BY <2>1
    <3> QED BY <1>4, <3>1 DEF CommitLine, Becomes
  <2> QED BY <1>4, <2>5, <2>6, <2>7 DEF CommitLine
<1>5. ASSUME NEW w \in writes, EmitLine(w) PROVE ServerTypes'
  BY <1>5 DEF EmitLine, serverVars
<1>6. ASSUME NEW w \in writes, WriteFails(w) PROVE ServerTypes'
  <2>1. ToSet(w.text) \subseteq Piece
    BY DEF ToSet
  <2> QED BY <1>6, <2>1 DEF WriteFails, Drop
<1>7. ASSUME UNCHANGED <<serverVars, writes>> PROVE ServerTypes'
  BY <1>7 DEF serverVars
<1>8. CASE UNCHANGED logVars
  BY <1>7, <1>8 DEF logVars, serverVars
<1>9. CASE Connect \/ Join \/ Disconnect \/ Arrive \/ ServeTail \/ TailComes \/ AskEarlier
  BY <1>7, <1>9 DEF Connect, Join, Disconnect, Arrive, ServeTail, TailComes, AskEarlier
<1>10. ASSUME NEW r \in LogRun \cup {NoRun}, Select(r) PROVE ServerTypes'
  BY <1>7, <1>10 DEF Select
<1>11. ASSUME NEW e \in earlier, EarlierComes(e) PROVE ServerTypes'
  BY <1>7, <1>11 DEF EarlierComes
<1> QED
  BY <1>1, <1>2, <1>3, <1>4, <1>5, <1>6, <1>8, <1>9, <1>10, <1>11 DEF LogsNext

\* The log of a run only grows.
LEMMA RowsGrow ==
  ASSUME ServerTypes, [LogsNext]_logVars
  PROVE  /\ \A r \in LogRun : Rows(r) \in Nat /\ Rows(r)' \in Nat /\ Rows(r)' >= Rows(r)
         /\ \/ UNCHANGED lines
            \/ \E w \in writes : CommitLine(w)
<1> USE DEF ServerTypes, Rows
<1>1. ASSUME NEW w \in writes, CommitLine(w)
      PROVE  \A r \in LogRun : Rows(r) \in Nat /\ Rows(r)' \in Nat /\ Rows(r)' >= Rows(r)
  <2>1. w.run \in LogRun /\ w.kind \in Kind /\ w.text \in Seq(Piece)
    BY DEF WriteRecord
  <2>2. [kind |-> w.kind, text |-> w.text] \in Row
    BY <2>1 DEF Row
  <2>3. \/ lines' = lines
        \/ lines' = [lines EXCEPT ![w.run] = Append(@, [kind |-> w.kind, text |-> w.text])]
    BY <1>1 DEF CommitLine
  <2>4. Len(Append(lines[w.run], [kind |-> w.kind, text |-> w.text])) = Len(lines[w.run]) + 1
    BY <2>1, <2>2
  <2>5. \A r \in LogRun : Len(lines[r]) \in Nat
    OBVIOUS
  <2>6. CASE lines' = lines
    BY <2>5, <2>6
  <2>7. CASE lines' = [lines EXCEPT ![w.run] = Append(@, [kind |-> w.kind, text |-> w.text])]
    <3>1. ASSUME NEW r \in LogRun PROVE Len(lines'[r]) \in {Len(lines[r]), Len(lines[r]) + 1}
      <4>1. CASE r = w.run
        BY <2>1, <2>4, <2>7, <4>1
      <4>2. CASE r # w.run
        BY <2>1, <2>7, <4>2
      <4> QED BY <4>1, <4>2
    <3> QED BY <2>5, <3>1
  <2> QED BY <2>3, <2>6, <2>7
<1>2. \/ UNCHANGED lines
      \/ \E w \in writes : CommitLine(w)
  BY DEF LogsNext, Say, Flush, InsertLine, EmitLine, WriteFails, Connect, Join, Disconnect, Arrive,
         Select, ServeTail, TailComes, AskEarlier, EarlierComes, serverVars, logVars
<1>3. ASSUME UNCHANGED lines
      PROVE  \A r \in LogRun : Rows(r) \in Nat /\ Rows(r)' \in Nat /\ Rows(r)' >= Rows(r)
  BY <1>3
<1> QED BY <1>1, <1>2, <1>3

\* A write that commits adds one row to the log of its run, the one whose number it
\* had found, or none.
LEMMA CommitAddsRow ==
  ASSUME ServerTypes, Numbered, NEW w \in writes, CommitLine(w)
  PROVE  /\ \A r \in LogRun \ {w.run} : Rows(r)' = Rows(r)
         /\ w.seq # 0 => Rows(w.run)' = Rows(w.run) + 1 /\ w.seq = Rows(w.run) + 1
         /\ w.seq = 0 => UNCHANGED lines
<1>1. w \in WriteRecord
  BY DEF ServerTypes
<1>2. [kind |-> w.kind, text |-> w.text] \in Row
  BY <1>1 DEF Row, WriteRecord
<1> QED BY <1>1, <1>2 DEF CommitLine, ServerTypes, Numbered, Rows, WriteRecord

\* Under the lock of a run's log one write at a time finds the next number.
LEMMA NumberedStep ==
  ASSUME ServerTypes, Numbered, LockHeldOnce, [LogsNext]_logVars
  PROVE  Numbered' /\ LockHeldOnce'
<1> DEFINE Both == Numbered /\ LockHeldOnce
<1>0. \A r \in LogRun : Rows(r) \in Nat /\ Rows(r)' \in Nat /\ Rows(r)' >= Rows(r)
  BY RowsGrow
<1>w. \A w \in writes : w \in WriteRecord
  BY DEF ServerTypes
<1>a. ASSUME NEW w, w.at = "new", writes' \subseteq writes \cup {w}, UNCHANGED lines PROVE Both'
  BY <1>a DEF Numbered, LockHeldOnce, Rows
<1>1. ASSUME NEW r \in LogRun, Say(r) PROVE Both'
  <2>1. PICK w : w.at = "new" /\ writes' \subseteq writes \cup {w}
    BY <1>1, SayWrites
  <2> QED BY <1>1, <1>a, <2>1 DEF Say
<1>2. ASSUME NEW r \in LogRun, Flush(r) PROVE Both'
  <2>1. PICK w : w.at = "new" /\ writes' \subseteq writes \cup {w}
    BY <1>2 DEF Flush, Write
  <2> QED BY <1>2, <1>a, <2>1 DEF Flush
<1>3. ASSUME NEW w \in writes, InsertLine(w) PROVE Both'
  <2> DEFINE new == [w EXCEPT !.at = "inserted", !.seq = IF Admitted(w) THEN Len(lines[w.run]) + 1 ELSE 0]
  <2>1. w \in WriteRecord
    BY <1>w
  <2>2. new.at = "inserted" /\ new.run = w.run /\ new.seq \in {0, Rows(w.run) + 1}
    BY <2>1 DEF Rows, WriteRecord
  <2>3. writes' = (writes \ {w}) \cup {new} /\ lines' = lines
    BY <1>3 DEF InsertLine, Becomes, serverVars
  <2>4. \A x \in writes : x.run = w.run => x.at # "inserted"
    BY <1>3 DEF InsertLine, LockFree
  <2> HIDE DEF new
  <2>5. Numbered'
    BY <2>2, <2>3 DEF Numbered, Rows
  <2>6. LockHeldOnce'
    BY <2>2, <2>3, <2>4 DEF LockHeldOnce
  <2> QED BY <2>5, <2>6
<1>4. ASSUME NEW w \in writes, CommitLine(w) PROVE Both'
  <2>1. /\ \A r \in LogRun \ {w.run} : Rows(r)' = Rows(r)
        /\ w.seq # 0 => Rows(w.run)' = Rows(w.run) + 1 /\ w.seq = Rows(w.run) + 1
        /\ w.seq = 0 => UNCHANGED lines
    BY <1>4, CommitAddsRow
  <2>2. w.at = "inserted"
    BY <1>4 DEF CommitLine
  <2>3. \A x \in writes \ {w} : x.at = "inserted" => x.run # w.run
    BY <2>2 DEF LockHeldOnce
  <2>4. ASSUME NEW x \in writes \ {w}
        PROVE  /\ x.at = "inserted" => x.seq \in {0, Rows(x.run)' + 1}
               /\ x.at = "committed" => x.seq \in 1 .. Rows(x.run)'
    <3>1. x.run \in LogRun
      BY <1>w DEF WriteRecord
    <3> QED BY <1>0, <2>1, <2>3, <3>1 DEF Numbered
  <2>5. CASE w.seq = 0
    <3>1. writes' = writes \ {w}
      BY <1>4, <2>5 DEF CommitLine
    <3> QED BY <2>4, <3>1 DEF Numbered, LockHeldOnce, Rows
  <2>6. CASE w.seq # 0
    <3> DEFINE new == [w EXCEPT !.at = "committed"]
    <3>1. writes' = (writes \ {w}) \cup {new}
      BY <1>4, <2>6 DEF CommitLine, Becomes
    <3>2. new.at = "committed" /\ new.run = w.run /\ new.seq = w.seq /\ w.run \in LogRun
      BY <1>w DEF WriteRecord
    <3> HIDE DEF new
    <3>3. new.seq \in 1 .. Rows(new.run)'
      BY <1>0, <2>1, <2>6, <3>2
    <3>4. Numbered'
      BY <2>4, <3>1, <3>2, <3>3 DEF Numbered, Rows
    <3>5. LockHeldOnce'
      BY <3>1, <3>2 DEF LockHeldOnce
    <3> QED BY <3>4, <3>5
  <2> QED BY <2>5, <2>6
<1>5. ASSUME UNCHANGED lines, writes' \subseteq writes PROVE Both'
  BY <1>5 DEF Numbered, LockHeldOnce, Rows
<1>6. ASSUME NEW w \in writes, EmitLine(w) \/ WriteFails(w) PROVE Both'
  BY <1>5, <1>6 DEF EmitLine, WriteFails, serverVars
<1>8. CASE UNCHANGED logVars
  BY <1>5, <1>8 DEF logVars, serverVars
<1>9. CASE Connect \/ Join \/ Disconnect \/ Arrive \/ ServeTail \/ TailComes \/ AskEarlier
  BY <1>5, <1>9 DEF Connect, Join, Disconnect, Arrive, ServeTail, TailComes, AskEarlier, serverVars
<1>10. ASSUME NEW r \in LogRun \cup {NoRun}, Select(r) PROVE Both'
  BY <1>5, <1>10 DEF Select, serverVars
<1>11. ASSUME NEW e \in earlier, EarlierComes(e) PROVE Both'
  BY <1>5, <1>11 DEF EarlierComes, serverVars
<1> QED
  BY <1>1, <1>2, <1>3, <1>4, <1>6, <1>8, <1>9, <1>10, <1>11 DEF LogsNext

-----------------------------------------------------------------------------
\* So does what the page has.
LEMMA PageTypesStep ==
  ASSUME ServerTypes, PageTypes, Numbered, [LogsNext]_logVars
  PROVE  PageTypes'
<1> DEFINE At == {"none", "asked", "served", "done"}
           Ask == [run : LogRun, before : Nat \ {0}, late : BOOLEAN]
<1> USE LiveLogsAssumption
<1>w. \A w \in writes : w.run \in LogRun /\ w.seq \in Nat
  BY DEF ServerTypes, WriteRecord
<1>n. \A r \in LogRun : Len(lines[r]) \in Nat
  BY DEF ServerTypes
<1>p. \A last : Page(last) \subseteq 1 .. last
  BY DEF Page
<1>a. ASSUME UNCHANGED <<selected, tail, earlier, shown, mixed>>, wire' \in Seq(RowName), hole' \in BOOLEAN
      PROVE  PageTypes'
  BY <1>a DEF PageTypes
<1>b. ASSUME UNCHANGED <<selected, tail, earlier, shown, mixed, wire, hole>> PROVE PageTypes'
  BY <1>a, <1>b DEF PageTypes
<1>1. ASSUME NEW r \in LogRun, Say(r) \/ Flush(r) PROVE PageTypes'
  BY <1>1, <1>b DEF Say, Flush, pageVars
<1>2. ASSUME NEW w \in writes, InsertLine(w) \/ CommitLine(w) \/ WriteFails(w) PROVE PageTypes'
  BY <1>2, <1>b DEF InsertLine, CommitLine, WriteFails, pageVars
<1>3. ASSUME NEW w \in writes, EmitLine(w) PROVE PageTypes'
  <2>1. [run |-> w.run, seq |-> w.seq] \in RowName
    BY <1>w DEF RowName
  <2>2. wire' \in Seq(RowName)
    <3>1. wire \in Seq(RowName) /\ Append(wire, [run |-> w.run, seq |-> w.seq]) \in Seq(RowName)
      BY <2>1 DEF PageTypes
    <3> QED BY <1>3, <3>1 DEF EmitLine
  <2>3. hole' \in BOOLEAN
    BY <1>3 DEF EmitLine, PageTypes
  <2> QED BY <1>3, <1>a, <2>2, <2>3 DEF EmitLine, pageVars
<1>4. CASE Connect \/ Join
  BY <1>4, <1>b DEF Connect, Join, pageVars
<1>5. CASE Disconnect
  BY <1>5, <1>a DEF Disconnect, pageVars, PageTypes
<1>6. CASE Arrive
  <2>1. Head(wire) \in RowName /\ Tail(wire) \in Seq(RowName)
    BY <1>6 DEF Arrive, PageTypes
  <2>2. DOMAIN shown' \subseteq Nat
    BY <1>6, <2>1 DEF Arrive, Merged, PageTypes, RowName
  <2> QED BY <1>6, <2>1, <2>2 DEF Arrive, PageTypes
<1>7. ASSUME NEW r \in LogRun \cup {NoRun}, Select(r) PROVE PageTypes'
  <2>1. tail' \in [at : At, upTo : Nat] /\ (tail'.at = "none" <=> r = NoRun)
    BY <1>7 DEF Select, NoTail
  <2>2. \A e \in Ask : [e EXCEPT !.late = TRUE] \in Ask
    OBVIOUS
  <2>3. earlier' \subseteq Ask
    BY <1>7, <2>2 DEF Select, PageTypes
  <2>4. DOMAIN shown' \subseteq Nat
    BY <1>7 DEF Select, Nowhere
  <2> QED BY <1>7, <2>1, <2>3, <2>4 DEF Select, PageTypes
<1>8. CASE ServeTail
  <2>1. selected \in LogRun
    BY <1>8 DEF ServeTail, PageTypes
  <2> QED BY <1>8, <1>n, <2>1 DEF ServeTail, PageTypes
<1>9. CASE TailComes
  <2>1. tail.upTo \in Nat
    BY DEF PageTypes
  <2>2. DOMAIN shown' \subseteq Nat
    BY <1>9, <1>p, <2>1 DEF TailComes, Merged, PageTypes
  <2>3. tail' \in [at : At, upTo : Nat] /\ tail'.at = "done" /\ selected # NoRun
    BY <1>9 DEF TailComes, PageTypes
  <2> QED BY <1>9, <2>2, <2>3 DEF TailComes, PageTypes
<1>10. CASE AskEarlier
  <2>1. Min(DOMAIN shown) \in Nat \ {0} /\ selected \in LogRun
    BY <1>10, LeastOfSome DEF AskEarlier, PageTypes
  <2>2. [run |-> selected, before |-> Min(DOMAIN shown), late |-> FALSE] \in Ask
    BY <2>1
  <2>3. earlier' \subseteq Ask
    BY <1>10, <2>2 DEF AskEarlier, PageTypes
  <2> QED BY <1>10, <2>3 DEF AskEarlier, PageTypes
<1>11. ASSUME NEW e \in earlier, EarlierComes(e) PROVE PageTypes'
  <2>1. e.before - 1 \in Nat
    BY DEF PageTypes
  <2>2. Merged(Page(e.before - 1)) \subseteq Nat
    BY <1>p, <2>1 DEF Merged, PageTypes
  <2>3. DOMAIN shown' \subseteq Nat
    BY <1>11, <2>2 DEF EarlierComes, Kept
  <2> QED BY <1>11, <2>3 DEF EarlierComes, PageTypes
<1>12. CASE UNCHANGED logVars
  BY <1>12, <1>b DEF logVars
<1> QED
  BY <1>1, <1>2, <1>3, <1>4, <1>5, <1>6, <1>7, <1>8, <1>9, <1>10, <1>11, <1>12 DEF LogsNext

\* What is on its way to the page after a step was so before, or has just been told.
LEMMA OnTheWireStep ==
  ASSUME ServerTypes, PageTypes, Numbered, OnTheWire, [LogsNext]_logVars
  PROVE  OnTheWire'
<1>1. \A r \in LogRun : Rows(r) \in Nat /\ Rows(r)' \in Nat /\ Rows(r)' >= Rows(r)
  BY RowsGrow
<1>2. wire \in Seq(RowName)
  BY DEF PageTypes
<1>3. \A i \in 1 .. Len(wire) : wire[i].run \in LogRun /\ wire[i].seq \in 1 .. Len(lines'[wire[i].run])
  <2>1. ASSUME NEW i \in 1 .. Len(wire)
        PROVE  wire[i].run \in LogRun /\ wire[i].seq \in 1 .. Len(lines'[wire[i].run])
    <3>1. wire[i] \in RowName
      BY <1>2
    <3>2. wire[i].run \in LogRun /\ wire[i].seq \in 1 .. Len(lines[wire[i].run])
      BY <3>1 DEF RowName, OnTheWire, Rows
    <3> QED BY <1>1, <3>2 DEF Rows
  <2> QED BY <2>1
<1>4. ASSUME wire' = wire PROVE OnTheWire'
  BY <1>3, <1>4 DEF OnTheWire, Rows
<1>5. ASSUME wire' = <<>> PROVE OnTheWire'
  BY <1>5 DEF OnTheWire
<1>6. ASSUME NEW w \in writes, EmitLine(w) PROVE OnTheWire'
  <2> DEFINE name == [run |-> w.run, seq |-> w.seq]
  <2>1. name \in RowName /\ w.run \in LogRun /\ w.seq \in 1 .. Rows(w.run)
    BY <1>6 DEF EmitLine, Numbered, ServerTypes, WriteRecord, RowName
  <2>2. name.run = w.run /\ name.seq = w.seq
    OBVIOUS
  <2>3. name.seq \in 1 .. Len(lines'[name.run])
    BY <1>1, <2>1, <2>2 DEF Rows
  <2>4. wire' \in {wire, Append(wire, name)}
    BY <1>6 DEF EmitLine
  <2> HIDE DEF name
  <2>5. CASE wire' = Append(wire, name)
    <3>1. Len(wire') = Len(wire) + 1
      BY <1>2, <2>1, <2>5
    <3>2. ASSUME NEW i \in 1 .. Len(wire') PROVE wire'[i].seq \in 1 .. Len(lines'[wire'[i].run])
      <4>1. CASE i = Len(wire) + 1
        BY <1>2, <2>1, <2>3, <2>5, <4>1
      <4>2. CASE i # Len(wire) + 1
        <5>1. i \in 1 .. Len(wire) /\ wire'[i] = wire[i]
          BY <1>2, <2>1, <2>5, <3>1, <4>2
        <5> QED BY <1>3, <5>1
      <4> QED BY <4>1, <4>2
    <3> QED BY <3>2 DEF OnTheWire, Rows
  <2> QED BY <1>4, <2>4, <2>5
<1>7. CASE Arrive
  <2>1. wire # <<>> /\ wire' = Tail(wire)
    BY <1>7 DEF Arrive
  <2>2. Len(wire') = Len(wire) - 1 /\ \A i \in 1 .. Len(wire') : wire'[i] = wire[i + 1]
    BY <1>2, <2>1
  <2>3. ASSUME NEW i \in 1 .. Len(wire') PROVE wire'[i].seq \in 1 .. Len(lines'[wire'[i].run])
    <3>1. i + 1 \in 1 .. Len(wire)
      BY <1>2, <2>2
    <3> QED BY <1>3, <2>2, <3>1
  <2> QED BY <2>3 DEF OnTheWire, Rows
<1>8. CASE Disconnect
  BY <1>5, <1>8 DEF Disconnect
<1> QED
  BY <1>4, <1>6, <1>7, <1>8
  DEF LogsNext, Say, Flush, InsertLine, CommitLine, WriteFails, Connect, Join, Select, ServeTail,
      TailComes, AskEarlier, EarlierComes, logVars

\* What the page waits for are rows of the log of the run selected, and what it
\* shows are rows of that log.
OfThePage == TailIsPast /\ EarlierArePast /\ ShownAreItsOwn
\* The run selected changes only together with all that was asked for the one before.
LEMMA OfThePageStep ==
  ASSUME ServerTypes, PageTypes, Numbered, OnTheWire, OfThePage, [LogsNext]_logVars
  PROVE  OfThePage'
<1> USE LiveLogsAssumption DEF OfThePage
<1>1. \A r \in LogRun : Rows(r) \in Nat /\ Len(lines'[r]) \in Nat /\ Len(lines'[r]) >= Rows(r)
  BY RowsGrow DEF Rows
<1>2. tail.at \in {"served", "done"} => selected \in LogRun
  BY DEF PageTypes
<1>3. \A e \in earlier : e.run \in LogRun /\ e.before \in Nat \ {0} /\ e.late \in BOOLEAN
  BY DEF PageTypes
<1>p. \A last : Page(last) \subseteq 1 .. last
  BY DEF Page
<1>t. tail.upTo \in Nat
  BY DEF PageTypes
<1>a. ASSUME UNCHANGED <<selected, tail>> PROVE TailIsPast'
  BY <1>1, <1>2, <1>t, <1>a DEF TailIsPast, Rows
<1>b. ASSUME UNCHANGED <<selected, mixed>>, earlier' \subseteq earlier PROVE EarlierArePast'
  BY <1>1, <1>3, <1>b DEF EarlierArePast, Rows
<1>c. ASSUME UNCHANGED <<selected, mixed, shown>> PROVE ShownAreItsOwn'
  <2>1. CASE selected # NoRun /\ ~mixed
    <3>1. selected \in LogRun
      BY <2>1 DEF PageTypes
    <3> QED BY <1>1, <1>c, <2>1, <3>1 DEF ShownAreItsOwn, Rows
  <2> QED BY <1>c, <2>1 DEF ShownAreItsOwn
<1>d. ASSUME UNCHANGED pageVars PROVE OfThePage'
  BY <1>a, <1>b, <1>c, <1>d DEF pageVars
<1>4. CASE Arrive
  <2>1. wire \in Seq(RowName) /\ wire # <<>>
    BY <1>4 DEF PageTypes, Arrive
  <2>2. /\ Head(wire) \in RowName
        /\ Head(wire).seq \in 1 .. Len(lines[Head(wire).run])
    BY <2>1 DEF OnTheWire, Rows
  <2>3. ShownAreItsOwn'
    <3>1. CASE Head(wire).run # selected
      BY <1>4, <1>c, <3>1 DEF Arrive
    <3>2. CASE Head(wire).run = selected
      <4>1. selected \in LogRun
        BY <2>2, <3>2 DEF RowName
      <4>2. DOMAIN shown' = DOMAIN shown \cup {Head(wire).seq}
        BY <1>4, <3>2 DEF Arrive, Merged
      <4>3. \A s \in DOMAIN shown' : shown'[s] = IF s = Head(wire).seq THEN selected ELSE shown[s]
        BY <1>4, <3>2 DEF Arrive, Merged
      <4>4. selected' = selected /\ mixed' = mixed
        BY <1>4 DEF Arrive
      <4> QED BY <1>1, <2>2, <3>2, <4>1, <4>2, <4>3, <4>4 DEF ShownAreItsOwn, Rows
    <3> QED BY <3>1, <3>2
  <2> QED BY <1>4, <1>a, <1>b, <2>3 DEF Arrive
<1>5. ASSUME NEW r \in LogRun \cup {NoRun}, Select(r) PROVE OfThePage'
  <2>1. TailIsPast' /\ ShownAreItsOwn'
    BY <1>5 DEF Select, NoTail, Nowhere, TailIsPast, ShownAreItsOwn
  <2>2. ASSUME NEW e \in earlier PROVE [e EXCEPT !.late = TRUE].late
    BY DEF PageTypes
  <2>3. EarlierArePast'
    BY <1>5, <2>2 DEF Select, EarlierArePast
  <2> QED BY <2>1, <2>3
<1>6. CASE ServeTail
  <2>1. selected \in LogRun
    BY <1>6 DEF ServeTail, PageTypes
  <2>2. TailIsPast'
    BY <1>1, <1>6, <2>1 DEF ServeTail, TailIsPast, Rows, serverVars
  <2> QED BY <1>6, <1>b, <1>c, <2>2 DEF ServeTail
<1>7. CASE TailComes
  <2>1. selected \in LogRun /\ tail.at = "served"
    BY <1>2, <1>7 DEF TailComes
  <2>2. TailIsPast'
    BY <1>1, <1>7, <1>t, <2>1 DEF TailComes, TailIsPast, Rows, PageTypes
  <2>3. ShownAreItsOwn'
    <3>1. DOMAIN shown' = DOMAIN shown \cup Page(tail.upTo)
      BY <1>7 DEF TailComes, Merged
    <3>2. \A s \in DOMAIN shown' : shown'[s] = IF s \in Page(tail.upTo) THEN selected ELSE shown[s]
      BY <1>7 DEF TailComes, Merged
    <3>3. Page(tail.upTo) \subseteq 1 .. Rows(selected)
      BY <1>1, <1>p, <1>t, <2>1 DEF TailIsPast
    <3>4. selected' = selected /\ mixed' = mixed
      BY <1>7 DEF TailComes
    <3> QED BY <1>1, <2>1, <3>1, <3>2, <3>3, <3>4 DEF ShownAreItsOwn, Rows
  <2> QED BY <1>7, <1>b, <2>2, <2>3 DEF TailComes
<1>8. CASE AskEarlier
  <2>1. selected \in LogRun /\ Min(DOMAIN shown) \in DOMAIN shown
    BY <1>8, LeastOfSome DEF AskEarlier, PageTypes
  <2>2. ~mixed => Min(DOMAIN shown) <= Rows(selected)
    BY <1>1, <2>1 DEF ShownAreItsOwn, PageTypes
  <2>3. EarlierArePast'
    BY <1>1, <1>3, <1>8, <2>1, <2>2 DEF AskEarlier, EarlierArePast, Rows, serverVars
  <2> QED BY <1>8, <1>a, <1>c, <2>3 DEF AskEarlier
<1>9. ASSUME NEW e \in earlier, EarlierComes(e) PROVE OfThePage'
  <2>1. EarlierArePast'
    BY <1>1, <1>3, <1>9 DEF EarlierComes, EarlierArePast, Rows, serverVars
  <2>2. ShownAreItsOwn'
    <3>1. SUFFICES ASSUME selected # NoRun, ~mixed, ~e.late PROVE ShownAreItsOwn'
      BY <1>9 DEF EarlierComes, ShownAreItsOwn
    <3>2. e.run = selected /\ e.before <= Rows(selected) /\ selected \in LogRun
      BY <1>3, <3>1 DEF EarlierArePast
    <3>3. Page(e.before - 1) \subseteq 1 .. Rows(selected)
      BY <1>1, <1>3, <1>p, <3>2
    <3>4. DOMAIN shown' \subseteq DOMAIN shown \cup Page(e.before - 1)
      BY <1>9 DEF EarlierComes, Merged, Kept
    <3>5. \A s \in DOMAIN shown' : shown'[s] = IF s \in DOMAIN shown THEN shown[s] ELSE e.run
      BY <1>9 DEF EarlierComes
    <3> QED BY <1>1, <1>9, <3>1, <3>2, <3>3, <3>4, <3>5 DEF EarlierComes, ShownAreItsOwn, Rows
  <2> QED BY <1>9, <1>a, <2>1, <2>2 DEF EarlierComes
<1> QED
  BY <1>d, <1>4, <1>5, <1>6, <1>7, <1>8, <1>9
  DEF LogsNext, Say, Flush, InsertLine, CommitLine, EmitLine, WriteFails, Connect, Join, Disconnect,
      logVars, pageVars

\* Rows that the page shows are taken away only by a cut or with the selection.
LEMMA LastPageShownStep ==
  ASSUME PageTypes, LastPageShown, [LogsNext]_logVars
  PROVE  LastPageShown'
<1>1. ASSUME UNCHANGED <<tail, shown>>, hole => hole' PROVE LastPageShown'
  BY <1>1 DEF LastPageShown
<1>2. ASSUME NEW w \in writes, EmitLine(w) PROVE LastPageShown'
  BY <1>1, <1>2 DEF EmitLine, pageVars
<1>3. CASE Disconnect
  BY <1>1, <1>3 DEF Disconnect, pageVars
<1>4. CASE Arrive
  <2>1. DOMAIN shown \subseteq DOMAIN shown'
    BY <1>4 DEF Arrive, Merged
  <2> QED BY <1>4, <2>1 DEF Arrive, LastPageShown
<1>5. ASSUME NEW r \in LogRun \cup {NoRun}, Select(r) PROVE LastPageShown'
  BY <1>5 DEF Select, NoTail, LastPageShown
<1>6. CASE ServeTail
  BY <1>6 DEF ServeTail, LastPageShown
<1>7. CASE TailComes
  BY <1>7 DEF TailComes, Merged, LastPageShown, PageTypes
<1>8. ASSUME NEW e \in earlier, EarlierComes(e) PROVE LastPageShown'
  BY <1>8 DEF EarlierComes, Merged, LastPageShown
<1>9. ASSUME NEW r \in LogRun, Say(r) \/ Flush(r) PROVE LastPageShown'
  BY <1>1, <1>9 DEF Say, Flush, pageVars
<1>10. ASSUME NEW w \in writes, InsertLine(w) \/ CommitLine(w) \/ WriteFails(w) PROVE LastPageShown'
  BY <1>1, <1>10 DEF InsertLine, CommitLine, WriteFails, pageVars
<1>11. CASE Connect \/ Join \/ AskEarlier
  BY <1>1, <1>11 DEF Connect, Join, AskEarlier, pageVars
<1>12. CASE UNCHANGED logVars
  BY <1>1, <1>12 DEF logVars
<1> QED
  BY <1>2, <1>3, <1>4, <1>5, <1>6, <1>7, <1>8, <1>9, <1>10, <1>11, <1>12 DEF LogsNext

\* A row that is shown, on its way or about to be told stays so until the selection
\* changes or the page misses it; a new row is about to be told.
LEMMA RowsSinceStep ==
  ASSUME ServerTypes, PageTypes, Numbered, TailIsPast, RowsSince, [LogsNext]_logVars
  PROVE  RowsSince'
<1> DEFINE Waited(s) == s \in DOMAIN shown \/ Sent(selected, s) \/ ToBeTold(selected, s)
<1> USE LiveLogsAssumption
<1>1. \A r \in LogRun : Rows(r) \in Nat /\ Len(lines'[r]) \in Nat /\ Len(lines'[r]) >= Rows(r)
  BY RowsGrow DEF Rows
<1>2. tail.at \in {"served", "done"} => selected \in LogRun
  BY DEF PageTypes
<1>3. wire \in Seq(RowName)
  BY DEF PageTypes
<1>4. writes \subseteq WriteRecord
  BY DEF ServerTypes
<1>5. ASSUME UNCHANGED <<lines, selected>>,
             hole => hole',
             ~hole' /\ tail'.at \in {"served", "done"} =>
               /\ tail.at \in {"served", "done"} /\ tail'.upTo = tail.upTo
               /\ \A s \in Nat : Waited(s) => Waited(s)'
      PROVE  RowsSince'
  BY <1>5 DEF RowsSince, Rows
<1>6. ASSUME UNCHANGED <<lines, selected, tail, shown, wire, hole>>,
             \A w \in writes : w.at = "committed" => w \in writes'
      PROVE  RowsSince'
  BY <1>5, <1>6 DEF Sent, ToBeTold
<1>7. ASSUME NEW r \in LogRun, Say(r) \/ Flush(r) PROVE RowsSince'
  <2>1. writes \subseteq writes'
    BY <1>7 DEF Say, Flush
  <2> QED BY <1>6, <1>7, <2>1 DEF Say, Flush, pageVars
<1>8. ASSUME NEW w \in writes, InsertLine(w) \/ WriteFails(w) PROVE RowsSince'
  <2>1. w.at # "committed" /\ writes \ {w} \subseteq writes'
    BY <1>8 DEF InsertLine, WriteFails, Becomes
  <2> QED BY <1>6, <1>8, <2>1 DEF InsertLine, WriteFails, pageVars, serverVars
<1>9. ASSUME NEW w \in writes, CommitLine(w) PROVE RowsSince'
  <2>1. w.at # "committed" /\ writes \ {w} \subseteq writes'
    BY <1>9 DEF CommitLine, Becomes
  <2>2. UNCHANGED <<selected, tail, shown, wire, hole>>
    BY <1>9 DEF CommitLine, pageVars
  <2>3. \A s \in Nat : Waited(s) => Waited(s)'
    BY <2>1, <2>2 DEF Sent, ToBeTold
  <2>4. /\ \A r \in LogRun \ {w.run} : Rows(r)' = Rows(r)
        /\ w.seq # 0 => Rows(w.run)' = Rows(w.run) + 1 /\ w.seq = Rows(w.run) + 1
        /\ w.seq = 0 => UNCHANGED lines
    BY <1>9, CommitAddsRow
  <2>5. CASE w.seq = 0
    BY <1>6, <2>1, <2>2, <2>4, <2>5
  <2>6. CASE w.seq # 0
    <3> DEFINE told == [w EXCEPT !.at = "committed"]
    <3>1. told \in writes'
      BY <1>9, <2>6 DEF CommitLine, Becomes
    <3>2. told.run = w.run /\ told.seq = w.seq /\ told.at = "committed"
      BY <1>4 DEF WriteRecord
    <3> HIDE DEF told
    <3>3. ToBeTold(w.run, w.seq)'
      BY <3>1, <3>2 DEF ToBeTold
    <3>4. SUFFICES ASSUME ~hole', tail'.at \in {"served", "done"},
                          NEW s \in Nat, s > tail'.upTo, s <= Len(lines'[selected'])
                   PROVE  Waited(s)'
      BY DEF RowsSince, Rows
    <3>5. CASE s <= Rows(selected)
      BY <2>2, <2>3, <3>4, <3>5 DEF RowsSince
    <3>6. CASE s > Rows(selected)
      <4>1. selected \in LogRun /\ selected' = selected
        BY <1>2, <2>2, <3>4
      <4>2. selected = w.run /\ s = w.seq
        BY <1>1, <2>4, <2>6, <3>4, <3>6, <4>1 DEF Rows
      <4> QED BY <3>3, <4>1, <4>2
    <3> QED BY <1>1, <1>2, <2>2, <3>4, <3>5, <3>6
  <2> QED BY <2>5, <2>6
<1>10. ASSUME NEW w \in writes, EmitLine(w) PROVE RowsSince'
  <2> DEFINE name == [run |-> w.run, seq |-> w.seq]
  <2>1. writes' = writes \ {w} /\ UNCHANGED <<lines, selected, tail, shown>>
    BY <1>10 DEF EmitLine, serverVars, pageVars
  <2>2. name \in RowName
    BY <1>4 DEF WriteRecord, RowName
  <2>3. CASE wire' = Append(wire, name) /\ hole' = hole
    <3>1. ASSUME NEW s \in Nat, Waited(s) PROVE Waited(s)'
      <4>1. CASE s \in DOMAIN shown
        BY <2>1, <4>1
      <4>2. ASSUME NEW i \in 1 .. Len(wire), wire[i].run = selected, wire[i].seq = s PROVE Waited(s)'
        <5>1. i \in 1 .. Len(wire') /\ wire'[i] = wire[i]
          BY <1>3, <2>2, <2>3
        <5> QED BY <2>1, <4>2, <5>1 DEF Sent
      <4>3. ASSUME NEW x \in writes, x.run = selected, x.seq = s, x.at = "committed" PROVE Waited(s)'
        <5>1. CASE x = w
          <6>1. Len(wire) + 1 \in 1 .. Len(wire') /\ wire'[Len(wire) + 1] = name
            BY <1>3, <2>2, <2>3
          <6> QED BY <2>1, <4>3, <5>1, <6>1 DEF Sent
        <5>2. CASE x # w
          BY <2>1, <4>3, <5>2 DEF ToBeTold
        <5> QED BY <5>1, <5>2
      <4> QED BY <3>1, <4>1, <4>2, <4>3 DEF Sent, ToBeTold
    <3> QED BY <1>5, <2>1, <2>3, <3>1
  <2>4. CASE hole' = (hole \/ NotInTail(w.run)) /\ wire' = wire
    <3>1. ASSUME ~hole', tail'.at \in {"served", "done"}, NEW s \in Nat, Waited(s) PROVE Waited(s)'
      <4>1. w.run # selected
        BY <2>1, <2>4, <3>1 DEF NotInTail
      <4> QED BY <2>1, <2>4, <3>1, <4>1 DEF Sent, ToBeTold
    <3> QED BY <1>5, <2>1, <2>4, <3>1
  <2> QED BY <1>10, <2>3, <2>4 DEF EmitLine
<1>11. CASE Connect \/ Join
  BY <1>6, <1>11 DEF Connect, Join, serverVars, pageVars
<1>12. CASE Disconnect
  <2>1. UNCHANGED <<lines, selected, tail, shown, writes>>
    BY <1>12 DEF Disconnect, serverVars, pageVars
  <2>2. hole' = (hole \/ \E i \in DOMAIN wire : NotInTail(wire[i].run))
    BY <1>12 DEF Disconnect
  <2>3. ASSUME ~hole', tail'.at \in {"served", "done"}, NEW s \in Nat, Waited(s) PROVE Waited(s)'
    <3>1. \A i \in 1 .. Len(wire) : wire[i].run # selected
      <4>1. \A i \in DOMAIN wire : ~NotInTail(wire[i].run)
        BY <2>2, <2>3
      <4>2. DOMAIN wire = 1 .. Len(wire)
        BY <1>3
      <4> QED BY <2>1, <2>3, <4>1, <4>2 DEF NotInTail
    <3> QED BY <2>1, <2>3, <3>1 DEF Sent, ToBeTold
  <2> QED BY <1>5, <2>1, <2>2, <2>3
<1>13. CASE Arrive
  <2>1. UNCHANGED <<lines, selected, tail, writes, hole>> /\ wire # <<>> /\ wire' = Tail(wire)
    BY <1>13 DEF Arrive, serverVars
  <2>2. DOMAIN shown \subseteq DOMAIN shown'
    BY <1>13 DEF Arrive, Merged
  <2>3. ASSUME NEW s \in Nat, Waited(s) PROVE Waited(s)'
    <3>1. ASSUME NEW i \in 1 .. Len(wire), wire[i].run = selected, wire[i].seq = s PROVE Waited(s)'
      <4>1. CASE i = 1
        <5>1. Head(wire).run = selected /\ Head(wire).seq = s
          BY <1>3, <2>1, <3>1, <4>1
        <5> QED BY <1>13, <5>1 DEF Arrive, Merged
      <4>2. CASE i # 1
        <5>1. i - 1 \in 1 .. Len(wire') /\ wire'[i - 1] = wire[i]
          BY <1>3, <2>1, <4>2
        <5> QED BY <2>1, <3>1, <5>1 DEF Sent
      <4> QED BY <4>1, <4>2
    <3> QED BY <2>1, <2>2, <2>3, <3>1 DEF Sent, ToBeTold
  <2> QED BY <1>5, <2>1, <2>3
<1>14. ASSUME NEW r \in LogRun \cup {NoRun}, Select(r) PROVE RowsSince'
  BY <1>14 DEF Select, NoTail, RowsSince
<1>15. CASE ServeTail
  <2>1. selected \in LogRun /\ UNCHANGED <<lines, selected>> /\ tail'.upTo = Rows(selected)
    BY <1>15 DEF ServeTail, PageTypes, serverVars, Rows
  <2> QED BY <1>1, <2>1 DEF RowsSince, Rows
<1>16. CASE TailComes
  <2>1. /\ UNCHANGED <<lines, selected, writes, wire, hole>>
        /\ tail.at = "served" /\ tail'.upTo = tail.upTo
        /\ DOMAIN shown \subseteq DOMAIN shown'
    BY <1>16 DEF TailComes, Merged, serverVars, PageTypes
  <2> QED BY <1>5, <2>1 DEF Sent, ToBeTold
<1>17. CASE AskEarlier
  BY <1>6, <1>17 DEF AskEarlier, serverVars
<1>18. ASSUME NEW e \in earlier, EarlierComes(e) PROVE RowsSince'
  <2>1. /\ UNCHANGED <<lines, selected, writes, wire, tail>>
        /\ hole => hole'
        /\ ~hole' => DOMAIN shown \subseteq DOMAIN shown'
    BY <1>18 DEF EarlierComes, Merged, serverVars
  <2> QED BY <1>5, <2>1 DEF Sent, ToBeTold
<1>19. CASE UNCHANGED logVars
  BY <1>6, <1>19 DEF logVars
<1> QED
  BY <1>7, <1>8, <1>9, <1>10, <1>11, <1>12, <1>13, <1>14, <1>15, <1>16, <1>17, <1>18, <1>19
  DEF LogsNext

\* Nothing has been said and nothing is shown at the start.
LEMMA LogsStart ==
  ASSUME LogsInit
  PROVE  PageInv
<1> USE LiveLogsAssumption DEF LogsInit
<1>1. \A S : <<>> \in Seq(S)
  OBVIOUS
<1>2. ServerTypes
  BY <1>1 DEF ServerTypes
<1>3. PageTypes
  BY <1>1 DEF PageTypes, NoTail, Nowhere
<1>4. Numbered /\ LockHeldOnce
  BY DEF Numbered, LockHeldOnce
<1>5. OnTheWire
  BY DEF OnTheWire
<1>6. TailIsPast /\ EarlierArePast /\ ShownAreItsOwn /\ LastPageShown /\ RowsSince
  BY DEF TailIsPast, EarlierArePast, ShownAreItsOwn, LastPageShown, RowsSince, NoTail, Nowhere
<1> QED BY <1>2, <1>3, <1>4, <1>5, <1>6 DEF PageInv

\* The page shows the rows of the run selected, all of them from its last page on, but
\* where the model says that it missed one, for any numbers of runs, rows and failures.
THEOREM PageStands == LogsSpec => []PageFaithful
<1>1. LogsInit => PageInv
  BY LogsStart
<1>2. PageInv /\ [LogsNext]_logVars => PageInv'
  BY ServerTypesStep, PageTypesStep, NumberedStep, OnTheWireStep, OfThePageStep, LastPageShownStep,
     RowsSinceStep
  DEF PageInv, OfThePage
<1>3. PageInv => PageFaithful
  <2> SUFFICES ASSUME PageInv, selected # NoRun, ~mixed
               PROVE  /\ \A s \in DOMAIN shown : shown[s] = selected /\ s <= Len(lines[selected])
                      /\ ~hole /\ tail.at = "done" =>
                           \A s \in Page(tail.upTo) \cup tail.upTo + 1 .. Len(lines[selected]) :
                             \/ s \in DOMAIN shown
                             \/ \E i \in DOMAIN wire : wire[i] = [run |-> selected, seq |-> s]
                             \/ \E w \in writes : w.run = selected /\ w.seq = s /\ w.at = "committed"
    BY DEF PageFaithful
  <2>1. selected \in LogRun /\ Rows(selected) \in Nat /\ tail.upTo \in Nat
    BY DEF PageInv, PageTypes, ServerTypes, Rows
  <2>2. \A s \in DOMAIN shown : shown[s] = selected /\ s <= Len(lines[selected])
    BY <2>1 DEF PageInv, ShownAreItsOwn, Rows
  <2>3. ASSUME ~hole, tail.at = "done", NEW s \in tail.upTo + 1 .. Len(lines[selected])
        PROVE  \/ s \in DOMAIN shown
               \/ \E i \in DOMAIN wire : wire[i] = [run |-> selected, seq |-> s]
               \/ \E w \in writes : w.run = selected /\ w.seq = s /\ w.at = "committed"
    <3>1. s \in DOMAIN shown \/ Sent(selected, s) \/ ToBeTold(selected, s)
      BY <2>1, <2>3 DEF PageInv, RowsSince, Rows
    <3>2. ASSUME NEW i \in 1 .. Len(wire), wire[i].run = selected, wire[i].seq = s
          PROVE  i \in DOMAIN wire /\ wire[i] = [run |-> selected, seq |-> s]
      <4>1. wire \in Seq(RowName)
        BY DEF PageInv, PageTypes
      <4>2. i \in DOMAIN wire /\ wire[i] \in RowName
        BY <4>1
      <4> QED BY <3>2, <4>2 DEF RowName
    <3> QED BY <3>1, <3>2 DEF Sent, ToBeTold
  <2>4. ~hole /\ tail.at = "done" => Page(tail.upTo) \subseteq DOMAIN shown
    BY DEF PageInv, LastPageShown
  <2> QED BY <2>2, <2>3, <2>4
<1> QED BY <1>1, <1>2, <1>3, PTL DEF LogsSpec

-----------------------------------------------------------------------------
\* Where a piece of r is: the writes not committed, the rows and the places of the
\* bucket that hold it, and whether it was dropped.
InWrites(r, p) == {w \in writes : w.run = r /\ w.at # "committed" /\ p \in ToSet(w.text)}
InRows(r, p) == {j \in DOMAIN lines[r] : p \in ToSet(lines[r][j].text)}
InBucket(r, p) == {j \in DOMAIN bucket[r] : bucket[r][j] = p}
IsDropped(r, p) == p \in dropped[r]

\* It is in one of them, once.
Single(S) == \E x : S = {x}
OnePlace(W, R, B, d) ==
  \/ Single(W) /\ R = {} /\ B = {} /\ ~d
  \/ W = {} /\ Single(R) /\ B = {} /\ ~d
  \/ W = {} /\ R = {} /\ Single(B) /\ ~d
  \/ W = {} /\ R = {} /\ B = {} /\ d
InPlace(r, p) == OnePlace(InWrites(r, p), InRows(r, p), InBucket(r, p), IsDropped(r, p))
PiecesInPlace == \A r \in LogRun : \A p \in 1 .. said[r] : InPlace(r, p)

\* No piece is anywhere that has not been said.
PiecesSaid ==
  /\ \A w \in writes : ToSet(w.text) \subseteq 1 .. said[w.run]
  /\ \A r \in LogRun : /\ ToSet(bucket[r]) \subseteq 1 .. said[r]
                       /\ dropped[r] \subseteq 1 .. said[r]
                       /\ \A j \in 1 .. Rows(r) : ToSet(lines[r][j].text) \subseteq 1 .. said[r]

\* Past the cap, a write that has found a number and a row are admitted kinds.
CapHeld ==
  /\ \A w \in writes : w.at = "inserted" /\ w.seq > LineCap => w.kind = "status"
  /\ \A r \in LogRun : \A j \in 1 .. Rows(r) : j > LineCap => lines[r][j].kind = "status"

PieceInv == ServerTypes /\ PageTypes /\ Numbered /\ LockHeldOnce /\ PiecesSaid /\ PiecesInPlace /\ CapHeld

\* A piece that has a place has one place, as a set of places counts them.
LEMMA OnePlaceCounts ==
  ASSUME ServerTypes, NEW r \in LogRun, NEW p, InPlace(r, p)
  PROVE  Cardinality(PlacesOf(r, p)) = 1
<1> DEFINE W == {<<"write", w>> : w \in InWrites(r, p)}
           R == {<<"row", i>> : i \in InRows(r, p)}
           B == {<<"bucket", i>> : i \in InBucket(r, p)}
           D == {<<"dropped", p>> : d \in dropped[r] \cap {p}}
<1>1. PlacesOf(r, p) = W \cup R \cup B \cup D
  BY DEF PlacesOf, InWrites, InRows, InBucket
<1>2. \E x : PlacesOf(r, p) = {x}
  <2>1. CASE Single(InWrites(r, p)) /\ InRows(r, p) = {} /\ InBucket(r, p) = {} /\ ~IsDropped(r, p)
    <3>1. PICK w : InWrites(r, p) = {w}
      BY <2>1 DEF Single
    <3>2. W = {<<"write", w>>} /\ R = {} /\ B = {} /\ D = {}
      BY <2>1, <3>1 DEF IsDropped
    <3> QED BY <1>1, <3>2
  <2>2. CASE InWrites(r, p) = {} /\ Single(InRows(r, p)) /\ InBucket(r, p) = {} /\ ~IsDropped(r, p)
    <3>1. PICK i : InRows(r, p) = {i}
      BY <2>2 DEF Single
    <3>2. W = {} /\ R = {<<"row", i>>} /\ B = {} /\ D = {}
      BY <2>2, <3>1 DEF IsDropped
    <3> QED BY <1>1, <3>2
  <2>3. CASE InWrites(r, p) = {} /\ InRows(r, p) = {} /\ Single(InBucket(r, p)) /\ ~IsDropped(r, p)
    <3>1. PICK i : InBucket(r, p) = {i}
      BY <2>3 DEF Single
    <3>2. W = {} /\ R = {} /\ B = {<<"bucket", i>>} /\ D = {}
      BY <2>3, <3>1 DEF IsDropped
    <3> QED BY <1>1, <3>2
  <2>4. CASE InWrites(r, p) = {} /\ InRows(r, p) = {} /\ InBucket(r, p) = {} /\ IsDropped(r, p)
    <3>1. W = {} /\ R = {} /\ B = {} /\ D = {<<"dropped", p>>}
      BY <2>4 DEF IsDropped
    <3> QED BY <1>1, <3>1
  <2> QED BY <2>1, <2>2, <2>3, <2>4 DEF InPlace, OnePlace
<1> HIDE DEF W, R, B, D
<1> QED BY <1>2, FS_Singleton

\* The elements of a sequence.
LEMMA SetsOfSequences ==
  ASSUME NEW S
  PROVE  /\ ToSet(<<>>) = {}
         /\ \A x \in S : ToSet(<<x>>) = {x}
         /\ \A s \in Seq(S), x \in S : ToSet(Append(s, x)) = ToSet(s) \cup {x}
         /\ \A s \in Seq(S) : \A i \in 1 .. Len(s) : s[i] \in ToSet(s)
<1>1. ASSUME NEW s \in Seq(S), NEW x \in S PROVE ToSet(Append(s, x)) = ToSet(s) \cup {x}
  <2> DEFINE t == Append(s, x)
  <2>1. DOMAIN t = 1 .. Len(s) + 1 /\ DOMAIN s = 1 .. Len(s) /\ Len(s) \in Nat
    OBVIOUS
  <2>2. t[Len(s) + 1] = x /\ \A i \in 1 .. Len(s) : t[i] = s[i]
    OBVIOUS
  <2> HIDE DEF t
  <2>3. ToSet(t) = ToSet(s) \cup {x}
    BY <2>1, <2>2 DEF ToSet
  <2> QED BY <2>3 DEF t
<1>2. ToSet(<<>>) = {} /\ \A x \in S : ToSet(<<x>>) = {x}
  BY DEF ToSet
<1>3. \A s \in Seq(S) : \A i \in 1 .. Len(s) : s[i] \in ToSet(s)
  BY DEF ToSet
<1> QED BY <1>1, <1>2, <1>3

\* A piece that is nowhere: one that has not been said.
LEMMA UnsaidNowhere ==
  ASSUME ServerTypes, PiecesSaid, NEW r \in LogRun, NEW p \in Nat, p > said[r]
  PROVE  InWrites(r, p) = {} /\ InRows(r, p) = {} /\ InBucket(r, p) = {} /\ ~IsDropped(r, p)
<1>1. said[r] \in Nat /\ p \notin 1 .. said[r]
  BY DEF ServerTypes
<1>2. DOMAIN lines[r] = 1 .. Rows(r)
  BY DEF ServerTypes, Rows
<1>3. InWrites(r, p) = {}
  BY <1>1 DEF InWrites, PiecesSaid
<1>4. InRows(r, p) = {}
  BY <1>1, <1>2 DEF InRows, PiecesSaid
<1>5. InBucket(r, p) = {}
  BY <1>1 DEF InBucket, PiecesSaid, ToSet
<1>6. ~IsDropped(r, p)
  BY <1>1 DEF IsDropped, PiecesSaid
<1> QED BY <1>3, <1>4, <1>5, <1>6

\* A new write holds the pieces of its text.
LEMMA AddWrite ==
  ASSUME NEW w \in WriteRecord, w.at = "new", writes' = writes \cup {w}
  PROVE  \A q, p : InWrites(q, p)' = IF q = w.run /\ p \in ToSet(w.text)
                                     THEN InWrites(q, p) \cup {w} ELSE InWrites(q, p)
BY DEF InWrites

\* A piece of a write is in that write only.
LEMMA OfAWrite ==
  ASSUME ServerTypes, PiecesSaid, PiecesInPlace, NEW w \in writes, w.at # "committed",
         NEW p \in ToSet(w.text)
  PROVE  /\ InWrites(w.run, p) = {w} /\ InRows(w.run, p) = {} /\ InBucket(w.run, p) = {}
         /\ ~IsDropped(w.run, p)
<1>1. w.run \in LogRun /\ p \in 1 .. said[w.run]
  BY DEF ServerTypes, PiecesSaid, WriteRecord
<1>2. w \in InWrites(w.run, p)
  BY DEF InWrites
<1>3. InPlace(w.run, p)
  BY <1>1 DEF PiecesInPlace
<1>4. /\ Single(InWrites(w.run, p)) /\ InRows(w.run, p) = {} /\ InBucket(w.run, p) = {}
      /\ ~IsDropped(w.run, p)
  BY <1>2, <1>3 DEF InPlace, OnePlace
<1>5. InWrites(w.run, p) = {w}
  BY <1>2, <1>4 DEF Single
<1> QED BY <1>4, <1>5

\* A piece of the bucket is in the bucket only.
LEMMA OfTheBucket ==
  ASSUME ServerTypes, PiecesSaid, PiecesInPlace, NEW r \in LogRun, NEW p \in ToSet(bucket[r])
  PROVE  InWrites(r, p) = {} /\ InRows(r, p) = {} /\ InBucket(r, p) # {} /\ ~IsDropped(r, p)
<1>1. p \in 1 .. said[r]
  BY DEF PiecesSaid
<1>2. InBucket(r, p) # {}
  BY DEF InBucket, ToSet
<1> QED BY <1>1, <1>2 DEF PiecesInPlace, InPlace, OnePlace

\* Where no piece moves, every piece stays where it is.
LEMMA NoneMoves ==
  ASSUME PiecesSaid, PiecesInPlace, UNCHANGED <<said, bucket, lines, dropped>>,
         \A w \in writes' : w.at # "committed" => w \in writes,
         \A w \in writes : w.at # "committed" => w \in writes',
         \A w \in writes' : ToSet(w.text) \subseteq 1 .. said[w.run]
  PROVE  PiecesSaid' /\ PiecesInPlace'
<1>1. \A r, p : InWrites(r, p)' = InWrites(r, p)
  BY DEF InWrites
<1>2. \A r, p : InRows(r, p)' = InRows(r, p) /\ InBucket(r, p)' = InBucket(r, p)
                /\ (IsDropped(r, p)' <=> IsDropped(r, p))
  BY DEF InRows, InBucket, IsDropped
<1>3. \A r, p : InPlace(r, p) => InPlace(r, p)'
  BY <1>1, <1>2 DEF InPlace, OnePlace
<1> QED BY <1>3 DEF PiecesSaid, PiecesInPlace, Rows

\* The bucket becomes a write, with the piece just said if there is one.
LEMMA SayKeeps ==
  ASSUME ServerTypes, PiecesSaid, PiecesInPlace, NEW r \in LogRun, Say(r)
  PROVE  PiecesSaid' /\ PiecesInPlace'
<1> DEFINE piece == said[r] + 1
           full == Append(bucket[r], piece)
<1>1. said[r] \in Nat /\ bucket[r] \in Seq(Piece) /\ piece \in Piece /\ full \in Seq(Piece)
      /\ <<piece>> \in Seq(Piece)
  BY DEF ServerTypes, Piece
<1>2. /\ ToSet(full) = ToSet(bucket[r]) \cup {piece}
      /\ ToSet(<<piece>>) = {piece}
      /\ ToSet(<<>>) = {}
  BY <1>1, SetsOfSequences
<1>3. /\ UNCHANGED <<lines, dropped>>
      /\ said' = [said EXCEPT ![r] = piece]
      /\ \A q \in LogRun \ {r} : said'[q] = said[q] /\ bucket'[q] = bucket[q]
      /\ said'[r] = piece
  BY DEF Say, EmptiedBucket, ServerTypes
<1>4. \A p : InRows(r, p)' = InRows(r, p) /\ (IsDropped(r, p)' <=> IsDropped(r, p))
  BY <1>3 DEF InRows, IsDropped
<1>5. ASSUME NEW w \in WriteRecord, w.at = "new", w.run = r, writes' \subseteq writes \cup {w},
             ToSet(w.text) \subseteq 1 .. piece, ToSet(bucket'[r]) \subseteq 1 .. piece
      PROVE  PiecesSaid'
  <2>1. \A q \in LogRun : 1 .. said[q] \subseteq 1 .. said'[q]
    BY <1>1, <1>3
  <2>2. \A v \in writes : v.run \in LogRun
    BY DEF ServerTypes, WriteRecord
  <2>3. \A v \in writes' : ToSet(v.text) \subseteq 1 .. said'[v.run]
    BY <1>3, <1>5, <2>1, <2>2 DEF PiecesSaid
  <2>4. \A q \in LogRun : ToSet(bucket'[q]) \subseteq 1 .. said'[q]
    BY <1>3, <1>5 DEF PiecesSaid
  <2>5. \A q \in LogRun : /\ dropped'[q] \subseteq 1 .. said'[q]
                          /\ \A j \in 1 .. Len(lines'[q]) : ToSet(lines'[q][j].text) \subseteq 1 .. said'[q]
    BY <1>3, <2>1 DEF PiecesSaid, Rows
  <2> QED BY <2>3, <2>4, <2>5 DEF PiecesSaid, Rows
<1>6. ASSUME NEW q \in LogRun \ {r}, \A p : InWrites(q, p)' = InWrites(q, p), NEW p \in 1 .. said'[q]
      PROVE  InPlace(q, p)'
  <2>1. p \in 1 .. said[q]
    BY <1>3
  <2>2. InRows(q, p)' = InRows(q, p) /\ InBucket(q, p)' = InBucket(q, p)
        /\ (IsDropped(q, p)' <=> IsDropped(q, p))
    BY <1>3 DEF InRows, InBucket, IsDropped
  <2>3. InPlace(q, p)
    BY <2>1 DEF PiecesInPlace
  <2> QED BY <1>6, <2>2, <2>3 DEF InPlace, OnePlace
<1>7. InWrites(r, piece) = {} /\ InRows(r, piece) = {} /\ InBucket(r, piece) = {} /\ ~IsDropped(r, piece)
  <2>1. piece \in Nat /\ piece > said[r]
    BY <1>1
  <2> HIDE DEF piece
  <2> QED BY <2>1, UnsaidNowhere
<1>8. \A p \in 1 .. said'[r] : p = piece \/ (p # piece /\ p \in 1 .. said[r] /\ InPlace(r, p))
  BY <1>1, <1>3 DEF PiecesInPlace
<1>9. ToSet(bucket[r]) \subseteq 1 .. piece
  BY <1>1 DEF PiecesSaid
<1>d. DOMAIN full = 1 .. Len(bucket[r]) + 1 /\ DOMAIN bucket[r] = 1 .. Len(bucket[r]) /\ Len(bucket[r]) \in Nat
      /\ full[Len(bucket[r]) + 1] = piece /\ \A i \in 1 .. Len(bucket[r]) : full[i] = bucket[r][i]
  BY <1>1
<1>10. CASE bucket' = [bucket EXCEPT ![r] = full] /\ UNCHANGED writes
  <2>1. bucket'[r] = full
    BY <1>10 DEF ServerTypes
  <2>2. PiecesSaid'
    <3>1. ToSet(bucket'[r]) \subseteq 1 .. piece /\ 1 .. said[r] \subseteq 1 .. piece
      BY <1>1, <1>2, <1>9, <2>1
    <3>2. \A q \in LogRun : 1 .. said[q] \subseteq 1 .. said'[q]
      BY <1>1, <1>3
    <3>3. \A v \in writes : v.run \in LogRun
      BY DEF ServerTypes, WriteRecord
    <3>4. \A v \in writes' : ToSet(v.text) \subseteq 1 .. said'[v.run]
      BY <1>10, <3>2, <3>3 DEF PiecesSaid
    <3>5. \A q \in LogRun : ToSet(bucket'[q]) \subseteq 1 .. said'[q]
      BY <1>3, <3>1 DEF PiecesSaid
    <3>6. \A q \in LogRun : /\ dropped'[q] \subseteq 1 .. said'[q]
                            /\ \A j \in 1 .. Len(lines'[q]) : ToSet(lines'[q][j].text) \subseteq 1 .. said'[q]
      BY <1>3, <3>2 DEF PiecesSaid, Rows
    <3> QED BY <3>4, <3>5, <3>6 DEF PiecesSaid, Rows
  <2>3. \A q, p : InWrites(q, p)' = InWrites(q, p)
    BY <1>10 DEF InWrites
  <2> HIDE DEF piece, full
  <2>4. ASSUME NEW p \in 1 .. said'[r] PROVE InPlace(r, p)'
    <3>1. CASE p = piece
      <4>1. \A j \in 1 .. Len(bucket[r]) : bucket[r][j] # piece
        BY <1>7, <1>d DEF InBucket
      <4>2. InBucket(r, p)' = {Len(bucket[r]) + 1}
        BY <1>d, <2>1, <3>1, <4>1 DEF InBucket
      <4> QED BY <1>4, <1>7, <2>3, <3>1, <4>2 DEF InPlace, OnePlace, Single
    <3>2. CASE p # piece
      <4>1. InBucket(r, p)' = InBucket(r, p)
        BY <1>d, <2>1, <3>2 DEF InBucket
      <4> QED BY <1>4, <1>8, <2>3, <3>2, <4>1 DEF InPlace, OnePlace
    <3> QED BY <3>1, <3>2
  <2>5. PiecesInPlace'
    BY <1>6, <2>3, <2>4 DEF PiecesInPlace
  <2> QED BY <2>2, <2>5
<1>11. CASE writes' = writes \cup {Write(r, "text", full)} /\ EmptiedBucket(r)
  <2> DEFINE w == Write(r, "text", full)
  <2>1. w \in WriteRecord /\ w.at = "new" /\ w.run = r /\ w.text = full
    BY <1>1 DEF Write, WriteRecord, Kind
  <2>2. bucket'[r] = <<>>
    BY <1>11 DEF EmptiedBucket, ServerTypes
  <2>w. writes' = writes \cup {w}
    BY <1>11
  <2>p. piece \in 1 .. piece
    BY <1>1
  <2> HIDE DEF w, piece, full
  <2>3. PiecesSaid'
    BY <1>2, <1>5, <1>9, <2>1, <2>2, <2>w, <2>p
  <2>4. \A q, p : InWrites(q, p)' = IF q = r /\ p \in ToSet(full) THEN InWrites(q, p) \cup {w} ELSE InWrites(q, p)
    BY <2>1, <2>w, AddWrite
  <2>5. \A p : InBucket(r, p)' = {}
    BY <2>2 DEF InBucket
  <2>6. ASSUME NEW p \in 1 .. said'[r] PROVE InPlace(r, p)'
    <3>1. CASE p \in ToSet(full)
      <4>1. InWrites(r, p) = {} /\ InRows(r, p) = {} /\ ~IsDropped(r, p)
        BY <1>2, <1>7, <3>1, OfTheBucket
      <4> QED BY <1>4, <2>4, <2>5, <3>1, <4>1 DEF InPlace, OnePlace, Single
    <3>2. CASE p \notin ToSet(full)
      <4>1. p # piece /\ InBucket(r, p) = {}
        BY <1>2, <3>2 DEF InBucket, ToSet
      <4> QED BY <1>4, <1>8, <2>4, <2>5, <3>2, <4>1 DEF InPlace, OnePlace
    <3> QED BY <3>1, <3>2
  <2>7. PiecesInPlace'
    BY <1>6, <2>4, <2>6 DEF PiecesInPlace
  <2> QED BY <2>3, <2>7
<1>12. ASSUME NEW kind \in Kind, writes' = writes \cup {Write(r, kind, <<piece>>)}, UNCHANGED bucket
       PROVE  PiecesSaid' /\ PiecesInPlace'
  <2> DEFINE w == Write(r, kind, <<piece>>)
  <2>1. w \in WriteRecord /\ w.at = "new" /\ w.run = r /\ w.text = <<piece>>
    BY <1>1 DEF Write, WriteRecord
  <2>w. writes' = writes \cup {w} /\ bucket' = bucket
    BY <1>12
  <2>p. piece \in 1 .. piece
    BY <1>1
  <2> HIDE DEF w, piece, full
  <2>3. PiecesSaid'
    BY <1>2, <1>5, <1>9, <2>1, <2>w, <2>p
  <2>4. \A q, p : InWrites(q, p)' = IF q = r /\ p = piece THEN InWrites(q, p) \cup {w} ELSE InWrites(q, p)
    BY <1>2, <2>1, <2>w, AddWrite
  <2>5. \A p : InBucket(r, p)' = InBucket(r, p)
    BY <2>w DEF InBucket
  <2>6. ASSUME NEW p \in 1 .. said'[r] PROVE InPlace(r, p)'
    <3>1. CASE p = piece
      BY <1>4, <1>7, <2>4, <2>5, <3>1 DEF InPlace, OnePlace, Single
    <3>2. CASE p # piece
      BY <1>4, <1>8, <2>4, <2>5, <3>2 DEF InPlace, OnePlace
    <3> QED BY <3>1, <3>2
  <2>7. PiecesInPlace'
    BY <1>6, <2>4, <2>6 DEF PiecesInPlace
  <2> QED BY <2>3, <2>7
<1> QED BY <1>10, <1>11, <1>12 DEF Say

\* The bucket becomes a write.
LEMMA FlushKeeps ==
  ASSUME ServerTypes, PiecesSaid, PiecesInPlace, NEW r \in LogRun, Flush(r)
  PROVE  PiecesSaid' /\ PiecesInPlace'
<1> DEFINE w == Write(r, "text", bucket[r])
<1>1. w \in WriteRecord /\ w.at = "new" /\ w.run = r /\ w.text = bucket[r]
  BY DEF Write, WriteRecord, Kind, ServerTypes
<1>2. writes' = writes \cup {w} /\ UNCHANGED <<said, lines, dropped>>
  BY DEF Flush
<1>3. bucket'[r] = <<>> /\ \A q \in LogRun \ {r} : bucket'[q] = bucket[q]
  BY DEF Flush, EmptiedBucket, ServerTypes
<1>4. ToSet(<<>>) = {}
  BY SetsOfSequences
<1> HIDE DEF w
<1>5. PiecesSaid'
  BY <1>1, <1>2, <1>3, <1>4 DEF PiecesSaid, Rows
<1>6. \A q, p : InWrites(q, p)' = IF q = r /\ p \in ToSet(bucket[r]) THEN InWrites(q, p) \cup {w} ELSE InWrites(q, p)
  BY <1>1, <1>2, AddWrite
<1>7. \A q, p : InRows(q, p)' = InRows(q, p) /\ (IsDropped(q, p)' <=> IsDropped(q, p))
  BY <1>2 DEF InRows, IsDropped
<1>8. ASSUME NEW q \in LogRun, NEW p \in 1 .. said[q] PROVE InPlace(q, p)'
  <2>1. InPlace(q, p)
    BY DEF PiecesInPlace
  <2>2. CASE q # r
    <3>1. InBucket(q, p)' = InBucket(q, p)
      BY <1>3, <2>2 DEF InBucket
    <3> QED BY <1>6, <1>7, <2>1, <2>2, <3>1 DEF InPlace, OnePlace
  <2>3. CASE q = r
    <3>1. InBucket(q, p)' = {}
      BY <1>3, <2>3 DEF InBucket
    <3>2. CASE p \in ToSet(bucket[r])
      <4>1. InWrites(r, p) = {} /\ InRows(r, p) = {} /\ ~IsDropped(r, p)
        BY <3>2, OfTheBucket
      <4> QED BY <1>6, <1>7, <2>3, <3>1, <3>2, <4>1 DEF InPlace, OnePlace, Single
    <3>3. CASE p \notin ToSet(bucket[r])
      <4>1. InBucket(r, p) = {}
        BY <3>3 DEF InBucket, ToSet
      <4> QED BY <1>6, <1>7, <2>1, <2>3, <3>1, <3>3, <4>1 DEF InPlace, OnePlace
    <3> QED BY <3>2, <3>3
  <2> QED BY <2>2, <2>3
<1> QED BY <1>2, <1>5, <1>8 DEF PiecesInPlace

\* A write that ends leaves its pieces to a row or to those dropped.
LEMMA WriteLeaves ==
  ASSUME ServerTypes, PiecesSaid, PiecesInPlace, UNCHANGED <<said, bucket>>,
         NEW w \in writes, w.at # "committed",
         \A v \in writes' : v.at # "committed" => v \in writes \ {w},
         writes \ {w} \subseteq writes',
         \A v \in writes' : ToSet(v.text) \subseteq 1 .. said[v.run],
         \A q \in LogRun : \A p : q # w.run \/ p \notin ToSet(w.text) =>
            InRows(q, p)' = InRows(q, p) /\ (IsDropped(q, p)' <=> IsDropped(q, p)),
         \A p \in ToSet(w.text) :
            \/ InRows(w.run, p)' = {} /\ IsDropped(w.run, p)'
            \/ Single(InRows(w.run, p)') /\ ~IsDropped(w.run, p)'
  PROVE  PiecesInPlace'
<1>1. \A q, p : InWrites(q, p)' = InWrites(q, p) \ {w}
  BY DEF InWrites
<1>2. \A q, p : InBucket(q, p)' = InBucket(q, p)
  BY DEF InBucket
<1>3. ASSUME NEW q \in LogRun, NEW p \in 1 .. said[q] PROVE InPlace(q, p)'
  <2>1. InPlace(q, p)
    BY DEF PiecesInPlace
  <2>2. CASE q = w.run /\ p \in ToSet(w.text)
    <3>1. InWrites(q, p) = {w} /\ InBucket(q, p) = {}
      BY <2>2, OfAWrite
    <3> QED BY <1>1, <1>2, <2>2, <3>1 DEF InPlace, OnePlace
  <2>3. CASE q # w.run \/ p \notin ToSet(w.text)
    <3>1. w \notin InWrites(q, p)
      BY <2>3 DEF InWrites
    <3>2. InWrites(q, p)' = InWrites(q, p)
      BY <1>1, <3>1
    <3>3. InRows(q, p)' = InRows(q, p) /\ (IsDropped(q, p)' <=> IsDropped(q, p))
      BY <2>3
    <3> QED BY <1>2, <2>1, <3>2, <3>3 DEF InPlace, OnePlace
  <2> QED BY <2>2, <2>3
<1> QED BY <1>3 DEF PiecesInPlace

\* A write that finds its number keeps its pieces, ...
LEMMA InsertKeeps ==
  ASSUME ServerTypes, PiecesSaid, PiecesInPlace, NEW w \in writes, InsertLine(w)
  PROVE  PiecesSaid' /\ PiecesInPlace'
<1> DEFINE new == [w EXCEPT !.at = "inserted", !.seq = IF Admitted(w) THEN Len(lines[w.run]) + 1 ELSE 0]
<1>1. w \in WriteRecord
  BY DEF ServerTypes
<1>2. new.at = "inserted" /\ new.run = w.run /\ new.text = w.text /\ w.at = "new"
  BY <1>1 DEF WriteRecord, InsertLine
<1>3. writes' = (writes \ {w}) \cup {new} /\ UNCHANGED <<said, bucket, lines, dropped>>
  BY DEF InsertLine, Becomes, serverVars
<1> HIDE DEF new
<1>4. PiecesSaid'
  BY <1>2, <1>3 DEF PiecesSaid, Rows
<1>5. \A q, p : InRows(q, p)' = InRows(q, p) /\ InBucket(q, p)' = InBucket(q, p)
                /\ (IsDropped(q, p)' <=> IsDropped(q, p))
  BY <1>3 DEF InRows, InBucket, IsDropped
<1>6. ASSUME NEW q \in LogRun, NEW p \in 1 .. said[q] PROVE InPlace(q, p)'
  <2>1. InPlace(q, p)
    BY DEF PiecesInPlace
  <2>2. CASE q = w.run /\ p \in ToSet(w.text)
    <3>1. /\ InWrites(q, p) = {w} /\ InRows(q, p) = {} /\ InBucket(q, p) = {}
          /\ ~IsDropped(q, p)
      BY <1>2, <2>2, OfAWrite
    <3>2. InWrites(q, p)' = {new}
      BY <1>2, <1>3, <2>2, <3>1 DEF InWrites
    <3> QED BY <1>5, <3>1, <3>2 DEF InPlace, OnePlace, Single
  <2>3. CASE q # w.run \/ p \notin ToSet(w.text)
    <3>1. InWrites(q, p)' = InWrites(q, p)
      BY <1>2, <1>3, <2>3 DEF InWrites
    <3> QED BY <1>5, <2>1, <3>1 DEF InPlace, OnePlace
  <2> QED BY <2>2, <2>3
<1> QED BY <1>3, <1>4, <1>6 DEF PiecesInPlace

\* ... one that fails or is refused drops them, ...
LEMMA FailKeeps ==
  ASSUME ServerTypes, PiecesSaid, PiecesInPlace, NEW w \in writes, w.at # "committed",
         writes' = writes \ {w}, Drop(w), UNCHANGED <<said, bucket, lines>>
  PROVE  PiecesSaid' /\ PiecesInPlace'
<1>1. w.run \in LogRun /\ ToSet(w.text) \subseteq 1 .. said[w.run]
  BY DEF ServerTypes, PiecesSaid, WriteRecord
<1>2. \A q \in LogRun : dropped'[q] = IF q = w.run THEN dropped[q] \cup ToSet(w.text) ELSE dropped[q]
  BY <1>1 DEF Drop, ServerTypes
<1>3. PiecesSaid'
  BY <1>1, <1>2 DEF PiecesSaid, Rows
<1>4. \A q \in LogRun : \A p : q # w.run \/ p \notin ToSet(w.text) =>
        InRows(q, p)' = InRows(q, p) /\ (IsDropped(q, p)' <=> IsDropped(q, p))
  BY <1>2 DEF InRows, IsDropped
<1>5. \A p \in ToSet(w.text) : InRows(w.run, p)' = {} /\ IsDropped(w.run, p)'
  <2>1. ASSUME NEW p \in ToSet(w.text) PROVE InRows(w.run, p) = {}
    BY OfAWrite
  <2> QED BY <1>1, <1>2, <2>1 DEF InRows, IsDropped
<1>6. PiecesInPlace'
  BY <1>3, <1>4, <1>5, WriteLeaves DEF PiecesSaid
<1> QED BY <1>3, <1>6

\* ... and one that commits leaves them in its row.
LEMMA CommitKeeps ==
  ASSUME ServerTypes, PiecesSaid, PiecesInPlace, NEW w \in writes, CommitLine(w)
  PROVE  PiecesSaid' /\ PiecesInPlace'
<1>1. w \in WriteRecord /\ w.at = "inserted" /\ w.run \in LogRun /\ UNCHANGED <<said, bucket>>
  BY DEF CommitLine, ServerTypes, WriteRecord
<1>2. CASE w.seq = 0
  BY <1>1, <1>2, FailKeeps DEF CommitLine
<1>3. CASE w.seq # 0
  <2> DEFINE row == [kind |-> w.kind, text |-> w.text]
             new == [w EXCEPT !.at = "committed"]
             n == Len(lines[w.run])
  <2>1. new.at = "committed" /\ new.run = w.run /\ new.text = w.text
    BY <1>1 DEF WriteRecord
  <2>2. row \in Row /\ row.text = w.text
    BY <1>1 DEF WriteRecord, Row
  <2>3. /\ writes' = (writes \ {w}) \cup {new}
        /\ lines' = [lines EXCEPT ![w.run] = Append(@, row)]
        /\ dropped' = dropped
    BY <1>3 DEF CommitLine, Becomes
  <2>4. /\ \A q \in LogRun \ {w.run} : lines'[q] = lines[q]
        /\ lines'[w.run] = Append(lines[w.run], row)
        /\ lines[w.run] \in Seq(Row)
    BY <1>1, <2>3 DEF ServerTypes
  <2> HIDE DEF row
  <2>5. /\ n \in Nat /\ Len(lines'[w.run]) = n + 1
        /\ DOMAIN lines'[w.run] = 1 .. n + 1 /\ DOMAIN lines[w.run] = 1 .. n
        /\ lines'[w.run][n + 1] = row
        /\ \A j \in 1 .. n : lines'[w.run][j] = lines[w.run][j]
    BY <2>2, <2>4
  <2> HIDE DEF new, n
  <2>6. ToSet(w.text) \subseteq 1 .. said[w.run]
    BY DEF PiecesSaid
  <2>n. n = Len(lines[w.run])
    BY DEF n
  <2>7. PiecesSaid'
    <3>1. \A v \in writes' : ToSet(v.text) \subseteq 1 .. said'[v.run]
      BY <1>1, <2>1, <2>3, <2>6 DEF PiecesSaid
    <3>2. ASSUME NEW q \in LogRun, NEW j \in 1 .. Len(lines'[q])
          PROVE  ToSet(lines'[q][j].text) \subseteq 1 .. said'[q]
      <4>1. CASE q # w.run
        BY <1>1, <2>4, <4>1 DEF PiecesSaid, Rows
      <4>2. CASE q = w.run /\ j = n + 1
        BY <1>1, <2>2, <2>5, <2>6, <4>2
      <4>3. CASE q = w.run /\ j # n + 1
        <5>1. j \in 1 .. Len(lines[q]) /\ lines'[q][j] = lines[q][j]
          BY <2>5, <2>n, <4>3
        <5> QED BY <1>1, <5>1 DEF PiecesSaid, Rows
      <4> QED BY <4>1, <4>2, <4>3
    <3> QED BY <1>1, <2>3, <3>1, <3>2 DEF PiecesSaid, Rows
  <2>8. ASSUME NEW q \in LogRun, NEW p, q # w.run \/ p \notin ToSet(w.text)
        PROVE  InRows(q, p)' = InRows(q, p) /\ (IsDropped(q, p)' <=> IsDropped(q, p))
    <3>1. CASE q # w.run
      BY <2>3, <2>4, <3>1 DEF InRows, IsDropped
    <3>2. CASE q = w.run
      <4>1. p \notin ToSet(row.text)
        BY <2>2, <2>8, <3>2
      <4>2. InRows(q, p)' = InRows(q, p)
        BY <2>5, <3>2, <4>1 DEF InRows
      <4> QED BY <2>3, <4>2 DEF IsDropped
    <3> QED BY <3>1, <3>2
  <2>9. ASSUME NEW p \in ToSet(w.text)
        PROVE  Single(InRows(w.run, p)') /\ ~IsDropped(w.run, p)'
    <3>1. InRows(w.run, p) = {} /\ ~IsDropped(w.run, p)
      BY <1>1, OfAWrite
    <3>2. InRows(w.run, p)' = {n + 1}
      <4>1. \A j \in 1 .. n : p \notin ToSet(lines[w.run][j].text)
        BY <2>5, <3>1 DEF InRows
      <4>2. p \in ToSet(row.text)
        BY <2>2
      <4>3. ASSUME NEW j \in 1 .. n + 1 PROVE p \in ToSet(lines'[w.run][j].text) <=> j = n + 1
        <5>1. CASE j = n + 1
          BY <2>5, <4>2, <5>1
        <5>2. CASE j # n + 1
          <6>1. j \in 1 .. n
            BY <2>5, <5>2
          <6> QED BY <2>5, <4>1, <5>2, <6>1
        <5> QED BY <5>1, <5>2
      <4>4. InRows(w.run, p)' = {j \in 1 .. n + 1 : p \in ToSet(lines'[w.run][j].text)}
        BY <2>5 DEF InRows
      <4> QED BY <2>5, <4>3, <4>4
    <3> QED BY <2>3, <3>1, <3>2 DEF Single, IsDropped
  <2>10. PiecesInPlace'
    <3>1. \A v \in writes' : v.at # "committed" => v \in writes \ {w}
      BY <2>1, <2>3
    <3>2. \A v \in writes' : ToSet(v.text) \subseteq 1 .. said[v.run]
      BY <1>1, <2>7 DEF PiecesSaid
    <3> QED BY <1>1, <2>3, <2>8, <2>9, <3>1, <3>2, WriteLeaves
  <2> QED BY <2>7, <2>10
<1> QED BY <1>2, <1>3

\* One step per statement of the log.
LEMMA PiecesStep ==
  ASSUME ServerTypes, PiecesSaid, PiecesInPlace, [LogsNext]_logVars
  PROVE  PiecesSaid' /\ PiecesInPlace'
<1>1. ASSUME NEW w \in writes, EmitLine(w) PROVE PiecesSaid' /\ PiecesInPlace'
  <2>1. /\ writes' = writes \ {w} /\ w.at = "committed"
        /\ UNCHANGED <<said, bucket, lines, dropped>>
    BY <1>1 DEF EmitLine, serverVars
  <2>2. \A v \in writes' : ToSet(v.text) \subseteq 1 .. said[v.run]
    BY <2>1 DEF PiecesSaid
  <2> QED BY <2>1, <2>2, NoneMoves
<1>2. ASSUME NEW w \in writes, WriteFails(w) PROVE PiecesSaid' /\ PiecesInPlace'
  BY <1>2, FailKeeps DEF WriteFails
<1>3. ASSUME UNCHANGED <<said, bucket, lines, dropped, writes>> PROVE PiecesSaid' /\ PiecesInPlace'
  BY <1>3, NoneMoves DEF PiecesSaid
<1>4. CASE Connect \/ Join \/ Disconnect \/ Arrive \/ ServeTail \/ TailComes \/ AskEarlier
  BY <1>3, <1>4 DEF Connect, Join, Disconnect, Arrive, ServeTail, TailComes, AskEarlier, serverVars
<1>5. ASSUME NEW r \in LogRun \cup {NoRun}, Select(r) PROVE PiecesSaid' /\ PiecesInPlace'
  BY <1>3, <1>5 DEF Select, serverVars
<1>6. ASSUME NEW e \in earlier, EarlierComes(e) PROVE PiecesSaid' /\ PiecesInPlace'
  BY <1>3, <1>6 DEF EarlierComes, serverVars
<1>7. CASE UNCHANGED logVars
  BY <1>3, <1>7 DEF logVars
<1>8. ASSUME NEW r \in LogRun, Say(r) \/ Flush(r) PROVE PiecesSaid' /\ PiecesInPlace'
  BY <1>8, SayKeeps, FlushKeeps
<1>9. ASSUME NEW w \in writes, InsertLine(w) \/ CommitLine(w) PROVE PiecesSaid' /\ PiecesInPlace'
  BY <1>9, InsertKeeps, CommitKeeps
<1> QED BY <1>1, <1>2, <1>4, <1>5, <1>6, <1>7, <1>8, <1>9 DEF LogsNext

\* A number past the cap is found by status and errors only, and the row has it.
LEMMA CapStep ==
  ASSUME ServerTypes, Numbered, CapHeld, [LogsNext]_logVars
  PROVE  CapHeld'
<1> USE LiveLogsAssumption
<1>1. \A r \in LogRun : lines[r] \in Seq(Row) /\ Rows(r) \in Nat
  BY DEF ServerTypes, Rows
<1>2. ASSUME UNCHANGED lines,
             \A w \in writes' : w.at = "inserted" /\ w.seq > LineCap => w.kind = "status"
      PROVE  CapHeld'
  BY <1>2 DEF CapHeld, Rows
<1>3. ASSUME UNCHANGED lines, \A w \in writes' : w.at = "inserted" => w \in writes PROVE CapHeld'
  BY <1>2, <1>3 DEF CapHeld
<1>4. ASSUME NEW w \in writes, InsertLine(w) PROVE CapHeld'
  <2> DEFINE new == [w EXCEPT !.at = "inserted", !.seq = IF Admitted(w) THEN Len(lines[w.run]) + 1 ELSE 0]
  <2>1. w \in WriteRecord /\ w.run \in LogRun
    BY DEF ServerTypes, WriteRecord
  <2>2. new.seq = (IF Admitted(w) THEN Rows(w.run) + 1 ELSE 0) /\ new.kind = w.kind
    BY <2>1 DEF WriteRecord, Rows
  <2>3. writes' = (writes \ {w}) \cup {new} /\ lines' = lines
    BY <1>4 DEF InsertLine, Becomes, serverVars
  <2> HIDE DEF new
  <2>4. new.seq > LineCap => new.kind = "status"
    BY <1>1, <2>1, <2>2 DEF Admitted, Rows
  <2> QED BY <1>2, <2>3, <2>4 DEF CapHeld
<1>5. ASSUME NEW w \in writes, CommitLine(w) PROVE CapHeld'
  <2>1. w \in WriteRecord /\ w.run \in LogRun /\ w.at = "inserted"
    BY <1>5 DEF ServerTypes, WriteRecord, CommitLine
  <2>2. CASE w.seq = 0
    BY <1>3, <1>5, <2>2 DEF CommitLine
  <2>3. CASE w.seq # 0
    <3> DEFINE row == [kind |-> w.kind, text |-> w.text]
    <3>1. row \in Row /\ row.kind = w.kind
      BY <2>1 DEF WriteRecord, Row
    <3>2. /\ \A q \in LogRun \ {w.run} : lines'[q] = lines[q]
          /\ lines'[w.run] = Append(lines[w.run], row)
          /\ writes' = (writes \ {w}) \cup {[w EXCEPT !.at = "committed"]}
      BY <1>5, <2>1, <2>3 DEF CommitLine, Becomes, ServerTypes
    <3>3. [w EXCEPT !.at = "committed"].at = "committed"
      BY <2>1 DEF WriteRecord
    <3>4. w.seq = Rows(w.run) + 1
      BY <2>1, <2>3 DEF Numbered
    <3>5. w.seq > LineCap => w.kind = "status"
      BY <2>1 DEF CapHeld
    <3> HIDE DEF row
    <3>6. ASSUME NEW q \in LogRun, NEW j \in 1 .. Len(lines'[q]), j > LineCap
          PROVE  lines'[q][j].kind = "status"
      <4>1. CASE q # w.run
        BY <3>2, <3>6, <4>1 DEF CapHeld, Rows
      <4>2. CASE q = w.run
        <5>1. Len(lines'[q]) = Rows(q) + 1 /\ lines'[q][Rows(q) + 1] = row
              /\ \A i \in 1 .. Rows(q) : lines'[q][i] = lines[q][i]
          <6>1. lines[q] \in Seq(Row) /\ lines'[q] = Append(lines[q], row) /\ row \in Row
            BY <1>1, <3>1, <3>2, <4>2
          <6> QED BY <6>1 DEF Rows
        <5>2. CASE j = Rows(q) + 1
          BY <3>1, <3>4, <3>5, <3>6, <4>2, <5>1, <5>2
        <5>3. CASE j # Rows(q) + 1
          <6>1. j \in 1 .. Rows(q)
            BY <1>1, <5>1, <5>3
          <6> QED BY <3>6, <5>1, <6>1 DEF CapHeld
        <5> QED BY <5>2, <5>3
      <4> QED BY <4>1, <4>2
    <3> QED BY <3>2, <3>3, <3>6 DEF CapHeld, Rows
  <2> QED BY <2>2, <2>3
<1>6. ASSUME NEW w \in writes, EmitLine(w) \/ WriteFails(w) PROVE CapHeld'
  BY <1>3, <1>6 DEF EmitLine, WriteFails, serverVars
<1>7. ASSUME NEW r \in LogRun, Say(r) PROVE CapHeld'
  <2>1. PICK w \in WriteRecord : w.at = "new" /\ w.run = r /\ writes' \subseteq writes \cup {w}
    BY <1>7, SayWrites
  <2> QED BY <1>3, <1>7, <2>1 DEF Say
<1>8. ASSUME NEW r \in LogRun, Flush(r) PROVE CapHeld'
  BY <1>3, <1>8 DEF Flush, Write
<1>9. CASE Connect \/ Join \/ Disconnect \/ Arrive \/ ServeTail \/ TailComes \/ AskEarlier
  BY <1>3, <1>9 DEF Connect, Join, Disconnect, Arrive, ServeTail, TailComes, AskEarlier, serverVars
<1>10. ASSUME NEW r \in LogRun \cup {NoRun}, Select(r) PROVE CapHeld'
  BY <1>3, <1>10 DEF Select, serverVars
<1>11. ASSUME NEW e \in earlier, EarlierComes(e) PROVE CapHeld'
  BY <1>3, <1>11 DEF EarlierComes, serverVars
<1>12. CASE UNCHANGED logVars
  BY <1>3, <1>12 DEF logVars
<1> QED BY <1>4, <1>5, <1>6, <1>7, <1>8, <1>9, <1>10, <1>11, <1>12 DEF LogsNext

\* A piece that a run has said is in one place, once, for any numbers of runs and pieces,
\* and past the cap there are only rows that it admits.
THEOREM PiecesStand == LogsSpec => []EveryPieceOnce
<1>1. LogsInit => PieceInv
  <2> SUFFICES ASSUME LogsInit PROVE PieceInv
    OBVIOUS
  <2> USE LiveLogsAssumption DEF LogsInit
  <2>1. ServerTypes /\ PageTypes /\ Numbered /\ LockHeldOnce
    BY LogsStart DEF PageInv
  <2>2. PiecesSaid
    BY DEF PiecesSaid, Rows, ToSet
  <2>3. PiecesInPlace
    BY DEF PiecesInPlace
  <2>4. CapHeld
    BY DEF CapHeld, Rows
  <2> QED BY <2>1, <2>2, <2>3, <2>4 DEF PieceInv
<1>2. PieceInv /\ [LogsNext]_logVars => PieceInv'
  BY ServerTypesStep, PageTypesStep, NumberedStep, PiecesStep, CapStep DEF PieceInv
<1>3. PieceInv => EveryPieceOnce
  <2> SUFFICES ASSUME PieceInv PROVE EveryPieceOnce
    OBVIOUS
  <2>1. \A r \in LogRun : \A p \in 1 .. said[r] : Cardinality(PlacesOf(r, p)) = 1
    BY OnePlaceCounts DEF PieceInv, PiecesInPlace
  <2>2. \A r \in LogRun : \A i \in DOMAIN lines[r] : i > LineCap => lines[r][i].kind = "status"
    BY DEF PieceInv, CapHeld, ServerTypes, Rows
  <2> QED BY <2>1, <2>2 DEF EveryPieceOnce
<1> QED BY <1>1, <1>2, <1>3, PTL DEF LogsSpec

-----------------------------------------------------------------------------
(***************************************************************************)
(* SchedulePlanning: the working calendar.                                 *)
(***************************************************************************)
\* The day of a moment, and its hours.
LEMMA DayOfMoment ==
  ASSUME NEW t \in Nat
  PROVE  LET day == DayOf(t)
         IN  /\ day \in Nat /\ OpenOf(day) \in Nat /\ CloseOf(day) \in Nat
             /\ OpenOf(day) < CloseOf(day) /\ CloseOf(day) <= OpenOf(day + 1)
             /\ OpenOf(day + 1) \in Nat /\ t < OpenOf(day + 1) /\ DayOf(OpenOf(day + 1)) = day + 1
             /\ \A u \in Nat : t <= u /\ u < OpenOf(day + 1) =>
                  DayOf(u) = day \/ (DayOf(u) = day + 1 /\ u < OpenOf(DayOf(u)))
             /\ \A u \in Nat : t <= u /\ u < CloseOf(day) => DayOf(u) = day
<1> DEFINE day == DayOf(t)
<1>1. DayLength \in Nat /\ DayLength > 0 /\ Open \in Nat /\ Close \in Nat /\ Open < Close /\ Close <= DayLength
  BY PlanningAssumption
<1>2. \A u \in Nat : DayOf(u) \in Nat /\ DayOf(u) * DayLength <= u /\ u < DayOf(u) * DayLength + DayLength
  BY <1>1 DEF DayOf
<1>3. \A u, e \in Nat : e * DayLength <= u /\ u < e * DayLength + DayLength => DayOf(u) = e
  BY <1>1 DEF DayOf
<1>4. (day + 1) * DayLength = day * DayLength + DayLength /\ day * DayLength \in Nat /\ day \in Nat
  BY <1>1, <1>2
<1>5. PICK start : start = day * DayLength /\ start \in Nat
  BY <1>4
<1>6. start <= t /\ t < start + DayLength
  BY <1>2, <1>5
<1>7. OpenOf(day) = start + Open /\ CloseOf(day) = start + Close /\ OpenOf(day + 1) = start + DayLength + Open
  BY <1>4, <1>5 DEF OpenOf, CloseOf
<1>8. DayOf(start + DayLength + Open) = day + 1
  BY <1>1, <1>3, <1>4, <1>5
<1>9. ASSUME NEW u \in Nat, t <= u, u < start + DayLength PROVE DayOf(u) = day
  BY <1>3, <1>4, <1>5, <1>6, <1>9
<1>10. ASSUME NEW u \in Nat, start + DayLength <= u, u < start + DayLength + Open
       PROVE  DayOf(u) = day + 1
  BY <1>1, <1>3, <1>4, <1>5, <1>10
<1> HIDE DEF day
<1>11. \A u \in Nat : t <= u /\ u < OpenOf(day + 1) =>
                  DayOf(u) = day \/ (DayOf(u) = day + 1 /\ u < OpenOf(DayOf(u)))
  <2> SUFFICES ASSUME NEW u \in Nat, t <= u, u < OpenOf(day + 1)
               PROVE  DayOf(u) = day \/ (DayOf(u) = day + 1 /\ u < OpenOf(DayOf(u)))
    OBVIOUS
  <2>1. u < start + DayLength \/ start + DayLength <= u
    BY <1>1, <1>5
  <2>2. CASE start + DayLength <= u
    <3>1. DayOf(u) = day + 1 /\ u < start + DayLength + Open
      BY <1>7, <1>10, <2>2
    <3> QED BY <1>7, <3>1
  <2>3. CASE u < start + DayLength
    <3>1. DayOf(u) = day
      BY <1>9, <2>3
    <3> QED BY <3>1
  <2> QED BY <2>1, <2>2, <2>3
<1>12. \A u \in Nat : t <= u /\ u < CloseOf(day) => DayOf(u) = day
  BY <1>1, <1>5, <1>7, <1>9
<1> QED BY <1>1, <1>4, <1>5, <1>6, <1>7, <1>8, <1>11, <1>12 DEF day

-----------------------------------------------------------------------------
Units(a, b) == {u \in a .. b - 1 : IsWorkingUnit(u)}

\* Working units can be counted, ...
LEMMA UnitsFinite ==
  ASSUME NEW a \in Nat, NEW b \in Nat
  PROVE  IsFiniteSet(Units(a, b)) /\ UnitsBetween(a, b) \in Nat /\ UnitsBetween(a, b) = Cardinality(Units(a, b))
<1>1. IsFiniteSet(a .. b - 1)
  BY FS_Interval
<1>2. Units(a, b) \in SUBSET (a .. b - 1)
  BY DEF Units
<1> QED BY <1>1, <1>2, FS_Subset, FS_CardinalityType DEF Units, UnitsBetween

\* ... one stretch of time after another.
LEMMA UnitsSplit ==
  ASSUME NEW a \in Nat, NEW b \in Nat, NEW c \in Nat, a <= b, b <= c
  PROVE  UnitsBetween(a, c) = UnitsBetween(a, b) + UnitsBetween(b, c)
<1>1. Units(a, c) = Units(a, b) \cup Units(b, c) /\ Units(a, b) \cap Units(b, c) = {}
  BY DEF Units
<1>2. PICK S, T : S = Units(a, b) /\ T = Units(b, c)
  OBVIOUS
<1>3. IsFiniteSet(S) /\ IsFiniteSet(T) /\ S \cap T = {} /\ Cardinality(S) \in Nat /\ Cardinality(T) \in Nat
  BY <1>1, <1>2, UnitsFinite
<1>4. Cardinality(S \cup T) = Cardinality(S) + Cardinality(T)
  <2>1. Cardinality(S \cup T) = Cardinality(S) + Cardinality(T) - Cardinality(S \cap T)
    BY <1>3, FS_Union
  <2>2. Cardinality(S \cap T) = 0
    BY <1>3, FS_EmptySet
  <2> QED BY <1>3, <2>1, <2>2
<1> QED BY <1>1, <1>2, <1>4, UnitsFinite

\* There are none where nobody works, ...
LEMMA UnitsNone ==
  ASSUME NEW a \in Nat, NEW b \in Nat, \A u \in Nat : a <= u /\ u < b => ~IsWorkingUnit(u)
  PROVE  UnitsBetween(a, b) = 0
<1>1. Units(a, b) = {}
  BY DEF Units
<1> QED BY <1>1, UnitsFinite, FS_EmptySet

\* ... and every unit is one where everybody does.
LEMMA UnitsAll ==
  ASSUME NEW a \in Nat, NEW b \in Nat, a <= b, \A u \in Nat : a <= u /\ u < b => IsWorkingUnit(u)
  PROVE  UnitsBetween(a, b) = b - a
<1>1. Units(a, b) = a .. b - 1
  BY DEF Units
<1>2. Cardinality(a .. b - 1) = IF a > b - 1 THEN 0 ELSE (b - 1) - a + 1
  BY FS_Interval
<1>3. UnitsBetween(a, b) = Cardinality(a .. b - 1)
  BY <1>1, UnitsFinite
<1>4. (IF a > b - 1 THEN 0 ELSE (b - 1) - a + 1) = b - a
  OBVIOUS
<1> QED BY <1>2, <1>3, <1>4

\* What of a day is worked from a moment on, up to another of that day or the opening
\* of the next.
LEMMA RestOfDay ==
  ASSUME NEW t \in Nat
  PROVE  LET day == DayOf(t)
             from == Later(t, OpenOf(day))
         IN  /\ ~IsWorkDay(day) \/ t >= CloseOf(day) => UnitsBetween(t, OpenOf(day + 1)) = 0
             /\ IsWorkDay(day) /\ t < CloseOf(day) =>
                  /\ from \in Nat /\ t <= from /\ from < CloseOf(day)
                  /\ \A u \in from .. CloseOf(day) : UnitsBetween(t, u) = u - from
                  /\ UnitsBetween(t, OpenOf(day + 1)) = CloseOf(day) - from
                  /\ \A u \in Nat : t <= u /\ u <= from => UnitsBetween(t, u) = 0
                  /\ \A u \in Nat : CloseOf(day) <= u /\ u <= OpenOf(day + 1) =>
                       UnitsBetween(t, u) = CloseOf(day) - from
<1>1. PICK day : day = DayOf(t)
  OBVIOUS
<1>2. PICK o, c, n : o = OpenOf(day) /\ c = CloseOf(day) /\ n = OpenOf(day + 1)
  OBVIOUS
<1>3. /\ day \in Nat /\ o \in Nat /\ c \in Nat /\ n \in Nat /\ o < c /\ c <= n /\ t < n
      /\ \A u \in Nat : t <= u /\ u < n => DayOf(u) = day \/ (DayOf(u) = day + 1 /\ u < OpenOf(DayOf(u)))
      /\ \A u \in Nat : t <= u /\ u < c => DayOf(u) = day
  BY <1>1, <1>2, DayOfMoment
<1>4. ASSUME NEW u \in Nat, t <= u, u < n PROVE IsWorkingUnit(u) <=> IsWorkDay(day) /\ o <= u /\ u < c
  <2>1. CASE DayOf(u) = day
    BY <1>2, <2>1 DEF IsWorkingUnit
  <2>2. CASE DayOf(u) = day + 1 /\ u < OpenOf(DayOf(u)) /\ DayOf(u) # day
    <3>1. ~IsWorkingUnit(u)
      <4>1. OpenOf(DayOf(u)) = n
        BY <1>2, <2>2
      <4> QED BY <1>3, <2>2, <4>1 DEF IsWorkingUnit
    <3>2. ~ (u < c)
      BY <1>3, <1>4, <2>2
    <3> QED BY <3>1, <3>2
  <2> QED BY <1>3, <1>4, <2>1, <2>2
<1>5. ASSUME ~IsWorkDay(day) \/ t >= c PROVE UnitsBetween(t, n) = 0
  <2>1. \A u \in Nat : t <= u /\ u < n => ~IsWorkingUnit(u)
    BY <1>3, <1>4, <1>5
  <2> QED BY <1>3, <2>1, UnitsNone
<1>6. ASSUME IsWorkDay(day), t < c
      PROVE  /\ Later(t, o) \in Nat /\ t <= Later(t, o) /\ Later(t, o) < c
             /\ \A u \in Later(t, o) .. c : UnitsBetween(t, u) = u - Later(t, o)
             /\ UnitsBetween(t, n) = c - Later(t, o)
             /\ \A u \in Nat : t <= u /\ u <= Later(t, o) => UnitsBetween(t, u) = 0
             /\ \A u \in Nat : c <= u /\ u <= n => UnitsBetween(t, u) = c - Later(t, o)
  <2>1. PICK from : from = Later(t, o)
    OBVIOUS
  <2>2. from \in Nat /\ t <= from /\ from < c /\ o <= from /\ (from = t \/ from = o)
    BY <1>3, <1>6, <2>1 DEF Later
  <2>3. ASSUME NEW u \in Nat, t <= u, u <= from PROVE UnitsBetween(t, u) = 0
    <3>1. \A v \in Nat : t <= v /\ v < u => ~IsWorkingUnit(v)
      BY <1>3, <1>4, <2>2, <2>3
    <3> QED BY <3>1, UnitsNone
  <2>4. ASSUME NEW u \in from .. c PROVE UnitsBetween(t, u) = u - from
    <3>1. u \in Nat /\ from <= u
      BY <2>2
    <3>2. \A v \in Nat : from <= v /\ v < u => IsWorkingUnit(v)
      BY <1>3, <1>4, <1>6, <2>2
    <3>3. UnitsBetween(from, u) = u - from
      BY <2>2, <3>1, <3>2, UnitsAll
    <3>4. UnitsBetween(t, from) = 0
      BY <2>2, <2>3
    <3>5. UnitsBetween(t, u) = UnitsBetween(t, from) + UnitsBetween(from, u)
      BY <2>2, <3>1, UnitsSplit
    <3> QED BY <2>2, <3>1, <3>3, <3>4, <3>5
  <2>5. ASSUME NEW u \in Nat, c <= u, u <= n PROVE UnitsBetween(t, u) = c - from
    <3>1. \A v \in Nat : c <= v /\ v < u => ~IsWorkingUnit(v)
      BY <1>3, <1>4, <1>6, <2>5
    <3>2. UnitsBetween(c, u) = 0
      BY <1>3, <3>1, UnitsNone
    <3>3. UnitsBetween(t, c) = c - from
      BY <1>3, <2>2, <2>4
    <3>4. UnitsBetween(t, u) = UnitsBetween(t, c) + UnitsBetween(c, u)
      BY <1>3, <1>6, <2>5, UnitsSplit
    <3> QED BY <1>3, <2>2, <3>2, <3>3, <3>4
  <2>6. UnitsBetween(t, n) = c - from
    BY <1>3, <2>5
  <2> QED BY <2>1, <2>2, <2>3, <2>4, <2>5, <2>6
<1> QED BY <1>1, <1>2, <1>5, <1>6

-----------------------------------------------------------------------------
\* How many days after d the next working day is; within two weeks there is one.
Gap(d) == Min({k \in Nat : IsWorkDay(d + k)})

\* There is one; on a working day it is that day, else it is nearer the day after.
LEMMA GapBound ==
  ASSUME NEW d \in Nat
  PROVE  /\ Gap(d) \in Nat /\ Gap(d) <= 2 * WeekLength /\ IsWorkDay(d + Gap(d))
         /\ IsWorkDay(d) => Gap(d) = 0
         /\ ~IsWorkDay(d) => Gap(d) = Gap(d + 1) + 1
<1>1. WeekLength \in Nat /\ WeekLength > 0
  BY PlanningAssumption
<1>2. PICK w \in WorkDay : w \in Nat /\ w < WeekLength
  <2>1. WorkDay \subseteq 0 .. WeekLength - 1
    BY PlanningAssumption
  <2>2. PICK w : w \in WorkDay
    BY PlanningAssumption
  <2>3. w \in Nat /\ w < WeekLength
    BY <1>1, <2>1, <2>2
  <2> QED BY <2>2, <2>3
<1>3. PICK q \in Nat : q * WeekLength <= d /\ d < q * WeekLength + WeekLength
  <2>1. (d \div WeekLength) \in Nat /\ (d \div WeekLength) * WeekLength <= d
        /\ d < (d \div WeekLength) * WeekLength + WeekLength
    BY <1>1
  <2> QED BY <2>1
<1>4. PICK e : e = (q + 1) * WeekLength + w
  OBVIOUS
<1>5. (q + 1) * WeekLength = q * WeekLength + WeekLength /\ q * WeekLength \in Nat
  BY <1>1
<1>6. e \in Nat /\ d <= e /\ e <= d + 2 * WeekLength
  BY <1>1, <1>2, <1>3, <1>4, <1>5
<1>7. e % WeekLength = w
  BY <1>1, <1>2, <1>4
<1>8. IsWorkDay(d + (e - d)) /\ e - d \in Nat /\ e - d <= 2 * WeekLength
  <2>1. d + (e - d) = e
    BY <1>6
  <2> QED BY <1>1, <1>2, <1>6, <1>7, <2>1 DEF IsWorkDay
<1> DEFINE K(x) == {k \in Nat : IsWorkDay(x + k)}
<1>9. e - d \in K(d)
  BY <1>8
<1>10. Gap(d) \in K(d) /\ \A k \in K(d) : Gap(d) <= k
  BY <1>9, MinOfSome DEF Gap
<1>11. Gap(d) \in Nat /\ Gap(d) <= 2 * WeekLength /\ IsWorkDay(d + Gap(d))
  BY <1>1, <1>8, <1>9, <1>10
<1>12. ASSUME IsWorkDay(d) PROVE Gap(d) = 0
  <2>1. 0 \in K(d)
    BY <1>12
  <2> QED BY <1>10, <1>11, <2>1
<1>13. ASSUME ~IsWorkDay(d) PROVE Gap(d) = Gap(d + 1) + 1
  <2>1. Gap(d) # 0
    BY <1>11, <1>13
  <2>2. Gap(d) - 1 \in Nat /\ (d + 1) + (Gap(d) - 1) = d + Gap(d)
    BY <1>11, <2>1
  <2>3. Gap(d) - 1 \in K(d + 1)
    BY <1>11, <2>2
  <2>4. Gap(d + 1) \in K(d + 1) /\ \A k \in K(d + 1) : Gap(d + 1) <= k
    BY <2>3, MinOfSome DEF Gap
  <2>5. Gap(d + 1) \in Nat /\ Gap(d + 1) <= Gap(d) - 1
    BY <2>3, <2>4
  <2>6. Gap(d + 1) + 1 \in K(d)
    <3>1. d + (Gap(d + 1) + 1) = (d + 1) + Gap(d + 1)
      BY <2>5
    <3> QED BY <2>4, <2>5, <3>1
  <2>7. Gap(d) <= Gap(d + 1) + 1
    BY <1>10, <2>6
  <2> QED BY <1>11, <2>5, <2>7
<1> QED BY <1>11, <1>12, <1>13

-----------------------------------------------------------------------------
(***************************************************************************)
(* dueAt: where it stops, and what it goes on with.                        *)
(***************************************************************************)
Moment == Nat \X Nat
OpenAt(x) == IsWorkDay(DayOf(x[1])) /\ x[1] < CloseOf(DayOf(x[1]))
From(x) == Later(x[1], OpenOf(DayOf(x[1])))
Rest(x) == CloseOf(DayOf(x[1])) - From(x)
Available(x) == Minutes(Rest(x))
NextOpen(x) == OpenOf(DayOf(x[1]) + 1)

DueBody(f, x) ==
  IF ~IsWorkDay(DayOf(x[1])) \/ x[1] >= CloseOf(DayOf(x[1])) THEN f[<<NextOpen(x), x[2]>>]
  ELSE IF Available(x) > x[2] THEN From(x) + x[2] * MinuteUnits
  ELSE IF Available(x) = x[2] THEN NextOpen(x)
  ELSE f[<<NextOpen(x), x[2] - Available(x)>>]

DueStop == {x \in Moment : OpenAt(x) /\ Available(x) >= x[2]}
DueBase == [x \in Moment |-> IF Available(x) > x[2] /\ OpenAt(x) THEN From(x) + x[2] * MinuteUnits ELSE NextOpen(x)]
DueNext == [x \in Moment |-> <<NextOpen(x), IF OpenAt(x) THEN x[2] - Available(x) ELSE x[2]>>]
\* A minute of work left weighs more than the way to the next working day.
DueRank == [x \in Moment |-> x[2] * (2 * WeekLength + 3) +
                             (IF ~OpenAt(x) THEN 1 + Gap(DayOf(x[1]) + 1)
                              ELSE IF Available(x) = 0 THEN 2 * WeekLength + 2 ELSE 0)]
Zero == [x \in Moment |-> 0]

\* A time is rounded to the nearest minute, and whole minutes are left as they are.
LEMMA Rounding ==
  ASSUME NEW r \in Nat
  PROVE  /\ Minutes(r) \in Nat /\ Minutes(r) * MinuteUnits \in Nat
         /\ 2 * r <= 2 * (Minutes(r) * MinuteUnits) + MinuteUnits
         /\ 2 * (Minutes(r) * MinuteUnits) <= 2 * r + MinuteUnits
         /\ \A k \in Nat : r = k * MinuteUnits => Minutes(r) = k
<1>1. PICK m : m = MinuteUnits /\ m \in Nat /\ m > 0
  BY PlanningAssumption
<1>2. PICK a, b : a = 2 * r + m /\ b = 2 * m /\ a \in Nat /\ b \in Nat /\ b > 0
  BY <1>1
<1>3. PICK q : q = Minutes(r) /\ q = a \div b
  BY <1>1, <1>2 DEF Minutes
<1>4. q \in Nat /\ b * q <= a /\ a < b * q + b
  BY <1>2, <1>3
<1>5. b * q = 2 * (q * m) /\ q * m \in Nat
  BY <1>1, <1>2, <1>4
<1>6. ASSUME NEW k \in Nat, r = k * m PROVE q = k
  <2>1. k * m \in Nat /\ b * k = 2 * (k * m)
    BY <1>1, <1>2
  <2>2. b * k <= a /\ a < b * k + b
    BY <1>1, <1>2, <1>6, <2>1
  <2>3. ASSUME NEW i \in Nat, NEW j \in Nat, i < j PROVE b * i + b <= b * j
    <3>1. j - i - 1 \in Nat /\ b * j = b * i + b + b * (j - i - 1)
      BY <1>2, <2>3
    <3>2. b * (j - i - 1) >= 0 /\ b * (j - i - 1) \in Int /\ b * i \in Int
      BY <1>2, <3>1
    <3> QED BY <1>2, <3>1, <3>2
  <2>4. b * k \in Nat /\ b * q \in Nat
    BY <1>2, <1>4
  <2>5. ~ (q < k) /\ ~ (k < q)
    BY <1>2, <1>4, <2>2, <2>3, <2>4
  <2> QED BY <1>4, <2>5
<1> QED BY <1>1, <1>2, <1>3, <1>4, <1>5, <1>6

\* What leaves no remainder is a multiple.
LEMMA Multiple ==
  ASSUME NEW n \in Nat, NEW m \in Nat, m > 0, n % m = 0
  PROVE  \E k \in Nat : n = k * m
<1>1. n = m * (n \div m) + (n % m) /\ (n \div m) \in Nat
  OBVIOUS
<1>2. PICK k : k = n \div m /\ k \in Nat
  BY <1>1
<1>3. n = m * k
  BY <1>1, <1>2
<1> QED BY <1>2, <1>3

\* A moment lies before the opening of the next day.
LEMMA MomentFacts ==
  ASSUME NEW x \in Moment
  PROVE  /\ x[1] \in Nat /\ x[2] \in Nat
         /\ DayOf(x[1]) \in Nat /\ CloseOf(DayOf(x[1])) \in Nat
         /\ NextOpen(x) \in Nat /\ x[1] < NextOpen(x) /\ CloseOf(DayOf(x[1])) <= NextOpen(x)
         /\ DayOf(NextOpen(x)) = DayOf(x[1]) + 1
<1>1. x[1] \in Nat /\ x[2] \in Nat
  BY DEF Moment
<1>2. PICK t : t = x[1] /\ t \in Nat
  BY <1>1
<1>3. PICK day : day = DayOf(t)
  OBVIOUS
<1>4. /\ day \in Nat /\ CloseOf(day) \in Nat
      /\ CloseOf(day) <= OpenOf(day + 1) /\ OpenOf(day + 1) \in Nat /\ t < OpenOf(day + 1)
      /\ DayOf(OpenOf(day + 1)) = day + 1
  BY <1>2, <1>3, DayOfMoment
<1> QED BY <1>1, <1>2, <1>3, <1>4 DEF NextOpen

\* While a day is open, some of it is left, up to its close; what is available is that
\* in minutes.
LEMMA OpenFacts ==
  ASSUME NEW x \in Moment, OpenAt(x)
  PROVE  /\ From(x) \in Nat /\ x[1] <= From(x) /\ Rest(x) \in Nat /\ Rest(x) > 0
         /\ From(x) + Rest(x) = CloseOf(DayOf(x[1]))
         /\ Available(x) \in Nat
<1>1. PICK t : t = x[1] /\ t \in Nat
  BY MomentFacts
<1>2. PICK o, c : o = OpenOf(DayOf(t)) /\ c = CloseOf(DayOf(t))
  OBVIOUS
<1>3. o \in Nat /\ c \in Nat /\ o < c
  BY <1>1, <1>2, DayOfMoment
<1>4. t < c /\ From(x) = (IF t > o THEN t ELSE o) /\ Rest(x) = c - From(x)
  BY <1>1, <1>2 DEF OpenAt, From, Rest, Later
<1>5. Rest(x) \in Nat
  BY <1>1, <1>3, <1>4
<1>6. Available(x) \in Nat
  BY <1>5, Rounding DEF Available
<1> QED BY <1>1, <1>2, <1>3, <1>4, <1>5, <1>6

\* A moment that has no minute begun: what is left of its day are whole minutes.
Whole(x) == OpenAt(x) => Rest(x) = Available(x) * MinuteUnits

\* Of a day on which a ticket has not yet been worked, all hours are available.
LEMMA WholeDay ==
  ASSUME NEW x \in Moment, x[1] <= OpenOf(DayOf(x[1]))
  PROVE  Whole(x) /\ (OpenAt(x) => Available(x) > 0)
<1> SUFFICES ASSUME OpenAt(x)
             PROVE  Rest(x) = Available(x) * MinuteUnits /\ Available(x) > 0
  BY DEF Whole
<1>1. PICK m : m = MinuteUnits /\ m \in Nat /\ m > 0
  BY PlanningAssumption
<1>2. PICK day : day = DayOf(x[1]) /\ day \in Nat /\ x[1] \in Nat
  BY MomentFacts
<1>3. Open \in Nat /\ Close \in Nat /\ Open < Close /\ DayLength \in Nat
      /\ Open % m = 0 /\ Close % m = 0
  BY <1>1, PlanningAssumption
<1>4. From(x) = OpenOf(day)
  <2>1. OpenOf(day) \in Nat
    BY <1>2, DayOfMoment
  <2> QED BY <1>2, <2>1 DEF From, Later
<1>5. Rest(x) = Close - Open
  <2>1. PICK s : s = day * DayLength /\ s \in Nat
    BY <1>2, <1>3
  <2> QED BY <1>2, <1>3, <1>4, <2>1 DEF Rest, OpenOf, CloseOf
<1>6. PICK i, j \in Nat : Open = i * m /\ Close = j * m
  BY <1>1, <1>3, Multiple
<1>7. j - i \in Nat /\ (j - i) * m = Close - Open
  <2>1. (j - i) * m = j * m - i * m
    BY <1>1
  <2>2. i < j
    <3> SUFFICES ASSUME j <= i PROVE FALSE
      OBVIOUS
    <3>1. (i - j) * m = i * m - j * m /\ (i - j) * m >= 0
      <4>1. i - j \in Nat
        OBVIOUS
      <4> QED BY <1>1, <4>1
    <3> QED BY <1>3, <1>6, <3>1
  <2> QED BY <1>6, <2>1, <2>2
<1>8. Available(x) = j - i
  BY <1>1, <1>3, <1>5, <1>7, Rounding DEF Available
<1>9. j - i > 0
  BY <1>1, <1>3, <1>6, <1>7
<1> QED BY <1>1, <1>5, <1>7, <1>8, <1>9

\* Whether it is open when the next day opens depends on that day alone.
LEMMA OpenNext ==
  ASSUME NEW x \in Moment, NEW y \in Moment, y[1] = NextOpen(x)
  PROVE  OpenAt(y) <=> IsWorkDay(DayOf(x[1]) + 1)
<1>1. PICK n : n = NextOpen(x) /\ n \in Nat /\ n = OpenOf(DayOf(x[1]) + 1)
  BY MomentFacts DEF NextOpen
<1>2. DayOf(n) = DayOf(x[1]) + 1
  BY <1>1, MomentFacts
<1>3. OpenOf(DayOf(n)) < CloseOf(DayOf(n)) /\ OpenOf(DayOf(n)) = n
  BY <1>1, <1>2, DayOfMoment
<1> QED BY <1>1, <1>2, <1>3 DEF OpenAt

\* The cases of dueAt are those of where it stops and what it goes on with.
LEMMA DueBodyCases ==
  ASSUME NEW x \in Moment, NEW f
  PROVE  /\ ~OpenAt(x) => DueBody(f, x) = f[DueNext[x]] /\ DueBase[x] = NextOpen(x)
         /\ OpenAt(x) => DueBody(f, x) = IF Available(x) > x[2] THEN From(x) + x[2] * MinuteUnits
                                        ELSE IF Available(x) = x[2] THEN NextOpen(x) ELSE f[DueNext[x]]
         /\ x \in DueStop <=> OpenAt(x) /\ Available(x) >= x[2]
         /\ x \in DueStop => DueBody(f, x) = DueBase[x]
         /\ x \notin DueStop => DueBody(f, x) = f[DueNext[x]]
         /\ DueBase[x] \in Nat
<1>1. /\ x[1] \in Nat /\ x[2] \in Nat /\ CloseOf(DayOf(x[1])) \in Nat /\ NextOpen(x) \in Nat
      /\ OpenAt(x) => From(x) \in Nat /\ Available(x) \in Nat
      /\ x[2] * MinuteUnits \in Nat
  <2>1. x[2] \in Nat /\ MinuteUnits \in Nat
    BY MomentFacts, PlanningAssumption
  <2>2. x[2] * MinuteUnits \in Nat
    BY <2>1
  <2> QED BY <2>2, MomentFacts, OpenFacts
<1>2. OpenAt(x) <=> ~ (~IsWorkDay(DayOf(x[1])) \/ x[1] >= CloseOf(DayOf(x[1])))
  BY <1>1 DEF OpenAt
<1>3. DueNext[x] = <<NextOpen(x), IF OpenAt(x) THEN x[2] - Available(x) ELSE x[2]>>
  BY DEF DueNext
<1>4. DueBase[x] = IF Available(x) > x[2] /\ OpenAt(x) THEN From(x) + x[2] * MinuteUnits ELSE NextOpen(x)
  BY DEF DueBase
<1>5. x \in DueStop <=> OpenAt(x) /\ Available(x) >= x[2]
  BY DEF DueStop
<1>6. DueBody(f, x) = IF ~OpenAt(x) THEN f[<<NextOpen(x), x[2]>>]
                      ELSE IF Available(x) > x[2] THEN From(x) + x[2] * MinuteUnits
                      ELSE IF Available(x) = x[2] THEN NextOpen(x)
                      ELSE f[<<NextOpen(x), x[2] - Available(x)>>]
  BY <1>2 DEF DueBody
<1>7. CASE ~OpenAt(x)
  BY <1>1, <1>3, <1>4, <1>5, <1>6, <1>7
<1>8. CASE OpenAt(x)
  <2>1. Available(x) > x[2] \/ Available(x) = x[2] \/ Available(x) < x[2]
    BY <1>1, <1>8
  <2>2. CASE Available(x) < x[2]
    BY <1>1, <1>3, <1>4, <1>5, <1>6, <1>8, <2>2
  <2>3. CASE Available(x) = x[2]
    BY <1>1, <1>3, <1>4, <1>5, <1>6, <1>8, <2>3
  <2>4. CASE Available(x) > x[2]
    BY <1>1, <1>3, <1>4, <1>5, <1>6, <1>8, <2>4
  <2> QED BY <2>1, <2>2, <2>3, <2>4
<1> QED BY <1>7, <1>8

\* A day goes by: some of the time left is used up, or the next working day is nearer; a
\* rest of less than half a minute uses up nothing, but only on the first day.
LEMMA DueRankLess ==
  /\ DueBase \in [Moment -> Nat] /\ Zero \in [Moment -> Nat] /\ DueRank \in [Moment -> Nat]
  /\ LowerRank(Moment, DueStop, DueNext, DueRank)
<1>1. WeekLength \in Nat /\ 2 * WeekLength + 3 \in Nat
  BY PlanningAssumption
<1>2. PICK weight : weight = 2 * WeekLength + 3 /\ weight \in Nat
  BY <1>1
<1>3. \A m, n \in Nat : m * weight \in Nat /\ (m < n => m * weight + weight <= n * weight)
  <2>1. ASSUME NEW m \in Nat, NEW n \in Nat, m < n PROVE m * weight + weight <= n * weight
    <3>1. PICK k \in Nat : n = m + 1 + k
      <4>1. n - m - 1 \in Nat /\ n = m + 1 + (n - m - 1)
        BY <2>1
      <4> QED BY <4>1
    <3>2. n * weight = m * weight + weight + k * weight /\ k * weight \in Nat
      BY <1>2, <3>1
    <3>3. m * weight \in Nat
      BY <1>2
    <3> QED BY <1>2, <3>2, <3>3
  <2> QED BY <1>2, <2>1
<1> DEFINE Extra(x) == IF ~OpenAt(x) THEN 1 + Gap(DayOf(x[1]) + 1)
                       ELSE IF Available(x) = 0 THEN 2 * WeekLength + 2 ELSE 0
<1>4. ASSUME NEW x \in Moment
      PROVE  /\ Gap(DayOf(x[1]) + 1) \in Nat /\ Gap(DayOf(x[1]) + 1) <= 2 * WeekLength
             /\ Extra(x) \in Nat /\ Extra(x) < weight
             /\ DueRank[x] = x[2] * weight + Extra(x)
             /\ DueRank[x] \in Nat /\ x[2] * weight \in Nat
  <2>1. DayOf(x[1]) + 1 \in Nat /\ x[2] \in Nat
    BY MomentFacts
  <2>2. Gap(DayOf(x[1]) + 1) \in Nat /\ Gap(DayOf(x[1]) + 1) <= 2 * WeekLength
    BY <2>1, GapBound
  <2>3. DueRank[x] = x[2] * weight + Extra(x)
    BY <1>2 DEF DueRank
  <2>4. x[2] * weight \in Nat
    BY <1>3, <2>1
  <2>5. Extra(x) \in Nat /\ Extra(x) < weight
    BY <1>1, <1>2, <2>2
  <2> HIDE DEF Extra
  <2> QED BY <2>2, <2>3, <2>4, <2>5
<1>5. DueRank \in [Moment -> Nat]
  <2>1. DueRank = [x \in Moment |-> DueRank[x]]
    BY DEF DueRank
  <2> QED BY <1>4, <2>1
<1>6. DueBase \in [Moment -> Nat] /\ Zero \in [Moment -> Nat]
  <2>1. \A x \in Moment : DueBase[x] \in Nat
    BY DueBodyCases
  <2>2. DueBase = [x \in Moment |-> DueBase[x]]
    BY DEF DueBase
  <2> QED BY <2>1, <2>2 DEF Zero
<1>7. ASSUME NEW x \in Moment, x \notin DueStop PROVE DueNext[x] \in Moment /\ DueRank[DueNext[x]] < DueRank[x]
  <2>1. PICK y : y = DueNext[x]
    OBVIOUS
  <2>2. y = <<NextOpen(x), IF OpenAt(x) THEN x[2] - Available(x) ELSE x[2]>>
    BY <2>1 DEF DueNext
  <2>3. OpenAt(x) => x[2] - Available(x) \in Nat /\ x[2] - Available(x) <= x[2]
    <3>1. OpenAt(x) => Available(x) < x[2]
      BY <1>7, MomentFacts, OpenFacts DEF DueStop
    <3> QED BY <3>1, MomentFacts, OpenFacts
  <2>4. y \in Moment /\ y[1] = NextOpen(x) /\ y[2] = IF OpenAt(x) THEN x[2] - Available(x) ELSE x[2]
    BY <2>2, <2>3, MomentFacts DEF Moment
  <2>5. PICK day : day = DayOf(x[1]) /\ day \in Nat /\ DayOf(y[1]) = day + 1
    BY <2>4, MomentFacts
  <2>6. OpenAt(y) <=> IsWorkDay(day + 1)
    BY <2>4, <2>5, OpenNext
  <2>7. OpenAt(y) => Available(y) > 0 /\ Available(y) \in Nat
    <3>1. y[1] <= OpenOf(DayOf(y[1]))
      <4>1. y[1] = OpenOf(day + 1) /\ y[1] \in Nat
        BY <2>4, <2>5, MomentFacts DEF NextOpen
      <4> QED BY <2>5, <4>1
    <3> QED BY <2>4, <3>1, WholeDay, OpenFacts
  <2>8. /\ DueRank[y] = y[2] * weight + Extra(y) /\ y[2] * weight \in Nat /\ y[2] \in Nat
        /\ Extra(y) \in Nat /\ Extra(y) < weight
        /\ DueRank[x] = x[2] * weight + Extra(x) /\ x[2] * weight \in Nat /\ x[2] \in Nat
        /\ Extra(x) \in Nat
    BY <1>4, <2>4, MomentFacts
  <2>9. Gap(day + 1) \in Nat /\ Gap(day + 1 + 1) \in Nat /\ Gap(day + 1 + 1) <= 2 * WeekLength
        /\ (~IsWorkDay(day + 1) => Gap(day + 1) = Gap(day + 1 + 1) + 1)
    <3>1. day + 1 \in Nat /\ day + 1 + 1 \in Nat
      BY <2>5
    <3> QED BY <3>1, GapBound
  <2>10. Extra(y) = (IF OpenAt(y) THEN 0 ELSE 1 + Gap(day + 1 + 1)) /\ Extra(y) <= 2 * WeekLength + 1
    BY <1>1, <2>5, <2>7, <2>9
  <2>11. CASE OpenAt(x) /\ Available(x) > 0
    <3>1. y[2] < x[2]
      BY <2>3, <2>4, <2>8, <2>11, OpenFacts
    <3>2. y[2] * weight + weight <= x[2] * weight
      BY <1>3, <2>8, <3>1
    <3>3. DueRank[y] < DueRank[x]
      <4>1. PICK a, b, c, d : a = y[2] * weight /\ b = x[2] * weight /\ c = Extra(x) /\ d = Extra(y)
        OBVIOUS
      <4> HIDE DEF Extra
      <4> QED BY <1>2, <2>8, <3>2, <4>1
    <3> QED BY <2>1, <2>4, <3>3
  <2>12. CASE OpenAt(x) /\ ~ (Available(x) > 0)
    <3>1. Available(x) = 0
      BY <2>12, OpenFacts
    <3>2. y[2] = x[2] /\ Extra(x) = 2 * WeekLength + 2
      BY <2>4, <2>8, <2>12, <3>1
    <3> HIDE DEF Extra
    <3> QED BY <1>1, <2>1, <2>4, <2>8, <2>10, <3>2
  <2>13. CASE ~OpenAt(x)
    <3>1. y[2] = x[2] /\ Extra(x) = 1 + Gap(day + 1)
      BY <2>4, <2>5, <2>13
    <3>2. Extra(y) < Extra(x)
      BY <2>6, <2>9, <2>10, <3>1
    <3> HIDE DEF Extra
    <3> QED BY <2>1, <2>4, <2>8, <3>1, <3>2
  <2> QED BY <2>11, <2>12, <2>13
<1> QED BY <1>5, <1>6, <1>7 DEF LowerRank

\* The recursion of the code comes to an end, so it defines a function, ...
LEMMA DueFromRule == \A x \in Moment : DueFrom[x] \in Nat /\ DueFrom[x] = DueBody(DueFrom, x)
<1> DEFINE Rule(f) == f = [x \in Moment |-> DueBody(f, x)]
<1>1. DueFrom = CHOOSE f : Rule(f)
  BY DEF DueFrom, DueBody, Moment, OpenAt, From, Rest, Available, NextOpen
<1>2. PICK f \in [Moment -> Nat] : Solves(f, Moment, DueStop, DueBase, Zero, DueNext)
  BY DueRankLess, Recursion
<1>3. ASSUME NEW x \in Moment PROVE f[x] = DueBody(f, x)
  <2>1. f[x] = IF x \in DueStop THEN DueBase[x] ELSE Zero[x] + f[DueNext[x]]
    BY <1>2 DEF Solves
  <2>2. CASE x \in DueStop
    BY <2>1, <2>2, DueBodyCases
  <2>3. CASE x \notin DueStop
    <3>1. DueNext[x] \in Moment
      BY <2>3, DueRankLess DEF LowerRank
    <3>2. f[DueNext[x]] \in Nat /\ Zero[x] = 0
      BY <1>2, <3>1 DEF Zero
    <3>3. f[x] = f[DueNext[x]]
      BY <2>1, <2>3, <3>2
    <3> QED BY <2>3, <3>3, DueBodyCases
  <2> QED BY <2>2, <2>3
<1>4. f = [x \in Moment |-> DueBody(f, x)]
  BY <1>2, <1>3
<1>5. Rule(f)
  BY <1>4
<1>6. Rule(DueFrom)
  <2> HIDE DEF Rule
  <2> QED BY <1>1, <1>5
<1>7. \A x \in Moment : DueFrom[x] = DueBody(DueFrom, x)
  BY <1>6
\* ... whose values are moments.
<1> DEFINE T == {x \in Moment : DueFrom[x] \in Nat}
<1>8. ASSUME NEW x \in Moment, x \in DueStop \/ DueNext[x] \in T PROVE x \in T
  <2>1. DueFrom[x] = DueBody(DueFrom, x)
    BY <1>7
  <2>2. DueFrom[x] \in Nat
    <3>1. CASE x \in DueStop
      BY <2>1, <3>1, DueBodyCases
    <3>2. CASE x \notin DueStop
      BY <1>8, <2>1, <3>2, DueBodyCases
    <3> QED BY <3>1, <3>2
  <2> QED BY <2>2
<1>9. Moment \subseteq T
  <2> HIDE DEF T
  <2> QED BY <1>8, DueRankLess, RankInduct
<1> QED BY <1>7, <1>9

\* Up to the due date the minutes given have been worked, but for the half minute of a
\* moment within one.
LEMMA DueIsExact ==
  \A x \in Moment : LET worked == 2 * UnitsBetween(x[1], DueFrom[x])
                        given == 2 * (x[2] * MinuteUnits)
                    IN  /\ x[1] <= DueFrom[x]
                        /\ worked <= given + MinuteUnits /\ given <= worked + MinuteUnits
                        /\ Whole(x) => worked = given
<1> DEFINE Right(x) == /\ x[1] <= DueFrom[x]
                       /\ 2 * UnitsBetween(x[1], DueFrom[x]) <= 2 * (x[2] * MinuteUnits) + MinuteUnits
                       /\ 2 * (x[2] * MinuteUnits) <= 2 * UnitsBetween(x[1], DueFrom[x]) + MinuteUnits
                       /\ Whole(x) => 2 * UnitsBetween(x[1], DueFrom[x]) = 2 * (x[2] * MinuteUnits)
           T == {x \in Moment : Right(x)}
<1>1. ASSUME NEW x \in Moment, x \in DueStop \/ DueNext[x] \in T PROVE x \in T
  <2>1. PICK t, left, n, m : t = x[1] /\ left = x[2] /\ n = NextOpen(x) /\ m = MinuteUnits
    OBVIOUS
  <2>2. t \in Nat /\ left \in Nat /\ n \in Nat /\ t < n /\ CloseOf(DayOf(t)) \in Nat
        /\ CloseOf(DayOf(t)) <= n /\ n = OpenOf(DayOf(t) + 1) /\ m \in Nat /\ m > 0
    BY <2>1, MomentFacts, PlanningAssumption DEF NextOpen
  <2>3. DueFrom[x] \in Nat /\ DueFrom[x] = DueBody(DueFrom, x)
    BY DueFromRule
  <2>4. PICK rest, avail, finish, from :
          rest = Rest(x) /\ avail = Available(x) /\ finish = DueFrom[x] /\ from = From(x)
    OBVIOUS
  <2>5. OpenAt(x) =>
          /\ from \in Nat /\ t <= from /\ rest \in Nat /\ rest > 0 /\ avail \in Nat
          /\ from + rest = CloseOf(DayOf(t)) /\ from = Later(t, OpenOf(DayOf(t)))
          /\ avail * m \in Nat
          /\ 2 * rest <= 2 * (avail * m) + m /\ 2 * (avail * m) <= 2 * rest + m
    BY <2>1, <2>4, OpenFacts, Rounding DEF From, Available
  <2>6. UnitsBetween(t, n) = IF OpenAt(x) THEN rest ELSE 0
    <3>1. CASE OpenAt(x)
      <4>1. UnitsBetween(t, n) = CloseOf(DayOf(t)) - from
        BY <2>1, <2>2, <2>5, <3>1, RestOfDay DEF OpenAt
      <4> QED BY <2>2, <2>5, <3>1, <4>1
    <3>2. CASE ~OpenAt(x)
      <4>1. ~IsWorkDay(DayOf(t)) \/ t >= CloseOf(DayOf(t))
        BY <2>1, <2>2, <3>2 DEF OpenAt
      <4> QED BY <2>2, <3>2, <4>1, RestOfDay
    <3> QED BY <3>1, <3>2
  <2>7. left * m \in Nat
    BY <2>2
  <2>8. Whole(x) <=> (OpenAt(x) => rest = avail * m)
    BY <2>1, <2>4 DEF Whole
  <2>9. PICK used : used = UnitsBetween(t, finish)
    OBVIOUS
  <2>10. SUFFICES /\ t <= finish
                  /\ 2 * used <= 2 * (left * m) + m /\ 2 * (left * m) <= 2 * used + m
                  /\ (OpenAt(x) => rest = avail * m) => 2 * used = 2 * (left * m)
    <3>1. Right(x) <=> /\ t <= finish
                       /\ 2 * used <= 2 * (left * m) + m /\ 2 * (left * m) <= 2 * used + m
                       /\ Whole(x) => 2 * used = 2 * (left * m)
      BY <2>1, <2>4, <2>9
    <3> HIDE DEF Right
    <3> QED BY <2>8, <3>1
  <2>11. CASE x \in DueStop
    <3>1. OpenAt(x) /\ avail >= left
      BY <2>1, <2>4, <2>11, DueBodyCases
    <3>2. finish = IF avail > left THEN from + left * m ELSE n
      <4>1. DueBody(DueFrom, x) = IF avail > left THEN from + left * m
                                  ELSE IF avail = left THEN n ELSE DueFrom[DueNext[x]]
        BY <2>1, <2>4, <3>1, DueBodyCases
      <4> QED BY <2>2, <2>3, <2>4, <2>5, <3>1, <4>1
    <3>3. CASE avail > left
      <4>1. left * m < rest
        <5>1. avail - left - 1 \in Nat /\ avail * m = left * m + m + (avail - left - 1) * m
          BY <2>2, <2>5, <3>1, <3>3
        <5>2. (avail - left - 1) * m \in Nat
          BY <2>2, <5>1
        <5> QED BY <2>2, <2>5, <2>7, <3>1, <5>1, <5>2
      <4>2. PICK taken : taken = left * m /\ taken \in Nat
        BY <2>7
      <4>3. finish \in from .. CloseOf(DayOf(t)) /\ t <= finish /\ finish = from + taken
        BY <2>2, <2>5, <3>1, <3>2, <3>3, <4>1, <4>2
      <4>4. used = finish - from
        BY <2>1, <2>2, <2>5, <2>9, <3>1, <4>3, RestOfDay DEF OpenAt
      <4>5. used = taken
        BY <2>5, <3>1, <4>2, <4>3, <4>4
      <4> QED BY <2>2, <4>2, <4>3, <4>5
    <3>4. CASE ~ (avail > left)
      <4>1. avail = left
        BY <2>2, <2>5, <3>1, <3>4
      <4> QED BY <2>2, <2>5, <2>6, <2>9, <3>1, <3>2, <3>4, <4>1
    <3> QED BY <3>3, <3>4
  <2>12. CASE x \notin DueStop
    <3>1. PICK y : y = DueNext[x] /\ y \in T
      BY <1>1, <2>12
    <3>2. y = <<NextOpen(x), IF OpenAt(x) THEN x[2] - Available(x) ELSE x[2]>>
      BY <3>1 DEF DueNext
    <3>3. PICK more : more = y[2]
      OBVIOUS
    <3>4. y[1] = n /\ more = (IF OpenAt(x) THEN left - avail ELSE left) /\ y \in Moment
      BY <2>1, <2>4, <3>1, <3>2, <3>3
    <3>5. finish = DueFrom[y]
      BY <2>3, <2>4, <2>12, <3>1, DueBodyCases
    <3>6. n <= finish /\ 2 * UnitsBetween(n, finish) = 2 * (more * m)
      <4>1. DayOf(n) = DayOf(t) + 1
        BY <2>1, MomentFacts
      <4>2. Whole(y)
        BY <2>2, <3>4, <4>1, WholeDay
      <4>3. Right(y)
        BY <3>1
      <4> QED BY <2>1, <3>3, <3>4, <3>5, <4>2, <4>3
    <3>7. t <= finish /\ finish \in Nat
      BY <2>2, <2>3, <2>4, <3>6
    <3>8. used = UnitsBetween(t, n) + UnitsBetween(n, finish) /\ UnitsBetween(n, finish) \in Nat
      BY <2>2, <2>9, <3>6, <3>7, UnitsSplit, UnitsFinite
    <3>9. more \in Nat
      BY <3>3, <3>4 DEF Moment
    <3>10. more * m = IF OpenAt(x) THEN left * m - avail * m ELSE left * m
      BY <2>2, <2>5, <3>4
    <3> QED BY <2>2, <2>5, <2>6, <2>7, <3>6, <3>7, <3>8, <3>10
  <2> QED BY <2>11, <2>12
<1>2. Moment \subseteq T
  <2> HIDE DEF T
  <2> QED BY <1>1, DueRankLess, RankInduct
<1> QED BY <1>2

-----------------------------------------------------------------------------
(***************************************************************************)
(* workingMsBetween.                                                       *)
(***************************************************************************)
OfDay(x) ==
  IF IsWorkDay(DayOf(x[1]))
    THEN Later(0, Sooner(CloseOf(DayOf(x[1])), x[2]) - Later(OpenOf(DayOf(x[1])), x[1])) ELSE 0
WorkedBody(f, x) == IF x[1] >= x[2] THEN 0 ELSE OfDay(x) + f[<<NextOpen(x), x[2]>>]
WorkedStop == {x \in Moment : x[1] >= x[2]}
WorkedNext == [x \in Moment |-> <<NextOpen(x), x[2]>>]
WorkedRank == [x \in Moment |-> IF x[1] >= x[2] THEN 0 ELSE x[2] - x[1]]

\* What is worked of a day up to a moment is what its units are.
LEMMA OfDayCounts ==
  ASSUME NEW x \in Moment, x[1] < x[2]
  PROVE  /\ OfDay(x) \in Nat
         /\ x[2] <= NextOpen(x) => UnitsBetween(x[1], x[2]) = OfDay(x)
         /\ x[2] >= NextOpen(x) => UnitsBetween(x[1], NextOpen(x)) = OfDay(x)
<1>1. PICK t, end, n : t = x[1] /\ end = x[2] /\ n = NextOpen(x)
  OBVIOUS
<1>2. PICK o, c : o = OpenOf(DayOf(t)) /\ c = CloseOf(DayOf(t))
  OBVIOUS
<1>3. t \in Nat /\ end \in Nat /\ n \in Nat /\ o \in Nat /\ c \in Nat /\ o < c /\ c <= n /\ t < n /\ t < end
      /\ n = OpenOf(DayOf(t) + 1)
  BY <1>1, <1>2, MomentFacts, DayOfMoment DEF NextOpen
<1>4. OfDay(x) = IF IsWorkDay(DayOf(t)) THEN Later(0, Sooner(c, end) - Later(o, t)) ELSE 0
  BY <1>1, <1>2 DEF OfDay
<1>5. Later(o, t) = Later(t, o)
  BY <1>3 DEF Later
<1>6. CASE IsWorkDay(DayOf(t)) /\ t < c
  <2>1. PICK from : from = Later(t, o)
    OBVIOUS
  <2>2. /\ from \in Nat /\ t <= from /\ from < c
        /\ \A u \in from .. c : UnitsBetween(t, u) = u - from
        /\ \A u \in Nat : t <= u /\ u <= from => UnitsBetween(t, u) = 0
        /\ \A u \in Nat : c <= u /\ u <= n => UnitsBetween(t, u) = c - from
    BY <1>2, <1>3, <1>6, <2>1, RestOfDay
  <2>3. OfDay(x) = IF end <= from THEN 0 ELSE IF end <= c THEN end - from ELSE c - from
    BY <1>3, <1>4, <1>5, <1>6, <2>1, <2>2 DEF Later, Sooner
  <2>4. CASE end <= from
    BY <1>1, <1>3, <2>2, <2>3, <2>4
  <2>5. CASE from < end /\ end <= c
    <3>1. UnitsBetween(t, end) = end - from /\ OfDay(x) = end - from /\ end - from \in Nat
      BY <1>3, <2>2, <2>3, <2>5
    <3>2. end >= n => end = n
      BY <1>3, <2>5
    <3> QED BY <1>1, <3>1, <3>2
  <2>6. CASE c < end
    <3>1. OfDay(x) = c - from /\ c - from \in Nat
      BY <1>3, <2>2, <2>3, <2>6
    <3>2. end <= n => UnitsBetween(t, end) = c - from
      BY <1>3, <2>2, <2>6
    <3>3. UnitsBetween(t, n) = c - from
      BY <1>3, <2>2
    <3> QED BY <1>1, <3>1, <3>2, <3>3
  <2>7. end <= from \/ (from < end /\ end <= c) \/ c < end
    BY <1>3, <2>2
  <2> QED BY <2>4, <2>5, <2>6, <2>7
<1>7. CASE ~ (IsWorkDay(DayOf(t)) /\ t < c)
  <2>1. OfDay(x) = 0
    BY <1>3, <1>4, <1>5, <1>7 DEF Later, Sooner
  <2>2. UnitsBetween(t, n) = 0
    <3>1. ~IsWorkDay(DayOf(t)) \/ t >= CloseOf(DayOf(t))
      BY <1>2, <1>3, <1>7
    <3> QED BY <1>3, <3>1, RestOfDay
  <2>3. end <= n => UnitsBetween(t, end) = 0
    <3> SUFFICES ASSUME end <= n PROVE UnitsBetween(t, end) = 0
      OBVIOUS
    <3>1. UnitsBetween(t, n) = UnitsBetween(t, end) + UnitsBetween(end, n)
      BY <1>3, UnitsSplit
    <3>2. UnitsBetween(t, end) \in Nat /\ UnitsBetween(end, n) \in Nat
      BY <1>3, UnitsFinite
    <3> QED BY <2>2, <3>1, <3>2
  <2> QED BY <1>1, <2>1, <2>2, <2>3
<1> QED BY <1>6, <1>7

\* A day goes by: the end is nearer.
LEMMA WorkedRankLess ==
  /\ WorkedRank \in [Moment -> Nat] /\ LowerRank(Moment, WorkedStop, WorkedNext, WorkedRank)
<1>1. ASSUME NEW x \in Moment PROVE WorkedRank[x] \in Nat
  <2>1. x[1] \in Nat /\ x[2] \in Nat
    BY MomentFacts
  <2> QED BY <2>1 DEF WorkedRank
<1>2. ASSUME NEW x \in Moment, x \notin WorkedStop
      PROVE  WorkedNext[x] \in Moment /\ WorkedRank[WorkedNext[x]] < WorkedRank[x]
  <2>1. x[1] \in Nat /\ x[2] \in Nat /\ NextOpen(x) \in Nat /\ x[1] < NextOpen(x)
    BY MomentFacts
  <2>2. x[1] < x[2]
    BY <1>2, <2>1 DEF WorkedStop
  <2>3. PICK y : y = WorkedNext[x] /\ y = <<NextOpen(x), x[2]>>
    BY DEF WorkedNext
  <2>4. y \in Moment /\ y[1] = NextOpen(x) /\ y[2] = x[2]
    BY <2>1, <2>3 DEF Moment
  <2>5. WorkedRank[y] = (IF y[1] >= y[2] THEN 0 ELSE y[2] - y[1])
        /\ WorkedRank[x] = (IF x[1] >= x[2] THEN 0 ELSE x[2] - x[1])
    BY <2>4 DEF WorkedRank
  <2> QED BY <2>1, <2>2, <2>3, <2>4, <2>5
<1>3. WorkedRank = [x \in Moment |-> WorkedRank[x]]
  BY DEF WorkedRank
<1> QED BY <1>1, <1>2, <1>3 DEF LowerRank

\* The recursion of the code comes to an end, so it defines a function.
LEMMA WorkedRule == \A x \in Moment : Worked[x] = WorkedBody(Worked, x)
<1> DEFINE Rule(f) == f = [x \in Moment |-> WorkedBody(f, x)]
           Add == [x \in Moment |-> IF x[1] >= x[2] THEN 0 ELSE OfDay(x)]
<1>1. Worked = CHOOSE f : Rule(f)
  BY DEF Worked, WorkedBody, OfDay, Moment, NextOpen
<1>2. Add \in [Moment -> Nat] /\ Zero \in [Moment -> Nat]
  <2>1. ASSUME NEW x \in Moment PROVE (IF x[1] >= x[2] THEN 0 ELSE OfDay(x)) \in Nat
    <3>1. x[1] \in Nat /\ x[2] \in Nat
      BY MomentFacts
    <3>2. CASE x[1] < x[2]
      BY <3>1, <3>2, OfDayCounts
    <3> QED BY <3>1, <3>2
  <2> QED BY <2>1 DEF Zero
<1>3. PICK f \in [Moment -> Nat] : Solves(f, Moment, WorkedStop, Zero, Add, WorkedNext)
  <2> HIDE DEF Add
  <2> QED BY <1>2, WorkedRankLess, Recursion
<1>4. ASSUME NEW x \in Moment PROVE f[x] = WorkedBody(f, x)
  <2>1. f[x] = IF x \in WorkedStop THEN Zero[x] ELSE Add[x] + f[WorkedNext[x]]
    <3> HIDE DEF Add
    <3> QED BY <1>3 DEF Solves
  <2>2. Zero[x] = 0 /\ WorkedNext[x] = <<NextOpen(x), x[2]>> /\ (x \in WorkedStop <=> x[1] >= x[2])
    BY DEF Zero, WorkedNext, WorkedStop
  <2>3. Add[x] = IF x[1] >= x[2] THEN 0 ELSE OfDay(x)
    OBVIOUS
  <2> HIDE DEF Add
  <2> QED BY <2>1, <2>2, <2>3 DEF WorkedBody
<1>5. f = [x \in Moment |-> WorkedBody(f, x)]
  BY <1>3, <1>4
<1>6. Rule(f)
  BY <1>5
<1>7. Rule(Worked)
  <2> HIDE DEF Rule
  <2> QED BY <1>1, <1>6
<1> QED BY <1>7

\* What is counted as worked is what was worked.
LEMMA WorkedIsExact == \A x \in Moment : Worked[x] = UnitsBetween(x[1], x[2])
<1> DEFINE T == {x \in Moment : Worked[x] = UnitsBetween(x[1], x[2])}
<1>1. ASSUME NEW x \in Moment, x \in WorkedStop \/ WorkedNext[x] \in T PROVE x \in T
  <2>1. PICK t, end, n : t = x[1] /\ end = x[2] /\ n = NextOpen(x)
    OBVIOUS
  <2>2. t \in Nat /\ end \in Nat /\ n \in Nat /\ t < n
    BY <2>1, MomentFacts
  <2>3. Worked[x] = IF t >= end THEN 0 ELSE OfDay(x) + Worked[<<n, end>>]
    BY <2>1, WorkedRule DEF WorkedBody
  <2>4. CASE t >= end
    <3>1. UnitsBetween(t, end) = 0
      <4>1. \A u \in Nat : t <= u /\ u < end => ~IsWorkingUnit(u)
        BY <2>2, <2>4
      <4> QED BY <2>2, <4>1, UnitsNone
    <3> QED BY <2>1, <2>3, <2>4, <3>1
  <2>5. CASE t < end
    <3>1. WorkedNext[x] = <<n, end>> /\ WorkedNext[x] \in T
      BY <1>1, <2>1, <2>2, <2>5 DEF WorkedStop, WorkedNext
    <3>2. Worked[<<n, end>>] = UnitsBetween(n, end)
      BY <3>1
    <3>3. /\ OfDay(x) \in Nat
          /\ end <= n => UnitsBetween(t, end) = OfDay(x)
          /\ end >= n => UnitsBetween(t, n) = OfDay(x)
      BY <2>1, <2>5, OfDayCounts
    <3>4. Worked[x] = OfDay(x) + UnitsBetween(n, end)
      BY <2>2, <2>3, <2>5, <3>2
    <3>5. CASE end <= n
      <4>1. UnitsBetween(n, end) = 0
        <5>1. \A u \in Nat : n <= u /\ u < end => ~IsWorkingUnit(u)
          BY <2>2, <3>5
        <5> QED BY <2>2, <5>1, UnitsNone
      <4> QED BY <2>1, <3>3, <3>4, <3>5, <4>1
    <3>6. CASE n < end
      <4>1. UnitsBetween(t, end) = UnitsBetween(t, n) + UnitsBetween(n, end)
        BY <2>2, <3>6, UnitsSplit
      <4> QED BY <2>1, <2>2, <3>3, <3>4, <3>6, <4>1
    <3> QED BY <2>2, <3>5, <3>6
  <2> QED BY <2>2, <2>4, <2>5
<1>2. Moment \subseteq T
  <2> HIDE DEF T
  <2> QED BY <1>1, WorkedRankLess, RankInduct
<1> QED BY <1>2

-----------------------------------------------------------------------------
(***************************************************************************)
(* addWorkingDays.                                                         *)
(***************************************************************************)
DayAndCount == Nat \X (Nat \ {0})
NthBody(f, x) ==
  IF ~IsWorkDay(x[1]) THEN f[<<x[1] + 1, x[2]>>]
  ELSE IF x[2] = 1 THEN x[1] ELSE f[<<x[1] + 1, x[2] - 1>>]
NthStop == {x \in DayAndCount : IsWorkDay(x[1]) /\ x[2] = 1}
NthBase == [x \in DayAndCount |-> x[1]]
NthAdd == [x \in DayAndCount |-> 0]
NthNext == [x \in DayAndCount |-> <<x[1] + 1, IF IsWorkDay(x[1]) THEN x[2] - 1 ELSE x[2]>>]
NthRank == [x \in DayAndCount |-> x[2] * (2 * WeekLength + 1) + Gap(x[1])]
WorkDays(a, b) == {d \in a .. b : IsWorkDay(d)}

\* A day goes by: a working day is one of those asked for, any other brings the next
\* working day nearer.
LEMMA NthRankLess ==
  /\ NthRank \in [DayAndCount -> Nat] /\ LowerRank(DayAndCount, NthStop, NthNext, NthRank)
<1> DEFINE weight == 2 * WeekLength + 1
<1>1. WeekLength \in Nat /\ weight \in Nat
  BY PlanningAssumption
<1>2. \A n \in Nat : n * weight \in Nat
  BY <1>1
<1>3. \A n \in Nat : (n + 1) * weight = n * weight + weight
  BY <1>1
<1>4. weight = 2 * WeekLength + 1
  OBVIOUS
<1>5. ASSUME NEW x \in DayAndCount
      PROVE  NthRank[x] = x[2] * weight + Gap(x[1]) /\ NthRank[x] \in Nat
  <2>1. x[1] \in Nat /\ x[2] \in Nat
    BY DEF DayAndCount
  <2>2. Gap(x[1]) \in Nat
    BY <2>1, GapBound
  <2>3. NthRank[x] = x[2] * weight + Gap(x[1])
    BY DEF NthRank
  <2> HIDE DEF weight
  <2> QED BY <1>2, <2>1, <2>2, <2>3
<1>6. NthRank = [x \in DayAndCount |-> NthRank[x]]
  BY DEF NthRank
<1> HIDE DEF weight
<1>7. ASSUME NEW x \in DayAndCount, x \notin NthStop
      PROVE  NthNext[x] \in DayAndCount /\ NthRank[NthNext[x]] < NthRank[x]
  <2>1. PICK d, n : d = x[1] /\ n = x[2]
    OBVIOUS
  <2>2. d \in Nat /\ n \in Nat /\ n > 0 /\ d + 1 \in Nat
    BY <2>1 DEF DayAndCount
  <2>3. PICK y : y = NthNext[x] /\ y = <<d + 1, IF IsWorkDay(d) THEN n - 1 ELSE n>>
    BY <2>1 DEF NthNext
  <2>4. Gap(d) \in Nat /\ Gap(d + 1) \in Nat /\ Gap(d + 1) <= 2 * WeekLength
        /\ (~IsWorkDay(d) => Gap(d) = Gap(d + 1) + 1)
    BY <2>2, GapBound
  <2>5. CASE IsWorkDay(d)
    <3>1. n - 1 \in Nat /\ n - 1 > 0
      BY <1>7, <2>1, <2>2, <2>5 DEF NthStop
    <3>2. y \in DayAndCount /\ y[1] = d + 1 /\ y[2] = n - 1
      BY <2>2, <2>3, <2>5, <3>1 DEF DayAndCount
    <3>3. n * weight = (n - 1) * weight + weight
      BY <1>3, <2>2, <3>1
    <3>4. NthRank[x] = n * weight + Gap(d) /\ NthRank[y] = (n - 1) * weight + Gap(d + 1)
      BY <1>5, <2>1, <3>2
    <3>5. (n - 1) * weight \in Nat
      BY <1>2, <3>1
    <3>6. NthRank[y] < NthRank[x]
      <4>1. PICK a, b : a = (n - 1) * weight /\ b = n * weight
        OBVIOUS
      <4> QED BY <1>1, <1>4, <2>4, <3>3, <3>4, <3>5, <4>1
    <3> QED BY <2>3, <3>2, <3>6
  <2>6. CASE ~IsWorkDay(d)
    <3>1. y \in DayAndCount /\ y[1] = d + 1 /\ y[2] = n
      BY <2>2, <2>3, <2>6 DEF DayAndCount
    <3>2. NthRank[x] = n * weight + Gap(d) /\ NthRank[y] = n * weight + Gap(d + 1)
      BY <1>5, <2>1, <3>1
    <3>3. n * weight \in Nat
      BY <1>2, <2>2
    <3>4. NthRank[y] < NthRank[x]
      <4>1. PICK a : a = n * weight
        OBVIOUS
      <4> QED BY <2>4, <2>6, <3>2, <3>3, <4>1
    <3> QED BY <2>3, <3>1, <3>4
  <2> QED BY <2>5, <2>6
<1> QED BY <1>5, <1>6, <1>7 DEF LowerRank

\* The recursion of the code comes to an end, so it defines a function, ...
LEMMA NthRule ==
  \A x \in DayAndCount : NthWorkDay[x] \in Nat /\ NthWorkDay[x] = NthBody(NthWorkDay, x)
<1> DEFINE Rule(f) == f = [x \in DayAndCount |-> NthBody(f, x)]
<1>1. NthWorkDay = CHOOSE f : Rule(f)
  BY DEF NthWorkDay, NthBody, DayAndCount
<1>2. NthBase \in [DayAndCount -> Nat] /\ NthAdd \in [DayAndCount -> Nat]
  BY DEF NthBase, NthAdd, DayAndCount
<1>3. PICK f \in [DayAndCount -> Nat] : Solves(f, DayAndCount, NthStop, NthBase, NthAdd, NthNext)
  BY <1>2, NthRankLess, Recursion
<1>4. ASSUME NEW x \in DayAndCount
      PROVE  /\ NthNext[x] = <<x[1] + 1, IF IsWorkDay(x[1]) THEN x[2] - 1 ELSE x[2]>>
             /\ x \in NthStop <=> IsWorkDay(x[1]) /\ x[2] = 1
             /\ NthBase[x] = x[1] /\ NthAdd[x] = 0 /\ x[1] \in Nat
  BY DEF NthNext, NthStop, NthBase, NthAdd, DayAndCount
<1>5. ASSUME NEW g, NEW x \in DayAndCount
      PROVE  NthBody(g, x) = IF x \in NthStop THEN x[1] ELSE g[NthNext[x]]
  BY <1>4 DEF NthBody
<1>6. ASSUME NEW x \in DayAndCount PROVE f[x] = NthBody(f, x)
  <2>1. f[x] = IF x \in NthStop THEN x[1] ELSE 0 + f[NthNext[x]]
    BY <1>3, <1>4 DEF Solves
  <2>2. CASE x \in NthStop
    BY <1>5, <2>1, <2>2
  <2>3. CASE x \notin NthStop
    <3>1. NthNext[x] \in DayAndCount
      BY <2>3, NthRankLess DEF LowerRank
    <3>2. f[NthNext[x]] \in Nat
      BY <1>3, <3>1
    <3> QED BY <1>5, <2>1, <2>3, <3>2
  <2> QED BY <2>2, <2>3
<1>7. f = [x \in DayAndCount |-> NthBody(f, x)]
  BY <1>3, <1>6
<1>8. Rule(f)
  BY <1>7
<1>9. Rule(NthWorkDay)
  <2> HIDE DEF Rule
  <2> QED BY <1>1, <1>8
<1>10. \A x \in DayAndCount : NthWorkDay[x] = NthBody(NthWorkDay, x)
  BY <1>9
\* ... whose values are days.
<1> DEFINE T == {x \in DayAndCount : NthWorkDay[x] \in Nat}
<1>11. ASSUME NEW x \in DayAndCount, x \in NthStop \/ NthNext[x] \in T PROVE x \in T
  <2>1. NthWorkDay[x] = IF x \in NthStop THEN x[1] ELSE NthWorkDay[NthNext[x]]
    BY <1>5, <1>10
  <2>2. NthWorkDay[x] \in Nat
    BY <1>4, <1>11, <2>1
  <2> QED BY <2>2
<1>12. DayAndCount \subseteq T
  <2> HIDE DEF T
  <2> QED BY <1>11, NthRankLess, RankInduct
<1> QED BY <1>10, <1>12

\* The day found is a working day, and with it there are as many as asked for.
LEMMA NthIsExact ==
  \A x \in DayAndCount :
    /\ x[1] <= NthWorkDay[x] /\ IsWorkDay(NthWorkDay[x])
    /\ IsFiniteSet(WorkDays(x[1], NthWorkDay[x])) /\ Cardinality(WorkDays(x[1], NthWorkDay[x])) = x[2]
<1> DEFINE Right(x) == /\ x[1] <= NthWorkDay[x] /\ IsWorkDay(NthWorkDay[x])
                       /\ IsFiniteSet(WorkDays(x[1], NthWorkDay[x]))
                       /\ Cardinality(WorkDays(x[1], NthWorkDay[x])) = x[2]
           T == {x \in DayAndCount : Right(x)}
<1>1. ASSUME NEW x \in DayAndCount, x \in NthStop \/ NthNext[x] \in T PROVE x \in T
  <2>1. PICK d, n, last : d = x[1] /\ n = x[2] /\ last = NthWorkDay[x]
    OBVIOUS
  <2>2. d \in Nat /\ n \in Nat /\ n > 0 /\ last \in Nat /\ d + 1 \in Nat
    BY <2>1, NthRule DEF DayAndCount
  <2>3. last = IF ~IsWorkDay(d) THEN NthWorkDay[<<d + 1, n>>]
               ELSE IF n = 1 THEN d ELSE NthWorkDay[<<d + 1, n - 1>>]
    BY <2>1, NthRule DEF NthBody
  <2>4. d <= last /\ IsWorkDay(last) /\ IsFiniteSet(WorkDays(d, last)) /\ Cardinality(WorkDays(d, last)) = n
    <3>1. CASE x \in NthStop
      <4>1. IsWorkDay(d) /\ n = 1 /\ last = d
        BY <2>1, <2>3, <3>1 DEF NthStop
      <4>2. WorkDays(d, last) = {d}
        BY <2>2, <4>1 DEF WorkDays
      <4>3. IsFiniteSet({d}) /\ Cardinality({d}) = 1
        BY FS_Singleton
      <4> QED BY <2>2, <4>1, <4>2, <4>3
    <3>2. CASE x \notin NthStop
      <4>1. PICK y : y = NthNext[x] /\ y \in T
        BY <1>1, <3>2
      <4>2. y = <<d + 1, IF IsWorkDay(d) THEN n - 1 ELSE n>>
        BY <2>1, <4>1 DEF NthNext
      <4>3. y[1] = d + 1 /\ y[2] = (IF IsWorkDay(d) THEN n - 1 ELSE n) /\ last = NthWorkDay[y]
        BY <2>1, <2>3, <3>2, <4>2 DEF NthStop
      <4>4. /\ d + 1 <= last /\ IsWorkDay(last) /\ IsFiniteSet(WorkDays(d + 1, last))
            /\ Cardinality(WorkDays(d + 1, last)) = y[2]
        BY <4>1, <4>3
      <4>5. CASE IsWorkDay(d)
        <5>1. WorkDays(d, last) = WorkDays(d + 1, last) \cup {d} /\ d \notin WorkDays(d + 1, last)
          BY <2>2, <4>4, <4>5 DEF WorkDays
        <5>2. PICK S : S = WorkDays(d + 1, last)
          OBVIOUS
        <5>3. IsFiniteSet(S \cup {d}) /\ Cardinality(S \cup {d}) = Cardinality(S) + 1
          BY <4>4, <5>1, <5>2, FS_AddElement
        <5> QED BY <2>2, <4>3, <4>4, <4>5, <5>1, <5>2, <5>3
      <4>6. CASE ~IsWorkDay(d)
        <5>1. WorkDays(d, last) = WorkDays(d + 1, last)
          BY <2>2, <4>4, <4>6 DEF WorkDays
        <5> QED BY <2>2, <4>3, <4>4, <4>6, <5>1
      <4> QED BY <4>5, <4>6
    <3> QED BY <3>1, <3>2
  <2>5. Right(x)
    BY <2>1, <2>4
  <2> QED BY <2>5
<1>2. DayAndCount \subseteq T
  <2> HIDE DEF T, Right
  <2> QED BY <1>1, NthRankLess, RankInduct
<1> QED BY <1>2

-----------------------------------------------------------------------------
\* The working hours of a day are whole minutes.
LEMMA HoursInMinutes ==
  /\ HoursPerDay \in Nat /\ (HoursPerDay \div MinuteUnits) \in Nat
  /\ (HoursPerDay \div MinuteUnits) * MinuteUnits = HoursPerDay
<1>1. PICK m : m = MinuteUnits /\ m \in Nat /\ m > 0
  BY PlanningAssumption
<1>2. Open \in Nat /\ Close \in Nat /\ Open < Close /\ Open % m = 0 /\ Close % m = 0
  BY <1>1, PlanningAssumption
<1>3. PICK i, j \in Nat : Open = i * m /\ Close = j * m
  BY <1>1, <1>2, Multiple
<1>4. PICK h : h = HoursPerDay /\ h = Close - Open /\ h \in Nat /\ h > 0
  BY <1>2 DEF HoursPerDay
<1>5. h = (j - i) * m
  BY <1>1, <1>3, <1>4
<1>6. j - i \in Nat
  <2> SUFFICES ASSUME j - i < 0 PROVE FALSE
    OBVIOUS
  <2>1. i - j \in Nat /\ (i - j) * m = 0 - (j - i) * m
    BY <1>1
  <2>2. (i - j) * m >= 0
    BY <1>1, <2>1
  <2> QED BY <1>4, <1>5, <2>1, <2>2
<1>7. PICK k : k = j - i /\ k \in Nat /\ h = k * m
  BY <1>5, <1>6
<1>8. h \div m = k
  BY <1>1, <1>7
<1> QED BY <1>1, <1>4, <1>7, <1>8

\* A moment at which no minute of working time has begun.
LEMMA NoMinuteBegun ==
  ASSUME NEW x \in Moment, Leeway(x[1]) = 0
  PROVE  Whole(x)
<1>1. PICK t, m, day : t = x[1] /\ m = MinuteUnits /\ day = DayOf(x[1])
  OBVIOUS
<1>2. t \in Nat /\ m \in Nat /\ m > 0 /\ day \in Nat /\ OpenOf(day) \in Nat /\ CloseOf(day) \in Nat
  <2>1. t \in Nat /\ m \in Nat /\ m > 0 /\ day = DayOf(t)
    BY <1>1, MomentFacts, PlanningAssumption
  <2> QED BY <2>1, DayOfMoment
<1>3. CASE t <= OpenOf(day)
  BY <1>1, <1>3, WholeDay
<1>4. CASE OpenOf(day) < t
  <2> SUFFICES ASSUME OpenAt(x) PROVE Rest(x) = Available(x) * m
    BY <1>1 DEF Whole
  <2>1. IsWorkingUnit(t)
    BY <1>1, <1>2, <1>4 DEF OpenAt, IsWorkingUnit
  <2>2. t % m = 0
    BY <1>1, <1>2, <2>1 DEF Leeway
  <2>3. DayLength \in Nat /\ Close \in Nat /\ DayLength % m = 0 /\ Close % m = 0
    BY <1>1, PlanningAssumption
  <2>4. PICK i, j, k \in Nat : t = i * m /\ DayLength = j * m /\ Close = k * m
    <3>1. \E i \in Nat : t = i * m
      BY <1>2, <2>2, Multiple
    <3>2. \E j \in Nat : DayLength = j * m
      BY <1>2, <2>3, Multiple
    <3>3. \E k \in Nat : Close = k * m
      BY <1>2, <2>3, Multiple
    <3> QED BY <3>1, <3>2, <3>3
  <2>5. CloseOf(day) = (day * j + k) * m /\ day * j \in Nat
    <3>1. day * (j * m) = (day * j) * m /\ day * j \in Nat
      BY <1>2
    <3>2. (day * j + k) * m = (day * j) * m + k * m
      BY <1>2, <3>1
    <3> QED BY <2>4, <3>1, <3>2 DEF CloseOf
  <2>6. PICK c : c = day * j + k /\ c \in Nat /\ CloseOf(day) = c * m
    BY <2>5
  <2>7. Rest(x) = CloseOf(day) - t /\ CloseOf(day) - t \in Nat /\ CloseOf(day) - t > 0
    <3>1. From(x) = t
      BY <1>1, <1>2, <1>4 DEF From, Later
    <3> QED BY <1>1, <1>2, <3>1, OpenFacts DEF Rest
  <2>8. Rest(x) = (c - i) * m
    BY <1>2, <2>4, <2>6, <2>7
  <2>9. c - i \in Nat
    <3> SUFFICES ASSUME c - i < 0 PROVE FALSE
      BY <2>4, <2>6
    <3>1. i - c \in Nat /\ (i - c) * m = 0 - (c - i) * m
      BY <1>2, <2>4, <2>6
    <3>2. (i - c) * m >= 0
      BY <1>2, <3>1
    <3> QED BY <1>2, <2>7, <2>8, <3>1, <3>2
  <2>10. Available(x) = c - i
    BY <1>1, <2>7, <2>8, <2>9, Rounding DEF Available
  <2> QED BY <2>8, <2>10
<1> QED BY <1>2, <1>3, <1>4

\* A ticket started at some moment is due when its points in working days are worked, up to
\* the half of a minute that has begun; ...
LEMMA DueAtIsExact ==
  ASSUME NEW start \in Nat, NEW p \in Points
  PROVE  LET worked == 2 * UnitsBetween(start, DueAt(start, p))
             all == 2 * p * HoursPerDay
         IN  /\ DueAt(start, p) \in Nat /\ start <= DueAt(start, p)
             /\ all \in Nat /\ Leeway(start) \in Nat
             /\ UnitsBetween(start, DueAt(start, p)) \in Nat
             /\ worked <= all + Leeway(start) /\ worked >= all - Leeway(start)
<1>1. p \in Nat /\ MinuteUnits \in Nat
  BY PlanningAssumption
<1>2. PICK h, k, m : h = HoursPerDay /\ k = HoursPerDay \div MinuteUnits /\ m = MinuteUnits
  OBVIOUS
<1>3. h \in Nat /\ k \in Nat /\ m \in Nat /\ k * m = h
  BY <1>1, <1>2, HoursInMinutes
<1>4. p * k \in Nat /\ p * h \in Nat /\ (p * k) * m = p * h /\ 2 * p * h = 2 * (p * h)
  BY <1>1, <1>3
<1>5. PICK x : x = <<start, p * k>>
  OBVIOUS
<1>6. x \in Moment /\ x[1] = start /\ x[2] = p * k
  BY <1>4, <1>5 DEF Moment
<1>7. PICK finish : finish = DueAt(start, p) /\ finish = DueFrom[x]
  BY <1>2, <1>5 DEF DueAt
<1>8. finish \in Nat
  BY <1>6, <1>7, DueFromRule
<1>9. PICK worked : worked = UnitsBetween(start, finish) /\ worked \in Nat
  BY <1>8, UnitsFinite
<1>10. /\ start <= finish
       /\ 2 * worked <= 2 * (x[2] * MinuteUnits) + MinuteUnits
       /\ 2 * (x[2] * MinuteUnits) <= 2 * worked + MinuteUnits
       /\ Whole(x) => 2 * worked = 2 * (x[2] * MinuteUnits)
  BY <1>6, <1>7, <1>9, DueIsExact
<1>11. x[2] * MinuteUnits = p * h
  BY <1>2, <1>4, <1>6
<1>12. PICK all : all = p * h /\ all \in Nat /\ 2 * p * HoursPerDay = 2 * all
  BY <1>2, <1>4
<1>13. Leeway(start) = 0 \/ Leeway(start) = m
  BY <1>2 DEF Leeway
<1>14. Leeway(start) = 0 => Whole(x)
  BY <1>6, NoMinuteBegun
<1>15. 2 * worked <= 2 * all + Leeway(start) /\ 2 * worked >= 2 * all - Leeway(start)
  BY <1>2, <1>3, <1>9, <1>10, <1>11, <1>12, <1>13, <1>14
<1> QED BY <1>3, <1>7, <1>8, <1>9, <1>10, <1>12, <1>13, <1>15

\* ... it is called overdue only then, and then at the latest.
LEMMA StateIsRight ==
  ASSUME NEW start \in Nat, NEW t \in Nat, NEW p \in Points
  PROVE  LET state == ScheduleState(start, DueAt(start, p), p, t)
             worked == UnitsBetween(start, t)
         IN  /\ state = "overdue" => 2 * worked >= 2 * p * HoursPerDay - Leeway(start)
             /\ 2 * worked > 2 * p * HoursPerDay + Leeway(start) => state = "overdue"
<1>1. PICK end, all, off, budget : /\ end = DueAt(start, p) /\ all = 2 * p * HoursPerDay
                                   /\ off = Leeway(start) /\ budget = UnitsBetween(start, end)
  OBVIOUS
<1>2. /\ end \in Nat /\ start <= end /\ all \in Nat /\ off \in Nat /\ budget \in Nat
      /\ 2 * budget <= all + off /\ 2 * budget >= all - off
  BY <1>1, DueAtIsExact
<1>3. ScheduleState(start, end, p, t) = "overdue" <=> t > end
  BY DEF ScheduleState
<1>4. ASSUME t > end PROVE 2 * UnitsBetween(start, t) >= all - off
  <2>1. UnitsBetween(start, t) = UnitsBetween(start, end) + UnitsBetween(end, t)
    BY <1>2, <1>4, UnitsSplit
  <2>2. UnitsBetween(end, t) \in Nat
    BY <1>2, UnitsFinite
  <2> QED BY <1>1, <1>2, <2>1, <2>2
<1>5. ASSUME t <= end PROVE ~ (2 * UnitsBetween(start, t) > all + off)
  <2>1. CASE start <= t
    <3>1. UnitsBetween(start, end) = UnitsBetween(start, t) + UnitsBetween(t, end)
      BY <1>2, <1>5, <2>1, UnitsSplit
    <3>2. UnitsBetween(start, t) \in Nat /\ UnitsBetween(t, end) \in Nat
      BY <1>2, UnitsFinite
    <3> QED BY <1>1, <1>2, <3>1, <3>2
  <2>2. CASE t < start
    <3>1. \A u \in Nat : start <= u /\ u < t => ~IsWorkingUnit(u)
      BY <2>2
    <3>2. UnitsBetween(start, t) = 0
      BY <3>1, UnitsNone
    <3> QED BY <1>2, <3>2
  <2> QED BY <2>1, <2>2
<1>6. t > end \/ t <= end
  BY <1>2
<1> QED BY <1>1, <1>3, <1>4, <1>5, <1>6

\* At any time, for a ticket started at any time before or not at all.
LEMMA CalendarRight ==
  ASSUME now \in Nat, started \in Nat \cup {None}
  PROVE  CalendarExact
<1>1. \A p \in Points :
        LET worked == UnitsBetween(now, DueAt(now, p))
        IN  /\ 2 * worked <= 2 * p * HoursPerDay + Leeway(now)
            /\ 2 * worked >= 2 * p * HoursPerDay - Leeway(now)
  BY DueAtIsExact
<1>2. ASSUME started # None
      PROVE  /\ Worked[<<started, now>>] = UnitsBetween(started, now)
             /\ \A p \in Points :
                  LET state == ScheduleState(started, DueAt(started, p), p, now)
                      worked == UnitsBetween(started, now)
                  IN  /\ state = "overdue" => 2 * worked >= 2 * p * HoursPerDay - Leeway(started)
                      /\ 2 * worked > 2 * p * HoursPerDay + Leeway(started) => state = "overdue"
  <2>1. started \in Nat
    BY <1>2
  <2>2. PICK x : x = <<started, now>>
    OBVIOUS
  <2>3. x \in Moment /\ x[1] = started /\ x[2] = now
    BY <2>1, <2>2 DEF Moment
  <2>4. Worked[<<started, now>>] = UnitsBetween(started, now)
    BY <2>2, <2>3, WorkedIsExact
  <2> QED BY <2>1, <2>4, StateIsRight
<1>3. LET last == NthWorkDay[<<DayOf(now), SprintDays>>]
      IN  IsWorkDay(last) /\ Cardinality({d \in DayOf(now) .. last : IsWorkDay(d)}) = SprintDays
  <2>1. DayOf(now) \in Nat /\ SprintDays \in Nat \ {0}
    BY DayOfMoment, PlanningAssumption
  <2>2. PICK x : x = <<DayOf(now), SprintDays>>
    OBVIOUS
  <2>3. x \in DayAndCount /\ x[1] = DayOf(now) /\ x[2] = SprintDays
    BY <2>1, <2>2 DEF DayAndCount
  <2>4. IsWorkDay(NthWorkDay[x]) /\ Cardinality(WorkDays(DayOf(now), NthWorkDay[x])) = SprintDays
    BY <2>3, NthIsExact
  <2> QED BY <2>2, <2>4 DEF WorkDays
<1> QED BY <1>1, <1>2, <1>3 DEF CalendarExact

\* Whatever the calendar and the points, a ticket is due when they have been worked, to the
\* half minute if it was started within one; the scan counts what was worked, and calls a
\* ticket overdue no sooner than its budget is used up and no later, to that half minute; a
\* sprint holds its working days (schedule.ts).
THEOREM CalendarStands == PlanningSpec => []CalendarExact
<1> DEFINE Clock == now \in Instant /\ started \in Instant \cup {None}
<1>1. PlanningInit => Clock
  BY PlanningAssumption DEF PlanningInit, Instant
<1>2. Clock /\ [PlanningNext]_planningVars => Clock'
  <2> SUFFICES ASSUME Clock, [PlanningNext]_planningVars PROVE Clock'
    OBVIOUS
  <2>1. CASE Tick
    BY <2>1, PlanningAssumption DEF Tick, Instant
  <2>2. CASE StartWork
    BY <2>2 DEF StartWork
  <2>3. CASE PlanningNext /\ ~Tick /\ ~StartWork
    BY <2>3 DEF PlanningNext, EndWork, PlannerReads, PlannerLooks, PlannerWrites, PlannerDates,
                PatchReads, PatchWrites, PatchTells, ScanReads, ScanWrites, ScanTells
  <2>4. CASE UNCHANGED planningVars
    BY <2>4 DEF planningVars
  <2> QED BY <2>1, <2>2, <2>3, <2>4
<1>3. Clock => CalendarExact
  <2>1. Instant \subseteq Nat
    BY PlanningAssumption DEF Instant
  <2> QED BY <2>1, CalendarRight
<1> QED BY <1>1, <1>2, <1>3, PTL DEF PlanningSpec
=============================================================================
