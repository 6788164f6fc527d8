---------------------------- MODULE TicketEvents ----------------------------
(***************************************************************************)
(* The hash chain of one ticket's events (services/tickets/ticketEvents.ts *)
(* and the trigger of V17__ticket_events.sql), beside the writes of the    *)
(* ticket's status that the events are there to tell.                      *)
(*                                                                         *)
(* Four kinds of call work on the ticket.  A "transition" (applyTransition)*)
(* locks the row, updates it and appends its event within its transaction, *)
(* behind a savepoint.  A "patch" (updateTicket with a status) reads the   *)
(* ticket, appends its event in a transaction of its own, cancels the runs *)
(* and updates the row whatever has become of it.  A "note" is any of the  *)
(* other appends, in a transaction of its own.  An "agent" write           *)
(* (agentUpdateTicketStatus) sets the status and appends nothing.  One     *)
(* action per statement.  An insert takes KEY SHARE of the ticket's row for*)
(* its foreign key, so it waits for a transition that holds the row, which *)
(* may wait for the advisory lock that the appending transaction holds.    *)
(***************************************************************************)
EXTENDS Naturals, Sequences, SequencesExt

CONSTANTS Call,          \* calls, each made once
          Nobody,
          KindOf,        \* what each call is
          Status,
          Backlog,       \* the status of a new ticket
          Ready,         \* ready_for_dev
          HumanStatus,   \* the statuses that no agent owns
          Legal,         \* <<from, to>> of the moves of ticketPipeline
          NoHash,        \* the prev_hash of the first event
          MaxFaults      \* bound of the model: statements that throw

ASSUME TicketEventsAssumption ==
  /\ Nobody \notin Call
  /\ KindOf \in [Call -> {"transition", "patch", "note", "agent"}]
  /\ {Backlog, Ready} \subseteq Status /\ HumanStatus \subseteq Status
  /\ Legal \subseteq Status \X Status
  /\ MaxFaults \in Nat

VARIABLES
  status,     \* tickets.status, committed
  events,     \* the ticket's committed rows of ticket_events, in order of seq
  rowLock,    \* the transition that holds the row FOR UPDATE
  keyShare,   \* the appender in a transaction of its own that holds KEY SHARE
  chainLock,  \* the holder of the advisory lock events:<ticket>
  at,         \* where each call stands
  from,       \* the status it read
  to,         \* the status it wants
  last,       \* the seq and hash its SELECT found
  pend,       \* the row it has inserted and not committed, as a sequence
  tries,      \* how often its append was refused
  untold,     \* history: agent writes, patches overtaken or cut short
  faults      \* history: how many statements threw

eventVars == <<status, events, rowLock, keyShare, chainLock, at, from, to, last,
               pend, tries, untold, faults>>

Stage == {"new", "owned", "telling", "chained", "read", "inserted", "told", "done", "failed"}

-----------------------------------------------------------------------------
\* The digest of an event's fields, the hash of the event before it included.
EventHash(seq, body, prevHash) == <<seq, body, prevHash>>

HashOfLast(rows) == IF rows = <<>> THEN NoHash ELSE rows[Len(rows)].hash
LastOf(rows) == [seq |-> Len(rows), hash |-> HashOfLast(rows)]

IsStatusChange(body) == body.type = "status_change"
Body(c) ==
  IF KindOf[c] = "note" THEN [type |-> "note", by |-> c]
  ELSE [type |-> "status_change", by |-> c, from |-> from[c], to |-> to[c]]

Row(c) ==
  LET seq == last[c].seq + 1
  IN  [seq |-> seq, body |-> Body(c), prevHash |-> last[c].hash,
       hash |-> EventHash(seq, Body(c), last[c].hash)]

VerifyChain(rows) ==
  \A i \in 1 .. Len(rows) :
    /\ rows[i].prevHash = (IF i = 1 THEN NoHash ELSE rows[i - 1].hash)
    /\ rows[i].hash = EventHash(rows[i].seq, rows[i].body, rows[i].prevHash)

EventsInit ==
  /\ status = Backlog
  /\ events = <<>>
  /\ rowLock = Nobody /\ keyShare = Nobody /\ chainLock = Nobody
  /\ at = [c \in Call |-> "new"]
  /\ from = [c \in Call |-> Backlog] /\ to = [c \in Call |-> Backlog]
  /\ last = [c \in Call |-> LastOf(<<>>)]
  /\ pend = [c \in Call |-> <<>>]
  /\ tries = [c \in Call |-> 0]
  /\ untold = {}
  /\ faults = 0

-----------------------------------------------------------------------------
GoesTo(c, stage) == at' = [at EXCEPT ![c] = stage]

\* What a transaction of c holds is freed when it ends, however it ends.
Frees(c) ==
  /\ rowLock' = IF rowLock = c THEN Nobody ELSE rowLock
  /\ keyShare' = IF keyShare = c THEN Nobody ELSE keyShare
  /\ chainLock' = IF chainLock = c THEN Nobody ELSE chainLock

\* The patches that have read the ticket and not yet written it.
UnderWay == {p \in Call : KindOf[p] = "patch"
                          /\ at[p] \in {"telling", "chained", "read", "inserted", "told"}}
\* Another's write of the status overtakes them.
Overtakes(c) == untold' = untold \cup (UnderWay \ {c})

FailsWithoutRollback(c) == GoesTo(c, "failed") /\ UNCHANGED <<pend, rowLock, keyShare, chainLock>>
Fails(c) == GoesTo(c, "failed") /\ pend' = [pend EXCEPT ![c] = <<>>] /\ Frees(c)

-----------------------------------------------------------------------------
\* applyTransition: SELECT ... FOR UPDATE OF t.
LockRow(c) ==
  /\ KindOf[c] = "transition" /\ at[c] = "new"
  /\ rowLock = Nobody /\ keyShare = Nobody
  /\ rowLock' = c
  /\ from' = [from EXCEPT ![c] = status]
  /\ GoesTo(c, "owned")
  /\ UNCHANGED <<status, events, keyShare, chainLock, to, last, pend, tries, untold, faults>>

\* UPDATE ... AND status = $8, with the effects: a move the table has not, or a
\* status that is not the one read, throws and rolls back.
UpdateRow(c) ==
  /\ KindOf[c] = "transition" /\ at[c] = "owned"
  /\ \/ \E next \in Status :
          /\ <<from[c], next>> \in Legal /\ status = from[c]
          /\ to' = [to EXCEPT ![c] = next]
          /\ GoesTo(c, "telling")
          /\ UNCHANGED <<rowLock, keyShare, chainLock, pend>>
     \/ Fails(c) /\ UNCHANGED to
  /\ UNCHANGED <<status, events, from, last, tries, untold, faults>>

\* updateTicket: the checks on the ticket as it was read, outside a transaction.
PatchRead(c) ==
  /\ KindOf[c] = "patch" /\ at[c] = "new"
  /\ \E next \in HumanStatus :
       /\ next = Ready => status \in {Backlog, Ready}
       /\ to' = [to EXCEPT ![c] = next]
       /\ GoesTo(c, IF next = status THEN "done" ELSE "telling")
  /\ from' = [from EXCEPT ![c] = status]
  /\ UNCHANGED <<status, events, rowLock, keyShare, chainLock, last, pend, tries, untold, faults>>

\* appendTicketEvent: BEGIN or SAVEPOINT, then the advisory lock.
MayAppend(c) == at[c] = (IF KindOf[c] = "note" THEN "new" ELSE "telling")
TakeChain(c) ==
  /\ KindOf[c] # "agent" /\ MayAppend(c)
  /\ chainLock = Nobody
  /\ chainLock' = c
  /\ GoesTo(c, "chained")
  /\ UNCHANGED <<status, events, rowLock, keyShare, from, to, last, pend, tries, untold, faults>>

\* ORDER BY t.seq DESC LIMIT 1, of what is committed by now.
ReadLast(c) ==
  /\ at[c] = "chained"
  /\ last' = [last EXCEPT ![c] = LastOf(events)]
  /\ GoesTo(c, "read")
  /\ UNCHANGED <<status, events, rowLock, keyShare, chainLock, from, to, pend, tries, untold, faults>>

\* The trigger ticket_events_chain and UNIQUE (ticket_id, seq).
Accepted(c) ==
  /\ Row(c).seq = Len(events) + 1
  /\ Row(c).prevHash = HashOfLast(events)
\* An insert of the same seq that is not committed is waited for.
Collides(c) == \E d \in Call \ {c} : pend[d] # <<>> /\ pend[d][1].seq = Row(c).seq

\* An insert refused is rolled back, to the savepoint or all of it, and the
\* locks taken since then go with it; the third refusal is thrown.
Refused(c) ==
  IF tries[c] < 2
  THEN /\ tries' = [tries EXCEPT ![c] = @ + 1]
       /\ GoesTo(c, IF KindOf[c] = "note" THEN "new" ELSE "telling")
       /\ chainLock' = IF chainLock = c THEN Nobody ELSE chainLock
       /\ UNCHANGED <<rowLock, keyShare, pend>>
  ELSE Fails(c) /\ tries' = [tries EXCEPT ![c] = @ + 1]

InsertAndUnlock(c) ==
  /\ at[c] = "read"
  /\ rowLock \in {Nobody, c} /\ ~Collides(c)
  /\ IF Accepted(c)
     THEN /\ pend' = [pend EXCEPT ![c] = <<Row(c)>>]
          /\ keyShare' = IF KindOf[c] = "transition" THEN keyShare ELSE c
          /\ chainLock' = Nobody
          /\ GoesTo(c, "inserted")
          /\ UNCHANGED <<rowLock, tries>>
     ELSE Refused(c)
  /\ UNCHANGED <<status, events, from, to, last, untold, faults>>
Insert(c) ==
  /\ at[c] = "read"
  /\ rowLock \in {Nobody, c} /\ ~Collides(c)
  /\ IF Accepted(c)
     THEN /\ pend' = [pend EXCEPT ![c] = <<Row(c)>>]
          /\ keyShare' = IF KindOf[c] = "transition" THEN keyShare ELSE c
          /\ GoesTo(c, "inserted")
          /\ UNCHANGED <<rowLock, chainLock, tries>>
     ELSE Refused(c)
  /\ UNCHANGED <<status, events, from, to, last, untold, faults>>

\* COMMIT: of the event alone, or of the transition with it.
Commit(c) ==
  /\ at[c] = "inserted"
  /\ events' = events \o pend[c]
  /\ pend' = [pend EXCEPT ![c] = <<>>]
  /\ Frees(c)
  /\ IF KindOf[c] = "transition"
     THEN status' = to[c] /\ Overtakes(c)
     ELSE UNCHANGED <<status, untold>>
  /\ GoesTo(c, IF KindOf[c] = "patch" THEN "told" ELSE "done")
  /\ UNCHANGED <<from, to, last, tries, faults>>

\* updateTicket, once the runs are cancelled: UPDATE tickets, no condition on
\* the status.  KEY SHARE does not stop it, FOR UPDATE does.
PatchWrite(c) ==
  /\ KindOf[c] = "patch" /\ at[c] = "told"
  /\ rowLock = Nobody
  /\ status' = to[c]
  /\ Overtakes(c)
  /\ GoesTo(c, "done")
  /\ UNCHANGED <<events, rowLock, keyShare, chainLock, from, to, last, pend, tries, faults>>

\* agentUpdateTicketStatus: any status, no event.
AgentWrite(c) ==
  /\ KindOf[c] = "agent" /\ at[c] = "new"
  /\ rowLock = Nobody
  /\ \E next \in Status : status' = next
  /\ untold' = untold \cup UnderWay \cup {c}
  /\ GoesTo(c, "done")
  /\ UNCHANGED <<events, rowLock, keyShare, chainLock, from, to, last, pend, tries, faults>>

\* Postgres ends a deadlock by aborting one of the two; 40P01 is not retried.
Deadlocked(c, d) ==
  /\ rowLock = c /\ at[c] = "telling"
  /\ chainLock = d /\ at[d] = "read" /\ d # c
BreakDeadlock(c, d) ==
  /\ Deadlocked(c, d)
  /\ Fails(c) \/ Fails(d)
  /\ UNCHANGED <<status, events, from, to, last, tries, untold, faults>>

\* A statement throws, or the connection is lost.
ThrowAfterAppend(c) ==
  /\ at[c] \notin {"new", "done", "failed"}
  /\ faults < MaxFaults /\ faults' = faults + 1
  /\ Fails(c)
  /\ events' = events \o pend[c]
  /\ untold' = IF at[c] = "told" THEN untold \cup {c} ELSE untold
  /\ UNCHANGED <<status, from, to, last, tries>>
Throw(c) ==
  /\ at[c] \notin {"new", "done", "failed"}
  /\ faults < MaxFaults /\ faults' = faults + 1
  /\ Fails(c)
  /\ untold' = IF at[c] = "told" THEN untold \cup {c} ELSE untold
  /\ UNCHANGED <<status, events, from, to, last, tries>>

Step(c) == LockRow(c) \/ UpdateRow(c) \/ PatchRead(c) \/ TakeChain(c) \/ ReadLast(c)
           \/ Insert(c) \/ Commit(c) \/ PatchWrite(c) \/ AgentWrite(c)

EventsNext ==
  \/ \E c \in Call : Step(c) \/ Throw(c)
  \/ \E c, d \in Call : BreakDeadlock(c, d)

\* A statement that can run does, a lock that is free now and again is had in
\* the end (Postgres queues its waiters), and the deadlock detector runs.
EventsSpec ==
  /\ EventsInit /\ [][EventsNext]_eventVars
  /\ \A c \in Call : SF_eventVars(Step(c))
  /\ WF_eventVars(\E c, d \in Call : BreakDeadlock(c, d))

-----------------------------------------------------------------------------
BodyType ==
  [type : {"note"}, by : Call] \cup [type : {"status_change"}, by : Call, from : Status, to : Status]

\* Who holds which lock, and what a call has inserted, follows from its stage.
EventsTypeOK ==
  /\ status \in Status
  /\ at \in [Call -> Stage]
  /\ from \in [Call -> Status] /\ to \in [Call -> Status]
  /\ rowLock \in {c \in Call : KindOf[c] = "transition"} \cup {Nobody}
  /\ {keyShare, chainLock} \subseteq Call \cup {Nobody}
  /\ tries \in [Call -> 0 .. 3] /\ faults \in 0 .. MaxFaults /\ untold \subseteq Call
  /\ \A c \in Call : pend[c] # <<>> <=> at[c] = "inserted"
  /\ \A i \in 1 .. Len(events) : events[i].seq = i /\ events[i].body \in BodyType

\* The log verifies from its first event to its last, and no append is ever
\* refused by the trigger or the unique index: whoever reads the last event
\* is the only one to append until it has committed, transitions that insert
\* behind a savepoint and commit much later included.  The three attempts of
\* appendTicketEvent are never used.
ChainUncontended == VerifyChain(events) /\ \A c \in Call : tries[c] = 0

Changes(rows, n) == {i \in 1 .. n : IsStatusChange(rows[i].body)}
\* The status after the first n rows.
Told(rows, n) == IF Changes(rows, n) = {} THEN Backlog ELSE rows[Max(Changes(rows, n))].body.to
ChangesFollow(rows) ==
  \A i \in 1 .. Len(rows) : IsStatusChange(rows[i].body) => rows[i].body.from = Told(rows, i - 1)

\* Of the status changes in the log each starts where the one before it ended,
\* the first where a ticket starts, and the last ends at the ticket's status:
\* for as long as no agent writes the status, no patch is overtaken between
\* its read and its write or cut short after its event, and at the moments
\* when none is between the two.
StatusIsTold ==
  untold = {} /\ (\A c \in Call : at[c] # "told") =>
    ChangesFollow(events) /\ status = Told(events, Len(events))

\* Every call that has read or locked the ticket ends, whoever holds what it
\* waits for: also through the deadlock of an append of its own, which has the
\* advisory lock and needs the row, with a transition, which has the row and
\* needs the advisory lock.
EveryCallEnds == \A c \in Call : at[c] # "new" ~> at[c] \in {"done", "failed"}
=============================================================================
