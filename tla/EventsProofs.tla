---------------------------- MODULE EventsProofs ------------------------------
(***************************************************************************)
(* Proofs about TicketEvents, for every set of calls and every log.        *)
(* EventsInv is the inductive invariant: who holds which lock, what was read *)
(* under it is still so, and at most one call has told what is not yet     *)
(* written.                                                                *)
(***************************************************************************)
EXTENDS TicketEvents, NaturalsInduction, WellFoundedInduction, TLAPS

\* A set of numbers up to n has a greatest one.
LEMMA GreatestOfSome ==
  ASSUME NEW n \in Nat, NEW S \in SUBSET (1 .. n), S # {}
  PROVE  Max(S) \in S /\ \A i \in S : i <= Max(S)
<1> DEFINE Bounds == {k \in Nat : \A i \in S : i <= k}
           Less == OpToRel(<, Nat)
<1>1. n \in Bounds
  OBVIOUS
<1>2. PICK m \in Bounds : \A k \in Bounds : ~ (<<k, m>> \in Less)
  BY <1>1, NatLessThanWellFounded, WFMin
<1>3. \A k \in Bounds : ~ (k < m)
  BY <1>2 DEF OpToRel
<1> HIDE DEF Less
<1>4. m \in S
  <2>1. SUFFICES ASSUME m \notin S PROVE FALSE
    OBVIOUS
  <2>2. m >= 1
    <3>1. PICK i \in S : TRUE
      OBVIOUS
    <3> QED BY <3>1
  <2>3. m - 1 \in Bounds
    BY <2>1, <2>2
  <2> QED BY <1>3, <2>2, <2>3
<1>5. \E x \in S : \A y \in S : x >= y
  BY <1>4
<1> QED BY <1>5 DEF Max

\* One more row: the rows before it stay, and so does what they tell.
LEMMA OneMore ==
  ASSUME NEW S, NEW rows \in Seq(S), NEW row
  PROVE  LET more == rows \o <<row>>
         IN  /\ more \in Seq(S \cup {row})
             /\ Len(more) = Len(rows) + 1
             /\ \A i \in 1 .. Len(rows) : more[i] = rows[i]
             /\ more[Len(rows) + 1] = row
OBVIOUS

\* What the log tells after one more row: what the row says, if it changes the status.
LEMMA ToldOfMore ==
  ASSUME NEW S, NEW rows \in Seq(S), NEW row
  PROVE  LET more == rows \o <<row>>
             len == Len(rows)
         IN  /\ \A n \in 0 .. len : Told(more, n) = Told(rows, n)
             /\ Told(more, len + 1) = IF IsStatusChange(row.body) THEN row.body.to ELSE Told(rows, len)
<1> DEFINE more == rows \o <<row>>
           len == Len(rows)
<1>1. /\ len \in Nat /\ Len(more) = len + 1
      /\ \A i \in 1 .. len : more[i] = rows[i]
      /\ more[len + 1] = row
  BY OneMore
<1> HIDE DEF more, len
<1>2. ASSUME NEW n \in 0 .. len PROVE Changes(more, n) = Changes(rows, n)
  BY <1>1 DEF Changes
<1>3. ASSUME NEW n \in 0 .. len PROVE Told(more, n) = Told(rows, n)
  <2>1. CASE Changes(rows, n) = {}
    BY <1>2, <2>1 DEF Told
  <2>2. CASE Changes(rows, n) # {}
    <3>1. n \in Nat /\ Changes(rows, n) \in SUBSET (1 .. n)
      BY <1>1 DEF Changes
    <3>2. Max(Changes(rows, n)) \in 1 .. n
      BY <2>2, <3>1, GreatestOfSome
    <3>3. more[Max(Changes(rows, n))] = rows[Max(Changes(rows, n))]
      BY <1>1, <3>2
    <3> QED BY <1>2, <2>2, <3>3 DEF Told
  <2> QED BY <2>1, <2>2
<1>4. ASSUME IsStatusChange(row.body) PROVE Told(more, len + 1) = row.body.to
  <2>1. Max(Changes(more, len + 1)) = len + 1
    <3>1. len + 1 \in Changes(more, len + 1)
      BY <1>1, <1>4 DEF Changes
    <3>2. len + 1 \in Nat /\ Changes(more, len + 1) \in SUBSET (1 .. len + 1)
      BY <1>1 DEF Changes
    <3>3. /\ Max(Changes(more, len + 1)) \in Changes(more, len + 1)
          /\ \A i \in Changes(more, len + 1) : i <= Max(Changes(more, len + 1))
      BY <3>1, <3>2, GreatestOfSome
    <3> QED BY <1>1, <3>1, <3>2, <3>3
  <2>2. Changes(more, len + 1) # {}
    BY <1>1, <1>4 DEF Changes
  <2> QED BY <1>1, <1>4, <2>1, <2>2 DEF Told
<1>5. ASSUME ~IsStatusChange(row.body) PROVE Told(more, len + 1) = Told(rows, len)
  <2>1. Changes(more, len + 1) = Changes(more, len)
    BY <1>1, <1>5 DEF Changes
  <2>2. Told(more, len + 1) = Told(more, len) /\ Told(more, len) = Told(rows, len)
    BY <1>1, <1>3, <2>1 DEF Told
  <2> QED BY <1>5, <2>2
<1> QED BY <1>3, <1>4, <1>5 DEF more, len

-----------------------------------------------------------------------------
Holding == {"chained", "read", "inserted"}
InTransition == {"owned", "telling"} \cup Holding

\* The stages of each kind of call.
StageOf ==
  [transition |-> {"new", "done", "failed"} \cup InTransition,
   patch |-> {"new", "telling", "told", "done", "failed"} \cup Holding,
   note |-> {"new", "done", "failed"} \cup Holding,
   agent |-> {"new", "done"}]

EventsTyped ==
  /\ status \in Status
  /\ \A c \in Call : at[c] \in StageOf[KindOf[c]]
  /\ DOMAIN at = Call /\ DOMAIN last = Call /\ DOMAIN pend = Call
  /\ from \in [Call -> Status] /\ to \in [Call -> Status]
  /\ untold \subseteq Call
  /\ \E S : events \in Seq(S)

\* The locks are those that the stages of the calls say.
LocksByStage ==
  \A c \in Call :
    /\ chainLock = c <=> at[c] \in Holding
    /\ rowLock = c <=> KindOf[c] = "transition" /\ at[c] \in InTransition

\* Whoever has read the last event has read what is the last event still, and
\* has inserted what follows it.
LastIsCurrent ==
  \A c \in Call :
    /\ at[c] \in {"read", "inserted"} => last[c] = LastOf(events)
    /\ pend[c] = IF at[c] = "inserted" THEN <<Row(c)>> ELSE <<>>

\* A transition has the status it has read under its lock, a patch too until
\* somebody overtakes it.
FromIsCurrent ==
  /\ \A c \in Call : rowLock = c => from[c] = status
  /\ untold = {} => \A c \in UnderWay : from[c] = status

\* The log tells the status, or what the one patch that has told its change and
\* not yet made it will make of the status.
AtMostOneTold == \A c, d \in Call : at[c] = "told" /\ at[d] = "told" => c = d
LogIsAhead ==
  untold = {} /\ AtMostOneTold =>
    /\ ChangesFollow(events)
    /\ (\A c \in Call : at[c] # "told") => status = Told(events, Len(events))
    /\ \A c \in Call : at[c] = "told" => to[c] = Told(events, Len(events))

ChainInv ==
  /\ EventsTyped /\ LocksByStage /\ LastIsCurrent
  /\ ChainUncontended
TellingInv == FromIsCurrent /\ LogIsAhead
EventsInv == ChainInv /\ TellingInv

\* No call has begun: the invariant holds at the start.
LEMMA EventsInvInit == EventsInit => EventsInv
<1> SUFFICES ASSUME EventsInit PROVE EventsInv
  OBVIOUS
<1> USE DEF EventsInit
<1>1. events \in Seq({}) /\ Len(events) = 0
  OBVIOUS
<1>2. \A c \in Call : KindOf[c] \in {"transition", "patch", "note", "agent"}
  BY TicketEventsAssumption
<1>3. Backlog \in Status /\ Nobody \notin Call
  BY TicketEventsAssumption
<1>4. EventsTyped
  BY <1>1, <1>2, <1>3 DEF EventsTyped, StageOf
<1>5. LocksByStage /\ LastIsCurrent
  BY <1>3 DEF LocksByStage, LastIsCurrent, Holding, InTransition
<1>6. ChainUncontended
  BY <1>1 DEF ChainUncontended, VerifyChain
<1>7. Changes(events, 0) = {}
  BY DEF Changes
<1>8. FromIsCurrent /\ LogIsAhead
  BY <1>1, <1>3, <1>7 DEF FromIsCurrent, LogIsAhead, UnderWay, ChangesFollow, Told
<1> QED BY <1>4, <1>5, <1>6, <1>8 DEF EventsInv, ChainInv, TellingInv

\* One holder of the chain at a time, and one transition.
LEMMA OneHolder ==
  ASSUME ChainInv, NEW c \in Call, NEW d \in Call, c # d
  PROVE  /\ ~ (at[c] \in Holding /\ at[d] \in Holding)
         /\ KindOf[c] = "transition" /\ at[c] \in InTransition =>
              ~ (KindOf[d] = "transition" /\ at[d] \in InTransition)
BY DEF ChainInv, LocksByStage

\* The trigger accepts what whoever has read the last event inserts.
LEMMA AlwaysAccepted ==
  ASSUME ChainInv, NEW c \in Call, at[c] = "read"
  PROVE  Accepted(c)
<1>1. last[c] = LastOf(events)
  BY DEF ChainInv, LastIsCurrent
<1> QED BY <1>1 DEF Accepted, Row, LastOf

\* Steps of a call that leave the log and the status alone.
LEMMA QuietChain ==
  ASSUME ChainInv, NEW c \in Call, NEW stage \in StageOf[KindOf[c]],
         GoesTo(c, stage), UNCHANGED <<status, events, tries>>,
         from' \in [Call -> Status], to' \in [Call -> Status],
         \A d \in Call \ {c} : from'[d] = from[d] /\ to'[d] = to[d] /\ last'[d] = last[d] /\ pend'[d] = pend[d],
         DOMAIN last' = Call, DOMAIN pend' = Call, untold' \subseteq Call,
         stage \in Holding => chainLock' = c,
         stage \notin Holding => chainLock' = IF chainLock = c THEN Nobody ELSE chainLock,
         at[c] \notin Holding /\ stage \in Holding => chainLock = Nobody,
         KindOf[c] = "transition" /\ stage \in InTransition => rowLock' = c,
         ~(KindOf[c] = "transition" /\ stage \in InTransition) => rowLock' = IF rowLock = c THEN Nobody ELSE rowLock,
         rowLock' # rowLock => rowLock \in {c, Nobody},
         stage \in {"read", "inserted"} => last'[c] = LastOf(events),
         pend'[c] = IF stage = "inserted" THEN <<Row(c)>>' ELSE <<>>
  PROVE  ChainInv'
<1>1. at'[c] = stage /\ \A d \in Call \ {c} : at'[d] = at[d]
  BY DEF GoesTo, ChainInv, EventsTyped
<1>2. EventsTyped'
  BY <1>1 DEF ChainInv, EventsTyped, GoesTo
<1>3. LocksByStage'
  BY <1>1, TicketEventsAssumption DEF ChainInv, LocksByStage
<1>4. LastIsCurrent'
  BY <1>1 DEF ChainInv, LastIsCurrent, Row, Body
<1>5. ChainUncontended'
  BY DEF ChainInv, ChainUncontended
<1> QED BY <1>2, <1>3, <1>4, <1>5 DEF ChainInv

\* The same of what the log tells: nobody comes to have told, and who leaves that
\* stage is counted among the untold.
LEMMA QuietTelling ==
  ASSUME TellingInv, UNCHANGED <<status, events>>, untold \subseteq untold',
         \A d \in Call : at'[d] = "told" => at[d] = "told" /\ to'[d] = to[d],
         \A d \in Call : at[d] = "told" /\ at'[d] # "told" => untold' # {},
         \A d \in Call : rowLock' = d => from'[d] = status \/ (rowLock = d /\ from'[d] = from[d]),
         \A d \in UnderWay' : from'[d] = status \/ (d \in UnderWay /\ from'[d] = from[d])
  PROVE  TellingInv'
<1>1. FromIsCurrent'
  BY DEF TellingInv, FromIsCurrent
<1>2. LogIsAhead'
  <2> SUFFICES ASSUME untold' = {}, AtMostOneTold' PROVE LogIsAhead'
    BY DEF LogIsAhead
  <2>1. untold = {} /\ \A d \in Call : at'[d] = "told" <=> at[d] = "told"
    OBVIOUS
  <2>2. AtMostOneTold
    BY <2>1 DEF AtMostOneTold
  <2> QED BY <2>1, <2>2 DEF TellingInv, LogIsAhead
<1> QED BY <1>1, <1>2 DEF TellingInv

\* What the stages and the locks say of one call.
LEMMA AboutCall ==
  ASSUME ChainInv, NEW c \in Call
  PROVE  /\ at[c] \in StageOf[KindOf[c]] /\ KindOf[c] \in {"transition", "patch", "note", "agent"}
         /\ chainLock = c <=> at[c] \in Holding
         /\ rowLock = c <=> KindOf[c] = "transition" /\ at[c] \in InTransition
         /\ pend[c] = IF at[c] = "inserted" THEN <<Row(c)>> ELSE <<>>
         /\ DOMAIN at = Call /\ DOMAIN last = Call /\ DOMAIN pend = Call
         /\ from \in [Call -> Status] /\ to \in [Call -> Status] /\ untold \subseteq Call
         /\ status \in Status
BY TicketEventsAssumption DEF ChainInv, EventsTyped, LocksByStage, LastIsCurrent

\* A call between an owner's lock and its commit is a transition, one about to write a
\* patch's status a patch.
LEMMA KindByStage ==
  ASSUME ChainInv, NEW c \in Call
  PROVE  /\ at[c] \notin {"new", "done"} => KindOf[c] # "agent"
         /\ at[c] = "told" => KindOf[c] = "patch"
<1>1. at[c] \in StageOf[KindOf[c]] /\ KindOf[c] \in {"transition", "patch", "note", "agent"}
  BY AboutCall
<1>2. CASE KindOf[c] = "agent"
  BY <1>1, <1>2 DEF StageOf
<1>3. CASE KindOf[c] = "transition"
  BY <1>1, <1>3 DEF StageOf, InTransition, Holding
<1>4. CASE KindOf[c] = "note"
  BY <1>1, <1>4 DEF StageOf, Holding
<1> QED BY <1>1, <1>2, <1>3, <1>4

\* A call that fails.
LEMMA FailKeeps ==
  ASSUME EventsInv, NEW c \in Call, Fails(c), KindOf[c] # "agent",
         UNCHANGED <<status, events, from, to, last, tries>>,
         untold \subseteq untold', untold' \subseteq Call, at[c] = "told" => untold' # {}
  PROVE  EventsInv'
<1>1. /\ at[c] \in StageOf[KindOf[c]] /\ KindOf[c] \in {"transition", "patch", "note", "agent"}
      /\ DOMAIN at = Call /\ DOMAIN last = Call /\ DOMAIN pend = Call
      /\ from \in [Call -> Status] /\ to \in [Call -> Status]
  BY AboutCall DEF EventsInv
<1>2. /\ GoesTo(c, "failed") /\ pend' = [pend EXCEPT ![c] = <<>>]
      /\ rowLock' = IF rowLock = c THEN Nobody ELSE rowLock
      /\ chainLock' = IF chainLock = c THEN Nobody ELSE chainLock
  BY DEF Fails, Frees
<1>3. at'[c] = "failed" /\ \A d \in Call \ {c} : at'[d] = at[d]
  BY <1>1, <1>2 DEF GoesTo
<1>4. "failed" \in StageOf[KindOf[c]] /\ "failed" \notin Holding /\ "failed" \notin InTransition
  BY <1>1 DEF StageOf, Holding, InTransition
<1>5. ChainInv'
  BY <1>1, <1>2, <1>4, QuietChain DEF EventsInv
<1>6. TellingInv'
  BY <1>2, <1>3, QuietTelling, TicketEventsAssumption DEF EventsInv, UnderWay
<1> QED BY <1>5, <1>6 DEF EventsInv

\* A transition takes the ticket's row.
LEMMA LockRowKeeps ==
  ASSUME EventsInv, NEW c \in Call, LockRow(c)
  PROVE  EventsInv'
<1>1. /\ KindOf[c] = "transition" /\ at[c] = "new" /\ pend[c] = <<>> /\ status \in Status
      /\ DOMAIN at = Call /\ DOMAIN last = Call /\ DOMAIN pend = Call
      /\ from \in [Call -> Status] /\ to \in [Call -> Status] /\ untold \subseteq Call
  BY AboutCall DEF EventsInv, LockRow
<1>2. /\ GoesTo(c, "owned") /\ rowLock = Nobody /\ rowLock' = c
      /\ from' = [from EXCEPT ![c] = status] /\ chainLock # c
      /\ UNCHANGED <<status, events, chainLock, to, last, pend, tries, untold>>
  BY <1>1, AboutCall DEF LockRow, EventsInv, Holding
<1>3. at'[c] = "owned" /\ \A d \in Call \ {c} : at'[d] = at[d]
  BY <1>1, <1>2 DEF GoesTo
<1>4. "owned" \in StageOf[KindOf[c]] /\ "owned" \notin Holding /\ "owned" \in InTransition
  BY <1>1 DEF StageOf, Holding, InTransition
<1>5. ChainInv'
  BY <1>1, <1>2, <1>4, QuietChain DEF EventsInv
<1>6. TellingInv'
  BY <1>1, <1>2, <1>3, QuietTelling, TicketEventsAssumption DEF EventsInv, UnderWay
<1> QED BY <1>5, <1>6 DEF EventsInv

\* It writes the status, or finds that the status does not allow it.
LEMMA UpdateRowKeeps ==
  ASSUME EventsInv, NEW c \in Call, UpdateRow(c)
  PROVE  EventsInv'
<1>1. /\ KindOf[c] = "transition" /\ at[c] = "owned" /\ pend[c] = <<>> /\ rowLock = c /\ chainLock # c
      /\ DOMAIN at = Call /\ DOMAIN last = Call /\ DOMAIN pend = Call
      /\ from \in [Call -> Status] /\ to \in [Call -> Status] /\ untold \subseteq Call
  BY AboutCall DEF EventsInv, UpdateRow, Holding, InTransition
<1>2. CASE Fails(c) /\ UNCHANGED to
  BY <1>1, <1>2, FailKeeps DEF UpdateRow
<1>3. ASSUME NEW next \in Status, to' = [to EXCEPT ![c] = next], GoesTo(c, "telling"),
             UNCHANGED <<rowLock, keyShare, chainLock, pend>>
      PROVE  EventsInv'
  <2>1. UNCHANGED <<status, events, from, last, tries, untold>>
    BY DEF UpdateRow
  <2>2. at'[c] = "telling" /\ \A d \in Call \ {c} : at'[d] = at[d]
    BY <1>1, <1>3 DEF GoesTo
  <2>3. "telling" \in StageOf[KindOf[c]] /\ "telling" \notin Holding /\ "telling" \in InTransition
    BY <1>1 DEF StageOf, Holding, InTransition
  <2>4. ChainInv'
    BY <1>1, <1>3, <2>1, <2>3, QuietChain DEF EventsInv
  <2>5. TellingInv'
    BY <1>1, <1>3, <2>1, <2>2, QuietTelling DEF EventsInv, UnderWay
  <2> QED BY <2>4, <2>5 DEF EventsInv
<1> QED BY <1>2, <1>3 DEF UpdateRow

\* A patch reads the status, without a lock.
LEMMA PatchReadKeeps ==
  ASSUME EventsInv, NEW c \in Call, PatchRead(c)
  PROVE  EventsInv'
<1>1. /\ KindOf[c] = "patch" /\ at[c] = "new" /\ pend[c] = <<>> /\ rowLock # c /\ chainLock # c
      /\ DOMAIN at = Call /\ DOMAIN last = Call /\ DOMAIN pend = Call /\ status \in Status
      /\ from \in [Call -> Status] /\ to \in [Call -> Status] /\ untold \subseteq Call
  BY AboutCall DEF EventsInv, PatchRead, Holding, InTransition
<1>2. PICK stage \in {"done", "telling"}, next \in Status :
        GoesTo(c, stage) /\ to' = [to EXCEPT ![c] = next]
  BY TicketEventsAssumption DEF PatchRead
<1>3. /\ from' = [from EXCEPT ![c] = status]
      /\ UNCHANGED <<status, events, rowLock, keyShare, chainLock, last, pend, tries, untold>>
  BY DEF PatchRead
<1>4. at'[c] = stage /\ \A d \in Call \ {c} : at'[d] = at[d]
  BY <1>1, <1>2 DEF GoesTo
<1>5. stage \in StageOf[KindOf[c]] /\ stage \notin Holding /\ stage \notin {"read", "inserted", "told"}
  BY <1>1 DEF StageOf, Holding
<1>6. ChainInv'
  BY <1>1, <1>2, <1>3, <1>5, QuietChain DEF EventsInv
<1>7. TellingInv'
  BY <1>1, <1>2, <1>3, <1>4, <1>5, QuietTelling DEF EventsInv, UnderWay
<1> QED BY <1>6, <1>7 DEF EventsInv

\* A call takes the chain's lock, ...
LEMMA TakeChainKeeps ==
  ASSUME EventsInv, NEW c \in Call, TakeChain(c)
  PROVE  EventsInv'
<1>1. /\ at[c] = (IF KindOf[c] = "note" THEN "new" ELSE "telling")
      /\ pend[c] = <<>> /\ KindOf[c] \in {"transition", "patch", "note"}
      /\ DOMAIN at = Call /\ DOMAIN last = Call /\ DOMAIN pend = Call
      /\ from \in [Call -> Status] /\ to \in [Call -> Status] /\ untold \subseteq Call
      /\ rowLock = c <=> KindOf[c] = "transition"
  BY AboutCall DEF EventsInv, TakeChain, MayAppend, InTransition
<1>2. /\ GoesTo(c, "chained") /\ chainLock = Nobody /\ chainLock' = c
      /\ UNCHANGED <<status, events, rowLock, keyShare, from, to, last, pend, tries, untold>>
  BY DEF TakeChain
<1>3. at'[c] = "chained" /\ \A d \in Call \ {c} : at'[d] = at[d]
  BY <1>1, <1>2 DEF GoesTo
<1>4. "chained" \in StageOf[KindOf[c]] /\ "chained" \in Holding /\ "chained" \in InTransition
  BY <1>1 DEF StageOf, Holding, InTransition
<1>5. ChainInv'
  BY <1>1, <1>2, <1>4, QuietChain DEF EventsInv
<1>6. TellingInv'
  BY <1>1, <1>2, <1>3, QuietTelling DEF EventsInv, UnderWay
<1> QED BY <1>5, <1>6 DEF EventsInv

\* ... reads the last event, ...
LEMMA ReadLastKeeps ==
  ASSUME EventsInv, NEW c \in Call, ReadLast(c)
  PROVE  EventsInv'
<1>1. /\ at[c] = "chained" /\ pend[c] = <<>> /\ KindOf[c] \in {"transition", "patch", "note"} /\ chainLock = c
      /\ DOMAIN at = Call /\ DOMAIN last = Call /\ DOMAIN pend = Call
      /\ from \in [Call -> Status] /\ to \in [Call -> Status] /\ untold \subseteq Call
      /\ rowLock = c <=> KindOf[c] = "transition"
  <2>1. at[c] = "chained" /\ "chained" \in Holding /\ "chained" \in InTransition
    BY DEF ReadLast, Holding, InTransition
  <2>2. KindOf[c] # "agent"
    BY <2>1, KindByStage DEF EventsInv
  <2> QED BY <2>1, <2>2, AboutCall DEF EventsInv
<1>2. /\ GoesTo(c, "read") /\ last' = [last EXCEPT ![c] = LastOf(events)]
      /\ UNCHANGED <<status, events, rowLock, keyShare, chainLock, from, to, pend, tries, untold>>
  BY DEF ReadLast
<1>3. at'[c] = "read" /\ \A d \in Call \ {c} : at'[d] = at[d]
  BY <1>1, <1>2 DEF GoesTo
<1>4. "read" \in StageOf[KindOf[c]] /\ {"chained", "read"} \subseteq Holding /\ "read" \in InTransition
  BY <1>1 DEF StageOf, Holding, InTransition
<1>5. ChainInv'
  BY <1>1, <1>2, <1>4, QuietChain DEF EventsInv
<1>6. TellingInv'
  BY <1>1, <1>2, <1>3, QuietTelling DEF EventsInv, UnderWay
<1> QED BY <1>5, <1>6 DEF EventsInv

\* ... and inserts its own.
LEMMA InsertKeeps ==
  ASSUME EventsInv, NEW c \in Call, Insert(c)
  PROVE  EventsInv'
<1>1. /\ at[c] = "read" /\ KindOf[c] \in {"transition", "patch", "note"} /\ chainLock = c
      /\ DOMAIN at = Call /\ DOMAIN last = Call /\ DOMAIN pend = Call
      /\ from \in [Call -> Status] /\ to \in [Call -> Status] /\ untold \subseteq Call
      /\ rowLock = c <=> KindOf[c] = "transition"
      /\ last[c] = LastOf(events)
  <2>1. at[c] = "read" /\ "read" \in Holding /\ "read" \in InTransition
    BY DEF Insert, Holding, InTransition
  <2>2. KindOf[c] # "agent"
    BY <2>1, KindByStage DEF EventsInv
  <2>3. last[c] = LastOf(events)
    BY <2>1 DEF EventsInv, ChainInv, LastIsCurrent
  <2> QED BY <2>1, <2>2, <2>3, AboutCall DEF EventsInv
<1>2. /\ GoesTo(c, "inserted") /\ pend' = [pend EXCEPT ![c] = <<Row(c)>>]
      /\ UNCHANGED <<status, events, rowLock, chainLock, from, to, last, tries, untold>>
  BY <1>1, AlwaysAccepted DEF Insert, EventsInv
<1>3. at'[c] = "inserted" /\ (\A d \in Call \ {c} : at'[d] = at[d]) /\ Row(c)' = Row(c)
  BY <1>1, <1>2 DEF GoesTo, Row, Body
<1>4. "inserted" \in StageOf[KindOf[c]] /\ {"read", "inserted"} \subseteq Holding /\ "inserted" \in InTransition
  BY <1>1 DEF StageOf, Holding, InTransition
<1>5. ChainInv'
  BY <1>1, <1>2, <1>3, <1>4, QuietChain DEF EventsInv
<1>6. TellingInv'
  BY <1>1, <1>2, <1>3, QuietTelling DEF EventsInv, UnderWay
<1> QED BY <1>5, <1>6 DEF EventsInv

\* A call fails, and lets go of what it holds.
LEMMA ThrowKeeps ==
  ASSUME EventsInv, NEW c \in Call, Throw(c)
  PROVE  EventsInv'
<1>1. KindOf[c] # "agent"
  BY KindByStage DEF EventsInv, Throw
<1>2. untold \subseteq untold' /\ untold' \subseteq Call /\ (at[c] = "told" => untold' # {})
  BY AboutCall DEF EventsInv, Throw
<1> QED BY <1>1, <1>2, FailKeeps DEF Throw

\* A connection is lost.
LEMMA BreakKeeps ==
  ASSUME EventsInv, NEW c \in Call, NEW d \in Call, BreakDeadlock(c, d)
  PROVE  EventsInv'
<1>1. at[c] = "telling" /\ at[d] = "read" /\ UNCHANGED <<status, events, from, to, last, tries, untold>>
      /\ (Fails(c) \/ Fails(d))
  BY DEF BreakDeadlock, Deadlocked
<1>2. KindOf[c] # "agent" /\ KindOf[d] # "agent" /\ untold \subseteq Call
  BY <1>1, KindByStage, AboutCall DEF EventsInv
<1> QED BY <1>1, <1>2, FailKeeps

\* A write of the status without an event, or by a patch that has told it.
LEMMA WriteKeepsChain ==
  ASSUME EventsInv, NEW c \in Call, PatchWrite(c) \/ AgentWrite(c)
  PROVE  ChainInv'
<1>1. /\ at[c] \in {"told", "new"} /\ pend[c] = <<>> /\ KindOf[c] \in {"patch", "agent"}
      /\ chainLock # c /\ rowLock # c /\ rowLock = Nobody
      /\ DOMAIN at = Call /\ untold \subseteq Call /\ to \in [Call -> Status]
  BY AboutCall DEF EventsInv, PatchWrite, AgentWrite, Holding, InTransition
<1>2. /\ GoesTo(c, "done") /\ status' \in Status /\ untold' \subseteq Call
      /\ UNCHANGED <<events, rowLock, chainLock, from, to, last, pend, tries>>
  BY <1>1 DEF PatchWrite, AgentWrite, Overtakes, UnderWay
<1>3. at'[c] = "done" /\ (\A d \in Call \ {c} : at'[d] = at[d]) /\ DOMAIN at' = Call
  BY <1>1, <1>2 DEF GoesTo
<1>4. "done" \in StageOf[KindOf[c]] /\ "done" \notin Holding /\ "done" \notin InTransition
  BY <1>1 DEF StageOf, Holding, InTransition
<1>5. EventsTyped'
  BY <1>2, <1>3, <1>4 DEF EventsInv, ChainInv, EventsTyped
<1>6. LocksByStage' /\ LastIsCurrent'
  BY <1>1, <1>2, <1>3, <1>4 DEF EventsInv, ChainInv, LocksByStage, LastIsCurrent, Row, Body
<1>7. ChainUncontended'
  BY <1>2 DEF EventsInv, ChainInv, ChainUncontended
<1> QED BY <1>5, <1>6, <1>7 DEF ChainInv

\* A patch writes the status it has told, ...
LEMMA PatchWriteKeeps ==
  ASSUME EventsInv, NEW c \in Call, PatchWrite(c)
  PROVE  EventsInv'
<1>1. /\ KindOf[c] = "patch" /\ at[c] = "told" /\ DOMAIN at = Call /\ rowLock = Nobody
      /\ status' = to[c] /\ untold' = untold \cup (UnderWay \ {c}) /\ GoesTo(c, "done")
      /\ UNCHANGED <<events, rowLock, from, to>>
  BY AboutCall DEF PatchWrite, Overtakes, EventsInv
<1>2. at'[c] = "done" /\ \A d \in Call \ {c} : at'[d] = at[d]
  BY <1>1 DEF GoesTo
<1>3. FromIsCurrent'
  <2>1. UnderWay' = UnderWay \ {c}
    BY <1>1, <1>2 DEF UnderWay
  <2> QED BY <1>1, <2>1, TicketEventsAssumption DEF FromIsCurrent
<1>4. LogIsAhead'
  <2> SUFFICES ASSUME untold' = {} PROVE LogIsAhead'
    BY DEF LogIsAhead
  <2>1. \A d \in Call \ {c} : at[d] # "told"
    <3>1. \A d \in Call : at[d] = "told" => KindOf[d] = "patch"
      BY KindByStage DEF EventsInv
    <3> QED BY <1>1, <3>1 DEF UnderWay
  <2>2. untold = {} /\ AtMostOneTold
    BY <1>1, <2>1 DEF AtMostOneTold
  <2>3. ChangesFollow(events) /\ to[c] = Told(events, Len(events))
    BY <1>1, <2>2 DEF EventsInv, TellingInv, LogIsAhead
  <2>4. \A d \in Call : at'[d] # "told"
    BY <1>2, <2>1
  <2> QED BY <1>1, <2>3, <2>4 DEF LogIsAhead
<1> QED BY <1>3, <1>4, WriteKeepsChain DEF EventsInv, TellingInv

\* ... and an agent's tool one of which nothing is told.
LEMMA AgentWriteKeeps ==
  ASSUME EventsInv, NEW c \in Call, AgentWrite(c)
  PROVE  EventsInv'
<1>1. rowLock' = Nobody /\ untold' # {}
  BY DEF AgentWrite
<1>2. TellingInv'
  BY <1>1, TicketEventsAssumption DEF TellingInv, FromIsCurrent, LogIsAhead
<1> QED BY <1>2, WriteKeepsChain DEF EventsInv

\* COMMIT: nobody else is between reading the last event and committing one.
LEMMA CommitKeeps ==
  ASSUME EventsInv, NEW c \in Call, Commit(c)
  PROVE  EventsInv'
<1> DEFINE stage == IF KindOf[c] = "patch" THEN "told" ELSE "done"
           row == Row(c)
<1>1. /\ at[c] = "inserted" /\ KindOf[c] \in {"transition", "patch", "note"} /\ chainLock = c
      /\ DOMAIN at = Call /\ DOMAIN last = Call /\ DOMAIN pend = Call
      /\ from \in [Call -> Status] /\ to \in [Call -> Status] /\ untold \subseteq Call
      /\ rowLock = c <=> KindOf[c] = "transition"
      /\ last[c] = LastOf(events) /\ pend[c] = <<row>> /\ status \in Status
  <2>1. at[c] = "inserted" /\ "inserted" \in Holding /\ "inserted" \in InTransition
    BY DEF Commit, Holding, InTransition
  <2>2. KindOf[c] # "agent"
    BY <2>1, KindByStage DEF EventsInv
  <2>3. last[c] = LastOf(events)
    BY <2>1 DEF EventsInv, ChainInv, LastIsCurrent
  <2> QED BY <2>1, <2>2, <2>3, AboutCall DEF EventsInv
<1>2. /\ events' = events \o <<row>> /\ pend' = [pend EXCEPT ![c] = <<>>] /\ GoesTo(c, stage)
      /\ rowLock' = (IF rowLock = c THEN Nobody ELSE rowLock) /\ chainLock' = Nobody
      /\ UNCHANGED <<from, to, last, tries>>
      /\ IF KindOf[c] = "transition" THEN status' = to[c] /\ untold' = untold \cup (UnderWay \ {c})
         ELSE UNCHANGED <<status, untold>>
  BY <1>1 DEF Commit, Frees, Overtakes
<1> HIDE DEF stage, row
<1>3. /\ at'[c] = stage /\ \A d \in Call \ {c} : at'[d] = at[d] /\ DOMAIN at' = Call
  BY <1>1, <1>2 DEF GoesTo
<1>4. stage \in StageOf[KindOf[c]] /\ stage \notin Holding \cup InTransition /\ stage # "inserted"
      /\ (stage = "told" <=> KindOf[c] = "patch")
  BY <1>1 DEF StageOf, Holding, InTransition, stage
<1>5. PICK S : events \in Seq(S)
  BY DEF EventsInv, ChainInv, EventsTyped
<1> DEFINE len == Len(events)
<1>6. /\ len \in Nat /\ events' \in Seq(S \cup {row}) /\ Len(events') = len + 1
      /\ \A i \in 1 .. len : events'[i] = events[i]
      /\ events'[len + 1] = row
  BY <1>2, <1>5, OneMore
<1>7. EventsTyped'
  BY <1>1, <1>2, <1>3, <1>4, <1>6 DEF EventsInv, ChainInv, EventsTyped, UnderWay, GoesTo
<1>8. LocksByStage'
  BY <1>1, <1>2, <1>3, <1>4, TicketEventsAssumption DEF EventsInv, ChainInv, LocksByStage
<1>9. LastIsCurrent'
  <2>1. \A d \in Call \ {c} : at[d] \notin Holding
    BY <1>1, OneHolder DEF EventsInv, Holding
  <2>2. \A d \in Call : at'[d] \notin {"read", "inserted"}
    BY <1>3, <1>4, <2>1 DEF Holding
  <2>3. \A d \in Call : pend'[d] = <<>>
    BY <1>1, <1>2, <2>1, AboutCall DEF EventsInv, Holding
  <2> QED BY <2>2, <2>3 DEF LastIsCurrent
<1>10. ChainUncontended'
  <2>1. row.prevHash = HashOfLast(events) /\ row.hash = EventHash(row.seq, row.body, row.prevHash)
    BY <1>1 DEF row, Row, LastOf
  <2>2. VerifyChain(events)
    BY DEF EventsInv, ChainInv, ChainUncontended
  <2>3. ASSUME NEW i \in 1 .. len + 1
        PROVE  /\ events'[i].prevHash = (IF i = 1 THEN NoHash ELSE events'[i - 1].hash)
               /\ events'[i].hash = EventHash(events'[i].seq, events'[i].body, events'[i].prevHash)
    <3>1. CASE i \in 1 .. len
      <4>1. i # 1 => i - 1 \in 1 .. len
        BY <1>6, <3>1
      <4> QED BY <1>6, <2>2, <3>1, <4>1 DEF VerifyChain
    <3>2. CASE i = len + 1
      <4>1. events = <<>> <=> len = 0
        BY <1>5
      <4>2. row.prevHash = IF i = 1 THEN NoHash ELSE events'[i - 1].hash
        BY <1>6, <2>1, <3>2, <4>1 DEF HashOfLast
      <4> QED BY <1>6, <2>1, <3>2, <4>2
    <3> QED BY <1>6, <3>1, <3>2
  <2>4. VerifyChain(events')
    BY <1>6, <2>3 DEF VerifyChain
  <2> QED BY <1>2, <2>4 DEF EventsInv, ChainInv, ChainUncontended
<1>11. FromIsCurrent'
  <2>1. \A d \in Call : rowLock' = d => rowLock = d /\ d # c
    BY <1>2, TicketEventsAssumption
  <2>2. UnderWay' \subseteq UnderWay
    BY <1>1, <1>3, <1>4 DEF UnderWay
  <2>3. CASE KindOf[c] = "transition"
    <3>1. c \notin UnderWay
      BY <2>3 DEF UnderWay
    <3>2. untold' = {} => UnderWay' = {}
      BY <1>2, <2>2, <2>3, <3>1
    <3>3. \A d \in Call : rowLock' # d
      BY <1>1, <2>1, <2>3
    <3> QED BY <3>2, <3>3 DEF FromIsCurrent
  <2>4. CASE KindOf[c] # "transition"
    BY <1>2, <2>1, <2>2, <2>4 DEF EventsInv, TellingInv, FromIsCurrent
  <2> QED BY <2>3, <2>4
<1>12. LogIsAhead'
  <2> SUFFICES ASSUME untold' = {}, AtMostOneTold' PROVE LogIsAhead'
    BY DEF LogIsAhead
  <2>1. untold = {} /\ (KindOf[c] = "transition" => UnderWay \subseteq {c})
    BY <1>2
  <2>2. \A d \in Call \ {c} : at[d] = "told" => at'[d] = "told" /\ KindOf[d] = "patch" /\ d \in UnderWay
    BY <1>3, KindByStage DEF EventsInv, UnderWay
  <2>3. KindOf[c] # "note" => \A d \in Call : at[d] # "told"
    <3>1. CASE KindOf[c] = "transition"
      BY <1>1, <2>1, <2>2, <3>1
    <3>2. CASE KindOf[c] = "patch"
      BY <1>1, <1>3, <1>4, <2>2, <3>2 DEF AtMostOneTold
    <3> QED BY <1>1, <3>1, <3>2
  <2>4. AtMostOneTold
    BY <1>1, <2>2, <1>3 DEF AtMostOneTold
  <2>5. /\ ChangesFollow(events)
        /\ (\A d \in Call : at[d] # "told") => status = Told(events, len)
        /\ \A d \in Call : at[d] = "told" => to[d] = Told(events, len)
    BY <2>1, <2>4 DEF EventsInv, TellingInv, LogIsAhead
  <2>6. /\ \A n \in 0 .. len : Told(events', n) = Told(events, n)
        /\ Told(events', len + 1) = IF IsStatusChange(row.body) THEN row.body.to ELSE Told(events, len)
    BY <1>2, <1>5, ToldOfMore
  <2>7. CASE KindOf[c] = "note"
    <3>1. ~IsStatusChange(row.body)
      BY <2>7 DEF row, Row, Body, IsStatusChange
    <3>2. ChangesFollow(events')
      BY <1>6, <2>5, <2>6, <3>1 DEF ChangesFollow
    <3>3. \A d \in Call : at'[d] = "told" <=> at[d] = "told"
      BY <1>1, <1>3, <1>4, <2>7
    <3> QED BY <1>2, <1>6, <2>5, <2>6, <2>7, <3>1, <3>2, <3>3 DEF LogIsAhead
  <2>8. CASE KindOf[c] # "note"
    <3>1. IsStatusChange(row.body) /\ row.body.from = from[c] /\ row.body.to = to[c]
      BY <2>8 DEF row, Row, Body, IsStatusChange
    <3>2. from[c] = status
      BY <1>1, <2>1, <2>8 DEF EventsInv, TellingInv, FromIsCurrent, UnderWay
    <3>3. status = Told(events, len)
      BY <2>3, <2>5, <2>8
    <3>4. ChangesFollow(events')
      <4> SUFFICES ASSUME NEW i \in 1 .. len + 1, IsStatusChange(events'[i].body)
                   PROVE  events'[i].body.from = Told(events', i - 1)
        BY <1>6 DEF ChangesFollow
      <4>1. i - 1 \in 0 .. len /\ (i - 1 + 1 = i) /\ (i \in 1 .. len \/ i - 1 = len)
        BY <1>6
      <4>2. CASE i \in 1 .. len
        BY <1>6, <2>5, <2>6, <4>1, <4>2 DEF ChangesFollow
      <4>3. CASE i - 1 = len
        BY <1>6, <2>6, <3>1, <3>2, <3>3, <4>1, <4>3
      <4> QED BY <4>1, <4>2, <4>3
    <3>5. \A d \in Call : at'[d] = "told" => d = c
      BY <1>3, <2>3, <2>8
    <3>6. (\A d \in Call : at'[d] # "told") => status' = to[c]
      BY <1>1, <1>2, <1>3, <1>4, <2>8
    <3> QED BY <1>2, <1>6, <2>6, <3>1, <3>4, <3>5, <3>6 DEF LogIsAhead
  <2> QED BY <2>7, <2>8
<1> QED BY <1>7, <1>8, <1>9, <1>10, <1>11, <1>12 DEF EventsInv, ChainInv, TellingInv

\* One step per statement of a call.
LEMMA EventsInvNext == EventsInv /\ [EventsNext]_eventVars => EventsInv'
<1> SUFFICES ASSUME EventsInv, [EventsNext]_eventVars PROVE EventsInv'
  OBVIOUS
<1>1. CASE UNCHANGED eventVars
  <2>1. UNCHANGED eventVars
    BY <1>1
  <2>2. EventsTyped' /\ LocksByStage'
    BY <2>1 DEF eventVars, EventsInv, ChainInv, EventsTyped, LocksByStage
  <2>3. LastIsCurrent' /\ ChainUncontended'
    BY <2>1 DEF eventVars, EventsInv, ChainInv, LastIsCurrent, Row, Body, ChainUncontended
  <2>4. TellingInv'
    BY <2>1 DEF eventVars, EventsInv, TellingInv, FromIsCurrent, UnderWay, LogIsAhead, AtMostOneTold
  <2> QED BY <2>2, <2>3, <2>4 DEF EventsInv, ChainInv
<1>2. CASE EventsNext
  <2>1. ASSUME NEW c \in Call, Step(c) PROVE EventsInv'
    BY <2>1, LockRowKeeps, UpdateRowKeeps, PatchReadKeeps, TakeChainKeeps, ReadLastKeeps,
       InsertKeeps, CommitKeeps, PatchWriteKeeps, AgentWriteKeeps DEF Step
  <2> QED BY <1>2, <2>1, ThrowKeeps, BreakKeeps DEF EventsNext
<1> QED BY <1>1, <1>2

\* No event is refused because another was appended since the last one was read.
THEOREM ChainStands == EventsSpec => []ChainUncontended
<1>1. EventsInv => ChainUncontended
  BY DEF EventsInv, ChainInv
<1> QED BY <1>1, EventsInvInit, EventsInvNext, PTL DEF EventsSpec

\* The log tells the status of the ticket, but for calls that have told and not
\* written, and for writes that tell nothing.
THEOREM LogTells == EventsSpec => []StatusIsTold
<1>1. EventsInv => StatusIsTold
  BY DEF EventsInv, TellingInv, LogIsAhead, StatusIsTold, AtMostOneTold
<1> QED BY <1>1, EventsInvInit, EventsInvNext, PTL DEF EventsSpec
=============================================================================
