--------------------------- MODULE PipelineProofs ---------------------------
(***************************************************************************)
(* Proofs about TicketPipeline, for any number of executors, attempts and  *)
(* fix rounds, and whatever faults and orders there are.                   *)
(***************************************************************************)
EXTENDS TicketPipeline, FiniteSetTheorems, TLAPS

KeyShape == [kind : Activity, n : Nat] \cup [kind : {"retry"}, n : Nat, attempt : Nat]
RowShape == [act : Activity, back : Gate \cup {"none"}, st : RunStatus, attempt : Nat, key : KeyShape]

Handled ==
  /\ at \in [Slot -> {"idle", "work", "moved", "threw", "illegal", "wrote"}]
  /\ doing \in [Slot -> Nat] /\ \A e \in Slot : at[e] # "idle" => doing[e] # 0
  /\ asked \in Nat
  /\ patch.step \in {"none", "cancel", "write"}
  /\ patch.step # "none" => patch.to \in HumanMaySet
  /\ patch.step = "write" => "raced" \in upset
Placed ==
  /\ stage \in Stage /\ runs \in Seq(RowShape) /\ Handled
  /\ \A e \in Slot : doing[e] <= Len(runs)
  /\ asked <= Len(runs)

\* No key is ahead of the count that the next key is made from.
Count(rows, a) == Cardinality({r \in DOMAIN rows : rows[r].act = a})
KeysBelow == \A a \in Activity : \A r \in DOMAIN runs : runs[r].key.kind = a => runs[r].key.n <= Count(runs, a)

\* NeverStranded by a run none of whose executors has reported.
Carrying(r) == Serving(r) /\ \A e \in Slot : doing[e] = r => at[e] # "moved"
Carried == stage \in DOMAIN Serves /\ upset = {} => \E r \in DOMAIN runs : Carrying(r)

PipeInv == Placed /\ KeysBelow /\ Carried /\ TerminalIsQuiet

Events == {"approve", "dispatch", "pr_opened", "dev_failed", "fix_done", "review_passed", "review_changes",
           "qa_passed", "qa_failed", "pr_merged", "pr_closed", "unblock", "reject"}

-----------------------------------------------------------------------------
\* The rows with other statuses and attempts.
SameRows(rows) ==
  /\ rows \in Seq(RowShape) /\ Len(rows) = Len(runs)
  /\ \A r \in DOMAIN runs : rows[r].act = runs[r].act /\ rows[r].key = runs[r].key

\* There are finitely many runs of an activity, a number of them.
LEMMA CountIs ==
  ASSUME NEW rows \in Seq(RowShape), NEW a
  PROVE  /\ IsFiniteSet({r \in DOMAIN rows : rows[r].act = a})
         /\ Count(rows, a) \in Nat
<1>1. DOMAIN rows = 1 .. Len(rows) /\ Len(rows) \in Nat
  OBVIOUS
<1>2. IsFiniteSet(1 .. Len(rows))
  BY <1>1, FS_Interval
<1>3. IsFiniteSet({r \in DOMAIN rows : rows[r].act = a})
  BY <1>1, <1>2, FS_Subset
<1> QED BY <1>3, FS_CardinalityType DEF Count

\* Where only statuses change, the keys stay below the counters.
LEMMA SameRowsKeys ==
  ASSUME Placed, KeysBelow, SameRows(runs')
  PROVE  KeysBelow'
<1>1. DOMAIN runs' = DOMAIN runs
  BY DEF SameRows, Placed
<1>2. \A a : {r \in DOMAIN runs' : runs'[r].act = a} = {r \in DOMAIN runs : runs[r].act = a}
  BY <1>1 DEF SameRows
<1>3. \A a : Count(runs', a) = Count(runs, a)
  BY <1>2 DEF Count
<1> QED BY <1>1, <1>3 DEF KeysBelow, SameRows

\* A status is set in one row.
LEMMA StatusIsSet ==
  ASSUME Placed, NEW r \in DOMAIN runs, NEW st \in RunStatus
  PROVE  /\ SameRows([runs EXCEPT ![r].st = st])
         /\ [runs EXCEPT ![r].st = st][r].st = st
         /\ \A q \in DOMAIN runs \ {r} : [runs EXCEPT ![r].st = st][q] = runs[q]
<1> DEFINE rows == [runs EXCEPT ![r].st = st]
           row == [runs[r] EXCEPT !.st = st]
<1>1. runs \in Seq(RowShape) /\ runs[r] \in RowShape
  BY DEF Placed
<1>2. row \in RowShape /\ row.st = st /\ row.act = runs[r].act /\ row.key = runs[r].key
  BY <1>1 DEF RowShape
<1>3. rows = [runs EXCEPT ![r] = row]
  OBVIOUS
<1> HIDE DEF row
<1>4. rows \in Seq(RowShape) /\ Len(rows) = Len(runs) /\ rows[r] = row /\ \A q \in DOMAIN runs \ {r} : rows[q] = runs[q]
  BY <1>1, <1>2, <1>3
<1> QED BY <1>2, <1>4 DEF SameRows

\* A retry changes one row, which waits again or has failed.
LEMMA RetriedIsSet ==
  ASSUME Placed, NEW r \in DOMAIN runs
  PROVE  /\ SameRows([runs EXCEPT ![r] = Retried(r)])
         /\ [runs EXCEPT ![r] = Retried(r)][r].st \in {"queued", "failed"}
         /\ \A q \in DOMAIN runs \ {r} : [runs EXCEPT ![r] = Retried(r)][q] = runs[q]
<1> DEFINE rows == [runs EXCEPT ![r] = Retried(r)]
           row == Retried(r)
<1>1. runs \in Seq(RowShape) /\ runs[r] \in RowShape
  BY DEF Placed
<1>2. row \in RowShape /\ row.st \in {"queued", "failed"} /\ row.act = runs[r].act /\ row.key = runs[r].key
  <2> DEFINE st == IF runs[r].attempt + 1 < MaxAttempts THEN "queued" ELSE "failed"
  <2>1. st \in {"queued", "failed"} /\ st \in RunStatus
    BY DEF RunStatus
  <2>2. runs[r].attempt + 1 \in Nat
    BY <1>1 DEF RowShape
  <2>3. row = [runs[r] EXCEPT !.attempt = runs[r].attempt + 1, !.st = st]
    BY DEF Retried
  <2> HIDE DEF st, row
  <2> QED BY <1>1, <2>1, <2>2, <2>3 DEF RowShape
<1> HIDE DEF row
<1>3. rows = [runs EXCEPT ![r] = row]
  BY DEF row
<1>4. rows \in Seq(RowShape) /\ Len(rows) = Len(runs) /\ rows[r] = row /\ \A q \in DOMAIN runs \ {r} : rows[q] = runs[q]
  BY <1>1, <1>2, <1>3
<1> QED BY <1>2, <1>4 DEF SameRows, row

\* After a cancellation no run of the ticket is open.
LEMMA CancelledIsSet ==
  ASSUME Placed
  PROVE  SameRows(Cancelled) /\ \A r \in DOMAIN Cancelled : Cancelled[r].st \notin Open
<1>1. runs \in Seq(RowShape) /\ DOMAIN runs = 1 .. Len(runs) /\ Len(runs) \in Nat
  BY DEF Placed
<1>2. \A r \in DOMAIN runs :
        /\ Cancelled[r] \in RowShape /\ Cancelled[r].st \notin Open
        /\ Cancelled[r].act = runs[r].act /\ Cancelled[r].key = runs[r].key
  <2> TAKE r \in DOMAIN runs
  <2>1. runs[r] \in RowShape
    BY <1>1
  <2>2. CASE runs[r].st \in Open
    BY <2>1, <2>2 DEF Cancelled, RowShape, RunStatus, Open
  <2>3. CASE runs[r].st \notin Open
    BY <2>1, <2>3 DEF Cancelled
  <2> QED BY <2>2, <2>3
<1>3. DOMAIN Cancelled = 1 .. Len(runs)
  BY <1>1 DEF Cancelled
<1>4. Cancelled = [r \in 1 .. Len(runs) |-> Cancelled[r]]
  BY <1>1 DEF Cancelled
<1> HIDE DEF Cancelled
<1>5. Cancelled \in Seq(RowShape) /\ Len(Cancelled) = Len(runs)
  BY <1>1, <1>2, <1>3, <1>4
<1> QED BY <1>2, <1>3, <1>5, <1>1 DEF SameRows

\* What ON CONFLICT DO NOTHING leaves, and that a fresh key has no conflict.
Grown(rows) ==
  /\ rows \in Seq(RowShape) /\ Len(rows) >= Len(runs)
  /\ \A r \in DOMAIN runs : rows[r] = runs[r]

\* A row is added at the end, or none where its key is there; a fresh key is not.
LEMMA RowIsInserted ==
  ASSUME Placed, KeysBelow, NEW act \in Activity, NEW back \in Gate \cup {"none"}, NEW key, NEW n \in Nat,
         \/ key = FreshKey(act)
         \/ \E attempt \in Nat : key = [kind |-> "retry", n |-> n, attempt |-> attempt],
         runs' = Inserted(act, back, key)
  PROVE  /\ Grown(runs') /\ KeysBelow'
         /\ key = FreshKey(act) =>
              Len(runs') = Len(runs) + 1 /\ runs'[Len(runs')].act = act /\ runs'[Len(runs')].st = "queued"
<1> DEFINE row == [act |-> act, back |-> back, key |-> key, st |-> "queued", attempt |-> 0]
<1>1. runs \in Seq(RowShape) /\ DOMAIN runs = 1 .. Len(runs) /\ Len(runs) \in Nat
  BY DEF Placed
<1>2. Count(runs, act) \in Nat
  BY <1>1, CountIs
<1>3. FreshKey(act) = [kind |-> act, n |-> Count(runs, act) + 1]
  BY DEF FreshKey, Count
<1>4. key \in KeyShape /\ (key.kind \in Activity => key.kind = act /\ key.n = Count(runs, act) + 1)
  <2>1. CASE key = FreshKey(act)
    BY <1>2, <1>3, <2>1 DEF KeyShape
  <2>2. CASE \E attempt \in Nat : key = [kind |-> "retry", n |-> n, attempt |-> attempt]
    BY <2>2 DEF KeyShape, Activity
  <2> QED BY <2>1, <2>2
<1>8. row \in RowShape /\ row.act = act /\ row.st = "queued" /\ row.key = key
  BY <1>4 DEF RowShape, RunStatus
<1>5. key = FreshKey(act) => ~\E r \in DOMAIN runs : runs[r].key = key
  <2> SUFFICES ASSUME NEW r \in DOMAIN runs, runs[r].key = FreshKey(act) PROVE FALSE
    OBVIOUS
  <2>1. runs[r].key.kind = act /\ runs[r].key.n = Count(runs, act) + 1
    BY <1>3
  <2> QED BY <1>2, <2>1 DEF KeysBelow
<1>6. CASE \E r \in DOMAIN runs : runs[r].key = key
  <2>1. runs' = runs
    BY <1>6 DEF Inserted
  <2>2. SameRows(runs')
    BY <1>1, <2>1 DEF SameRows
  <2>3. KeysBelow'
    BY <2>2, SameRowsKeys
  <2>4. Grown(runs')
    BY <1>1, <2>1 DEF Grown
  <2>5. key # FreshKey(act)
    BY <1>5, <1>6
  <2> QED BY <2>3, <2>4, <2>5
<1>7. CASE ~\E r \in DOMAIN runs : runs[r].key = key
  <2>1. runs' = Append(runs, row)
    BY <1>7 DEF Inserted
  <2> HIDE DEF row
  <2>2. /\ runs' \in Seq(RowShape) /\ Len(runs') = Len(runs) + 1 /\ DOMAIN runs' = 1 .. Len(runs) + 1
        /\ runs'[Len(runs) + 1] = row /\ \A r \in DOMAIN runs : runs'[r] = runs[r]
    BY <1>1, <1>8, <2>1
  <2> DEFINE Of(a) == {r \in DOMAIN runs : runs[r].act = a}
  <2>3. \A a : IsFiniteSet(Of(a)) /\ Count(runs, a) \in Nat /\ Count(runs, a) = Cardinality(Of(a))
    BY <1>1, CountIs DEF Count
  <2>4. \A a : {r \in DOMAIN runs' : runs'[r].act = a} = IF a = act THEN Of(a) \cup {Len(runs) + 1} ELSE Of(a)
    BY <1>1, <1>8, <2>2
  <2>5. Len(runs) + 1 \notin Of(act)
    BY <1>1
  <2> HIDE DEF Of
  <2>9. IsFiniteSet(Of(act))
    BY <2>3
  <2>6. Cardinality(Of(act) \cup {Len(runs) + 1}) = Cardinality(Of(act)) + 1
    BY <2>5, <2>9, FS_AddElement
  <2>7. \A a : Count(runs', a) = IF a = act THEN Count(runs, a) + 1 ELSE Count(runs, a)
    BY <2>3, <2>4, <2>6 DEF Count
  <2>8. KeysBelow'
    <3> SUFFICES ASSUME NEW a \in Activity, NEW r \in DOMAIN runs', runs'[r].key.kind = a
                 PROVE  runs'[r].key.n <= Count(runs', a)
      BY DEF KeysBelow
    <3>1. CASE r = Len(runs) + 1
      BY <1>2, <1>4, <1>8, <2>2, <2>7, <3>1
    <3>2. CASE r # Len(runs) + 1
      <4>1. r \in DOMAIN runs /\ runs'[r] = runs[r]
        BY <1>1, <2>2, <3>2
      <4>2. runs[r].key.n <= Count(runs, a)
        BY <3>2, <4>1 DEF KeysBelow
      <4>3. runs[r].key \in KeyShape
        <5>1. runs[r] \in RowShape
          BY <1>1, <4>1
        <5> QED BY <5>1 DEF RowShape
      <4>4. runs[r].key.n \in Nat
        BY <4>3 DEF KeyShape
      <4> QED BY <2>3, <2>7, <4>1, <4>2, <4>4
    <3> QED BY <3>1, <3>2
  <2> QED BY <1>1, <1>8, <2>2, <2>8 DEF Grown
<1> QED BY <1>6, <1>7

-----------------------------------------------------------------------------
\* Which activities serve which stage.
LEMMA ServesIs ==
  /\ DOMAIN Serves = {"in_progress", "ready_for_review", "in_qa"}
  /\ Serves["in_progress"] = {"develop", "fix"} /\ Serves["ready_for_review"] = {"review"}
  /\ Serves["in_qa"] = {"qa"}
BY DEF Serves

\* Where each event goes, and that agents are given what they have to do there.
LEMMA Destination ==
  ASSUME NEW event \in Events, NEW back
  PROVE  /\ To(event, back) \in Stage
         /\ To(event, back) \in {"done", "rejected"} => event \in {"pr_merged", "pr_closed", "reject"}
         /\ event \in {"pr_merged", "pr_closed", "reject"} => To(event, back) \in {"done", "rejected"}
         /\ Enqueues(event, To(event, back)) \in Activity \cup {"none"}
         /\ To(event, back) \in DOMAIN Serves => Enqueues(event, To(event, back)) \in Serves[To(event, back)]
<1>1. \A gate : FixOrBlock(gate) \in {"in_progress", "blocked"}
  BY DEF FixOrBlock
<1> DEFINE to == To(event, back)
<1>2. CASE event \in {"approve", "unblock", "dev_failed", "qa_passed", "pr_merged", "pr_closed", "reject"}
  <2>1. to \in {"ready_for_dev", "blocked", "awaiting_merge", "done", "rejected"}
        /\ (to \in {"done", "rejected"} <=> event \in {"pr_merged", "pr_closed", "reject"})
    BY <1>2 DEF To
  <2>2. Enqueues(event, to) = "none"
    BY <1>2, <2>1 DEF Enqueues
  <2> HIDE DEF to
  <2> QED BY <2>1, <2>2, ServesIs DEF to, Stage
<1>3. CASE event = "dispatch"
  <2>1. to = "in_progress" /\ Enqueues(event, to) = "develop"
    BY <1>3 DEF To, Enqueues
  <2> QED BY <1>3, <2>1, ServesIs DEF Stage, Activity
<1>4. CASE event \in {"pr_opened", "review_passed", "fix_done"}
  <2>1. to \in {"ready_for_review", "in_qa"}
    BY <1>4 DEF To
  <2>2. Enqueues(event, to) = IF to = "in_qa" THEN "qa" ELSE "review"
    BY <1>4, <2>1 DEF Enqueues
  <2> HIDE DEF to
  <2> QED BY <1>4, <2>1, <2>2, ServesIs DEF to, Stage, Activity
<1>5. CASE event \in {"review_changes", "qa_failed"}
  <2>1. to \in {"in_progress", "blocked"}
    BY <1>1, <1>5 DEF To
  <2>2. Enqueues(event, to) = IF to = "in_progress" THEN "fix" ELSE "none"
    BY <1>5, <2>1 DEF Enqueues
  <2> HIDE DEF to
  <2> QED BY <1>5, <2>1, <2>2, ServesIs DEF to, Stage, Activity
<1> QED BY <1>2, <1>3, <1>4, <1>5 DEF Events

\* A transition that enqueues leaves the stage with a queued run that serves it; one that ends
\* the ticket leaves none open.
LEMMA Transition ==
  ASSUME Placed, KeysBelow, NEW event \in Events, NEW back, ApplyTransition(event, back)
  PROVE  /\ stage' \in Stage /\ KeysBelow' /\ runs' \in Seq(RowShape) /\ Len(runs') >= Len(runs)
         /\ stage' \in {"done", "rejected"} => \A r \in DOMAIN runs' : runs'[r].st \notin Open
         /\ stage' \in DOMAIN Serves =>
              Len(runs') = Len(runs) + 1 /\ runs'[Len(runs')].act \in Serves[stage'] /\ runs'[Len(runs')].st = "queued"
<1> DEFINE act == Enqueues(event, To(event, back))
           of == CASE act # "fix" -> "none" [] event = "qa_failed" -> "qa" [] OTHER -> "review"
<1>1. /\ stage' \in Stage
      /\ stage' \in {"done", "rejected"} <=> event \in {"pr_merged", "pr_closed", "reject"}
      /\ act \in Activity \cup {"none"}
      /\ stage' \in DOMAIN Serves => act \in Serves[stage'] /\ act # "none"
  <2>1. stage' = To(event, back)
    BY DEF ApplyTransition
  <2> QED BY <2>1, Destination, ServesIs
<1>2. runs \in Seq(RowShape) /\ Len(runs) \in Nat
  BY DEF Placed
<1>3. CASE event \in {"pr_merged", "pr_closed", "reject"}
  <2>1. runs' = Cancelled
    BY <1>3 DEF ApplyTransition
  <2>2. SameRows(runs') /\ \A r \in DOMAIN runs' : runs'[r].st \notin Open
    BY <2>1, CancelledIsSet
  <2>3. stage' \notin DOMAIN Serves
    BY <1>1, <1>3, ServesIs
  <2> QED BY <1>1, <1>2, <2>2, <2>3, SameRowsKeys DEF SameRows
<1>4. CASE event \notin {"pr_merged", "pr_closed", "reject"} /\ act = "none"
  <2>1. runs' = runs
    BY <1>4 DEF ApplyTransition
  <2>2. SameRows(runs')
    BY <1>2, <2>1 DEF SameRows
  <2> QED BY <1>1, <1>2, <1>4, <2>1, <2>2, SameRowsKeys
<1>5. CASE event \notin {"pr_merged", "pr_closed", "reject"} /\ act # "none"
  <2>1. runs' = Inserted(act, of, FreshKey(act))
    BY <1>5 DEF ApplyTransition
  <2>2. of \in Gate \cup {"none"}
    BY DEF Gate
  <2> HIDE DEF of, act
  <2>3. /\ Grown(runs') /\ KeysBelow'
        /\ Len(runs') = Len(runs) + 1 /\ runs'[Len(runs')].act = act /\ runs'[Len(runs')].st = "queued"
    BY <1>1, <1>5, <2>1, <2>2, RowIsInserted
  <2> QED BY <1>1, <1>5, <2>3 DEF Grown
<1> QED BY <1>3, <1>4, <1>5

-----------------------------------------------------------------------------
\* A step that moves the ticket.
LEMMA Moves ==
  ASSUME PipeInv, NEW event \in Events, NEW back, ApplyTransition(event, back), Handled',
         \A e \in Slot : doing'[e] \in {0, doing[e]}, asked' \in {0, asked}
  PROVE  PipeInv'
<1>1. Placed /\ KeysBelow /\ runs \in Seq(RowShape) /\ Len(runs) \in Nat
  BY DEF PipeInv, Placed
<1>2. /\ stage' \in Stage /\ KeysBelow' /\ runs' \in Seq(RowShape) /\ Len(runs') >= Len(runs)
      /\ stage' \in {"done", "rejected"} => \A r \in DOMAIN runs' : runs'[r].st \notin Open
      /\ stage' \in DOMAIN Serves =>
           Len(runs') = Len(runs) + 1 /\ runs'[Len(runs')].act \in Serves[stage'] /\ runs'[Len(runs')].st = "queued"
  BY <1>1, Transition
<1>3. \A e \in Slot : doing'[e] <= Len(runs) /\ doing[e] \in Nat
  <2> TAKE e \in Slot
  <2>1. doing[e] \in Nat /\ doing[e] <= Len(runs) /\ doing'[e] \in {0, doing[e]}
    BY <1>1 DEF Placed, Handled
  <2> QED BY <1>1, <2>1
<1>4. Placed'
  BY <1>1, <1>2, <1>3 DEF Placed, Handled
<1>5. TerminalIsQuiet'
  BY <1>2 DEF TerminalIsQuiet
<1>6. Carried'
  <2> SUFFICES ASSUME stage' \in DOMAIN Serves PROVE \E r \in DOMAIN runs' : Carrying(r)'
    BY DEF Carried
  <2> DEFINE last == Len(runs')
  <2>1. last \in DOMAIN runs' /\ last = Len(runs) + 1
    BY <1>1, <1>2
  <2>2. \A e \in Slot : doing'[e] # last
    BY <1>1, <1>3, <1>4, <2>1 DEF Placed, Handled
  <2> QED BY <1>2, <2>1, <2>2 DEF Carrying, Serving
<1> QED BY <1>2, <1>4, <1>5, <1>6 DEF PipeInv

\* A step that leaves the ticket where it is, and reopens no run.
LEMMA Stays ==
  ASSUME PipeInv, SameRows(runs'), stage' = stage, Handled', upset \subseteq upset',
         \A e \in Slot : doing'[e] \in DOMAIN runs \cup {0}, asked' \in DOMAIN runs \cup {0},
         \A r \in DOMAIN runs : runs'[r].st \in Open => runs[r].st \in Open,
         upset' = {} /\ stage \in DOMAIN Serves => \A r \in DOMAIN runs : Carrying(r) => Carrying(r)'
  PROVE  PipeInv'
<1>1. /\ runs \in Seq(RowShape) /\ runs' \in Seq(RowShape) /\ Len(runs') = Len(runs) /\ Len(runs) \in Nat
      /\ DOMAIN runs = 1 .. Len(runs) /\ DOMAIN runs' = DOMAIN runs
  BY DEF PipeInv, Placed, SameRows
<1>2. Placed'
  BY <1>1 DEF PipeInv, Placed
<1>3. KeysBelow'
  BY SameRowsKeys DEF PipeInv
<1>4. TerminalIsQuiet'
  BY <1>1 DEF PipeInv, TerminalIsQuiet
<1>5. Carried'
  BY <1>1 DEF PipeInv, Carried
<1> QED BY <1>2, <1>3, <1>4, <1>5 DEF PipeInv

\* A new ticket satisfies the invariant.
LEMMA PipeInvInit == Init => PipeInv
<1> SUFFICES ASSUME Init PROVE PipeInv
  OBVIOUS
<1>1. Placed
  BY DEF Init, Placed, Handled, NoPatch, Stage
<1>2. KeysBelow /\ TerminalIsQuiet /\ Carried
  BY ServesIs DEF Init, KeysBelow, TerminalIsQuiet, Carried
<1> QED BY <1>1, <1>2 DEF PipeInv

-----------------------------------------------------------------------------
\* What an executor at work has.
LEMMA AtWork ==
  ASSUME PipeInv
  PROVE  /\ runs \in Seq(RowShape) /\ Placed /\ Handled /\ SameRows(runs)
         /\ \A r \in DOMAIN runs : runs[r] \in RowShape
         /\ \A e \in Slot : doing[e] \in DOMAIN runs \cup {0} /\ (at[e] # "idle" => doing[e] \in DOMAIN runs)
         /\ asked \in DOMAIN runs \cup {0}
BY DEF PipeInv, Placed, Handled, SameRows

\* A worker claims a run.
LEMMA Claimed ==
  ASSUME PipeInv, NEW e \in Slot, NEW r \in DOMAIN runs, Claim(e, r)
  PROVE  PipeInv'
<1>1. /\ at[e] = "idle" /\ runs[r].st = "queued" /\ runs' = [runs EXCEPT ![r].st = "running"]
      /\ at' = [at EXCEPT ![e] = "work"] /\ doing' = [doing EXCEPT ![e] = r]
      /\ UNCHANGED <<stage, asked, patch, upset>>
  BY DEF Claim, SetStatus, Goto
<1>2. SameRows(runs') /\ runs'[r].st = "running" /\ \A q \in DOMAIN runs \ {r} : runs'[q] = runs[q]
  BY <1>1, AtWork, StatusIsSet DEF RunStatus
<1>3. r \in Nat \ {0}
  BY AtWork
<1>4. Handled'
  BY <1>1, <1>3, AtWork DEF Handled
<1>5. \A q \in DOMAIN runs : Carrying(q) => Carrying(q)'
  BY <1>1, <1>2, AtWork DEF Carrying, Serving, SameRows, Handled
<1> QED BY <1>1, <1>2, <1>4, <1>5, AtWork, Stays DEF Open, Handled

\* Approve, Dispatch, Unblock, Reject.
LEMMA Ordered ==
  ASSUME PipeInv, NEW event \in {"approve", "dispatch", "unblock", "reject"}, ApplyTransition(event, "none"),
         UNCHANGED <<at, doing, patch, asked, upset>>
  PROVE  PipeInv'
<1>1. Handled'
  BY AtWork DEF Handled
<1> QED BY <1>1, Moves DEF Events

\* The budget or the merge guard refuses the run.
LEMMA Refused ==
  ASSUME PipeInv, NEW e \in Slot, Refuse(e)
  PROVE  PipeInv'
<1>1. /\ at[e] = "work" /\ at' = [at EXCEPT ![e] = "idle"] /\ doing' = [doing EXCEPT ![e] = 0]
      /\ UNCHANGED <<stage, asked, patch>>
  BY DEF Refuse, Done, Goto
<1>2. upset \subseteq upset'
  BY DEF Refuse, NoteUpset
<1>3. Handled'
  BY <1>1, <1>2, AtWork DEF Handled
<1>4. /\ SameRows(runs')
      /\ \A r \in DOMAIN runs : runs'[r].st \in Open => runs[r].st \in Open
  <2> DEFINE r == doing[e]
  <2>1. r \in DOMAIN runs /\ Placed /\ "blocked" \in RunStatus
    BY <1>1, AtWork DEF RunStatus
  <2>2. CASE runs' = runs
    BY <2>2, AtWork
  <2>3. CASE runs' # runs
    <3>1. runs[r].st = "running" /\ runs' = [runs EXCEPT ![r].st = "blocked"]
      BY <2>3 DEF Refuse, SetStatus, Running
    <3> HIDE DEF r
    <3>2. SameRows(runs') /\ \A q \in DOMAIN runs \ {r} : runs'[q] = runs[q]
      BY <2>1, <3>1, StatusIsSet
    <3> QED BY <3>1, <3>2 DEF Open
  <2> QED BY <2>2, <2>3
<1>5. upset' = {} => runs' = runs
  BY DEF Refuse, NoteUpset
<1>6. upset' = {} => \A r \in DOMAIN runs : Carrying(r) => Carrying(r)'
  BY <1>1, <1>5, AtWork DEF Carrying, Serving, Handled
<1> QED BY <1>1, <1>2, <1>3, <1>4, <1>6, AtWork, Stays DEF Handled

\* What an activity reports is an event of the machine.
LEMMA ReportsAre ==
  ASSUME NEW act \in Activity, NEW event \in Reports(act)
  PROVE  event \in Events
BY DEF Reports, Events, Activity

\* An executor reports.
LEMMA Reported ==
  ASSUME PipeInv, NEW e \in Slot, Report(e)
  PROVE  PipeInv'
<1>1. at[e] = "work" /\ UNCHANGED <<doing, asked, patch, upset>> /\ runs[doing[e]] \in RowShape
  BY AtWork DEF Report
<1>2. PICK event \in Reports(runs[doing[e]].act) :
        \/ ApplyTransition(event, runs[doing[e]].back) /\ Goto(e, "moved")
        \/ ~Legal(event) /\ Goto(e, "illegal") /\ UNCHANGED <<stage, runs>>
  BY DEF Report
<1>3. event \in Events
  BY <1>1, <1>2, ReportsAre DEF RowShape
<1>4. Handled'
  BY <1>1, <1>2, AtWork DEF Handled, Goto
<1>5. CASE ApplyTransition(event, runs[doing[e]].back)
  BY <1>1, <1>3, <1>4, <1>5, Moves
<1>6. CASE Goto(e, "illegal") /\ UNCHANGED <<stage, runs>>
  <2>1. \A r \in DOMAIN runs : Carrying(r) => Carrying(r)'
    BY <1>1, <1>6, AtWork DEF Carrying, Serving, Handled, Goto
  <2>2. SameRows(runs')
    BY <1>6, AtWork
  <2> QED BY <1>1, <1>4, <1>6, <2>1, <2>2, AtWork, Stays
<1> QED BY <1>2, <1>5, <1>6

\* It throws.
LEMMA Threw ==
  ASSUME PipeInv, NEW e \in Slot, Throw(e)
  PROVE  PipeInv'
<1>1. /\ at[e] \in {"work", "moved"} /\ at' = [at EXCEPT ![e] = "threw"]
      /\ UNCHANGED <<stage, runs, doing, asked, patch, upset>>
  BY DEF Throw, Goto
<1>2. Handled'
  BY <1>1, AtWork DEF Handled
<1>3. \A r \in DOMAIN runs : Carrying(r) => Carrying(r)'
  BY <1>1, AtWork DEF Carrying, Serving, Handled
<1>4. SameRows(runs')
  BY <1>1, AtWork
<1> QED BY <1>1, <1>2, <1>3, <1>4, AtWork, Stays

\* It finishes its row.
LEMMA Finished ==
  ASSUME PipeInv, NEW e \in Slot, Finish(e)
  PROVE  PipeInv'
<1>1. /\ at[e] = "moved" /\ at' = [at EXCEPT ![e] = "idle"] /\ doing' = [doing EXCEPT ![e] = 0]
      /\ UNCHANGED <<stage, asked, patch, upset>>
      /\ doing[e] \in DOMAIN runs
      /\ runs' = runs \/ runs' = [runs EXCEPT ![doing[e]].st = "succeeded"]
  BY AtWork DEF Finish, Done, Goto, SetStatus
<1>2. Handled'
  BY <1>1, AtWork DEF Handled
<1>3. /\ SameRows(runs')
      /\ \A r \in DOMAIN runs \ {doing[e]} : runs'[r] = runs[r]
      /\ runs'[doing[e]] = runs[doing[e]] \/ runs'[doing[e]].st = "succeeded"
  <2>1. CASE runs' = runs
    BY <2>1, AtWork
  <2>2. CASE runs' = [runs EXCEPT ![doing[e]].st = "succeeded"]
    <3> DEFINE r == doing[e]
    <3>1. r \in DOMAIN runs /\ Placed /\ "succeeded" \in RunStatus
      BY <1>1, AtWork DEF RunStatus
    <3> HIDE DEF r
    <3>2. SameRows(runs') /\ runs'[r].st = "succeeded" /\ \A q \in DOMAIN runs \ {r} : runs'[q] = runs[q]
      BY <2>2, <3>1, StatusIsSet DEF r
    <3> QED BY <3>2 DEF r
  <2> QED BY <1>1, <2>1, <2>2
<1>4. \A r \in DOMAIN runs : runs'[r].st \in Open => runs[r].st \in Open
  BY <1>3 DEF Open
<1>5. \A r \in DOMAIN runs : Carrying(r) => r # doing[e]
  BY <1>1 DEF Carrying
<1>6. \A r \in DOMAIN runs : Carrying(r) => Carrying(r)'
  BY <1>1, <1>3, <1>5, AtWork DEF Carrying, Serving, Handled
<1> QED BY <1>1, <1>2, <1>3, <1>4, <1>6, AtWork, Stays DEF Handled

\* The catch blocks its row, or lets it wait or fail.
LEMMA Caught ==
  ASSUME PipeInv, NEW e \in Slot, Catch(e)
  PROVE  PipeInv'
<1>0. PICK r : r = doing[e]
  OBVIOUS
<1>1. /\ at[e] \in {"threw", "illegal"} /\ r \in DOMAIN runs /\ Placed /\ r \in Nat /\ r # 0
      /\ UNCHANGED <<stage, asked, patch, upset>>
  BY <1>0, AtWork DEF Catch, Handled
<1>2. CASE Running(e) /\ e \notin aborted
  <2>1. /\ runs[r].st = "running"
        /\ runs' = [runs EXCEPT ![r].st = "blocked"] \/ runs' = [runs EXCEPT ![r] = Retried(r)]
        /\ at' = [at EXCEPT ![e] = "wrote"] /\ doing' = doing
    BY <1>0, <1>2 DEF Catch, SetStatus, Goto, Running
  <2>2. "blocked" \in RunStatus
    BY DEF RunStatus
  <2>3. SameRows(runs') /\ \A q \in DOMAIN runs \ {r} : runs'[q] = runs[q]
    BY <1>0, <1>1, <2>1, <2>2, StatusIsSet, RetriedIsSet
  <2>4. Handled'
    BY <1>0, <1>1, <2>1, AtWork DEF Handled
  <2>5. \A q \in DOMAIN runs : runs'[q].st \in Open => runs[q].st \in Open
    BY <2>1, <2>3 DEF Open
  <2>6. \A q \in DOMAIN runs \ {r} : Carrying(q) => Carrying(q)'
    BY <1>0, <1>1, <2>1, <2>3, AtWork DEF Carrying, Serving, Handled
  <2>7. Carrying(r) => Carrying(r)'
    BY <1>0, <1>1, <2>1, <2>3, AtWork DEF Carrying, Serving, Handled, SameRows
  <2>8. \A q \in DOMAIN runs : Carrying(q) => Carrying(q)'
    BY <2>6, <2>7
  <2>9. /\ \A f \in Slot : doing'[f] \in DOMAIN runs \cup {0}
        /\ asked' \in DOMAIN runs \cup {0} /\ stage' = stage /\ upset \subseteq upset'
    BY <1>0, <1>1, <2>1, AtWork
  <2> QED BY <2>3, <2>4, <2>5, <2>8, <2>9, Stays
<1>3. CASE ~(Running(e) /\ e \notin aborted)
  <2>1. runs' = runs /\ at' = [at EXCEPT ![e] = "idle"] /\ doing' = [doing EXCEPT ![e] = 0]
    BY <1>3 DEF Catch, Done, Goto
  <2>2. Handled'
    BY <1>0, <1>1, <2>1, AtWork DEF Handled
  <2>3. \A q \in DOMAIN runs : Carrying(q) => Carrying(q)'
    BY <1>0, <1>1, <2>1, AtWork DEF Carrying, Serving, Handled
  <2>4. SameRows(runs')
    BY <2>1, AtWork
  <2> QED BY <1>0, <1>1, <2>1, <2>2, <2>3, <2>4, AtWork, Stays DEF Handled
<1> QED BY <1>2, <1>3

\* What an activity's failure reports is legal wherever its ticket counts on it.
LEMMA FailureIsLegal ==
  ASSUME NEW act \in Activity
  PROVE  /\ FailEvent(act) \in Events
         /\ stage \in DOMAIN Serves /\ act \in Serves[stage] => Legal(FailEvent(act))
<1>1. CASE act = "review"
  BY <1>1, ServesIs DEF FailEvent, Events, Legal, From
<1>2. CASE act = "qa"
  BY <1>2, ServesIs DEF FailEvent, Events, Legal, From
<1>3. CASE act \in {"develop", "fix"}
  BY <1>3, ServesIs DEF FailEvent, Events, Legal, From
<1> QED BY <1>1, <1>2, <1>3 DEF Activity

\* The ticket of a failed run fails.
LEMMA TicketFailed ==
  ASSUME PipeInv, NEW e \in Slot, FailTicket(e)
  PROVE  PipeInv'
<1> DEFINE act == runs[doing[e]].act
<1>1. /\ at[e] = "wrote" /\ doing[e] \in DOMAIN runs /\ act \in Activity
      /\ at' = [at EXCEPT ![e] = "idle"] /\ doing' = [doing EXCEPT ![e] = 0]
      /\ UNCHANGED <<asked, patch, upset>>
  BY AtWork DEF FailTicket, Done, Goto, RowShape
<1>2. Handled'
  BY <1>1, AtWork DEF Handled
<1>3. CASE Legal(FailEvent(act))
  <2>1. ApplyTransition(FailEvent(act), "none") /\ FailEvent(act) \in Events
    BY <1>1, <1>3, FailureIsLegal DEF FailTicket
  <2> QED BY <1>1, <1>2, <2>1, AtWork, Moves DEF Handled
<1>4. CASE ~Legal(FailEvent(act))
  <2>1. UNCHANGED <<stage, runs>>
    BY <1>4 DEF FailTicket
  <2>2. stage \in DOMAIN Serves => act \notin Serves[stage]
    BY <1>1, <1>4, FailureIsLegal
  <2>3. stage \in DOMAIN Serves => \A q \in DOMAIN runs : Carrying(q) => Carrying(q)'
    BY <1>1, <2>1, <2>2, AtWork DEF Carrying, Serving, Handled
  <2>4. SameRows(runs')
    BY <2>1, AtWork
  <2> QED BY <1>1, <1>2, <2>1, <2>3, <2>4, AtWork, Stays DEF Handled
<1> QED BY <1>3, <1>4

-----------------------------------------------------------------------------
\* A worker stops.
LEMMA Crashed ==
  ASSUME PipeInv, Crash
  PROVE  PipeInv'
<1>1. /\ at' = [e \in Slot |-> "idle"] /\ doing' = [e \in Slot |-> 0]
      /\ patch' = NoPatch /\ asked' = 0 /\ UNCHANGED <<stage, runs>> /\ upset \subseteq upset'
      /\ upset' = {} => ~\E e \in Slot : at[e] = "wrote"
  BY DEF Crash
<1>2. Handled'
  BY <1>1 DEF Handled, NoPatch
<1>3. upset' = {} => \A r \in DOMAIN runs : Carrying(r) => Carrying(r)'
  BY <1>1 DEF Carrying, Serving
<1>4. SameRows(runs')
  BY <1>1, AtWork
<1> QED BY <1>1, <1>2, <1>3, <1>4, AtWork, Stays

\* The reaper takes a stale run.
LEMMA Reaped ==
  ASSUME PipeInv, NEW r \in DOMAIN runs, Reap(r)
  PROVE  PipeInv'
<1>1. /\ runs[r].st = "running" /\ UNCHANGED <<stage, at, doing, asked, patch>>
      /\ runs' = [runs EXCEPT ![r].st = "queued"] \/ runs' = [runs EXCEPT ![r] = Retried(r)]
      /\ upset \subseteq upset' /\ (upset' = {} => runs'[r].st # "failed")
  BY DEF Reap, SetStatus
<1>2. "queued" \in RunStatus /\ Placed
  BY AtWork DEF RunStatus
<1>3. /\ SameRows(runs') /\ runs'[r].st \in {"queued", "failed"}
      /\ \A q \in DOMAIN runs \ {r} : runs'[q] = runs[q]
  BY <1>1, <1>2, StatusIsSet, RetriedIsSet
<1>4. Handled'
  BY <1>1, AtWork DEF Handled
<1>5. \A q \in DOMAIN runs : runs'[q].st \in Open => runs[q].st \in Open
  BY <1>1, <1>3 DEF Open
<1>6. upset' = {} => \A q \in DOMAIN runs : Carrying(q) => Carrying(q)'
  BY <1>1, <1>3 DEF Carrying, Serving, SameRows
<1>7. /\ \A f \in Slot : doing'[f] \in DOMAIN runs \cup {0}
      /\ asked' \in DOMAIN runs \cup {0} /\ stage' = stage
  BY <1>1, AtWork
<1> QED BY <1>1, <1>3, <1>4, <1>5, <1>6, <1>7, Stays

\* The watcher sees the pull request.
LEMMA Watched ==
  ASSUME PipeInv, Watch
  PROVE  PipeInv'
<1>1. UNCHANGED <<at, doing, patch, asked, upset>>
  BY DEF Watch
<1>2. Handled'
  BY <1>1, AtWork DEF Handled
<1>3. CASE ApplyTransition(WatchEvent, "none")
  <2>1. WatchEvent \in Events
    BY DEF WatchEvent, Events
  <2> QED BY <1>1, <1>2, <1>3, <2>1, Moves
<1>4. CASE UNCHANGED <<stage, runs>>
  <2>1. \A r \in DOMAIN runs : Carrying(r) => Carrying(r)'
    BY <1>1, <1>4 DEF Carrying, Serving
  <2>2. SameRows(runs')
    BY <1>4, AtWork
  <2> QED BY <1>1, <1>2, <1>4, <2>1, <2>2, AtWork, Stays
<1> QED BY <1>3, <1>4 DEF Watch

\* Settle, PatchRead, RetryRead: nothing of the ticket or its runs is written.
LEMMA OnlyRead ==
  ASSUME PipeInv, UNCHANGED <<stage, runs, at, doing, upset>>,
         \/ UNCHANGED <<patch, asked>>
         \/ UNCHANGED patch /\ asked' \in DOMAIN runs
         \/ UNCHANGED asked /\ patch'.step = "cancel" /\ patch'.to \in HumanMaySet
  PROVE  PipeInv'
<1>1. Handled'
  BY AtWork DEF Handled
<1>2. \A r \in DOMAIN runs : Carrying(r) => Carrying(r)'
  BY DEF Carrying, Serving
<1>3. SameRows(runs')
  BY AtWork
<1> QED BY <1>1, <1>2, <1>3, AtWork, Stays

\* A person moves the ticket: its runs are cancelled first.
LEMMA PatchCancels ==
  ASSUME PipeInv, PatchCancel
  PROVE  PipeInv'
<1>1. /\ runs' = Cancelled /\ patch' = [patch EXCEPT !.step = "write"] /\ upset' = upset \cup {"raced"}
      /\ UNCHANGED <<stage, at, doing, asked>>
  BY DEF PatchCancel, NoteUpset
<1>2. SameRows(runs') /\ \A r \in DOMAIN runs' : runs'[r].st \notin Open
  BY <1>1, AtWork, CancelledIsSet
<1>3. DOMAIN runs' = DOMAIN runs
  BY <1>2, AtWork DEF SameRows
<1>4. Handled'
  BY <1>1, AtWork DEF Handled, PatchCancel
<1> QED BY <1>1, <1>2, <1>3, <1>4, AtWork, Stays

\* A person cancels a run.
LEMMA RunCancels ==
  ASSUME PipeInv, NEW r \in DOMAIN runs, CancelRun(r)
  PROVE  PipeInv'
<1>1. /\ runs' = [runs EXCEPT ![r].st = "cancelled"] /\ upset' = upset \cup {"cancelled"}
      /\ UNCHANGED <<stage, at, doing, asked, patch>>
  BY DEF CancelRun, SetStatus, NoteUpset
<1>2. "cancelled" \in RunStatus /\ Placed
  BY AtWork DEF RunStatus
<1>3. SameRows(runs') /\ runs'[r].st = "cancelled" /\ \A q \in DOMAIN runs \ {r} : runs'[q] = runs[q]
  BY <1>1, <1>2, StatusIsSet
<1>4. Handled'
  BY <1>1, AtWork DEF Handled
<1>5. \A q \in DOMAIN runs : runs'[q].st \in Open => runs[q].st \in Open
  BY <1>3 DEF Open
<1> QED BY <1>1, <1>3, <1>4, <1>5, AtWork, Stays

\* Then the stage is written.
LEMMA PatchWrites ==
  ASSUME PipeInv, PatchWrite
  PROVE  PipeInv'
<1>1. /\ stage' = patch.to /\ patch' = NoPatch /\ "raced" \in upset
      /\ UNCHANGED <<runs, at, doing, asked, upset>> /\ patch.to \in HumanMaySet
  BY AtWork DEF PatchWrite, Handled
<1>2. Handled'
  BY <1>1, AtWork DEF Handled, NoPatch
<1>3. Placed'
  BY <1>1, <1>2, AtWork DEF Placed, HumanMaySet
<1>4. KeysBelow' /\ Carried' /\ TerminalIsQuiet'
  BY <1>1 DEF PipeInv, KeysBelow, Count, Carried, TerminalIsQuiet
<1> QED BY <1>3, <1>4 DEF PipeInv

\* An agent writes the stage by itself.
LEMMA AgentWrites ==
  ASSUME PipeInv, NEW to \in Stage, AgentSetsStatus(to)
  PROVE  PipeInv'
<1>1. /\ stage' = to /\ upset' = upset \cup {"overruled"}
      /\ UNCHANGED <<runs, at, doing, patch, asked>>
  BY DEF AgentSetsStatus, NoteUpset
<1>2. Handled'
  BY <1>1, AtWork DEF Handled
<1>3. Placed'
  BY <1>1, <1>2, AtWork DEF Placed
<1>4. KeysBelow' /\ Carried' /\ TerminalIsQuiet'
  BY <1>1 DEF PipeInv, KeysBelow, Count, Carried, TerminalIsQuiet
<1> QED BY <1>3, <1>4 DEF PipeInv

\* A person retries a failed ticket.
LEMMA RetryInserts ==
  ASSUME PipeInv, RetryInsert
  PROVE  PipeInv'
<1> DEFINE key == [kind |-> "retry", n |-> asked, attempt |-> runs[asked].attempt]
           row == runs[asked]
<1>1. /\ asked \in DOMAIN runs /\ asked \in Nat /\ row \in RowShape
      /\ runs' = Inserted(row.act, row.back, key) /\ asked' = 0
      /\ UNCHANGED <<stage, at, doing, patch>> /\ upset \subseteq upset'
      /\ stage \in {"done", "rejected"} => "raced" \in upset'
  BY AtWork DEF RetryInsert, Handled
<1>2. row.act \in Activity /\ row.back \in Gate \cup {"none"} /\ row.attempt \in Nat
  BY <1>1 DEF RowShape
<1>3. Placed /\ KeysBelow /\ \E attempt \in Nat : key = [kind |-> "retry", n |-> asked, attempt |-> attempt]
  BY <1>2 DEF PipeInv
<1> HIDE DEF key, row
<1>4. Grown(runs') /\ KeysBelow'
  BY <1>1, <1>2, <1>3, RowIsInserted
<1>5. /\ runs \in Seq(RowShape) /\ runs' \in Seq(RowShape) /\ Len(runs) \in Nat /\ Len(runs') \in Nat
      /\ Len(runs) <= Len(runs') /\ DOMAIN runs \subseteq DOMAIN runs' /\ \A r \in DOMAIN runs : runs'[r] = runs[r]
  BY <1>4, AtWork DEF Grown
<1>6. Handled'
  BY <1>1, AtWork DEF Handled
<1>7. Placed'
  <2>1. \A e \in Slot : doing[e] \in Nat /\ doing[e] <= Len(runs)
    BY <1>3 DEF Placed, Handled
  <2>2. \A e \in Slot : doing'[e] <= Len(runs')
    BY <1>1, <1>5, <2>1
  <2> QED BY <1>1, <1>3, <1>5, <1>6, <2>2 DEF Placed
<1>8. TerminalIsQuiet'
  BY <1>1 DEF TerminalIsQuiet
<1>9. Carried'
  <2> SUFFICES ASSUME stage' \in DOMAIN Serves, upset' = {} PROVE \E r \in DOMAIN runs' : Carrying(r)'
    BY DEF Carried
  <2>1. PICK r \in DOMAIN runs : Carrying(r)
    BY <1>1 DEF PipeInv, Carried
  <2>2. Carrying(r)'
    BY <1>1, <1>5, <2>1 DEF Carrying, Serving
  <2> QED BY <1>5, <2>1, <2>2
<1> QED BY <1>4, <1>7, <1>8, <1>9 DEF PipeInv

\* Each step keeps the invariant.
LEMMA PipeInvNext == PipeInv /\ [Next]_vars => PipeInv'
<1> SUFFICES ASSUME PipeInv, [Next]_vars PROVE PipeInv'
  OBVIOUS
<1>1. ASSUME NEW e \in Slot, Executor(e) \/ Claims(e) \/ Refuse(e) \/ Throw(e) PROVE PipeInv'
  BY <1>1, Reported, Finished, Caught, TicketFailed, Claimed, Refused, Threw DEF Executor, Claims
<1>2. ASSUME NEW r \in DOMAIN runs, Reap(r) \/ CancelRun(r) \/ RetryRead(r) PROVE PipeInv'
  <2>1. CASE Reap(r)
    BY <2>1, Reaped
  <2>2. CASE CancelRun(r)
    BY <2>2, RunCancels
  <2>3. CASE RetryRead(r)
    BY <2>3, OnlyRead DEF RetryRead
  <2> QED BY <1>2, <2>1, <2>2, <2>3
<1>3. CASE Dispatch \/ Approve
  BY <1>3, Ordered DEF Dispatch, Approve
<1>4. CASE Unblock \/ Reject
  BY <1>4, Ordered DEF Unblock, Reject
<1>5. CASE Watch \/ Crash \/ PatchCancel \/ PatchWrite \/ RetryInsert
  BY <1>5, Watched, Crashed, PatchCancels, PatchWrites, RetryInserts
<1>6. CASE Settle
  BY <1>6, OnlyRead DEF Settle
<1>7. ASSUME NEW to \in Stage, PatchRead(to) PROVE PipeInv'
  BY <1>7, OnlyRead DEF PatchRead
<1>8. ASSUME NEW to \in Stage, AgentSetsStatus(to) PROVE PipeInv'
  BY <1>8, AgentWrites
<1>9. CASE UNCHANGED vars
  BY <1>9, OnlyRead DEF vars
<1> QED BY <1>1, <1>2, <1>3, <1>4, <1>5, <1>6, <1>7, <1>8, <1>9 DEF Next, Person

\* It holds of every behaviour of the pipeline.
LEMMA PipeInvariance == Spec => []PipeInv
BY PipeInvInit, PipeInvNext, PTL DEF Spec

\* A ticket that is done or rejected has no run that could still spend tokens, for
\* any number of executors, attempts, rounds, faults and orders: applyTransition
\* cancels with the move, and nothing reopens, unless a PATCH or a retry raced it or
\* an agent wrote the status past it.
THEOREM TerminalStaysQuiet == Spec => []TerminalIsQuiet
<1>1. PipeInv => TerminalIsQuiet
  BY DEF PipeInv
<1> QED BY PipeInvariance, <1>1, PTL

\* A ticket that only agents may move has a run that will, however often its runs
\* have failed, been reaped, executed twice or been asked for again: every key that
\* transition() makes is one nobody has used, and every failure is reported; what
\* goes past transition(), as an agent's own write does, is named in upset.
THEOREM NobodyIsStranded == Spec => []NeverStranded
<1>1. PipeInv => NeverStranded
  BY DEF PipeInv, Carried, Carrying, NeverStranded
<1> QED BY PipeInvariance, <1>1, PTL
=============================================================================
