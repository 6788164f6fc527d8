--------------------------- MODULE TicketPipeline ---------------------------
(***************************************************************************)
(* One ticket on its way from the backlog to the merge: its status         *)
(* (services/tickets/ticketPipeline.ts), the transaction that moves it and  *)
(* enqueues or cancels its runs (ticketActions.ts), the activities that    *)
(* report to it (activities/delivery.ts), what the run worker does to it   *)
(* when an activity fails (failTicket in runs/runWorker.ts), the watcher of *)
(* its pull request (prWatcher.ts), people, who move the card, cancel and  *)
(* retry runs (tickets.service.ts, routes/m2.routes.ts), and agents, who   *)
(* may write any status of their own accord (agentTicket.service.ts).      *)
(*                                                                         *)
(* The queue is the one of RunQueue, seen from the ticket: leases, agents  *)
(* and backoffs are gone, what remains is that a run may be executed again *)
(* and by two executors at once.  There is one middleware process, so any  *)
(* executor of a running row is its lease holder (mw-<pid>).               *)
(***************************************************************************)
EXTENDS Naturals, Sequences, FiniteSets

CONSTANTS Slot,              \* executors of the run worker
          MaxAttempts,       \* agent_runs.max_attempts
          MaxReviewRounds,   \* ARIA_MAX_REVIEW_FIX_ROUNDS
          MaxQaRounds,       \* ARIA_MAX_QA_FIX_ROUNDS
          MaxRuns,           \* bound of the model: rows of the ticket
          MaxFaults,         \* bound: activities that throw, leases lost, crashes
          MaxOrders,         \* bound: what people, and agents unasked, do beyond approving
          MaxEvents          \* bound: faults and orders together

ASSUME PipelineAssumption ==
  /\ MaxAttempts \in Nat \ {0}
  /\ {MaxReviewRounds, MaxQaRounds, MaxRuns, MaxFaults, MaxOrders, MaxEvents} \subseteq Nat

VARIABLES
  stage,     \* tickets.status
  runs,      \* the ticket's rows of agent_runs, in the order of their creation
  at,        \* where each executor stands
  doing,     \* the index of the run it executes, 0 if none
  aborted,   \* executors whose heartbeat has failed
  pull,      \* the pull request on GitHub
  seen,      \* the watcher holds the ETag of the pull request as merged or closed
  patch,     \* a PATCH of the status that is under way
  asked,     \* the run a retry request has found retryable, 0 if none
  faults,    \* faults so far
  orders,    \* orders so far
  upset      \* history: what leaves the ticket or its runs alone

vars == <<stage, runs, at, doing, aborted, pull, seen, patch, asked, faults, orders, upset>>

Stage == {"backlog", "ready_for_dev", "in_progress", "ready_for_qa", "in_qa",
          "ready_for_review", "awaiting_merge", "blocked", "done", "rejected"}
Activity == {"develop", "review", "fix", "qa"}
Gate == {"review", "qa"}
RunStatus == {"queued", "running", "blocked", "succeeded", "failed", "cancelled"}
Open == {"queued", "running", "blocked"}

Key == [kind : Activity, n : 1 .. MaxRuns]
         \cup [kind : {"retry"}, n : 1 .. MaxRuns, attempt : 0 .. MaxAttempts]
Row == [act : Activity, back : Gate \cup {"none"}, key : Key, st : RunStatus,
        attempt : 0 .. MaxAttempts]

PipelineTypeOK ==
  /\ stage \in Stage
  /\ runs \in Seq(Row) /\ Len(runs) <= MaxRuns
  /\ at \in [Slot -> {"idle", "work", "moved", "threw", "illegal", "wrote"}]
  /\ doing \in [Slot -> 0 .. Len(runs)] /\ aborted \subseteq Slot
  /\ pull \in {"none", "open", "merged", "closed"}
  /\ seen \in BOOLEAN
  /\ patch \in [to : Stage \cup {"none"}, step : {"none", "cancel", "write"}]
  /\ asked \in 0 .. Len(runs)
  /\ faults \in 0 .. MaxFaults /\ orders \in 0 .. MaxOrders
  /\ upset \subseteq {"parked", "lost", "cancelled", "raced", "overruled"}

NoPatch == [to |-> "none", step |-> "none"]

Init == /\ stage = "backlog"
        /\ runs = <<>>
        /\ at = [e \in Slot |-> "idle"]
        /\ doing = [e \in Slot |-> 0] /\ aborted = {}
        /\ pull = "none" /\ seen = FALSE
        /\ patch = NoPatch /\ asked = 0
        /\ faults = 0 /\ orders = 0 /\ upset = {}

-----------------------------------------------------------------------------
\* transition(): the statuses each event leaves ...
From(event) ==
  CASE event = "approve" -> {"backlog"}
    [] event = "dispatch" -> {"ready_for_dev"}
    [] event \in {"pr_opened", "dev_failed", "fix_done"} -> {"in_progress"}
    [] event \in {"review_passed", "review_changes"} -> {"ready_for_review"}
    [] event \in {"qa_passed", "qa_failed"} -> {"in_qa"}
    [] event = "pr_merged" -> {"awaiting_merge", "in_qa", "ready_for_review", "in_progress"}
    [] event = "pr_closed" -> Stage \ {"done", "rejected", "backlog"}
    [] event = "unblock" -> {"blocked"}
    [] event = "reject" -> Stage \ {"done", "rejected"}

\* ... the fix rounds of a gate: the fix runs it asked for that have succeeded ...
Rounds(gate) == Cardinality({r \in DOMAIN runs : /\ runs[r].act = "fix"
                                                 /\ runs[r].back = gate
                                                 /\ runs[r].st = "succeeded"})
MaxRounds(gate) == IF gate = "qa" THEN MaxQaRounds ELSE MaxReviewRounds
FixOrBlock(gate) == IF Rounds(gate) < MaxRounds(gate) THEN "in_progress" ELSE "blocked"

\* ... where it goes ...
To(event, back) ==
  CASE event \in {"approve", "unblock"} -> "ready_for_dev"
    [] event = "dispatch" -> "in_progress"
    [] event = "pr_opened" -> "ready_for_review"
    [] event = "dev_failed" -> "blocked"
    [] event = "review_passed" -> "in_qa"
    [] event = "review_changes" -> FixOrBlock("review")
    [] event = "qa_failed" -> FixOrBlock("qa")
    [] event = "qa_passed" -> "awaiting_merge"
    [] event = "fix_done" -> IF back = "qa" THEN "in_qa" ELSE "ready_for_review"
    [] event = "pr_merged" -> "done"
    [] event \in {"pr_closed", "reject"} -> "rejected"

\* ... and the activity it enqueues.
Enqueues(event, to) ==
  CASE event = "dispatch" -> "develop"
    [] to = "ready_for_review" -> "review"
    [] to = "in_qa" -> "qa"
    [] event \in {"review_changes", "qa_failed"} /\ to = "in_progress" -> "fix"
    [] OTHER -> "none"

-----------------------------------------------------------------------------
\* INSERT ... ON CONFLICT (idempotency_key) DO NOTHING.
Inserted(act, back, key) ==
  IF \E r \in DOMAIN runs : runs[r].key = key
  THEN runs
  ELSE Append(runs, [act |-> act, back |-> back, key |-> key, st |-> "queued", attempt |-> 0])

\* The key of a transition counts the rows of the activity, retries included.
KeyByActivity(act) == [kind |-> act, n |-> 1]
FreshKey(act) ==
  [kind |-> act, n |-> Cardinality({r \in DOMAIN runs : runs[r].act = act}) + 1]

\* cancelForTicket: every open row.
CancelledQueued == [r \in DOMAIN runs |->
                      IF runs[r].st \in {"queued", "blocked"}
                      THEN [runs[r] EXCEPT !.st = "cancelled"] ELSE runs[r]]
Cancelled == [r \in DOMAIN runs |-> IF runs[r].st \in Open
                                    THEN [runs[r] EXCEPT !.st = "cancelled"] ELSE runs[r]]

Legal(event) == stage \in From(event)

\* applyTransition: under the ticket's row lock, the status and its effects in
\* one transaction.  What follows the commit touches no state of this module.
ApplyTransition(event, back) ==
  LET to == To(event, back)
      act == Enqueues(event, to)
  IN /\ Legal(event)
     /\ stage' = to
     /\ IF event \in {"pr_merged", "pr_closed", "reject"}
        THEN runs' = Cancelled
        ELSE IF act = "none"
        THEN UNCHANGED runs
        ELSE /\ Len(runs) < MaxRuns
             /\ runs' = Inserted(act,
                                 CASE act # "fix" -> "none"
                                   [] event = "qa_failed" -> "qa"
                                   [] OTHER -> "review",
                                 FreshKey(act))

-----------------------------------------------------------------------------
\* approveTicket and dispatchReadyTickets, once they have found an agent with
\* room (external to this module).
Approve == /\ ApplyTransition("approve", "none")
           /\ UNCHANGED <<at, doing, aborted, pull, seen, patch, asked, faults, orders, upset>>
Dispatch == /\ ApplyTransition("dispatch", "none")
            /\ UNCHANGED <<at, doing, aborted, pull, seen, patch, asked, faults, orders, upset>>

Running(e) == runs[doing[e]].st = "running"
SetStatus(r, st) == runs' = [runs EXCEPT ![r].st = st]
Goto(e, step) == at' = [at EXCEPT ![e] = step]
Done(e) == /\ Goto(e, "idle")
           /\ doing' = [doing EXCEPT ![e] = 0]
           /\ aborted' = aborted \ {e}
Fault == faults < MaxFaults /\ faults + orders < MaxEvents /\ faults' = faults + 1
NoteUpset(what) == upset' = upset \cup {what}

Claim(e, r) ==
  /\ at[e] = "idle" /\ runs[r].st = "queued"
  /\ SetStatus(r, "running")
  /\ Goto(e, "work")
  /\ doing' = [doing EXCEPT ![e] = r]
  /\ UNCHANGED <<stage, aborted, pull, seen, patch, asked, faults, orders, upset>>

\* The budget or the merge guard refuses the run: it is blocked, the ticket stays.
Refuse(e) ==
  /\ at[e] = "work"
  /\ Fault
  /\ IF Running(e) THEN SetStatus(doing[e], "blocked") /\ NoteUpset("parked")
                   ELSE UNCHANGED <<runs, upset>>
  /\ Done(e)
  /\ UNCHANGED <<stage, pull, seen, patch, asked, orders>>

\* What each activity may report.  The evidence gate may turn qa_passed into
\* qa_failed, which QA may also report itself.
Reports(act) == CASE act = "develop" -> {"pr_opened"}
                  [] act = "review" -> {"review_passed", "review_changes"}
                  [] act = "fix" -> {"fix_done"}
                  [] act = "qa" -> {"qa_passed", "qa_failed"}

\* develop opens a pull request, or finds the one it opened before, before it
\* reports or throws.
OpensPull(e) == runs[doing[e]].act = "develop" /\ at[e] = "work"
Opened == \/ pull' = "open" /\ seen' = FALSE
          \/ pull # "none" /\ UNCHANGED <<pull, seen>>

\* The activity reports, whether or not it still has its lease; a transition the
\* status does not allow throws.
Report(e) ==
  /\ at[e] = "work"
  /\ \E event \in Reports(runs[doing[e]].act) :
       \/ ApplyTransition(event, runs[doing[e]].back) /\ Goto(e, "moved")
       \/ ~Legal(event) /\ Goto(e, "illegal") /\ UNCHANGED <<stage, runs>>
  /\ IF OpensPull(e) THEN Opened ELSE UNCHANGED <<pull, seen>>
  /\ UNCHANGED <<doing, aborted, patch, asked, faults, orders, upset>>

\* The activity throws, before or after its report.
Throw(e) ==
  /\ at[e] \in {"work", "moved"}
  /\ Fault
  /\ Goto(e, "threw")
  /\ (OpensPull(e) /\ Opened) \/ UNCHANGED <<pull, seen>>
  /\ UNCHANGED <<stage, runs, doing, aborted, patch, asked, orders, upset>>

\* succeed(), or the executor finds that its row is no longer running.
Finish(e) ==
  /\ at[e] = "moved"
  /\ IF Running(e) /\ e \notin aborted
     THEN SetStatus(doing[e], "succeeded")
     ELSE UNCHANGED runs
  /\ Done(e)
  /\ UNCHANGED <<stage, pull, seen, patch, asked, faults, orders, upset>>

\* fail(): back to the queue while an attempt is left.
Retried(r) ==
  [runs[r] EXCEPT !.attempt = @ + 1,
                  !.st = IF runs[r].attempt + 1 < MaxAttempts THEN "queued" ELSE "failed"]

\* The catch: a terminal error blocks the row, a retryable one, such as an illegal
\* transition, goes through fail(); failTicket follows if that wrote the row.
Catch(e) ==
  /\ at[e] \in {"threw", "illegal"}
  /\ IF Running(e) /\ e \notin aborted
     THEN /\ \/ at[e] = "threw" /\ SetStatus(doing[e], "blocked")
             \/ runs' = [runs EXCEPT ![doing[e]] = Retried(doing[e])]
          /\ Goto(e, "wrote") /\ UNCHANGED <<doing, aborted>>
     ELSE Done(e) /\ UNCHANGED runs
  /\ UNCHANGED <<stage, pull, seen, patch, asked, faults, orders, upset>>

\* failTicket, whether the row was failed, blocked or requeued.  It looks at the
\* status first; transition() checks it again, which is what decides.
FailEvent(act) == CASE act = "review" -> "review_changes"
                    [] act = "qa" -> "qa_failed"
                    [] OTHER -> "dev_failed"
FailCodeOnly(e) ==
  /\ at[e] = "wrote"
  /\ LET act == runs[doing[e]].act
     IN IF act # "qa" /\ Legal(FailEvent(act))
        THEN ApplyTransition(FailEvent(act), "none") ELSE UNCHANGED <<stage, runs>>
  /\ Done(e)
  /\ UNCHANGED <<pull, seen, patch, asked, faults, orders, upset>>
FailTicket(e) ==
  /\ at[e] = "wrote"
  /\ LET event == FailEvent(runs[doing[e]].act)
     IN IF Legal(event) THEN ApplyTransition(event, "none") ELSE UNCHANGED <<stage, runs>>
  /\ Done(e)
  /\ UNCHANGED <<pull, seen, patch, asked, faults, orders, upset>>

-----------------------------------------------------------------------------
\* The process dies: its executors vanish, with the watcher's ETags and whatever
\* request it was serving.
Crash == /\ Fault
         /\ at' = [e \in Slot |-> "idle"]
         /\ doing' = [e \in Slot |-> 0] /\ aborted' = {}
         /\ seen' = FALSE
         /\ upset' = upset \cup (IF patch.step = "write" THEN {"raced"} ELSE {})
                           \cup (IF \E e \in Slot : at[e] = "wrote" THEN {"lost"} ELSE {})
         /\ patch' = NoPatch /\ asked' = 0
         /\ UNCHANGED <<stage, runs, pull, orders>>

\* reap(): of a run nobody executes, or of one whose executor has stalled.  A
\* cloud run that has its external id resumes; one out of attempts fails, and
\* the ticket is not told.  The stalled executor may notice at its next heartbeat.
Reap(r) ==
  /\ runs[r].st = "running"
  /\ IF \E e \in Slot : doing[e] = r THEN Fault ELSE UNCHANGED faults
  /\ \/ runs[r].act # "review" /\ SetStatus(r, "queued")
     \/ runs' = [runs EXCEPT ![r] = Retried(r)]
  /\ upset' = upset \cup (IF runs'[r].st = "failed" THEN {"lost"} ELSE {})
  /\ aborted' \in {aborted, aborted \cup {e \in Slot : doing[e] = r}}
  /\ UNCHANGED <<stage, at, doing, pull, seen, patch, asked, orders>>

\* The owner merges or closes the pull request on GitHub.
Settle == /\ pull = "open"
          /\ pull' \in {"merged", "closed"}
          /\ seen' = FALSE
          /\ UNCHANGED <<stage, runs, at, doing, aborted, patch, asked, faults, orders, upset>>

\* pr_number comes with the result of a run that has succeeded.
Numbered == \E r \in DOMAIN runs : runs[r].st = "succeeded" /\ runs[r].act # "review"

\* watchPullRequests: the pull request's new ETag is stored before its event is
\* applied; an event that is illegal, or whose transaction throws, is dropped.
WatchEvent == IF pull = "merged" THEN "pr_merged" ELSE "pr_closed"
Watch ==
  /\ Numbered /\ stage \notin {"done", "rejected"}
  /\ pull \in {"merged", "closed"} /\ ~seen
  /\ seen' = TRUE
  /\ \/ ApplyTransition(WatchEvent, "none") /\ UNCHANGED faults
     \/ ~Legal(WatchEvent) /\ UNCHANGED <<stage, runs, faults>>
     \/ Fault /\ UNCHANGED <<stage, runs>>
  /\ UNCHANGED <<at, doing, aborted, pull, patch, asked, orders, upset>>

-----------------------------------------------------------------------------
Order == orders < MaxOrders /\ faults + orders < MaxEvents /\ orders' = orders + 1

Unblock == /\ Order /\ ApplyTransition("unblock", "none")
           /\ UNCHANGED <<at, doing, aborted, pull, seen, patch, asked, faults, upset>>
Reject == /\ Order /\ ApplyTransition("reject", "none")
          /\ UNCHANGED <<at, doing, aborted, pull, seen, patch, asked, faults, upset>>

\* updateTicket with a status: it reads the ticket and checks the move, ...
HumanMaySet == Stage \ {"in_progress", "ready_for_review", "in_qa", "awaiting_merge"}
PatchRead(to) ==
  /\ Order /\ patch = NoPatch
  /\ to \in HumanMaySet \ {stage}
  /\ to = "ready_for_dev" => stage = "backlog"
  /\ patch' = [to |-> to, step |-> "cancel"]
  /\ UNCHANGED <<stage, runs, at, doing, aborted, pull, seen, asked, faults, upset>>
\* ... cancels the ticket's runs in a transaction of their own, ...
PatchCancel ==
  /\ patch.step = "cancel"
  /\ runs' = Cancelled
  /\ patch' = [patch EXCEPT !.step = "write"]
  /\ NoteUpset("raced")
  /\ UNCHANGED <<stage, at, doing, aborted, pull, seen, asked, faults, orders>>
\* ... and writes the status, whatever it has become.
PatchWrite ==
  /\ patch.step = "write"
  /\ stage' = patch.to
  /\ patch' = NoPatch
  /\ UNCHANGED <<runs, at, doing, aborted, pull, seen, asked, faults, orders, upset>>

\* POST /runs/:id/cancel
CancelRun(r) ==
  /\ Order /\ runs[r].st \in Open
  /\ SetStatus(r, "cancelled")
  /\ NoteUpset("cancelled")
  /\ UNCHANGED <<stage, at, doing, aborted, pull, seen, patch, asked, faults>>

\* POST /runs/:id/retry: the run and the ticket are read, then the run enqueued.
Retryable(r) ==
  /\ runs[r].st \in {"failed", "cancelled", "blocked"}
  /\ stage \in CASE runs[r].act = "develop" -> {"ready_for_dev", "in_progress", "blocked"}
                 [] runs[r].act = "fix" -> {"in_progress", "blocked"}
                 [] runs[r].act = "review" -> {"ready_for_review", "blocked"}
                 [] runs[r].act = "qa" -> {"in_qa", "blocked"}
RetryRead(r) ==
  /\ Order /\ asked = 0 /\ Retryable(r)
  /\ asked' = r
  /\ UNCHANGED <<stage, runs, at, doing, aborted, pull, seen, patch, faults, upset>>
RetryInsert ==
  /\ asked # 0 /\ Len(runs) < MaxRuns
  /\ runs' = Inserted(runs[asked].act, runs[asked].back,
                      [kind |-> "retry", n |-> asked, attempt |-> runs[asked].attempt])
  /\ asked' = 0
  /\ upset' = upset \cup (IF stage \in {"done", "rejected"} THEN {"raced"} ELSE {})
  /\ UNCHANGED <<stage, at, doing, aborted, pull, seen, patch, faults, orders>>

\* PATCH /api/agent/tickets/:id/status: the status is written, whatever it was, and
\* no run is enqueued or cancelled.
AgentSetsStatus(to) ==
  /\ Order /\ to # stage
  /\ stage' = to
  /\ NoteUpset("overruled")
  /\ UNCHANGED <<runs, at, doing, aborted, pull, seen, patch, asked, faults>>

-----------------------------------------------------------------------------
Executor(e) == \/ Report(e) \/ Finish(e) \/ Catch(e) \/ FailTicket(e)
Claims(e) == \E r \in DOMAIN runs : Claim(e, r)
Person == \/ Approve \/ Unblock \/ Reject \/ PatchCancel \/ PatchWrite \/ RetryInsert \/ Settle
          \/ \E to \in Stage : PatchRead(to) \/ AgentSetsStatus(to)
          \/ \E r \in DOMAIN runs : CancelRun(r) \/ RetryRead(r)

Next == \/ \E e \in Slot : Executor(e) \/ Claims(e) \/ Refuse(e) \/ Throw(e)
        \/ \E r \in DOMAIN runs : Reap(r)
        \/ Dispatch \/ Watch \/ Crash
        \/ Person

Spec == Init /\ [][Next]_vars

\* tick() claims and reaps every two seconds and watches every minute, a started
\* executor goes on, and a request under way ends.  People owe nothing, and nor
\* does the dispatcher, which may find no agent with room.
Unexecuted(r) == Reap(r) /\ ~\E e \in Slot : doing[e] = r
Fairness == /\ \A e \in Slot : WF_vars(Executor(e)) /\ WF_vars(Claims(e))
            /\ \A r \in 1 .. MaxRuns : WF_vars(r \in DOMAIN runs /\ Unexecuted(r))
            /\ WF_vars(Watch)
            /\ WF_vars(PatchCancel) /\ WF_vars(PatchWrite) /\ WF_vars(RetryInsert)

FairSpec == Spec /\ Fairness

-----------------------------------------------------------------------------
\* The activities that move a ticket on from each status agents own.
Serves == [in_progress |-> {"develop", "fix"}, ready_for_review |-> {"review"}, in_qa |-> {"qa"}]

Serving(r) == /\ runs[r].act \in Serves[stage]
              /\ \/ runs[r].st \in {"queued", "running"}
                 \/ \E e \in Slot : doing[e] = r /\ at[e] = "wrote"

\* A ticket that stands where only agents may move it has a run that will: every
\* transition enqueues its successor under a key nobody has used, and every run
\* that fails tells the ticket, however often both have happened before.  What has
\* left it without one is named in upset: a run refused, given up by the reaper or
\* cancelled by hand, a crash before the ticket was told, a PATCH, a retry or an
\* agent's write that went past transition().
NeverStranded ==
  stage \in DOMAIN Serves /\ upset = {} => \E r \in DOMAIN runs : Serving(r)

\* A ticket that is done or rejected has no run that could still spend tokens,
\* though runs are requeued, retried and reported at the same time, unless a PATCH or
\* a retry raced the transition or an agent wrote the status by itself.
TerminalIsQuiet ==
  stage \in {"done", "rejected"} /\ upset \cap {"raced", "overruled"} = {} =>
    \A r \in DOMAIN runs : runs[r].st \notin Open

\* A ticket in the hands of agents comes to rest: merged, rejected, blocked, or
\* waiting for its owner, whatever its activities report.
TicketRests == stage \in DOMAIN Serves ~> stage \notin DOMAIN Serves \/ upset # {}

-----------------------------------------------------------------------------

\* Not kept by the code.  Once the owner has merged the pull request the ticket is
\* done (or already rejected by hand); but a blocked ticket does not take the
\* event, and the watcher's ETag keeps it from coming again.
MergeReachesBoard == pull = "merged" /\ Numbered ~> stage \in {"done", "rejected"}
=============================================================================
