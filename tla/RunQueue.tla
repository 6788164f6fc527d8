------------------------------ MODULE RunQueue ------------------------------
(***************************************************************************)
(* The durable run queue: the rows of agent_runs and every statement that  *)
(* services/runs/runQueue.ts issues on them, with the agent switch of      *)
(* services/company.service.ts, which blocks, cancels and unblocks rows.   *)
(*                                                                         *)
(* One action is one statement or one transaction, the grain at which      *)
(* Postgres interleaves.  claim() is two: the SELECT ... FOR UPDATE SKIP   *)
(* LOCKED that picks a row and the UPDATE that takes it, because another   *)
(* session runs in between; the picked row stays locked meanwhile, and a   *)
(* statement that would write it waits.  Wall-clock time appears only      *)
(* through two facts: a lease has lapsed, a backoff is over.               *)
(***************************************************************************)
EXTENDS Naturals, FiniteSets

CONSTANTS Run,           \* idempotency keys, one row each once enqueued
          Agent,         \* rows of skills
          NoAgent,       \* agent_id IS NULL
          Ticket,
          NoTicket,      \* ticket_id IS NULL
          Worker,        \* values of lease_owner: mw-<pid>
          NoWorker,      \* lease_owner IS NULL
          NoRun,         \* a worker that has picked nothing
          AgentFor,      \* the agent each run is enqueued for
          TicketFor,     \* the ticket each run is enqueued for
          Cloud,         \* runs whose runtime is cursor_cloud
          MaxAttempts    \* agent_runs.max_attempts

ASSUME RunQueueAssumption ==
  /\ NoAgent \notin Agent
  /\ NoTicket \notin Ticket
  /\ NoWorker \notin Worker
  /\ NoRun \notin Run
  /\ AgentFor \in [Run -> Agent \cup {NoAgent}]
  /\ TicketFor \in [Run -> Ticket \cup {NoTicket}]
  /\ Cloud \subseteq Run
  /\ MaxAttempts \in Nat \ {0}

VARIABLES
  status,    \* agent_runs.status, "absent" before the row exists
  reason,    \* agent_runs.blocked_reason: agent_off, or any error code
  attempt,   \* agent_runs.attempt
  due,       \* not_before <= NOW()
  owner,     \* agent_runs.lease_owner
  lease,     \* lease_expires_at: NULL, in the future, or past
  ext,       \* external_run_id IS NOT NULL
  agent,     \* agent_runs.agent_id
  skill,     \* skills.enabled, or the row is gone
  calls,     \* updateAgent calls between two of their statements, or dead there
  picked,    \* the row a claim() transaction has locked and not yet taken
  starts     \* history: how often a run that is not resumed in the cloud was taken

queueVars == <<status, reason, attempt, due, owner, lease, ext, agent,
               skill, calls, picked, starts>>

Status == {"absent", "queued", "running", "blocked", "succeeded", "failed", "cancelled"}
Terminal == {"succeeded", "failed", "cancelled"}
Open == {"queued", "running", "blocked"}
Step == {"block", "cancel", "unblock", "abandoned"}

TypeOK ==
  /\ status \in [Run -> Status]
  /\ reason \in [Run -> {"none", "agent_off", "error"}]
  /\ attempt \in [Run -> 0 .. MaxAttempts]
  /\ due \in [Run -> BOOLEAN]
  /\ owner \in [Run -> Worker \cup {NoWorker}]
  /\ lease \in [Run -> {"none", "live", "lapsed"}]
  /\ ext \in [Run -> BOOLEAN]
  /\ agent \in [Run -> Agent \cup {NoAgent}]
  /\ skill \in [Agent -> {"on", "off", "deleted"}]
  /\ calls \subseteq Agent \X Step
  /\ picked \in [Worker -> Run \cup {NoRun}]
  /\ starts \in [Run -> 0 .. MaxAttempts]

Init ==
  /\ status = [r \in Run |-> "absent"]
  /\ reason = [r \in Run |-> "none"]
  /\ attempt = [r \in Run |-> 0]
  /\ due = [r \in Run |-> TRUE]
  /\ owner = [r \in Run |-> NoWorker]
  /\ lease = [r \in Run |-> "none"]
  /\ ext = [r \in Run |-> FALSE]
  /\ agent = AgentFor
  /\ skill = [a \in Agent |-> "on"]
  /\ calls = {}
  /\ picked = [w \in Worker |-> NoRun]
  /\ starts = [r \in Run |-> 0]

-----------------------------------------------------------------------------
\* f with every element of S mapped to v: an UPDATE over a set of rows.
Assign(f, S, v) == [x \in DOMAIN f |-> IF x \in S THEN v ELSE f[x]]

\* Some claim() transaction holds the row's lock.
Locked(r) == \E w \in Worker : picked[w] = r

\* Every terminal or parking UPDATE clears the lease of the rows it writes.
ClearLease(S) == /\ owner' = Assign(owner, S, NoWorker)
                 /\ lease' = Assign(lease, S, "none")

\* The WHERE of every statement a lease holder issues.
Holds(w, r) == status[r] = "running" /\ owner[r] = w

AgentIsOn(r) == agent[r] # NoAgent => skill[agent[r]] = "on"

\* The partial unique index uq_agent_runs_one_running lets r become running.
NoIndex(r) == TRUE
IndexAllows(r) ==
  \A s \in Run \ {r} : status[s] = "running" => agent[s] = NoAgent \/ agent[s] # agent[r]

-----------------------------------------------------------------------------
\* INSERT ... ON CONFLICT DO NOTHING: a second enqueue of the same key changes
\* nothing.  The foreign key refuses an agent that is gone.
Enqueue(r) ==
  /\ status[r] = "absent"
  /\ agent[r] # NoAgent => skill[agent[r]] # "deleted"
  /\ status' = [status EXCEPT ![r] = "queued"]
  /\ UNCHANGED <<reason, attempt, due, owner, lease, ext, agent, skill, calls, picked, starts>>

\* claim(), first statement.  SKIP LOCKED may pass over any better row, so the
\* choice among the eligible rows is free.
Pick(w, r) ==
  /\ picked[w] = NoRun
  /\ status[r] = "queued" /\ due[r] /\ ~Locked(r)
  /\ AgentIsOn(r)
  /\ agent[r] # NoAgent => \A s \in Run : agent[s] = agent[r] => status[s] # "running"
  /\ picked' = [picked EXCEPT ![w] = r]
  /\ UNCHANGED <<status, reason, attempt, due, owner, lease, ext, agent, skill, calls, starts>>

\* claim(), second statement and commit.
Take(w, r) ==
  /\ picked[w] = r
  /\ IndexAllows(r)
  /\ status' = [status EXCEPT ![r] = "running"]
  /\ owner' = [owner EXCEPT ![r] = w]
  /\ lease' = [lease EXCEPT ![r] = "live"]
  /\ picked' = [picked EXCEPT ![w] = NoRun]
  /\ starts' = [starts EXCEPT ![r] = IF r \in Cloud THEN @ ELSE @ + 1]
  /\ UNCHANGED <<reason, attempt, due, ext, agent, skill, calls>>

\* claim() rolls back: the index refused the row (23505), the statement threw,
\* or the process died with the transaction open.
Drop(w) ==
  /\ picked[w] # NoRun
  /\ picked' = [picked EXCEPT ![w] = NoRun]
  /\ UNCHANGED <<status, reason, attempt, due, owner, lease, ext, agent, skill, calls, starts>>

Heartbeat(w, r) ==
  /\ Holds(w, r)
  /\ lease' = [lease EXCEPT ![r] = "live"]
  /\ UNCHANGED <<status, reason, attempt, due, owner, ext, agent, skill, calls, picked, starts>>

\* The cloud activity stores the external run id of a running row, whoever owns it.
SetExternal(r) ==
  /\ r \in Cloud /\ status[r] = "running"
  /\ ext' = [ext EXCEPT ![r] = TRUE]
  /\ UNCHANGED <<status, reason, attempt, due, owner, lease, agent, skill, calls, picked, starts>>

Succeed(w, r) ==
  /\ Holds(w, r)
  /\ status' = [status EXCEPT ![r] = "succeeded"]
  /\ ClearLease({r})
  /\ UNCHANGED <<reason, attempt, due, ext, agent, skill, calls, picked, starts>>

Block(w, r) ==
  /\ Holds(w, r)
  /\ status' = [status EXCEPT ![r] = "blocked"]
  /\ reason' = [reason EXCEPT ![r] = "error"]
  /\ ClearLease({r})
  /\ UNCHANGED <<attempt, due, ext, agent, skill, calls, picked, starts>>

\* A retryable failure goes back to the queue while an attempt is left.
FailUncounted(w, r, retryable) ==
  /\ Holds(w, r)
  /\ attempt' = [attempt EXCEPT ![r] = @ + 1]
  /\ IF retryable /\ attempt[r] < MaxAttempts
     THEN /\ status' = [status EXCEPT ![r] = "queued"]
          /\ due' = [due EXCEPT ![r] = FALSE]
     ELSE /\ status' = [status EXCEPT ![r] = "failed"]
          /\ UNCHANGED due
  /\ ClearLease({r})
  /\ UNCHANGED <<reason, ext, agent, skill, calls, picked, starts>>
Fail(w, r, retryable) ==
  /\ Holds(w, r)
  /\ attempt' = [attempt EXCEPT ![r] = @ + 1]
  /\ IF retryable /\ attempt[r] + 1 < MaxAttempts
     THEN /\ status' = [status EXCEPT ![r] = "queued"]
          /\ due' = [due EXCEPT ![r] = FALSE]
     ELSE /\ status' = [status EXCEPT ![r] = "failed"]
          /\ UNCHANGED due
  /\ ClearLease({r})
  /\ UNCHANGED <<reason, ext, agent, skill, calls, picked, starts>>

-----------------------------------------------------------------------------
\* The rows an UPDATE over S rewrites are locked by no claim(): it waits.
CancelRows(S) ==
  /\ S # {}
  /\ \A r \in S : ~Locked(r)
  /\ status' = Assign(status, S, "cancelled")
  /\ ClearLease(S)
  /\ UNCHANGED <<reason, attempt, due, ext, agent, skill, picked, starts>>

Cancel(r) == /\ status[r] \in Open
             /\ CancelRows({r})
             /\ UNCHANGED calls

CancelForTicket(t) == /\ CancelRows({r \in Run : TicketFor[r] = t /\ status[r] \in Open})
                      /\ UNCHANGED calls

Resumable(r) == r \in Cloud /\ ext[r]
GivesUp(r) == ~Resumable(r) /\ attempt[r] + 1 >= MaxAttempts
ReapAttempt(r) == IF Resumable(r) THEN attempt[r] ELSE attempt[r] + 1

Expired == {r \in Run : status[r] = "running" /\ lease[r] = "lapsed"}

\* reap() rewrites every running row whose lease has lapsed.  A cloud run that
\* already has an external id is resumed at once, at the same attempt, for ever.
Reap ==
  /\ Expired # {}
  /\ status' = [r \in Run |-> IF r \notin Expired THEN status[r]
                              ELSE IF GivesUp(r) THEN "failed" ELSE "queued"]
  /\ attempt' = [r \in Run |-> IF r \in Expired THEN ReapAttempt(r) ELSE attempt[r]]
  /\ due' = [r \in Run |-> IF r \in Expired /\ ~GivesUp(r) THEN Resumable(r) ELSE due[r]]
  /\ ClearLease(Expired)
  /\ UNCHANGED <<reason, ext, agent, skill, calls, picked, starts>>

\* Shutdown expires the worker's own leases; the rows stay running and owned.
ReleaseLeases(w) ==
  /\ \E r \in Run : Holds(w, r) /\ lease[r] = "live"
  /\ lease' = Assign(lease, {r \in Run : Holds(w, r)}, "lapsed")
  /\ UNCHANGED <<status, reason, attempt, due, owner, ext, agent, skill, calls, picked, starts>>

\* Ninety seconds pass without a heartbeat.
Lapse(r) ==
  /\ lease[r] = "live"
  /\ lease' = [lease EXCEPT ![r] = "lapsed"]
  /\ UNCHANGED <<status, reason, attempt, due, owner, ext, agent, skill, calls, picked, starts>>

BackoffOver(r) ==
  /\ ~due[r]
  /\ due' = [due EXCEPT ![r] = TRUE]
  /\ UNCHANGED <<status, reason, attempt, owner, lease, ext, agent, skill, calls, picked, starts>>

-----------------------------------------------------------------------------
\* updateAgent, enabled = false: the skill row first, then two statements of the
\* queue.  One call per agent is in each gap (a bound of the model).
AgentOff(a) ==
  /\ skill[a] # "deleted" /\ <<a, "block">> \notin calls
  /\ skill' = [skill EXCEPT ![a] = "off"]
  /\ calls' = (calls \ {<<a, "abandoned">>}) \cup {<<a, "block">>}
  /\ UNCHANGED <<status, reason, attempt, due, owner, lease, ext, agent, picked, starts>>

OfAgent(a, st) == {r \in Run : agent[r] = a /\ status[r] = st}

\* The UPDATE waits for a row that a claim() holds, then re-reads its status.
BlockQueuedNoWait(a) ==
  /\ <<a, "block">> \in calls /\ <<a, "cancel">> \notin calls
  /\ status' = Assign(status, {r \in OfAgent(a, "queued") : ~Locked(r)}, "blocked")
  /\ reason' = Assign(reason, {r \in OfAgent(a, "queued") : ~Locked(r)}, "agent_off")
  /\ calls' = (calls \ {<<a, "block">>}) \cup {<<a, "cancel">>}
  /\ UNCHANGED <<attempt, due, owner, lease, ext, agent, skill, picked, starts>>
BlockQueuedForAgent(a) ==
  /\ <<a, "block">> \in calls /\ <<a, "cancel">> \notin calls
  /\ \A r \in OfAgent(a, "queued") : ~Locked(r)
  /\ status' = Assign(status, OfAgent(a, "queued"), "blocked")
  /\ reason' = Assign(reason, OfAgent(a, "queued"), "agent_off")
  /\ calls' = (calls \ {<<a, "block">>}) \cup {<<a, "cancel">>}
  /\ UNCHANGED <<attempt, due, owner, lease, ext, agent, skill, picked, starts>>

CancelRunningForAgent(a) ==
  /\ <<a, "cancel">> \in calls
  /\ status' = Assign(status, OfAgent(a, "running"), "cancelled")
  /\ ClearLease(OfAgent(a, "running"))
  /\ calls' = calls \ {<<a, "cancel">>}
  /\ UNCHANGED <<reason, attempt, due, ext, agent, skill, picked, starts>>

\* A statement throws or the process dies: nothing repeats the rest of the call.
Abandon(a, s) ==
  /\ <<a, s>> \in calls /\ s \in {"block", "cancel"}
  /\ calls' = (calls \ {<<a, s>>}) \cup {<<a, "abandoned">>}
  /\ UNCHANGED <<status, reason, attempt, due, owner, lease, ext, agent, skill, picked, starts>>

AgentOn(a) ==
  /\ skill[a] # "deleted" /\ <<a, "unblock">> \notin calls
  /\ skill' = [skill EXCEPT ![a] = "on"]
  /\ calls' = calls \cup {<<a, "unblock">>}
  /\ UNCHANGED <<status, reason, attempt, due, owner, lease, ext, agent, picked, starts>>

UnblockEveryRunOf(a) ==
  LET S == OfAgent(a, "blocked")
  IN /\ <<a, "unblock">> \in calls
     /\ status' = Assign(status, S, "queued")
     /\ reason' = Assign(reason, S, "none")
     /\ due' = Assign(due, S, TRUE)
     /\ calls' = calls \ {<<a, "unblock">>}
     /\ UNCHANGED <<attempt, owner, lease, ext, agent, skill, picked, starts>>
UnblockQueuedForAgent(a) ==
  LET S == {r \in OfAgent(a, "blocked") : reason[r] = "agent_off"}
  IN /\ <<a, "unblock">> \in calls
     /\ status' = Assign(status, S, "queued")
     /\ reason' = Assign(reason, S, "none")
     /\ due' = Assign(due, S, TRUE)
     /\ calls' = calls \ {<<a, "unblock">>}
     /\ UNCHANGED <<attempt, owner, lease, ext, agent, skill, picked, starts>>

\* deleteAgent: the foreign key sets agent_id of the agent's rows to NULL.
DeleteAgent(a) ==
  LET S == {r \in Run : status[r] # "absent" /\ agent[r] = a}
  IN /\ skill[a] # "deleted"
     /\ \A r \in S : ~Locked(r)
     /\ skill' = [skill EXCEPT ![a] = "deleted"]
     /\ agent' = Assign(agent, S, NoAgent)
     /\ UNCHANGED <<status, reason, attempt, due, owner, lease, ext, calls, picked, starts>>

-----------------------------------------------------------------------------
HolderStep(w, r) == \/ Heartbeat(w, r)
                    \/ Succeed(w, r)
                    \/ Block(w, r)
                    \/ \E retryable \in BOOLEAN : Fail(w, r, retryable)

ClaimStep(w) == Drop(w) \/ \E r \in Run : Pick(w, r) \/ Take(w, r)

AgentStep(a) == \/ AgentOff(a) \/ BlockQueuedForAgent(a) \/ CancelRunningForAgent(a)
                \/ AgentOn(a) \/ UnblockQueuedForAgent(a) \/ DeleteAgent(a)
                \/ \E s \in Step : Abandon(a, s)

RowStep(r) == Enqueue(r) \/ SetExternal(r) \/ Cancel(r) \/ Lapse(r) \/ BackoffOver(r)

Next == \/ \E r \in Run : RowStep(r)
        \/ \E w \in Worker : ClaimStep(w) \/ ReleaseLeases(w)
        \/ \E w \in Worker, r \in Run : HolderStep(w, r)
        \/ \E t \in Ticket : CancelForTicket(t)
        \/ \E a \in Agent : AgentStep(a)
        \/ Reap

Spec == Init /\ [][Next]_queueVars

-----------------------------------------------------------------------------
\* At most one run of an agent is running, although claim() looks before it
\* writes and two claims may pick two rows of the same agent: the index decides.
OneRunningPerAgent ==
  \A r, s \in Run : /\ status[r] = "running" /\ status[s] = "running"
                    /\ agent[r] = agent[s] /\ agent[r] # NoAgent
                    => r = s

\* A row has a lease and an owner exactly while it is running, through every
\* path that ends, parks or requeues it; a row under claim() is still queued.
HolderIffRunning ==
  /\ \A r \in Run : /\ status[r] = "running" <=> owner[r] # NoWorker
                    /\ status[r] = "running" <=> lease[r] # "none"
  /\ \A w \in Worker : picked[w] # NoRun => status[picked[w]] = "queued"

\* A run that may still be started has an attempt left, so neither the reaper
\* nor a retry gives a run more starts than max_attempts (cloud resumes aside).
AttemptsLeft ==
  /\ \A r \in Run : status[r] \in Open => attempt[r] < MaxAttempts
  /\ \A r \in Run \ Cloud : starts[r] <= attempt[r] + 1
  /\ \A r \in Run \ Cloud : status[r] = "queued" => starts[r] <= attempt[r]

\* Once a call that turns an agent off has run to its end, the agent has no
\* running run, although a claim() that saw it on may still have been under way.
OffAgentIdle ==
  \A r \in Run :
    /\ status[r] = "running"
    /\ agent[r] \in Agent /\ skill[agent[r]] = "off"
    => \E s \in {"block", "cancel", "abandoned"} : <<agent[r], s>> \in calls

\* A step that puts a running row back in the queue, a retry or the reaper, charges
\* it an attempt, unless it resumes a cloud run that keeps its external id.
RequeueIsCharged ==
  [][\A r \in Run : status[r] = "running" /\ status'[r] = "queued"
       => attempt'[r] = attempt[r] + 1 \/ Resumable(r)]_queueVars

\* A run that has ended stays as it ended, whatever arrives late.
TerminalFinal ==
  [][\A r \in Run : status[r] \in Terminal => /\ status'[r] = status[r]
                                              /\ attempt'[r] = attempt[r]]_queueVars

PhaseOf == [absent |-> "absent", queued |-> "waiting", running |-> "working",
            blocked |-> "parked", succeeded |-> "ended", failed |-> "ended",
            cancelled |-> "ended"]

Life == INSTANCE RunLifecycle WITH
          phase <- [r \in Run |-> PhaseOf[status[r]]],
          tries <- attempt,
          seat <- agent,
          Seat <- Agent, NoSeat <- NoAgent

\* The rows, however they are claimed, reaped, switched off or deleted, keep the
\* promise of RunLifecycle.
KeepsLifecycle == Life!AbsSpec
=============================================================================
