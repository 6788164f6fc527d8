----------------------------- MODULE RunWorker ------------------------------
(***************************************************************************)
(* The run worker over the run queue: every executor (executeClaimed in    *)
(* services/runs/runWorker.ts) as a process of its own, with the token     *)
(* reservation it takes in the ledger (services/runs/budget.ts), copies to *)
(* the row (markTokensReserved) and settles or gives back.                 *)
(*                                                                         *)
(* One reservation is one unit.  The same unit may be handed back by the   *)
(* executor, by a cancellation, by an agent's switch and by the reaper, and *)
(* each of them works after its own commit, from what it read before it.   *)
(* A worker's crash, its shutdown, a lease that lapses under a live        *)
(* executor and a statement that throws are faults, MaxFaults in all.      *)
(***************************************************************************)
EXTENDS RunQueue

CONSTANTS Slot,          \* executors: one per unit of a worker's concurrency
          OwnerOf,       \* the worker of each slot
          MaxFaults      \* bound of the model

ASSUME RunWorkerAssumption == /\ IsFiniteSet(Slot)
                              /\ OwnerOf \in [Slot -> Worker]
                              /\ MaxFaults \in Nat

VARIABLES
  pc,        \* where each executor stands
  job,       \* the run it executes
  mine,      \* its local variable reserved is not 0
  aborted,   \* its AbortController has fired
  held,      \* agent_runs.tokens_reserved > 0
  ledger,    \* units in token_ledger.tokens_reserved
  refunds,   \* releases read from a row and not yet applied to the ledger
  charged,   \* history: settlements of a run's usage
  faults,    \* faults so far
  upset      \* history: what has happened that loses track of a reservation

workVars == <<pc, job, mine, aborted, held, ledger, refunds, charged, faults, upset>>
vars == <<queueVars, workVars>>

Stage == {"idle", "prepare", "over", "mark", "work", "return", "finish", "settle",
          "threw", "release", "giveback", "refund"}

WorkTypeOK ==
  /\ TypeOK
  /\ pc \in [Slot -> Stage]
  /\ job \in [Slot -> Run \cup {NoRun}]
  /\ mine \in [Slot -> BOOLEAN]
  /\ aborted \in [Slot -> BOOLEAN]
  /\ held \in [Run -> BOOLEAN]
  /\ ledger \in Nat /\ refunds \in Nat
  /\ charged \in [Run -> Nat]
  /\ faults \in 0 .. MaxFaults
  /\ upset \subseteq {"gap", "stale", "fault"}

WorkInit ==
  /\ Init
  /\ pc = [e \in Slot |-> "idle"]
  /\ job = [e \in Slot |-> NoRun]
  /\ mine = [e \in Slot |-> FALSE]
  /\ aborted = [e \in Slot |-> FALSE]
  /\ held = [r \in Run |-> FALSE]
  /\ ledger = 0 /\ refunds = 0
  /\ charged = [r \in Run |-> 0]
  /\ faults = 0
  /\ upset = {}

-----------------------------------------------------------------------------
Busy(e) == pc[e] # "idle"
Executes(e, r) == Busy(e) /\ job[e] = r
StillHolds(e) == Holds(OwnerOf[e], job[e])

Goto(e, stage) == pc' = [pc EXCEPT ![e] = stage]

\* GREATEST(0, tokens_reserved - n) of settleRun.
Debit(n) == ledger' = IF ledger > n THEN ledger - n ELSE 0

\* A statement that zeroes tokens_reserved and returns what was there, for its
\* caller to release after the commit.
DropHeld(S) == held' = Assign(held, S, FALSE) /\ UNCHANGED refunds
TakeHeld(S) == /\ held' = Assign(held, S, FALSE)
               /\ refunds' = refunds + Cardinality({r \in S : held[r]})

\* An executor has the row and has yet to copy its reservation to it.
InGap(S) == \E e \in Slot : pc[e] \in {"prepare", "mark"} /\ job[e] \in S
Note(S) == upset' = upset \cup (IF InGap(S) THEN {"gap"} ELSE {})

Fault == /\ faults < MaxFaults
         /\ faults' = faults + 1
         /\ upset' = upset \cup {"fault"}

\* The executor reaches its end and its slot is free again.
Done(e) == /\ pc' = [pc EXCEPT ![e] = "idle"]
           /\ job' = [job EXCEPT ![e] = NoRun]
           /\ mine' = [mine EXCEPT ![e] = FALSE]
           /\ aborted' = [aborted EXCEPT ![e] = FALSE]

-----------------------------------------------------------------------------
\* The queue's steps that no executor takes.
Submit(r) == Enqueue(r) /\ UNCHANGED workVars

\* tick() claims only while a slot of the worker is free.
TickPick(w, r) == /\ \E e \in Slot : OwnerOf[e] = w /\ ~Busy(e)
                  /\ Pick(w, r)
                  /\ UNCHANGED workVars
\* The index refuses the row, or the statement throws.
TickDrop(w) ==
  /\ Drop(w)
  /\ IF IndexAllows(picked[w]) THEN Fault ELSE UNCHANGED <<faults, upset>>
  /\ UNCHANGED <<pc, job, mine, aborted, held, ledger, refunds, charged>>
TickTake(e, r) ==
  /\ ~Busy(e)
  /\ Take(OwnerOf[e], r)
  /\ Goto(e, "prepare")
  /\ job' = [job EXCEPT ![e] = r]
  /\ UNCHANGED <<mine, aborted, held, ledger, refunds, charged, faults, upset>>

\* tick() and startRunWorker() reap, and release what the rows still held.
TickReap ==
  /\ Reap
  /\ TakeHeld(Expired)
  /\ upset' = upset \cup (IF \E e \in Slot : Busy(e) /\ job[e] \in Expired THEN {"stale"} ELSE {})
  /\ UNCHANGED <<pc, job, mine, aborted, ledger, charged, faults>>

\* A lease runs out: of an executor that is gone, or of one whose process stalls.
LeaseEnds(r) ==
  /\ Lapse(r)
  /\ IF \E e \in Slot : Executes(e, r) /\ StillHolds(e)
     THEN Fault ELSE UNCHANGED <<faults, upset>>
  /\ UNCHANGED <<pc, job, mine, aborted, held, ledger, refunds, charged>>

TimePasses(r) == BackoffOver(r) /\ UNCHANGED workVars

UserCancels(r) ==
  /\ Cancel(r) /\ TakeHeld({r}) /\ Note({r})
  /\ UNCHANGED <<pc, job, mine, aborted, ledger, charged, faults>>

TicketCancels(t) ==
  LET S == {r \in Run : TicketFor[r] = t /\ status[r] \in Open}
  IN /\ CancelForTicket(t) /\ TakeHeld(S) /\ Note(S)
     /\ UNCHANGED <<pc, job, mine, aborted, ledger, charged, faults>>

SwitchCancels(a) ==
  LET S == OfAgent(a, "running")
  IN /\ CancelRunningForAgent(a) /\ TakeHeld(S) /\ Note(S)
     /\ UNCHANGED <<pc, job, mine, aborted, ledger, charged, faults>>

SwitchSteps(a) ==
  /\ \/ AgentOff(a) \/ BlockQueuedForAgent(a)
     \/ AgentOn(a) \/ UnblockQueuedForAgent(a)
  /\ UNCHANGED workVars

\* releaseHeldRuns: one of the releases somebody read before its commit.
Refund == /\ refunds > 0
          /\ refunds' = refunds - 1
          /\ Debit(1)
          /\ UNCHANGED <<queueVars, pc, job, mine, aborted, held, charged, faults, upset>>

-----------------------------------------------------------------------------
\* resolveForRun, prepareDevelop and the budgets, then reserveRun: its refusal
\* blocks the run, and whatever throws goes to the catch with nothing reserved.
Reserve(e) ==
  /\ pc[e] = "prepare"
  /\ \/ /\ Goto(e, "mark")
        /\ mine' = [mine EXCEPT ![e] = TRUE]
        /\ ledger' = ledger + 1
     \/ /\ pc' \in {[pc EXCEPT ![e] = s] : s \in {"over", "threw"}}
        /\ UNCHANGED <<mine, ledger>>
  /\ UNCHANGED <<queueVars, job, aborted, held, refunds, charged, faults, upset>>

\* noteBudget throws after the reservation has been committed.
ReserveThrows(e) ==
  /\ pc[e] = "prepare"
  /\ Fault
  /\ ledger' = ledger + 1
  /\ Goto(e, "threw")
  /\ UNCHANGED <<queueVars, job, mine, aborted, held, refunds, charged>>

OverBudget(e) ==
  /\ pc[e] = "over"
  /\ IF StillHolds(e)
     THEN Block(OwnerOf[e], job[e]) /\ held' = [held EXCEPT ![job[e]] = FALSE]
     ELSE UNCHANGED <<queueVars, held>>
  /\ Done(e)
  /\ UNCHANGED <<ledger, refunds, charged, faults, upset>>

\* markTokensReserved: by id alone, whatever the row has become.
Mark(e) ==
  /\ pc[e] = "mark"
  /\ held' = [held EXCEPT ![job[e]] = TRUE]
  /\ Goto(e, "work")
  /\ UNCHANGED <<queueVars, job, mine, aborted, ledger, refunds, charged, faults, upset>>

\* dispatch: a cloud activity stores its external id on the way; it returns or
\* throws in its own time.
StoreExternal(e) == /\ pc[e] = "work"
                    /\ ~ext[job[e]]
                    /\ SetExternal(job[e])
                    /\ UNCHANGED workVars
Dispatch(e) ==
  /\ pc[e] = "work"
  /\ \E stage \in {"return", "threw"} : Goto(e, stage)
  /\ UNCHANGED <<queueVars, job, mine, aborted, held, ledger, refunds, charged, faults, upset>>

\* The interval's heartbeat, and the one after dispatch.
Beat(e) == /\ Busy(e)
           /\ IF StillHolds(e)
              THEN Heartbeat(OwnerOf[e], job[e]) /\ UNCHANGED workVars
              ELSE /\ aborted' = [aborted EXCEPT ![e] = TRUE]
                   /\ UNCHANGED <<queueVars, pc, job, mine, held, ledger, refunds, charged,
                                  faults, upset>>
BeatThrows(e) ==
  /\ pc[e] = "work" /\ ~aborted[e]
  /\ Fault
  /\ aborted' = [aborted EXCEPT ![e] = TRUE]
  /\ UNCHANGED <<queueVars, pc, job, mine, held, ledger, refunds, charged>>

CheckAlive(e) ==
  /\ pc[e] = "return"
  /\ IF ~aborted[e] /\ StillHolds(e)
     THEN Heartbeat(OwnerOf[e], job[e]) /\ Goto(e, "finish")
     ELSE Goto(e, "giveback") /\ UNCHANGED queueVars
  /\ UNCHANGED <<job, mine, aborted, held, ledger, refunds, charged, faults, upset>>

\* succeed(): the row's tokens_reserved goes to 0 and the executor keeps its own.
FinishUnchecked(e) ==
  /\ pc[e] = "finish"
  /\ IF StillHolds(e)
     THEN Succeed(OwnerOf[e], job[e]) /\ held' = [held EXCEPT ![job[e]] = FALSE]
     ELSE UNCHANGED <<queueVars, held>>
  /\ Goto(e, "settle")
  /\ UNCHANGED <<job, mine, aborted, ledger, refunds, charged, faults, upset>>
Finish(e) ==
  /\ pc[e] = "finish"
  /\ IF StillHolds(e)
     THEN /\ Succeed(OwnerOf[e], job[e])
          /\ held' = [held EXCEPT ![job[e]] = FALSE]
          /\ Goto(e, "settle")
     ELSE Goto(e, "giveback") /\ UNCHANGED <<queueVars, held>>
  /\ UNCHANGED <<job, mine, aborted, ledger, refunds, charged, faults, upset>>

Settle(e) ==
  /\ pc[e] = "settle"
  /\ Debit(1)
  /\ charged' = [charged EXCEPT ![job[e]] = @ + 1]
  /\ Done(e)
  /\ UNCHANGED <<queueVars, held, refunds, faults, upset>>

\* The catch: give back if aborted, else block or fail the row, and release the
\* executor's own reservation only if that wrote the row.
CatchInsists(e) ==
  /\ pc[e] = "threw"
  /\ \/ /\ aborted[e]
        /\ Goto(e, "giveback")
        /\ UNCHANGED <<queueVars, held, job, mine, aborted>>
     \/ /\ ~aborted[e] /\ StillHolds(e)
        /\ Block(OwnerOf[e], job[e]) \/ Fail(OwnerOf[e], job[e], TRUE)
        /\ held' = [held EXCEPT ![job[e]] = FALSE]
        /\ IF mine[e] THEN Goto(e, "release") /\ UNCHANGED <<job, mine, aborted>>
                      ELSE Done(e)
  /\ UNCHANGED <<ledger, refunds, charged, faults, upset>>
Catch(e) ==
  /\ pc[e] = "threw"
  /\ \/ /\ aborted[e]
        /\ Goto(e, "giveback")
        /\ UNCHANGED <<queueVars, held, job, mine, aborted>>
     \/ /\ ~aborted[e] /\ StillHolds(e)
        /\ Block(OwnerOf[e], job[e]) \/ Fail(OwnerOf[e], job[e], TRUE)
        /\ held' = [held EXCEPT ![job[e]] = FALSE]
        /\ IF mine[e] THEN Goto(e, "release") /\ UNCHANGED <<job, mine, aborted>>
                      ELSE Done(e)
     \/ /\ ~aborted[e] /\ ~StillHolds(e)
        /\ Done(e)
        /\ UNCHANGED <<queueVars, held>>
  /\ UNCHANGED <<ledger, refunds, charged, faults, upset>>

Release(e) == /\ pc[e] = "release"
              /\ Debit(1)
              /\ Done(e)
              /\ UNCHANGED <<queueVars, held, refunds, charged, faults, upset>>

\* giveBack: consumeReservation takes what the row holds, whoever put it there.
GiveBackBlindly(e) ==
  /\ pc[e] = "giveback"
  /\ IF mine[e]
     THEN /\ held' = [held EXCEPT ![job[e]] = FALSE]
          /\ Goto(e, "refund")
          /\ UNCHANGED <<job, mine, aborted>>
     ELSE Done(e) /\ UNCHANGED held
  /\ UNCHANGED <<queueVars, ledger, refunds, charged, faults, upset>>
GiveBack(e) ==
  /\ pc[e] = "giveback"
  /\ IF mine[e] /\ held[job[e]]
     THEN /\ held' = [held EXCEPT ![job[e]] = FALSE]
          /\ Goto(e, "refund")
          /\ UNCHANGED <<job, mine, aborted>>
     ELSE Done(e) /\ UNCHANGED held
  /\ UNCHANGED <<queueVars, ledger, refunds, charged, faults, upset>>

RefundOwn(e) == /\ pc[e] = "refund"
                /\ Debit(1)
                /\ Done(e)
                /\ UNCHANGED <<queueVars, held, refunds, charged, faults, upset>>

\* markTokensReserved, dispatch's last statement or settleRun throws: the catch,
\* with the reservation still the executor's own.
Throws(e) ==
  /\ pc[e] \in {"mark", "settle"}
  /\ Fault
  /\ Goto(e, "threw")
  /\ UNCHANGED <<queueVars, job, mine, aborted, held, ledger, refunds, charged>>

-----------------------------------------------------------------------------
\* The worker's process dies: its executors vanish, its claim rolls back, and it
\* comes back with the same mw-<pid>, as it does in a container.
SlotsOf(w) == {e \in Slot : OwnerOf[e] = w}
Crash(w) ==
  /\ picked[w] # NoRun \/ \E e \in SlotsOf(w) : Busy(e)
  /\ Fault
  /\ pc' = Assign(pc, SlotsOf(w), "idle")
  /\ job' = Assign(job, SlotsOf(w), NoRun)
  /\ mine' = Assign(mine, SlotsOf(w), FALSE)
  /\ aborted' = Assign(aborted, SlotsOf(w), FALSE)
  /\ picked' = [picked EXCEPT ![w] = NoRun]
  /\ UNCHANGED <<status, reason, attempt, due, owner, lease, ext, agent, skill, calls, starts,
                 held, ledger, refunds, charged>>

\* A process dies between a commit and the release that was to follow it.
LoseRefund == /\ refunds > 0
              /\ Fault
              /\ refunds' = refunds - 1
              /\ UNCHANGED <<queueVars, pc, job, mine, aborted, held, ledger, charged>>

\* SIGTERM: stopRunWorker expires the worker's leases; its executors live on until
\* the process exits (Crash), and may still beat or finish.
Shutdown(w) == /\ ReleaseLeases(w)
               /\ Fault
               /\ UNCHANGED <<pc, job, mine, aborted, held, ledger, refunds, charged>>

-----------------------------------------------------------------------------
Executor(e) == \/ Reserve(e) \/ OverBudget(e) \/ Mark(e) \/ StoreExternal(e) \/ Dispatch(e)
               \/ CheckAlive(e) \/ Finish(e) \/ Settle(e)
               \/ Catch(e) \/ Release(e) \/ GiveBack(e) \/ RefundOwn(e)

Tick(w) == \/ TickDrop(w) \/ TickReap
           \/ \E r \in Run : TickPick(w, r)
           \/ \E e \in SlotsOf(w), r \in Run : TickTake(e, r)

Faulty == \/ LoseRefund
          \/ \E w \in Worker : Crash(w) \/ Shutdown(w)
          \/ \E e \in Slot : ReserveThrows(e) \/ BeatThrows(e) \/ Throws(e)

WorkNext == \/ \E r \in Run : Submit(r) \/ LeaseEnds(r) \/ TimePasses(r) \/ UserCancels(r)
            \/ \E t \in Ticket : TicketCancels(t)
            \/ \E a \in Agent : SwitchSteps(a) \/ SwitchCancels(a)
            \/ \E w \in Worker : Tick(w)
            \/ \E e \in Slot : Executor(e) \/ Beat(e)
            \/ Refund
            \/ Faulty

WorkSpec == WorkInit /\ [][WorkNext]_vars

\* What the program repeats or finishes by itself: tick() every two seconds, an
\* executor that has been started, the clock, and a call already under way.
\* Users, switches, beats and faults are owed nothing.
Claims(w) == \E r \in Run : TickPick(w, r) \/ \E e \in SlotsOf(w) : TickTake(e, r)
Abandoned(r) == LeaseEnds(r) /\ ~\E e \in Slot : Executes(e, r) /\ StillHolds(e)
SwitchGoesOn(a) == \/ (BlockQueuedForAgent(a) \/ UnblockQueuedForAgent(a)) /\ UNCHANGED workVars
                   \/ SwitchCancels(a)

Fairness == /\ \A w \in Worker : WF_vars(Claims(w)) /\ WF_vars(TickDrop(w))
            /\ WF_vars(TickReap) /\ WF_vars(Refund)
            /\ \A e \in Slot : WF_vars(Executor(e))
            /\ \A r \in Run : WF_vars(Abandoned(r)) /\ WF_vars(TimePasses(r))
            /\ \A a \in Agent : WF_vars(SwitchGoesOn(a))

FairWorkSpec == WorkSpec /\ Fairness

-----------------------------------------------------------------------------
\* Executors whose own reservation the ledger has to count.
Reserving(e) == mine[e] /\ StillHolds(e) /\ pc[e] \notin {"refund"}
Unsettled(e) == mine[e] /\ (Reserving(e) \/ pc[e] \in {"settle", "release", "refund"})

\* A run's usage is charged once, and only if the run succeeded, though a reaped
\* run may be executed by two executors at once and both may reach their end.
ChargedOnce ==
  \A r \in Run : /\ charged[r] <= 1
                 /\ charged[r] = 1 => status[r] = "succeeded"

\* Until an executor is overtaken by the reaper, the ledger counts every
\* reservation that is still to be settled and every release still to come, so a
\* budget check never sees less than what is committed.
LedgerCovers ==
  "stale" \notin upset =>
    ledger >= Cardinality({e \in Slot : Unsettled(e)}) + refunds

\* When nothing executes and no release is under way, every reservation has left
\* the ledger: through success, failure, budget refusal, abort, cancellation and
\* the switch, as long as none of them hit the gap between claim and mark; and a
\* row holds no reservation once its executor is done.
NothingLeaks ==
  upset = {} =>
    /\ (\A e \in Slot : ~Busy(e)) /\ refunds = 0 => ledger = 0
    /\ \A r \in Run : held[r] => \E e \in Slot : Executes(e, r) /\ mine[e]

\* Every run that is queued, running or still executed comes to rest, whatever crashed
\* in between and though nobody but the reaper sees a lost run: it has ended, is parked
\* or belongs to an agent that is off, and every executor of it, overtaken or not, has
\* stopped and freed its slot.
AtRest(r) ==
  /\ \/ status[r] \in Terminal \cup {"blocked"}
     \/ agent[r] \in Agent /\ skill[agent[r]] = "off"
  /\ ~\E e \in Slot : Executes(e, r)
WorkEnds ==
  \A r \in Run :
    (status[r] \in {"queued", "running"} \/ \E e \in Slot : Executes(e, r)) ~> AtRest(r)
=============================================================================
