--------------------------- MODULE CloudSessions ---------------------------
(***************************************************************************)
(* One coding run on the provider's cloud: what its executors do           *)
(* (services/models/codeWorker.ts, finishCloud and finishCode of           *)
(* activities/delivery.ts), the agent that runs at the provider, and those *)
(* who stop the run (the cancel route, the agent switch, the ticket).      *)
(*                                                                         *)
(* An executor holds the row by a lease that may lapse while it works, so  *)
(* a second one may resume the run beside it.  The agent's name is made    *)
(* from the run's id: a second start finds the agent of the first.  The    *)
(* agent works on by itself until it is told to stop; whoever ends the run *)
(* has to tell it, and knows it by the ids on the row.                     *)
(***************************************************************************)
EXTENDS Naturals, FiniteSets

CONSTANTS Executor, NoOne,
          MaxAttempts,
          MaxFaults      \* bound of the model: failures, crashes and lapsed leases

ASSUME CloudAssumption ==
  NoOne \notin Executor /\ MaxAttempts \in Nat \ {0} /\ MaxFaults \in Nat

VARIABLES
  row,        \* the agent_runs row: status, attempt, holder, ids (external_run_id is there)
  agent,      \* the provider's agent
  launched,   \* history: how many agents the provider has started for the run
  exec,       \* each executor: where it is, what it saw, its abort signal
  user,       \* the cancel route: "idle", or the run it has read has "ids" or "none"
  tellers,    \* calls that have ended the run and still have to tell the agent
  faults,     \* history: failures so far
  upset       \* history: what may have left the agent at work

cloudVars == <<row, agent, launched, exec, user, tellers, faults, upset>>

AgentOver == {"finished", "error", "cancelled", "expired"}
\* "parked" is blocked with the reason agent_off.
RowOpen == {"queued", "running", "blocked", "parked"}
ExecAt == {"idle", "start", "store", "follow", "poll", "usage", "finish", "report", "thrown"}

Idle == [at |-> "idle", saw |-> "nothing", retry |-> FALSE, aborted |-> FALSE]

CloudInit ==
  /\ row = [status |-> "queued", attempt |-> 0, holder |-> NoOne, ids |-> FALSE]
  /\ agent = "none" /\ launched = 0
  /\ exec = [e \in Executor |-> Idle]
  /\ user = "idle" /\ tellers = {}
  /\ faults = 0 /\ upset = {}

Fault == faults < MaxFaults /\ faults' = faults + 1
Goes(e, to) == exec' = [exec EXCEPT ![e].at = to]
Sees(e, what, to) == exec' = [exec EXCEPT ![e].saw = what, ![e].at = to]
\* What an executor throws is retryable or not; where it stands no longer matters.
Throws(e, retry) == exec' = [exec EXCEPT ![e].at = "thrown", ![e].retry = retry]
Ends(status) == row' = [row EXCEPT !.status = status, !.holder = NoOne]
\* Ends it and tells nobody: if its ids are not known, its agent may yet start.
Leaves(why) ==
  upset' = upset \cup (IF ~row.ids THEN {"gap"} ELSE IF agent = "running" THEN {why} ELSE {})

-----------------------------------------------------------------------------
\* The worker claims the run (RunQueue).
ClaimCloud(e) ==
  /\ row.status = "queued" /\ exec[e].at = "idle"
  /\ row' = [row EXCEPT !.status = "running", !.holder = e]
  /\ exec' = [exec EXCEPT ![e] = [Idle EXCEPT !.at = "start"]]
  /\ UNCHANGED <<agent, launched, user, tellers, faults, upset>>

\* start: POST /v1/agents with bc-<run id>.  A name that is taken is answered with
\* 409, and its latest run is adopted whatever has become of it.
AlwaysNew == agent' = "running" /\ launched' = launched + 1
NewOrAdopted ==
  IF agent = "none" THEN agent' = "running" /\ launched' = launched + 1 ELSE UNCHANGED <<agent, launched>>
StartAgent(e) ==
  /\ exec[e].at = "start"
  /\ NewOrAdopted
  /\ Goes(e, "store")
  /\ UNCHANGED <<row, user, tellers, faults, upset>>
\* The answer is lost or comes too late, the agent may have started.
StartLost(e) ==
  /\ exec[e].at = "start" /\ Fault
  /\ NewOrAdopted
  /\ Throws(e, TRUE)
  /\ UNCHANGED <<row, user, tellers, upset>>

\* The ids go to the row while the run is running, whoever holds it.
StoreIds(e) ==
  /\ exec[e].at = "store"
  /\ row' = IF row.status = "running" THEN [row EXCEPT !.ids = TRUE] ELSE row
  /\ Goes(e, "follow")
  /\ UNCHANGED <<agent, launched, user, tellers, faults, upset>>

\* streamRun: the last event of the stream says how the agent ended ...
StreamEnds(e) ==
  /\ exec[e].at = "follow" /\ agent \in AgentOver
  /\ Sees(e, agent, "usage")
  /\ UNCHANGED <<row, agent, launched, user, tellers, faults, upset>>
\* ... but a stream that has expired or is closed before is polled for, once ...
StreamClosed(e) ==
  /\ exec[e].at = "follow" /\ Fault
  /\ Goes(e, "poll")
  /\ UNCHANGED <<row, agent, launched, user, tellers, upset>>
PollRun(e) ==
  /\ exec[e].at = "poll"
  /\ Sees(e, agent, "usage")
  /\ UNCHANGED <<row, agent, launched, user, tellers, faults, upset>>
\* ... and the abort signal ends it: readers of the stream alone heed it.
StreamAborted(e) ==
  /\ exec[e].at = "follow" /\ exec[e].aborted
  /\ Throws(e, TRUE)
  /\ UNCHANGED <<row, agent, launched, user, tellers, faults, upset>>

\* enforceCap: past the cap the agent is told to stop, which may fail; where the
\* usage is not to be had and the estimate is past the cap, it is not told.
CapExceeded(e) ==
  /\ exec[e].at = "follow" /\ Fault
  /\ \/ /\ agent = "running" /\ agent' = "cancelled"
        /\ Throws(e, FALSE)
     \/ Throws(e, FALSE) /\ UNCHANGED agent
     \/ Throws(e, TRUE) /\ UNCHANGED agent
  /\ UNCHANGED <<row, launched, user, tellers, upset>>

\* finishCloud reads the usage: past the cap it throws, and tells nobody.
ReadUsage(e) ==
  /\ exec[e].at = "usage"
  /\ \/ Goes(e, "finish") /\ UNCHANGED faults
     \/ Fault /\ Throws(e, FALSE)
  /\ UNCHANGED <<row, agent, launched, user, tellers, upset>>

\* finishCode: an error is retried, an expired or a cancelled agent is not, and
\* anything else is taken for a result, unless it has no changes to show.
FinishCode(e) ==
  /\ exec[e].at = "finish"
  /\ CASE exec[e].saw = "error" -> Throws(e, TRUE) /\ UNCHANGED faults
       [] exec[e].saw \in {"expired", "cancelled"} -> Throws(e, FALSE) /\ UNCHANGED faults
       [] OTHER -> \/ Goes(e, "report") /\ UNCHANGED faults
                   \/ Fault /\ \E retry \in BOOLEAN : Throws(e, retry)
  /\ UNCHANGED <<row, agent, launched, user, tellers, upset>>

\* Any call of the provider or of GitHub may fail on the way.
CallFails(e) ==
  /\ exec[e].at \in {"start", "follow", "poll", "usage"} /\ Fault
  /\ \E retry \in BOOLEAN : Throws(e, retry)
  /\ UNCHANGED <<row, agent, launched, user, tellers, upset>>

-----------------------------------------------------------------------------
HoldsRow(e) == row.status = "running" /\ row.holder = e

\* A heartbeat that does not find the lease aborts.
BeatAborts(e) ==
  /\ exec[e].at # "idle" /\ ~HoldsRow(e) /\ ~exec[e].aborted
  /\ exec' = [exec EXCEPT ![e].aborted = TRUE]
  /\ UNCHANGED <<row, agent, launched, user, tellers, faults, upset>>

\* executeClaimed ends: the run succeeds if it is still held, though the agent was
\* seen at work by the poll ...
Report(e) ==
  /\ exec[e].at = "report"
  /\ IF HoldsRow(e) /\ ~exec[e].aborted
     THEN Ends("succeeded") /\ upset' = IF exec[e].saw = "running" THEN upset \cup {"cut"} ELSE upset
     ELSE UNCHANGED <<row, upset>>
  /\ exec' = [exec EXCEPT ![e] = Idle]
  /\ UNCHANGED <<agent, launched, user, tellers, faults>>
\* ... and what was thrown blocks it, or fails it, now or when no attempt is left.
Thrown(e) ==
  /\ exec[e].at = "thrown"
  /\ IF ~HoldsRow(e) \/ exec[e].aborted
     THEN UNCHANGED <<row, upset>>
     ELSE IF exec[e].retry /\ row.attempt + 1 < MaxAttempts
     THEN /\ row' = [row EXCEPT !.status = "queued", !.holder = NoOne, !.attempt = @ + 1]
          /\ UNCHANGED upset
     ELSE /\ Ends(IF exec[e].retry THEN "failed" ELSE "blocked")
          /\ Leaves("threw")
  /\ exec' = [exec EXCEPT ![e] = Idle]
  /\ UNCHANGED <<agent, launched, user, tellers, faults>>

\* The process dies: its lease lapses with nobody behind it.
ExecutorDies(e) ==
  /\ exec[e].at # "idle" /\ Fault
  /\ exec' = [exec EXCEPT ![e] = Idle]
  /\ UNCHANGED <<row, agent, launched, user, tellers, upset>>

\* reap: a run whose agent is known is resumed at no charge.
ReapCloud ==
  /\ row.status = "running"
  /\ \/ exec[row.holder].at = "idle" /\ UNCHANGED faults
     \/ exec[row.holder].at # "idle" /\ Fault
  /\ IF ~row.ids /\ row.attempt + 1 >= MaxAttempts
     THEN Ends("failed") /\ Leaves("reaped")
     ELSE /\ row' = [row EXCEPT !.status = "queued", !.holder = NoOne,
                                !.attempt = IF row.ids THEN @ ELSE @ + 1]
          /\ UNCHANGED upset
  /\ UNCHANGED <<agent, launched, exec, user, tellers>>

-----------------------------------------------------------------------------
\* The cancel route reads the run, tells its agent, and cancels the run.
StopAgent == agent' = IF agent = "running" THEN "cancelled" ELSE agent
UserReads ==
  /\ user = "idle" /\ row.status \in RowOpen
  /\ user' = IF row.ids THEN "ids" ELSE "none"
  /\ UNCHANGED <<row, agent, launched, exec, tellers, faults, upset>>
UserTells ==
  /\ user = "ids"
  /\ \/ StopAgent /\ UNCHANGED <<faults, upset>>
     \/ Fault /\ upset' = upset \cup {"lost"} /\ UNCHANGED agent
  /\ user' = "told"
  /\ UNCHANGED <<row, launched, exec, tellers>>
UserCancels ==
  /\ user \in {"told", "none"}
  /\ IF row.status \in RowOpen
     THEN Ends("cancelled") /\ upset' = IF user = "none" THEN upset \cup {"gap"} ELSE upset
     ELSE UNCHANGED <<row, upset>>
  /\ user' = "idle"
  /\ UNCHANGED <<agent, launched, exec, tellers, faults>>

\* The others cancel first and tell whom they find on the row they have ended.
Forgotten(who) == Ends("cancelled") /\ UNCHANGED <<tellers, upset>>
Withdrawn(who) ==
  /\ Ends("cancelled")
  /\ IF row.ids THEN tellers' = tellers \cup {who} /\ UNCHANGED upset
     ELSE Leaves("withdrawn") /\ UNCHANGED tellers
TicketEnds ==
  /\ row.status \in RowOpen
  /\ Withdrawn("ticket")
  /\ UNCHANGED <<agent, launched, exec, user, faults>>
\* updateAgent: the queued run is parked, the running one is cancelled.
SwitchOff ==
  /\ \/ row.status = "queued" /\ Ends("parked") /\ Leaves("parked") /\ UNCHANGED tellers
     \/ row.status = "running" /\ Withdrawn("switch")
  /\ UNCHANGED <<agent, launched, exec, user, faults>>
SwitchOn ==
  /\ row.status = "parked"
  /\ Ends("queued")
  /\ UNCHANGED <<agent, launched, exec, user, tellers, faults, upset>>
Tell(who) ==
  /\ tellers' = tellers \ {who}
  /\ \/ StopAgent /\ UNCHANGED <<faults, upset>>
     \/ Fault /\ upset' = upset \cup {"lost"} /\ UNCHANGED agent
  /\ UNCHANGED <<row, launched, exec, user>>

\* The provider.
AgentEnds ==
  /\ agent = "running"
  /\ agent' \in AgentOver \ {"cancelled"}
  /\ UNCHANGED <<row, launched, exec, user, tellers, faults, upset>>

CloudNext ==
  \/ \E e \in Executor :
       \/ ClaimCloud(e) \/ StartAgent(e) \/ StartLost(e) \/ StoreIds(e)
       \/ StreamEnds(e) \/ StreamClosed(e) \/ PollRun(e) \/ StreamAborted(e)
       \/ CapExceeded(e) \/ ReadUsage(e) \/ FinishCode(e) \/ CallFails(e)
       \/ BeatAborts(e) \/ Report(e) \/ Thrown(e) \/ ExecutorDies(e)
  \/ ReapCloud \/ UserReads \/ UserTells \/ UserCancels
  \/ TicketEnds \/ SwitchOff \/ SwitchOn \/ AgentEnds
  \/ \E who \in tellers : Tell(who)

CloudSpec == CloudInit /\ [][CloudNext]_cloudVars

-----------------------------------------------------------------------------
CloudTypeOK ==
  /\ row.status \in RowOpen \cup {"succeeded", "failed", "cancelled"}
  /\ row.attempt \in 0 .. MaxAttempts - 1
  /\ row.holder \in Executor \cup {NoOne} /\ (row.status = "running" <=> row.holder # NoOne)
  /\ row.ids \in BOOLEAN
  /\ agent \in AgentOver \cup {"none", "running"}
  /\ \A e \in Executor : exec[e].at \in ExecAt

\* A run has one agent at the provider, however often it is claimed, resumed or
\* retried, by executors beside each other, with answers lost.
OneAgent == launched <= 1

\* When a run is over, or parked, and nobody is still about to tell its agent, the
\* agent is not at work, nor will an executor that is still at it start one: unless
\* its ids were not known to who ended the run (gap), the provider was not reached
\* (lost), the run was parked while its agent worked, or its execution ended by
\* itself: reported a result the stream had not brought (cut) or threw.
NothingRunsUnwatched ==
  row.status \notin {"queued", "running"} /\ tellers = {} =>
    agent \in AgentOver \/ upset # {}
=============================================================================
