----------------------------- MODULE RunProofs --------------------------------
(***************************************************************************)
(* Proofs about RunQueue and RunWorker, for every set of runs, agents,     *)
(* tickets, workers and executors and every bound.  IInv is the inductive  *)
(* invariant of the queue; each of its parts has a lemma with one step per *)
(* statement that writes what the part reads, and one step for those that do *)
(* not.                                                                    *)
(*                                                                         *)
(* Every step of a worker is a statement of the queue or leaves the rows   *)
(* alone, so IInv holds beside the executors; on it stand three layers, each *)
(* of what is true as long as less has gone wrong: always, until the reaper *)
(* overtakes an executor, and while nothing at all has happened that loses *)
(* track of a reservation.                                                 *)
(***************************************************************************)
EXTENDS RunWorker, FiniteSetTheorems, TLAPS

\* Two claim() transactions never hold the same row.
PickedAlone == \A w, x \in Worker : picked[w] = picked[x] /\ picked[w] # NoRun => w = x

\* A row that has not been enqueued is as the migration's defaults leave it, and
\* a row parked because its agent went off was taken once per attempt at most.
UnstartedRows ==
  \A r \in Run \ Cloud :
    /\ status[r] = "absent" => starts[r] = 0
    /\ status[r] = "blocked" /\ reason[r] = "agent_off" => starts[r] <= attempt[r]
FreshRows == \A r \in Run : status[r] = "absent" => attempt[r] = 0

\* While a row is under claim() for an agent that is off, the call that turned
\* the agent off has yet to reach that row.
PickedCovered ==
  \A w \in Worker :
    /\ picked[w] # NoRun
    /\ agent[picked[w]] \in Agent /\ skill[agent[picked[w]]] = "off"
    => \E s \in {"block", "abandoned"} : <<agent[picked[w]], s>> \in calls

IInv == /\ TypeOK
        /\ HolderIffRunning
        /\ PickedAlone
        /\ OneRunningPerAgent
        /\ FreshRows
        /\ AttemptsLeft
        /\ UnstartedRows
        /\ OffAgentIdle
        /\ PickedCovered

-----------------------------------------------------------------------------
\* Every column keeps its type: an attempt is used up only by a running row,
\* which has one left.
LEMMA TypeStep ==
  ASSUME IInv, [Next]_queueVars
  PROVE  TypeOK'
<1> USE RunQueueAssumption
    DEF IInv, TypeOK, HolderIffRunning, AttemptsLeft, Status, Step, Open, Assign
<1>1. ASSUME NEW r \in Run, Enqueue(r) PROVE TypeOK'
  BY <1>1 DEF Enqueue
<1>2. ASSUME NEW r \in Run, SetExternal(r) PROVE TypeOK'
  BY <1>2 DEF SetExternal
<1>3. ASSUME NEW r \in Run, Cancel(r) PROVE TypeOK'
  BY <1>3 DEF Cancel, CancelRows, ClearLease, Open
<1>4. ASSUME NEW r \in Run, Lapse(r) PROVE TypeOK'
  BY <1>4 DEF Lapse
<1>5. ASSUME NEW r \in Run, BackoffOver(r) PROVE TypeOK'
  BY <1>5 DEF BackoffOver
<1>6. ASSUME NEW w \in Worker, NEW r \in Run, Take(w, r) PROVE TypeOK'
  BY <1>6 DEF Take
<1>7. ASSUME NEW w \in Worker, Drop(w) PROVE TypeOK'
  BY <1>7 DEF Drop
<1>8. ASSUME NEW w \in Worker, NEW r \in Run, Pick(w, r) PROVE TypeOK'
  BY <1>8 DEF Pick
<1>9. ASSUME NEW w \in Worker, ReleaseLeases(w) PROVE TypeOK'
  BY <1>9 DEF ReleaseLeases, Holds
<1>10. ASSUME NEW w \in Worker, NEW r \in Run, Heartbeat(w, r) PROVE TypeOK'
  BY <1>10 DEF Heartbeat, Holds
<1>11. ASSUME NEW w \in Worker, NEW r \in Run, Succeed(w, r) PROVE TypeOK'
  BY <1>11 DEF Succeed, Holds, ClearLease
<1>12. ASSUME NEW w \in Worker, NEW r \in Run, Block(w, r) PROVE TypeOK'
  BY <1>12 DEF Block, Holds, ClearLease
<1>13. ASSUME NEW w \in Worker, NEW r \in Run, NEW b \in BOOLEAN, Fail(w, r, b) PROVE TypeOK'
  <2>1. attempt[r] + 1 \in 0 .. MaxAttempts
    BY <1>13 DEF Fail, Holds
  <2>2. attempt' \in [Run -> 0 .. MaxAttempts]
    BY <1>13, <2>1 DEF Fail
  <2>3. status' \in [Run -> Status]
    BY <1>13 DEF Fail
  <2>4. due' \in [Run -> BOOLEAN]
    <3>1. CASE due' = due
      BY <3>1
    <3>2. CASE due' = [due EXCEPT ![r] = FALSE]
      BY <3>2
    <3> QED BY <1>13, <3>1, <3>2 DEF Fail
  <2>5. owner' \in [Run -> Worker \cup {NoWorker}] /\ lease' \in [Run -> {"none", "live", "lapsed"}]
    BY <1>13 DEF Fail, ClearLease
  <2>6. UNCHANGED <<reason, ext, agent, skill, calls, picked, starts>>
    BY <1>13 DEF Fail
  <2> QED BY <2>2, <2>3, <2>4, <2>5, <2>6
<1>14. ASSUME NEW t \in Ticket, CancelForTicket(t) PROVE TypeOK'
  BY <1>14 DEF CancelForTicket, CancelRows, ClearLease, Open
<1>15. ASSUME NEW a \in Agent, AgentOff(a) PROVE TypeOK'
  BY <1>15 DEF AgentOff
<1>16. ASSUME NEW a \in Agent, BlockQueuedForAgent(a) PROVE TypeOK'
  BY <1>16 DEF BlockQueuedForAgent, OfAgent
<1>17. ASSUME NEW a \in Agent, CancelRunningForAgent(a) PROVE TypeOK'
  BY <1>17 DEF CancelRunningForAgent, OfAgent, ClearLease
<1>18. ASSUME NEW a \in Agent, AgentOn(a) PROVE TypeOK'
  BY <1>18 DEF AgentOn
<1>19. ASSUME NEW a \in Agent, UnblockQueuedForAgent(a) PROVE TypeOK'
  BY <1>19 DEF UnblockQueuedForAgent, OfAgent
<1>20. ASSUME NEW a \in Agent, DeleteAgent(a) PROVE TypeOK'
  BY <1>20 DEF DeleteAgent
<1>21. ASSUME NEW a \in Agent, NEW s \in Step, Abandon(a, s) PROVE TypeOK'
  BY <1>21 DEF Abandon
<1>22. ASSUME Reap PROVE TypeOK'
  <2>1. \A r \in Expired : attempt[r] + 1 \in 0 .. MaxAttempts
    BY DEF Expired
  <2>2. attempt' \in [Run -> 0 .. MaxAttempts]
    BY <1>22, <2>1 DEF Reap, Expired, ReapAttempt
  <2>3. status' \in [Run -> Status]
    BY <1>22 DEF Reap
  <2>4. due' \in [Run -> BOOLEAN]
    <3>1. due' = [r \in Run |-> IF r \in Expired /\ ~GivesUp(r) THEN Resumable(r) ELSE due[r]]
      BY <1>22 DEF Reap
    <3>2. \A r \in Run : Resumable(r) \in BOOLEAN
      BY DEF Resumable
    <3> HIDE DEF GivesUp
    <3> QED BY <3>1, <3>2
  <2>5. owner' \in [Run -> Worker \cup {NoWorker}] /\ lease' \in [Run -> {"none", "live", "lapsed"}]
    BY <1>22 DEF Reap, ClearLease
  <2> QED BY <1>22, <2>2, <2>3, <2>4, <2>5 DEF Reap
<1>23. ASSUME UNCHANGED <<status, reason, attempt, due, owner, lease, ext, agent, skill, calls, picked, starts>> PROVE TypeOK'
  BY <1>23
<1>24. UNCHANGED queueVars => UNCHANGED <<status, reason, attempt, due, owner, lease, ext, agent, skill, calls, picked, starts>>
  BY DEF queueVars
<1> HIDE DEF IInv, TypeOK, HolderIffRunning, AttemptsLeft
<1> QED BY <1>1, <1>2, <1>3, <1>4, <1>5, <1>6, <1>7, <1>8, <1>9, <1>10,
    <1>11, <1>12, <1>13, <1>14, <1>15, <1>16, <1>17, <1>18, <1>19, <1>20,
    <1>21, <1>22, <1>23, <1>24
    DEF Next, RowStep, ClaimStep, HolderStep, AgentStep

-----------------------------------------------------------------------------
\* A statement that leaves a row running leaves it its owner and its lease, and
\* one that moves it clears both; nothing writes a row under claim().
LEMMA HolderStepKeeps ==
  ASSUME IInv, [Next]_queueVars
  PROVE  HolderIffRunning'
<1> USE RunQueueAssumption
    DEF IInv, TypeOK, HolderIffRunning, PickedAlone, Status, Open, Assign, Locked
<1>1. ASSUME NEW r \in Run, Enqueue(r) PROVE HolderIffRunning'
  BY <1>1 DEF Enqueue
<1>2. ASSUME NEW r \in Run, Cancel(r) PROVE HolderIffRunning'
  BY <1>2 DEF Cancel, CancelRows, ClearLease, Open
<1>3. ASSUME NEW r \in Run, Lapse(r) PROVE HolderIffRunning'
  BY <1>3 DEF Lapse
<1>4. ASSUME NEW w \in Worker, NEW r \in Run, Take(w, r) PROVE HolderIffRunning'
  BY <1>4 DEF Take
<1>5. ASSUME NEW w \in Worker, Drop(w) PROVE HolderIffRunning'
  BY <1>5 DEF Drop
<1>6. ASSUME NEW w \in Worker, NEW r \in Run, Pick(w, r) PROVE HolderIffRunning'
  BY <1>6 DEF Pick
<1>7. ASSUME NEW w \in Worker, ReleaseLeases(w) PROVE HolderIffRunning'
  BY <1>7 DEF ReleaseLeases, Holds
<1>8. ASSUME NEW w \in Worker, NEW r \in Run, Heartbeat(w, r) PROVE HolderIffRunning'
  BY <1>8 DEF Heartbeat, Holds
<1>9. ASSUME NEW w \in Worker, NEW r \in Run, Succeed(w, r) PROVE HolderIffRunning'
  BY <1>9 DEF Succeed, Holds, ClearLease
<1>10. ASSUME NEW w \in Worker, NEW r \in Run, Block(w, r) PROVE HolderIffRunning'
  BY <1>10 DEF Block, Holds, ClearLease
<1>11. ASSUME NEW w \in Worker, NEW r \in Run, NEW b \in BOOLEAN, Fail(w, r, b) PROVE HolderIffRunning'
  BY <1>11 DEF Fail, Holds, ClearLease
<1>12. ASSUME NEW t \in Ticket, CancelForTicket(t) PROVE HolderIffRunning'
  BY <1>12 DEF CancelForTicket, CancelRows, ClearLease, Open
<1>13. ASSUME NEW a \in Agent, BlockQueuedForAgent(a) PROVE HolderIffRunning'
  BY <1>13 DEF BlockQueuedForAgent, OfAgent
<1>14. ASSUME NEW a \in Agent, CancelRunningForAgent(a) PROVE HolderIffRunning'
  BY <1>14 DEF CancelRunningForAgent, OfAgent, ClearLease
<1>15. ASSUME NEW a \in Agent, UnblockQueuedForAgent(a) PROVE HolderIffRunning'
  BY <1>15 DEF UnblockQueuedForAgent, OfAgent
<1>16. ASSUME Reap PROVE HolderIffRunning'
  BY <1>16 DEF Reap, Expired, GivesUp, ReapAttempt, Resumable, ClearLease
<1>17. ASSUME NEW r \in Run, SetExternal(r) \/ BackoffOver(r)
      PROVE  UNCHANGED <<status, owner, lease, picked>>
  BY <1>17 DEF SetExternal, BackoffOver
<1>18. ASSUME NEW a \in Agent, AgentOff(a) \/ AgentOn(a) \/ DeleteAgent(a)
      PROVE  UNCHANGED <<status, owner, lease, picked>>
  BY <1>18 DEF AgentOff, AgentOn, DeleteAgent
<1>19. ASSUME NEW a \in Agent, NEW s \in Step, Abandon(a, s)
      PROVE  UNCHANGED <<status, owner, lease, picked>>
  BY <1>19 DEF Abandon
<1>20. ASSUME UNCHANGED <<status, owner, lease, picked>> PROVE HolderIffRunning'
  BY <1>20
<1>21. UNCHANGED queueVars => UNCHANGED <<status, owner, lease, picked>>
  BY DEF queueVars
<1> HIDE DEF IInv, TypeOK, HolderIffRunning, PickedAlone
<1> QED BY <1>1, <1>2, <1>3, <1>4, <1>5, <1>6, <1>7, <1>8, <1>9, <1>10,
    <1>11, <1>12, <1>13, <1>14, <1>15, <1>16, <1>17, <1>18, <1>19, <1>20,
    <1>21
    DEF Next, RowStep, ClaimStep, HolderStep, AgentStep

\* SKIP LOCKED passes over a row that another transaction has locked.
LEMMA PickedStep ==
  ASSUME IInv, [Next]_queueVars
  PROVE  PickedAlone'
<1> USE RunQueueAssumption DEF IInv, TypeOK, PickedAlone, Locked
<1>1. ASSUME NEW w \in Worker, NEW r \in Run, Take(w, r) PROVE PickedAlone'
  BY <1>1 DEF Take
<1>2. ASSUME NEW w \in Worker, Drop(w) PROVE PickedAlone'
  BY <1>2 DEF Drop
<1>3. ASSUME NEW w \in Worker, NEW r \in Run, Pick(w, r) PROVE PickedAlone'
  BY <1>3 DEF Pick
<1>4. ASSUME NEW r \in Run,
          Enqueue(r) \/ SetExternal(r) \/ Cancel(r) \/ Lapse(r) \/ BackoffOver(r)
      PROVE  UNCHANGED picked
  BY <1>4 DEF Enqueue, SetExternal, Cancel, CancelRows, ClearLease, Open,
    Lapse, BackoffOver
<1>5. ASSUME NEW w \in Worker, ReleaseLeases(w)
      PROVE  UNCHANGED picked
  BY <1>5 DEF ReleaseLeases, Holds
<1>6. ASSUME NEW w \in Worker, NEW r \in Run,
          Heartbeat(w, r) \/ Succeed(w, r) \/ Block(w, r)
      PROVE  UNCHANGED picked
  BY <1>6 DEF Heartbeat, Holds, Succeed, ClearLease, Block
<1>7. ASSUME NEW w \in Worker, NEW r \in Run, NEW b \in BOOLEAN, Fail(w, r, b)
      PROVE  UNCHANGED picked
  BY <1>7 DEF Fail, Holds, ClearLease
<1>8. ASSUME NEW t \in Ticket, CancelForTicket(t)
      PROVE  UNCHANGED picked
  BY <1>8 DEF CancelForTicket, CancelRows, ClearLease, Open
<1>9. ASSUME NEW a \in Agent,
          AgentOff(a) \/ BlockQueuedForAgent(a) \/ CancelRunningForAgent(a) \/ AgentOn(a) \/ UnblockQueuedForAgent(a) \/ DeleteAgent(a)
      PROVE  UNCHANGED picked
  BY <1>9 DEF AgentOff, BlockQueuedForAgent, OfAgent, CancelRunningForAgent,
    ClearLease, AgentOn, UnblockQueuedForAgent, DeleteAgent
<1>10. ASSUME NEW a \in Agent, NEW s \in Step, Abandon(a, s)
      PROVE  UNCHANGED picked
  BY <1>10 DEF Abandon
<1>11. ASSUME Reap
      PROVE  UNCHANGED picked
  BY <1>11 DEF Reap, Expired, GivesUp, ReapAttempt, Resumable, ClearLease
<1>12. ASSUME UNCHANGED picked PROVE PickedAlone'
  BY <1>12
<1>13. UNCHANGED queueVars => UNCHANGED picked
  BY DEF queueVars
<1> HIDE DEF IInv, TypeOK, PickedAlone
<1> QED BY <1>1, <1>2, <1>3, <1>4, <1>5, <1>6, <1>7, <1>8, <1>9, <1>10,
    <1>11, <1>12, <1>13
    DEF Next, RowStep, ClaimStep, HolderStep, AgentStep

\* Only claim()'s UPDATE makes a row running, and the index checks it there.
LEMMA OneRunningStep ==
  ASSUME IInv, [Next]_queueVars
  PROVE  OneRunningPerAgent'
<1> USE RunQueueAssumption DEF IInv, TypeOK, OneRunningPerAgent, Status, Assign
<1>1. ASSUME NEW r \in Run, Enqueue(r) PROVE OneRunningPerAgent'
  BY <1>1 DEF Enqueue
<1>2. ASSUME NEW r \in Run, Cancel(r) PROVE OneRunningPerAgent'
  BY <1>2 DEF Cancel, CancelRows, ClearLease, Open
<1>3. ASSUME NEW w \in Worker, NEW r \in Run, Take(w, r) PROVE OneRunningPerAgent'
  BY <1>3 DEF Take, IndexAllows, HolderIffRunning
<1>4. ASSUME NEW w \in Worker, NEW r \in Run, Succeed(w, r) PROVE OneRunningPerAgent'
  BY <1>4 DEF Succeed, Holds, ClearLease
<1>5. ASSUME NEW w \in Worker, NEW r \in Run, Block(w, r) PROVE OneRunningPerAgent'
  BY <1>5 DEF Block, Holds, ClearLease
<1>6. ASSUME NEW w \in Worker, NEW r \in Run, NEW b \in BOOLEAN, Fail(w, r, b) PROVE OneRunningPerAgent'
  BY <1>6 DEF Fail, Holds, ClearLease
<1>7. ASSUME NEW t \in Ticket, CancelForTicket(t) PROVE OneRunningPerAgent'
  BY <1>7 DEF CancelForTicket, CancelRows, ClearLease, Open
<1>8. ASSUME NEW a \in Agent, BlockQueuedForAgent(a) PROVE OneRunningPerAgent'
  BY <1>8 DEF BlockQueuedForAgent, OfAgent
<1>9. ASSUME NEW a \in Agent, CancelRunningForAgent(a) PROVE OneRunningPerAgent'
  BY <1>9 DEF CancelRunningForAgent, OfAgent, ClearLease
<1>10. ASSUME NEW a \in Agent, UnblockQueuedForAgent(a) PROVE OneRunningPerAgent'
  BY <1>10 DEF UnblockQueuedForAgent, OfAgent
<1>11. ASSUME NEW a \in Agent, DeleteAgent(a) PROVE OneRunningPerAgent'
  BY <1>11 DEF DeleteAgent
<1>12. ASSUME Reap PROVE OneRunningPerAgent'
  BY <1>12 DEF Reap, Expired, GivesUp, ReapAttempt, Resumable, ClearLease
<1>13. ASSUME NEW r \in Run, SetExternal(r) \/ Lapse(r) \/ BackoffOver(r)
      PROVE  UNCHANGED <<status, agent>>
  BY <1>13 DEF SetExternal, Lapse, BackoffOver
<1>14. ASSUME NEW w \in Worker, Drop(w) \/ ReleaseLeases(w)
      PROVE  UNCHANGED <<status, agent>>
  BY <1>14 DEF Drop, ReleaseLeases, Holds
<1>15. ASSUME NEW w \in Worker, NEW r \in Run, Pick(w, r) \/ Heartbeat(w, r)
      PROVE  UNCHANGED <<status, agent>>
  BY <1>15 DEF Pick, Heartbeat, Holds
<1>16. ASSUME NEW a \in Agent, AgentOff(a) \/ AgentOn(a)
      PROVE  UNCHANGED <<status, agent>>
  BY <1>16 DEF AgentOff, AgentOn
<1>17. ASSUME NEW a \in Agent, NEW s \in Step, Abandon(a, s)
      PROVE  UNCHANGED <<status, agent>>
  BY <1>17 DEF Abandon
<1>18. ASSUME UNCHANGED <<status, agent>> PROVE OneRunningPerAgent'
  BY <1>18
<1>19. UNCHANGED queueVars => UNCHANGED <<status, agent>>
  BY DEF queueVars
<1> HIDE DEF IInv, TypeOK, OneRunningPerAgent
<1> QED BY <1>1, <1>2, <1>3, <1>4, <1>5, <1>6, <1>7, <1>8, <1>9, <1>10,
    <1>11, <1>12, <1>13, <1>14, <1>15, <1>16, <1>17, <1>18, <1>19
    DEF Next, RowStep, ClaimStep, HolderStep, AgentStep


\* An attempt is charged by the step that takes a running row from its holder,
\* so a row waits with at least as many attempts used as it had starts.
LEMMA AttemptsStep ==
  ASSUME IInv, [Next]_queueVars
  PROVE  (FreshRows /\ AttemptsLeft /\ UnstartedRows)'
<1> DEFINE Goal == (FreshRows /\ AttemptsLeft /\ UnstartedRows)'
<1> USE RunQueueAssumption
    DEF IInv, TypeOK, FreshRows, AttemptsLeft, UnstartedRows, HolderIffRunning, Status,
        Open, Assign
<1>1. ASSUME NEW r \in Run, Enqueue(r) PROVE Goal
  BY <1>1 DEF Enqueue
<1>2. ASSUME NEW r \in Run, Cancel(r) PROVE Goal
  BY <1>2 DEF Cancel, CancelRows, ClearLease, Open
<1>3. ASSUME NEW w \in Worker, NEW r \in Run, Take(w, r) PROVE Goal
  <2>1. status[r] = "queued"
    BY <1>3 DEF Take
  <2>2. /\ status' = [status EXCEPT ![r] = "running"]
        /\ UNCHANGED <<attempt, reason>>
        /\ starts' = [starts EXCEPT ![r] = IF r \in Cloud THEN starts[r] ELSE starts[r] + 1]
    BY <1>3 DEF Take
  <2>3. FreshRows' /\ UnstartedRows'
    BY <2>1, <2>2
  <2>4. AttemptsLeft'
    BY <2>1, <2>2
  <2> QED BY <2>3, <2>4
<1>4. ASSUME NEW w \in Worker, NEW r \in Run, Succeed(w, r) PROVE Goal
  BY <1>4 DEF Succeed, Holds, ClearLease
<1>5. ASSUME NEW w \in Worker, NEW r \in Run, Block(w, r) PROVE Goal
  BY <1>5 DEF Block, Holds, ClearLease
<1>6. ASSUME NEW w \in Worker, NEW r \in Run, NEW b \in BOOLEAN, Fail(w, r, b) PROVE Goal
  BY <1>6 DEF Fail, Holds, ClearLease
<1>7. ASSUME NEW t \in Ticket, CancelForTicket(t) PROVE Goal
  BY <1>7 DEF CancelForTicket, CancelRows, ClearLease, Open
<1>8. ASSUME NEW a \in Agent, BlockQueuedForAgent(a) PROVE Goal
  BY <1>8 DEF BlockQueuedForAgent, OfAgent
<1>9. ASSUME NEW a \in Agent, CancelRunningForAgent(a) PROVE Goal
  BY <1>9 DEF CancelRunningForAgent, OfAgent, ClearLease
<1>10. ASSUME NEW a \in Agent, UnblockQueuedForAgent(a) PROVE Goal
  BY <1>10 DEF UnblockQueuedForAgent, OfAgent
<1>11. ASSUME Reap PROVE Goal
  BY <1>11 DEF Reap, Expired, GivesUp, ReapAttempt, Resumable, ClearLease
<1>12. ASSUME NEW r \in Run, SetExternal(r) \/ Lapse(r) \/ BackoffOver(r)
      PROVE  UNCHANGED <<status, reason, attempt, starts>>
  BY <1>12 DEF SetExternal, Lapse, BackoffOver
<1>13. ASSUME NEW w \in Worker, Drop(w) \/ ReleaseLeases(w)
      PROVE  UNCHANGED <<status, reason, attempt, starts>>
  BY <1>13 DEF Drop, ReleaseLeases, Holds
<1>14. ASSUME NEW w \in Worker, NEW r \in Run, Pick(w, r) \/ Heartbeat(w, r)
      PROVE  UNCHANGED <<status, reason, attempt, starts>>
  BY <1>14 DEF Pick, Heartbeat, Holds
<1>15. ASSUME NEW a \in Agent, AgentOff(a) \/ AgentOn(a) \/ DeleteAgent(a)
      PROVE  UNCHANGED <<status, reason, attempt, starts>>
  BY <1>15 DEF AgentOff, AgentOn, DeleteAgent
<1>16. ASSUME NEW a \in Agent, NEW s \in Step, Abandon(a, s)
      PROVE  UNCHANGED <<status, reason, attempt, starts>>
  BY <1>16 DEF Abandon
<1>17. ASSUME UNCHANGED <<status, reason, attempt, starts>> PROVE Goal
  BY <1>17
<1>18. UNCHANGED queueVars => UNCHANGED <<status, reason, attempt, starts>>
  BY DEF queueVars
<1> HIDE DEF IInv, TypeOK, FreshRows, AttemptsLeft, UnstartedRows
<1> QED BY <1>1, <1>2, <1>3, <1>4, <1>5, <1>6, <1>7, <1>8, <1>9, <1>10,
    <1>11, <1>12, <1>13, <1>14, <1>15, <1>16, <1>17, <1>18
    DEF Next, RowStep, ClaimStep, HolderStep, AgentStep

\* The call that turns an agent off waits for the row under claim() before it
\* cancels what runs, so no run slips between its two statements.
LEMMA OffStep ==
  ASSUME IInv, [Next]_queueVars
  PROVE  (OffAgentIdle /\ PickedCovered)'
<1> DEFINE Goal == (OffAgentIdle /\ PickedCovered)'
<1> USE RunQueueAssumption
    DEF IInv, TypeOK, OffAgentIdle, PickedCovered, HolderIffRunning, Status, Step, Open,
        Assign, Locked
<1>1. ASSUME NEW r \in Run, Enqueue(r) PROVE Goal
  BY <1>1 DEF Enqueue
<1>2. ASSUME NEW r \in Run, Cancel(r) PROVE Goal
  BY <1>2 DEF Cancel, CancelRows, ClearLease, Open
<1>3. ASSUME NEW w \in Worker, NEW r \in Run, Take(w, r) PROVE Goal
  <2>1. /\ picked[w] = r /\ picked[w] # NoRun
        /\ status' = [status EXCEPT ![r] = "running"]
        /\ picked' = [picked EXCEPT ![w] = NoRun]
        /\ UNCHANGED <<agent, skill, calls>>
    BY <1>3 DEF Take
  <2>2. OffAgentIdle'
    BY <2>1
  <2>3. PickedCovered'
    BY <2>1
  <2> QED BY <2>2, <2>3
<1>4. ASSUME NEW w \in Worker, Drop(w) PROVE Goal
  BY <1>4 DEF Drop
<1>5. ASSUME NEW w \in Worker, NEW r \in Run, Pick(w, r) PROVE Goal
  BY <1>5 DEF Pick, AgentIsOn
<1>6. ASSUME NEW w \in Worker, NEW r \in Run, Succeed(w, r) PROVE Goal
  BY <1>6 DEF Succeed, Holds, ClearLease
<1>7. ASSUME NEW w \in Worker, NEW r \in Run, Block(w, r) PROVE Goal
  BY <1>7 DEF Block, Holds, ClearLease
<1>8. ASSUME NEW w \in Worker, NEW r \in Run, NEW b \in BOOLEAN, Fail(w, r, b) PROVE Goal
  BY <1>8 DEF Fail, Holds, ClearLease
<1>9. ASSUME NEW t \in Ticket, CancelForTicket(t) PROVE Goal
  BY <1>9 DEF CancelForTicket, CancelRows, ClearLease, Open
<1>10. ASSUME NEW a \in Agent, AgentOff(a) PROVE Goal
  BY <1>10 DEF AgentOff
<1>11. ASSUME NEW a \in Agent, BlockQueuedForAgent(a) PROVE Goal
  BY <1>11 DEF BlockQueuedForAgent, OfAgent
<1>12. ASSUME NEW a \in Agent, CancelRunningForAgent(a) PROVE Goal
  BY <1>12 DEF CancelRunningForAgent, OfAgent, ClearLease
<1>13. ASSUME NEW a \in Agent, AgentOn(a) PROVE Goal
  BY <1>13 DEF AgentOn
<1>14. ASSUME NEW a \in Agent, UnblockQueuedForAgent(a) PROVE Goal
  BY <1>14 DEF UnblockQueuedForAgent, OfAgent
<1>15. ASSUME NEW a \in Agent, DeleteAgent(a) PROVE Goal
  BY <1>15 DEF DeleteAgent
<1>16. ASSUME NEW a \in Agent, NEW s \in Step, Abandon(a, s) PROVE Goal
  BY <1>16 DEF Abandon
<1>17. ASSUME Reap PROVE Goal
  BY <1>17 DEF Reap, Expired, GivesUp, ReapAttempt, Resumable, ClearLease
<1>18. ASSUME NEW r \in Run, SetExternal(r) \/ Lapse(r) \/ BackoffOver(r)
      PROVE  UNCHANGED <<status, agent, skill, calls, picked>>
  BY <1>18 DEF SetExternal, Lapse, BackoffOver
<1>19. ASSUME NEW w \in Worker, ReleaseLeases(w)
      PROVE  UNCHANGED <<status, agent, skill, calls, picked>>
  BY <1>19 DEF ReleaseLeases, Holds
<1>20. ASSUME NEW w \in Worker, NEW r \in Run, Heartbeat(w, r)
      PROVE  UNCHANGED <<status, agent, skill, calls, picked>>
  BY <1>20 DEF Heartbeat, Holds
<1>21. ASSUME UNCHANGED <<status, agent, skill, calls, picked>> PROVE Goal
  BY <1>21
<1>22. UNCHANGED queueVars => UNCHANGED <<status, agent, skill, calls, picked>>
  BY DEF queueVars
<1> HIDE DEF IInv, TypeOK, OffAgentIdle, PickedCovered
<1> QED BY <1>1, <1>2, <1>3, <1>4, <1>5, <1>6, <1>7, <1>8, <1>9, <1>10,
    <1>11, <1>12, <1>13, <1>14, <1>15, <1>16, <1>17, <1>18, <1>19, <1>20,
    <1>21, <1>22
    DEF Next, RowStep, ClaimStep, HolderStep, AgentStep

-----------------------------------------------------------------------------
\* Every row is absent, nothing is locked and every agent is on.
LEMMA InitInv == Init => IInv
<1> SUFFICES ASSUME Init PROVE IInv
  OBVIOUS
<1> USE RunQueueAssumption DEF Init
<1>1. TypeOK
  BY DEF TypeOK, Status, Step
<1>2. HolderIffRunning /\ PickedAlone /\ OneRunningPerAgent
  BY DEF HolderIffRunning, PickedAlone, OneRunningPerAgent
<1>3. FreshRows /\ AttemptsLeft /\ UnstartedRows
  BY DEF FreshRows, AttemptsLeft, UnstartedRows, Open
<1>4. OffAgentIdle /\ PickedCovered
  BY DEF OffAgentIdle, PickedCovered
<1> QED BY <1>1, <1>2, <1>3, <1>4 DEF IInv

\* The inductive invariant holds in every state of every behaviour.
THEOREM Invariance == Spec => []IInv
<1>1. IInv /\ [Next]_queueVars => IInv'
  BY TypeStep, HolderStepKeeps, PickedStep, OneRunningStep, AttemptsStep, OffStep DEF IInv
<1> QED BY InitInv, <1>1, PTL DEF Spec

\* Every column of agent_runs keeps its type, and no counter passes MaxAttempts.
THEOREM Typing == Spec => []TypeOK
<1>1. IInv => TypeOK
  BY DEF IInv
<1> QED BY Invariance, <1>1, PTL

\* However many claims race, at most one run of an agent is running.
THEOREM MutualExclusion == Spec => []OneRunningPerAgent
<1>1. IInv => OneRunningPerAgent
  BY DEF IInv
<1> QED BY Invariance, <1>1, PTL

\* A row has an owner and a lease exactly while it is running.
THEOREM LeaseDiscipline == Spec => []HolderIffRunning
<1>1. IInv => HolderIffRunning
  BY DEF IInv
<1> QED BY Invariance, <1>1, PTL

\* A run that is not resumed in the cloud is started at most MaxAttempts times.
THEOREM BoundedStarts == Spec => []AttemptsLeft
<1>1. IInv => AttemptsLeft
  BY DEF IInv
<1> QED BY Invariance, <1>1, PTL

\* When the call that turns an agent off has finished, nothing runs for it.
THEOREM SwitchOff == Spec => []OffAgentIdle
<1>1. IInv => OffAgentIdle
  BY DEF IInv
<1> QED BY Invariance, <1>1, PTL

-----------------------------------------------------------------------------
\* Where one statement may move a row, and what it does to its attempt.
Moved(r) ==
  /\ status'[r] # status[r] => <<PhaseOf[status[r]], PhaseOf[status'[r]]>> \in Life!Edge
  /\ attempt'[r] # attempt[r] => /\ status[r] = "running"
                                 /\ status'[r] \in {"queued", "failed"}
                                 /\ attempt'[r] = attempt[r] + 1
  /\ status[r] = "running" /\ status'[r] = "queued"
       => attempt'[r] = attempt[r] + 1 \/ Resumable(r)

\* In no step has a row moved but along the transitions.
LEMMA MovedStep ==
  ASSUME IInv, [Next]_queueVars
  PROVE  \A r \in Run : Moved(r)
<1> DEFINE Goal == \A q \in Run : Moved(q)
<1> USE RunQueueAssumption
    DEF IInv, TypeOK, HolderIffRunning, Status, Open, Assign, Moved, PhaseOf, Life!Edge
<1>1. ASSUME NEW r \in Run, Enqueue(r) PROVE Goal
  BY <1>1 DEF Enqueue
<1>2. ASSUME NEW r \in Run, Cancel(r) PROVE Goal
  BY <1>2 DEF Cancel, CancelRows, ClearLease, Open
<1>3. ASSUME NEW w \in Worker, NEW r \in Run, Take(w, r) PROVE Goal
  BY <1>3 DEF Take
<1>4. ASSUME NEW w \in Worker, NEW r \in Run, Succeed(w, r) PROVE Goal
  BY <1>4 DEF Succeed, Holds, ClearLease
<1>5. ASSUME NEW w \in Worker, NEW r \in Run, Block(w, r) PROVE Goal
  BY <1>5 DEF Block, Holds, ClearLease
<1>6. ASSUME NEW w \in Worker, NEW r \in Run, NEW b \in BOOLEAN, Fail(w, r, b) PROVE Goal
  BY <1>6 DEF Fail, Holds, ClearLease
<1>7. ASSUME NEW t \in Ticket, CancelForTicket(t) PROVE Goal
  BY <1>7 DEF CancelForTicket, CancelRows, ClearLease, Open
<1>8. ASSUME NEW a \in Agent, BlockQueuedForAgent(a) PROVE Goal
  BY <1>8 DEF BlockQueuedForAgent, OfAgent
<1>9. ASSUME NEW a \in Agent, CancelRunningForAgent(a) PROVE Goal
  BY <1>9 DEF CancelRunningForAgent, OfAgent, ClearLease
<1>10. ASSUME NEW a \in Agent, UnblockQueuedForAgent(a) PROVE Goal
  BY <1>10 DEF UnblockQueuedForAgent, OfAgent
<1>11. ASSUME Reap PROVE Goal
  BY <1>11 DEF Reap, Expired, GivesUp, ReapAttempt, Resumable, ClearLease
<1>12. ASSUME NEW r \in Run, SetExternal(r) \/ Lapse(r) \/ BackoffOver(r)
      PROVE  UNCHANGED <<status, attempt>>
  BY <1>12 DEF SetExternal, Lapse, BackoffOver
<1>13. ASSUME NEW w \in Worker, Drop(w) \/ ReleaseLeases(w)
      PROVE  UNCHANGED <<status, attempt>>
  BY <1>13 DEF Drop, ReleaseLeases, Holds
<1>14. ASSUME NEW w \in Worker, NEW r \in Run, Pick(w, r) \/ Heartbeat(w, r)
      PROVE  UNCHANGED <<status, attempt>>
  BY <1>14 DEF Pick, Heartbeat, Holds
<1>15. ASSUME NEW a \in Agent, AgentOff(a) \/ AgentOn(a) \/ DeleteAgent(a)
      PROVE  UNCHANGED <<status, attempt>>
  BY <1>15 DEF AgentOff, AgentOn, DeleteAgent
<1>16. ASSUME NEW a \in Agent, NEW s \in Step, Abandon(a, s)
      PROVE  UNCHANGED <<status, attempt>>
  BY <1>16 DEF Abandon
<1>17. ASSUME UNCHANGED <<status, attempt>> PROVE Goal
  BY <1>17
<1>18. UNCHANGED queueVars => UNCHANGED <<status, attempt>>
  BY DEF queueVars
<1> HIDE DEF IInv, TypeOK, HolderIffRunning, Moved
<1> QED BY <1>1, <1>2, <1>3, <1>4, <1>5, <1>6, <1>7, <1>8, <1>9, <1>10,
    <1>11, <1>12, <1>13, <1>14, <1>15, <1>16, <1>17, <1>18
    DEF Next, RowStep, ClaimStep, HolderStep, AgentStep

\* A run that has ended stays as it ended.
THEOREM EndedStays == Spec => TerminalFinal
<1>1. ASSUME IInv, [Next]_queueVars
      PROVE  \A r \in Run : status[r] \in Terminal => /\ status'[r] = status[r]
                                                      /\ attempt'[r] = attempt[r]
  BY <1>1, MovedStep DEF Moved, PhaseOf, Life!Edge, Terminal
<1> QED BY <1>1, Invariance, PTL DEF Spec, TerminalFinal

\* A step that puts a running row back in the queue uses up an attempt, unless
\* the run is resumed in the cloud.
THEOREM ChargedRequeue == Spec => RequeueIsCharged
<1>1. ASSUME IInv, [Next]_queueVars
      PROVE  \A r \in Run : status[r] = "running" /\ status'[r] = "queued"
               => attempt'[r] = attempt[r] + 1 \/ Resumable(r)
  BY <1>1, MovedStep DEF Moved
<1> QED BY <1>1, Invariance, PTL DEF Spec, RequeueIsCharged

-----------------------------------------------------------------------------
\* Only a deleted agent's rows change their agent, and they lose it.
LEMMA SeatStep ==
  ASSUME IInv, [Next]_queueVars
  PROVE  \A r \in Run : agent'[r] # agent[r] => agent'[r] = NoAgent
<1> DEFINE Goal == \A q \in Run : agent'[q] # agent[q] => agent'[q] = NoAgent
<1> USE DEF IInv, TypeOK, Assign
<1>1. ASSUME NEW a \in Agent, DeleteAgent(a) PROVE Goal
  BY <1>1 DEF DeleteAgent
<1>2. ASSUME NEW r \in Run,
          Enqueue(r) \/ SetExternal(r) \/ Cancel(r) \/ Lapse(r) \/ BackoffOver(r)
      PROVE  UNCHANGED agent
  BY <1>2 DEF Enqueue, SetExternal, Cancel, CancelRows, ClearLease, Open,
    Lapse, BackoffOver
<1>3. ASSUME NEW w \in Worker, NEW r \in Run,
          Take(w, r) \/ Pick(w, r) \/ Heartbeat(w, r) \/ Succeed(w, r) \/ Block(w, r)
      PROVE  UNCHANGED agent
  BY <1>3 DEF Take, Pick, Heartbeat, Holds, Succeed, ClearLease, Block
<1>4. ASSUME NEW w \in Worker, Drop(w) \/ ReleaseLeases(w)
      PROVE  UNCHANGED agent
  BY <1>4 DEF Drop, ReleaseLeases, Holds
<1>5. ASSUME NEW w \in Worker, NEW r \in Run, NEW b \in BOOLEAN, Fail(w, r, b)
      PROVE  UNCHANGED agent
  BY <1>5 DEF Fail, Holds, ClearLease
<1>6. ASSUME NEW t \in Ticket, CancelForTicket(t)
      PROVE  UNCHANGED agent
  BY <1>6 DEF CancelForTicket, CancelRows, ClearLease, Open
<1>7. ASSUME NEW a \in Agent,
          AgentOff(a) \/ BlockQueuedForAgent(a) \/ CancelRunningForAgent(a) \/ AgentOn(a) \/ UnblockQueuedForAgent(a)
      PROVE  UNCHANGED agent
  BY <1>7 DEF AgentOff, BlockQueuedForAgent, OfAgent, CancelRunningForAgent,
    ClearLease, AgentOn, UnblockQueuedForAgent
<1>8. ASSUME NEW a \in Agent, NEW s \in Step, Abandon(a, s)
      PROVE  UNCHANGED agent
  BY <1>8 DEF Abandon
<1>9. ASSUME Reap
      PROVE  UNCHANGED agent
  BY <1>9 DEF Reap, Expired, GivesUp, ReapAttempt, Resumable, ClearLease
<1>10. ASSUME UNCHANGED agent PROVE Goal
  BY <1>10
<1>11. UNCHANGED queueVars => UNCHANGED agent
  BY DEF queueVars
<1> HIDE DEF IInv, TypeOK
<1> QED BY <1>1, <1>2, <1>3, <1>4, <1>5, <1>6, <1>7, <1>8, <1>9, <1>10, <1>11
    DEF Next, RowStep, ClaimStep, HolderStep, AgentStep

\* The rows of agent_runs implement RunLifecycle.
THEOREM Refinement == Spec => KeepsLifecycle
<1>1. Init => Life!AbsInit
  BY RunQueueAssumption DEF Init, Life!AbsInit, PhaseOf
<1>2. ASSUME IInv, [Next]_queueVars
      PROVE  [Life!AbsNext]_(Life!absVars)
  <2>1. IInv'
    BY <1>2, TypeStep, HolderStepKeeps, PickedStep, OneRunningStep, AttemptsStep, OffStep DEF IInv
  <2> DEFINE ph == [r \in Run |-> PhaseOf[status[r]]]
  <2>2. ph' \in [Run -> Life!Phase]
    BY <2>1 DEF IInv, TypeOK, Status, PhaseOf, Life!Phase
  <2>3. attempt' \in [Run -> Nat] /\ agent' \in [Run -> Agent \cup {NoAgent}]
    BY <2>1, RunQueueAssumption DEF IInv, TypeOK
  <2>4. ASSUME NEW r \in Run PROVE Life!Moves(r)
    <3>1. Moved(r)
      BY <1>2, MovedStep
    <3>2. agent'[r] # agent[r] => agent'[r] = NoAgent
      BY <1>2, SeatStep
    <3>3. PhaseOf[status'[r]] \in {"waiting", "working", "parked"} => attempt'[r] < MaxAttempts
      BY <2>1 DEF IInv, TypeOK, AttemptsLeft, Open, Status, PhaseOf
    <3>4. PhaseOf[status'[r]] # PhaseOf[status[r]] => status'[r] # status[r]
      OBVIOUS
    <3> QED BY <1>2, <3>1, <3>2, <3>3, <3>4 DEF Moved, Life!Moves, IInv, TypeOK, PhaseOf, Status
  <2>5. Life!Exclusive(ph', agent')
    BY <2>1 DEF IInv, TypeOK, OneRunningPerAgent, Status, PhaseOf, Life!Exclusive
  <2> QED BY <2>2, <2>3, <2>4, <2>5 DEF Life!AbsNext
<1> QED BY <1>1, <1>2, Invariance, PTL DEF Spec, KeepsLifecycle, Life!AbsSpec

-----------------------------------------------------------------------------
-----------------------------------------------------------------------------
\* Always: a busy executor has a run, and has a reservation of its own exactly
\* from the reservation on (a throw may come from before it or after it).
OwnRunAndUnit ==
  \A e \in Slot :
    /\ Busy(e) => job[e] \in Run
    /\ pc[e] \in {"idle", "prepare", "over"} => ~mine[e]
    /\ pc[e] \in {"mark", "work", "return", "finish", "settle", "release", "refund"} => mine[e]

\* Always: who is about to settle has ended the run and is alone in that.
SettlesAlone ==
  /\ \A e \in Slot : pc[e] = "settle" => status[job[e]] = "succeeded" /\ charged[job[e]] = 0
  /\ \A e, f \in Slot : pc[e] = "settle" /\ pc[f] = "settle" /\ job[e] = job[f] => e = f

\* The units that executors carry and those that rows hold.
Carries(e) ==
  mine[e] /\ \/ pc[e] \in {"mark", "settle", "release", "refund"}
             \/ pc[e] \in {"threw", "giveback"} /\ StillHolds(e) /\ ~held[job[e]]
Carriers == {e \in Slot : Carries(e)}
HeldRows == {r \in Run : held[r]}
Owed == Cardinality(Carriers) + Cardinality(HeldRows) + refunds

Tracked == "stale" \notin upset

\* An executor that has not let go of its row still holds it, or the row has ended.
Engaged(e) == pc[e] \notin {"idle", "release"}
HoldsOrEnded ==
  \A e \in Slot : Engaged(e) => StillHolds(e) \/ status[job[e]] \in Terminal
OneExecutor ==
  \A e, f \in Slot : Engaged(e) /\ Engaged(f) /\ job[e] = job[f] => e = f
UnitOnRow ==
  \A e \in Slot : pc[e] \in {"work", "return", "finish"} /\ StillHolds(e) => held[job[e]]
Tracking == HoldsOrEnded /\ OneExecutor /\ UnitOnRow

\* While nothing was lost: nobody cancels between claim and mark, the unit stays on
\* the row until the executor takes it off, and no row holds one without an executor.
GapFree == \A e \in Slot : pc[e] \in {"prepare", "mark"} => StillHolds(e)
UnitStays ==
  \A e \in Slot : pc[e] \in {"threw", "giveback"} /\ mine[e] /\ StillHolds(e) => held[job[e]]
HeldByExecutor ==
  \A r \in Run : held[r] =>
    \E e \in Slot : /\ job[e] = r /\ mine[e] /\ StillHolds(e)
                    /\ pc[e] \in {"work", "return", "finish", "threw", "giveback"}
Clean == GapFree /\ UnitStays /\ HeldByExecutor

AlwaysInv == IInv /\ WorkTypeOK /\ OwnRunAndUnit /\ SettlesAlone /\ ChargedOnce
             /\ IsFiniteSet(HeldRows)
TrackedInv == Tracked => Tracking /\ ledger >= Owed
CleanInv == upset = {} => Clean /\ ledger = Owed

WInv == AlwaysInv /\ TrackedInv /\ CleanInv

-----------------------------------------------------------------------------
\* Every step is a statement of the queue, or leaves its rows and claims alone: a
\* crash rolls the worker's claim back, as Drop does.
LEMMA QueueStep ==
  ASSUME TypeOK, OwnRunAndUnit, [WorkNext]_vars
  PROVE  [Next]_queueVars
<1> USE DEF HolderStep, ClaimStep, AgentStep, RowStep
<1>1. ASSUME NEW r \in Run, Submit(r) \/ LeaseEnds(r) \/ TimePasses(r) \/ UserCancels(r)
      PROVE  Next
  BY <1>1 DEF Submit, LeaseEnds, TimePasses, UserCancels, Next
<1>2. ASSUME NEW t \in Ticket, TicketCancels(t) PROVE Next
  BY <1>2 DEF TicketCancels, Next
<1>3. ASSUME NEW a \in Agent, SwitchSteps(a) \/ SwitchCancels(a) PROVE Next
  BY <1>3 DEF SwitchSteps, SwitchCancels, Next
<1>4. ASSUME NEW w \in Worker, TickDrop(w) \/ TickReap \/ \E r \in Run : TickPick(w, r)
      PROVE  Next
  BY <1>4 DEF TickDrop, TickReap, TickPick, Next
<1>5. ASSUME NEW w \in Worker, NEW e \in SlotsOf(w), NEW r \in Run, TickTake(e, r)
      PROVE  Next
  BY <1>5 DEF TickTake, SlotsOf, Next
<1>6. ASSUME NEW e \in Slot, Busy(e), Executor(e) \/ Beat(e) PROVE [Next]_queueVars
  <2>1. OwnerOf[e] \in Worker /\ job[e] \in Run
    BY <1>6, RunWorkerAssumption DEF OwnRunAndUnit
  <2>2. HolderStep(OwnerOf[e], job[e]) \/ RowStep(job[e]) \/ UNCHANGED queueVars
    BY <1>6 DEF Executor, Reserve, OverBudget, Mark, StoreExternal, Dispatch, CheckAlive,
      Finish, Settle, Catch, Release, GiveBack, RefundOwn, Beat
  <2> QED BY <2>1, <2>2 DEF Next
<1>7. ASSUME NEW e \in Slot, Executor(e) \/ Beat(e) PROVE Busy(e)
  BY <1>7 DEF Executor, Reserve, OverBudget, Mark, StoreExternal, Dispatch, CheckAlive,
      Finish, Settle, Catch, Release, GiveBack, RefundOwn, Beat, Busy
<1>8. ASSUME NEW w \in Worker, Crash(w) \/ Shutdown(w) PROVE [Next]_queueVars
  <2>1. CASE Shutdown(w)
    BY <2>1 DEF Shutdown, Next
  <2>2. CASE Crash(w) /\ picked[w] # NoRun
    BY <2>2 DEF Crash, Drop, Next
  <2>3. CASE Crash(w) /\ picked[w] = NoRun
    <3>1. picked' = picked
      BY <2>3 DEF Crash, TypeOK
    <3> QED BY <2>3, <3>1 DEF Crash, queueVars
  <2> QED BY <1>8, <2>1, <2>2, <2>3
<1>9. ASSUME Refund \/ LoseRefund \/ \E e \in Slot : ReserveThrows(e) \/ BeatThrows(e) \/ Throws(e)
      PROVE  UNCHANGED queueVars
  BY <1>9 DEF Refund, LoseRefund, ReserveThrows, BeatThrows, Throws
<1>10. UNCHANGED vars => UNCHANGED queueVars
  BY DEF vars
<1> HIDE DEF HolderStep, ClaimStep, AgentStep, RowStep
<1> QED BY <1>1, <1>2, <1>3, <1>4, <1>5, <1>6, <1>7, <1>8, <1>9, <1>10
      DEF WorkNext, Tick, Faulty

-----------------------------------------------------------------------------
\* The queue's steps that are not an executor's leave every executor where it is.
Outside == \/ \E r \in Run : Submit(r) \/ LeaseEnds(r) \/ TimePasses(r) \/ UserCancels(r)
           \/ \E t \in Ticket : TicketCancels(t)
           \/ \E a \in Agent : SwitchSteps(a) \/ SwitchCancels(a)
           \/ \E w \in Worker : TickDrop(w) \/ TickReap \/ \E r \in Run : TickPick(w, r)
           \/ Refund \/ LoseRefund \/ \E w \in Worker : Shutdown(w)
           \/ UNCHANGED vars

Bookkept == /\ faults' \in 0 .. MaxFaults
            /\ upset \subseteq upset' /\ upset' \subseteq {"gap", "stale", "fault"}
Apart == UNCHANGED <<pc, job, mine, aborted, charged>>

\* A fault is counted and noted.
LEMMA FaultStep ==
  ASSUME WorkTypeOK
  PROVE  /\ Fault => Bookkept
         /\ Fault => upset' = upset \cup {"fault"}
         /\ UNCHANGED <<faults, upset>> => Bookkept
         /\ \A S : Note(S) /\ UNCHANGED faults => Bookkept
<1>1. ASSUME Fault PROVE Bookkept /\ upset' = upset \cup {"fault"}
  BY <1>1, RunWorkerAssumption DEF WorkTypeOK, Fault, Bookkept
<1>2. ASSUME UNCHANGED <<faults, upset>> PROVE Bookkept
  BY <1>2 DEF WorkTypeOK, Bookkept
<1>3. ASSUME NEW S, Note(S), UNCHANGED faults PROVE Bookkept
  <2>1. CASE InGap(S)
    BY <1>3, <2>1 DEF WorkTypeOK, Bookkept, Note
  <2>2. CASE ~InGap(S)
    BY <1>3, <2>2 DEF WorkTypeOK, Bookkept, Note
  <2> QED BY <2>1, <2>2
<1> QED BY <1>1, <1>2, <1>3

\* They move no executor and put no reservation on a row.
LEMMA OutsideStep ==
  ASSUME WorkTypeOK, Outside
  PROVE  /\ UNCHANGED <<pc, job, mine, aborted, charged>>
         /\ held' \in [Run -> BOOLEAN] /\ HeldRows' \subseteq HeldRows
         /\ Bookkept
<1>1. ASSUME NEW r \in Run, Submit(r) \/ TimePasses(r)
      PROVE  Apart /\ UNCHANGED <<held, faults, upset>>
  BY <1>1 DEF Submit, TimePasses, workVars, Apart
<1>2. ASSUME NEW r \in Run, LeaseEnds(r)
      PROVE  Apart /\ UNCHANGED held /\ (Fault \/ UNCHANGED <<faults, upset>>)
  <2> HIDE DEF Fault
  <2> QED BY <1>2 DEF LeaseEnds, Apart
<1>3. ASSUME NEW w \in Worker, TickDrop(w) \/ Shutdown(w) \/ \E r \in Run : TickPick(w, r)
      PROVE  Apart /\ UNCHANGED held /\ (Fault \/ UNCHANGED <<faults, upset>>)
  BY <1>3 DEF TickDrop, Shutdown, TickPick, workVars, Apart
<1>4. ASSUME NEW a \in Agent, SwitchSteps(a)
      PROVE  Apart /\ UNCHANGED <<held, faults, upset>>
  BY <1>4 DEF SwitchSteps, workVars, Apart
<1>5. ASSUME Refund \/ LoseRefund
      PROVE  Apart /\ UNCHANGED held /\ (Fault \/ UNCHANGED <<faults, upset>>)
  BY <1>5 DEF Refund, LoseRefund, Apart
<1>6. ASSUME NEW r \in Run, UserCancels(r)
      PROVE  Apart /\ TakeHeld({r}) /\ Note({r}) /\ UNCHANGED faults
  BY <1>6 DEF UserCancels, Apart
<1>7. ASSUME NEW t \in Ticket, TicketCancels(t)
      PROVE  Apart /\ (\E S \in SUBSET Run : TakeHeld(S) /\ Note(S)) /\ UNCHANGED faults
  BY <1>7 DEF TicketCancels, Apart
<1>8. ASSUME NEW a \in Agent, SwitchCancels(a)
      PROVE  Apart /\ (\E S \in SUBSET Run : TakeHeld(S) /\ Note(S)) /\ UNCHANGED faults
  BY <1>8 DEF SwitchCancels, Apart, OfAgent
<1>9. ASSUME TickReap
      PROVE  Apart /\ TakeHeld(Expired) /\ Bookkept
  BY <1>9 DEF TickReap, Apart, Bookkept, WorkTypeOK
<1>10. ASSUME NEW S, TakeHeld(S)
      PROVE  held' \in [Run -> BOOLEAN] /\ HeldRows' \subseteq HeldRows
  BY <1>10 DEF TakeHeld, WorkTypeOK, HeldRows, Assign
<1>11. UNCHANGED vars => Apart /\ UNCHANGED <<held, faults, upset>>
  BY DEF vars, workVars, Apart
<1>12. UNCHANGED held => held' \in [Run -> BOOLEAN] /\ HeldRows' \subseteq HeldRows
  BY DEF WorkTypeOK, HeldRows
<1>13. Apart => UNCHANGED <<pc, job, mine, aborted, charged>>
  BY DEF Apart
<1> QED BY <1>1, <1>2, <1>3, <1>4, <1>5, <1>6, <1>7, <1>8, <1>9, <1>10, <1>11, <1>12, <1>13, FaultStep
      DEF Outside

\* Only releases under way change the ledger from outside, and what a statement
\* took off its rows becomes one.
LEMMA OutsideCounts ==
  ASSUME WorkTypeOK, IsFiniteSet(HeldRows), Outside
  PROVE  ledger' \in Nat /\ refunds' \in Nat
<1>1. ASSUME NEW S \in SUBSET Run, TakeHeld(S) PROVE refunds' \in Nat
  <2>1. IsFiniteSet({r \in S : held[r]})
    BY FS_Subset DEF HeldRows
  <2> QED BY <1>1, <2>1, FS_CardinalityType DEF TakeHeld, WorkTypeOK
<1>2. ASSUME NEW r \in Run, UserCancels(r) PROVE TakeHeld({r}) /\ UNCHANGED ledger
  BY <1>2 DEF UserCancels
<1>3. ASSUME NEW t \in Ticket, TicketCancels(t)
      PROVE  (\E S \in SUBSET Run : TakeHeld(S)) /\ UNCHANGED ledger
  BY <1>3 DEF TicketCancels
<1>4. ASSUME NEW a \in Agent, SwitchCancels(a)
      PROVE  TakeHeld(OfAgent(a, "running")) /\ UNCHANGED ledger
  BY <1>4 DEF SwitchCancels
<1>5. ASSUME TickReap PROVE TakeHeld(Expired) /\ UNCHANGED ledger
  BY <1>5 DEF TickReap
<1>6. ASSUME Refund \/ LoseRefund PROVE ledger' \in Nat /\ refunds' \in Nat
  BY <1>6 DEF Refund, LoseRefund, Debit, WorkTypeOK
<1>7. ASSUME NEW r \in Run, Submit(r) \/ LeaseEnds(r) \/ TimePasses(r)
      PROVE  UNCHANGED <<ledger, refunds>>
  BY <1>7 DEF Submit, LeaseEnds, TimePasses, workVars
<1>8. ASSUME NEW w \in Worker, TickDrop(w) \/ Shutdown(w) \/ \E r \in Run : TickPick(w, r)
      PROVE  UNCHANGED <<ledger, refunds>>
  BY <1>8 DEF TickDrop, Shutdown, TickPick, workVars
<1>9. ASSUME NEW a \in Agent, SwitchSteps(a) PROVE UNCHANGED <<ledger, refunds>>
  BY <1>9 DEF SwitchSteps, workVars
<1>10. UNCHANGED vars => UNCHANGED <<ledger, refunds>>
  BY DEF vars, workVars
<1>11. Expired \in SUBSET Run /\ \A a \in Agent : OfAgent(a, "running") \in SUBSET Run
  BY DEF Expired, OfAgent
<1>12. ledger \in Nat /\ refunds \in Nat
  BY DEF WorkTypeOK
<1> QED BY <1>1, <1>2, <1>3, <1>4, <1>5, <1>6, <1>7, <1>8, <1>9, <1>10, <1>11, <1>12 DEF Outside

-----------------------------------------------------------------------------
\* A step of one executor, or the crash of a worker's.
Inside == \/ \E e \in Slot : Executor(e) \/ Beat(e) \/ ReserveThrows(e) \/ BeatThrows(e) \/ Throws(e)
          \/ \E e \in Slot, r \in Run : TickTake(e, r)
          \/ \E w \in Worker : Crash(w)

\* A step is one of the queue's around the executors, or one of an executor.
LEMMA Sides == WorkNext => Outside \/ Inside
  BY DEF WorkNext, Tick, Faulty, Outside, Inside, SlotsOf

Local == WorkTypeOK /\ OwnRunAndUnit

\* Each step of an executor finds it at the place the step starts from and leaves
\* it with a run and with its reservation.
LEMMA InsideStep ==
  ASSUME Local, TypeOK', Inside
  PROVE  Local'
<1> USE RunWorkerAssumption DEF Local, WorkTypeOK, OwnRunAndUnit, Stage, Busy, Goto
<1> DEFINE T == pc' \in [Slot -> Stage]
<1>1. ASSUME NEW e \in Slot, NEW r \in Run, TickTake(e, r) PROVE Local'
  BY <1>1 DEF TickTake
<1>2. ASSUME NEW e \in Slot, Reserve(e) PROVE Local'
  <2>1. CASE /\ pc' = [pc EXCEPT ![e] = "mark"] /\ mine' = [mine EXCEPT ![e] = TRUE]
             /\ ledger' = ledger + 1
    BY <1>2, <2>1 DEF Reserve
  <2>2. ASSUME NEW s \in {"over", "threw"}, pc' = [pc EXCEPT ![e] = s], UNCHANGED <<mine, ledger>>
        PROVE  Local'
    BY <1>2, <2>2 DEF Reserve
  <2> QED BY <1>2, <2>1, <2>2 DEF Reserve
<1>3. ASSUME NEW e \in Slot, ReserveThrows(e) PROVE Local'
  BY <1>3 DEF ReserveThrows, Fault
<1>4. ASSUME NEW e \in Slot, OverBudget(e) PROVE Local'
  BY <1>4 DEF OverBudget, Done
<1>5. ASSUME NEW e \in Slot, Mark(e) PROVE Local'
  BY <1>5 DEF Mark
<1>6. ASSUME NEW e \in Slot, StoreExternal(e) PROVE Local'
  BY <1>6 DEF StoreExternal, workVars
<1>7. ASSUME NEW e \in Slot, Dispatch(e) PROVE Local'
  BY <1>7 DEF Dispatch
<1>8. ASSUME NEW e \in Slot, Beat(e) PROVE Local'
  BY <1>8 DEF Beat, workVars
<1>9. ASSUME NEW e \in Slot, BeatThrows(e) PROVE Local'
  BY <1>9 DEF BeatThrows, Fault
<1>10. ASSUME NEW e \in Slot, CheckAlive(e) PROVE Local'
  BY <1>10 DEF CheckAlive
<1>11. ASSUME NEW e \in Slot, Finish(e) PROVE Local'
  BY <1>11 DEF Finish
<1>12. ASSUME NEW e \in Slot, Settle(e) PROVE Local'
  BY <1>12 DEF Settle, Debit, Done
<1>13. ASSUME NEW e \in Slot, Catch(e) PROVE Local'
  <2>1. CASE aborted[e] /\ Goto(e, "giveback")
    BY <1>13, <2>1 DEF Catch
  <2>2. CASE mine[e] /\ Goto(e, "release") /\ UNCHANGED <<job, mine, aborted>>
             /\ held' = [held EXCEPT ![job[e]] = FALSE]
    BY <1>13, <2>2 DEF Catch
  <2>3. CASE Done(e) /\ (held' = [held EXCEPT ![job[e]] = FALSE] \/ UNCHANGED held)
    BY <1>13, <2>3 DEF Catch, Done
  <2> QED BY <1>13, <2>1, <2>2, <2>3 DEF Catch
<1>14. ASSUME NEW e \in Slot, Release(e) PROVE Local'
  BY <1>14 DEF Release, Debit, Done
<1>15. ASSUME NEW e \in Slot, GiveBack(e) PROVE Local'
  <2>1. CASE mine[e] /\ held[job[e]]
    BY <1>15, <2>1 DEF GiveBack
  <2>2. CASE ~(mine[e] /\ held[job[e]])
    BY <1>15, <2>2 DEF GiveBack, Done
  <2> QED BY <2>1, <2>2
<1>16. ASSUME NEW e \in Slot, RefundOwn(e) PROVE Local'
  BY <1>16 DEF RefundOwn, Debit, Done
<1>17. ASSUME NEW e \in Slot, Throws(e) PROVE Local'
  BY <1>17 DEF Throws, Fault
<1>18. ASSUME NEW w \in Worker, Crash(w) PROVE Local'
  <2>1. /\ pc' = [f \in Slot |-> IF f \in SlotsOf(w) THEN "idle" ELSE pc[f]]
        /\ job' = [f \in Slot |-> IF f \in SlotsOf(w) THEN NoRun ELSE job[f]]
        /\ mine' = [f \in Slot |-> IF f \in SlotsOf(w) THEN FALSE ELSE mine[f]]
        /\ aborted' = [f \in Slot |-> IF f \in SlotsOf(w) THEN FALSE ELSE aborted[f]]
    BY <1>18 DEF Crash, Assign
  <2>2. UNCHANGED <<held, ledger, refunds, charged>> /\ Bookkept
    BY <1>18, FaultStep DEF Crash
  <2> QED BY <2>1, <2>2 DEF Bookkept
<1> HIDE DEF Local
<1> QED BY <1>1, <1>2, <1>3, <1>4, <1>5, <1>6, <1>7, <1>8, <1>9, <1>10, <1>11, <1>12, <1>13,
      <1>14, <1>15, <1>16, <1>17, <1>18 DEF Inside, Executor

-----------------------------------------------------------------------------
\* Nobody starts to settle, and nothing is charged.
NoNewSettler == /\ \A f \in Slot : pc'[f] = "settle" => pc[f] = "settle" /\ job'[f] = job[f]
                /\ charged' = charged

\* Only Finish puts an executor before its settlement, and only Settle charges.
LEMMA SettlerStep ==
  ASSUME Local, WorkNext
  PROVE  NoNewSettler \/ \E e \in Slot : Finish(e) \/ Settle(e)
<1> USE DEF Local, WorkTypeOK, Goto, NoNewSettler
<1>1. ASSUME Outside PROVE NoNewSettler
  BY <1>1, OutsideStep
<1>2. ASSUME NEW e \in Slot, NEW r \in Run, TickTake(e, r) PROVE NoNewSettler
  BY <1>2 DEF TickTake
<1>3. ASSUME NEW e \in Slot, Reserve(e) PROVE NoNewSettler
  BY <1>3 DEF Reserve
<1>4. ASSUME NEW e \in Slot, ReserveThrows(e) \/ Throws(e) \/ BeatThrows(e) PROVE NoNewSettler
  BY <1>4 DEF ReserveThrows, Throws, BeatThrows
<1>5. ASSUME NEW e \in Slot, OverBudget(e) \/ Release(e) \/ RefundOwn(e) PROVE NoNewSettler
  BY <1>5 DEF OverBudget, Release, RefundOwn, Done
<1>6. ASSUME NEW e \in Slot, Mark(e) \/ StoreExternal(e) \/ Dispatch(e) PROVE NoNewSettler
  BY <1>6 DEF Mark, StoreExternal, Dispatch, workVars
<1>7. ASSUME NEW e \in Slot, Beat(e) \/ CheckAlive(e) PROVE NoNewSettler
  BY <1>7 DEF Beat, CheckAlive, workVars
<1>8. ASSUME NEW e \in Slot, Catch(e) PROVE NoNewSettler
  <2>1. charged' = charged /\ (Done(e) \/ \E s \in {"giveback", "release"} : Goto(e, s) /\ job' = job)
    BY <1>8 DEF Catch
  <2> QED BY <2>1 DEF Done
<1>9. ASSUME NEW e \in Slot, GiveBack(e) PROVE NoNewSettler
  <2>1. CASE mine[e] /\ held[job[e]]
    BY <1>9, <2>1 DEF GiveBack
  <2>2. CASE ~(mine[e] /\ held[job[e]])
    BY <1>9, <2>2 DEF GiveBack, Done
  <2> QED BY <2>1, <2>2
<1>10. ASSUME NEW w \in Worker, Crash(w) PROVE NoNewSettler
  BY <1>10 DEF Crash, Assign
<1> HIDE DEF Local, WorkTypeOK, NoNewSettler
<1> QED BY <1>1, <1>2, <1>3, <1>4, <1>5, <1>6, <1>7, <1>8, <1>9, <1>10, Sides
      DEF Inside, Executor

\* A run that succeeded stays so, whoever settles it is alone with it, and its
\* charge is made from zero.
LEMMA SettleStep ==
  ASSUME IInv, Local, SettlesAlone, ChargedOnce, [WorkNext]_vars
  PROVE  SettlesAlone' /\ ChargedOnce'
<1>1. ASSUME NEW r \in Run, status[r] = "succeeded" PROVE status'[r] = "succeeded"
  <2>1. Moved(r)
    BY MovedStep, QueueStep DEF Local, WorkTypeOK
  <2> QED BY <1>1, <2>1 DEF Moved, PhaseOf, Life!Edge
<1> USE DEF Local, WorkTypeOK, OwnRunAndUnit, SettlesAlone, ChargedOnce, Busy
<1>2. CASE NoNewSettler
  BY <1>1, <1>2 DEF NoNewSettler
<1>3. ASSUME NEW e \in Slot, Finish(e) PROVE SettlesAlone' /\ ChargedOnce'
  <2>1. CASE StillHolds(e)
    <3> job[e] \in Run
      BY <1>3 DEF Finish
    <3>0. status[job[e]] = "running" /\ Succeed(OwnerOf[e], job[e])
      BY <1>3, <2>1 DEF Finish, StillHolds, Holds
    <3>1. status'[job[e]] = "succeeded"
      BY <3>0 DEF Succeed, TypeOK
    <3>3. charged[job[e]] = 0
      <4>1. charged[job[e]] \in Nat /\ charged[job[e]] <= 1 /\ charged[job[e]] # 1
        BY <3>0
      <4> QED BY <4>1
    <3>2. pc' = [pc EXCEPT ![e] = "settle"] /\ UNCHANGED <<job, charged>>
      BY <1>3, <2>1 DEF Finish, Goto
    <3> QED BY <1>1, <3>0, <3>1, <3>2, <3>3
  <2>2. CASE ~StillHolds(e)
    BY <1>1, <1>3, <2>2 DEF Finish, Goto
  <2> QED BY <2>1, <2>2
<1>4. ASSUME NEW e \in Slot, Settle(e) PROVE SettlesAlone' /\ ChargedOnce'
  <2>1. status' = status /\ pc[e] = "settle"
    BY <1>4 DEF Settle, queueVars
  <2>2. /\ charged' = [charged EXCEPT ![job[e]] = @ + 1]
        /\ pc' = [pc EXCEPT ![e] = "idle"] /\ job' = [job EXCEPT ![e] = NoRun]
    BY <1>4 DEF Settle, Done
  <2> QED BY <2>1, <2>2
<1>5. UNCHANGED vars => NoNewSettler
  BY DEF vars, workVars, NoNewSettler
<1> QED BY <1>2, <1>3, <1>4, <1>5, SettlerStep

\* A step puts a reservation on at most one row.
LEMMA HeldStep ==
  ASSUME Local, IsFiniteSet(HeldRows), [WorkNext]_vars
  PROVE  IsFiniteSet(HeldRows')
<1> DEFINE More == \E r \in Run : HeldRows' \subseteq HeldRows \cup {r}
<1>1. CASE More
  BY <1>1, FS_AddElement, FS_Subset
<1>2. CASE Outside
  BY <1>2, OutsideStep, FS_Subset DEF Local
<1>3. ASSUME NEW e \in Slot, Mark(e) PROVE More
  BY <1>3 DEF Mark, HeldRows, Local, WorkTypeOK, OwnRunAndUnit, Busy
<1> DEFINE Fewer == HeldRows' \subseteq HeldRows
<1> USE DEF HeldRows, Local, WorkTypeOK
<1>4. ASSUME NEW e \in Slot, NEW r \in Run, TickTake(e, r) PROVE Fewer
  BY <1>4 DEF TickTake
<1>5. ASSUME NEW e \in Slot, Reserve(e) \/ ReserveThrows(e) \/ Throws(e) \/ BeatThrows(e)
      PROVE  Fewer
  BY <1>5 DEF Reserve, ReserveThrows, Throws, BeatThrows
<1>6. ASSUME NEW e \in Slot, OverBudget(e) PROVE Fewer
  BY <1>6 DEF OverBudget
<1>7. ASSUME NEW e \in Slot, StoreExternal(e) \/ Dispatch(e) \/ Beat(e) \/ CheckAlive(e) PROVE Fewer
  BY <1>7 DEF StoreExternal, Dispatch, Beat, CheckAlive, workVars
<1>8. ASSUME NEW e \in Slot, Finish(e) PROVE Fewer
  BY <1>8 DEF Finish
<1>9. ASSUME NEW e \in Slot, Settle(e) \/ Release(e) \/ RefundOwn(e) PROVE Fewer
  BY <1>9 DEF Settle, Release, RefundOwn
<1>10. ASSUME NEW e \in Slot, Catch(e) PROVE Fewer
  BY <1>10 DEF Catch
<1>11. ASSUME NEW e \in Slot, GiveBack(e) PROVE Fewer
  BY <1>11 DEF GiveBack
<1>12. ASSUME NEW w \in Worker, Crash(w) PROVE Fewer
  BY <1>12 DEF Crash
<1>13. Fewer => IsFiniteSet(HeldRows')
  <2> HIDE DEF HeldRows
  <2> QED BY FS_Subset
<1> HIDE DEF HeldRows, Fewer, More, Local, WorkTypeOK
<1> QED BY <1>1, <1>2, <1>3, <1>4, <1>5, <1>6, <1>7, <1>8, <1>9, <1>10, <1>11, <1>12, <1>13, Sides
      DEF Outside, Inside, Executor

-----------------------------------------------------------------------------
\* No running or ended row moves, and none starts to run.
Undisturbed ==
  /\ \A r \in Run : status[r] \in Terminal \cup {"running"}
       => status'[r] = status[r] /\ owner'[r] = owner[r]
  /\ \A r \in Run : status'[r] = "running" => status[r] = "running"

\* The rows of S are cancelled, and what they held becomes releases under way.
Cancels(S) ==
  /\ \A r \in S : status[r] \in Open
  /\ status' = Assign(status, S, "cancelled") /\ owner' = Assign(owner, S, NoWorker)
  /\ TakeHeld(S) /\ Note(S)
  /\ UNCHANGED <<pc, job, mine, aborted, ledger, charged, faults>>

Still == Undisturbed /\ UNCHANGED <<pc, job, mine, held>>
Quiet == Still /\ UNCHANGED <<ledger, refunds>>

\* From outside, rows are left as they are, cancelled, or reaped, and otherwise only
\* a release under way moves the ledger.
LEMMA OutsideRows ==
  ASSUME IInv, WorkTypeOK, Outside
  PROVE  Quiet \/ (Still /\ (Refund \/ LoseRefund)) \/ TickReap \/ \E S \in SUBSET Run : Cancels(S)
<1> USE RunQueueAssumption DEF IInv, TypeOK
<1>1. ASSUME NEW r \in Run, Submit(r) \/ LeaseEnds(r) \/ TimePasses(r) PROVE Quiet
  BY <1>1 DEF Submit, Enqueue, LeaseEnds, Lapse, TimePasses, BackoffOver, workVars, Undisturbed,
    Still, Quiet, Terminal
<1>2. ASSUME NEW w \in Worker, TickDrop(w) \/ Shutdown(w) \/ \E r \in Run : TickPick(w, r)
      PROVE  Quiet
  BY <1>2 DEF TickDrop, Drop, Shutdown, ReleaseLeases, TickPick, Pick, workVars, Undisturbed, Still, Quiet
<1>3. ASSUME NEW a \in Agent, SwitchSteps(a) PROVE Quiet
  <2>1. Undisturbed
    <3>1. CASE AgentOff(a) \/ AgentOn(a)
      BY <3>1 DEF AgentOff, AgentOn, Undisturbed
    <3>2. CASE BlockQueuedForAgent(a)
      BY <3>2 DEF BlockQueuedForAgent, OfAgent, Assign, Undisturbed, Terminal
    <3>3. CASE UnblockQueuedForAgent(a)
      BY <3>3 DEF UnblockQueuedForAgent, OfAgent, Assign, Undisturbed, Terminal
    <3> QED BY <1>3, <3>1, <3>2, <3>3 DEF SwitchSteps
  <2> QED BY <1>3, <2>1 DEF SwitchSteps, workVars, Still, Quiet
<1>4. ASSUME Refund \/ LoseRefund PROVE Still
  BY <1>4 DEF Refund, LoseRefund, queueVars, Undisturbed, Still
<1>12. ASSUME UNCHANGED vars PROVE Quiet
  BY <1>12 DEF vars, queueVars, workVars, Undisturbed, Still, Quiet
<1>5. ASSUME NEW r \in Run, UserCancels(r) PROVE Cancels({r})
  BY <1>5 DEF UserCancels, Cancel, CancelRows, ClearLease, Cancels
<1>6. ASSUME NEW t \in Ticket, TicketCancels(t)
      PROVE  Cancels({r \in Run : TicketFor[r] = t /\ status[r] \in Open})
  BY <1>6 DEF TicketCancels, CancelForTicket, CancelRows, ClearLease, Cancels
<1>7. ASSUME NEW a \in Agent, SwitchCancels(a) PROVE Cancels(OfAgent(a, "running"))
  BY <1>7 DEF SwitchCancels, CancelRunningForAgent, ClearLease, Cancels, OfAgent, Open
<1>8. \A a \in Agent : OfAgent(a, "running") \in SUBSET Run
  BY DEF OfAgent
<1>9. \A t \in Ticket : {r \in Run : TicketFor[r] = t /\ status[r] \in Open} \in SUBSET Run
  OBVIOUS
<1>10. \A r \in Run : {r} \in SUBSET Run
  OBVIOUS
<1> HIDE DEF IInv, TypeOK
<1>11. ASSUME NEW t \in Ticket, TicketCancels(t) PROVE \E S \in SUBSET Run : Cancels(S)
  BY <1>11, <1>6, <1>9
<1> QED BY <1>1, <1>2, <1>3, <1>4, <1>5, <1>7, <1>8, <1>10, <1>11, <1>12 DEF Outside

-----------------------------------------------------------------------------
\* An executor's row is given up: it no longer runs, no other row is touched, and
\* it holds no reservation.
GivesUpRow(e) ==
  /\ StillHolds(e) /\ status'[job[e]] # "running"
  /\ \A r \in Run \ {job[e]} : status'[r] = status[r] /\ owner'[r] = owner[r]
  /\ held' = [held EXCEPT ![job[e]] = FALSE]

\* What each of the statements that end an execution does to the row.
LEMMA GivesUpStep ==
  ASSUME Local, NEW e \in Slot, job[e] \in Run, StillHolds(e),
         \/ Succeed(OwnerOf[e], job[e]) \/ Block(OwnerOf[e], job[e])
         \/ Fail(OwnerOf[e], job[e], TRUE),
         held' = [held EXCEPT ![job[e]] = FALSE]
  PROVE  GivesUpRow(e)
<1> USE DEF Local, WorkTypeOK, TypeOK, ClearLease, Assign, GivesUpRow
<1>1. CASE Succeed(OwnerOf[e], job[e])
  BY <1>1 DEF Succeed
<1>2. CASE Block(OwnerOf[e], job[e])
  BY <1>2 DEF Block
<1>3. CASE Fail(OwnerOf[e], job[e], TRUE)
  BY <1>3 DEF Fail
<1> QED BY <1>1, <1>2, <1>3

\* The steps of an executor that write no row, and those that may end one: an end that
\* finds the row no longer held leaves it alone.
LEMMA QuietStep ==
  ASSUME Local, NEW e \in Slot,
         \/ Reserve(e) \/ Mark(e) \/ StoreExternal(e) \/ Dispatch(e) \/ CheckAlive(e) \/ Settle(e)
         \/ Release(e) \/ GiveBack(e) \/ RefundOwn(e) \/ Beat(e)
         \/ ReserveThrows(e) \/ BeatThrows(e) \/ Throws(e)
  PROVE  Undisturbed
<1>1. CASE StoreExternal(e) \/ Beat(e) \/ CheckAlive(e)
  BY <1>1 DEF StoreExternal, SetExternal, Beat, CheckAlive, Heartbeat, queueVars, Undisturbed
<1>2. CASE ~(StoreExternal(e) \/ Beat(e) \/ CheckAlive(e))
  BY <1>2 DEF Reserve, Mark, Dispatch, Settle, Release, GiveBack, RefundOwn, ReserveThrows, BeatThrows,
    Throws, queueVars, Undisturbed
<1> QED BY <1>1, <1>2

Moves(e, s) == Goto(e, s) /\ UNCHANGED <<job, mine>>

\* An executor that ends its run gives the row up as one of the ends does.
LEMMA EndingStep ==
  ASSUME IInv, Local, NEW e \in Slot, OverBudget(e) \/ Finish(e) \/ Catch(e)
  PROVE  \/ /\ UNCHANGED queueVars /\ held' = held
            /\ \/ pc[e] \in {"finish", "threw"} /\ Moves(e, "giveback")
               \/ pc[e] \in {"over", "threw"} /\ ~StillHolds(e) /\ Done(e)
         \/ /\ GivesUpRow(e) /\ status'[job[e]] = "succeeded"
            /\ pc[e] = "finish" /\ Moves(e, "settle")
         \/ GivesUpRow(e) /\ pc[e] \in {"over", "threw"} /\ Done(e) /\ ~mine[e]
         \/ GivesUpRow(e) /\ pc[e] = "threw" /\ mine[e] /\ Moves(e, "release")
<1>1. Busy(e) => job[e] \in Run
  BY DEF Local, OwnRunAndUnit
<1> USE DEF Moves
<1>2. CASE OverBudget(e)
  <2>1. ~mine[e]
    BY <1>2 DEF OverBudget, Local, OwnRunAndUnit
  <2> QED BY <1>1, <1>2, <2>1, GivesUpStep DEF OverBudget, Busy
<1>3. CASE Finish(e)
  <2>1. job[e] \in Run /\ Succeed(OwnerOf[e], job[e]) => status'[job[e]] = "succeeded"
    BY DEF Succeed, IInv, TypeOK
  <2> QED BY <1>1, <1>3, <2>1, GivesUpStep DEF Finish, Busy
<1>4. CASE Catch(e)
  <2>1. CASE aborted[e]
    BY <1>4, <2>1 DEF Catch
  <2>2. CASE ~aborted[e] /\ ~StillHolds(e)
    BY <1>4, <2>2 DEF Catch
  <2>3. CASE ~aborted[e] /\ StillHolds(e)
    <3>1. /\ pc[e] = "threw" /\ held' = [held EXCEPT ![job[e]] = FALSE]
          /\ Block(OwnerOf[e], job[e]) \/ Fail(OwnerOf[e], job[e], TRUE)
          /\ IF mine[e] THEN Goto(e, "release") /\ UNCHANGED <<job, mine, aborted>> ELSE Done(e)
      BY <1>4, <2>3 DEF Catch
    <3> QED BY <1>1, <2>3, <3>1, GivesUpStep DEF Busy
  <2> QED BY <2>1, <2>2, <2>3
<1> QED BY <1>2, <1>3, <1>4

\* Cancelling S ends its rows, empties them, and leaves the others.
LEMMA CancelStep ==
  ASSUME Local, NEW S \in SUBSET Run, Cancels(S)
  PROVE  /\ \A r \in S : status'[r] = "cancelled" /\ ~held'[r]
         /\ \A r \in Run \ S : status'[r] = status[r] /\ owner'[r] = owner[r] /\ held'[r] = held[r]
<1>1. /\ status' = [r \in Run |-> IF r \in S THEN "cancelled" ELSE status[r]]
      /\ owner' = [r \in Run |-> IF r \in S THEN NoWorker ELSE owner[r]]
  BY DEF Cancels, Assign, Local, WorkTypeOK, TypeOK
<1>2. held' = [r \in Run |-> IF r \in S THEN FALSE ELSE held[r]]
  BY DEF Cancels, TakeHeld, Assign, Local, WorkTypeOK
<1>3. \A r \in Run \ S : held'[r] = held[r]
  BY <1>2
<1>4. \A r \in S : ~held'[r]
  BY <1>2
<1> QED BY <1>1, <1>3, <1>4

\* A claim takes a row that is still queued.
LEMMA TakeRow ==
  ASSUME IInv, Local, NEW e \in Slot, NEW r \in Run, TickTake(e, r)
  PROVE  /\ pc[e] = "idle" /\ status[r] = "queued"
         /\ status'[r] = "running" /\ owner'[r] = OwnerOf[e]
         /\ \A q \in Run \ {r} : status'[q] = status[q] /\ owner'[q] = owner[q]
         /\ pc' = [pc EXCEPT ![e] = "prepare"] /\ job' = [job EXCEPT ![e] = r]
         /\ UNCHANGED <<mine, held, upset>>
<1>1. OwnerOf[e] \in Worker /\ picked[OwnerOf[e]] = r /\ r # NoRun
  BY RunWorkerAssumption, RunQueueAssumption DEF TickTake, Take
<1>2. status[r] = "queued"
  BY <1>1 DEF IInv, HolderIffRunning
<1> QED BY <1>1, <1>2 DEF TickTake, Take, Busy, Goto, Local, WorkTypeOK, TypeOK

\* What the reaper is not told of: executors whose rows it leaves alone.
LEMMA ReapRows ==
  ASSUME Local, TickReap
  PROVE  /\ UNCHANGED <<pc, job, mine>> /\ TakeHeld(Expired)
         /\ \A r \in Run \ Expired : status'[r] = status[r] /\ owner'[r] = owner[r] /\ held'[r] = held[r]
         /\ Tracked' => \A e \in Slot : Busy(e) => job[e] \notin Expired
  BY DEF Local, WorkTypeOK, TypeOK, TickReap, Reap, ClearLease, Assign, TakeHeld, Tracked

\* As long as the reaper has not overtaken an executor, every engaged one is alone
\* with its row, which it holds or which has ended.
LEMMA TrackingStep ==
  ASSUME IInv, Local, Local', Tracking, Tracked', [WorkNext]_vars
  PROVE  Tracking'
<1> USE DEF Tracking, HoldsOrEnded, OneExecutor, UnitOnRow, Engaged, StillHolds, Holds
<1> DEFINE Safe == \A f \in Slot : Busy(f) => job[f] \in Run
<1>0. Safe
  BY DEF Local, OwnRunAndUnit
<1>1. CASE Still
  BY <1>0, <1>1 DEF Still, Undisturbed, Busy
<1>2. ASSUME NEW S \in SUBSET Run, Cancels(S) PROVE Tracking'
  <2>1. \A r \in Run :
          \/ r \in S /\ status'[r] = "cancelled"
          \/ status'[r] = status[r] /\ owner'[r] = owner[r] /\ held'[r] = held[r]
    BY <1>2, CancelStep
  <2> UNCHANGED <<pc, job>>
    BY <1>2 DEF Cancels
  <2> QED BY <1>0, <2>1 DEF Busy, Terminal
<1>3. CASE TickReap
  BY <1>0, <1>3, ReapRows DEF Busy
<1>4. ASSUME NEW e \in Slot, NEW r \in Run, TickTake(e, r) PROVE Tracking'
  <2>1. /\ pc[e] = "idle" /\ status[r] = "queued"
        /\ status'[r] = "running" /\ owner'[r] = OwnerOf[e]
        /\ \A q \in Run \ {r} : status'[q] = status[q] /\ owner'[q] = owner[q]
        /\ pc' = [pc EXCEPT ![e] = "prepare"] /\ job' = [job EXCEPT ![e] = r]
        /\ UNCHANGED held
    BY <1>4, TakeRow
  <2>2. \A f \in Slot \ {e} : pc'[f] = pc[f] /\ job'[f] = job[f]
    BY <2>1 DEF Local, WorkTypeOK
  <2>3. pc'[e] = "prepare" /\ job'[e] = r
    BY <2>1 DEF Local, WorkTypeOK
  <2>4. \A f \in Slot \ {e} : Engaged(f) => job[f] \in Run \ {r}
    BY <1>0, <2>1 DEF Busy, Terminal
  <2> QED BY <1>0, <2>1, <2>2, <2>3, <2>4 DEF Busy
<1>5. ASSUME NEW e \in Slot, GivesUpRow(e), pc[e] = "finish", Goto(e, "settle"), UNCHANGED job,
             status'[job[e]] = "succeeded"
      PROVE  Tracking'
  BY <1>0, <1>5 DEF GivesUpRow, Goto, Busy, Local, WorkTypeOK, Terminal
<1>6. ASSUME NEW e \in Slot, GivesUpRow(e), pc[e] \in {"over", "threw"},
             Done(e) \/ (Goto(e, "release") /\ UNCHANGED job)
      PROVE  Tracking'
  BY <1>0, <1>6 DEF GivesUpRow, Goto, Done, Busy, Local, WorkTypeOK
<1>7. ASSUME NEW e \in Slot, Undisturbed, Mark(e) PROVE Tracking'
  BY <1>0, <1>7 DEF Undisturbed, Mark, Goto, Busy, Local, WorkTypeOK
<1>8. ASSUME NEW e \in Slot, Undisturbed, Reserve(e) \/ ReserveThrows(e) \/ Throws(e)
      PROVE  Tracking'
  <2>1. /\ UNCHANGED <<job, held>> /\ pc[e] \in {"prepare", "mark", "settle"}
        /\ \E s \in {"mark", "over", "threw"} : pc' = [pc EXCEPT ![e] = s]
    BY <1>8 DEF Reserve, ReserveThrows, Throws, Goto
  <2> QED BY <1>0, <2>1, <1>8 DEF Undisturbed, Busy, Local, WorkTypeOK
<1>9. ASSUME NEW e \in Slot, Undisturbed, StoreExternal(e) \/ Beat(e) \/ BeatThrows(e)
      PROVE  Tracking'
  BY <1>0, <1>9 DEF Undisturbed, StoreExternal, Beat, BeatThrows, workVars, Busy, Local
<1>10. ASSUME NEW e \in Slot, Undisturbed, Dispatch(e) \/ CheckAlive(e)
      PROVE  Tracking'
  <2>1. /\ UNCHANGED <<job, held>> /\ pc[e] \in {"work", "return"}
        /\ \E s \in {"return", "threw", "finish", "giveback"} : pc' = [pc EXCEPT ![e] = s]
    BY <1>10 DEF Dispatch, CheckAlive, Goto
  <2> QED BY <1>0, <2>1, <1>10 DEF Undisturbed, Busy, Local, WorkTypeOK
<1>11. ASSUME NEW e \in Slot, Undisturbed, Done(e), held' = held
      PROVE  Tracking'
  BY <1>0, <1>11 DEF Undisturbed, Done, Busy, Local, WorkTypeOK
<1>12. ASSUME NEW e \in Slot, Undisturbed, GiveBack(e), ~Done(e)
      PROVE  Tracking'
  <2>1. /\ pc[e] = "giveback" /\ held' = [held EXCEPT ![job[e]] = FALSE] /\ UNCHANGED job
        /\ pc' = [pc EXCEPT ![e] = "refund"]
    BY <1>12 DEF GiveBack, Goto
  <2> QED BY <1>0, <2>1, <1>12 DEF Undisturbed, Busy, Local, WorkTypeOK
<1>13. ASSUME NEW w \in Worker, Crash(w)
      PROVE  Tracking'
  <2>1. /\ UNCHANGED <<status, owner, held>>
        /\ \A f \in Slot : pc'[f] = "idle" \/ (pc'[f] = pc[f] /\ job'[f] = job[f])
    BY <1>13 DEF Crash, Assign, Local, WorkTypeOK
  <2> QED BY <1>0, <2>1 DEF Busy
<1>14. ASSUME NEW e \in Slot, OverBudget(e) \/ Finish(e) \/ Catch(e) PROVE Tracking'
  <2>1. UNCHANGED queueVars => Undisturbed
    BY DEF queueVars, Undisturbed
  <2>2. ASSUME UNCHANGED queueVars, held' = held, pc[e] \in {"finish", "threw"}, Moves(e, "giveback")
        PROVE  Tracking'
    BY <1>0, <2>2 DEF queueVars, Moves, Goto, Busy, Local, WorkTypeOK
  <2> QED BY <1>5, <1>6, <1>11, <1>14, <2>1, <2>2, EndingStep DEF Moves
<1>15. ASSUME NEW e \in Slot, Settle(e) \/ Release(e) \/ RefundOwn(e)
      PROVE  Undisturbed /\ Done(e) /\ held' = held
  BY <1>15, QuietStep DEF Settle, Release, RefundOwn
<1>16. ASSUME NEW e \in Slot, GiveBack(e), Done(e) PROVE held' = held
  BY <1>16 DEF GiveBack, Done, Goto, Local, WorkTypeOK
<1> HIDE DEF Tracking
<1> QED BY <1>1, <1>2, <1>3, <1>4, <1>7, <1>8, <1>9, <1>10, <1>11, <1>12, <1>13, <1>14, <1>15, <1>16,
      QuietStep, OutsideRows, Sides DEF Quiet, Outside, Inside, Executor, Local

\* While nothing has upset the bookkeeping, a unit is on the row between mark and the
\* end of the execution, and nowhere else on a row.
LEMMA CleanStep ==
  ASSUME IInv, Local, Local', Tracking, Clean, upset' = {}, [WorkNext]_vars
  PROVE  Clean'
<1> USE DEF Clean, GapFree, UnitStays, HeldByExecutor, StillHolds, Holds
<1>0. \A f \in Slot : Busy(f) => job[f] \in Run
  BY DEF Local, OwnRunAndUnit
<1> DEFINE Alone == \A f, g \in Slot : Engaged(f) /\ Engaged(g) /\ job[f] = job[g] => f = g
<1>00. Alone
  BY DEF Tracking, OneExecutor
<1>1. CASE Still
  BY <1>0, <1>1 DEF Still, Undisturbed, Busy
<1>2. ASSUME NEW S \in SUBSET Run, Cancels(S) PROVE Clean'
  <2>1. UNCHANGED <<pc, job, mine>> /\ ~InGap(S)
    BY <1>2 DEF Cancels, Note
  <2>2. \A f \in Slot : pc[f] \in {"prepare", "mark"} => job[f] \notin S
    BY <2>1 DEF InGap
  <2> QED BY <1>0, <1>2, <2>1, <2>2, CancelStep DEF Busy
<1>3. CASE TickReap
  <2>1. /\ UNCHANGED <<pc, job, mine>>
        /\ \A r \in Run \ Expired : status'[r] = status[r] /\ owner'[r] = owner[r] /\ held'[r] = held[r]
        /\ \A e \in Slot : Busy(e) => job[e] \notin Expired
    BY <1>3, ReapRows DEF Tracked
  <2>2. \A r \in Expired : ~held'[r]
    BY <1>3 DEF TickReap, TakeHeld, Assign, Expired, Local, WorkTypeOK
  <2> QED BY <1>0, <2>1, <2>2 DEF Busy
<1>4. ASSUME NEW e \in Slot, NEW r \in Run, TickTake(e, r) PROVE Clean'
  <2>1. /\ pc[e] = "idle" /\ status[r] = "queued"
        /\ status'[r] = "running" /\ owner'[r] = OwnerOf[e]
        /\ \A q \in Run \ {r} : status'[q] = status[q] /\ owner'[q] = owner[q]
        /\ pc' = [pc EXCEPT ![e] = "prepare"] /\ job' = [job EXCEPT ![e] = r]
        /\ UNCHANGED <<mine, held>>
    BY <1>4, TakeRow
  <2>2. \A f \in Slot \ {e} : pc'[f] = pc[f] /\ job'[f] = job[f]
    BY <2>1 DEF Local, WorkTypeOK
  <2>3. pc'[e] = "prepare" /\ job'[e] = r
    BY <2>1 DEF Local, WorkTypeOK
  <2>4. \A f \in Slot \ {e} : Engaged(f) => job[f] \in Run \ {r}
    BY <1>0, <2>1 DEF Busy, Terminal, Engaged, Tracking, HoldsOrEnded
  <2> QED BY <1>0, <2>1, <2>2, <2>3, <2>4 DEF Engaged
<1>5. ASSUME NEW e \in Slot, GivesUpRow(e), pc[e] \in {"finish", "over", "threw"},
             Done(e) \/ (UNCHANGED <<job, mine>> /\ \E s \in {"settle", "release"} : Goto(e, s))
      PROVE  Clean'
  <2>1. \A f \in Slot \ {e} : pc'[f] = pc[f] /\ job'[f] = job[f] /\ mine'[f] = mine[f]
    BY <1>5 DEF Goto, Done, Local, WorkTypeOK
  <2>2. pc'[e] \in {"idle", "settle", "release"}
    BY <1>5 DEF Goto, Done, Local, WorkTypeOK
  <2>3. \A f \in Slot \ {e} : Engaged(f) => job[f] \in Run \ {job[e]}
    BY <1>0, <1>00, <1>5 DEF Engaged, Busy
  <2>4. ~held'[job[e]] /\ \A r \in Run \ {job[e]} : held'[r] = held[r]
    BY <1>0, <1>5 DEF GivesUpRow, Busy, Local, WorkTypeOK
  <2>5. \A r \in Run \ {job[e]} : status'[r] = status[r] /\ owner'[r] = owner[r]
    BY <1>5 DEF GivesUpRow
  <2> QED BY <1>0, <1>5, <2>1, <2>2, <2>3, <2>4, <2>5 DEF Engaged
<1>6. ASSUME NEW e \in Slot, Undisturbed, Mark(e) PROVE Clean'
  <2>1. pc[e] = "mark" /\ job[e] \in Run /\ mine[e] /\ StillHolds(e)
    BY <1>0, <1>6 DEF Mark, Busy, Local, OwnRunAndUnit
  <2>2. /\ pc' = [pc EXCEPT ![e] = "work"] /\ held' = [held EXCEPT ![job[e]] = TRUE]
        /\ UNCHANGED <<job, mine>>
    BY <1>6 DEF Mark, Goto
  <2> QED BY <1>0, <1>6, <2>1, <2>2 DEF Undisturbed, Busy, Local, WorkTypeOK
<1>7. ASSUME NEW e \in Slot, Undisturbed, UNCHANGED <<job, mine, held>>,
             NEW s \in Stage, pc' = [pc EXCEPT ![e] = s],
             \/ pc[e] = "prepare" /\ ~mine[e] /\ s \in {"mark", "over", "threw"}
             \/ /\ pc[e] \in {"work", "return", "finish", "threw"}
                /\ s \in {"return", "finish", "threw", "giveback"}
      PROVE  Clean'
  BY <1>0, <1>7 DEF Undisturbed, Busy, Local, WorkTypeOK, Tracking, UnitOnRow
<1>8. ASSUME NEW e \in Slot, Reserve(e) PROVE Clean'
  <2>1. CASE ledger' = ledger + 1 /\ Goto(e, "mark") /\ mine' = [mine EXCEPT ![e] = TRUE]
    <3>1. Undisturbed /\ pc[e] = "prepare" /\ ~mine[e] /\ UNCHANGED <<job, held>>
      BY <1>8, QuietStep DEF Reserve, Local, OwnRunAndUnit
    <3> QED BY <1>0, <2>1, <3>1 DEF Goto, Undisturbed, Busy, Local, WorkTypeOK
  <2>2. ASSUME NEW s \in {"over", "threw"}, pc' = [pc EXCEPT ![e] = s], mine' = mine
        PROVE  Clean'
    <3>1. Undisturbed /\ pc[e] = "prepare" /\ ~mine[e] /\ UNCHANGED <<job, held>> /\ s \in Stage
      BY <1>8, QuietStep DEF Reserve, Local, OwnRunAndUnit, Stage
    <3> QED BY <1>7, <2>2, <3>1
  <2> QED BY <1>8, <2>1, <2>2 DEF Reserve
<1>9. ASSUME NEW e \in Slot, Dispatch(e) \/ CheckAlive(e) PROVE Clean'
  <2>1. UNCHANGED <<job, mine, held>> /\ pc[e] \in {"work", "return"}
    BY <1>9 DEF Dispatch, CheckAlive
  <2>2. PICK s \in {"return", "finish", "threw", "giveback"} : pc' = [pc EXCEPT ![e] = s]
    BY <1>9 DEF Dispatch, CheckAlive, Goto
  <2>3. s \in Stage
    BY DEF Stage
  <2>4. Undisturbed
    BY <1>9, QuietStep
  <2> QED BY <1>7, <2>1, <2>2, <2>3, <2>4
<1>10. ASSUME NEW e \in Slot, StoreExternal(e) \/ Beat(e) PROVE Clean'
  <2>1. UNCHANGED <<pc, job, mine, held>>
    BY <1>10 DEF StoreExternal, Beat, workVars
  <2> QED BY <1>1, <1>10, <2>1, QuietStep DEF Still
<1>11. ASSUME NEW e \in Slot, Undisturbed, Done(e), held' = held,
              ~StillHolds(e) \/ ~mine[e] \/ ~held[job[e]]
                \/ pc[e] \notin {"work", "return", "finish", "threw", "giveback"}
       PROVE  Clean'
  <2>1. \A f \in Slot \ {e} : pc'[f] = pc[f] /\ job'[f] = job[f] /\ mine'[f] = mine[f]
    BY <1>11 DEF Done, Local, WorkTypeOK
  <2>2. pc'[e] = "idle"
    BY <1>11 DEF Done, Local, WorkTypeOK
  <2> QED BY <1>0, <1>11, <2>1, <2>2 DEF Undisturbed, Busy
<1>12. ASSUME NEW e \in Slot, Settle(e) \/ Release(e) \/ RefundOwn(e) PROVE Clean'
  <2>1. Done(e) /\ held' = held /\ pc[e] \in {"settle", "release", "refund"}
    BY <1>12 DEF Settle, Release, RefundOwn
  <2> QED BY <1>11, <1>12, <2>1, QuietStep
<1>13. ASSUME NEW e \in Slot, GiveBack(e) PROVE Clean'
  <2>1. CASE mine[e] /\ held[job[e]]
    <3>1. /\ pc[e] = "giveback" /\ pc' = [pc EXCEPT ![e] = "refund"] /\ UNCHANGED <<job, mine>>
          /\ held' = [held EXCEPT ![job[e]] = FALSE]
      BY <1>13, <2>1 DEF GiveBack, Goto
    <3>2. \A f \in Slot \ {e} : Engaged(f) => job[f] \in Run \ {job[e]}
      BY <1>0, <1>00, <3>1 DEF Engaged, Busy
    <3>3. ~held'[job[e]] /\ \A r \in Run \ {job[e]} : held'[r] = held[r]
      BY <1>0, <3>1 DEF Busy, Local, WorkTypeOK
    <3>4. pc'[e] = "refund" /\ \A f \in Slot \ {e} : pc'[f] = pc[f]
      BY <3>1 DEF Local, WorkTypeOK
    <3>5. Undisturbed
      BY <1>13, QuietStep
    <3> QED BY <1>0, <3>1, <3>2, <3>3, <3>4, <3>5 DEF Engaged, Undisturbed, Busy
  <2>2. CASE ~(mine[e] /\ held[job[e]])
    <3>1. Done(e) /\ held' = held
      BY <1>13, <2>2 DEF GiveBack, Done
    <3> QED BY <1>11, <1>13, <2>2, <3>1, QuietStep
  <2> QED BY <2>1, <2>2
<1>14. ASSUME NEW e \in Slot, OverBudget(e) \/ Finish(e) \/ Catch(e) PROVE Clean'
  <2>1. UNCHANGED queueVars => Undisturbed
    BY DEF queueVars, Undisturbed
  <2>2. ASSUME UNCHANGED queueVars, held' = held, pc[e] \in {"finish", "threw"}, Moves(e, "giveback")
        PROVE  Clean'
    BY <1>7, <2>1, <2>2 DEF Moves, Goto, Stage
  <2> QED BY <1>5, <1>11, <1>14, <2>1, <2>2, EndingStep DEF Moves
<1>15. ~ \E e \in Slot : ReserveThrows(e) \/ BeatThrows(e) \/ Throws(e)
  BY DEF ReserveThrows, BeatThrows, Throws, Fault
<1>16. ~ \E w \in Worker : Crash(w)
  BY DEF Crash, Fault
<1> HIDE DEF Clean
<1> QED BY <1>1, <1>2, <1>3, <1>4, <1>6, <1>8, <1>9, <1>10, <1>12, <1>13, <1>14, <1>15, <1>16,
      QuietStep, OutsideRows, Sides DEF Quiet, Outside, Inside, Executor, Local

-----------------------------------------------------------------------------
\* The ledger moves with what is owed; it may stay above, and does not while nothing
\* has upset the bookkeeping.
Balanced == /\ ledger' + Owed >= ledger + Owed'
            /\ upset' = {} => ledger' + Owed = ledger + Owed'

\* How the two sets may change, and what that makes of the balance.
LEMMA Counts ==
  ASSUME Local, IsFiniteSet(HeldRows)
  PROVE  /\ IsFiniteSet(Carriers) /\ Cardinality(Carriers) \in Nat
         /\ Cardinality(HeldRows) \in Nat /\ Owed \in Nat
         /\ ledger \in Nat /\ refunds \in Nat
  BY RunWorkerAssumption, FS_Subset, FS_CardinalityType DEF Carriers, Owed, Local, WorkTypeOK

\* Where the runs that carry a reservation and the held rows stand, so does the count.
LEMMA SameCount ==
  ASSUME Local, IsFiniteSet(HeldRows), UNCHANGED <<Carriers, HeldRows, refunds, ledger>>
  PROVE  Balanced
  BY Counts DEF Balanced, Owed

\* The other executors carry what they carried: a row that an engaged executor's
\* step writes is nobody else's.
LEMMA OthersCarry ==
  ASSUME Local, Tracking, NEW e \in Slot, Engaged(e),
         \A f \in Slot \ {e} : pc'[f] = pc[f] /\ job'[f] = job[f] /\ mine'[f] = mine[f],
         \A r \in Run \ {job[e]} : /\ status'[r] = "running" <=> status[r] = "running"
                                   /\ status[r] = "running" => owner'[r] = owner[r]
                                   /\ held'[r] = held[r]
  PROVE  Carriers' \ {e} = Carriers \ {e}
<1>1. ASSUME NEW f \in Slot \ {e} PROVE Carries(f)' <=> Carries(f)
  <2>1. CASE pc[f] \in {"threw", "giveback"}
    <3>1. job[f] \in Run \ {job[e]}
      BY <2>1 DEF Tracking, OneExecutor, Engaged, Local, OwnRunAndUnit, Busy
    <3> QED BY <2>1, <3>1 DEF Carries, StillHolds, Holds
  <2>2. CASE pc[f] \notin {"threw", "giveback"}
    BY <2>2 DEF Carries
  <2> QED BY <2>1, <2>2
<1> QED BY <1>1 DEF Carriers

\* A step that disturbs no row and leaves the executors and rows their units.
LEMMA QuietCarry ==
  ASSUME Local, Undisturbed, UNCHANGED <<pc, job, mine, held>>
  PROVE  UNCHANGED <<Carriers, HeldRows>>
<1>1. ASSUME NEW f \in Slot PROVE Carries(f)' <=> Carries(f)
  <2>1. CASE pc[f] \in {"threw", "giveback"}
    <3>1. job[f] \in Run
      BY <2>1 DEF Local, OwnRunAndUnit, Busy
    <3> QED BY <2>1, <3>1 DEF Carries, StillHolds, Holds, Undisturbed
  <2>2. CASE pc[f] \notin {"threw", "giveback"}
    BY <2>2 DEF Carries
  <2> QED BY <2>1, <2>2
<1> QED BY <1>1 DEF Carriers, HeldRows

\* What a statement takes off its rows becomes releases under way, one for one.
LEMMA TakeCount ==
  ASSUME Local, IsFiniteSet(HeldRows), NEW S \in SUBSET Run, TakeHeld(S)
  PROVE  Cardinality(HeldRows') + refunds' = Cardinality(HeldRows) + refunds
<1>1. {r \in S : held[r]} = HeldRows \cap S
  BY DEF HeldRows
<1>2. HeldRows' = HeldRows \ S
  BY DEF HeldRows, TakeHeld, Assign, Local, WorkTypeOK
<1>3. Cardinality(HeldRows \ S) = Cardinality(HeldRows) - Cardinality(HeldRows \cap S)
  BY FS_Difference
<1>4. IsFiniteSet(HeldRows \cap S) /\ Cardinality(HeldRows \cap S) \in Nat
  BY FS_Intersection, FS_CardinalityType
<1>5. refunds' = refunds + Cardinality(HeldRows \cap S)
  BY <1>1 DEF TakeHeld
<1> QED BY <1>2, <1>3, <1>4, <1>5, Counts

\* From outside: the queue's quiet steps, and releases that reach the ledger.
LEMMA OutsideBalance ==
  ASSUME IInv, Local, IsFiniteSet(HeldRows), Tracking, Tracked', ledger >= Owed,
         upset' = {} => Clean, Outside
  PROVE  Balanced
<1>1. CASE Refund
  <2>1. Still /\ refunds > 0 /\ refunds' = refunds - 1 /\ Debit(1)
    BY <1>1 DEF Refund, Still, Undisturbed, queueVars
  <2>2. UNCHANGED <<Carriers, HeldRows>>
    BY <2>1, QuietCarry DEF Still
  <2> QED BY <2>1, <2>2, Counts DEF Balanced, Owed, Debit
<1>2. CASE LoseRefund
  <2>1. Still /\ refunds > 0 /\ refunds' = refunds - 1 /\ ledger' = ledger /\ upset' # {}
    BY <1>2 DEF LoseRefund, Still, Undisturbed, queueVars, Fault
  <2>2. UNCHANGED <<Carriers, HeldRows>>
    BY <2>1, QuietCarry DEF Still
  <2> QED BY <2>1, <2>2, Counts DEF Balanced, Owed
<1>3. ASSUME NEW S \in SUBSET Run, TakeHeld(S), UNCHANGED <<pc, job, mine, ledger>>,
             \A f \in Slot : pc[f] \in {"threw", "giveback"} /\ StillHolds(f)' => StillHolds(f) /\ job[f] \notin S,
             upset' = {} => \A f \in Slot : pc[f] \in {"threw", "giveback"} /\ StillHolds(f) /\ mine[f] => held[job[f]]
      PROVE  Balanced
  <2>1. \A r \in Run \ S : held'[r] = held[r]
    BY <1>3 DEF TakeHeld, Assign, Local, WorkTypeOK
  <2>2. \A f \in Slot : Busy(f) => job[f] \in Run
    BY DEF Local, OwnRunAndUnit
  <2>3. Carriers' \subseteq Carriers
    BY <1>3, <2>1, <2>2 DEF Carriers, Carries, Busy
  <2>4. upset' = {} => Carriers \subseteq Carriers'
    BY <1>3 DEF Carriers, Carries
  <2>5. Cardinality(Carriers') <= Cardinality(Carriers) /\ Cardinality(Carriers') \in Nat
    BY <2>3, Counts, FS_Subset, FS_CardinalityType
  <2>6. IsFiniteSet(HeldRows') /\ Cardinality(HeldRows') \in Nat
    <3>1. HeldRows' \subseteq HeldRows
      BY <1>3 DEF TakeHeld, Assign, HeldRows, Local, WorkTypeOK
    <3> QED BY <3>1, FS_Subset, FS_CardinalityType
  <2>7. Cardinality(HeldRows') + refunds' = Cardinality(HeldRows) + refunds
    BY <1>3, TakeCount
  <2>8. refunds' \in Nat
    BY OutsideCounts DEF Local
  <2>9. upset' = {} => Cardinality(Carriers') = Cardinality(Carriers)
    BY <2>3, <2>4
  <2> QED BY <1>3, <2>5, <2>6, <2>7, <2>8, <2>9, Counts DEF Balanced, Owed
<1>4. upset' = {} => \A f \in Slot : pc[f] \in {"threw", "giveback"} /\ StillHolds(f) /\ mine[f] => held[job[f]]
  BY DEF Clean, UnitStays
<1>5. ASSUME NEW S \in SUBSET Run, Cancels(S) PROVE Balanced
  <2>1. UNCHANGED <<pc, job, mine, ledger>> /\ TakeHeld(S)
    BY <1>5 DEF Cancels
  <2>2. ASSUME NEW f \in Slot, pc[f] \in {"threw", "giveback"}, StillHolds(f)'
        PROVE  StillHolds(f) /\ job[f] \notin S
    <3>1. job[f] \in Run
      BY <2>2 DEF Local, OwnRunAndUnit, Busy
    <3> QED BY <1>5, <2>1, <2>2, <3>1, CancelStep DEF StillHolds, Holds
  <2> QED BY <1>3, <1>4, <2>1, <2>2
<1>6. CASE TickReap
  <2>1. UNCHANGED <<pc, job, mine, ledger>> /\ TakeHeld(Expired) /\ Expired \in SUBSET Run
    BY <1>6 DEF TickReap, Expired
  <2>2. ASSUME NEW f \in Slot, pc[f] \in {"threw", "giveback"}, StillHolds(f)'
        PROVE  StillHolds(f) /\ job[f] \notin Expired
    <3>1. job[f] \in Run \ Expired
      BY <1>6, <2>2, ReapRows DEF Local, OwnRunAndUnit, Busy
    <3> QED BY <1>6, <2>1, <2>2, <3>1, ReapRows DEF StillHolds, Holds
  <2> QED BY <1>3, <1>4, <2>1, <2>2
<1>7. CASE Quiet
  <2>1. UNCHANGED <<Carriers, HeldRows>>
    BY <1>7, QuietCarry DEF Quiet, Still
  <2> QED BY <1>7, <2>1, SameCount DEF Quiet
<1> QED BY <1>1, <1>2, <1>5, <1>6, <1>7, OutsideRows DEF Local

-----------------------------------------------------------------------------
\* The units an executor's step can move: the executor's own and its row's.
One(b) == IF b THEN 1 ELSE 0
Weight(e, r) == One(Carries(e)) + One(held[r])

\* A set in which at most one member comes or goes.
LEMMA OneMember ==
  ASSUME NEW S, NEW T, NEW x, IsFiniteSet(S), S \ {x} = T \ {x}
  PROVE  /\ IsFiniteSet(T) /\ Cardinality(S) \in Nat /\ Cardinality(T) \in Nat
         /\ Cardinality(T) + One(x \in S) = Cardinality(S) + One(x \in T)
<1> DEFINE n == Cardinality(S \ {x})
<1>1. IsFiniteSet(S \ {x}) /\ n \in Nat /\ n = Cardinality(T \ {x})
  BY FS_RemoveElement, FS_CardinalityType
<1>2. Cardinality(S) = n + One(x \in S) /\ Cardinality(S) \in Nat
  <2>1. Cardinality(S) \in Nat
    BY FS_CardinalityType
  <2>2. n = IF x \in S THEN Cardinality(S) - 1 ELSE Cardinality(S)
    BY FS_RemoveElement
  <2> HIDE DEF n
  <2> QED BY <2>1, <2>2 DEF One
<1>3. IsFiniteSet(T) /\ Cardinality(T) = n + One(x \in T) /\ Cardinality(T) \in Nat
  <2>1. CASE x \in T
    <3>1. T = (T \ {x}) \cup {x}
      BY <2>1
    <3>2. IsFiniteSet(T) /\ Cardinality(T) = Cardinality(T \ {x}) + 1
      BY <1>1, <3>1, FS_AddElement
    <3> QED BY <1>1, <2>1, <3>2 DEF One
  <2>2. CASE x \notin T
    BY <1>1, <2>2, T \ {x} = T DEF One
  <2> QED BY <2>1, <2>2
<1>4. One(x \in S) \in Nat /\ One(x \in T) \in Nat
  BY DEF One
<1> HIDE DEF n
<1> QED BY <1>1, <1>2, <1>3, <1>4

\* What is owed changes by what the one executor and its row carry.
LEMMA OwedMoves ==
  ASSUME Local, IsFiniteSet(HeldRows), refunds' = refunds, NEW e \in Slot, NEW r \in Run,
         Carriers' \ {e} = Carriers \ {e}, \A q \in Run \ {r} : held'[q] = held[q]
  PROVE  /\ Owed \in Nat /\ Owed' \in Nat /\ ledger \in Nat
         /\ Owed' + Weight(e, r) = Owed + Weight(e, r)'
<1>1. HeldRows' \ {r} = HeldRows \ {r}
  BY DEF HeldRows
<1>2. IsFiniteSet(Carriers) /\ refunds \in Nat
  BY Counts
<1>3. Cardinality(Carriers') + One(e \in Carriers) = Cardinality(Carriers) + One(e \in Carriers')
      /\ Cardinality(Carriers) \in Nat /\ Cardinality(Carriers') \in Nat
  BY <1>2, OneMember
<1>4. Cardinality(HeldRows') + One(r \in HeldRows) = Cardinality(HeldRows) + One(r \in HeldRows')
      /\ Cardinality(HeldRows) \in Nat /\ Cardinality(HeldRows') \in Nat
  BY <1>1, OneMember
<1>5. (e \in Carriers <=> Carries(e)) /\ (e \in Carriers' <=> Carries(e)')
  BY DEF Carriers
<1>6. (r \in HeldRows <=> held[r]) /\ (r \in HeldRows' <=> held'[r])
  BY DEF HeldRows
<1>7. /\ One(Carries(e)) = One(e \in Carriers) /\ One(held[r]) = One(r \in HeldRows)
      /\ One(Carries(e))' = One(e \in Carriers') /\ One(held[r])' = One(r \in HeldRows')
  BY <1>5, <1>6 DEF One
<1> QED BY <1>2, <1>3, <1>4, <1>7, Counts DEF Owed, Weight, One

\* So the balance is a matter of the ledger and of the two.
LEMMA WeighedStep ==
  ASSUME Local, IsFiniteSet(HeldRows), refunds' = refunds, NEW e \in Slot, NEW r \in Run,
         Carriers' \ {e} = Carriers \ {e}, \A q \in Run \ {r} : held'[q] = held[q],
         ledger' \in Nat,
         ledger' + Weight(e, r) >= ledger + Weight(e, r)',
         upset' = {} => ledger' + Weight(e, r) = ledger + Weight(e, r)'
  PROVE  Balanced
<1>1. Weight(e, r) \in Nat /\ Weight(e, r)' \in Nat
  BY DEF Weight, One
<1> QED BY <1>1, OwedMoves DEF Balanced

\* A step that disturbs no row leaves the other executors their units.
LEMMA OthersKeep ==
  ASSUME Local, Undisturbed, held' = held, NEW e \in Slot,
         \A f \in Slot \ {e} : pc'[f] = pc[f] /\ job'[f] = job[f] /\ mine'[f] = mine[f]
  PROVE  Carriers' \ {e} = Carriers \ {e}
<1>1. ASSUME NEW f \in Slot \ {e} PROVE Carries(f)' <=> Carries(f)
  <2>1. CASE pc[f] \in {"threw", "giveback"}
    <3>1. job[f] \in Run
      BY <2>1 DEF Local, OwnRunAndUnit, Busy
    <3> QED BY <2>1, <3>1 DEF Carries, StillHolds, Holds, Undisturbed
  <2>2. CASE pc[f] \notin {"threw", "giveback"}
    BY <2>2 DEF Carries
  <2> QED BY <2>1, <2>2
<1> QED BY <1>1 DEF Carriers

\* An executor's step moves its unit between the ledger, itself and its row.
LEMMA InsideBalance ==
  ASSUME IInv, Local, Local', IsFiniteSet(HeldRows), Tracking, ledger >= Owed,
         upset' = {} => Clean, Inside
  PROVE  Balanced
<1> DEFINE Alone(e) == \A f \in Slot \ {e} : pc'[f] = pc[f] /\ job'[f] = job[f] /\ mine'[f] = mine[f]
<1>0. /\ \A e \in Slot : Busy(e) => job[e] \in Run
      /\ ledger \in Nat /\ ledger' \in Nat
  BY DEF Local, OwnRunAndUnit, WorkTypeOK
<1>a. ASSUME NEW e \in Slot, Done(e) PROVE Alone(e) /\ pc'[e] = "idle" /\ ~Carries(e)'
  <2>1. Alone(e) /\ pc'[e] = "idle"
    BY <1>a DEF Done, Local, WorkTypeOK
  <2> QED BY <2>1 DEF Carries
<1>b. ASSUME NEW e \in Slot, NEW s, Goto(e, s), UNCHANGED <<job, mine>>
      PROVE  Alone(e) /\ pc'[e] = s /\ job'[e] = job[e] /\ mine'[e] = mine[e]
  BY <1>b DEF Goto, Local, WorkTypeOK
\* A reservation on a row is an executor's, which is alone with the row.
<1>c. ASSUME NEW e \in Slot, Engaged(e), upset' = {}, held[job[e]]
      PROVE  mine[e] /\ pc[e] \in {"work", "return", "finish", "threw", "giveback"}
  <2>1. job[e] \in Run
    BY <1>0, <1>c DEF Engaged, Busy
  <2>2. PICK f \in Slot : /\ job[f] = job[e] /\ mine[f]
                          /\ pc[f] \in {"work", "return", "finish", "threw", "giveback"}
    BY <1>c, <2>1 DEF Clean, HeldByExecutor
  <2>3. f = e
    BY <1>c, <2>2 DEF Engaged, Tracking, OneExecutor
  <2> QED BY <2>2, <2>3
\* The balance of a step that leaves rows and claims, or writes off the executor's.
<1>d. ASSUME NEW e \in Slot, Engaged(e) \/ Busy(e), Undisturbed, held' = held, Alone(e), refunds' = refunds,
             ledger' + One(Carries(e)) >= ledger + One(Carries(e))',
             upset' = {} => ledger' + One(Carries(e)) = ledger + One(Carries(e))'
      PROVE  Balanced
  <2>1. job[e] \in Run
    BY <1>0, <1>d DEF Engaged, Busy
  <2>2. Carriers' \ {e} = Carriers \ {e}
    BY <1>d, OthersKeep
  <2>3. /\ One(Carries(e)) \in Nat /\ One(Carries(e))' \in Nat /\ One(held[job[e]]) \in Nat
        /\ Weight(e, job[e]) = One(Carries(e)) + One(held[job[e]])
    BY DEF Weight, One
  <2>4. /\ ledger' + Weight(e, job[e]) >= ledger + (One(Carries(e))' + One(held[job[e]]))
        /\ upset' = {} => ledger' + Weight(e, job[e]) = ledger + (One(Carries(e))' + One(held[job[e]]))
    BY <1>0, <1>d, <2>3
  <2>5. \A r \in Run : Weight(e, r)' = One(Carries(e))' + One(held[r])
    BY <1>d DEF Weight
  <2> QED BY <1>0, <1>d, <2>1, <2>2, <2>3, <2>4, <2>5, WeighedStep
<1>e. ASSUME NEW e \in Slot, Engaged(e), Alone(e), refunds' = refunds, ledger' = ledger,
             NEW b \in BOOLEAN, held' = [held EXCEPT ![job[e]] = b],
             \A r \in Run \ {job[e]} : /\ status'[r] = "running" <=> status[r] = "running"
                                       /\ status[r] = "running" => owner'[r] = owner[r],
             One(Carries(e)) + One(held[job[e]]) >= One(Carries(e))' + One(b),
             upset' = {} => One(Carries(e)) + One(held[job[e]]) = One(Carries(e))' + One(b)
      PROVE  Balanced
  <2>1. job[e] \in Run
    BY <1>0, <1>e DEF Engaged, Busy
  <2>2. held'[job[e]] = b /\ \A r \in Run \ {job[e]} : held'[r] = held[r]
    BY <1>e, <2>1 DEF Local, WorkTypeOK
  <2>3. Carriers' \ {e} = Carriers \ {e}
    BY <1>e, <2>2, OthersCarry
  <2>4. \A r \in Run : Weight(e, r)' = One(Carries(e))' + One(held'[r])
    BY DEF Weight
  <2>5. ledger' + Weight(e, job[e]) >= ledger + (One(Carries(e))' + One(b))
    BY <1>0, <1>e DEF Weight, One
  <2>6. upset' = {} => ledger' + Weight(e, job[e]) = ledger + (One(Carries(e))' + One(b))
    BY <1>0, <1>e DEF Weight, One
  <2> QED BY <1>0, <1>e, <2>1, <2>2, <2>3, <2>4, <2>5, <2>6, WeighedStep
\* The plain moves of an executor whose unit is on the row, or stays where it is.
<1>f. ASSUME NEW e \in Slot, NEW s, Undisturbed, UNCHANGED <<held, job, mine, ledger, refunds>>,
             Goto(e, s),
             \/ pc[e] \in {"work", "return"} /\ s \in {"return", "finish", "threw", "giveback"}
             \/ pc[e] = "finish" /\ s = "giveback"
             \/ pc[e] = "threw" /\ s = "giveback"
      PROVE  Balanced
  <2>1. job[e] \in Run /\ Engaged(e)
    BY <1>0, <1>f DEF Engaged, Busy
  <2>2. Alone(e) /\ pc'[e] = s
    BY <1>b, <1>f
  <2>3. StillHolds(e)' <=> StillHolds(e)
    BY <1>f, <2>1 DEF StillHolds, Holds, Undisturbed
  <2>4. Carries(e)' <=> Carries(e)
    BY <1>f, <2>1, <2>2, <2>3 DEF Carries, Tracking, UnitOnRow
  <2>5. One(Carries(e))' = One(Carries(e)) /\ One(Carries(e)) \in Nat
    BY <2>4 DEF One
  <2> QED BY <1>0, <1>d, <1>f, <2>1, <2>2, <2>5
<1>1. ASSUME NEW e \in Slot, NEW r \in Run, TickTake(e, r) PROVE Balanced
  <2>1. /\ pc[e] = "idle" /\ status[r] = "queued"
        /\ status'[r] = "running" /\ owner'[r] = OwnerOf[e]
        /\ \A q \in Run \ {r} : status'[q] = status[q] /\ owner'[q] = owner[q]
        /\ pc' = [pc EXCEPT ![e] = "prepare"] /\ job' = [job EXCEPT ![e] = r]
        /\ UNCHANGED <<mine, held>>
    BY <1>1, TakeRow
  <2>2. \A f \in Slot \ {e} : pc'[f] = pc[f] /\ job'[f] = job[f]
    BY <2>1 DEF Local, WorkTypeOK
  <2>3. pc'[e] = "prepare"
    BY <2>1 DEF Local, WorkTypeOK
  <2>4. \A f \in Slot : pc[f] \in {"threw", "giveback"} => job[f] \in Run \ {r}
    BY <1>0, <2>1 DEF Busy, Terminal, Engaged, Tracking, HoldsOrEnded, StillHolds, Holds
  <2>5. ASSUME NEW f \in Slot PROVE Carries(f)' <=> Carries(f)
    BY <2>1, <2>2, <2>3, <2>4 DEF Carries, StillHolds, Holds
  <2>6. UNCHANGED <<Carriers, HeldRows, refunds, ledger>>
    BY <1>1, <2>1, <2>5 DEF Carriers, HeldRows, TickTake
  <2> QED BY <2>6, SameCount
<1>2. ASSUME NEW e \in Slot, Reserve(e) \/ ReserveThrows(e) PROVE Balanced
  <2>1. /\ Undisturbed /\ pc[e] = "prepare" /\ ~mine[e] /\ ~Carries(e)
        /\ UNCHANGED <<held, job, refunds>>
    BY <1>2, QuietStep DEF Reserve, ReserveThrows, Local, OwnRunAndUnit, Carries
  <2>2. CASE Goto(e, "mark") /\ mine' = [mine EXCEPT ![e] = TRUE] /\ ledger' = ledger + 1
    <3>1. Alone(e) /\ pc'[e] = "mark" /\ mine'[e]
      BY <2>1, <2>2 DEF Goto, Local, WorkTypeOK
    <3>2. Carries(e)'
      BY <3>1 DEF Carries
    <3>3. One(Carries(e)) = 0 /\ One(Carries(e))' = 1
      BY <2>1, <3>2 DEF One
    <3>4. /\ ledger' + One(Carries(e)) >= ledger + One(Carries(e))'
          /\ ledger' + One(Carries(e)) = ledger + One(Carries(e))'
      BY <1>0, <2>2, <3>3
    <3> QED BY <1>d, <2>1, <3>1, <3>4 DEF Engaged
  <2>3. ASSUME NEW s \in {"over", "threw"}, Goto(e, s), mine' = mine,
               ledger' = ledger \/ (ledger' = ledger + 1 /\ upset' # {})
        PROVE  Balanced
    <3>1. Alone(e) /\ ~mine'[e]
      BY <1>b, <2>1, <2>3
    <3>2. One(Carries(e)) = 0 /\ One(Carries(e))' = 0
      BY <2>1, <3>1 DEF One, Carries
    <3> QED BY <1>0, <1>d, <2>1, <2>3, <3>1, <3>2 DEF Busy
  <2>4. CASE Reserve(e)
    BY <2>2, <2>3, <2>4 DEF Reserve, Goto
  <2>5. CASE ReserveThrows(e)
    BY <2>3, <2>5 DEF ReserveThrows, Fault
  <2> QED BY <1>2, <2>4, <2>5
<1>3. ASSUME NEW e \in Slot, Mark(e) PROVE Balanced
  <2>1. /\ pc[e] = "mark" /\ Goto(e, "work") /\ UNCHANGED <<job, mine, ledger, refunds>>
        /\ held' = [held EXCEPT ![job[e]] = TRUE] /\ Undisturbed
    BY <1>3, QuietStep DEF Mark
  <2>2. Alone(e) /\ pc'[e] = "work" /\ Engaged(e) /\ mine[e] /\ job[e] \in Run
    BY <1>b, <1>0, <2>1 DEF Engaged, Busy, Local, OwnRunAndUnit
  <2>3. Carries(e) /\ ~Carries(e)'
    BY <2>1, <2>2 DEF Carries
  <2>4. One(Carries(e)) = 1 /\ One(Carries(e))' = 0 /\ One(TRUE) = 1
    BY <2>3 DEF One
  <2>5. One(held[job[e]]) \in Nat /\ (upset' = {} => One(held[job[e]]) = 0)
    BY <1>c, <2>1, <2>2 DEF One
  <2>6. /\ One(Carries(e)) + One(held[job[e]]) >= One(Carries(e))' + One(TRUE)
        /\ upset' = {} => One(Carries(e)) + One(held[job[e]]) = One(Carries(e))' + One(TRUE)
    BY <2>3, <2>4, <2>5 DEF One
  <2>7. \A r \in Run : /\ status'[r] = "running" <=> status[r] = "running"
                       /\ status[r] = "running" => owner'[r] = owner[r]
    BY <2>1 DEF Undisturbed
  <2> QED BY <1>e, <2>1, <2>2, <2>6, <2>7
<1>4. ASSUME NEW e \in Slot, StoreExternal(e) \/ Beat(e) \/ BeatThrows(e) PROVE Balanced
  <2>1. UNCHANGED <<pc, job, mine, held, ledger, refunds>>
    BY <1>4 DEF StoreExternal, Beat, BeatThrows, workVars
  <2> QED BY <1>4, <2>1, QuietStep, QuietCarry, SameCount
<1>5. ASSUME NEW e \in Slot, Dispatch(e) \/ CheckAlive(e) PROVE Balanced
  <2>1. UNCHANGED <<job, mine, held, ledger, refunds>> /\ pc[e] \in {"work", "return"}
    BY <1>5 DEF Dispatch, CheckAlive
  <2>2. \E s \in {"return", "finish", "threw", "giveback"} : Goto(e, s)
    BY <1>5 DEF Dispatch, CheckAlive
  <2> QED BY <1>5, <1>f, <2>1, <2>2, QuietStep
<1>6. ASSUME NEW e \in Slot, Settle(e) \/ Release(e) \/ RefundOwn(e) PROVE Balanced
  <2>1. /\ pc[e] \in {"settle", "release", "refund"} /\ mine[e] /\ Done(e) /\ Debit(1)
        /\ UNCHANGED <<held, refunds>> /\ Undisturbed
    BY <1>6, QuietStep DEF Settle, Release, RefundOwn, Local, OwnRunAndUnit
  <2>2. Carries(e) /\ ~Carries(e)' /\ Alone(e)
    BY <1>a, <2>1 DEF Carries
  <2>3. Cardinality(Carriers) # 0
    BY <2>2, Counts, FS_EmptySet DEF Carriers
  <2>4. ledger > 0
    <3> Cardinality(Carriers) \in Nat /\ Cardinality(HeldRows) \in Nat /\ refunds \in Nat /\ ledger \in Nat
      BY Counts
    <3> QED BY <2>3 DEF Owed
  <2>5. ledger' = ledger - 1
    BY <1>0, <2>1, <2>4 DEF Debit
  <2>6. One(Carries(e)) = 1 /\ One(Carries(e))' = 0
    BY <2>2 DEF One
  <2>7. /\ ledger' + One(Carries(e)) >= ledger + One(Carries(e))'
        /\ ledger' + One(Carries(e)) = ledger + One(Carries(e))'
    BY <1>0, <2>5, <2>6
  <2> QED BY <1>d, <2>1, <2>2, <2>7 DEF Busy
<1>7. ASSUME NEW e \in Slot, OverBudget(e) \/ Finish(e) \/ Catch(e) PROVE Balanced
  <2>0. UNCHANGED <<ledger, refunds>>
    BY <1>7 DEF OverBudget, Finish, Catch
  <2>1. UNCHANGED queueVars => Undisturbed
    BY DEF queueVars, Undisturbed
  <2>2. ASSUME UNCHANGED queueVars, held' = held, pc[e] \in {"finish", "threw"}, Moves(e, "giveback")
        PROVE  Balanced
    BY <1>f, <2>0, <2>1, <2>2 DEF Moves
  <2>3. ASSUME UNCHANGED queueVars, held' = held, pc[e] \in {"over", "threw"}, ~StillHolds(e), Done(e)
        PROVE  Balanced
    <3>1. ~Carries(e) /\ ~Carries(e)' /\ Alone(e)
      BY <1>a, <2>3 DEF Carries
    <3>2. One(Carries(e)) = 0 /\ One(Carries(e))' = 0
      BY <3>1 DEF One
    <3> QED BY <1>0, <1>d, <2>0, <2>1, <2>3, <3>1, <3>2 DEF Busy
  <2>4. ASSUME GivesUpRow(e), pc[e] = "finish", Moves(e, "settle") PROVE Balanced
    <3>1. Alone(e) /\ pc'[e] = "settle" /\ mine'[e] /\ mine[e] /\ Engaged(e)
      BY <1>b, <2>4 DEF Moves, Local, OwnRunAndUnit, Engaged
    <3>2. ~Carries(e) /\ Carries(e)' /\ held[job[e]]
      BY <2>4, <3>1 DEF Carries, GivesUpRow, Tracking, UnitOnRow
    <3>3. One(Carries(e)) = 0 /\ One(Carries(e))' = 1 /\ One(held[job[e]]) = 1 /\ One(FALSE) = 0
      BY <3>2 DEF One
    <3>4. \A r \in Run \ {job[e]} : /\ status'[r] = "running" <=> status[r] = "running"
                                    /\ status[r] = "running" => owner'[r] = owner[r]
      BY <2>4 DEF GivesUpRow
    <3>5. /\ One(Carries(e)) + One(held[job[e]]) >= One(Carries(e))' + One(FALSE)
          /\ upset' = {} => One(Carries(e)) + One(held[job[e]]) = One(Carries(e))' + One(FALSE)
      BY <3>2 DEF One
    <3> QED BY <1>e, <2>0, <2>4, <3>1, <3>4, <3>5 DEF GivesUpRow
  <2>5. ASSUME GivesUpRow(e), pc[e] \in {"over", "threw"}, Done(e), ~mine[e] PROVE Balanced
    <3>1. Alone(e) /\ Engaged(e) /\ ~Carries(e) /\ ~Carries(e)'
      BY <1>a, <2>5 DEF Engaged, Carries
    <3>2. One(Carries(e)) = 0 /\ One(Carries(e))' = 0 /\ One(FALSE) = 0
      BY <3>1 DEF One
    <3>3. One(held[job[e]]) \in Nat /\ (upset' = {} => One(held[job[e]]) = 0)
      BY <1>c, <2>5, <3>1 DEF One
    <3>4. \A r \in Run \ {job[e]} : /\ status'[r] = "running" <=> status[r] = "running"
                                    /\ status[r] = "running" => owner'[r] = owner[r]
      BY <2>5 DEF GivesUpRow
    <3>5. /\ One(Carries(e)) + One(held[job[e]]) >= One(Carries(e))' + One(FALSE)
          /\ upset' = {} => One(Carries(e)) + One(held[job[e]]) = One(Carries(e))' + One(FALSE)
      BY <3>1, <3>3 DEF One
    <3> QED BY <1>e, <2>0, <2>5, <3>1, <3>4, <3>5 DEF GivesUpRow
  <2>6. ASSUME GivesUpRow(e), pc[e] = "threw", mine[e], Moves(e, "release") PROVE Balanced
    <3>1. Alone(e) /\ pc'[e] = "release" /\ mine'[e] /\ Engaged(e)
      BY <1>b, <2>6 DEF Moves, Engaged
    <3>2. (Carries(e) <=> ~held[job[e]]) /\ Carries(e)'
      BY <2>6, <3>1 DEF Carries, GivesUpRow
    <3>3. One(Carries(e)) + One(held[job[e]]) = 1 /\ One(Carries(e))' = 1 /\ One(FALSE) = 0
      BY <3>2 DEF One
    <3>4. \A r \in Run \ {job[e]} : /\ status'[r] = "running" <=> status[r] = "running"
                                    /\ status[r] = "running" => owner'[r] = owner[r]
      BY <2>6 DEF GivesUpRow
    <3>5. /\ One(Carries(e)) + One(held[job[e]]) >= One(Carries(e))' + One(FALSE)
          /\ upset' = {} => One(Carries(e)) + One(held[job[e]]) = One(Carries(e))' + One(FALSE)
      BY <3>2 DEF One
    <3> QED BY <1>e, <2>0, <2>6, <3>1, <3>4, <3>5 DEF GivesUpRow
  <2> QED BY <1>7, <2>2, <2>3, <2>4, <2>5, <2>6, EndingStep
<1>8. ASSUME NEW e \in Slot, GiveBack(e) PROVE Balanced
  <2>0. pc[e] = "giveback" /\ Engaged(e) /\ Undisturbed /\ UNCHANGED <<ledger, refunds>>
    BY <1>8, QuietStep DEF GiveBack, Engaged
  <2>1. CASE mine[e] /\ held[job[e]]
    <3>1. held' = [held EXCEPT ![job[e]] = FALSE] /\ Goto(e, "refund") /\ UNCHANGED <<job, mine>>
      BY <1>8, <2>1 DEF GiveBack
    <3>2. Alone(e) /\ pc'[e] = "refund" /\ mine'[e]
      BY <1>b, <2>1, <3>1
    <3>3. ~Carries(e) /\ Carries(e)'
      BY <2>0, <2>1, <3>2 DEF Carries
    <3>4. One(Carries(e)) = 0 /\ One(Carries(e))' = 1 /\ One(held[job[e]]) = 1 /\ One(FALSE) = 0
      BY <2>1, <3>3 DEF One
    <3>5. \A r \in Run \ {job[e]} : /\ status'[r] = "running" <=> status[r] = "running"
                                    /\ status[r] = "running" => owner'[r] = owner[r]
      BY <2>0 DEF Undisturbed
    <3>6. /\ One(Carries(e)) + One(held[job[e]]) >= One(Carries(e))' + One(FALSE)
          /\ upset' = {} => One(Carries(e)) + One(held[job[e]]) = One(Carries(e))' + One(FALSE)
      BY <2>1, <3>3 DEF One
    <3> QED BY <1>e, <2>0, <3>1, <3>2, <3>5, <3>6
  <2>2. CASE ~(mine[e] /\ held[job[e]])
    <3>1. Done(e) /\ held' = held
      BY <1>8, <2>2 DEF GiveBack, Done
    <3>2. Alone(e) /\ ~Carries(e)' /\ (upset' = {} => ~Carries(e))
      BY <1>a, <2>0, <2>2, <3>1 DEF Carries, Clean, UnitStays
    <3>3. /\ One(Carries(e)) \in Nat /\ One(Carries(e))' = 0
          /\ upset' = {} => One(Carries(e)) = 0
      BY <3>2 DEF One
    <3> QED BY <1>0, <1>d, <2>0, <3>1, <3>2, <3>3
  <2> QED BY <2>1, <2>2
<1>9. ASSUME NEW e \in Slot, Throws(e) PROVE Balanced
  <2>1. /\ pc[e] \in {"mark", "settle"} /\ upset' # {} /\ Goto(e, "threw") /\ Undisturbed
        /\ UNCHANGED <<job, mine, held, ledger, refunds>> /\ mine[e]
    BY <1>9, QuietStep DEF Throws, Fault, Local, OwnRunAndUnit
  <2>2. Alone(e) /\ Carries(e)
    BY <1>b, <2>1 DEF Carries
  <2>3. One(Carries(e)) = 1 /\ One(Carries(e))' \in {0, 1}
    BY <2>2 DEF One
  <2>4. ledger' + One(Carries(e)) >= ledger + One(Carries(e))'
    BY <1>0, <2>1, <2>3
  <2> QED BY <1>d, <2>1, <2>2, <2>4 DEF Busy
<1>10. ASSUME NEW w \in Worker, Crash(w) PROVE Balanced
  <2>1. /\ UNCHANGED <<status, owner, held, ledger, refunds>> /\ upset' # {}
        /\ \A f \in Slot : pc'[f] = "idle" \/ (pc'[f] = pc[f] /\ job'[f] = job[f] /\ mine'[f] = mine[f])
    BY <1>10 DEF Crash, Fault, Assign, Local, WorkTypeOK
  <2>2. Carriers' \subseteq Carriers
    BY <2>1 DEF Carriers, Carries, StillHolds, Holds
  <2>3. Cardinality(Carriers') <= Cardinality(Carriers) /\ Cardinality(Carriers') \in Nat
    BY <2>2, Counts, FS_Subset, FS_CardinalityType
  <2>4. HeldRows' = HeldRows
    BY <2>1 DEF HeldRows
  <2> QED BY <2>1, <2>3, <2>4, Counts DEF Balanced, Owed
<1> QED BY <1>1, <1>2, <1>3, <1>4, <1>5, <1>6, <1>7, <1>8, <1>9, <1>10 DEF Inside, Executor

-----------------------------------------------------------------------------
\* Nothing that has gone wrong is forgotten.
LEMMA UpsetStays ==
  ASSUME WorkTypeOK, [WorkNext]_vars
  PROVE  upset \subseteq upset'
<1>1. CASE Outside
  BY <1>1, OutsideStep DEF Bookkept
<1>2. CASE Inside
  <2>1. Fault => upset \subseteq upset'
    BY DEF Fault
  <2>2. ASSUME NEW e \in Slot, NEW r \in Run, TickTake(e, r) PROVE upset' = upset
    BY <2>2 DEF TickTake
  <2>3. ASSUME NEW e \in Slot, ReserveThrows(e) \/ BeatThrows(e) \/ Throws(e) PROVE Fault
    BY <2>3 DEF ReserveThrows, BeatThrows, Throws
  <2>4. ASSUME NEW w \in Worker, Crash(w) PROVE Fault
    BY <2>4 DEF Crash
  <2>5. ASSUME NEW e \in Slot, Executor(e) \/ Beat(e) PROVE upset' = upset
    BY <2>5 DEF Executor, Reserve, OverBudget, Mark, StoreExternal, Dispatch, CheckAlive, Finish, Settle,
      Catch, Release, GiveBack, RefundOwn, Beat, workVars
  <2> HIDE DEF Fault
  <2> QED BY <1>2, <2>1, <2>2, <2>3, <2>4, <2>5 DEF Inside
<1>3. UNCHANGED vars => Outside
  BY DEF Outside
<1> QED BY <1>1, <1>2, <1>3, Sides

\* Nothing executes and nothing is reserved at the start.
LEMMA InitWInv == WorkInit => WInv
<1> SUFFICES ASSUME WorkInit PROVE WInv
  OBVIOUS
<1>1. IInv
  BY InitInv DEF WorkInit
<1>2. WorkTypeOK
  BY <1>1, RunWorkerAssumption DEF WorkInit, WorkTypeOK, IInv, Stage
<1>3. Carriers = {} /\ HeldRows = {}
  BY DEF WorkInit, Carriers, Carries, HeldRows
<1>4. Owed = 0
  BY <1>3, FS_EmptySet DEF Owed, WorkInit
<1>5. IsFiniteSet(HeldRows)
  BY <1>3, FS_EmptySet
<1>6. OwnRunAndUnit /\ SettlesAlone /\ ChargedOnce
  BY DEF WorkInit, OwnRunAndUnit, Busy, SettlesAlone, ChargedOnce
<1>7. Tracking
  BY DEF WorkInit, Tracking, HoldsOrEnded, OneExecutor, UnitOnRow, Engaged
<1>8. Clean
  BY DEF WorkInit, Clean, GapFree, UnitStays, HeldByExecutor
<1>9. ledger >= Owed /\ ledger = Owed
  BY <1>4 DEF WorkInit
<1> QED BY <1>1, <1>2, <1>5, <1>6, <1>7, <1>8, <1>9 DEF WInv, AlwaysInv, TrackedInv, CleanInv

\* What holds always, step by step.
LEMMA AlwaysStep ==
  ASSUME AlwaysInv, [WorkNext]_vars
  PROVE  AlwaysInv'
<1> USE DEF AlwaysInv
<1>1. IInv'
  BY QueueStep, TypeStep, HolderStepKeeps, PickedStep, OneRunningStep, AttemptsStep, OffStep DEF IInv
<1>2. SettlesAlone' /\ ChargedOnce'
  BY SettleStep DEF Local
<1>3. IsFiniteSet(HeldRows')
  BY HeldStep DEF Local
<1>4. TypeOK'
  BY <1>1 DEF IInv
<1>5. Local'
  <2>1. CASE Outside
    <3>1. UNCHANGED <<pc, job, mine, aborted, charged>> /\ held' \in [Run -> BOOLEAN] /\ Bookkept
      BY <2>1, OutsideStep
    <3>2. ledger' \in Nat /\ refunds' \in Nat
      BY <2>1, OutsideCounts
    <3>3. WorkTypeOK'
      BY <1>4, <3>1, <3>2 DEF WorkTypeOK, Bookkept
    <3>4. OwnRunAndUnit'
      BY <3>1 DEF OwnRunAndUnit, Busy
    <3> QED BY <3>3, <3>4 DEF Local
  <2>2. CASE Inside
    BY <1>4, <2>2, InsideStep DEF Local
  <2>3. UNCHANGED vars => Outside
    BY DEF Outside
  <2> QED BY <2>1, <2>2, <2>3, Sides
<1> QED BY <1>1, <1>2, <1>3, <1>5 DEF Local

\* The invariant of the worker: each of its layers stands as long as nothing has
\* happened that ends it, and what has happened is never forgotten.
THEOREM WorkerInvariance == WorkSpec => []WInv
<1>1. ASSUME WInv, [WorkNext]_vars PROVE WInv'
  <2> USE DEF WInv
  <2>1. AlwaysInv'
    BY <1>1, AlwaysStep
  <2>2. IInv /\ Local /\ Local' /\ IsFiniteSet(HeldRows)
    BY <1>1, <2>1 DEF AlwaysInv, Local
  <2>3. upset \subseteq upset'
    BY <1>1, UpsetStays DEF AlwaysInv
  <2>4. Tracked' => Tracking /\ ledger >= Owed
    BY <1>1, <2>3 DEF TrackedInv, Tracked
  <2>5. upset' = {} => Clean /\ ledger = Owed /\ Tracked'
    BY <1>1, <2>3 DEF CleanInv, Tracked
  <2>6. ASSUME Tracked' PROVE Balanced
    <3>1. CASE Outside
      BY <2>2, <2>4, <2>5, <2>6, <3>1, OutsideBalance
    <3>2. CASE Inside
      BY <2>2, <2>4, <2>5, <2>6, <3>2, InsideBalance
    <3>3. UNCHANGED vars => Outside
      BY DEF Outside
    <3> QED BY <1>1, <3>1, <3>2, <3>3, Sides
  <2>7. Owed \in Nat /\ Owed' \in Nat /\ ledger \in Nat /\ ledger' \in Nat
    <3>1. Cardinality(Carriers') \in Nat /\ Cardinality(HeldRows') \in Nat
      <4>1. IsFiniteSet(Carriers') /\ IsFiniteSet(HeldRows')
        BY <2>1, RunWorkerAssumption, FS_Subset DEF Carriers, AlwaysInv
      <4> QED BY <4>1, FS_CardinalityType
    <3> QED BY <2>2, <3>1, Counts DEF Owed, Local, WorkTypeOK
  <2>8. TrackedInv'
    <3> SUFFICES ASSUME Tracked' PROVE Tracking' /\ ledger' >= Owed'
      BY DEF TrackedInv
    <3>1. Tracking'
      BY <1>1, <2>2, <2>4, TrackingStep
    <3>2. ledger' >= Owed'
      <4>1. ledger >= Owed /\ ledger' + Owed >= ledger + Owed'
        BY <2>4, <2>6 DEF Balanced
      <4>2. \A a, b, c, d \in Nat : a >= b /\ c + b >= a + d => c >= d
        OBVIOUS
      <4> QED BY <2>7, <4>1, <4>2
    <3> QED BY <3>1, <3>2
  <2>9. CleanInv'
    <3> SUFFICES ASSUME upset' = {} PROVE Clean' /\ ledger' = Owed'
      BY DEF CleanInv
    <3>1. Clean'
      BY <1>1, <2>2, <2>4, <2>5, CleanStep
    <3>2. ledger' = Owed'
      BY <2>5, <2>6, <2>7 DEF Balanced
    <3> QED BY <3>1, <3>2
  <2> QED BY <2>1, <2>8, <2>9
<1> QED BY InitWInv, <1>1, PTL DEF WorkSpec

\* The worker takes no step on the rows that the queue does not allow, so whatever is
\* proved of the queue holds of the rows the workers share, crashes included.
THEOREM WorkerKeepsQueue == WorkSpec => Spec
<1>1. WorkInit => Init
  BY DEF WorkInit
<1>2. WInv /\ [WorkNext]_vars => [Next]_queueVars
  BY QueueStep DEF WInv, AlwaysInv, IInv
<1> QED BY <1>1, <1>2, WorkerInvariance, PTL DEF WorkSpec, Spec

\* A run's usage is charged at most once and only if it succeeded, however many
\* executors the reaper has put on it.
THEOREM SettledOnce == WorkSpec => []ChargedOnce
<1>1. WInv => ChargedOnce
  BY DEF WInv, AlwaysInv
<1> QED BY <1>1, WorkerInvariance, PTL

\* Whoever has yet to settle carries its unit, or its row does, and no row does it for two.
THEOREM BudgetCovered == WorkSpec => []LedgerCovers
<1>1. ASSUME WInv PROVE LedgerCovers
  <2> SUFFICES ASSUME Tracked PROVE ledger >= Cardinality({e \in Slot : Unsettled(e)}) + refunds
    BY DEF LedgerCovers, Tracked
  <2> DEFINE U == {e \in Slot : Unsettled(e)}
             D == U \ Carriers
             f == [e \in D |-> job[e]]
  <2>1. Local /\ IsFiniteSet(HeldRows) /\ Tracking /\ ledger >= Owed
    BY <1>1 DEF WInv, AlwaysInv, TrackedInv, Local
  <2>2. ASSUME NEW e \in D PROVE Engaged(e) /\ job[e] \in HeldRows
    <3>1. mine[e] /\ StillHolds(e) /\ pc[e] \notin {"settle", "release", "refund"} /\ ~Carries(e)
      BY DEF Unsettled, Reserving, Carriers, Carries
    <3>2. pc[e] \in {"work", "return", "finish", "threw", "giveback"}
      BY <2>1, <3>1 DEF Carries, Local, OwnRunAndUnit, WorkTypeOK, Stage
    <3>3. job[e] \in Run
      BY <2>1, <3>2 DEF Local, OwnRunAndUnit, Busy
    <3>4. held[job[e]]
      BY <2>1, <3>1, <3>2 DEF Carries, Tracking, UnitOnRow
    <3> QED BY <3>2, <3>3, <3>4 DEF Engaged, HeldRows
  <2>3. f \in Injection(D, HeldRows)
    <3>1. f \in [D -> HeldRows]
      BY <2>2
    <3>2. \A d, e \in D : f[d] = f[e] => d = e
      BY <2>1, <2>2 DEF Tracking, OneExecutor
    <3> QED BY <3>1, <3>2 DEF Injection, IsInjective
  <2>4. IsFiniteSet(U) /\ IsFiniteSet(D) /\ IsFiniteSet(U \cap Carriers)
    BY RunWorkerAssumption, FS_Subset
  <2>5. Cardinality(D) <= Cardinality(HeldRows)
    BY <2>1, <2>3, FS_Injection
  <2>6. Cardinality(U \cap Carriers) <= Cardinality(Carriers)
    BY <2>1, Counts, FS_Subset
  <2>7. Cardinality(D) = Cardinality(U) - Cardinality(U \cap Carriers)
    BY <2>4, FS_Difference
  <2>8. Cardinality(U) \in Nat /\ Cardinality(D) \in Nat /\ Cardinality(U \cap Carriers) \in Nat
    BY <2>4, FS_CardinalityType
  <2> HIDE DEF U, D
  <2>9. ledger >= Cardinality(U) + refunds
    BY <2>1, <2>5, <2>6, <2>7, <2>8, Counts DEF Owed
  <2> QED BY <2>9 DEF U
<1> QED BY <1>1, WorkerInvariance, PTL

\* While nothing is lost the ledger equals what is owed: it is empty when everybody
\* is idle, and every unit on a row has its executor.
THEOREM LedgerEmpties == WorkSpec => []NothingLeaks
<1>1. ASSUME WInv PROVE NothingLeaks
  <2> SUFFICES ASSUME upset = {} PROVE
         /\ (\A e \in Slot : ~Busy(e)) /\ refunds = 0 => ledger = 0
         /\ \A r \in Run : held[r] => \E e \in Slot : Executes(e, r) /\ mine[e]
    BY DEF NothingLeaks
  <2>1. Clean /\ ledger = Owed /\ Local
    BY <1>1 DEF WInv, CleanInv, AlwaysInv, Local
  <2>2. \A r \in Run : held[r] => \E e \in Slot : Executes(e, r) /\ mine[e]
    BY <2>1 DEF Clean, HeldByExecutor, Executes, Busy
  <2>3. ASSUME \A e \in Slot : ~Busy(e), refunds = 0 PROVE ledger = 0
    <3>1. Carriers = {} /\ HeldRows = {}
      BY <2>2, <2>3 DEF Carriers, Carries, HeldRows, Executes, Busy
    <3> QED BY <2>1, <2>3, <3>1, FS_EmptySet DEF Owed
  <2> QED BY <2>2, <2>3
<1> QED BY <1>1, WorkerInvariance, PTL
=============================================================================
