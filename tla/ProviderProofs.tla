--------------------------- MODULE ProviderProofs ---------------------------
(***************************************************************************)
(* Proofs about what the providers are asked: CloudSessions, for any       *)
(* number of executors, of attempts and of failures; ProviderCredentials,  *)
(* for every set of credentials, keys and callers, whoever their providers *)
(* are; ModelRouting, for every set of runs and of providers, whatever     *)
(* lists they offer on however many days.                                  *)
(***************************************************************************)
EXTENDS CloudSessions, ProviderCredentials, ModelRouting, TLAPS

-----------------------------------------------------------------------------
(***************************************************************************)
(* CloudSessions.                                                          *)
(***************************************************************************)
RowStatus == RowOpen \cup {"succeeded", "failed", "cancelled"}
AgentState == AgentOver \cup {"none", "running"}

RowState == [status : RowStatus, attempt : Nat, holder : Executor \cup {NoOne}, ids : BOOLEAN]
ExecState == [at : ExecAt, saw : AgentState \cup {"nothing"}, retry : BOOLEAN, aborted : BOOLEAN]

\* The parts of the type invariant that the agent and the row need.
CloudTyped ==
  /\ row \in RowState
  /\ agent \in AgentState
  /\ exec \in [Executor -> ExecState]
  /\ user \in {"idle", "ids", "none", "told"}
  /\ tellers \subseteq {"ticket", "switch"}
  /\ upset \subseteq {"gap", "lost", "cut", "threw", "reaped", "withdrawn", "parked"}

\* The provider has started an agent exactly if there is one.
CountsAgents == launched = IF agent = "none" THEN 0 ELSE 1

\* Past the start there is an agent, and what an executor saw of its end is so.
Sound(x) ==
  /\ x.at \in {"store", "follow", "poll", "usage", "finish", "report"} => agent # "none"
  /\ x.at \in {"usage", "finish", "report"} =>
       x.saw \in AgentOver \cup {"running"} /\ (x.saw \in AgentOver => agent \in AgentOver)
SeesWhatIs == \A e \in Executor : Sound(exec[e])

\* The ids are those of an agent; who goes by them has them.
IdsAreKnown ==
  /\ row.ids => agent # "none"
  /\ user = "ids" => row.ids
  /\ tellers # {} => row.ids
  /\ user = "told" /\ upset = {} => agent \in AgentOver

CloudInv == CloudTyped /\ CountsAgents /\ SeesWhatIs /\ IdsAreKnown /\ NothingRunsUnwatched

-----------------------------------------------------------------------------
\* The invariant holds at the start.
LEMMA CloudInvInit == CloudInit => CloudInv
BY CloudAssumption
   DEF CloudInit, CloudInv, CloudTyped, CountsAgents, SeesWhatIs, Sound, IdsAreKnown,
       NothingRunsUnwatched, Idle, ExecState, RowState, RowStatus, RowOpen, AgentState, AgentOver, ExecAt

\* A step of one executor alone: whatever becomes of it, if what it sees is so.
LEMMA ExecutorMoves ==
  ASSUME CloudInv, NEW e \in Executor, NEW x \in ExecState, Sound(x),
         exec' = [exec EXCEPT ![e] = x],
         UNCHANGED <<row, agent, launched, user, tellers, upset>>
  PROVE  CloudInv'
<1>1. CloudTyped'
  BY DEF CloudInv, CloudTyped
<1>2. SeesWhatIs'
  <2>1. \A d \in Executor : exec'[d] = IF d = e THEN x ELSE exec[d]
    BY DEF CloudInv, CloudTyped
  <2> QED BY <2>1 DEF CloudInv, SeesWhatIs, Sound
<1>3. CountsAgents' /\ IdsAreKnown' /\ NothingRunsUnwatched'
  BY DEF CloudInv, CountsAgents, IdsAreKnown, NothingRunsUnwatched
<1> QED BY <1>1, <1>2, <1>3 DEF CloudInv

\* Each step of a worker or of the watcher keeps it.
LEMMA CloudInvStep ==
  ASSUME CloudInv, [CloudNext]_cloudVars
  PROVE  CloudInv'
<1> USE CloudAssumption
<1>t. /\ CloudTyped /\ row \in RowState /\ agent \in AgentState /\ exec \in [Executor -> ExecState]
      /\ \A e \in Executor : exec[e] \in ExecState /\ Sound(exec[e])
  BY DEF CloudInv, CloudTyped, SeesWhatIs
<1>1. ASSUME NEW e \in Executor, ClaimCloud(e) PROVE CloudInv'
  <2> USE DEF ClaimCloud
  <2>1. CloudTyped'
    BY <1>t, <1>1 DEF CloudTyped, Idle, ExecState, RowState, RowStatus, RowOpen, AgentState, AgentOver, ExecAt
  <2>2. CountsAgents' /\ IdsAreKnown'
    BY <1>t, <1>1 DEF CloudInv, CountsAgents, IdsAreKnown, AgentState, AgentOver, RowState
  <2>3. SeesWhatIs'
    BY <1>t, <1>1 DEF SeesWhatIs, Sound, AgentState, AgentOver, ExecState
  <2>4. NothingRunsUnwatched'
    BY <1>t, <1>1 DEF CloudInv, NothingRunsUnwatched, CountsAgents, IdsAreKnown, Sound, AgentState, AgentOver, RowState, RowOpen, ExecState
  <2> QED BY <2>1, <2>2, <2>3, <2>4 DEF CloudInv
<1>2. ASSUME NEW e \in Executor, StartAgent(e) PROVE CloudInv'
  <2> USE DEF StartAgent, NewOrAdopted, Goes
  <2>1. CloudTyped'
    BY <1>t, <1>2 DEF CloudTyped, Idle, ExecState, RowState, RowStatus, RowOpen, AgentState, AgentOver, ExecAt
  <2>2. CountsAgents' /\ IdsAreKnown'
    BY <1>t, <1>2 DEF CloudInv, CountsAgents, IdsAreKnown, AgentState, AgentOver, RowState
  <2>3. SeesWhatIs'
    BY <1>t, <1>2 DEF SeesWhatIs, Sound, AgentState, AgentOver, ExecState
  <2>4. NothingRunsUnwatched'
    BY <1>t, <1>2 DEF CloudInv, NothingRunsUnwatched, CountsAgents, IdsAreKnown, Sound, AgentState, AgentOver, RowState, RowOpen, ExecState
  <2> QED BY <2>1, <2>2, <2>3, <2>4 DEF CloudInv
<1>3. ASSUME NEW e \in Executor, StartLost(e) PROVE CloudInv'
  <2> USE DEF StartLost, NewOrAdopted, Throws
  <2>1. CloudTyped'
    <3>1. row' \in RowState
      BY <1>t, <1>3
    <3>2. exec' \in [Executor -> ExecState]
      BY <1>t, <1>3 DEF ExecState, ExecAt, Idle, AgentState
    <3>3. agent' \in AgentState /\ UNCHANGED <<user, tellers>>
      BY <1>t, <1>3 DEF AgentState, AgentOver
    <3>4. upset' \subseteq upset \cup {"gap", "lost", "cut", "threw", "reaped", "withdrawn", "parked"}
      BY <1>t, <1>3 DEF CloudTyped
    <3> QED BY <1>t, <3>1, <3>2, <3>3, <3>4 DEF CloudTyped
  <2>2. CountsAgents' /\ IdsAreKnown'
    BY <1>t, <1>3 DEF CloudInv, CountsAgents, IdsAreKnown, AgentState, AgentOver, RowState
  <2>3. SeesWhatIs'
    BY <1>t, <1>3 DEF SeesWhatIs, Sound, AgentState, AgentOver, ExecState, ExecAt, Idle
  <2>4. NothingRunsUnwatched'
    BY <1>t, <1>3 DEF CloudInv, NothingRunsUnwatched, CountsAgents, IdsAreKnown, Sound, AgentState, AgentOver, RowState, RowOpen, ExecState
  <2> QED BY <2>1, <2>2, <2>3, <2>4 DEF CloudInv
<1>4. ASSUME NEW e \in Executor, StoreIds(e) PROVE CloudInv'
  <2> USE DEF StoreIds, Goes
  <2>1. CloudTyped'
    <3>1. row' \in RowState
      BY <1>t, <1>4 DEF RowState, RowStatus, RowOpen
    <3>2. exec' \in [Executor -> ExecState]
      BY <1>t, <1>4 DEF ExecState, ExecAt, Idle, AgentState
    <3>3. agent' \in AgentState /\ UNCHANGED <<user, tellers>>
      BY <1>t, <1>4 DEF AgentState, AgentOver
    <3>4. upset' \subseteq upset \cup {"gap", "lost", "cut", "threw", "reaped", "withdrawn", "parked"}
      BY <1>t, <1>4 DEF CloudTyped
    <3> QED BY <1>t, <3>1, <3>2, <3>3, <3>4 DEF CloudTyped
  <2>2. CountsAgents' /\ IdsAreKnown'
    BY <1>t, <1>4 DEF CloudInv, CountsAgents, IdsAreKnown, AgentState, AgentOver, RowState, Sound, ExecState
  <2>3. SeesWhatIs'
    BY <1>t, <1>4 DEF SeesWhatIs, Sound, AgentState, AgentOver, ExecState, ExecAt, Idle
  <2>4. NothingRunsUnwatched'
    BY <1>t, <1>4 DEF CloudInv, NothingRunsUnwatched, CountsAgents, IdsAreKnown, Sound, AgentState, AgentOver, RowState, RowOpen, ExecState
  <2> QED BY <2>1, <2>2, <2>3, <2>4 DEF CloudInv
<1>5. ASSUME NEW e \in Executor, StreamEnds(e) PROVE CloudInv'
  <2>1. \E x \in ExecState : Sound(x) /\ exec' = [exec EXCEPT ![e] = x]
    BY <1>t, <1>5 DEF StreamEnds, Sees, Sound, ExecState, AgentState, AgentOver, ExecAt
  <2>2. UNCHANGED <<row, agent, launched, user, tellers, upset>>
    BY <1>5 DEF StreamEnds
  <2> QED BY <2>1, <2>2, ExecutorMoves
<1>6. ASSUME NEW e \in Executor, StreamClosed(e) PROVE CloudInv'
  <2>1. \E x \in ExecState : Sound(x) /\ exec' = [exec EXCEPT ![e] = x]
    BY <1>t, <1>6 DEF StreamClosed, Goes, Sound, ExecState, AgentState, AgentOver, ExecAt
  <2>2. UNCHANGED <<row, agent, launched, user, tellers, upset>>
    BY <1>6 DEF StreamClosed
  <2> QED BY <2>1, <2>2, ExecutorMoves
<1>7. ASSUME NEW e \in Executor, PollRun(e) PROVE CloudInv'
  <2>1. \E x \in ExecState : Sound(x) /\ exec' = [exec EXCEPT ![e] = x]
    BY <1>t, <1>7 DEF PollRun, Sees, Sound, ExecState, AgentState, AgentOver, ExecAt
  <2>2. UNCHANGED <<row, agent, launched, user, tellers, upset>>
    BY <1>7 DEF PollRun
  <2> QED BY <2>1, <2>2, ExecutorMoves
<1>8. ASSUME NEW e \in Executor, StreamAborted(e) PROVE CloudInv'
  <2>1. \E x \in ExecState : Sound(x) /\ exec' = [exec EXCEPT ![e] = x]
    BY <1>t, <1>8 DEF StreamAborted, Throws, Sound, ExecState, AgentState, AgentOver, ExecAt
  <2>2. UNCHANGED <<row, agent, launched, user, tellers, upset>>
    BY <1>8 DEF StreamAborted
  <2> QED BY <2>1, <2>2, ExecutorMoves
<1>9. ASSUME NEW e \in Executor, CapExceeded(e) PROVE CloudInv'
  <2> USE DEF CapExceeded, Throws
  <2>1. CloudTyped'
    BY <1>t, <1>9 DEF CloudTyped, Idle, ExecState, RowState, RowStatus, RowOpen, AgentState, AgentOver, ExecAt
  <2>2. CountsAgents' /\ IdsAreKnown'
    BY <1>t, <1>9 DEF CloudInv, CountsAgents, IdsAreKnown, AgentState, AgentOver, RowState
  <2>3. SeesWhatIs'
    BY <1>t, <1>9 DEF SeesWhatIs, Sound, AgentState, AgentOver, ExecState
  <2>4. NothingRunsUnwatched'
    BY <1>t, <1>9 DEF CloudInv, NothingRunsUnwatched, CountsAgents, IdsAreKnown, Sound, AgentState, AgentOver, RowState, RowOpen, ExecState
  <2> QED BY <2>1, <2>2, <2>3, <2>4 DEF CloudInv
<1>10. ASSUME NEW e \in Executor, ReadUsage(e) PROVE CloudInv'
  <2>1. \E x \in ExecState : Sound(x) /\ exec' = [exec EXCEPT ![e] = x]
    BY <1>t, <1>10 DEF ReadUsage, Goes, Throws, Sound, ExecState, AgentState, AgentOver, ExecAt
  <2>2. UNCHANGED <<row, agent, launched, user, tellers, upset>>
    BY <1>10 DEF ReadUsage
  <2> QED BY <2>1, <2>2, ExecutorMoves
<1>11. ASSUME NEW e \in Executor, FinishCode(e) PROVE CloudInv'
  <2>1. \E x \in ExecState : Sound(x) /\ exec' = [exec EXCEPT ![e] = x]
    BY <1>t, <1>11 DEF FinishCode, Goes, Throws, Sound, ExecState, AgentState, AgentOver, ExecAt
  <2>2. UNCHANGED <<row, agent, launched, user, tellers, upset>>
    BY <1>11 DEF FinishCode
  <2> QED BY <2>1, <2>2, ExecutorMoves
<1>12. ASSUME NEW e \in Executor, CallFails(e) PROVE CloudInv'
  <2>1. \E x \in ExecState : Sound(x) /\ exec' = [exec EXCEPT ![e] = x]
    BY <1>t, <1>12 DEF CallFails, Throws, Sound, ExecState, AgentState, AgentOver, ExecAt
  <2>2. UNCHANGED <<row, agent, launched, user, tellers, upset>>
    BY <1>12 DEF CallFails
  <2> QED BY <2>1, <2>2, ExecutorMoves
<1>13. ASSUME NEW e \in Executor, BeatAborts(e) PROVE CloudInv'
  <2>1. \E x \in ExecState : Sound(x) /\ exec' = [exec EXCEPT ![e] = x]
    BY <1>t, <1>13 DEF BeatAborts, HoldsRow, Sound, ExecState, AgentState, AgentOver, ExecAt
  <2>2. UNCHANGED <<row, agent, launched, user, tellers, upset>>
    BY <1>13 DEF BeatAborts
  <2> QED BY <2>1, <2>2, ExecutorMoves
<1>14. ASSUME NEW e \in Executor, Report(e) PROVE CloudInv'
  <2> USE DEF Report, HoldsRow, Ends
  <2>1. CloudTyped'
    <3>1. row' \in RowState
      BY <1>t, <1>14 DEF RowState, RowStatus, RowOpen
    <3>2. exec' \in [Executor -> ExecState]
      BY <1>t, <1>14 DEF ExecState, ExecAt, Idle, AgentState
    <3>3. agent' \in AgentState /\ UNCHANGED <<user, tellers>>
      BY <1>t, <1>14 DEF AgentState, AgentOver
    <3>4. upset' \subseteq upset \cup {"gap", "lost", "cut", "threw", "reaped", "withdrawn", "parked"}
      BY <1>t, <1>14 DEF CloudTyped
    <3> QED BY <1>t, <3>1, <3>2, <3>3, <3>4 DEF CloudTyped
  <2>2. CountsAgents' /\ IdsAreKnown'
    BY <1>t, <1>14 DEF CloudInv, CountsAgents, IdsAreKnown, AgentState, AgentOver, RowState
  <2>3. SeesWhatIs'
    BY <1>t, <1>14 DEF SeesWhatIs, Sound, AgentState, AgentOver, ExecState, ExecAt, Idle
  <2>4. NothingRunsUnwatched'
    BY <1>t, <1>14 DEF CloudInv, NothingRunsUnwatched, CountsAgents, IdsAreKnown, Sound, AgentState, AgentOver, RowState, RowOpen, ExecState
  <2> QED BY <2>1, <2>2, <2>3, <2>4 DEF CloudInv
<1>15. ASSUME NEW e \in Executor, Thrown(e) PROVE CloudInv'
  <2> USE DEF Thrown, HoldsRow, Ends, Leaves
  <2>1. CloudTyped'
    <3>1. row' \in RowState
      <4>1. \/ row' = row
            \/ row' = [row EXCEPT !.status = "queued", !.holder = NoOne, !.attempt = @ + 1]
            \/ row' = [row EXCEPT !.status = "failed", !.holder = NoOne]
            \/ row' = [row EXCEPT !.status = "blocked", !.holder = NoOne]
        BY <1>15
      <4>2. row.attempt \in Nat /\ row.attempt + 1 \in Nat
        BY <1>t DEF RowState
      <4>3. ASSUME NEW st \in RowStatus, NEW k \in Nat,
                   row' = [row EXCEPT !.status = st, !.holder = NoOne, !.attempt = k]
            PROVE  row' \in RowState
        BY <1>t, <4>3 DEF RowState
      <4>4. row' = row \/ \E st \in RowStatus, k \in Nat :
              row' = [row EXCEPT !.status = st, !.holder = NoOne, !.attempt = k]
        <5>1. ASSUME NEW st \in RowStatus, row' = [row EXCEPT !.status = st, !.holder = NoOne]
              PROVE  row' = [row EXCEPT !.status = st, !.holder = NoOne, !.attempt = row.attempt]
          BY <1>t, <5>1 DEF RowState
        <5> QED BY <4>1, <4>2, <5>1 DEF RowStatus, RowOpen
      <4> QED BY <1>t, <4>3, <4>4
    <3>2. exec' \in [Executor -> ExecState]
      BY <1>t, <1>15 DEF ExecState, ExecAt, Idle, AgentState
    <3>3. agent' \in AgentState /\ UNCHANGED <<user, tellers>>
      BY <1>t, <1>15 DEF AgentState, AgentOver
    <3>4. upset' \subseteq upset \cup {"gap", "lost", "cut", "threw", "reaped", "withdrawn", "parked"}
      BY <1>t, <1>15 DEF CloudTyped
    <3> QED BY <1>t, <3>1, <3>2, <3>3, <3>4 DEF CloudTyped
  <2>2. CountsAgents' /\ IdsAreKnown'
    BY <1>t, <1>15 DEF CloudInv, CountsAgents, IdsAreKnown, AgentState, AgentOver, RowState
  <2>3. SeesWhatIs'
    BY <1>t, <1>15 DEF SeesWhatIs, Sound, AgentState, AgentOver, ExecState, ExecAt, Idle
  <2>4. NothingRunsUnwatched'
    BY <1>t, <1>15 DEF CloudInv, NothingRunsUnwatched, CountsAgents, IdsAreKnown, Sound, AgentState, AgentOver, RowState, RowOpen, ExecState
  <2> QED BY <2>1, <2>2, <2>3, <2>4 DEF CloudInv
<1>16. ASSUME NEW e \in Executor, ExecutorDies(e) PROVE CloudInv'
  <2>1. \E x \in ExecState : Sound(x) /\ exec' = [exec EXCEPT ![e] = x]
    BY <1>t, <1>16 DEF ExecutorDies, Idle, Sound, ExecState, AgentState, AgentOver, ExecAt
  <2>2. UNCHANGED <<row, agent, launched, user, tellers, upset>>
    BY <1>16 DEF ExecutorDies
  <2> QED BY <2>1, <2>2, ExecutorMoves
<1>17. CASE ReapCloud
  <2> USE DEF ReapCloud, Ends, Leaves
  <2>1. CloudTyped'
    <3>1. row' \in RowState
      <4>1. \/ row' = [row EXCEPT !.status = "queued", !.holder = NoOne, !.attempt = @]
            \/ row' = [row EXCEPT !.status = "queued", !.holder = NoOne, !.attempt = @ + 1]
            \/ row' = [row EXCEPT !.status = "failed", !.holder = NoOne]
        BY <1>17
      <4>2. row.attempt \in Nat /\ row.attempt + 1 \in Nat
        BY <1>t DEF RowState
      <4>3. ASSUME NEW st \in RowStatus, NEW k \in Nat,
                   row' = [row EXCEPT !.status = st, !.holder = NoOne, !.attempt = k]
            PROVE  row' \in RowState
        BY <1>t, <4>3 DEF RowState
      <4>4. row' = row \/ \E st \in RowStatus, k \in Nat :
              row' = [row EXCEPT !.status = st, !.holder = NoOne, !.attempt = k]
        <5>1. ASSUME NEW st \in RowStatus, row' = [row EXCEPT !.status = st, !.holder = NoOne]
              PROVE  row' = [row EXCEPT !.status = st, !.holder = NoOne, !.attempt = row.attempt]
          BY <1>t, <5>1 DEF RowState
        <5> QED BY <4>1, <4>2, <5>1 DEF RowStatus, RowOpen
      <4> QED BY <1>t, <4>3, <4>4
    <3>2. exec' \in [Executor -> ExecState]
      BY <1>t, <1>17
    <3>3. agent' \in AgentState /\ UNCHANGED <<user, tellers>>
      BY <1>t, <1>17 DEF AgentState, AgentOver
    <3>4. upset' \subseteq upset \cup {"gap", "lost", "cut", "threw", "reaped", "withdrawn", "parked"}
      BY <1>t, <1>17 DEF CloudTyped
    <3> QED BY <1>t, <3>1, <3>2, <3>3, <3>4 DEF CloudTyped
  <2>2. CountsAgents' /\ IdsAreKnown'
    BY <1>t, <1>17 DEF CloudInv, CountsAgents, IdsAreKnown, AgentState, AgentOver, RowState
  <2>3. SeesWhatIs'
    BY <1>t, <1>17 DEF SeesWhatIs, Sound, AgentState, AgentOver, ExecState, ExecAt, Idle
  <2>4. NothingRunsUnwatched'
    BY <1>t, <1>17 DEF CloudInv, NothingRunsUnwatched, CountsAgents, IdsAreKnown, Sound, AgentState, AgentOver, RowState, RowOpen, ExecState
  <2> QED BY <2>1, <2>2, <2>3, <2>4 DEF CloudInv
<1>18. CASE UserReads
  <2> USE DEF UserReads
  <2>1. CloudTyped'
    BY <1>t, <1>18 DEF CloudTyped, Idle, ExecState, RowState, RowStatus, RowOpen, AgentState, AgentOver, ExecAt
  <2>2. CountsAgents' /\ IdsAreKnown'
    BY <1>t, <1>18 DEF CloudInv, CountsAgents, IdsAreKnown, AgentState, AgentOver, RowState
  <2>3. SeesWhatIs'
    BY <1>t, <1>18 DEF SeesWhatIs, Sound, AgentState, AgentOver, ExecState
  <2>4. NothingRunsUnwatched'
    BY <1>t, <1>18 DEF CloudInv, NothingRunsUnwatched, CountsAgents, IdsAreKnown, Sound, AgentState, AgentOver, RowState, RowOpen, ExecState
  <2> QED BY <2>1, <2>2, <2>3, <2>4 DEF CloudInv
<1>19. CASE UserTells
  <2> USE DEF UserTells, StopAgent
  <2>1. CloudTyped'
    BY <1>t, <1>19 DEF CloudTyped, Idle, ExecState, RowState, RowStatus, RowOpen, AgentState, AgentOver, ExecAt
  <2>2. CountsAgents' /\ IdsAreKnown'
    BY <1>t, <1>19 DEF CloudInv, CountsAgents, IdsAreKnown, AgentState, AgentOver, RowState
  <2>3. SeesWhatIs'
    BY <1>t, <1>19 DEF SeesWhatIs, Sound, AgentState, AgentOver, ExecState
  <2>4. NothingRunsUnwatched'
    BY <1>t, <1>19 DEF CloudInv, NothingRunsUnwatched, CountsAgents, IdsAreKnown, Sound, AgentState, AgentOver, RowState, RowOpen, ExecState
  <2> QED BY <2>1, <2>2, <2>3, <2>4 DEF CloudInv
<1>20. CASE UserCancels
  <2> USE DEF UserCancels, Ends
  <2>1. CloudTyped'
    BY <1>t, <1>20 DEF CloudTyped, Idle, ExecState, RowState, RowStatus, RowOpen, AgentState, AgentOver, ExecAt
  <2>2. CountsAgents' /\ IdsAreKnown'
    BY <1>t, <1>20 DEF CloudInv, CountsAgents, IdsAreKnown, AgentState, AgentOver, RowState
  <2>3. SeesWhatIs'
    BY <1>t, <1>20 DEF SeesWhatIs, Sound, AgentState, AgentOver, ExecState
  <2>4. NothingRunsUnwatched'
    BY <1>t, <1>20 DEF CloudInv, NothingRunsUnwatched, CountsAgents, IdsAreKnown, Sound, AgentState, AgentOver, RowState, RowOpen, ExecState
  <2> QED BY <2>1, <2>2, <2>3, <2>4 DEF CloudInv
<1>21. CASE TicketEnds
  <2> USE DEF TicketEnds, Withdrawn, Ends, Leaves
  <2>1. CloudTyped'
    BY <1>t, <1>21 DEF CloudTyped, Idle, ExecState, RowState, RowStatus, RowOpen, AgentState, AgentOver, ExecAt
  <2>2. CountsAgents' /\ IdsAreKnown'
    BY <1>t, <1>21 DEF CloudInv, CountsAgents, IdsAreKnown, AgentState, AgentOver, RowState
  <2>3. SeesWhatIs'
    BY <1>t, <1>21 DEF SeesWhatIs, Sound, AgentState, AgentOver, ExecState
  <2>4. NothingRunsUnwatched'
    BY <1>t, <1>21 DEF CloudInv, NothingRunsUnwatched, CountsAgents, IdsAreKnown, Sound, AgentState, AgentOver, RowState, RowOpen, ExecState
  <2> QED BY <2>1, <2>2, <2>3, <2>4 DEF CloudInv
<1>22. CASE SwitchOff
  <2> USE DEF SwitchOff, Withdrawn, Ends, Leaves
  <2>1. CloudTyped'
    BY <1>t, <1>22 DEF CloudTyped, Idle, ExecState, RowState, RowStatus, RowOpen, AgentState, AgentOver, ExecAt
  <2>2. CountsAgents' /\ IdsAreKnown'
    BY <1>t, <1>22 DEF CloudInv, CountsAgents, IdsAreKnown, AgentState, AgentOver, RowState
  <2>3. SeesWhatIs'
    BY <1>t, <1>22 DEF SeesWhatIs, Sound, AgentState, AgentOver, ExecState
  <2>4. NothingRunsUnwatched'
    BY <1>t, <1>22 DEF CloudInv, NothingRunsUnwatched, CountsAgents, IdsAreKnown, Sound, AgentState, AgentOver, RowState, RowOpen, ExecState
  <2> QED BY <2>1, <2>2, <2>3, <2>4 DEF CloudInv
<1>23. CASE SwitchOn
  <2> USE DEF SwitchOn, Ends
  <2>1. CloudTyped'
    BY <1>t, <1>23 DEF CloudTyped, Idle, ExecState, RowState, RowStatus, RowOpen, AgentState, AgentOver, ExecAt
  <2>2. CountsAgents' /\ IdsAreKnown'
    BY <1>t, <1>23 DEF CloudInv, CountsAgents, IdsAreKnown, AgentState, AgentOver, RowState
  <2>3. SeesWhatIs'
    BY <1>t, <1>23 DEF SeesWhatIs, Sound, AgentState, AgentOver, ExecState
  <2>4. NothingRunsUnwatched'
    BY <1>t, <1>23 DEF CloudInv, NothingRunsUnwatched, CountsAgents, IdsAreKnown, Sound, AgentState, AgentOver, RowState, RowOpen, ExecState
  <2> QED BY <2>1, <2>2, <2>3, <2>4 DEF CloudInv
<1>24. CASE AgentEnds
  <2> USE DEF AgentEnds
  <2>1. CloudTyped'
    BY <1>t, <1>24 DEF CloudTyped, Idle, ExecState, RowState, RowStatus, RowOpen, AgentState, AgentOver, ExecAt
  <2>2. CountsAgents' /\ IdsAreKnown'
    BY <1>t, <1>24 DEF CloudInv, CountsAgents, IdsAreKnown, AgentState, AgentOver, RowState
  <2>3. SeesWhatIs'
    BY <1>t, <1>24 DEF SeesWhatIs, Sound, AgentState, AgentOver, ExecState
  <2>4. NothingRunsUnwatched'
    BY <1>t, <1>24 DEF CloudInv, NothingRunsUnwatched, CountsAgents, IdsAreKnown, Sound, AgentState, AgentOver, RowState, RowOpen, ExecState
  <2> QED BY <2>1, <2>2, <2>3, <2>4 DEF CloudInv
<1>25. ASSUME NEW who \in tellers, Tell(who) PROVE CloudInv'
  <2> USE DEF Tell, StopAgent
  <2>1. CloudTyped'
    BY <1>t, <1>25 DEF CloudTyped, Idle, ExecState, RowState, RowStatus, RowOpen, AgentState, AgentOver, ExecAt
  <2>2. CountsAgents' /\ IdsAreKnown'
    BY <1>t, <1>25 DEF CloudInv, CountsAgents, IdsAreKnown, AgentState, AgentOver, RowState
  <2>3. SeesWhatIs'
    BY <1>t, <1>25 DEF SeesWhatIs, Sound, AgentState, AgentOver, ExecState
  <2>4. NothingRunsUnwatched'
    BY <1>t, <1>25 DEF CloudInv, NothingRunsUnwatched, CountsAgents, IdsAreKnown, Sound, AgentState, AgentOver, RowState, RowOpen, ExecState
  <2> QED BY <2>1, <2>2, <2>3, <2>4 DEF CloudInv
<1>26. CASE UNCHANGED cloudVars
  BY <1>26 DEF cloudVars, CloudInv, CloudTyped, CountsAgents, SeesWhatIs, Sound, IdsAreKnown, NothingRunsUnwatched
<1> QED
  BY <1>1, <1>2, <1>3, <1>4, <1>5, <1>6, <1>7, <1>8, <1>9, <1>10, <1>11, <1>12, <1>13, <1>14, <1>15, <1>16, <1>17, <1>18, <1>19, <1>20, <1>21, <1>22, <1>23, <1>24, <1>25, <1>26
  DEF CloudNext

-----------------------------------------------------------------------------
\* It holds of every behaviour.
LEMMA CloudInvariance == CloudSpec => []CloudInv
BY CloudInvInit, CloudInvStep, PTL DEF CloudSpec

\* A run has one agent at the provider, whatever executors and failures there are.
THEOREM OneAgentOnly == CloudSpec => []OneAgent
<1>1. CloudInv => OneAgent
  BY DEF CloudInv, CountsAgents, OneAgent
<1> QED BY CloudInvariance, <1>1, PTL

\* A run that is over leaves no agent at work, but in the ways that upset names.
THEOREM NoneUnwatched == CloudSpec => []NothingRunsUnwatched
<1>1. CloudInv => NothingRunsUnwatched
  BY DEF CloudInv
<1> QED BY CloudInvariance, <1>1, PTL

-----------------------------------------------------------------------------
(***************************************************************************)
(* ProviderCredentials.                                                    *)
(***************************************************************************)
LegacyOps == {"insert", "keep", "save"}
Call == [op : {"test", "retest", "failover", "promote", "plan", "activate", "choose", "retire", "default"}
              \cup LegacyOps,
         of : Credential, key : MaybeKey, tiers : SUBSET Tier]
Credit == [status : {"untested", "ok", "failed"}, key : MaybeKey, retired : BOOLEAN]

\* The parts of the type invariant that the property needs; a call has a row to
\* write, but for the older form's that adds one.
CallsTyped ==
  /\ DOMAIN credentials \subseteq Credential
  /\ \A c \in DOMAIN credentials : credentials[c] \in Credit
  /\ activeFor \in [Tier -> DOMAIN credentials \cup {NoCredential}]
  /\ \A p \in DOMAIN calls :
       /\ calls[p] \in Call
       /\ calls[p].op # "insert" => calls[p].of \in DOMAIN credentials
       /\ calls[p].op \in {"activate", "choose", "promote"} => calls[p].tiers # {}

\* Calls on a credential that has not been raced are one at a time.
OneAtATime == \A p, q \in DOMAIN calls : p # q /\ calls[p].of = calls[q].of => calls[p].of \in raced

\* What a call has read of such a credential stays so until it writes.
Fresh(p) ==
  LET c == calls[p].of IN
  /\ calls[p].op \in {"plan", "activate", "choose", "default"} =>
       Standing(c) /\ credentials[c].status = "ok"
  /\ calls[p].op \in {"activate", "choose", "default"} => \A t \in calls[p].tiers : Serves(c, t)
  /\ calls[p].op = "retire" => NotActive(c)
  /\ calls[p].op = "retest" => calls[p].key = credentials[c].key
  /\ calls[p].op \in {"insert", "save"} => Takes(c, calls[p].key)
  /\ calls[p].op = "keep" => Keyless(c)
StillTrue == \A p \in DOMAIN calls : calls[p].of \notin raced => Fresh(p)

\* ActiveUsable without the project's choice: an active credential is not retired.
Tried(c) == Takes(c, credentials[c].key) \/ (c \in untried /\ Keyless(c))
Usable(c) ==
  /\ credentials[c].status = "ok" => Tried(c)
  /\ \A t \in Tier : activeFor[t] = c =>
       credentials[c].status # "untested" /\ Serves(c, t) /\ ~credentials[c].retired
AllUsable == \A c \in DOMAIN credentials \ raced : Usable(c)

CredInv == CallsTyped /\ OneAtATime /\ StillTrue /\ AllUsable

-----------------------------------------------------------------------------
\* A workspace without credentials satisfies the invariant.
LEMMA CredInvInit == CredentialsInit => CredInv
BY CredentialsAssumption
   DEF CredentialsInit, CredInv, CallsTyped, OneAtATime, StillTrue, AllUsable

\* A call comes, goes on or leaves, and the rows stay as they are.
LEMMA CallComes ==
  ASSUME CredInv, NEW p, NEW call \in Call, Come(p, call),
         call.op # "insert" => call.of \in DOMAIN credentials,
         call.op \in {"activate", "choose", "promote"} => call.tiers # {},
         UNCHANGED <<credentials, activeFor, untried>>,
         call.of \notin raced' => Fresh(p)'
  PROVE  CredInv'
<1>1. /\ p \notin DOMAIN calls
      /\ DOMAIN calls' = DOMAIN calls \cup {p}
      /\ calls'[p] = call
      /\ \A q \in DOMAIN calls : calls'[q] = calls[q]
      /\ raced \subseteq raced'
      /\ \A q \in DOMAIN calls : calls[q].of = call.of => call.of \in raced'
  BY DEF Come
<1>2. CallsTyped'
  BY <1>1 DEF CredInv, CallsTyped
<1>3. OneAtATime'
  BY <1>1 DEF CredInv, OneAtATime
<1>4. StillTrue'
  <2> SUFFICES ASSUME NEW q \in DOMAIN calls, calls'[q].of \notin raced' PROVE Fresh(q)'
    BY <1>1 DEF StillTrue
  <2>1. Fresh(q)
    BY <1>1 DEF CredInv, StillTrue
  <2> QED BY <1>1, <2>1 DEF Fresh, Takes, Keyless, Standing, Serves, NotActive
<1>5. AllUsable'
  BY <1>1 DEF CredInv, AllUsable, Usable, Tried, Takes, Keyless, Serves
<1> QED BY <1>2, <1>3, <1>4, <1>5 DEF CredInv

\* A call ends, and has written nothing or only its own credential's row and tiers.
LEMMA OthersStay ==
  ASSUME CredInv, NEW p \in DOMAIN calls, NEW q \in DOMAIN calls \ {p}, calls[q].of \notin raced,
         \A c \in DOMAIN credentials \ {calls[p].of} :
           c \in DOMAIN credentials' /\ credentials'[c] = credentials[c],
         \A t \in Tier : activeFor'[t] = activeFor[t] \/ activeFor'[t] = calls[p].of,
         calls'[q] = calls[q]
  PROVE  Fresh(q)'
<1>1. calls[q].of # calls[p].of /\ Fresh(q)
  BY DEF CredInv, OneAtATime, StillTrue
<1>2. calls[q].op # "insert" => calls[q].of \in DOMAIN credentials
  BY DEF CredInv, CallsTyped
<1>3. calls[q].of \in DOMAIN credentials => credentials'[calls[q].of] = credentials[calls[q].of]
  BY <1>1
<1>4. NotActive(calls[q].of) => NotActive(calls[q].of)'
  BY <1>1 DEF NotActive
<1> QED BY <1>1, <1>2, <1>3, <1>4 DEF Fresh, Takes, Keyless, Standing, Serves

\* What a call that goes on or ends leaves of the rows and of the active ones.
Wrote(p) ==
  /\ DOMAIN credentials \subseteq DOMAIN credentials' /\ DOMAIN credentials' \subseteq Credential
  /\ DOMAIN credentials' \subseteq DOMAIN credentials \cup {calls[p].of}
  /\ \A c \in DOMAIN credentials' : credentials'[c] \in Credit
  /\ activeFor' \in [Tier -> DOMAIN credentials' \cup {NoCredential}]
  /\ \A c \in DOMAIN credentials \ {calls[p].of} : credentials'[c] = credentials[c]
  /\ \A t \in Tier : activeFor'[t] = activeFor[t] \/ activeFor'[t] = calls[p].of
  /\ \A c \in Credential \ {calls[p].of} : c \in untried' <=> c \in untried

\* A call that writes its own credential leaves the others as they are.
LEMMA OthersUsable ==
  ASSUME CredInv, NEW p \in DOMAIN calls, Wrote(p), raced \subseteq raced',
         NEW o, o = calls[p].of, o \in DOMAIN credentials' \ raced => Usable(o)'
  PROVE  AllUsable'
<1> SUFFICES ASSUME NEW c \in DOMAIN credentials' \ raced' PROVE Usable(c)'
  BY DEF AllUsable
<1>1. CASE c = o
  BY <1>1
<1>2. CASE c # o
  <2>1. c \in DOMAIN credentials /\ credentials'[c] = credentials[c] /\ Usable(c)
    BY <1>2 DEF Wrote, CredInv, AllUsable
  <2> QED BY <1>2, <2>1 DEF Wrote, Usable, Tried, Takes, Keyless, Serves
<1> QED BY <1>1, <1>2

\* So it does when it ends with that.
LEMMA CallLeaves ==
  ASSUME CredInv, NEW p \in DOMAIN calls, Leave(p), Wrote(p),
         NEW o, o = calls[p].of, o \in DOMAIN credentials' \ raced => Usable(o)'
  PROVE  CredInv'
<1>1. /\ DOMAIN calls' = DOMAIN calls \ {p}
      /\ \A q \in DOMAIN calls' : calls'[q] = calls[q]
      /\ raced' = raced
  BY DEF Leave
<1>2. CallsTyped'
  BY <1>1 DEF CredInv, CallsTyped, Wrote
<1>3. OneAtATime'
  BY <1>1 DEF CredInv, OneAtATime
<1>4. StillTrue'
  BY <1>1, OthersStay DEF StillTrue, Wrote
<1>5. AllUsable'
  BY <1>1, OthersUsable
<1> QED BY <1>2, <1>3, <1>4, <1>5 DEF CredInv

\* Or when it goes on to its next write.
LEMMA CallContinues ==
  ASSUME CredInv, NEW p \in DOMAIN calls, NEW call \in Call, Continue(p, call), Wrote(p),
         NEW o, o = calls[p].of, o \in DOMAIN credentials' \ raced => Usable(o)',
         call.op # "insert" => call.of \in DOMAIN credentials',
         call.op \in {"activate", "choose", "promote"} => call.tiers # {},
         call.of \notin raced' => Fresh(p)'
  PROVE  CredInv'
<1>1. /\ DOMAIN calls' = DOMAIN calls
      /\ calls'[p] = call
      /\ \A q \in DOMAIN calls \ {p} : calls'[q] = calls[q]
      /\ raced \subseteq raced'
      /\ \A q \in DOMAIN calls \ {p} : calls[q].of = call.of => call.of \in raced'
  BY DEF Continue
<1>2. CallsTyped'
  BY <1>1 DEF CredInv, CallsTyped, Wrote
<1>3. OneAtATime'
  BY <1>1 DEF CredInv, OneAtATime
<1>4. StillTrue'
  <2> SUFFICES ASSUME NEW q \in DOMAIN calls', calls'[q].of \notin raced' PROVE Fresh(q)'
    BY DEF StillTrue
  <2>1. CASE q = p
    BY <1>1, <2>1
  <2>2. CASE q # p
    BY <1>1, <2>2, OthersStay DEF Wrote
  <2> QED BY <2>1, <2>2
<1>5. AllUsable'
  BY <1>1, OthersUsable
<1> QED BY <1>2, <1>3, <1>4, <1>5 DEF CredInv

-----------------------------------------------------------------------------
\* A call that writes nothing on the rows.
LEMMA NothingWritten ==
  ASSUME CredInv, NEW p \in DOMAIN calls, UNCHANGED <<credentials, activeFor, untried>>
  PROVE  /\ Wrote(p)
         /\ \A o : o \in DOMAIN credentials' \ raced => Usable(o)'
<1>1. Wrote(p)
  BY DEF CredInv, CallsTyped, Wrote
<1>2. ASSUME NEW o, o \in DOMAIN credentials' \ raced PROVE Usable(o)'
  BY <1>2 DEF CredInv, AllUsable, Usable, Tried, Takes, Keyless, Serves
<1> QED BY <1>1, <1>2

\* A call starts.
LEMMA Starts ==
  ASSUME CredInv, NEW p, NEW c \in Credential,
         \/ \E given \in MaybeKey : StartTest(p, c, given) \/ StartLegacy(p, c, given)
         \/ \E tier \in Tier, whole \in BOOLEAN : StartActivate(p, c, tier, whole)
         \/ StartRetire(p, c)
  PROVE  CredInv'
<1> USE DEF Call
<1>1. ASSUME NEW given \in MaybeKey, StartTest(p, c, given) PROVE CredInv'
  <2> DEFINE call == IF given = NoKey THEN [op |-> "retest", of |-> c, key |-> credentials[c].key, tiers |-> {}]
                                      ELSE [op |-> "test", of |-> c, key |-> given, tiers |-> {}]
  <2>1. Come(p, call) /\ UNCHANGED <<credentials, activeFor, untried>> /\ c \in DOMAIN credentials
    BY <1>1 DEF StartTest, Standing
  <2>2. credentials[c].key \in MaybeKey
    BY <2>1 DEF CredInv, CallsTyped, Credit
  <2>3. call \in Call /\ call.of = c /\ call.op \in {"test", "retest"} /\ (call.op = "retest" => call.key = credentials[c].key)
    BY <2>2
  <2> HIDE DEF call, Call
  <2>4. calls'[p] = call
    BY <2>1 DEF Come
  <2>5. Fresh(p)'
    BY <2>1, <2>3, <2>4 DEF Fresh
  <2> QED BY <2>1, <2>3, <2>5, CallComes
<1>2. ASSUME NEW given \in MaybeKey, StartLegacy(p, c, given) PROVE CredInv'
  <2> DEFINE there == c \in DOMAIN credentials
             keeps == given = NoKey /\ there /\ credentials[c].key # NoKey
             call == [op |-> IF c \notin DOMAIN credentials THEN "insert" ELSE IF keeps THEN "keep" ELSE "save",
                      of |-> c, key |-> IF keeps THEN credentials[c].key ELSE given, tiers |-> {}]
  <2>1. Come(p, call) /\ UNCHANGED <<credentials, activeFor, untried>> /\ Takes(c, given)
    BY <1>2 DEF StartLegacy
  <2>2. there => credentials[c].key \in MaybeKey
    BY DEF CredInv, CallsTyped, Credit
  <2>3. /\ call.of = c
        /\ call.op = IF c \notin DOMAIN credentials THEN "insert" ELSE IF keeps THEN "keep" ELSE "save"
        /\ call.key = IF keeps THEN credentials[c].key ELSE given
    OBVIOUS
  <2>4. call \in Call
    BY <2>2 DEF LegacyOps
  <2>5. keeps => Keyless(c)
    BY <2>1, CredentialsAssumption DEF Takes
  <2> HIDE DEF call, Call
  <2>6. calls'[p] = call
    BY <2>1 DEF Come
  <2>7. Fresh(p)'
    <3>1. call.op \in {"insert", "save"} => Takes(c, call.key)
      BY <2>1, <2>3
    <3>2. call.op = "keep" => Keyless(c)
      BY <2>3, <2>5
    <3>3. call.op \in {"insert", "keep", "save"}
      BY <2>3
    <3> HIDE DEF there, keeps
    <3> QED BY <2>3, <2>6, <3>1, <3>2, <3>3 DEF Fresh, Takes, Keyless
  <2>8. call.op # "insert" => c \in DOMAIN credentials
    BY <2>3
  <2>9. call.op \notin {"activate", "choose", "promote"}
    BY <2>3
  <2> HIDE DEF there, keeps
  <2> QED BY <2>1, <2>3, <2>4, <2>7, <2>8, <2>9, CallComes
<1>3. ASSUME NEW tier \in Tier, NEW whole \in BOOLEAN, StartActivate(p, c, tier, whole) PROVE CredInv'
  <2> DEFINE call == [op |-> IF whole THEN "activate" ELSE "choose", of |-> c,
                      key |-> credentials[c].key, tiers |-> {tier}]
  <2>1. /\ Come(p, call) /\ UNCHANGED <<credentials, activeFor, untried>>
        /\ Standing(c) /\ credentials[c].status = "ok" /\ Serves(c, tier)
    BY <1>3 DEF StartActivate, MayActivate
  <2>2. credentials[c].key \in MaybeKey
    BY <2>1 DEF Standing, CredInv, CallsTyped, Credit
  <2>3. call \in Call
    BY <2>2
  <2>4. calls'[p] = call
    BY <2>1 DEF Come
  <2>5. Fresh(p)'
    BY <2>1, <2>4 DEF Fresh, Takes, Keyless, Standing, Serves
  <2>6. call.op # "insert" /\ call.of = c /\ call.tiers # {} /\ c \in DOMAIN credentials
    BY <2>1 DEF Standing
  <2> HIDE DEF call, Call
  <2> QED BY <2>1, <2>3, <2>5, <2>6, CallComes
<1>4. ASSUME StartRetire(p, c) PROVE CredInv'
  <2> DEFINE call == [op |-> "retire", of |-> c, key |-> credentials[c].key, tiers |-> {}]
  <2>1. /\ Come(p, call) /\ UNCHANGED <<credentials, activeFor, untried>>
        /\ c \in DOMAIN credentials /\ NotActive(c)
    BY <1>4 DEF StartRetire
  <2>2. credentials[c].key \in MaybeKey
    BY <2>1 DEF CredInv, CallsTyped, Credit
  <2>3. call \in Call
    BY <2>2
  <2>4. calls'[p] = call
    BY <2>1 DEF Come
  <2>5. Fresh(p)'
    BY <2>1, <2>4 DEF Fresh, Takes, Keyless, NotActive
  <2>6. call.op = "retire" /\ call.of = c
    OBVIOUS
  <2> HIDE DEF call, Call
  <2> QED BY <2>1, <2>3, <2>5, <2>6, CallComes
<1> QED BY <1>1, <1>2, <1>3, <1>4

\* A test ends.
LEMMA TestEnds ==
  ASSUME CredInv, NEW p \in DOMAIN calls, NEW ok \in BOOLEAN, EndTest(p, ok)
  PROVE  CredInv'
<1> DEFINE o == calls[p].of
           call == [calls[p] EXCEPT !.op = "failover"]
<1>1. calls[p] \in Call /\ o \in DOMAIN credentials /\ credentials[o] \in Credit
  BY DEF CredInv, CallsTyped, EndTest
<1> DEFINE key == IF calls[p].op = "test" THEN calls[p].key ELSE credentials[o].key
<1>2. /\ credentials' = [credentials EXCEPT ![o].status = IF ok THEN "ok" ELSE "failed",
                                            ![o].key = IF calls[p].op = "test" THEN calls[p].key ELSE @]
      /\ ok => Takes(o, calls[p].key)
      /\ activeFor' = activeFor /\ untried' = untried \ {o}
      /\ calls[p].op \in {"test", "retest"}
  BY DEF EndTest
<1>3. /\ DOMAIN credentials' = DOMAIN credentials
      /\ credentials'[o] = [credentials[o] EXCEPT !.status = IF ok THEN "ok" ELSE "failed", !.key = key]
      /\ \A c \in DOMAIN credentials \ {o} : credentials'[c] = credentials[c]
  BY <1>1, <1>2 DEF Credit
<1>4. /\ credentials'[o] \in Credit
      /\ credentials'[o].status = IF ok THEN "ok" ELSE "failed"
      /\ credentials'[o].key = key
      /\ credentials'[o].retired = credentials[o].retired
  BY <1>1, <1>3 DEF Credit, Call
<1>5. Wrote(p)
  BY <1>2, <1>3, <1>4 DEF CredInv, CallsTyped, Wrote
<1>6. ASSUME NEW c, c = calls[p].of, c \in DOMAIN credentials' \ raced PROVE Usable(c)'
  <2>1. c \in DOMAIN credentials \ raced /\ c = o
    BY <1>3, <1>6
  <2>2. Usable(c) /\ Fresh(p)
    BY <2>1 DEF CredInv, AllUsable, StillTrue
  <2>3. credentials'[c].status \in {"ok", "failed"} /\ (credentials'[c].status = "ok" => ok)
    BY <1>4, <2>1
  <2>4. key = calls[p].key
    BY <1>2, <2>2 DEF Fresh
  <2>5. credentials'[c].status = "ok" => Takes(c, credentials'[c].key)
    BY <1>2, <1>4, <2>1, <2>3, <2>4
  <2>6. ASSUME NEW t \in Tier, activeFor'[t] = c
        PROVE  credentials'[c].status # "untested" /\ Serves(c, t) /\ ~credentials'[c].retired
    BY <1>2, <1>4, <2>1, <2>2, <2>3, <2>6 DEF Usable
  <2> HIDE DEF o, key
  <2> QED BY <2>5, <2>6 DEF Usable, Tried, Takes, Keyless, Serves
<1>7. CASE ok
  BY <1>5, <1>6, <1>7, CallLeaves DEF EndTest
<1>8. CASE ~ok
  <2>1. Continue(p, call)
    BY <1>8 DEF EndTest
  <2>2. call \in Call /\ call.op = "failover" /\ call.of = o
    BY <1>1 DEF Call
  <2>3. Fresh(p)'
    BY <2>1, <2>2 DEF Continue, Fresh, Takes, Keyless
  <2> HIDE DEF call
  <2> QED BY <2>1, <2>2, <2>3, <1>1, <1>3, <1>5, <1>6, CallContinues
<1> QED BY <1>7, <1>8

\* A failed test of an active credential looks for another.
LEMMA FailsOver ==
  ASSUME CredInv, NEW p \in DOMAIN calls, Failover(p)
  PROVE  CredInv'
<1>0. UNCHANGED <<credentials, activeFor, untried>>
  BY Zenon DEF Failover
<1>1. UNCHANGED <<credentials, activeFor, untried>> /\ calls[p] \in Call
  BY <1>0 DEF CredInv, CallsTyped
<1>2. CASE Leave(p)
  BY <1>1, <1>2, NothingWritten, CallLeaves
<1>3. CASE ~Leave(p)
  <2> DEFINE tiers == {t \in Tier : activeFor[t] = calls[p].of}
  <2>1. tiers # {} /\ \E d \in Spares(calls[p].of) :
          Continue(p, [calls[p] EXCEPT !.op = "promote", !.of = d, !.tiers = tiers])
    BY <1>3, Zenon DEF Failover
  <2>2. PICK d \in Spares(calls[p].of) :
          Continue(p, [calls[p] EXCEPT !.op = "promote", !.of = d, !.tiers = tiers])
    BY <2>1
  <2> DEFINE call == [calls[p] EXCEPT !.op = "promote", !.of = d, !.tiers = tiers]
  <2>3. d \in DOMAIN credentials /\ d \in Credential
    BY DEF Spares, CredInv, CallsTyped
  <2>4. call \in Call /\ call.op = "promote" /\ call.of = d /\ call.tiers # {}
    BY <1>1, <2>1, <2>3 DEF Call
  <2>5. Continue(p, call)
    BY <2>2
  <2>6. Fresh(p)'
    BY <2>4, <2>5 DEF Continue, Fresh, Takes, Keyless
  <2> HIDE DEF call, tiers
  <2> QED BY <1>1, <2>3, <2>4, <2>5, <2>6, NothingWritten, CallContinues
<1> QED BY <1>2, <1>3

\* It takes one that is in order.
LEMMA PromotionStarts ==
  ASSUME CredInv, NEW p \in DOMAIN calls, NEW tier \in Tier, StartPromotion(p, tier)
  PROVE  CredInv'
<1> DEFINE call == [calls[p] EXCEPT !.op = IF tier = "planning" THEN "plan" ELSE "activate"]
<1>1. calls[p] \in Call /\ calls[p].of \in DOMAIN credentials /\ calls[p].tiers # {}
  BY DEF StartPromotion, CredInv, CallsTyped
<1>2. /\ UNCHANGED <<credentials, activeFor, untried>> /\ Continue(p, call)
      /\ Standing(calls[p].of) /\ credentials[calls[p].of].status = "ok" /\ Serves(calls[p].of, tier)
      /\ tier \in calls[p].tiers /\ (tier = "coding" => "planning" \notin calls[p].tiers)
  BY DEF StartPromotion, MayActivate
<1>3. /\ call \in Call /\ call.of = calls[p].of /\ call.tiers = calls[p].tiers
      /\ call.op = IF tier = "planning" THEN "plan" ELSE "activate"
  BY <1>1 DEF Call
<1>4. tier = "coding" => calls[p].tiers = {"coding"}
  BY <1>1, <1>2 DEF Call, Tier
<1>5. calls'[p] = call
  BY <1>2 DEF Continue
<1>6. Fresh(p)'
  BY <1>2, <1>3, <1>4, <1>5 DEF Fresh, Takes, Keyless, Standing, Serves, Tier
<1> HIDE DEF call
<1> QED BY <1>1, <1>2, <1>3, <1>6, NothingWritten, CallContinues

\* A credential is made the active one.
LEMMA ActiveWritten ==
  ASSUME CredInv, NEW p \in DOMAIN calls, WriteActiveCredential(p)
  PROVE  CredInv'
<1> DEFINE o == calls[p].of
           tier == IF calls[p].op = "plan" THEN "planning" ELSE CHOOSE t \in calls[p].tiers : TRUE
<1>1. /\ calls[p] \in Call /\ o \in DOMAIN credentials
      /\ calls[p].op # "plan" => calls[p].tiers # {}
      /\ calls[p].op \in {"plan", "activate", "choose"}
      /\ credentials' = credentials /\ untried' = untried /\ activeFor' = [activeFor EXCEPT ![tier] = o]
  BY DEF WriteActiveCredential, CredInv, CallsTyped
<1>2. tier \in Tier /\ (calls[p].op # "plan" => tier \in calls[p].tiers)
  BY <1>1 DEF Call, Tier
<1> HIDE DEF tier
<1>3. activeFor \in [Tier -> DOMAIN credentials \cup {NoCredential}]
  BY DEF CredInv, CallsTyped
<1>4. \A t \in Tier : activeFor'[t] = IF t = tier THEN o ELSE activeFor[t]
  BY <1>1, <1>3
<1>5. Wrote(p)
  BY <1>1, <1>3, <1>4 DEF CredInv, CallsTyped, Wrote
<1>6. ASSUME NEW c, c = calls[p].of, c \in DOMAIN credentials' \ raced PROVE Usable(c)'
  <2>1. Usable(c) /\ Fresh(p)
    BY <1>1, <1>6 DEF CredInv, AllUsable, StillTrue
  <2>2. ~credentials[c].retired /\ credentials[c].status = "ok" /\ Serves(c, tier)
    BY <1>1, <1>2, <1>6, <2>1 DEF Fresh, Takes, Keyless, Standing, tier, Serves
  <2> QED BY <1>1, <1>4, <1>6, <2>1, <2>2 DEF Usable, Tried, Takes, Keyless, Serves
<1>7. CASE Leave(p)
  BY <1>5, <1>6, <1>7, CallLeaves
<1>8. CASE ~Leave(p)
  <2> DEFINE call == [calls[p] EXCEPT !.op = "promote", !.tiers = {"coding"}]
  <2>1. Continue(p, call)
    BY <1>8 DEF WriteActiveCredential
  <2>2. call \in Call /\ call.op = "promote" /\ call.of = o /\ call.tiers # {}
    BY <1>1 DEF Call, Tier
  <2>3. Fresh(p)'
    BY <2>1, <2>2 DEF Continue, Fresh, Takes, Keyless
  <2> HIDE DEF call
  <2> QED BY <1>1, <1>5, <1>6, <2>1, <2>2, <2>3, CallContinues
<1> QED BY <1>7, <1>8

\* A credential is retired.
LEMMA RetiredWritten ==
  ASSUME CredInv, NEW p \in DOMAIN calls, WriteRetired(p)
  PROVE  CredInv'
<1> DEFINE o == calls[p].of
<1>1. /\ o \in DOMAIN credentials /\ credentials[o] \in Credit
      /\ credentials' = [credentials EXCEPT ![o].retired = TRUE]
      /\ activeFor' = activeFor /\ untried' = untried /\ Leave(p)
  BY DEF WriteRetired, CredInv, CallsTyped
<1>2. /\ DOMAIN credentials' = DOMAIN credentials
      /\ credentials'[o] = [credentials[o] EXCEPT !.retired = TRUE]
      /\ \A c \in DOMAIN credentials \ {o} : credentials'[c] = credentials[c]
  BY <1>1
<1>3. credentials'[o] \in Credit /\ credentials'[o].status = credentials[o].status /\ credentials'[o].key = credentials[o].key
  BY <1>1, <1>2 DEF Credit
<1>4. Wrote(p)
  BY <1>1, <1>2, <1>3 DEF CredInv, CallsTyped, Wrote
<1>5. ASSUME NEW c, c = calls[p].of, c \in DOMAIN credentials' \ raced PROVE Usable(c)'
  <2>1. c = o /\ Usable(c) /\ NotActive(c)
    BY <1>2, <1>5 DEF CredInv, AllUsable, StillTrue, Fresh, Takes, Keyless, WriteRetired
  <2> QED BY <1>1, <1>3, <2>1 DEF Usable, Tried, Takes, Keyless, NotActive
<1> QED BY <1>1, <1>4, <1>5, CallLeaves

\* The older settings are written to a credential.
LEMMA LegacyWritten ==
  ASSUME CredInv, NEW p \in DOMAIN calls, WriteLegacy(p)
  PROVE  CredInv'
<1> DEFINE o == calls[p].of
           added == [status |-> "ok", key |-> calls[p].key, retired |-> FALSE]
<1>1. /\ calls[p] \in Call /\ calls[p].op \in LegacyOps /\ activeFor' = activeFor
      /\ untried' = IF calls[p].op = "keep" THEN untried \cup {o} ELSE untried \ {o}
      /\ credentials' = [d \in DOMAIN credentials \cup {o} |-> IF d = o THEN added ELSE credentials[d]]
  BY DEF WriteLegacy, LegacyOps, CredInv, CallsTyped
<1>2. /\ DOMAIN credentials' = DOMAIN credentials \cup {o}
      /\ credentials'[o] = added
      /\ \A c \in DOMAIN credentials \ {o} : credentials'[c] = credentials[c]
  BY <1>1
<1>3. added \in Credit /\ o \in Credential
  BY <1>1 DEF Credit, Call
<1>4. Wrote(p)
  BY <1>1, <1>2, <1>3 DEF CredInv, CallsTyped, Wrote
<1>5. ASSUME NEW c, c = calls[p].of, c \in DOMAIN credentials' \ raced PROVE Usable(c)'
  <2>1. c = o /\ Fresh(p)
    BY <1>5 DEF CredInv, StillTrue
  <2>3. Takes(c, calls[p].key) \/ (c \in untried' /\ Keyless(c))
    BY <1>1, <2>1 DEF Fresh, LegacyOps
  <2>2. ASSUME NEW t \in Tier, activeFor'[t] = c PROVE Serves(c, t)
    <3>1. c \in DOMAIN credentials
      BY <1>1, <1>3, <2>1, <2>2, CredentialsAssumption DEF CredInv, CallsTyped
    <3> QED BY <1>1, <1>5, <2>2, <3>1 DEF CredInv, AllUsable, Usable, Tried, Takes, Keyless
  <2>4. credentials'[c].key = calls[p].key /\ credentials'[c].status = "ok" /\ ~credentials'[c].retired
    BY <1>2, <2>1
  <2> HIDE DEF o, added
  <2> QED BY <2>2, <2>3, <2>4 DEF Usable, Tried, Takes, Keyless, Serves
<1>6. PICK tiers \in SUBSET {t \in Tier : activeFor[t] = NoCredential /\ Serves(o, t)} :
        Continue(p, [calls[p] EXCEPT !.op = "default", !.tiers = tiers])
  BY DEF WriteLegacy
<1> DEFINE call == [calls[p] EXCEPT !.op = "default", !.tiers = tiers]
<1>7. call \in Call /\ call.op = "default" /\ call.of = o /\ call.tiers = tiers
  BY <1>1, <1>6 DEF Call
<1>8. calls'[p] = call
  BY <1>6 DEF Continue
<1>9. Fresh(p)'
  BY <1>2, <1>6, <1>7, <1>8 DEF Fresh, Takes, Keyless, Standing, Serves
<1> HIDE DEF call
<1> QED BY <1>2, <1>4, <1>5, <1>6, <1>7, <1>9, CallContinues DEF call

\* It is made the default where there is none.
LEMMA DefaultWritten ==
  ASSUME CredInv, NEW p \in DOMAIN calls, WriteDefault(p)
  PROVE  CredInv'
<1> DEFINE o == calls[p].of
<1>1. /\ calls[p].op = "default" /\ o \in DOMAIN credentials /\ credentials' = credentials /\ untried' = untried /\ Leave(p)
      /\ activeFor' = [t \in Tier |-> IF t \in calls[p].tiers THEN o ELSE activeFor[t]]
      /\ activeFor \in [Tier -> DOMAIN credentials \cup {NoCredential}]
  BY DEF WriteDefault, CredInv, CallsTyped
<1>2. Wrote(p)
  BY <1>1 DEF CredInv, CallsTyped, Wrote
<1>3. ASSUME NEW c, c = calls[p].of, c \in DOMAIN credentials' \ raced PROVE Usable(c)'
  BY <1>1, <1>3 DEF CredInv, AllUsable, StillTrue, Usable, Tried, Fresh, Takes, Keyless, Standing, Serves
<1> QED BY <1>1, <1>2, <1>3, CallLeaves

\* A credential is added.
LEMMA CredentialCreated ==
  ASSUME CredInv, NEW c \in Credential, NEW key \in MaybeKey, CreateCredential(c, key)
  PROVE  CredInv'
<1> DEFINE added == [status |-> "untested", key |-> key, retired |-> FALSE]
<1>1. /\ c \notin DOMAIN credentials
      /\ credentials' = [d \in DOMAIN credentials \cup {c} |-> IF d = c THEN added ELSE credentials[d]]
      /\ UNCHANGED <<activeFor, calls, raced, untried>>
  BY DEF CreateCredential
<1>2. /\ DOMAIN credentials' = DOMAIN credentials \cup {c}
      /\ credentials'[c] = added
      /\ \A d \in DOMAIN credentials : credentials'[d] = credentials[d]
  BY <1>1
<1>3. added \in Credit /\ added.status = "untested"
  BY DEF Credit
<1> HIDE DEF added
<1>4. CallsTyped'
  BY <1>1, <1>2, <1>3 DEF CredInv, CallsTyped
<1>5. OneAtATime'
  BY <1>1 DEF CredInv, OneAtATime
<1>6. StillTrue'
  <2> SUFFICES ASSUME NEW q \in DOMAIN calls, calls[q].of \notin raced PROVE Fresh(q)'
    BY <1>1 DEF StillTrue
  <2>1. Fresh(q) /\ (calls[q].of \in DOMAIN credentials \/ calls[q].op = "insert")
    BY DEF CredInv, StillTrue, CallsTyped
  <2> QED BY <1>1, <1>2, <2>1 DEF Fresh, Takes, Keyless, Standing, Serves, NotActive
<1>7. AllUsable'
  <2> SUFFICES ASSUME NEW d \in DOMAIN credentials' \ raced PROVE Usable(d)'
    BY <1>1 DEF AllUsable
  <2>1. CASE d = c
    <3>1. \A t \in Tier : activeFor[t] # c
      BY <1>1, CredentialsAssumption DEF CredInv, CallsTyped
    <3> QED BY <1>1, <1>2, <1>3, <2>1, <3>1 DEF Usable, Tried, Takes, Keyless
  <2>2. CASE d # c
    <3>1. Usable(d) /\ d \in DOMAIN credentials
      BY <1>2, <2>2 DEF CredInv, AllUsable
    <3> QED BY <1>1, <1>2, <3>1 DEF Usable, Tried, Takes, Keyless, Serves
  <2> QED BY <2>1, <2>2
<1> QED BY <1>4, <1>5, <1>6, <1>7 DEF CredInv

\* Each step keeps the invariant.
LEMMA CredInvNext == CredInv /\ [CredentialsNext]_credentialVars => CredInv'
<1> SUFFICES ASSUME CredInv, [CredentialsNext]_credentialVars PROVE CredInv'
  OBVIOUS
<1>1. ASSUME NEW c \in Credential, NEW key \in MaybeKey, CreateCredential(c, key) PROVE CredInv'
  BY <1>1, CredentialCreated
<1>2. ASSUME NEW p \in Caller, NEW c \in Credential,
             \/ \E given \in MaybeKey : StartTest(p, c, given) \/ StartLegacy(p, c, given)
             \/ \E tier \in Tier, whole \in BOOLEAN : StartActivate(p, c, tier, whole)
             \/ StartRetire(p, c)
      PROVE  CredInv'
  BY <1>2, Starts
<1>3. ASSUME NEW p \in DOMAIN calls,
             \/ \E ok \in BOOLEAN : EndTest(p, ok)
             \/ Failover(p) \/ WriteActiveCredential(p) \/ WriteRetired(p)
             \/ WriteLegacy(p) \/ WriteDefault(p)
             \/ \E tier \in Tier : StartPromotion(p, tier)
      PROVE  CredInv'
  BY <1>3, TestEnds, FailsOver, ActiveWritten, RetiredWritten, LegacyWritten, DefaultWritten, PromotionStarts
<1>4. ASSUME NEW p \in DOMAIN calls, CallLost(p) PROVE CredInv'
  BY <1>4, NothingWritten, CallLeaves DEF CallLost
<1>5. CASE UNCHANGED credentialVars
  BY <1>5 DEF credentialVars, CredInv, CallsTyped, OneAtATime, StillTrue, Fresh, Takes, Keyless, Standing, Serves,
              NotActive, AllUsable, Usable, Tried, Takes, Keyless
<1> QED BY <1>1, <1>2, <1>3, <1>4, <1>5 DEF CredentialsNext

\* A credential whose calls never overlapped is ok only with what its provider took in
\* a test, but where a provider that needs no key had its row saved without one, and
\* the row kept the key it had; and if it is active it has been tested, is not retired and serves the tier,
\* for every set of credentials, keys and callers: testCredential, maybeFailover,
\* activateCredential, retireCredential and upsertFromLegacyLlm of
\* credentials.service.ts together.
THEOREM ActiveCredentialsUsable == CredentialsSpec => []ActiveUsable
<1>1. CredInv => ActiveUsable
  <2> SUFFICES ASSUME CredInv, NEW c \in DOMAIN credentials \ raced
               PROVE  /\ credentials[c].status = "ok" =>
                           Takes(c, credentials[c].key) \/ (c \in untried /\ Keyless(c))
                      /\ \A t \in Tier : activeFor[t] = c =>
                           /\ credentials[c].status # "untested" /\ Serves(c, t)
                           /\ chosenFor[t] = NoCredential => Resolved(t) = c
    BY DEF ActiveUsable
  <2>1. Usable(c)
    BY DEF CredInv, AllUsable
  <2> QED BY <2>1 DEF Usable, Tried, Resolved
<1> QED BY <1>1, CredInvInit, CredInvNext, PTL DEF CredentialsSpec

-----------------------------------------------------------------------------
(***************************************************************************)
(* ModelRouting.                                                           *)
(***************************************************************************)
MaybeModel == Model \cup {NoModel}
ModelList == Seq(Model)
RoutingDay == 0 .. LastDay

\* A list that a provider has offered since a day, if any.
OfferedSince(p, list, day) == \E d \in RoutingDay : day <= d /\ list \in offers[d][p]
NoneOrOffered(p, list, day) == list = <<>> \/ OfferedSince(p, list, day)

\* Today's lists are among those offered; they are never empty.
OffersTyped ==
  /\ today \in RoutingDay
  /\ offers \in [RoutingDay -> [Provider -> SUBSET ModelList]]
  /\ \A p \in Provider : offered[p] \in offers[today][p] /\ offered[p] \in ModelList /\ offered[p] # <<>>
  /\ DOMAIN offered = Provider
  /\ \A d \in RoutingDay : d > today => \A p \in Provider : offers[d][p] = {}

Stamp == RoutingDay \cup {Never}
WorkspaceRow == [provider : Provider \cup {NoProvider}, model : MaybeModel, tiers : [ModelTier -> MaybeModel],
                 catalog : ModelList, refreshed : Stamp]
CredentialRow == [ok : BOOLEAN, catalog : ModelList, refreshed : Stamp]
RoutingEdit ==
  {NoEdit}
  \cup [op : {"save", "mirror", "default"}, provider : Provider, model : Model,
        tiers : [ModelTier -> MaybeModel], catalog : ModelList]
  \cup [op : {"sync"}, provider : Provider, row : CredentialRow]
SettingsTyped ==
  /\ workspace \in WorkspaceRow /\ planning \in Provider \cup {NoProvider}
  /\ credential \in [Provider -> CredentialRow] /\ edit \in RoutingEdit /\ mixed \in BOOLEAN

\* A stored list is one that its provider has offered since its stamp, and no stamp
\* is of a day to come.
StoredRow(p, stored) ==
  /\ stored.refreshed <= today
  /\ stored.refreshed = Never => stored.catalog = <<>>
  /\ NoneOrOffered(p, stored.catalog, stored.refreshed)
ListsStored ==
  /\ workspace.refreshed <= today
  /\ \A p \in Provider : StoredRow(p, credential[p])
  /\ edit.op \in {"save", "mirror", "default"} => edit.catalog \in offers[today][edit.provider]
  /\ edit.op \in {"mirror", "default"} => workspace.provider = edit.provider
  /\ edit.op = "sync" => planning = edit.provider /\ StoredRow(edit.provider, edit.row)
\* So is the workspace's, of the provider that runs go to, unless it is mixed or an
\* activation is half way.
CatalogStored ==
  Endpoint.provider \in Provider /\ ~mixed /\ edit.op # "sync" =>
    NoneOrOffered(Endpoint.provider, workspace.catalog, workspace.refreshed)

Claim == [at : {"waiting"}]
Loaded == [at : {"loaded"}, tier : ModelTier, provider : Provider, asks : MaybeModel,
           started : RoutingDay, clean : BOOLEAN]
Reading == [at : {"asking", "answered"}, tier : ModelTier, provider : Provider, asks : MaybeModel,
            started : RoutingDay, clean : BOOLEAN, pinned : Wanted \cup {NoModel}, chosen : Wanted \cup {NoModel},
            tiers : [ModelTier -> MaybeModel], catalog : ModelList]
Sent == [at : {"done"}, provider : Provider, asks : MaybeModel, model : Model \cup Wanted \cup {NoModel},
         started : RoutingDay, pinned : Wanted \cup {NoModel}, chosen : Wanted \cup {NoModel},
         listed : BOOLEAN, unanswered : BOOLEAN, clean : BOOLEAN]
ClaimsTyped ==
  /\ DOMAIN routing = RoutedRun
  /\ \A r \in RoutedRun : routing[r] \in Claim \cup Loaded \cup Reading \cup Sent
  /\ pinned \in Wanted \cup {NoModel} /\ chosen \in [ModelTier -> Wanted \cup {NoModel}]

\* A claim is made within a day; one that no edit has overlapped goes to the provider
\* that it has loaded, with a list of that provider's.
ClaimsRead ==
  \A r \in Routing :
    /\ routing[r].started = today
    /\ routing[r].clean => edit = NoEdit
    /\ routing[r].at = "loaded" /\ routing[r].clean => routing[r].provider = Endpoint.provider
    /\ routing[r].at = "asking" /\ routing[r].clean => NoneOrOffered(routing[r].provider, routing[r].catalog, 0)
    /\ routing[r].at = "answered" => routing[r].catalog # <<>>
                                     /\ routing[r].catalog \in offers[today][routing[r].provider]

RoutingInv == OffersTyped /\ SettingsTyped /\ ListsStored /\ CatalogStored /\ ClaimsTyped /\ ClaimsRead /\ RoutesAreCurrent

-----------------------------------------------------------------------------
\* What each provider offers now is a list that it has offered today.
LEMMA ListsOffered ==
  ASSUME OffersTyped, NEW p \in Provider
  PROVE  offered[p] \in ModelList /\ offered[p] # <<>> /\ offered[p] \in offers[today][p]
BY DEF OffersTyped

\* What RoutesAreCurrent says of one claim that has been decided.
Current(run) ==
  LET lists == ListsSince(run.provider, IF run.unanswered THEN 0 ELSE run.started - Day) IN
  run.at = "done" /\ run.clean =>
    IF run.model # NoModel
    THEN \/ \E list \in lists : run.model \in Range(list)
         \/ run.unanswered /\ ~run.listed
         \/ run.pinned = NoModel /\ run.model = run.chosen
    ELSE \/ run.pinned # NoModel /\ (~run.listed \/ \E list \in lists : run.pinned \notin Range(list))
         \/ \E list \in lists : SelectTierModels(run.provider, list, NoAlias, run.asks) = {}

\* RoutesAreCurrent, claim by claim.
LEMMA CurrentRoutes == RoutesAreCurrent <=> \A r \in RoutedRun : Current(routing[r])
BY DEF RoutesAreCurrent, Current

\* OfferedSince says that a list is among ListsSince.
LEMMA SinceLists == \A p, list, day : OfferedSince(p, list, day) <=> list \in ListsSince(p, day)
BY DEF OfferedSince, ListsSince, RoutingDay

\* What has been offered since a day stays so.
LEMMA OffersGrow ==
  ASSUME \A d \in RoutingDay : \A p \in Provider : offers[d][p] \subseteq offers'[d][p],
         NEW p \in Provider
  PROVE  /\ \A list, day : OfferedSince(p, list, day) => OfferedSince(p, list, day)'
         /\ \A list, day : NoneOrOffered(p, list, day) => NoneOrOffered(p, list, day)'
         /\ \A day : ListsSince(p, day) \subseteq ListsSince(p, day)'
<1>1. \A list, day : OfferedSince(p, list, day) => OfferedSince(p, list, day)'
  BY DEF OfferedSince
<1>2. \A day : ListsSince(p, day) \subseteq ListsSince(p, day)'
  BY DEF ListsSince, RoutingDay
<1> QED BY <1>1, <1>2 DEF NoneOrOffered

\* What is said of a decided claim stays true when more is offered.
LEMMA CurrentStays ==
  ASSUME \A d \in RoutingDay : \A p \in Provider : offers[d][p] \subseteq offers'[d][p],
         NEW run \in Claim \cup Loaded \cup Reading \cup Sent, Current(run)
  PROVE  Current(run)'
<1>1. CASE run.at = "done" /\ run.clean
  <2>1. run.provider \in Provider
    BY <1>1 DEF Claim, Loaded, Reading, Sent
  <2> DEFINE day == IF run.unanswered THEN 0 ELSE run.started - Day
  <2>2. ListsSince(run.provider, day) \subseteq ListsSince(run.provider, day)'
    BY <2>1, OffersGrow
  <2> QED BY <1>1, <2>2 DEF Current
<1>2. CASE ~(run.at = "done" /\ run.clean)
  BY <1>2 DEF Current
<1> QED BY <1>1, <1>2

\* Where nothing is offered or withdrawn, nothing is said anew of what was decided.
LEMMA OffersStand ==
  ASSUME UNCHANGED offers
  PROVE  /\ \A p, list, day : NoneOrOffered(p, list, day)' <=> NoneOrOffered(p, list, day)
         /\ \A run : Current(run)' <=> Current(run)
BY DEF NoneOrOffered, OfferedSince, Current, ListsSince

\* A tier that is selected of a list is in it.
LEMMA SelectedListed ==
  ASSUME NEW p, NEW list, NEW alias, NEW preferred, NEW t \in SelectTierModels(p, list, alias, preferred)
  PROVE  t \in [ModelTier -> Range(list)]
BY DEF SelectTierModels

\* The models of a list are models.
LEMMA ListOfModels == <<>> \in ModelList /\ \A list \in ModelList : Range(list) \subseteq Model
BY DEF ModelList, Range

\* A claim is sent to a model that its provider has offered, if the list it goes by
\* has been.
LEMMA SentIsCurrent ==
  ASSUME RoutingInv, NEW r \in RoutedRun, NEW read, NEW list \in ModelList, NEW unanswered \in BOOLEAN,
         read.tier \in ModelTier, read.provider \in Provider, read.asks \in MaybeModel,
         read.started \in RoutingDay, read.clean \in BOOLEAN,
         read.pinned \in Wanted \cup {NoModel}, read.chosen \in Wanted \cup {NoModel},
         read.tiers \in [ModelTier -> MaybeModel],
         SentTo(r, read, list, unanswered),
         list = <<>> => unanswered,
         read.clean /\ list # <<>> =>
           OfferedSince(read.provider, list, IF unanswered THEN 0 ELSE read.started - Day)
  PROVE  \E to \in Sent : routing' = [routing EXCEPT ![r] = to] /\ Current(to)
<1> DEFINE fresh == FreshTiers(read, list)
           missing == read.pinned # NoModel /\ read.pinned \notin Range(list)
           day == IF unanswered THEN 0 ELSE read.started - Day
<1>1. PICK model \in IF missing \/ fresh = {} THEN {NoModel} ELSE {Route(read, tiers) : tiers \in fresh} :
        routing' = [routing EXCEPT ![r] =
          [at |-> "done", provider |-> read.provider, asks |-> read.asks, model |-> model,
           started |-> read.started, pinned |-> read.pinned, chosen |-> read.chosen,
           listed |-> list # <<>>, unanswered |-> unanswered, clean |-> read.clean]]
  BY DEF SentTo
<1>2. ASSUME ~missing, NEW tiers \in fresh, model = Route(read, tiers)
      PROVE  /\ model \in Model \cup Wanted /\ model # NoModel
             /\ model \in Range(list) \/ list = <<>> \/ (read.pinned = NoModel /\ model = read.chosen)
  <2>1. CASE read.pinned # NoModel
    BY <1>2, <2>1 DEF Route
  <2>2. CASE read.pinned = NoModel /\ read.chosen # NoModel
    BY <1>2, <2>2 DEF Route
  <2>3. CASE read.pinned = NoModel /\ read.chosen = NoModel
    <3>1. tiers \in [ModelTier -> MaybeModel] /\ (list # <<>> => tiers \in [ModelTier -> Range(list)])
      <4>1. CASE list = <<>>
        BY <4>1 DEF FreshTiers
      <4>2. CASE list # <<>>
        <5>1. tiers \in [ModelTier -> Range(list)]
          BY <4>2, SelectedListed DEF FreshTiers
        <5> QED BY <5>1, ListOfModels DEF MaybeModel
      <4> QED BY <4>1, <4>2
    <3>2. NoModel \notin Model /\ DefaultModel[read.provider][read.tier] \in Model
      BY RoutingAssumption
    <3> HIDE DEF fresh
    <3>3. CASE tiers[read.tier] # NoModel
      BY <1>2, <2>3, <3>1, <3>2, <3>3 DEF Route, MaybeModel
    <3>4. CASE tiers[read.tier] = NoModel
      BY <1>2, <2>3, <3>1, <3>2, <3>4, ListOfModels DEF Route
    <3> QED BY <3>3, <3>4
  <2> QED BY <2>1, <2>2, <2>3
<1>3. \/ missing /\ model = NoModel
      \/ fresh = {} /\ model = NoModel
      \/ /\ model \in Model \cup Wanted /\ model # NoModel
         /\ model \in Range(list) \/ list = <<>> \/ (read.pinned = NoModel /\ model = read.chosen)
  BY <1>1, <1>2
<1>4. fresh = {} => list # <<>> /\ SelectTierModels(read.provider, list, NoAlias, read.asks) = {}
  BY DEF FreshTiers
<1>5. PICK to : to = [at |-> "done", provider |-> read.provider, asks |-> read.asks, model |-> model,
                      started |-> read.started, pinned |-> read.pinned, chosen |-> read.chosen,
                      listed |-> list # <<>>, unanswered |-> unanswered, clean |-> read.clean]
  OBVIOUS
<1> HIDE DEF fresh
<1>6. to \in Sent
  BY <1>3, <1>5 DEF Sent
<1>7. /\ to.provider = read.provider /\ to.asks = read.asks /\ to.model = model
      /\ to.pinned = read.pinned /\ to.chosen = read.chosen /\ (to.listed <=> list # <<>>)
      /\ to.unanswered = unanswered /\ to.clean = read.clean /\ to.started = read.started
  BY <1>5
<1>8. ASSUME to.clean PROVE
        IF to.model # NoModel
        THEN \/ \E l \in ListsSince(read.provider, day) : to.model \in Range(l)
             \/ to.unanswered /\ ~to.listed
             \/ to.pinned = NoModel /\ to.model = to.chosen
        ELSE \/ to.pinned # NoModel /\ (~to.listed \/ \E l \in ListsSince(read.provider, day) : to.pinned \notin Range(l))
             \/ \E l \in ListsSince(read.provider, day) : SelectTierModels(read.provider, l, NoAlias, read.asks) = {}
  <2>1. list # <<>> => list \in ListsSince(read.provider, day)
    BY <1>7, <1>8, SinceLists
  <2> HIDE DEF day
  <2>2. CASE missing /\ model = NoModel
    BY <1>7, <2>1, <2>2
  <2>3. CASE fresh = {} /\ model = NoModel
    BY <1>4, <1>7, <2>1, <2>3
  <2>4. CASE /\ model # NoModel
             /\ model \in Range(list) \/ list = <<>> \/ (read.pinned = NoModel /\ model = read.chosen)
    BY <1>7, <2>1, <2>4
  <2> QED BY <1>3, <2>2, <2>3, <2>4
<1>9. Current(to)
  BY <1>7, <1>8 DEF Current
<1> QED BY <1>1, <1>5, <1>6, <1>9

\* Another settings row, or none: what the claims have read stays so, and those that
\* an edit overlaps are clean no more.
LEMMA SettingsChange ==
  ASSUME RoutingInv, UNCHANGED worldVars, SettingsTyped', ListsStored', CatalogStored',
         pinned' \in Wanted \cup {NoModel}, chosen' \in [ModelTier -> Wanted \cup {NoModel}],
         \/ routing' = Overlapped
         \/ routing' = routing /\ edit # NoEdit
         \/ routing' = routing /\ UNCHANGED <<edit, planning, workspace>>
  PROVE  RoutingInv'
<1>1. UNCHANGED <<today, offered, offers>>
  BY DEF worldVars
<1>2. OffersTyped'
  BY <1>1 DEF RoutingInv, OffersTyped
<1>3. /\ DOMAIN routing' = RoutedRun
      /\ \A r \in RoutedRun :
           \/ routing'[r] = routing[r]
           \/ r \in Routing /\ routing'[r] = [routing[r] EXCEPT !.clean = FALSE]
  BY DEF RoutingInv, ClaimsTyped, Overlapped
<1>4. ASSUME NEW r \in Routing, routing'[r] = [routing[r] EXCEPT !.clean = FALSE]
      PROVE  /\ routing'[r] \in Loaded \cup Reading /\ routing'[r].at = routing[r].at
             /\ routing'[r].started = routing[r].started /\ routing'[r].provider = routing[r].provider
             /\ routing[r].at = "answered" => routing'[r].catalog = routing[r].catalog
             /\ ~routing'[r].clean
  <2>1. routing[r] \in Loaded \cup Reading
    BY DEF RoutingInv, ClaimsTyped, Routing, Claim, Sent
  <2>2. CASE routing[r] \in Loaded
    BY <1>4, <2>2 DEF Loaded
  <2>3. CASE routing[r] \in Reading
    BY <1>4, <2>3 DEF Reading
  <2> QED BY <2>1, <2>2, <2>3
<1>5. ClaimsTyped'
  <2>1. \A r \in RoutedRun : routing'[r] \in Claim \cup Loaded \cup Reading \cup Sent
    BY <1>3, <1>4 DEF RoutingInv, ClaimsTyped
  <2> QED BY <1>3, <2>1 DEF ClaimsTyped
<1>6. ASSUME NEW r \in RoutedRun PROVE Current(routing[r])'
  <2>1. PICK run : run = routing'[r]
    OBVIOUS
  <2>2. Current(run)
    <3>1. CASE routing'[r] = routing[r]
      BY <2>1, <3>1, CurrentRoutes DEF RoutingInv
    <3>2. CASE r \in Routing /\ routing'[r] = [routing[r] EXCEPT !.clean = FALSE]
      BY <1>4, <2>1, <3>2 DEF Current
    <3> QED BY <1>3, <3>1, <3>2
  <2>3. Current(run)'
    BY <1>1, <2>2, OffersStand
  <2> QED BY <2>1, <2>3 DEF Current
<1>7. ASSUME NEW r \in RoutedRun, r \in Routing'
      PROVE  /\ routing'[r].started = today'
             /\ routing'[r].at = "answered" => /\ routing'[r].catalog # <<>>
                                              /\ routing'[r].catalog \in offers'[today'][routing'[r].provider]
  <2>1. r \in Routing
    BY <1>3, <1>7 DEF Routing
  <2> QED BY <1>1, <1>3, <1>4, <2>1 DEF RoutingInv, ClaimsRead
<1>8. ASSUME NEW r \in RoutedRun, r \in Routing', routing'[r].clean
      PROVE  /\ edit' = NoEdit
             /\ routing'[r].at = "loaded" => routing'[r].provider = Endpoint'.provider
             /\ routing'[r].at = "asking" => NoneOrOffered(routing[r].provider, routing[r].catalog, 0)'
  <2>1. r \in Routing
    BY <1>3, <1>7, <1>8 DEF Routing
  <2>2. routing'[r] = routing[r]
    BY <1>3, <1>4, <1>8, <2>1
  <2>3. routing' # Overlapped
    <3>1. CASE routing' = Overlapped
      <4>1. routing'[r] = [routing[r] EXCEPT !.clean = FALSE]
        BY <2>1, <3>1 DEF Overlapped
      <4> QED BY <1>4, <1>8, <2>1, <4>1
    <3> QED BY <3>1
  <2>4. edit = NoEdit /\ UNCHANGED <<edit, planning, workspace>>
    BY <1>8, <2>1, <2>2, <2>3 DEF RoutingInv, ClaimsRead
  <2> QED BY <1>1, <1>8, <2>1, <2>2, <2>4 DEF RoutingInv, ClaimsRead, Endpoint, NoneOrOffered, OfferedSince
<1>9. ClaimsRead'
  BY <1>7, <1>8 DEF ClaimsRead, Routing, NoneOrOffered, OfferedSince
<1> QED BY <1>2, <1>5, <1>6, <1>9, CurrentRoutes DEF RoutingInv, RoutesAreCurrent, Current

\* A claim goes on: the others stay as they are.
LEMMA ClaimMoves ==
  ASSUME RoutingInv, NEW r \in RoutedRun, NEW to \in Loaded \cup Reading \cup Sent,
         routing' = [routing EXCEPT ![r] = to], UNCHANGED <<worldVars, edit, planning, pinned, chosen>>,
         SettingsTyped', ListsStored', CatalogStored', Endpoint' = Endpoint, Current(to),
         to.at # "done" => to.started = today /\ (to.clean => edit = NoEdit),
         to.at = "loaded" /\ to.clean => to.provider = Endpoint.provider,
         to.at = "asking" /\ to.clean => NoneOrOffered(to.provider, to.catalog, 0),
         to.at = "answered" => to.catalog # <<>> /\ to.catalog \in offers[today][to.provider]
  PROVE  RoutingInv'
<1>1. UNCHANGED <<today, offered, offers>>
  BY DEF worldVars
<1>2. OffersTyped'
  BY <1>1 DEF RoutingInv, OffersTyped
<1>3. DOMAIN routing' = RoutedRun /\ routing'[r] = to /\ \A q \in RoutedRun \ {r} : routing'[q] = routing[q]
  BY DEF RoutingInv, ClaimsTyped
<1>4. ClaimsTyped'
  BY <1>3 DEF RoutingInv, ClaimsTyped
<1>5. ASSUME NEW q \in RoutedRun PROVE Current(routing[q])'
  <2>1. PICK run : run = routing'[q]
    OBVIOUS
  <2>2. Current(run)
    BY <1>3, <2>1, CurrentRoutes DEF RoutingInv
  <2>3. Current(run)'
    BY <1>1, <2>2, OffersStand
  <2> QED BY <2>1, <2>3 DEF Current
<1>6. ASSUME NEW q \in RoutedRun, q \in Routing'
      PROVE  /\ routing'[q].started = today'
             /\ routing'[q].clean => edit' = NoEdit
             /\ routing'[q].at = "loaded" /\ routing'[q].clean => routing'[q].provider = Endpoint'.provider
             /\ routing'[q].at = "asking" /\ routing'[q].clean => NoneOrOffered(routing[q].provider, routing[q].catalog, 0)'
             /\ routing'[q].at = "answered" => /\ routing'[q].catalog # <<>>
                                              /\ routing'[q].catalog \in offers'[today'][routing'[q].provider]
  <2>1. CASE q = r
    BY <1>1, <1>3, <1>6, <2>1 DEF Routing, NoneOrOffered, OfferedSince
  <2>2. CASE q # r
    <3>1. routing'[q] = routing[q] /\ q \in Routing
      BY <1>3, <1>6, <2>2 DEF Routing
    <3> QED BY <1>1, <3>1 DEF RoutingInv, ClaimsRead, NoneOrOffered, OfferedSince
  <2> QED BY <2>1, <2>2
<1>7. ClaimsRead'
  BY <1>6 DEF ClaimsRead, Routing, NoneOrOffered, OfferedSince
<1> QED BY <1>2, <1>4, <1>5, <1>7, CurrentRoutes DEF RoutingInv, RoutesAreCurrent, Current

\* Where the settings stand, what is said of them stands.
LEMMA SettingsStand ==
  ASSUME RoutingInv, UNCHANGED <<today, offers, workspace, planning, credential, edit, mixed>>
  PROVE  SettingsTyped' /\ ListsStored' /\ CatalogStored' /\ Endpoint' = Endpoint
<1>1. SettingsTyped' /\ Endpoint' = Endpoint
  BY DEF RoutingInv, SettingsTyped, Endpoint
<1>2. ListsStored'
  BY DEF RoutingInv, ListsStored, StoredRow, NoneOrOffered, OfferedSince
<1>3. CatalogStored'
  BY <1>1 DEF RoutingInv, CatalogStored, NoneOrOffered, OfferedSince
<1> QED BY <1>1, <1>2, <1>3

\* A run that begins loads its endpoint.
LEMMA ClaimLoads ==
  ASSUME RoutingInv, NEW r \in RoutedRun, NEW tier \in AskedTier, ResolveForRun(r, tier)
  PROVE  RoutingInv'
<1> DEFINE to == [at |-> "loaded", tier |-> tier, provider |-> Endpoint.provider, asks |-> Endpoint.model,
                  started |-> today, clean |-> edit.op = "none"]
<1>1. /\ routing' = [routing EXCEPT ![r] = to] /\ Endpoint.provider # NoProvider
      /\ UNCHANGED <<worldVars, edit, planning, pinned, chosen, workspace, credential, mixed>>
  BY DEF ResolveForRun, wishVars, editVars
<1>2. /\ Endpoint.provider \in Provider /\ Endpoint.model \in MaybeModel
  BY <1>1, RoutingAssumption DEF Endpoint, RoutingInv, SettingsTyped, WorkspaceRow, MaybeModel
<1>3. to \in Loaded
  BY <1>2, RoutingAssumption DEF Loaded, RoutingInv, OffersTyped
<1>4. edit.op = "none" => edit = NoEdit
  BY DEF RoutingInv, SettingsTyped, RoutingEdit
<1>5. /\ to.at = "loaded" /\ to.started = today /\ (to.clean => edit = NoEdit)
      /\ to.provider = Endpoint.provider
  BY <1>4
<1> HIDE DEF to
<1>6. Current(to)
  BY <1>5 DEF Current
<1>7. UNCHANGED <<today, offers>>
  BY <1>1 DEF worldVars
<1> QED BY <1>1, <1>3, <1>5, <1>6, <1>7, SettingsStand, ClaimMoves

\* The workspace's catalog is old, of the provider that was loaded if the claim is clean.
LEMMA CatalogRead ==
  ASSUME RoutingInv, NEW r \in RoutedRun, routing[r].at = "loaded", routing[r].clean, ~mixed
  PROVE  NoneOrOffered(routing[r].provider, workspace.catalog, workspace.refreshed)
<1>1. routing[r].provider = Endpoint.provider /\ edit = NoEdit
  BY DEF RoutingInv, ClaimsRead, Routing
<1>2. routing[r].provider \in Provider
  BY DEF RoutingInv, ClaimsTyped, Claim, Loaded, Reading, Sent
<1> QED BY <1>1, <1>2 DEF RoutingInv, CatalogStored, NoEdit

\* It reads the policies, and is sent by the workspace's list or asks for another.
LEMMA ClaimReads ==
  ASSUME RoutingInv, NEW r \in RoutedRun, ReadPolicy(r)
  PROVE  RoutingInv'
<1> DEFINE read == [at |-> "asking", tier |-> routing[r].tier, provider |-> routing[r].provider,
               asks |-> routing[r].asks, started |-> routing[r].started,
               clean |-> routing[r].clean /\ ~mixed, pinned |-> pinned,
               chosen |-> chosen[routing[r].tier], tiers |-> workspace.tiers,
               catalog |-> workspace.catalog]
<1>1. /\ routing[r].at = "loaded"
      /\ IF Stale \/ Route(read, workspace.tiers) \notin Range(workspace.catalog)
         THEN routing' = [routing EXCEPT ![r] = read] ELSE SentTo(r, read, workspace.catalog, FALSE)
      /\ UNCHANGED <<worldVars, edit, planning, pinned, chosen, workspace, credential, mixed>>
  BY DEF ReadPolicy, wishVars, editVars
<1>2. routing[r] \in Loaded /\ routing[r].started = today /\ (routing[r].clean => edit = NoEdit)
  BY <1>1 DEF RoutingInv, ClaimsTyped, ClaimsRead, Routing, Claim, Reading, Sent
<1>3. read \in Reading
  BY <1>2 DEF Loaded, Reading, RoutingInv, ClaimsTyped, SettingsTyped, WorkspaceRow
<1>4. /\ read.at = "asking" /\ read.started = today /\ read.provider = routing[r].provider
      /\ (read.clean <=> routing[r].clean /\ ~mixed) /\ read.catalog = workspace.catalog
  BY <1>2
<1>5. read.clean => edit = NoEdit /\ NoneOrOffered(read.provider, read.catalog, workspace.refreshed)
  BY <1>1, <1>2, <1>4, CatalogRead
<1>6. /\ UNCHANGED <<today, offers>> /\ workspace.refreshed \in Stamp /\ workspace.catalog \in ModelList
      /\ today \in RoutingDay
  BY <1>1 DEF worldVars, RoutingInv, SettingsTyped, WorkspaceRow, OffersTyped
<1>7. CASE routing' = [routing EXCEPT ![r] = read]
  <2>1. read.clean => NoneOrOffered(read.provider, read.catalog, 0)
    BY <1>5 DEF NoneOrOffered, OfferedSince, RoutingDay
  <2> HIDE DEF read
  <2>2. Current(read)
    BY <1>4 DEF Current
  <2> QED BY <1>1, <1>3, <1>4, <1>5, <1>6, <1>7, <2>1, <2>2, SettingsStand, ClaimMoves
<1>8. CASE ~Stale /\ Route(read, workspace.tiers) \in Range(workspace.catalog) /\ SentTo(r, read, workspace.catalog, FALSE)
  <2>1. workspace.catalog # <<>>
    BY <1>8 DEF Range
  <2>2. read.clean => OfferedSince(read.provider, workspace.catalog, read.started - Day)
    <3>1. workspace.refreshed \in RoutingDay /\ today - workspace.refreshed <= Day
      BY <1>6, <1>8, RoutingAssumption DEF Stale, Stamp, RoutingDay
    <3>2. \A d \in RoutingDay : workspace.refreshed <= d => today - Day <= d
      <4>1. \A a, b, c, d \in Int : a - b <= c /\ b <= d => a - c <= d
        OBVIOUS
      <4>2. today \in Int /\ Day \in Int /\ workspace.refreshed \in Int /\ \A d \in RoutingDay : d \in Int
        BY <1>6, <3>1, RoutingAssumption DEF RoutingDay
      <4> QED BY <3>1, <4>1, <4>2
    <3> HIDE DEF read
    <3> QED BY <1>4, <1>5, <2>1, <3>2 DEF NoneOrOffered, OfferedSince
  <2>3. /\ read.tier \in ModelTier /\ read.provider \in Provider /\ read.asks \in MaybeModel
        /\ read.started \in RoutingDay /\ read.clean \in BOOLEAN
        /\ read.pinned \in Wanted \cup {NoModel} /\ read.chosen \in Wanted \cup {NoModel}
        /\ read.tiers \in [ModelTier -> MaybeModel]
    BY <1>3 DEF Reading
  <2> HIDE DEF read
  <2>4. PICK to \in Sent : routing' = [routing EXCEPT ![r] = to] /\ Current(to)
    BY <1>6, <1>8, <2>1, <2>2, <2>3, SentIsCurrent
  <2>5. to.at = "done"
    BY DEF Sent
  <2> QED BY <1>1, <1>6, <2>4, <2>5, SettingsStand, ClaimMoves
<1> QED BY <1>1, <1>7, <1>8

\* What a reading claim is sent by.
LEMMA ReadingFields ==
  ASSUME NEW read \in Reading
  PROVE  /\ read.tier \in ModelTier /\ read.provider \in Provider /\ read.asks \in MaybeModel
         /\ read.started \in RoutingDay /\ read.clean \in BOOLEAN
         /\ read.pinned \in Wanted \cup {NoModel} /\ read.chosen \in Wanted \cup {NoModel}
         /\ read.tiers \in [ModelTier -> MaybeModel] /\ read.catalog \in ModelList
BY DEF Reading

\* A list that was offered today was offered within the days a claim goes by.
LEMMA TodaysList ==
  ASSUME RoutingInv, NEW p \in Provider, NEW list \in offers[today][p]
  PROVE  OfferedSince(p, list, today - Day) /\ OfferedSince(p, list, 0) /\ OfferedSince(p, list, today)
<1>1. today \in RoutingDay /\ today - Day <= today /\ 0 <= today /\ today <= today
  BY RoutingAssumption DEF RoutingInv, OffersTyped, RoutingDay
<1> QED BY <1>1 DEF OfferedSince

\* The provider answers, or does not.
LEMMA ClaimAsks ==
  ASSUME RoutingInv, NEW r \in RoutedRun, AskProvider(r)
  PROVE  RoutingInv'
<1>1. PICK read : read = routing[r]
  OBVIOUS
<1>2. PICK list : list = offered[read.provider]
  OBVIOUS
<1> DEFINE picks == SelectTierModels(read.provider, list, NoAlias, read.asks)
<1>3. /\ read.at = "asking"
      /\ \/ \E tiers \in picks :
              routing' = [routing EXCEPT ![r] = [read EXCEPT !.at = "answered", !.catalog = list, !.tiers = tiers]]
         \/ SentTo(r, read, list, FALSE)
         \/ SentTo(r, read, read.catalog, TRUE)
      /\ UNCHANGED <<worldVars, edit, planning, pinned, chosen, workspace, credential, mixed>>
  BY <1>1, <1>2 DEF AskProvider, wishVars, editVars
<1>4. /\ read \in Reading /\ read.started = today /\ (read.clean => edit = NoEdit)
      /\ read.clean => NoneOrOffered(read.provider, read.catalog, 0)
  BY <1>1, <1>3 DEF RoutingInv, ClaimsTyped, ClaimsRead, Routing, Claim, Loaded, Sent
<1>5. read.provider \in Provider /\ list \in ModelList /\ list # <<>> /\ list \in offers[today][read.provider]
  <2>1. read.provider \in Provider
    BY <1>4, ReadingFields
  <2> QED BY <1>2, <2>1, ListsOffered DEF RoutingInv
<1>6. UNCHANGED <<today, offers>>
  BY <1>3 DEF worldVars
<1>7. ASSUME NEW tiers \in picks,
             routing' = [routing EXCEPT ![r] = [read EXCEPT !.at = "answered", !.catalog = list, !.tiers = tiers]]
      PROVE  RoutingInv'
  <2>1. tiers \in [ModelTier -> MaybeModel]
    <3>1. tiers \in [ModelTier -> Range(list)]
      BY SelectedListed
    <3> QED BY <1>5, <3>1, ListOfModels DEF MaybeModel
  <2>2. PICK to : to = [read EXCEPT !.at = "answered", !.catalog = list, !.tiers = tiers]
    OBVIOUS
  <2> HIDE DEF picks
  <2>3. /\ to \in Reading /\ to.at = "answered" /\ to.catalog = list /\ to.provider = read.provider
        /\ to.started = read.started /\ to.clean = read.clean
    BY <1>4, <1>5, <2>1, <2>2 DEF Reading
  <2>4. Current(to)
    BY <2>3 DEF Current
  <2>5. routing' = [routing EXCEPT ![r] = to]
    BY <1>7, <2>2
  <2> QED BY <1>3, <1>4, <1>5, <1>6, <2>3, <2>4, <2>5, SettingsStand, ClaimMoves
<1>8. ASSUME NEW to \in Sent, routing' = [routing EXCEPT ![r] = to], Current(to) PROVE RoutingInv'
  <2>1. to.at = "done"
    BY DEF Sent
  <2> QED BY <1>3, <1>6, <1>8, <2>1, SettingsStand, ClaimMoves
<1> HIDE DEF picks
<1>9. CASE SentTo(r, read, list, FALSE)
  <2>1. OfferedSince(read.provider, list, read.started - Day)
    BY <1>4, <1>5, TodaysList
  <2>2. PICK to \in Sent : routing' = [routing EXCEPT ![r] = to] /\ Current(to)
    BY <1>4, <1>5, <1>9, <2>1, ReadingFields, SentIsCurrent
  <2> QED BY <1>8, <2>2
<1>10. CASE SentTo(r, read, read.catalog, TRUE)
  <2>1. read.clean /\ read.catalog # <<>> => OfferedSince(read.provider, read.catalog, 0)
    BY <1>4 DEF NoneOrOffered
  <2>2. PICK to \in Sent : routing' = [routing EXCEPT ![r] = to] /\ Current(to)
    BY <1>4, <1>10, <2>1, ReadingFields, SentIsCurrent
  <2> QED BY <1>8, <2>2
<1> QED BY <1>3, <1>7, <1>9, <1>10

\* Its list, tiers and stamp are stored, or the write throws.
LEMMA ClaimStores ==
  ASSUME RoutingInv, NEW r \in RoutedRun, NEW written \in BOOLEAN, StoreCatalog(r, written)
  PROVE  RoutingInv'
<1>1. PICK read : read = routing[r]
  OBVIOUS
<1>2. /\ read.at = "answered" /\ SentTo(r, read, read.catalog, FALSE)
      /\ UNCHANGED <<worldVars, edit, planning, pinned, chosen, credential>>
      /\ written => /\ workspace' = [workspace EXCEPT !.catalog = read.catalog, !.tiers = read.tiers,
                                                     !.refreshed = read.started]
                    /\ mixed' = (read.provider # Endpoint.provider)
      /\ ~written => UNCHANGED <<workspace, mixed>>
  BY <1>1 DEF StoreCatalog, wishVars, editVars
<1>3. /\ read \in Reading /\ read.started = today /\ (read.clean => edit = NoEdit)
      /\ read.catalog # <<>> /\ read.catalog \in offers[today][read.provider]
  BY <1>1, <1>2 DEF RoutingInv, ClaimsTyped, ClaimsRead, Routing, Claim, Loaded, Sent
<1>4. /\ read.provider \in Provider /\ read.catalog \in ModelList /\ read.tiers \in [ModelTier -> MaybeModel]
      /\ read.started \in RoutingDay
  BY <1>3, ReadingFields
<1>5. UNCHANGED <<today, offers>>
  BY <1>2 DEF worldVars
<1>6. /\ OfferedSince(read.provider, read.catalog, read.started - Day)
      /\ OfferedSince(read.provider, read.catalog, read.started)
  BY <1>3, <1>4, TodaysList
<1>7. PICK to \in Sent : routing' = [routing EXCEPT ![r] = to] /\ Current(to)
  BY <1>2, <1>3, <1>6, ReadingFields, SentIsCurrent
<1>8. to.at = "done"
  BY DEF Sent
<1>9. CASE ~written
  BY <1>2, <1>5, <1>7, <1>8, <1>9, SettingsStand, ClaimMoves
<1>10. CASE written
  <2>1. /\ workspace' \in WorkspaceRow /\ workspace'.catalog = read.catalog /\ workspace'.refreshed = read.started
        /\ workspace'.provider = workspace.provider /\ workspace'.model = workspace.model
    <3>1. workspace \in WorkspaceRow /\ read.started \in Stamp
      BY <1>4 DEF RoutingInv, SettingsTyped, Stamp
    <3> QED BY <1>2, <1>4, <1>10, <3>1 DEF WorkspaceRow
  <2>2. Endpoint' = Endpoint
    BY <1>2, <2>1 DEF Endpoint
  <2>3. SettingsTyped'
    BY <1>2, <1>10, <2>1 DEF RoutingInv, SettingsTyped
  <2>4. ListsStored'
    <3>1. workspace'.refreshed <= today'
      BY <1>3, <1>4, <1>5, <2>1 DEF RoutingDay
    <3> QED BY <1>2, <1>5, <2>1, <3>1 DEF RoutingInv, ListsStored, StoredRow, NoneOrOffered, OfferedSince
  <2>5. CatalogStored'
    BY <1>2, <1>5, <1>6, <1>10, <2>1, <2>2 DEF CatalogStored, NoneOrOffered, OfferedSince
  <2> QED BY <1>2, <1>7, <1>8, <2>2, <2>3, <2>4, <2>5, ClaimMoves
<1> QED BY <1>9, <1>10

\* An edit begins: a save with a list that its provider has just offered, or an
\* activation with the credential's row.
LEMMA EditBegins ==
  ASSUME RoutingInv, NEW p \in Provider,
         \/ \E m \in Entered[p] : StartSave(p, m)
         \/ StartActivatePlanning(p)
  PROVE  RoutingInv'
<1>1. /\ UNCHANGED <<worldVars, workspace, credential, mixed, pinned, chosen>>
      /\ routing' = Overlapped /\ edit = NoEdit
      /\ UNCHANGED <<today, offers>>
  BY DEF StartSave, StartActivatePlanning, BeginEdit, wishVars, worldVars
<1>2. ASSUME NEW m \in Entered[p], StartSave(p, m) PROVE RoutingInv'
  <2>1. PICK tiers \in Answers(p, m) :
          edit' = [op |-> "save", provider |-> p, model |-> m, tiers |-> tiers, catalog |-> offered[p]]
    BY <1>2 DEF StartSave
  <2>2. offered[p] \in ModelList /\ offered[p] \in offers[today][p] /\ m \in Model
    BY RoutingAssumption DEF RoutingInv, OffersTyped
  <2>3. tiers \in [ModelTier -> MaybeModel]
    <3>1. tiers \in [ModelTier -> Range(offered[p])]
      BY SelectedListed DEF Answers
    <3> QED BY <2>2, <3>1, ListOfModels DEF MaybeModel
  <2>4. edit' \in RoutingEdit /\ edit'.op = "save" /\ edit'.catalog = offered[p] /\ edit'.provider = p
    BY <2>1, <2>2, <2>3 DEF RoutingEdit
  <2>5. planning' = planning
    BY <1>2 DEF StartSave
  <2>6. SettingsTyped'
    BY <1>1, <2>4, <2>5 DEF RoutingInv, SettingsTyped
  <2>7. ListsStored'
    BY <1>1, <2>2, <2>4 DEF RoutingInv, ListsStored, StoredRow, NoneOrOffered, OfferedSince
  <2>8. CatalogStored'
    BY <1>1, <2>5 DEF RoutingInv, CatalogStored, NoneOrOffered, OfferedSince, Endpoint, NoEdit
  <2> QED BY <1>1, <2>6, <2>7, <2>8, SettingsChange DEF RoutingInv, ClaimsTyped
<1>3. CASE StartActivatePlanning(p)
  <2>1. edit' = [op |-> "sync", provider |-> p, row |-> credential[p]] /\ planning' = p
    BY <1>3 DEF StartActivatePlanning
  <2>2. edit' \in RoutingEdit /\ edit'.op = "sync" /\ edit'.provider = p /\ edit'.row = credential[p]
    BY <2>1 DEF RoutingEdit, RoutingInv, SettingsTyped
  <2>3. SettingsTyped'
    BY <1>1, <2>1, <2>2 DEF RoutingInv, SettingsTyped
  <2>4. ListsStored'
    BY <1>1, <2>1, <2>2 DEF RoutingInv, ListsStored, StoredRow, NoneOrOffered, OfferedSince
  <2>5. CatalogStored'
    BY <2>2 DEF CatalogStored
  <2> QED BY <1>1, <2>3, <2>4, <2>5, SettingsChange DEF RoutingInv, ClaimsTyped
<1> QED BY <1>2, <1>3

\* An edit goes on, or fails between two of its writes.
LEMMA EditGoesOn ==
  ASSUME RoutingInv, WriteSave \/ WriteMirror \/ WriteDefaultPlanning \/ SyncLegacyLlm \/ EditFails
  PROVE  RoutingInv'
<1>1. /\ UNCHANGED <<worldVars, pinned, chosen, routing>> /\ edit # NoEdit
      /\ UNCHANGED <<today, offers>>
  BY DEF WriteSave, WriteMirror, WriteDefaultPlanning, SyncLegacyLlm, EditFails, wishVars, worldVars, NoEdit
<1> DEFINE Saving == [op : {"save", "mirror", "default"}, provider : Provider, model : Model,
                      tiers : [ModelTier -> MaybeModel], catalog : ModelList]
<1>2. edit.op \in {"save", "mirror", "default"} => edit \in Saving
  BY DEF RoutingInv, SettingsTyped, RoutingEdit, NoEdit
<1>3. edit.op = "sync" => edit \in [op : {"sync"}, provider : Provider, row : CredentialRow]
  BY DEF RoutingInv, SettingsTyped, RoutingEdit, NoEdit
<1>4. NoEdit \in RoutingEdit /\ NoEdit.op = "none"
  BY DEF RoutingEdit, NoEdit
<1>5. ASSUME SettingsTyped', ListsStored', CatalogStored' PROVE RoutingInv'
  BY <1>1, <1>5, SettingsChange DEF RoutingInv, ClaimsTyped
<1>6. CASE WriteSave
  <2>1. /\ edit.op = "save" /\ edit' = [edit EXCEPT !.op = "mirror"]
        /\ workspace' = [workspace EXCEPT !.provider = edit.provider, !.model = edit.model,
                                          !.tiers = edit.tiers, !.catalog = edit.catalog]
        /\ mixed' = (planning \notin {NoProvider, edit.provider})
        /\ UNCHANGED <<planning, credential>>
    BY <1>6 DEF WriteSave
  <2>2. /\ edit' \in RoutingEdit /\ edit'.op = "mirror" /\ edit'.provider = edit.provider
        /\ edit'.catalog = edit.catalog
    BY <1>2, <2>1 DEF RoutingEdit
  <2>3. /\ workspace' \in WorkspaceRow /\ workspace'.provider = edit.provider
        /\ workspace'.catalog = edit.catalog /\ workspace'.refreshed = workspace.refreshed
    <3>1. workspace \in WorkspaceRow
      BY DEF RoutingInv, SettingsTyped
    <3> QED BY <1>2, <2>1, <3>1 DEF WorkspaceRow, MaybeModel
  <2>4. SettingsTyped'
    BY <2>1, <2>2, <2>3 DEF RoutingInv, SettingsTyped
  <2>5. ListsStored'
    BY <1>1, <2>1, <2>2, <2>3 DEF RoutingInv, ListsStored, StoredRow, NoneOrOffered, OfferedSince
  <2>6. edit.catalog \in offers[today][edit.provider] /\ workspace.refreshed \in Stamp
    BY <2>1 DEF RoutingInv, ListsStored, SettingsTyped, WorkspaceRow
  <2>7. today \in RoutingDay /\ workspace.refreshed <= today
    BY DEF RoutingInv, ListsStored, OffersTyped
  <2>8. OfferedSince(edit.provider, edit.catalog, workspace.refreshed)
    BY <2>6, <2>7 DEF OfferedSince
  <2>9. CatalogStored'
    BY <1>1, <2>1, <2>3, <2>8 DEF CatalogStored, Endpoint, NoneOrOffered, OfferedSince
  <2> QED BY <1>5, <2>4, <2>5, <2>9
<1>7. CASE WriteMirror
  <2>1. /\ edit.op = "mirror" /\ edit' = [edit EXCEPT !.op = "default"]
        /\ credential' = [credential EXCEPT ![edit.provider] = Tested(edit.catalog)]
        /\ UNCHANGED <<workspace, planning, mixed>>
    BY <1>7 DEF WriteMirror
  <2>2. /\ edit' \in RoutingEdit /\ edit'.op = "default" /\ edit'.provider = edit.provider
        /\ edit'.catalog = edit.catalog
    BY <1>2, <2>1 DEF RoutingEdit
  <2>3. edit.provider \in Provider /\ edit.catalog \in ModelList
    BY <1>2, <2>1
  <2>4. today \in RoutingDay /\ edit.catalog \in offers[today][edit.provider]
    BY <2>1 DEF RoutingInv, ListsStored, OffersTyped
  <2>5. PICK written : written = Tested(edit.catalog)
    OBVIOUS
  <2>6. /\ written \in CredentialRow /\ written.refreshed = today /\ written.refreshed <= today
        /\ StoredRow(edit.provider, written)
    BY <2>3, <2>4, <2>5 DEF Tested, CredentialRow, Stamp, RoutingDay, Never, StoredRow, NoneOrOffered, OfferedSince
  <2>7. /\ credential' \in [Provider -> CredentialRow]
        /\ \A p \in Provider : credential'[p] = IF p = edit.provider THEN written ELSE credential[p]
    BY <2>1, <2>5, <2>6 DEF RoutingInv, SettingsTyped
  <2>8. SettingsTyped'
    BY <2>1, <2>2, <2>7 DEF RoutingInv, SettingsTyped
  <2>9. ListsStored'
    <3>1. \A p \in Provider : StoredRow(p, credential'[p])
      BY <2>6, <2>7 DEF RoutingInv, ListsStored
    <3> QED BY <1>1, <2>1, <2>2, <3>1 DEF RoutingInv, ListsStored, StoredRow, NoneOrOffered, OfferedSince
  <2>10. CatalogStored'
    BY <1>1, <2>1 DEF RoutingInv, CatalogStored, Endpoint, NoneOrOffered, OfferedSince
  <2> QED BY <1>5, <2>8, <2>9, <2>10
<1>8. CASE WriteDefaultPlanning
  <2>1. /\ edit.op = "default" /\ edit' = NoEdit
        /\ planning' = IF planning = NoProvider THEN edit.provider ELSE planning
        /\ UNCHANGED <<workspace, credential, mixed>>
    BY <1>8 DEF WriteDefaultPlanning
  <2>2. workspace.provider = edit.provider /\ edit.provider \in Provider
    BY <1>2, <2>1 DEF RoutingInv, ListsStored
  <2>3. SettingsTyped'
    BY <1>4, <2>1, <2>2 DEF RoutingInv, SettingsTyped
  <2>4. ListsStored'
    BY <1>1, <1>4, <2>1 DEF RoutingInv, ListsStored, StoredRow, NoneOrOffered, OfferedSince
  <2>5. Endpoint'.provider = Endpoint.provider
    BY <2>1, <2>2, RoutingAssumption DEF Endpoint
  <2>6. CatalogStored'
    BY <1>1, <2>1, <2>5 DEF RoutingInv, CatalogStored, NoneOrOffered, OfferedSince
  <2> QED BY <1>5, <2>3, <2>4, <2>6
<1>9. CASE SyncLegacyLlm
  <2>1. /\ edit.op = "sync" /\ edit' = NoEdit /\ mixed' = FALSE
        /\ workspace' = Synced(edit.provider, edit.row)
        /\ UNCHANGED <<planning, credential>>
    BY <1>9 DEF SyncLegacyLlm
  <2>2. /\ edit.provider \in Provider /\ edit.row \in CredentialRow /\ edit.row.refreshed <= today
        /\ NoneOrOffered(edit.provider, edit.row.catalog, edit.row.refreshed)
        /\ today \in RoutingDay
    BY <1>3, <2>1 DEF RoutingInv, ListsStored, StoredRow, OffersTyped
  <2>3. planning = edit.provider
    BY <2>1 DEF RoutingInv, ListsStored
  <2>4. StampOf(edit.row) \in Stamp /\ StampOf(edit.row) <= today
    BY <2>2 DEF StampOf, CredentialRow, Stamp, RoutingDay
  <2>5. edit.row.refreshed = Never => edit.row.catalog = <<>>
    BY <2>1 DEF RoutingInv, ListsStored, StoredRow
  <2>6. /\ workspace' \in WorkspaceRow /\ workspace'.catalog = edit.row.catalog
        /\ workspace'.refreshed = StampOf(edit.row)
    <3>1. AdapterModel[edit.provider] \in Model /\ DefaultModel[edit.provider] \in [ModelTier -> Model]
      BY <2>2, RoutingAssumption
    <3>2. DefaultModel[edit.provider] \in [ModelTier -> MaybeModel]
      BY <3>1 DEF MaybeModel
    <3> QED BY <2>1, <2>2, <2>4, <3>1, <3>2 DEF Synced, WorkspaceRow, CredentialRow, MaybeModel
  <2>7. SettingsTyped'
    BY <1>4, <2>1, <2>6 DEF RoutingInv, SettingsTyped
  <2>8. ListsStored'
    BY <1>1, <1>4, <2>1, <2>4, <2>6 DEF RoutingInv, ListsStored, StoredRow, NoneOrOffered, OfferedSince
  <2>9. Endpoint'.provider = edit.provider
    BY <2>1, <2>2, <2>3, RoutingAssumption DEF Endpoint
  <2>10. NoneOrOffered(edit.provider, workspace'.catalog, workspace'.refreshed)
    BY <2>2, <2>5, <2>6 DEF NoneOrOffered, StampOf
  <2>11. CatalogStored'
    BY <1>1, <2>9, <2>10 DEF CatalogStored, NoneOrOffered, OfferedSince
  <2> QED BY <1>5, <2>7, <2>8, <2>11
<1>10. CASE EditFails
  <2>1. edit' = NoEdit /\ mixed' = (mixed \/ edit.op = "sync") /\ UNCHANGED <<workspace, planning, credential>>
    BY <1>10 DEF EditFails
  <2>2. SettingsTyped'
    BY <1>4, <2>1 DEF RoutingInv, SettingsTyped
  <2>3. ListsStored'
    BY <1>1, <1>4, <2>1 DEF RoutingInv, ListsStored, StoredRow, NoneOrOffered, OfferedSince
  <2>4. CatalogStored'
    BY <1>1, <2>1 DEF RoutingInv, CatalogStored, Endpoint, NoneOrOffered, OfferedSince
  <2> QED BY <1>5, <2>2, <2>3, <2>4
<1> QED BY <1>6, <1>7, <1>8, <1>9, <1>10

\* A credential is tested, or a model is pinned or chosen: no run reads the first, and
\* the others only in the step that reads the policies.
LEMMA SmallEdit ==
  ASSUME RoutingInv,
         \/ \E p \in Provider : \E m \in Entered[p] : TestCredential(p, m)
         \/ \E m \in Wanted \cup {NoModel} : PinModel(m) \/ \E tier \in AskedTier : ChooseModel(tier, m)
  PROVE  RoutingInv'
<1>1. /\ UNCHANGED <<worldVars, workspace, planning, mixed, edit, routing>>
      /\ UNCHANGED <<today, offers>>
  BY DEF TestCredential, PinModel, ChooseModel, worldVars
<1>2. CatalogStored'
  BY <1>1 DEF RoutingInv, CatalogStored, Endpoint, NoneOrOffered, OfferedSince
<1>3. ASSUME NEW p \in Provider, NEW m \in Entered[p], TestCredential(p, m) PROVE RoutingInv'
  <2>1. UNCHANGED <<pinned, chosen>>
    BY <1>3 DEF TestCredential, wishVars
  <2>2. today \in RoutingDay /\ offered[p] \in ModelList /\ offered[p] \in offers[today][p]
    BY ListsOffered DEF RoutingInv, OffersTyped
  <2>3. credential[p] \in CredentialRow /\ StoredRow(p, credential[p])
    BY DEF RoutingInv, SettingsTyped, ListsStored
  <2>4. PICK written \in CredentialRow : credential' = [credential EXCEPT ![p] = written] /\ StoredRow(p, written)
    <3>1. Tested(offered[p]) \in CredentialRow /\ StoredRow(p, Tested(offered[p]))
      BY <2>2 DEF Tested, CredentialRow, Stamp, RoutingDay, Never, StoredRow, NoneOrOffered, OfferedSince
    <3> DEFINE failed == [credential[p] EXCEPT !.ok = FALSE, !.catalog = <<>>]
    <3>2. failed \in CredentialRow /\ StoredRow(p, failed)
      BY <2>3, ListOfModels DEF CredentialRow, StoredRow, NoneOrOffered
    <3>3. credential' = [credential EXCEPT ![p] = Tested(offered[p])] \/ credential' = [credential EXCEPT ![p] = failed]
      BY <1>3 DEF TestCredential, RoutingInv, SettingsTyped
    <3> HIDE DEF failed
    <3> QED BY <3>1, <3>2, <3>3
  <2>5. /\ credential' \in [Provider -> CredentialRow]
        /\ \A q \in Provider : StoredRow(q, credential'[q])
    BY <2>4 DEF RoutingInv, SettingsTyped, ListsStored
  <2>6. SettingsTyped'
    BY <1>1, <2>5 DEF RoutingInv, SettingsTyped
  <2>7. ListsStored'
    BY <1>1, <2>5 DEF RoutingInv, ListsStored, StoredRow, NoneOrOffered, OfferedSince
  <2> QED BY <1>1, <1>2, <2>1, <2>6, <2>7, SettingsChange DEF RoutingInv, ClaimsTyped
<1>4. ASSUME NEW m \in Wanted \cup {NoModel},
             PinModel(m) \/ \E tier \in AskedTier : ChooseModel(tier, m)
      PROVE  RoutingInv'
  <2>1. credential' = credential
    BY <1>4 DEF PinModel, ChooseModel
  <2>2. pinned' \in Wanted \cup {NoModel} /\ chosen' \in [ModelTier -> Wanted \cup {NoModel}]
    BY <1>4, RoutingAssumption DEF PinModel, ChooseModel, RoutingInv, ClaimsTyped
  <2> QED BY <1>1, <1>2, <2>1, <2>2, SettingsStand, SettingsChange
<1> QED BY <1>3, <1>4

\* A provider offers another list, or the day ends.
LEMMA OffersChange ==
  ASSUME RoutingInv,
         DayEnds \/ \E p \in Provider : \E list \in Range(Offers[p]) : OfferOther(p, list)
  PROVE  RoutingInv'
<1>1. /\ UNCHANGED <<edit, workspace, planning, credential, routing, mixed, pinned, chosen>>
      /\ today' \in RoutingDay /\ today <= today' /\ today \in RoutingDay
      /\ today' # today => Routing = {} /\ edit = NoEdit
  <2>1. today \in RoutingDay
    BY DEF RoutingInv, OffersTyped
  <2>2. today < LastDay => today + 1 \in RoutingDay /\ today <= today + 1
    BY <2>1, RoutingAssumption DEF RoutingDay
  <2>3. today <= today
    BY <2>1 DEF RoutingDay
  <2> QED BY <2>1, <2>2, <2>3 DEF DayEnds, OfferOther, wishVars, editVars
<1>2. /\ \A d \in RoutingDay : \A p \in Provider : offers[d][p] \subseteq offers'[d][p]
      /\ OffersTyped'
  <2>1. ASSUME NEW p \in Provider, NEW list \in Range(Offers[p]), OfferOther(p, list)
        PROVE  /\ \A d \in RoutingDay : \A q \in Provider : offers[d][q] \subseteq offers'[d][q]
               /\ OffersTyped'
    <3>1. list \in ModelList /\ list # <<>>
      BY RoutingAssumption DEF ModelList
    <3>2. /\ offered' = [offered EXCEPT ![p] = list] /\ today' = today
          /\ offers' = [offers EXCEPT ![today] = [offers[today] EXCEPT ![p] = @ \cup {list}]]
      BY <2>1 DEF OfferOther, RoutingInv, OffersTyped
    <3>3. /\ offers \in [RoutingDay -> [Provider -> SUBSET ModelList]] /\ today \in RoutingDay
          /\ offers[today][p] \cup {list} \in SUBSET ModelList
      BY <3>1 DEF RoutingInv, OffersTyped
    <3>4. offers' \in [RoutingDay -> [Provider -> SUBSET ModelList]]
      BY <3>2, <3>3
    <3>5. \A d \in RoutingDay : \A q \in Provider :
            offers'[d][q] = IF d = today /\ q = p THEN offers[d][q] \cup {list} ELSE offers[d][q]
      BY <3>2, <3>3
    <3>6. \A d \in RoutingDay : d > today => d # today
      BY <3>3 DEF RoutingDay
    <3>7. /\ DOMAIN offered' = Provider /\ offered'[p] = list
          /\ \A q \in Provider \ {p} : offered'[q] = offered[q]
      BY <3>2 DEF RoutingInv, OffersTyped
    <3>8. OffersTyped'
      BY <3>1, <3>2, <3>3, <3>4, <3>5, <3>6, <3>7 DEF RoutingInv, OffersTyped
    <3> QED BY <3>5, <3>8
  <2>2. CASE DayEnds
    <3>1. /\ today' = today + 1 /\ UNCHANGED offered /\ today + 1 \in RoutingDay
          /\ offers' = [offers EXCEPT ![today + 1] = [p \in Provider |-> {offered[p]}]]
      BY <1>1, <2>2 DEF DayEnds
    <3>2. /\ offers \in [RoutingDay -> [Provider -> SUBSET ModelList]]
          /\ today + 1 > today /\ today + 1 # today
      BY <1>1 DEF RoutingInv, OffersTyped, RoutingDay
    <3>3. [p \in Provider |-> {offered[p]}] \in [Provider -> SUBSET ModelList]
      BY ListsOffered DEF RoutingInv
    <3>4. offers' \in [RoutingDay -> [Provider -> SUBSET ModelList]]
      BY <3>1, <3>2, <3>3
    <3>5. \A d \in RoutingDay : \A q \in Provider :
            offers'[d][q] = IF d = today + 1 THEN {offered[q]} ELSE offers[d][q]
      BY <3>1, <3>2
    <3>6. \A q \in Provider : offers[today + 1][q] = {}
      BY <3>1, <3>2 DEF RoutingInv, OffersTyped
    <3>7. \A d \in RoutingDay : d > today + 1 => d > today /\ d # today + 1
      BY <1>1 DEF RoutingDay
    <3>8. OffersTyped'
      BY <3>1, <3>4, <3>5, <3>7, ListsOffered DEF RoutingInv, OffersTyped
    <3> QED BY <3>5, <3>6, <3>8
  <2> QED BY <2>1, <2>2
<1>3. SettingsTyped' /\ ClaimsTyped'
  BY <1>1 DEF RoutingInv, SettingsTyped, ClaimsTyped
<1>4. \A p \in Provider : \A stored : stored.refreshed \in Stamp /\ StoredRow(p, stored) => StoredRow(p, stored)'
  <2>1. \A n \in Stamp : n <= today => n <= today'
    BY <1>1 DEF Stamp, RoutingDay, Never
  <2> QED BY <1>2, <2>1, OffersGrow DEF StoredRow
<1>5. ListsStored'
  <2>1. /\ workspace.refreshed \in Stamp /\ \A p \in Provider : credential[p].refreshed \in Stamp
        /\ edit.op = "sync" => edit.provider \in Provider /\ edit.row.refreshed \in Stamp
        /\ edit.op \in {"save", "mirror", "default"} => edit.provider \in Provider
    BY DEF RoutingInv, SettingsTyped, WorkspaceRow, CredentialRow, RoutingEdit, NoEdit
  <2>2. workspace.refreshed <= today'
    BY <1>1, <2>1 DEF RoutingInv, ListsStored, Stamp, RoutingDay, Never
  <2>3. \A p \in Provider : StoredRow(p, credential[p])'
    BY <1>1, <1>4, <2>1 DEF RoutingInv, ListsStored
  <2>4. edit.op \in {"save", "mirror", "default"} => edit.catalog \in offers'[today'][edit.provider]
    BY <1>1, <1>2, <2>1 DEF RoutingInv, ListsStored, NoEdit
  <2>5. edit.op = "sync" => StoredRow(edit.provider, edit.row)'
    BY <1>1, <1>4, <2>1 DEF RoutingInv, ListsStored
  <2> QED BY <1>1, <2>2, <2>3, <2>4, <2>5 DEF RoutingInv, ListsStored
<1>6. CatalogStored'
  BY <1>1, <1>2, OffersGrow DEF RoutingInv, CatalogStored, Endpoint
<1>7. ASSUME NEW r \in RoutedRun, r \in Routing'
      PROVE  /\ routing[r].started = today'
             /\ routing[r].clean => edit' = NoEdit
             /\ routing[r].at = "loaded" /\ routing[r].clean => routing[r].provider = Endpoint'.provider
             /\ routing[r].at = "asking" /\ routing[r].clean => NoneOrOffered(routing[r].provider, routing[r].catalog, 0)'
             /\ routing[r].at = "answered" => /\ routing[r].catalog # <<>>
                                              /\ routing[r].catalog \in offers'[today'][routing[r].provider]
  <2>1. r \in Routing /\ today' = today
    BY <1>1, <1>7 DEF Routing
  <2>2. routing[r].provider \in Provider
    BY <2>1 DEF RoutingInv, ClaimsTyped, Routing, Claim, Loaded, Reading, Sent
  <2>3. NoneOrOffered(routing[r].provider, routing[r].catalog, 0)
          => NoneOrOffered(routing[r].provider, routing[r].catalog, 0)'
    BY <1>1, <1>2, <2>2, OffersGrow
  <2>4. offers[today][routing[r].provider] \subseteq offers'[today'][routing[r].provider]
    BY <1>1, <1>2, <2>1, <2>2
  <2> QED BY <1>1, <2>1, <2>3, <2>4 DEF RoutingInv, ClaimsRead, Endpoint
<1>8. ClaimsRead'
  BY <1>1, <1>7 DEF ClaimsRead, Routing
<1>9. ASSUME NEW r \in RoutedRun PROVE Current(routing[r])'
  <2>1. PICK run : run = routing[r]
    OBVIOUS
  <2>2. run \in Claim \cup Loaded \cup Reading \cup Sent /\ Current(run)
    BY <2>1, CurrentRoutes DEF RoutingInv, ClaimsTyped
  <2>3. Current(run)'
    BY <1>2, <2>2, CurrentStays
  <2> QED BY <1>1, <2>1, <2>3 DEF Current
<1>10. RoutesAreCurrent'
  BY <1>9 DEF RoutesAreCurrent, Current
<1> QED BY <1>2, <1>3, <1>5, <1>6, <1>8, <1>10 DEF RoutingInv

\* The invariant holds of a new workspace and of one whose providers are tested.
LEMMA RoutingInvInit == RoutingInit => RoutingInv
<1> SUFFICES ASSUME RoutingInit PROVE RoutingInv
  OBVIOUS
<1>1. ASSUME NEW p \in Provider PROVE offered[p] \in ModelList /\ offered[p] # <<>>
  <2>1. Offers[p][1] \in Range(Offers[p])
    BY RoutingAssumption DEF Range
  <2>2. offered[p] \in Range(Offers[p])
    BY <2>1 DEF RoutingInit
  <2>3. Range(Offers[p]) \subseteq ModelList \ {<<>>}
    BY RoutingAssumption DEF ModelList
  <2> QED BY <2>2, <2>3
<1>2. 0 \in RoutingDay /\ today = 0
  BY RoutingAssumption DEF RoutingInit, RoutingDay
<1>3. /\ offers \in [RoutingDay -> [Provider -> SUBSET ModelList]]
      /\ \A d \in RoutingDay : \A p \in Provider : offers[d][p] = IF d = 0 THEN {offered[p]} ELSE {}
  BY <1>1 DEF RoutingInit, RoutingDay
<1>4. OffersTyped
  <2>1. \A d \in RoutingDay : d > today => d # 0
    BY <1>2 DEF RoutingDay
  <2> QED BY <1>1, <1>2, <1>3, <2>1 DEF OffersTyped, RoutingInit
<1>5. \A p \in Provider : OfferedSince(p, offered[p], 0)
  <2>1. \A p \in Provider : offers[0][p] = {offered[p]}
    BY <1>2, <1>3
  <2>2. \A p \in Provider : offered[p] \in offers[0][p]
    BY <2>1
  <2>3. 0 <= 0
    OBVIOUS
  <2> QED BY <1>2, <2>2, <2>3 DEF OfferedSince
<1>6. edit = NoEdit /\ edit \in RoutingEdit /\ edit.op = "none" /\ mixed = FALSE
  BY DEF RoutingInit, RoutingEdit, NoEdit
<1>7. SettingsTyped /\ ListsStored /\ CatalogStored
  <2>1. CASE /\ workspace = [provider |-> NoProvider, model |-> NoModel, tiers |-> NoTiers,
                             catalog |-> <<>>, refreshed |-> Never]
             /\ planning = NoProvider /\ credential = [p \in Provider |-> NoRow]
    <3>1. NoRow \in CredentialRow /\ \A p \in Provider : StoredRow(p, NoRow)
      BY <1>2, ListOfModels DEF NoRow, CredentialRow, Stamp, Never, StoredRow, NoneOrOffered
    <3>2. SettingsTyped
      BY <1>6, <2>1, <3>1, ListOfModels DEF SettingsTyped, WorkspaceRow, MaybeModel, NoTiers, Stamp
    <3>3. ListsStored
      BY <1>2, <1>6, <2>1, <3>1 DEF ListsStored, Never
    <3> QED BY <2>1, <3>2, <3>3 DEF CatalogStored, NoneOrOffered
  <2>2. CASE /\ credential = [p \in Provider |-> Tested(offered[p])] /\ planning \in Provider
             /\ workspace = Synced(planning, credential[planning])
    <3>1. \A p \in Provider : /\ Tested(offered[p]) \in CredentialRow /\ Tested(offered[p]).refreshed = 0
                              /\ Tested(offered[p]).catalog = offered[p]
                              /\ StoredRow(p, Tested(offered[p]))
      BY <1>1, <1>2, <1>5 DEF Tested, CredentialRow, Stamp, Never, StoredRow, NoneOrOffered
    <3>2. /\ workspace \in WorkspaceRow /\ workspace.refreshed = 0 /\ workspace.catalog = offered[planning]
      <4>1. AdapterModel[planning] \in Model /\ DefaultModel[planning] \in [ModelTier -> Model]
        BY <2>2, RoutingAssumption
      <4>2. DefaultModel[planning] \in [ModelTier -> MaybeModel]
        BY <4>1 DEF MaybeModel
      <4>3. StampOf(credential[planning]) = 0
        BY <1>2, <2>2, <3>1 DEF StampOf, Never
      <4> QED BY <1>1, <1>2, <2>2, <3>1, <4>1, <4>2, <4>3 DEF Synced, WorkspaceRow, MaybeModel, Stamp
    <3>3. SettingsTyped
      BY <1>6, <2>2, <3>1, <3>2 DEF SettingsTyped
    <3>4. ListsStored
      BY <1>2, <1>6, <2>2, <3>1, <3>2 DEF ListsStored
    <3>5. Endpoint.provider = planning
      BY <2>2, RoutingAssumption DEF Endpoint
    <3> QED BY <1>5, <2>2, <3>2, <3>3, <3>4, <3>5 DEF CatalogStored, NoneOrOffered
  <2> QED BY <2>1, <2>2 DEF RoutingInit
<1>8. ClaimsTyped /\ ClaimsRead /\ RoutesAreCurrent
  BY DEF RoutingInit, ClaimsTyped, ClaimsRead, RoutesAreCurrent, Routing, Claim, NoTiers
<1> QED BY <1>4, <1>7, <1>8 DEF RoutingInv

\* Each step of a run, of the person at the settings and of the providers keeps it.
LEMMA RoutingInvStep == RoutingInv /\ [RoutingNext]_routingVars => RoutingInv'
<1> SUFFICES ASSUME RoutingInv, [RoutingNext]_routingVars PROVE RoutingInv'
  OBVIOUS
<1>1. CASE UNCHANGED routingVars
  <2>1. UNCHANGED <<worldVars, today, offers, edit, planning, workspace, credential, mixed, routing, pinned, chosen>>
    BY <1>1 DEF routingVars, worldVars, wishVars, editVars
  <2> QED BY <2>1, SettingsStand, SettingsChange DEF RoutingInv, ClaimsTyped
<1>2. CASE RoutingNext
  <2>1. ASSUME NEW p \in Provider, NEW m \in Entered[p], StartSave(p, m) PROVE RoutingInv'
    BY <2>1, EditBegins
  <2>2. ASSUME NEW p \in Provider, StartActivatePlanning(p) PROVE RoutingInv'
    BY <2>2, EditBegins
  <2>3. ASSUME NEW r \in RoutedRun, \E tier \in AskedTier : ResolveForRun(r, tier) PROVE RoutingInv'
    BY <2>3, ClaimLoads
  <2>4. ASSUME NEW r \in RoutedRun, ReadPolicy(r) PROVE RoutingInv'
    BY <2>4, ClaimReads
  <2>5. ASSUME NEW r \in RoutedRun, AskProvider(r) PROVE RoutingInv'
    BY <2>5, ClaimAsks
  <2>6. ASSUME NEW r \in RoutedRun, \E written \in BOOLEAN : StoreCatalog(r, written) PROVE RoutingInv'
    BY <2>6, ClaimStores
  <2> QED BY <1>2, <2>1, <2>2, <2>3, <2>4, <2>5, <2>6, EditGoesOn, SmallEdit, OffersChange DEF RoutingNext
<1> QED BY <1>1, <1>2

\* A run is sent to a model that its own provider has offered within a day.
THEOREM RoutesStayCurrent == RoutingSpec => []RoutesAreCurrent
<1>1. RoutingInv => RoutesAreCurrent
  BY DEF RoutingInv
<1> QED BY <1>1, RoutingInvInit, RoutingInvStep, PTL DEF RoutingSpec
=============================================================================
