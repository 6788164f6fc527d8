---------------------------- MODULE TokenGateway ----------------------------
(***************************************************************************)
(* The token gateway (services/tokenGateway.service.ts): completions that  *)
(* the setup path asks for.  A call checks the budget, reserves, waits in  *)
(* one of five priority queues for its backend, is dispatched and settled. *)
(* It shares the workspace's rows of the ledger with the runs, and does    *)
(* not take their lock.                                                    *)
(*                                                                         *)
(* One action is what one call does between two awaits; pushing to a       *)
(* queue, draining the queues and counting what is in flight happen within *)
(* such a step.  The queues, in the order drain() visits them, are one     *)
(* sequence.                                                               *)
(***************************************************************************)
EXTENDS TokenLedger, Sequences

CONSTANTS Call,          \* calls of invoke()
          CallBackend,   \* the backend each resolves to
          Estimate,      \* promptTokensEstimated
          Rank,          \* priority, 1 for p0_critical to 5 for speculative
          Local,         \* backends of type local
          Capacity,      \* their maxConcurrentRequests
          MaxDepth,      \* MAX_QUEUE_DEPTH
          Response       \* tokens of prompt and response together

ASSUME TokenGatewayAssumption ==
  /\ IsFiniteSet(Call)
  /\ \A c \in Call : CallBackend[c] \in Backend /\ Estimate[c] \in Nat /\ Rank[c] \in 1 .. 5
  /\ Local \subseteq Backend
  /\ Capacity \in Nat \ {0} /\ MaxDepth \in Nat /\ Response \subseteq Nat

VARIABLES
  stage,      \* where each call stands
  session,    \* the month its session id was computed in
  queue,      \* the queues, most urgent first
  inflight,   \* calls under way at each backend
  cost        \* history: the tokens a call was settled with

gatewayVars == <<stage, session, queue, inflight, cost>>
vars == <<ledgerVars, gatewayVars>>

CallStage == {"new", "admitted", "fits", "reserved", "queued", "sent", "answered", "broken",
              "done", "failed", "stuck", "rejected"}

GatewayTypeOK ==
  /\ LedgerTypeOK
  /\ stage \in [Call -> CallStage]
  /\ session \in [Call -> Month]
  /\ queue \in Seq(Call)
  /\ inflight \in [Backend -> Nat]
  /\ cost \in [Call -> Response \cup {0}]

GatewayInit ==
  /\ LedgerInit
  /\ stage = [c \in Call |-> "new"]
  /\ session = [c \in Call |-> 1]
  /\ queue = <<>>
  /\ inflight = [b \in Backend |-> 0]
  /\ cost = [c \in Call |-> 0]

-----------------------------------------------------------------------------
CallKey(c) == <<session[c], "workspace", CallBackend[c]>>
Sheddable(c) == Rank[c] >= 4

Becomes(c, st) == stage' = [stage EXCEPT ![c] = st]

\* canDispatch, with n calls at the backend.
CanDispatch(b, n) == b \in Local => n < Capacity

\* push: behind the calls of its own priority and of all that are more urgent.
Pushed(q, c) ==
  LET n == Cardinality({i \in DOMAIN q : Rank[q[i]] <= Rank[c]})
  IN SubSeq(q, 1, n) \o <<c>> \o SubSeq(q, n + 1, Len(q))

\* drain() on queue q with n calls at each backend: it starts the calls at the
\* front, one after the other, and returns at the first that cannot be dispatched.
Ahead(q, i, b) == Cardinality({j \in 1 .. i - 1 : CallBackend[q[j]] = b})
Starts(q, n) ==
  {i \in DOMAIN q :
     \A j \in 1 .. i : CanDispatch(CallBackend[q[j]],
                                   n[CallBackend[q[j]]] + Ahead(q, j, CallBackend[q[j]]))}
Drain(q, n, st) ==
  LET k == Cardinality(Starts(q, n))
      sent == {q[i] : i \in Starts(q, n)}
  IN /\ queue' = SubSeq(q, k + 1, Len(q))
     /\ inflight' = [b \in Backend |-> n[b] + Ahead(q, k + 1, b)]
     /\ stage' = [c \in Call |-> IF c \in sent THEN "sent" ELSE st[c]]

\* The finally of execute(): the call has left its backend.
LeaveQuietly(c, st) ==
  /\ inflight' = [inflight EXCEPT ![CallBackend[c]] = @ - 1]
  /\ Becomes(c, st)
  /\ UNCHANGED queue
Leave(c, st) == Drain(queue, [inflight EXCEPT ![CallBackend[c]] = @ - 1],
                      [stage EXCEPT ![c] = st])

-----------------------------------------------------------------------------
\* invoke() up to its first await: backpressure.  The session id, a bucket id of
\* this month, comes with the request.
Invoke(c) ==
  /\ stage[c] = "new"
  /\ Becomes(c, IF Sheddable(c) /\ Len(queue) >= MaxDepth THEN "rejected" ELSE "admitted")
  /\ session' = [session EXCEPT ![c] = month]
  /\ UNCHANGED <<ledgerVars, queue, inflight, cost>>

CheckBudget(c) ==
  /\ stage[c] = "admitted" /\ ConnectionFree
  /\ Becomes(c, IF Projected(session[c], "workspace", Backend) + Estimate[c] > WorkspaceLimit
                THEN "rejected" ELSE "fits")
  /\ UNCHANGED <<ledgerVars, session, queue, inflight, cost>>

ReserveForCall(c) ==
  /\ stage[c] = "fits" /\ ConnectionFree
  /\ Upsert({CallKey(c)}, Estimate[c])
  /\ Becomes(c, "reserved")
  /\ UNCHANGED <<month, used, lock, at, mon, agentMon, spent, crossed, faults, session, queue, inflight,
                 cost>>

\* The replay frame is written; then the call is pushed and the queues drained.
Enqueue(c) ==
  /\ stage[c] = "reserved" /\ ConnectionFree
  /\ Drain(Pushed(queue, c), inflight, [stage EXCEPT ![c] = "queued"])
  /\ UNCHANGED <<ledgerVars, session, cost>>

\* One of those statements throws: invoke() rejects, and a reservation already made
\* stays.
InvokeThrows(c) ==
  /\ stage[c] \in {"admitted", "fits", "reserved"} /\ Fault
  /\ Becomes(c, IF stage[c] = "reserved" THEN "stuck" ELSE "rejected")
  /\ UNCHANGED <<month, rows, used, reserved, lock, at, mon, agentMon, spent, crossed, session, queue, inflight, cost>>

\* execute(): the frame, the provider, the frame again; ...
Answer(c) ==
  /\ stage[c] = "sent" /\ ConnectionFree
  /\ Becomes(c, "answered")
  /\ UNCHANGED <<ledgerVars, session, queue, inflight, cost>>

\* ... consume() and the caller's promise; ...
Consume(c, n) ==
  /\ stage[c] = "answered" /\ ConnectionFree
  /\ Charge(CallKey(c), n, Estimate[c])
  /\ cost' = [cost EXCEPT ![c] = n]
  /\ Leave(c, "done")
  /\ UNCHANGED <<month, rows, lock, at, mon, agentMon, spent, crossed, faults, session>>

\* ... any of them throws, ...
Break(c) ==
  /\ stage[c] \in {"sent", "answered"} /\ Fault
  /\ Becomes(c, "broken")
  /\ UNCHANGED <<month, rows, used, reserved, lock, at, mon, agentMon, spent, crossed, session, queue, inflight, cost>>

\* ... and the catch releases the reservation, or fails to for the same trouble and
\* says nothing.
GiveUp(c) ==
  /\ stage[c] = "broken" /\ ConnectionFree
  /\ \/ Charge(CallKey(c), 0, Estimate[c]) /\ Leave(c, "failed")
     \/ UNCHANGED <<used, reserved>> /\ Leave(c, "stuck")
  /\ UNCHANGED <<month, rows, lock, at, mon, agentMon, spent, crossed, faults, session, cost>>

Goes(c) ==
  \/ CheckBudget(c) \/ ReserveForCall(c) \/ Enqueue(c) \/ Answer(c) \/ GiveUp(c)
  \/ \E n \in Response : Consume(c, n)

GatewayNext ==
  \/ \E c \in Call : Invoke(c) \/ InvokeThrows(c) \/ Break(c) \/ Goes(c)
  \/ (NextMonth \/ \E r \in Run : RunTokens(r)) /\ UNCHANGED gatewayVars

GatewaySpec == GatewayInit /\ [][GatewayNext]_vars

\* Every await of a call comes back: statements, and completions under the providers'
\* time limits.
FairGatewaySpec == GatewaySpec /\ LedgerFairness /\ \A c \in Call : WF_vars(Goes(c))

-----------------------------------------------------------------------------
\* What runs and calls have reserved in a row and not yet given back, ...
CallsIn(k) == {c \in Call : CallKey(c) = k}
RunsIn(k) == {r \in Run : k = WorkspaceKey(mon[r], r) \/ k = AgentKey(agentMon[r], r)}
OpenOfRun(k) == {r \in RunsIn(k) : at[r] \in {"held"} \cup (IF k[2] = "agent" THEN {"half", "torn"} ELSE {})}
OpenOfCall(k) == {c \in CallsIn(k) : stage[c] \in {"reserved", "queued", "sent", "answered",
                                                   "broken", "stuck"}}
\* ... and what they have been settled with there.
SpentOfRun(k) == {r \in RunsIn(k) : at[r] \in {"done"} \cup (IF k[2] = "workspace" THEN {"half", "torn"} ELSE {})}

\* Every row of the ledger counts exactly the open reservations and the usage of
\* those that reserved there, run or call, whatever interleaves or fails: no
\* reservation is released twice, or from another row.  Only a run settled in
\* another month breaks it.
LedgerExact ==
  crossed = {} =>
    \A k \in Key :
      /\ reserved[k] = SumFunctionOnSet(Amount, OpenOfRun(k))
                       + SumFunctionOnSet(Estimate, OpenOfCall(k))
      /\ used[k] = SumFunctionOnSet(spent, SpentOfRun(k)) + SumFunctionOnSet(cost, CallsIn(k))

AtBackend(b) == {c \in Call : CallBackend[c] = b /\ stage[c] \in {"sent", "answered", "broken"}}

\* No call waits while its turn could come: whoever is first in the queues waits
\* for a backend that is full of calls under way, the last of which will drain again;
\* and no local backend is over its capacity.
NobodyWaitsIdly ==
  /\ queue # <<>> => ~CanDispatch(CallBackend[Head(queue)], inflight[CallBackend[Head(queue)]])
  /\ \A b \in Backend : inflight[b] = Cardinality(AtBackend(b))
  /\ \A b \in Local : inflight[b] <= Capacity

\* Every call is answered or refused, also one of the lowest priority behind a
\* full backend, and also when calls before it fail.
CallsEnd == \A c \in Call : stage[c] = "admitted" ~> stage[c] \in {"done", "failed", "stuck", "rejected"}
=============================================================================
