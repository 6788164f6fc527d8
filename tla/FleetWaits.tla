----------------------------- MODULE FleetWaits -----------------------------
(***************************************************************************)
(* The deadlock breaker of the backend (fleet/service/                     *)
(* DeadlockBreakerService.java and HealingGuardrailService.java): agents   *)
(* report by heartbeats on whom they wait, and a sweep records a debt of a *)
(* draft contract for every ring of agents that wait on one another.       *)
(*                                                                         *)
(* The agents are outside.  A heartbeat says what its sender waited on and *)
(* since when, at the moment it was sent; it may be lost, late or overtake *)
(* another, and arrives within MaxDelay.  Agents of one workspace; the     *)
(* healing scan records the same rings without asking how long they stand. *)
(***************************************************************************)
EXTENDS Integers, SequencesExt

CONSTANTS Waiter, NoWaiter,
          Window,      \* HEARTBEAT_WINDOW
          Timeout,     \* DEADLOCK_TIMEOUT
          MaxDelay,
          MaxClock, MaxSince   \* bounds of the model: no wait begins after MaxSince

ASSUME FleetAssumption ==
  /\ NoWaiter \notin Waiter /\ IsFiniteSet(Waiter)
  /\ Window \in Nat /\ Timeout \in Nat /\ MaxDelay \in Nat
  /\ MaxClock \in Nat /\ MaxSince \in Nat
  /\ Window + MaxDelay < Timeout

VARIABLES
  clock,
  heartbeat,   \* the latest row of each agent that has one in the window
  debts        \* what the latest sweep recorded: when, and the rings

fleetVars == <<clock, heartbeat, debts>>

FleetInit ==
  /\ clock = 0
  /\ heartbeat = [a \in {} |-> 0]
  /\ debts = [at |-> 0, rings |-> {}]

\* FleetController.heartbeat: the row of an agent that waits, or of one that does not.
RecordHeartbeat(a, on, since, sent) ==
  /\ on = NoWaiter => since = 0
  /\ heartbeat' = [b \in DOMAIN heartbeat \cup {a} |->
       IF b = a THEN [on |-> on, since |-> since, sent |-> sent, seen |-> clock] ELSE heartbeat[b]]
  /\ UNCHANGED <<clock, debts>>

\* Time passes; what leaves the window is never read again.
Minute ==
  /\ clock < MaxClock /\ clock' = clock + 1
  /\ heartbeat' = [a \in {b \in DOMAIN heartbeat : clock' - heartbeat[b].seen <= Window}
                      |-> heartbeat[a]]
  /\ UNCHANGED debts

-----------------------------------------------------------------------------
\* The agents in the graph, and whom each waits on.
WaitGraph == [a \in {b \in DOMAIN heartbeat : heartbeat[b].on # NoWaiter} |-> heartbeat[a].on]

\* One walk of detectCycles: until it leaves the graph, meets an earlier walk, or
\* comes back to where it has been; the part from there on is a ring.
Walk(graph, start, visited) ==
  LET n == Cardinality(Waiter)
      node[i \in 0 .. n] ==
        IF i = 0 THEN start
        ELSE IF node[i - 1] \in DOMAIN graph THEN graph[node[i - 1]] ELSE NoWaiter
      ends == {i \in 0 .. n : \/ node[i] \in visited \cup {NoWaiter}
                              \/ \E j \in 0 .. i - 1 : node[j] = node[i]}
      end == Min(ends)
      back == {j \in 0 .. end - 1 : node[j] = node[end]} IN
  [path |-> {node[i] : i \in 0 .. end - 1},
   ring |-> IF node[end] \in visited \/ back = {} THEN <<>>
            ELSE [i \in 1 .. end - Min(back) |-> node[Min(back) + i - 1]]]

\* detectCycles: a walk from each agent that no earlier one has met, in the order of
\* the hash map.
DetectCycles(graph, order) ==
  LET Visit(found, start) ==
        LET walk == Walk(graph, start, found.visited) IN
        IF start \in found.visited THEN found
        ELSE [visited |-> found.visited \cup walk.path,
              rings |-> IF walk.ring = <<>> THEN found.rings ELSE Append(found.rings, walk.ring)] IN
  FoldLeft(Visit, [visited |-> {}, rings |-> <<>>], order).rings

\* Some member, not each of them, has waited so long.
AnyTimedOut(ring) == \E i \in DOMAIN ring : clock - heartbeat[ring[i]].since >= Timeout
\* Every member has a row and has waited so long by it.
AllTimedOut(ring) ==
  \A i \in DOMAIN ring : ring[i] \in DOMAIN heartbeat /\ clock - heartbeat[ring[i]].since >= Timeout

\* DeadlockBreakerService.sweep: a debt for each ring, in one transaction.
Sweep(order) ==
  /\ debts' = [at |-> clock,
               rings |-> {ring \in ToSet(DetectCycles(WaitGraph, order)) : AllTimedOut(ring)}]
  /\ UNCHANGED <<clock, heartbeat>>

FleetNext ==
  \/ \E a \in Waiter, on \in Waiter \cup {NoWaiter}, sent \in 0 .. clock :
       /\ clock - sent <= MaxDelay
       /\ \E since \in 0 .. Min({sent, MaxSince}) : RecordHeartbeat(a, on, since, sent)
  \/ Minute
  \/ \E order \in SetToSeqs(DOMAIN WaitGraph) : Sweep(order)

FleetSpec == FleetInit /\ [][FleetNext]_fleetVars
-----------------------------------------------------------------------------
\* Types; a row is in the window, and says of its sender what was so before it came.
FleetTypeOK ==
  /\ clock \in 0 .. MaxClock
  /\ \A a \in DOMAIN heartbeat :
       /\ a \in Waiter /\ heartbeat[a].on \in Waiter \cup {NoWaiter}
       /\ 0 <= heartbeat[a].since /\ heartbeat[a].since <= heartbeat[a].sent
       /\ heartbeat[a].sent \in heartbeat[a].seen - MaxDelay .. heartbeat[a].seen
       /\ heartbeat[a].seen \in clock - Window .. clock
  /\ debts.at \in 0 .. clock /\ \A ring \in debts.rings : ToSet(ring) \subseteq Waiter

\* The sets of agents that wait in a ring, by their latest rows.
Ring(S) ==
  LET closed == {R \in (SUBSET S) \ {{}} : \A a \in R : a \in DOMAIN WaitGraph /\ WaitGraph[a] \in R} IN
  closed = {S}

\* A sweep records a debt only for agents of which each has waited on the next, and the
\* last on the first, all at once, from Timeout ago until Window and a delay ago, though
\* their heartbeats were sent at different times and may have come late or in another
\* order; and it records exactly one for every ring whose agents all have waited so long,
\* whatever leads into the ring and in whatever order the graph is walked.
SweepsFindDeadlocks ==
  [][debts' # debts =>
       /\ \A ring \in debts'.rings : \A i \in DOMAIN ring :
            LET row == heartbeat[ring[i]] IN
            /\ row.on = ring[IF i = Len(ring) THEN 1 ELSE i + 1]
            /\ \A t \in clock - Timeout .. clock - Window - MaxDelay : row.since <= t /\ t <= row.sent
       /\ \A S \in SUBSET DOMAIN WaitGraph :
            Ring(S) /\ (\A a \in S : clock - heartbeat[a].since >= Timeout) =>
              \E ring \in debts'.rings :
                ToSet(ring) = S /\ \A other \in debts'.rings : ToSet(other) = S => other = ring]_fleetVars
=============================================================================
