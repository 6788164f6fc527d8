----------------------------- MODULE MCRunQueue -----------------------------
(***************************************************************************)
(* Small instances, side by side, of the two places where agents keep one  *)
(* another out or waiting: of RunQueue with two runs of one agent and one  *)
(* ticket, one of them in the cloud, and two workers that race for them;   *)
(* and of FleetWaits with three agents over three minutes.  They share no  *)
(* variable: one moves while the other stands at its start.                *)
(***************************************************************************)
EXTENDS RunQueue, FleetWaits, TLC

CONSTANTS r1, r2, a1, t1, w1, w2, b1, b2, b3

MCAgentFor == [r \in Run |-> a1]
MCTicketFor == [r \in Run |-> t1]
Symmetry == Permutations({w1, w2}) \cup Permutations(Waiter)

QueueFleetInit == Init /\ FleetInit

QueueFleetNext ==
  \/ FleetInit /\ Next /\ UNCHANGED fleetVars
  \/ Init /\ FleetNext /\ UNCHANGED queueVars

QueueFleetSpec == QueueFleetInit /\ [][QueueFleetNext]_<<queueVars, fleetVars>>
=============================================================================
