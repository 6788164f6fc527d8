---------------------------- MODULE RunLifecycle ----------------------------
(***************************************************************************)
(* What the durable run queue promises, whatever its leases, backoffs and  *)
(* workers do.  A run is submitted once, waits, works, may be parked, and  *)
(* ends; once ended it never moves again.  At most one run works for an    *)
(* agent, and a run is started at most MaxAttempts times unless a step     *)
(* resumes it without using up an attempt.                                 *)
(*                                                                         *)
(* Several runs may move in one step: the reaper, a ticket's cancellation  *)
(* and an agent's switch each rewrite a set of rows in one transaction.    *)
(***************************************************************************)
EXTENDS Naturals

CONSTANTS Run,          \* every run that may ever be submitted
          Seat,         \* what a run may occupy alone: an agent
          NoSeat,       \* a run that needs no agent
          MaxAttempts   \* attempts a run may use up

VARIABLES phase,        \* where the run stands
          tries,        \* attempts used up
          seat          \* the seat the run needs

absVars == <<phase, tries, seat>>

Phase == {"absent", "waiting", "working", "parked", "ended"}

\* Where a run may go from each phase, in one step.
Edge == {<<"absent", "waiting">>,
         <<"waiting", "working">>, <<"waiting", "parked">>, <<"waiting", "ended">>,
         <<"working", "waiting">>, <<"working", "parked">>, <<"working", "ended">>,
         <<"parked", "waiting">>, <<"parked", "ended">>}

Exclusive(ph, st) ==
  \A r, s \in Run : /\ ph[r] = "working" /\ ph[s] = "working"
                    /\ st[r] = st[s] /\ st[r] # NoSeat
                    => r = s

AbsInit == /\ phase = [r \in Run |-> "absent"]
           /\ tries = [r \in Run |-> 0]
           /\ seat \in [Run -> Seat \cup {NoSeat}]

\* One run's part of a step.  Only leaving work uses an attempt, and a run
\* that is to work again still has one left.
Moves(r) ==
  /\ phase'[r] # phase[r] => <<phase[r], phase'[r]>> \in Edge
  /\ tries'[r] \in {tries[r], tries[r] + 1}
  /\ tries'[r] # tries[r] => phase[r] = "working" /\ phase'[r] \in {"waiting", "ended"}
  /\ phase'[r] \in {"waiting", "working", "parked"} => tries'[r] < MaxAttempts
  /\ seat'[r] # seat[r] => seat'[r] = NoSeat

AbsNext == /\ phase' \in [Run -> Phase]
           /\ tries' \in [Run -> Nat]
           /\ seat' \in [Run -> Seat \cup {NoSeat}]
           /\ \A r \in Run : Moves(r)
           /\ Exclusive(phase', seat')

AbsSpec == AbsInit /\ [][AbsNext]_absVars
=============================================================================
