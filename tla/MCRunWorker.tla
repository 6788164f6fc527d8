---------------------------- MODULE MCRunWorker -----------------------------
(***************************************************************************)
(* Small instances of RunWorker: one run of one agent and one ticket, and  *)
(* two executors that may both come to hold it, of one worker or of two.   *)
(***************************************************************************)
EXTENDS RunWorker, TLC

CONSTANTS r1, a1, t1, w1, w2, e1, e2

MCAgentFor == [r \in Run |-> a1]
MCTicketFor == [r \in Run |-> t1]
MCOwnerOf == [e \in Slot |-> IF e = e1 \/ w2 \notin Worker THEN w1 ELSE w2]
=============================================================================
