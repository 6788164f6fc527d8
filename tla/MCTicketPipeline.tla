-------------------------- MODULE MCTicketPipeline --------------------------
(***************************************************************************)
(* Small instances of TicketPipeline: two executors and one fix round for  *)
(* each gate.                                                              *)
(***************************************************************************)
EXTENDS TicketPipeline, TLC

CONSTANTS e1, e2

Symmetry == Permutations(Slot)
=============================================================================
