------------------------- MODULE MCTicketDispatcher -------------------------
(***************************************************************************)
(* A small instance of TicketDispatcher: three tickets, of which a sweep   *)
(* takes two, the first two ready from the start, the first under the path *)
(* and the third of the flow; three agents, of whom a3 is no developer.    *)
(***************************************************************************)
EXTENDS TicketDispatcher

CONSTANTS t1, t2, t3, a1, a2, a3

MCByPriority == <<t1, t2, t3>>
MCFirstPath == [owner |-> a1, backup |-> a3]
MCFirstFlow == [owner |-> a1, backup |-> a2]
=============================================================================
