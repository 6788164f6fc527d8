--------------------------- MODULE MCTicketEvents ---------------------------
(***************************************************************************)
(* A small instance of TicketEvents: two transitions, a patch, a note and  *)
(* an agent write of one ticket, over three of the pipeline's statuses.     *)
(***************************************************************************)
EXTENDS TicketEvents

CONSTANTS t1, t2, p1, n1, a1

MCKindOf == [c \in Call |-> CASE c \in {t1, t2} -> "transition" [] c = p1 -> "patch"
                              [] c = n1 -> "note" [] OTHER -> "agent"]
MCStatus == {"backlog", "ready_for_dev", "in_progress"}
MCHumanStatus == {"backlog", "ready_for_dev"}
MCLegal == {<<"backlog", "ready_for_dev">>, <<"ready_for_dev", "in_progress">>}
=============================================================================
