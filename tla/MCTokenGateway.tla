--------------------------- MODULE MCTokenGateway ---------------------------
(***************************************************************************)
(* Small instances of TokenGateway: runs of one agent, r1 of a project     *)
(* that has a budget; calls for a local backend, c1, the urgent c4 and the *)
(* speculative c2, and c3 for a remote one.                                *)
(***************************************************************************)
EXTENDS TokenGateway, TLC

CONSTANTS r1, r2, c1, c2, c3, c4

MCBackendOf == [r \in Run |-> IF r \in Scoped THEN "project" ELSE "cloud"]
MCRuntimeOf == [r \in Run |-> "cloud"]
MCAmount == [r \in Run |-> 2]
MCCallBackend == [c \in Call |-> IF c = c3 THEN "cloud" ELSE "local"]
MCEstimate == [c \in Call |-> 1]
MCRank == [c \in Call |-> CASE c = c2 -> 5 [] c = c4 -> 2 [] OTHER -> 3]
=============================================================================
