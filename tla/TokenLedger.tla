---------------------------- MODULE TokenLedger -----------------------------
(***************************************************************************)
(* The token ledger (services/runs/budget.ts): one row of token_ledger per *)
(* month, scope and backend, where the scope is the workspace or the run's *)
(* agent, and the reservations that runs take from it and settle.          *)
(*                                                                         *)
(* reserveRun is one transaction under an advisory lock of the workspace,  *)
(* one action per statement; settleRun is two statements and no            *)
(* transaction, and takes no lock.  The month is read from the clock each  *)
(* time a bucket id is computed, so it may change between any two of them. *)
(* Who settles a run, and that it is settled once, is RunWorker's matter;  *)
(* here each reservation is settled at most once.  One workspace, one      *)
(* agent that has a budget, one project.                                   *)
(*                                                                         *)
(* The transaction keeps one connection of the process's pool throughout,  *)
(* while it waits for the lock too, and its two sums are queries on a      *)
(* second one.  Every other statement here borrows one for its own time,   *)
(* so it needs one that no transaction keeps.                              *)
(***************************************************************************)
EXTENDS Naturals, FiniteSets, Functions

CONSTANTS Run,              \* runs, each of which reserves once
          NoRun,
          Backend,          \* values of backend_id
          BackendOf,        \* the backend of the workspace's row that a run uses
          RuntimeOf,        \* the backend of its agent's row
          Amount,           \* what estimateFor says
          Scoped,           \* runs of the project that has a budget and a backend_id of its own
          WorkspaceLimit,   \* floor(limit * TOKEN_BUDGET_HARD_RATIO), ...
          ProjectLimit,     \* ... of each kind of limit
          AgentLimit,
          Actual,           \* what a run may turn out to have used
          Connections,      \* the pool's max
          LastMonth,        \* bound of the model
          MaxFaults         \* bound of the model: statements that throw, crashes

ASSUME TokenLedgerAssumption ==
  /\ NoRun \notin Run /\ IsFiniteSet(Run) /\ IsFiniteSet(Backend)
  /\ Scoped \subseteq Run /\ \A r, s \in Scoped : BackendOf[r] = BackendOf[s]
  /\ \A r \in Run : /\ BackendOf[r] \in Backend /\ RuntimeOf[r] \in Backend
                    /\ Amount[r] \in Nat \ {0}
  /\ {WorkspaceLimit, ProjectLimit, AgentLimit, MaxFaults} \cup Actual \subseteq Nat
  /\ {Connections, LastMonth} \subseteq Nat \ {0}

VARIABLES
  month,      \* the clock's month
  rows,       \* the rows that exist
  used,       \* tokens_used
  reserved,   \* tokens_reserved
  lock,       \* the run whose transaction holds the advisory lock
  at,         \* where each run stands
  mon,        \* the month of its workspace bucket, computed before the lock
  agentMon,   \* the month of its agent bucket, computed at the insert
  spent,      \* history: what it was settled with
  crossed,    \* history: runs settled in another month than they reserved in
  faults      \* history: how many faults there were

ledgerVars == <<month, rows, used, reserved, lock, at, mon, agentMon, spent, crossed, faults>>

Month == 1 .. LastMonth
Key == Month \X {"workspace", "agent"} \X Backend
RunStage == {"new", "waiting", "locked", "fits", "admitted", "held", "half", "torn", "done", "refused"}

LedgerTypeOK ==
  /\ month \in Month
  /\ rows \subseteq Key
  /\ used \in [Key -> Nat] /\ reserved \in [Key -> Nat]
  /\ lock \in Run \cup {NoRun}
  /\ at \in [Run -> RunStage]
  /\ mon \in [Run -> Month] /\ agentMon \in [Run -> Month]
  /\ spent \in [Run -> Actual \cup {0}]
  /\ crossed \subseteq Run
  /\ faults \in 0 .. MaxFaults

LedgerInit ==
  /\ month = 1
  /\ rows = {}
  /\ used = [k \in Key |-> 0] /\ reserved = [k \in Key |-> 0]
  /\ lock = NoRun
  /\ at = [r \in Run |-> "new"]
  /\ mon = [r \in Run |-> 1] /\ agentMon = [r \in Run |-> 1]
  /\ spent = [r \in Run |-> 0]
  /\ crossed = {}
  /\ faults = 0

-----------------------------------------------------------------------------
\* SELECT SUM(tokens_used + tokens_reserved) over some backends of a bucket.
Projected(m, scope, backends) ==
  SumFunctionOnSet([b \in Backend |-> used[<<m, scope, b>>] + reserved[<<m, scope, b>>]], backends)

\* INSERT ... ON CONFLICT DO UPDATE of n reserved tokens.
Upsert(keys, n) ==
  /\ rows' = rows \cup keys
  /\ reserved' = [k \in Key |-> IF k \in keys THEN reserved[k] + n ELSE reserved[k]]

\* UPDATE ... GREATEST(0, tokens_reserved - back): no row, no effect.
Charge(k, n, back) ==
  IF k \in rows
  THEN /\ used' = [used EXCEPT ![k] = @ + n]
       /\ reserved' = [reserved EXCEPT ![k] = IF @ > back THEN @ - back ELSE 0]
  ELSE UNCHANGED <<used, reserved>>

WorkspaceKey(m, r) == <<m, "workspace", BackendOf[r]>>
AgentKey(m, r) == <<m, "agent", RuntimeOf[r]>>

GoesTo(r, stage) == at' = [at EXCEPT ![r] = stage]

InTransaction == {r \in Run : at[r] \in {"waiting", "locked", "fits", "admitted"}}
ConnectionFree == Cardinality(InTransaction) < Connections

Fault == faults < MaxFaults /\ faults' = faults + 1

-----------------------------------------------------------------------------
\* reserveRun: the workspace's bucket id first, then BEGIN and the lock.
Begin(r) ==
  /\ at[r] = "new" /\ ConnectionFree
  /\ GoesTo(r, "waiting")
  /\ mon' = [mon EXCEPT ![r] = month]
  /\ UNCHANGED <<month, rows, used, reserved, lock, agentMon, spent, crossed, faults>>

LockNothing(r) ==
  /\ at[r] = "waiting"
  /\ lock' = r
  /\ GoesTo(r, "locked")
  /\ UNCHANGED <<month, rows, used, reserved, mon, agentMon, spent, crossed, faults>>
Lock(r) ==
  /\ at[r] = "waiting" /\ lock = NoRun
  /\ lock' = r
  /\ GoesTo(r, "locked")
  /\ UNCHANGED <<month, rows, used, reserved, mon, agentMon, spent, crossed, faults>>

\* A project with a budget is held to that, over its own rows alone; any other
\* to the workspace's, over all rows.
Fits(r) ==
  IF r \in Scoped
  THEN Projected(mon[r], "workspace", {BackendOf[r]}) + Amount[r] <= ProjectLimit
  ELSE Projected(mon[r], "workspace", Backend) + Amount[r] <= WorkspaceLimit

RefuseInTransaction(r) ==
  /\ at[r] = "locked" /\ ConnectionFree
  /\ GoesTo(r, IF Fits(r) THEN "fits" ELSE "refused")
  /\ UNCHANGED <<month, rows, used, reserved, lock, mon, agentMon, spent, crossed, faults>>
CheckWorkspace(r) ==
  /\ at[r] = "locked" /\ ConnectionFree
  /\ IF Fits(r) THEN GoesTo(r, "fits") /\ UNCHANGED lock
                ELSE GoesTo(r, "refused") /\ lock' = NoRun
  /\ UNCHANGED <<month, rows, used, reserved, mon, agentMon, spent, crossed, faults>>

CheckAgent(r) ==
  /\ at[r] = "fits" /\ ConnectionFree
  /\ IF Projected(month, "agent", Backend) + Amount[r] <= AgentLimit
     THEN GoesTo(r, "admitted") /\ UNCHANGED lock
     ELSE GoesTo(r, "refused") /\ lock' = NoRun
  /\ UNCHANGED <<month, rows, used, reserved, mon, agentMon, spent, crossed, faults>>

\* Both INSERTs and COMMIT; the agent's bucket id is computed again.
Reserve(r) ==
  /\ at[r] = "admitted"
  /\ agentMon' = [agentMon EXCEPT ![r] = month]
  /\ Upsert({WorkspaceKey(mon[r], r), AgentKey(month, r)}, Amount[r])
  /\ GoesTo(r, "held") /\ lock' = NoRun
  /\ UNCHANGED <<month, used, mon, spent, crossed, faults>>

\* A statement throws: ROLLBACK.
RollBack(r) ==
  /\ Fault
  /\ at[r] \in {"waiting", "locked", "fits", "admitted"}
  /\ GoesTo(r, "refused")
  /\ lock' = IF lock = r THEN NoRun ELSE lock
  /\ UNCHANGED <<month, rows, used, reserved, mon, agentMon, spent, crossed>>

\* settleRun, or releaseRun with n = 0: the workspace's row of this month, ...
Settle(r, n) ==
  /\ at[r] = "held" /\ ConnectionFree
  /\ Charge(WorkspaceKey(month, r), n, Amount[r])
  /\ GoesTo(r, "half")
  /\ spent' = [spent EXCEPT ![r] = n]
  /\ crossed' = IF month # mon[r] THEN crossed \cup {r} ELSE crossed
  /\ UNCHANGED <<month, rows, lock, mon, agentMon, faults>>

\* ... then the agent's.
SettleAgentAsWorkspace(r) ==
  /\ at[r] = "half" /\ ConnectionFree
  /\ Charge(<<month, "agent", BackendOf[r]>>, spent[r], Amount[r])
  /\ GoesTo(r, "done")
  /\ crossed' = IF month # agentMon[r] THEN crossed \cup {r} ELSE crossed
  /\ UNCHANGED <<month, rows, lock, mon, agentMon, spent, faults>>
SettleAgent(r) ==
  /\ at[r] = "half" /\ ConnectionFree
  /\ Charge(AgentKey(month, r), spent[r], Amount[r])
  /\ GoesTo(r, "done")
  /\ crossed' = IF month # agentMon[r] THEN crossed \cup {r} ELSE crossed
  /\ UNCHANGED <<month, rows, lock, mon, agentMon, spent, faults>>

\* The process dies between the two, or the second throws: nobody repeats it.
Tear(r) ==
  /\ Fault
  /\ at[r] = "half"
  /\ GoesTo(r, "torn")
  /\ UNCHANGED <<month, rows, used, reserved, lock, mon, agentMon, spent, crossed>>

NextMonth ==
  /\ month < LastMonth
  /\ month' = month + 1
  /\ UNCHANGED <<rows, used, reserved, lock, at, mon, agentMon, spent, crossed, faults>>

RunTokens(r) ==
  \/ Begin(r) \/ Lock(r) \/ CheckWorkspace(r) \/ CheckAgent(r) \/ Reserve(r) \/ RollBack(r)
  \/ SettleAgent(r) \/ Tear(r) \/ \E n \in Actual : Settle(r, n)

Reserving(r) == Lock(r) \/ CheckWorkspace(r) \/ CheckAgent(r) \/ Reserve(r)

LedgerNext == NextMonth \/ \E r \in Run : RunTokens(r)

LedgerSpec == LedgerInit /\ [][LedgerNext]_ledgerVars

\* Statements of a transaction return, and whoever waits for a free lock gets it.
LedgerFairness == \A r \in Run : WF_ledgerVars(Reserving(r))

-----------------------------------------------------------------------------
\* What a run holds or has used of its reservation, in each of its two buckets.
Drawn(r) == IF spent[r] < Amount[r] THEN spent[r] ELSE Amount[r]
InWorkspace == [r \in Run |-> CASE at[r] = "held" -> Amount[r]
                                [] at[r] \in {"half", "torn", "done"} -> Drawn(r)
                                [] OTHER -> 0]
InAgent == [r \in Run |-> CASE at[r] \in {"held", "half", "torn"} -> Amount[r]
                            [] at[r] = "done" -> Drawn(r)
                            [] OTHER -> 0]

\* Runs never draw more than a limit from a bucket, however their checks, inserts
\* and settlements interleave with each other and with the turn of the month;
\* what a run uses beyond its reservation, and settlements in a month other than
\* the reservation's, aside.
RunsWithinLimits ==
  crossed = {} =>
    \A m \in Month :
      /\ SumFunctionOnSet(InWorkspace, {r \in Run \ Scoped : mon[r] = m}) <= WorkspaceLimit
      /\ SumFunctionOnSet(InWorkspace, {r \in Scoped : mon[r] = m}) <= ProjectLimit
      /\ SumFunctionOnSet(InAgent, {r \in Run : agentMon[r] = m}) <= AgentLimit

\* Every reservation that was begun is granted or refused: a transaction leaves the
\* lock and its connection behind on each of its ways out, and the lock's holder is
\* not kept from its second connection by those who wait for the lock.  The second
\* needs a pool larger than the number of reservations under way at once.
ReservationsEnd == \A r \in Run : at[r] = "waiting" ~> at[r] \notin {"waiting", "locked", "fits", "admitted"}
=============================================================================
