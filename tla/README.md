# ARIA delivery pipeline: TLA+ models, checks and proofs

ARIA plans software work as tickets, lets agents ("skills") work on them, and
delivers pull requests. This directory models the parts of it in which several
processes, people and services meet over one database: the queue of runs and its
worker, the tokens that runs and completions reserve, the pipeline that carries a
ticket from the backlog to the merge, and around these the ticket's event log,
routing, schedule and hierarchy, the company and its flow owners, the analysis of
repositories, the cloud and local code workers, credentials and the choice of models,
the live logs, and the backend's breaker of waiting rings. Nearly all of it lives in
`src/apps/middleware/src` (one page in `src/apps/web`, the breaker in
`src/apps/backend`); paths below are relative to the former.

| file | what it is |
|---|---|
| `RunLifecycle` | abstract specification: what the queue promises about a run |
| `RunQueue` | the rows of `agent_runs` and every statement on them |
| `RunWorker` | executors, reservations, ledger, crashes, over `RunQueue` |
| `RunProofs` | proofs about `RunQueue` (invariant, safety, refinement) and `RunWorker` (safety, and that it takes only steps of `RunQueue`) |
| `TicketPipeline`, `PipelineProofs` | one ticket, its runs, executors, pull request and people; its two invariants, proved |
| `FoldFacts` | facts that proofs share: numbers, sums, flattening and enumeration of the community modules, functions defined by recursion |
| `TokenLedger`, `TokenGateway`, `LedgerProofs` | the token ledger, month by month; completions in priority queues over the same rows; limits, exact rows and the queues, proved for both together |
| `TicketEvents`, `EventsProofs` | the hash chain of a ticket's events, with the locks of those who append; its two invariants, proved |
| `TicketDispatcher` | the sweep that gives tickets to agents, and all that changes under it |
| `RepositoryAnalysis` | analysis jobs, and the knowledge map they and models overwrite |
| `SchedulePlanning` | the working calendar, and who writes points and due dates |
| `LiveLogs` | a run's log from buffer to row to page |
| `ServiceProofs` | proofs about `TicketDispatcher`, `RepositoryAnalysis`, `SchedulePlanning` and `LiveLogs` |
| `CloudSessions` | a cloud agent, its executors and those who stop it |
| `PlannerWorktrees` | worktrees, promise chains and the lock file |
| `TicketBoard` | the hierarchy of tickets under concurrent requests |
| `SprintStates` | which sprint is active |
| `CompanyPlan`, `CompanyRuns` | who is in a generated company; which roster is in place |
| `FlowOwners` | owners and backups of a flow under edits and deletions |
| `BoardProofs` | proofs about `TicketBoard`, `SprintStates`, `PlannerWorktrees`, `FlowOwners`, `CompanyRuns`, `CompanyPlan` and `FleetWaits` |
| `ProviderCredentials` | credentials, their tests and tiers |
| `ModelRouting` | the model a run is sent to, and who writes what it is chosen from |
| `ProviderProofs` | proofs about `CloudSessions`, `ProviderCredentials` and `ModelRouting` |
| `FleetWaits` | the backend's deadlock breaker over late heartbeats |
| `MC*.tla`, `MC*.cfg` | the instances that TLC checks; `MCRunQueue`, `MCRunRouting`, `MCServices` and `MCPlatform` put several modules side by side |
| `PROJECT.json` | components, runs, mutants, source map, findings, hazards, theorems |

Run a check with `tlc -workers 2 -config MCRunQueue.cfg MCRunQueue`, proofs with
`tlapm RunProofs.tla`.

## 1. Inventory

Postgres holds all durable state. There is one middleware process in the
deployments the repository describes; nothing in the code enforces it, and the
queue is written for several. Inside the process, asynchronous functions
interleave at every `await`; across processes, statements interleave. Few handlers
put a transaction around what they read and what they write.

| component (source) | state it keeps | operations | talks to |
|---|---|---|---|
| Run queue (`services/runs/runQueue.ts`) | `agent_runs`: status, blocked_reason, attempt, not_before, lease_owner, lease_expires_at, external_run_id, agent_id, tokens_reserved | enqueue, claim, heartbeat, setExternalId, succeed, block, fail, cancel, cancelForTicket, reap, releaseLeases, blockQueuedForAgent, cancelRunningForAgent, unblockQueuedForAgent | everything below |
| Agent switch (`services/company.service.ts`) | `skills.enabled` | updateAgent, deleteAgent | run queue, in several statements with no transaction around them |
| Run worker (`services/runs/runWorker.ts`) | `activeRuns`, one AbortController and one local `reserved` per execution | tick, executeClaimed, failTicket, start, stop | queue, reservations, activities, tickets |
| Token reservations (`services/runs/budget.ts`) | `token_ledger` by workspace or agent, month and backend | reserveRun (advisory lock, limits), settleRun, releaseRun | worker, queue's releases |
| Ticket pipeline (`services/tickets/ticketPipeline.ts`, `ticketActions.ts`) | `tickets.status`, `blocked_reason` | transition (pure), applyTransition, approveTicket, blockForBudget | queue, event log |
| Activities (`services/activities/delivery.ts`) | none of their own | develop, review, fix, qa: each reports an event, then returns | pipeline, GitHub, models |
| People (`services/tickets.service.ts`, `routes/m2.routes.ts`), agents' API (`services/agentTicket.service.ts`) | - | PATCH of the status, approve, unblock, reject, cancel a run, retry a run; an agent's write of any status | pipeline, queue; the agents' write goes past both |
| Pull request watcher (`services/tickets/prWatcher.ts`) | map of ETags, in memory | watchPullRequests | GitHub, pipeline |
| Ticket event log (`services/tickets/ticketEvents.ts`, `eventHash.ts`, V17) | `ticket_events`: a hash chain per ticket, guarded by a trigger | appendTicketEvent, verify | pipeline; lock order against it |
| Ticket dispatcher, ownership (`services/tickets/ticketDispatcher.ts`, `services/ownership`, `services/flows`) | `tickets.assignee_agent_id`, `path_owners`, handoffs | dispatchReadyTickets, resolve, recordMerge, approve with an assignee | pipeline |
| Ticket board (`services/tickets.service.ts`, `agentTicket.service.ts`) | issue type, parent, epic | create, update, the agents' create | - |
| Schedule and sprints (`services/tickets/schedule.ts`, `pointEstimate.ts`, `sprints.ts`) | points, due_at, schedule_state; sprint status | calendar arithmetic, estimate, scan; activate, close | tickets, models |
| Analysis worker, knowledge activities (`services/analysisWorker.service.ts`, `services/activities/knowledgeMap.ts`) | `analysis_jobs`, `knowledge_maps` | enqueue, claim, recover, persist, enrich, merge | queue, models |
| Company generation (`services/companyGenerator.ts`, `activities/companyRoster.ts`, `companyApply.ts`, `company.ts`) | the roster (`skills`) of a project | generate, accept a plan, apply, run | queue, models, flow ownership |
| Flow ownership (`services/flows/flowOwners.ts`) | `flow_owners` | setOwners, deleteAgent's promotion of backups | - |
| Token gateway (`services/tokenGateway.service.ts`, `ledger.repository.ts`, `replay.repository.ts`) | five priority queues, calls in flight per backend; reservations | invoke, drain, execute | model providers; shares the ledger with runs, without their lock |
| Code workers (`services/models/codeWorker.ts`, `localAgentProcess.ts`, `activities/delivery.ts`) | provider's agent, worktrees, `heldWorktrees`, lock files | start, follow, poll, cancel; add, share and remove a worktree | providers, git, queue |
| Provider credentials (`services/providers/credentials.service.ts`) | `provider_credentials`, active tiers | create, test, failover, activate, retire, resolve | providers |
| Run logs, live updates (`services/runs/runLogs.ts`, `hub.ts`, `ws/index.ts`; web: `useAriaSocket.ts`, `agent-runs.tsx`) | buffers, `run_logs`, rooms, the page | append, flush, publish, join, tail, earlier | people |
| Evidence gate (`services/evidence`) | none | verdict over a QA report | qa activity |
| Model routing (`services/modelTiers.ts`, `models/resolveForRun.ts`, `workspace.service.ts`) | the workspace's `llm_*` columns: provider, model, tiers, catalogue and its stamp; pins of agents, models of projects | saveLlmConfig, syncLegacyLlm, resolveForRun (asks again, stores) | worker, credentials, providers |
| Accounts, sessions | one row each | CRUD | - |
| Text filters (sanitizer, red team, plagiarism...) | none | pure functions | activities |
| Fleet deadlock breaker (`apps/backend`: `fleet/service/DeadlockBreakerService.java`, `HealingGuardrailService.java`) | `agent_heartbeats`, `contract_debts` | heartbeat, sweep | HTTP only |
| Rest of the Java backend | its own | graph, incident, migration, orchestrator, telemetry | HTTP proxies |
| Web client, shared types | UI | - | HTTP |

### What is hard, and what makes it right

*Run queue.* `claim` selects a queued row and then updates it; another session
runs in between, and the row lock, `SKIP LOCKED` and a partial unique index keep one
run per agent. Leases lapse under executors that still run, so every statement of a
holder may come too late. Right means: one running run per agent; no more starts
than `max_attempts`; what has ended stays as it ended; an agent that is off works on
nothing.

*Run worker and reservations.* A reservation is in the ledger, then in a local
variable, then on the row; it can be returned by the executor, a cancellation,
the switch or the reaper, each after its own commit. Right means: usage is
charged once; the ledger never counts less than what is committed; nothing is left
reserved when everything has ended; every run ends and every slot is freed.

*Ledger and gateway.* Reservations check limits and insert under an advisory lock;
settlements take none, are two statements, and compute the month again; gateway
calls read, then reserve, with no lock; calls end in any order and each end must
start the next. Right means: runs never draw more than a limit; every row counts
exactly what is open and used there; no reservation hangs; nobody waits for room
that is there.

*Ticket pipeline.* The status and its runs change in one transaction, but an
activity reports first and succeeds later; a failing activity moves the ticket
*and* may be retried; the reaper, people and the watcher act at any time, and agents may
write any status, with which no run is enqueued or cancelled. Right
means: a ticket in the agents' hands has a run that will move it; a ticket that
has ended has no open run; it comes to rest; a merge reaches the board.

*Event log.* An append in a transaction of its own takes the advisory lock and then
the ticket's row, a transition the row and then the advisory lock. Right means: the
chain verifies, no append is refused, the log tells the status, every call ends.

*Dispatcher.* The sweep reads the first forty ready tickets and then takes minutes; an
approval reads, resolves and writes beside it; owners, switches, merges, runs and agents
act meanwhile. Right means: work in progress is limited, an owner's choice stands, no
ticket holds up another.

*Model routing.* A claim reads credential, workspace, project and agent in turns, asks
the provider and stores its answer, while people save, activate and pin. Right means: a
run is sent to a model its own provider offers, and a pin is not dropped silently.

*Deadlock breaker.* A ring is put together from heartbeats of different times. Right
means: a debt is recorded for a ring that stood at once and long enough, and for each.

*The rest* is read-decide-write without a transaction, in nine places: overlapping
requests do break the knowledge map, the active sprint, flow owners, the hierarchy,
points and credentials. What can be said, and is checked, is that only overlaps do,
and that the next request that is alone leaves things right again where the code
repairs them. The cloud agent works on by itself, and whoever ends its run must
tell it. A mirror's lock file is removed by age. A page merges rows that come in any
order. A planner's answer may be anything, and the roster made of it must be whole.

`PROJECT.json` lists forty hazards line by line, with the properties for each. Hazards
the models have but no property excludes, because the code does not: two calls of
`updateAgent`, off and on, that overlap leave runs of an agent that is on parked
(`company.service.ts:322`), and one that dies half way leaves a run running (324);
a PATCH or a retry that acts on a status it read earlier opens a run on a ticket that
has ended (`tickets.service.ts:496`, `m2.routes.ts:310`); an agent's status write
(`agentTicket.service.ts:143`) leaves a ticket without a run, or a terminal one with its
runs; the reaper gives a run up and tells no ticket (`runQueue.ts:425`).

## 2. Plan

The order of the work, with what each step added: the abstract `RunLifecycle`,
`RunQueue` and its proofs; `RunWorker` over `RunQueue` by EXTENDS, every statement of
the queue taken by an actor; `TicketPipeline` over an abstract queue; `TokenLedger`,
and `TokenGateway` over it by EXTENDS; `TicketEvents`, `TicketDispatcher`; the services
(`RepositoryAnalysis`, `SchedulePlanning`); the parts around the runs (`LiveLogs` to
`ProviderCredentials`); proofs for the modules whose invariants are short; then
`ModelRouting`, which every run passes through, and `FleetWaits`, the one service of the
backend whose verdict depends on the order of messages.

Left: the rest of the Java backend. `OrchestratorService` and `IncidentCommanderService`
read, decide and write without a lock, `MigrationOrchestratorService.run` starts over
after a crash. No safety property is left without a theorem (section 7).

## 3. Modules and code

Every module but the abstract one and `CompanyPlan`, whose variables are one plan, has a
type invariant (`...TypeOK`). The runs check properties of the code and leave the types
to it; that of `RunQueue` is proved, and those parts of the others that a proof needs
are proved with it.

**RunLifecycle** - each run waits, works, is parked or has ended, uses up attempts
only by leaving work, and holds its agent alone while it works. It allows one
step to move several runs, because one transaction does.

**RunQueue** - one action per statement, named after the function that issues it.
`claim` is `Pick` (the SELECT ... FOR UPDATE SKIP LOCKED; the row is `Locked` until
the end) and `Take` (UPDATE and commit), with `Drop` for a rollback. Statements
that would write a locked row wait. `IndexAllows` is `uq_agent_runs_one_running`.
Time is two facts: `lease` is live or lapsed (`Lapse`), a backoff is over (`due`,
`BackoffOver`). `updateAgent` is `AgentOff`, `BlockQueuedForAgent`,
`CancelRunningForAgent`, or `AgentOn`, `UnblockQueuedForAgent`; `calls` holds the calls
between two of these, and `Abandon` is a call whose next statement never comes.
`deleteAgent` sets `agent_id` of its rows to NULL through the foreign key. The
order in which `claim` prefers rows is left free.

**RunWorker** - `pc` is the place of `executeClaimed` in each executor: `prepare`
(resolve, budgets, reserve), `over`, `mark` (markTokensReserved), `work` (dispatch),
`return` (heartbeat after it), `finish` (succeed), `settle`, and the catch with
`threw`, `release`, `giveback`, `refund`. One reservation is one unit of `ledger`;
`mine` is the local variable, `held` the column, `refunds` the releases that a
cancellation, the switch or the reaper has read before its commit and applies
after it. `OwnerOf` maps executors to `mw-<pid>`, so two executors of one process
pass each other's owner check, as in the code. Faults: crash, shutdown, a stalled
executor's lapsed lease, a statement that throws, a release lost between commit
and ledger.

**TokenLedger** - `used` and `reserved` are the columns of `token_ledger` by row, `rows` the
rows that exist (an UPDATE of another one does nothing). `at` is where a run stands:
`Begin` computes the workspace's bucket id and opens the transaction, `Lock` gets the
advisory lock, `CheckWorkspace` and `CheckAgent` sum and compare, `Reserve` inserts and
commits, `RollBack` is any statement that throws; `Settle` and `SettleAgent` are the two
statements of `settleRun` (`releaseRun` is `Settle` with nothing used), `Tear` the crash
between them. `NextMonth` is the clock. A limit stands for `floor(limit * hard ratio)`. A
project with a budget has rows of its own (`Scoped`, `BackendOf`). `ConnectionFree` is the
pool of `db.client.ts`, which the open transactions occupy. That each reservation
is settled once is taken from `RunWorker`.

**TokenGateway** - one action per stretch of a call between two awaits: `Invoke`
(backpressure), `CheckBudget`, `ReserveForCall`, `Enqueue` (frame, push, drain), `Answer`
(provider, frames), `Consume`, and the catch with `Break` and `GiveUp`. `queue` is the five
queues in the order `drain` visits them; `Starts` are the calls a drain starts before it
returns at the first that cannot go. All calls are of the workspace's month, as
`guardedLlm.service.ts` sends them; no caller gives a compression ratio, so what is
checked is what is reserved. A statement that throws is taken not to have happened.

**TicketPipeline** - `stage` is the status, `runs` the ticket's rows. `From`, `To`,
`Enqueues` are the table of `transition`; `ApplyTransition` is the whole transaction;
`FreshKey` is the idempotency key that counts the ticket's rows of the activity.
Executors claim, report (`Report`), throw, finish, and after a failed write call
`failTicket`. `Watch` is the watcher, with `seen` for its ETag; `Settle` is the owner
on GitHub. `PatchRead/PatchCancel/PatchWrite` and `RetryRead/RetryInsert` are the
requests that read, act and write without a transaction around them; `AgentSetsStatus` is
`agentUpdateTicketStatus`, which writes a status and nothing else. Leases,
agents and backoffs are abstracted to: a running row may be requeued at any time.

**TicketEvents** - one action per statement of four kinds of call (transition, patch,
note, agent write), with `rowLock`, `keyShare` (the foreign key's lock) and `chainLock`
(the advisory lock) as state; `BreakDeadlock` is Postgres' detector. The trigger and
the unique index of V17 are in the insert, the three tries in `tries`. A hash is the
tuple it is computed from.

**TicketDispatcher** - the sweep reads the first `SweepLimit` ready tickets once (`LIMIT 40`),
then resolves, checks, assigns and dispatches one after the other; the ladder of
assignee, path owner, backup and flow owner is `Resolved`. An approval goes the same way
beside it: `Approve` loads the ticket, `ApproveResolves` finds an agent or routes to one,
`ApproveAssigns` writes it, whatever the assignee is by then, and `ApproveMoves` is the
transition, which a ticket past the backlog is refused only now
(`ticketActions.ts:300`). `SetStatus` is an owner's PATCH, which may also make a ticket
ready that was never approved (the sweep passes over it); `AgentSets` an agent's write of
a status. `excused` names the tickets an owner has acted on after the sweep or an approval
had read them, `pushed` the agents to whom an owner gave a ticket, by assigning it or by
approving one that is at work or about to be dispatched, `forced` the tickets at work
where an agent's own write has put them.

**RepositoryAnalysis** - jobs by request and repository; a worker reads the map, writes
the whole of it back (`WriteMap`), ends its job, counts those left and may enqueue the
enrichment run; a run reads the map, asks the model and writes it all back
(`ModelAnswers`). `overlapped` names the repositories whose slice was written between
another's read and write.

**SchedulePlanning** - `DueAt`, `NthWorkDay`, `Worked` and `ScheduleState` are the
functions of `schedule.ts` over units of time, of which a minute has `MinuteUnits`
(`Minutes` is the `Math.round` of line 157); their loops are recursive functions of a
pair. The start of the work, the owner's patch, the planner's estimate and the scan
write in the statements they have.

**LiveLogs** - `bucket`, `writes` under way, `lines` and `dropped` are where a piece of
a log can be; `wire`, `room`, `tail` and `shown` are the socket, the room and the page. A
row is its run and its number, since its content never changes.

**CloudSessions** - `row` is the run, `agent` the provider's agent, `exec` the executors
through start, store, follow, poll, usage, finish, report; `user` is the cancel route,
`tellers` the ticket and the switch that have ended the run and still have to tell. `upset`
names what may leave the agent at work: `gap`, `lost`, `cut`, `threw`, `reaped`, `withdrawn`,
`parked`.

**PlannerWorktrees** - `chain` is `repoChains` of each process, `lock` and `old` the lock
file, `seen` the age a waiter has read, `held` is `heldWorktrees`; `RemoveWorktree`,
`ClearWorktree` and `PruneMirror` are the three steps of `removeWorktree`, outside the
chain and the lock, each of which may fail; `ProcessDies` leaves lock and worktrees
behind.

**TicketBoard**, **SprintStates** - requests that read, decide (`assertHierarchy`) and write
in a later statement; an activation clears the other sprints and then writes its own.

**CompanyPlan**, **CompanyRuns** - `generateCompany`, `assignFlowRows`,
`acceptCompanyPlan` and the refusal of `applyCompanyRoster` as functions over an order and
an answer; then the request and the run that put rosters in place, with the number of runs
in the idempotency key. A roster is known by the request it was made for. `planning` are
the executors of a run that still have a roster to apply, of which one at most holds the
run; `CancelCompany` and `RetryCompany` are the user's, who asks again for the old input
under a key of its own.

**FlowOwners** - an edit plans and checks its rows, deletes those its statement sees
(waiting for those another transaction has deleted) and inserts its own; `deleteAgent`
deletes and promotes backups. The row locks waited for are guards.

**ProviderCredentials** - each call reads, awaits the provider and writes. A save of the
older form with no key goes on with the row's (`keep`), which the test before it did not
try. `raced` names the credentials whose calls overlapped, `untried` those whose last save
kept the key they had.

**ModelRouting** - `routing` is how far each claim has come in `resolveForRun`:
`ResolveForRun` (`loadWorkspaceLlm`), `ReadPolicy` (workspace, project, agent), `AskProvider`
and `StoreCatalog`; `SentTo` is its end. `edit` is the request that writes what is read, one
statement at a time (`WriteSave`, `WriteMirror`, `WriteDefaultPlanning`, `SyncLegacyLlm`).
`SelectTierModels` is `selectTierModels`, its three kinds of providers in their order of
choosing: a router first (`AutoRouted`), else the planning model first, of names that may
have both shapes; the order of the list decides (`PickListed`). `clean` and `mixed` name the
claims that an edit overlapped and the workspaces whose list is another provider's;
without `clean` the property fails.

**FleetWaits** - `heartbeat` has the latest row of each agent in the window; a row says
when it was sent, which is up to `MaxDelay` before it arrives. `Walk` and `DetectCycles`
are the search, from the agents in any order, because the code goes by a hash map.

**MCRunQueue**, **MCRunRouting**, **MCServices**, **MCPlatform** - two modules each, and
nine in the last, that share no variable. One moves while the others stand at their start,
so that every state of each is visited and no product of them.

## 4. Runs

| run | instance | shows |
|---|---|---|
| `runqueue` | 2 runs of one agent and ticket, one of them in the cloud; 2 workers; 2 attempts; beside it 3 waiting agents, 3 minutes, heartbeats a minute late | one run per agent, attempts, switch, refinement of RunLifecycle; the deadlock breaker's verdicts |
| `runworker` | 1 run in the cloud, 2 executors of 2 workers, 1 fault; beside it 3 providers, one with a router and one with its owner's models, a model of both shapes that a list has first or last, 2 edits, 1 changed list, 2 days | ledger covers, nothing leaks; routes are current |
| `runworker_live` | 1 run in the cloud, which may be lost before or after its ids are stored; 2 executors of one worker, 1 fault, fairness | charged once though two executors share the owner; runs come to rest and slots are freed |
| `pipeline` | 2 executors, 2 attempts, 1 fix round per gate, 4 rows, 1 fault, 1 order or agent's write | never stranded, terminal is quiet |
| `pipeline_live` | 1 executor, 14 rows, 1 fault, order or agent's write, fairness | the ticket rests |
| `pipeline_merged` | 1 executor, no fault, fairness | violation of `MergeReachesBoard` |
| `ledger` | 2 runs of one agent, one under a project's budget, 1 remote call, 2 months, 2 faults, 3 connections | limits, exact rows, reservations end |
| `gateway` | 4 calls: urgent, normal, speculative for a local backend of capacity 1, one remote; queue limit 1, 2 faults | nobody waits idly, no backend over capacity, calls end |
| `events` | 2 transitions, a patch, a note and an agent's write of one ticket, 3 statuses, 1 fault, fairness | the chain verifies and no append is refused, the log tells the status, every call ends |
| `dispatch` | 3 tickets, two of them ready, one under a path and one of a flow, 2 to a sweep; 3 agents, one no developer; WIP limit 1, 2 acts of owners or agents, 1 fault, fairness | limited work, owner's choice, nobody held up |
| `services` | 2 requests over 2 repositories, 2 workers, 1 mishap; a week of 3 days, the middle one free, each of 6 units of half a minute, 2 of them working, and 15 units of time, 1 patch | enrichment follows, slices are kept; the calendar, owner's points |
| `platform` | 2 runs' logs (3 pieces, cap 2), 2 cloud executors with 2 attempts and 1 fault, 4 planners in 3 processes, 3 tickets and 3 requests, 2 sprints and 4 changes, 32 orders and some hundred answers, a flow with 2 agents and 2 edits, 2 company requests with 2 tries of a run, 2 in all, and 1 retry, 3 credentials, one of a provider that needs no key, and 3 calls | its twelve invariants, of nine modules |

*Why the bounds are enough.* Two runs and two workers are what it takes to race for
an agent, two attempts to retry once and give up once, and one cloud run to resume.
In `RunWorker` all interference is about one row: a second executor of it is what
the reaper creates, and one fault is enough to get there. In `TicketPipeline` four
rows hold develop, review, fix and a second review, a QA run or a retry, with two
executors of the same run; in the live instance the fourteen rows of the bound are
never reached, so it hides nothing. In the ledger the limits admit one run and not
two of a kind, so that every check matters, and one call more than the limit; two
runs are what it takes to race for the lock, and three connections are the fewest
with which two of them cannot block each other. In the gateway one call is served,
and the others wait behind it in two priorities and across two backends; a queue
limit of one sheds the speculative call. Two transitions and an append of its own
are what it takes for the lock cycle of the event log, with a third to overtake. Two
tickets of a sweep are one that is stuck and one behind it, and a third is one that the
limit leaves out. The clock passes a free day and reaches the working hours behind it, and
work starts before, within and after working hours, on a minute and within it; due dates
reach into the second week. Two attempts of the company's runs in all are what it takes
to apply one request's roster and then another's, which was cancelled and asked for again. Two
planners of one run and two of others, in three processes, are a holder that dies and
two waiters that find its lock old. Three agents are a ring of three, or of two with one
that leads into it. Two days are what it takes for a list to grow old, and two edits to
save one provider's settings while the other's credential is active. Orders lie at the
borders of the sizes at which leadership changes, and answers take every assignment of
managers to three seats.
All safety properties are moreover proved for every value of these bounds
(section 7).
Every `Max...`, `LastMonth` and `Horizon` is a bound in guards, next to "one call of
updateAgent of an agent in each gap"; each is marked where it is declared.

*`CHECK_DEADLOCK FALSE`* - the systems may stop: when all runs of a finite set have
ended and nobody does anything, nothing is left to do. In the liveness runs a
stop where something should still happen is a violation.

*Histories set aside.* History variables record what the code does not repair, and each
property names what it excuses. `RunWorker`: `stale` (an executor was overtaken by the
reaper), `gap` (a cancellation between claim and mark), `fault`. `TokenLedger`: `crossed`
(settled in another month than reserved). `TicketPipeline`: `parked` (a budget blocks the
run and leaves the ticket), `lost` (the reaper gives up a run, or a crash falls between
the failed row and failTicket), `cancelled` (a person cancels a run and not its ticket),
`raced` (a status PATCH or a retry acts on what it read earlier), `overruled` (an agent
wrote the status). In the others: `untold`, `excused`, `pushed`, `forced`, `overlapped`,
`raced`, `hole`, `mixed`, `robbed`, `replaced`, `littered`, `retyped`, `byAgent`,
`crossed`, `crowded`, `mingled`, `intertwined`, `overtaken`, `untried`, `clean`, each
explained where it is declared. They are sets of the actors or rows concerned, where the
rest can be told apart, so that the property still speaks of all others.

## 5. Fairness

Assumed: `tick` claims, reaps and rolls back (it runs every two seconds), an
executor that has been started goes on, the clock runs (leases nobody renews lapse,
backoffs end), a call of `updateAgent` or a request under way takes its next
statement, the watcher polls. This includes that `dispatch` comes back; the code
gives its child processes and HTTP calls time limits. In the ledger statements return
and a free lock goes to one who waits for it (Postgres queues them); in the gateway
every await of a call comes back. The dispatcher's sweep is started again and its
statements return (`WF` of `Proceed`). All of this is weak fairness. In the event log
each call's next statement has strong fairness, because a lock it waits for is free
again and again and Postgres grants it in turn; the deadlock detector has weak
fairness.

Not assumed: that people approve, merge, retry or unblock, that the dispatcher finds
an agent with room, that heartbeats come, that faults happen or do not. The modules of
`MCServices` and `MCPlatform` are checked for safety only.

## 6. Where code and claims differ

`MergeReachesBoard` (`pipeline_merged`): a merge while the ticket is blocked is refused,
and the ETag stored before keeps it from being delivered again; `PROJECT.json` quotes
the lines.

What the models show the code to do, where no document says otherwise plainly enough
to be called wrong; each is set aside by name in the property it would break:

- a run cancelled between its claim and `markTokensReserved`, and whose dispatch then
  throws, keeps its tokens reserved for the month (`gap` in `NothingLeaks`);
- `consumeReservation` goes by run id without a lease check, so an overtaken executor
  gives back its successor's reservation (`stale` in `LedgerCovers`);
- `settleRun` computes the month's rows anew: a run reserved in one month and settled in
  the next leaves its reservation behind (`crossed` in `LedgerExact`);
- a fix counts only once its run has succeeded, after its report has enqueued the
  next gate, so one fix round more than the cap can start;
- an append and a transition deadlock, and Postgres ends one of them (`BreakDeadlock`);
- an agent that writes a status by itself (`agentTicket.service.ts:143`) strands its ticket
  or leaves the runs of an ended one open (`overruled` in `NeverStranded` and
  `TerminalIsQuiet`), and takes up work that no limit counts (`forced` in `WipRespected`);
- forty ready tickets that nobody can take hold up all the others (`ticketDispatcher.ts:26`;
  `SweepLimit` in `NoneHeldUp`);
- a work start within a minute moves the due date by up to half a minute
  (`schedule.ts:157`; `Leeway` in `CalendarExact`);
- worktrees are removed by git commands at a mirror that another planner may have locked
  (`localAgentProcess.ts:146`, `152`; `MirrorExclusive` is about those who add);
- a company run that ended without success and is asked for again puts its old roster over
  a newer one (`m2.routes.ts:310`; `overtaken` in `RosterAsAsked`);
- a save of the older form without a key for ollama or a custom provider, which need none,
  marks the key that the row has as tested (`credentials.service.ts:386`; `untried` in
  `ActiveUsable`);
- approving a ticket that is already at work is refused, but only after the ticket was
  given to another agent, past whose limit it may count (`pushed` in `WipRespected`);
- two activations leave two active sprints, two edits of a flow a fullstack owner
  beside owners of the halves, two tests of a credential the older verdict;
- an agent started in the cloud whose ids are not yet on the row works on when its
  run is cancelled (`gap` in `NothingRunsUnwatched`);
- saving the settings of another provider than the active credential's leaves the
  workspace with the list and tiers of the one beside the endpoint of the other, and
  its old stamp: runs go to the wrong model or fail until the stamp is a day old,
  although the comment at `services/workspace.service.ts:48` has the mirrored credential
  "in sync"; the gap between the two writes of `activateCredential` and a list that a
  run stores late do the same (`mixed` in `RoutesAreCurrent`);
- a model a project chose is sent without being listed (only an agent's pin is
  checked), providers with their owner's models are asked with the adapter's default
  once their credential is active, and aliases are lost when a list is stored;
- `DeadlockBreakerService` makes the first agent in hash order the producer, where
  `src/.entiresystem/ADRs/ADR-0015-deadlock-timeout.md:29` starts from the one that has
  waited longest; each sweep records the same debt again;
- a page that was out of the room misses the rows told meanwhile (`hole`), and an
  earlier page that comes after the selection has changed mixes two logs (`mixed`).

## 7. Proofs

Every theorem holds for all values of the constants under the module's own
`ASSUME`, which TLC evaluates in the runs. Each safety proof has the same shape: an
inductive invariant that holds at the start, that every action preserves (one step
per action), and that implies the property.

| module | theorem | property |
|---|---|---|
| `RunProofs` | `Invariance`, `Typing`, `MutualExclusion`, `LeaseDiscipline`, `BoundedStarts`, `SwitchOff` | `IInv`, and the parts of it below |
| | `EndedStays`, `ChargedRequeue` | `TerminalFinal`, `RequeueIsCharged` |
| | `Refinement` | `Spec => Life!AbsSpec` |
| | `WorkerInvariance`, `WorkerKeepsQueue` | `WInv`; `WorkSpec => Spec` of `RunQueue` |
| | `SettledOnce`, `BudgetCovered`, `LedgerEmpties` | `ChargedOnce`, `LedgerCovers`, `NothingLeaks` |
| `PipelineProofs` | `NobodyIsStranded`, `TerminalStaysQuiet` | `NeverStranded`, `TerminalIsQuiet` |
| `LedgerProofs` | `QueuesMove`, `RowsAreExact`, `LimitsHold` | `NobodyWaitsIdly`, `LedgerExact`, `RunsWithinLimits` |
| | `GatewayTypes` | `GatewayTypeOK` |
| `BoardProofs` | `TicketsStand` | `HierarchyKept` |
| | `SprintAlone` | `OneActiveSprint` |
| | `OneAtTheMirror`, `WorktreesStand` | `MirrorExclusive`, `WorktreeStands` |
| | `OwnersStayExclusive`, `CompanyAsAsked` | `OwnersExclusive`, `RosterAsAsked` |
| | `RosterStands` | `RosterSound` |
| | `SweepsAreRight`, `SweepsAreSound` | `SweepsFindDeadlocks`, `FleetTypeOK` |
| `ProviderProofs` | `OneAgentOnly`, `NoneUnwatched` | `OneAgent`, `NothingRunsUnwatched` |
| | `ActiveCredentialsUsable` | `ActiveUsable` |
| | `RoutesStayCurrent` | `RoutesAreCurrent` |
| `EventsProofs` | `ChainStands`, `LogTells` | `ChainUncontended`, `StatusIsTold` |
| `ServiceProofs` | `WipStands`, `OwnersChoiceStands` | `WipRespected`, `ChoiceStands` |
| | `HandedOver`, `SlicesStandAll` | `EnrichmentFollows`, `SlicesKept` |
| | `PointsStand` | `OwnersPointsStand` |
| | `PiecesStand`, `PageStands` | `EveryPieceOnce`, `PageFaithful` |
| | `CalendarStands` | `CalendarExact` |

*RunQueue.* `IInv` is `TypeOK` and `HolderIffRunning`; `PickedAlone` (two claims never hold
one row, because SKIP LOCKED passes over it); `OneRunningPerAgent`, from `IndexAllows` at
`Take` alone; `FreshRows` and `UnstartedRows`, so that `Enqueue` starts with all attempts
left; `AttemptsLeft`; `OffAgentIdle` and `PickedCovered` (a row under a claim that saw its
agent on before it went off is covered by a call that has yet to block, which must wait
for that row). `IInv` was first checked by TLC. The refinement maps each step to a step
of `RunLifecycle` or a stutter, with `IInv` for "a run that is to work has an attempt
left" and for exclusivity.

*RunWorker.* Every step of a worker is a step of `RunQueue`, a claim that is rolled back or
a stutter of its variables (`QueueStep`), so `WorkSpec => Spec` and `IInv` holds here too.
On it stand three layers (`WInv`). Always, a busy executor has a run and its own
reservation exactly where its place says so, and who is about to settle is alone
(`SettlesAlone`): it wrote `succeeded` under its lease, which no second statement can.
Until an executor is overtaken (`Tracked`), one executor at most stands behind a row,
and the ledger is no less than what is owed, where each release that was read before
its commit is counted once. While nothing has happened at all that loses track, the
ledger equals what is owed and a held row has its executor. The counts are
cardinalities of finite sets, taken apart by lemmas on one executor and one row
(`Slot` is finite by assumption, as the `RUN_CONCURRENCY_*` of `config/env.ts` are).

*TokenLedger, TokenGateway.* One specification, `GatewaySpec`, in which runs and calls
write the same rows. `LedgerExact` is inductive with types and `RowsInv` (a row exists for
whatever is open in it, so no settlement misses its row); each action moves one run or
call from one sum to another by an amount that the row changes by, and `GREATEST(0, ...)`
never cuts, because the sum of what is open contains what is given back.
`RunsWithinLimits` rests on `OneHolder` (whoever is between lock and commit has the lock)
and on `StillFits`: what a check has found to fit still does when its run inserts, though
settlements and months may come between, because only the holder adds and the sums over
one row are no more than the sum that was checked. That one project has one backend value,
`project:<id>` (`budget.ts:62`), is an assumption on `BackendOf`. `NobodyWaitsIdly` needs
that each call is in the queue once exactly while it waits (`Waiting`), that those in
flight are counted (`Counted`), and that a drain goes on until the head of the queue
cannot be sent; the queue is cut and joined at the place its priority gives it, for which
`FrontIsInterval` shows that positions of higher urgency are a front.

*FoldFacts* states what the library's folds compute, which the proofs of the ledger and of
the company need: `SumFunctionOnSet` is the sum, whichever element its fold takes first,
splits over disjoint sets and is monotone; `FlattenSeq` lays its parts one after the
other, each at the sum of the lengths before it; `SetToSeq` lists each element once.
All go by least or minimal counterexample: the library's induction takes an operator
as a parameter, its well-foundedness theorem a set.

*TicketPipeline.* `NeverStranded` is not inductive: the serving run must also be one none
of whose executors has reported (`Carried`), for its end would leave the ticket with
nobody. A report enqueues the next run under `FreshKey`, which counts the ticket's rows;
that this inserts a row follows from `KeysBelow`, no key of an activity is ahead of the
number of its rows, with lemmas on how that number grows when a row is appended and
stays when rows only change their state. `Placed` types rows and executors.
The proof fails, as it should, with a key made of the activity alone.

*CloudSessions.* Past the start there is an agent, and an executor that has seen it end saw
it truly (`SeesWhatIs`); ids on a row, or with one who is about to cancel, are those of an
agent (`IdsAreKnown`); the provider's count of agents is one if there is one
(`CountsAgents`), which is idempotency of the start by the run's id.

*ModelRouting.* A stored list is one that its provider has offered since the day of its stamp
(`StoredRow`, `CatalogStored`), so a stamp is never newer than its list, also halfway through
a save or an activation; a claim that no edit has overlapped has the provider that is
still the endpoint's (`ClaimsRead`), so the list that it stores is stored for its own
provider. Then whatever it is sent to is in a list of the right age (`SentIsCurrent`),
and stays so, because offers are only added.

*ProviderCredentials.* What a call has read of a credential that is not `raced` stays true
until it writes (`StillTrue`), because calls on it are one at a time (`OneAtATime`); a save
with what was tested, and each test, ends what is `untried`.

*FlowOwners.* The rows an edit will insert were checked (`Checked`); what two transactions
delete is disjoint (`Apart`); who is promoted takes the place of an owner deleted in the
same transaction (`Heirs`); and an edit beside which none was committed deletes
everything that was there before it (`Covers`).

*PlannerWorktrees.* Who is at the mirror has the lock, until one was robbed of it, and a
lock found old is a dead planner's. For `WorktreeStands` the count in `heldWorktrees` is the
number of planners that share the slot (`SlotsCount`), who shares is of one process
(`SharedWithin`), and what is there without a user was left by one who died or failed
(`LitterLeft`, `NoneForgotten`).

*SprintStates.* An activation that has been alone is the only one, and leaves nothing active
but its own. *TicketBoard.* A request that was not crossed writes what its check saw: a parent
that is there keeps its type (`WillBePlaced`), and a ticket to be inserted is not there
yet (`NewTickets`). *CompanyRuns.* A request under way that none has come beside is the only
one, no run of another goes on, and it has counted the runs that there are
(`Undisturbed`); once answered it has its run, which can only put its own roster in place,
and so can every run that still goes on while the request is not `overtaken`. A retry counts
as a run but takes no number, so the next number of what a request has counted is free.

*CompanyPlan.* The invariant (`PlanInv`) only says of what a roster is made: of the template
of its order, or of the template and an answer that was accepted and whose owners were
not refused. The work is that each of the two is sound. For the shares
(`RoundedShares`): the floors leave fewer seats than there are roles in the mix, what
they leave is the sum of the rests over the total, and ranking by rest, then by place,
is a strict order, so exactly as many roles as there are seats left get one more
(`ScaleMixHas`: the specialists laid out are as many as there are slots). For the
template (`TemplateHas`, `TreeOfSeats`): the CTO and the product owner answer to the CEO, all
others to one of these three, but for QA and its scrum master, so a set of seats
without the CEO leads out of itself. For an answer (`PlannedHas`): it has the template's
roles in the same number, so its shares are the template's (`SharesCopied`); the seats
of those three have a taker (`TakerHas`), to whom agents without a seat answer; and a
way up that comes to the CEO leaves every set that it starts in and the CEO is not in
(`WaysLeadOut`). For the owners (`TemplateOwners`, `PlannedOwners`): the rules give every
flow one owner and one backup in its layer, and look for roles that nobody without a
seat has (`OwnerSeated`). That an answer and its flows are sequences, and that flows are
finitely many, are assumptions of the module; what an answer says is free.

*TicketEvents.* The stages of a call say which locks it has (`LocksByStage`), and one who has
read the last event holds the advisory lock, so what it has read is the last event
still (`LastIsCurrent`): the trigger accepts every insert. `StatusIsTold` reads the log as a
whole; what one more row does to it is `ToldOfMore`. A transition's status is the one it
read under its row lock (`FromIsCurrent`), and the log is ahead of the status by the one
patch that has told and not written (`LogIsAhead`).

*TicketDispatcher.* Between the count of an agent's work and the dispatch nobody gives it
a ticket but an owner, who is then in `pushed` (`RoomLeft`), and what an agent writes into
work is in `forced`, so that the count of the rest (`Working`) is no more than what the
sweep has counted; what moves on under the sweep only lowers it (`NoMoreWork`). The rows
in hand are of different tickets that have not been dispatched (`QueueKept`), each read
with its owner's choice or excused since (`ChoiceKept`), and so is the one of an approval
under way.

*SchedulePlanning.* Unless calls were `raced`, planner and patch are never both at work,
whoever has read the ticket has read what it still is (`ReadIsCurrent`), and a planner
about to write has found no decision, so that there is none (`PointsAreOwners`). The due
date is whatever `DueAt` returns; what that is, is `CalendarStands`.

*RepositoryAnalysis.* When a job has ended well, there is an active job, a worker that has not
yet counted, or a run for the latest map (`SomeoneHandsOver`). What a repository's analysis
has written is in the map, and in what each reader has read, unless that reader read
before (`SlicesStand`); the write of such a reader makes the slice `overlapped`.

*LiveLogs.* A write under the lock has found the next number (`Numbered`, `LockHeldOnce`), so
the rows of a run are a sequence without holes. Every row after the page's request for
the last ones is shown, on the wire, or about to be told (`RowsSince`); what is on its way
are rows of the log (`OnTheWire`, `TailIsPast`, `EarlierArePast`). A piece is in one place
(`PiecesInPlace`): the theorem counts places, the proof says that one set is a singleton
and the others are empty, which survives the moves from bucket to write to row.

*The calendar.* A recursive definition of TLA+ chooses a function that satisfies its
equation, and says nothing if there is none. That there is one follows from a rank
that each step lowers (`Recursion`): for `DueFrom` and `NthWorkDay` what is left, with the
days to the next working day (`GapBound`: within two weeks there is one, since `WorkDay`
is not empty) for the steps that use up nothing; for `Worked` the time to the end. That
the value is right follows along the same rank (`RankInduct`): what is worked between
two moments is what is worked up to the next opening and after it (`UnitsSplit`), and up
to the next opening it is the rest of the day (`RestOfDay`).

*FleetWaits.* A walk ends, because it has more nodes than there are agents (`WalkEnds`); it
ends on itself with a ring (`WalkFinds`), and any agents on it that wait only on one
another contain that ring. After some turns of the search, each ring among the agents
met is recorded once (`FoundSoFar`): an agent met before waits on agents met before, so a
ring is met as a whole. The fold over the order is taken apart turn by turn
(`TurnByTurn`). That the members waited all at once needs `Window + MaxDelay < Timeout`,
an assumption of the module as the constants of `DeadlockBreakerService.java` have it.

Only model-checked: liveness, which is beyond the prover (`WorkEnds`, `TicketRests`,
`ReservationsEnd`, `CallsEnd`, `EveryCallEnds`, `NoneHeldUp`).

## 8. Not modelled

- The Java backend but for the deadlock breaker (`apps/backend`: graph, incident, migration,
  orchestrator, telemetry): a separate service that the delivery path calls only
  through proxies. Of the breaker: the heartbeats of several workspaces in one table
  (the latest row of an agent id is taken before the workspace is compared), the
  healing scan's own table, which holds rings without asking how long they stand.
- Accounts and sessions: requests over one row, no protocol.
- Text filters, prompts, parsers, agent skills catalogue: pure functions over text or
  data. They make up much of the repository, as do the web client's pages, which
  only show what the API returns.
- `claimById`, the UPDATE half of `claim` for one row: only `processRunById` uses it,
  which only tests call. Priorities of `claim`, result columns, notifications: no
  property reads them.
- In `RunWorker`: deleted agents and abandoned switches, which are in `RunQueue`;
  amounts, limits and months, which are in `TokenLedger`. In `TokenLedger` and
  `TokenGateway`: a statement that throws after it took effect, runs without an agent or
  of an agent without a budget (they skip a check), `checkMidRun`, warnings, unknown
  backends, calls under other session ids.
- Postgres' serialisation errors, and its deadlocks but for the one of the event log.
- In `TicketPipeline`: who is assigned, which is in `TicketDispatcher`; what the evidence
  gate reads (its verdict is free); other tickets.
- In `TicketDispatcher`: the matching of globs, a ticket's own paths (constants), handoff
  mails. In `RepositoryAnalysis`: the flows beside the map, and the draft's contents. In
  `SchedulePlanning`: time zones. In `LiveLogs`: redaction and the retry of a taken
  number. In `CloudSessions`: parsing of streams, retries within one HTTP call; the local
  coding CLI is a child process without a protocol. In `CompanyPlan`: names, titles,
  prompts. In `CompanyRuns`: the end that an executor writes after it lost its lease to
  another of its own process, which is `RunWorker`'s; a dead executor is one that does not
  move until its run is reaped. In `ProviderCredentials`: encryption. In `ModelRouting`:
  tasks and tiers of agents, several credentials of a provider, edits that overlap each
  other.
- The components marked `not_modelled` in `PROJECT.json`, with the reason for each.
