----------------------------- MODULE CompanyRuns -----------------------------
(***************************************************************************)
(* How a project gets its company: the request (generateProjectCompany of  *)
(* services/company.service.ts) puts the template's roster in place and    *)
(* queues a run, and the run (executeCompany of activities/company.ts)     *)
(* replaces it by the planner's roster or by the template again.  Both do  *)
(* so through applyCompanyRoster (activities/companyApply.ts), one         *)
(* transaction that a company in use refuses without force.  A run that    *)
(* ended without success is asked for again by a user, with the input it   *)
(* had (POST /api/runs/:id/retry of routes/m2.routes.ts).                  *)
(*                                                                         *)
(* A roster is known by the request it was made for.  What is in a roster  *)
(* is CompanyPlan; how a run is claimed and given up is RunQueue, of which *)
(* the attempts are kept here, and the executors: nothing stops one that   *)
(* lost its run before it has applied its roster (executeCompany looks at  *)
(* neither the lease nor the signal).                                      *)
(***************************************************************************)
EXTENDS Naturals, FiniteSets, Sequences

CONSTANTS CompanyRequest, NoCompany, MaxTries,
          Forced,     \* the requests sent with force
          MaxRetries  \* a bound: retries of ended runs

ASSUME CompanyRunsAssumption ==
  NoCompany \notin CompanyRequest /\ MaxTries \in Nat \ {0} /\ MaxRetries \in Nat

VARIABLES
  company,    \* the request the roster was made for
  asked,      \* each request: its phase, the number it counted, that of its run
  companyRuns,   \* the runs, by their idempotency key: <<3>> is company:<project>:r3, and
                 \* <<3, 2>> is retry:<id of that>:<its attempt>
  inUse,      \* the project has sessions or tickets
  pinned,     \* an agent of the roster owns a path (V22: ON DELETE RESTRICT)
  newest,     \* history: the last request whose template was put in place
  intertwined,    \* history: requests made beside another or before its run had ended
  overtaken       \* history: requests whose template was to be, or was, put in place when
                  \* another's run was asked for again

companyVars == <<company, asked, companyRuns, inUse, pinned, newest, intertwined, overtaken>>

Unasked == [phase |-> "none", number |-> 0]
CompanyInit ==
  /\ company = NoCompany
  /\ asked = [g \in CompanyRequest |-> Unasked]
  /\ companyRuns = [n \in {} |-> 0]
  /\ inUse = FALSE /\ pinned = FALSE
  /\ newest = NoCompany /\ intertwined = {} /\ overtaken = {}

Phase(g, phase) == asked' = [asked EXCEPT ![g].phase = phase]
GivenUp(g) == asked' = [asked EXCEPT ![g] = [Unasked EXCEPT !.phase = "over"]]
UnderWay(g) == asked[g].phase \in {"checked", "applied", "counted"}
\* A run goes on while it may be claimed, is running, or an executor of it has its
\* roster still to apply.
Unfinished(n) == companyRuns[n].status \in {"queued", "running"} \/ companyRuns[n].planning # {}

\* applyCompanyRoster: its refusals, and the roster it leaves.
InUseRefused(force) == inUse /\ ~force
CanApply(force) == ~InUseRefused(force) /\ ~pinned
Apply(g) == company' = g

-----------------------------------------------------------------------------
\* The request looks whether the company is in use ...
Ask(g) ==
  LET beside == {h \in CompanyRequest : UnderWay(h)} IN
  /\ asked[g].phase = "none"
  /\ IF InUseRefused(g \in Forced) THEN GivenUp(g) ELSE Phase(g, "checked")
  /\ intertwined' = IF beside = {} /\ ~\E n \in DOMAIN companyRuns : Unfinished(n) THEN intertwined
                ELSE intertwined \cup beside \cup {g}
  /\ UNCHANGED <<company, companyRuns, inUse, pinned, newest, overtaken>>

\* ... puts the template in place, which looks again ...
ApplyTemplate(g) ==
  /\ asked[g].phase = "checked"
  /\ IF CanApply(g \in Forced)
       THEN Apply(g) /\ Phase(g, "applied") /\ newest' = g
       ELSE GivenUp(g) /\ UNCHANGED <<company, newest>>
  /\ UNCHANGED <<companyRuns, inUse, pinned, intertwined, overtaken>>

\* ... counts the runs there have been, retries too, and queues one with the next
\* number as its key: if there is one it is given that.
CountRuns(g) ==
  /\ asked[g].phase = "applied"
  /\ asked' = [asked EXCEPT ![g].phase = "counted", ![g].number = Cardinality(DOMAIN companyRuns)]
  /\ UNCHANGED <<company, companyRuns, inUse, pinned, newest, intertwined, overtaken>>
\* The run is given the order; without one it would plan a company of its defaults.
NoInput(g) == [of |-> NoCompany, force |-> FALSE]
RunInput(g) == [of |-> g, force |-> g \in Forced]
\* enqueue: a new run, unless there is one of that key.
Queue(key, input) ==
  companyRuns' = IF key \in DOMAIN companyRuns THEN companyRuns
    ELSE [k \in DOMAIN companyRuns \cup {key} |->
            IF k = key THEN [of |-> input.of, force |-> input.force, status |-> "queued", attempt |-> 0,
                             planning |-> {}]
            ELSE companyRuns[k]]
EnqueueCompany(g) ==
  /\ asked[g].phase = "counted"
  /\ asked' = [asked EXCEPT ![g].phase = "done", ![g].number = @ + 1]
  /\ Queue(<<asked[g].number + 1>>, RunInput(g))
  /\ UNCHANGED <<company, inUse, pinned, newest, intertwined, overtaken>>

\* The request is lost between two of its steps.
LoseRequest(g) ==
  /\ UnderWay(g) /\ GivenUp(g)
  /\ UNCHANGED <<company, companyRuns, inUse, pinned, newest, intertwined, overtaken>>

-----------------------------------------------------------------------------
\* An executor is known by the attempt it was claimed for, and holds the run while that
\* is the run's; what one that lost it has to say of it at its end is not written.
HoldsRun(n, e) == companyRuns[n].status = "running" /\ companyRuns[n].attempt = e
ClaimCompany(n) ==
  /\ companyRuns[n].status = "queued"
  /\ companyRuns' = [companyRuns EXCEPT ![n].status = "running",
                                       ![n].planning = @ \cup {companyRuns[n].attempt}]
  /\ UNCHANGED <<company, asked, inUse, pinned, newest, intertwined, overtaken>>

\* What an executor or the reaper makes of a run: another attempt if one is left.
TryAgain(run) ==
  [run EXCEPT !.attempt = @ + 1, !.status = IF run.attempt + 1 < MaxTries THEN "queued" ELSE "failed"]
BlockedRun(run) == [run EXCEPT !.status = "blocked"]
LeaveRun(run, e) == [run EXCEPT !.planning = @ \ {e}]
RunIs(n, run) == companyRuns' = [companyRuns EXCEPT ![n] = run]
EndWritten(n, e, ended) == RunIs(n, LeaveRun(IF HoldsRun(n, e) THEN ended ELSE companyRuns[n], e))

\* The executor applies what came of the planner, a roster that is accepted within two
\* answers or the template.  A company in use blocks the run (asRunError: an error not
\* to be retried), what else the database refuses may be tried again.
ApplyPlanned(n, e) ==
  LET run == companyRuns[n] IN
  /\ e \in run.planning
  /\ \/ CanApply(run.force) /\ Apply(run.of) /\ RunIs(n, LeaveRun(run, e))
     \/ InUseRefused(run.force) /\ EndWritten(n, e, BlockedRun(run)) /\ UNCHANGED company
     \/ ~InUseRefused(run.force) /\ ~CanApply(run.force) /\ EndWritten(n, e, TryAgain(run)) /\ UNCHANGED company
  /\ UNCHANGED <<asked, inUse, pinned, newest, intertwined, overtaken>>
FinishCompany(n) ==
  /\ companyRuns[n].status = "running" /\ companyRuns[n].attempt \notin companyRuns[n].planning
  /\ companyRuns' = [companyRuns EXCEPT ![n].status = "succeeded"]
  /\ UNCHANGED <<company, asked, inUse, pinned, newest, intertwined, overtaken>>
\* The budget or the planner refuses or fails, for now or for good, before the roster is
\* applied or after it.
CompanyRunBreaks(n, e) ==
  /\ e \in companyRuns[n].planning \/ HoldsRun(n, e)
  /\ EndWritten(n, e, TryAgain(companyRuns[n])) \/ EndWritten(n, e, BlockedRun(companyRuns[n]))
  /\ UNCHANGED <<company, asked, inUse, pinned, newest, intertwined, overtaken>>
\* The lease runs out; the executor is late, or dead and does not come to its roster.
ReapCompany(n) ==
  /\ companyRuns[n].status = "running" /\ RunIs(n, TryAgain(companyRuns[n]))
  /\ UNCHANGED <<company, asked, inUse, pinned, newest, intertwined, overtaken>>

\* A user cancels the run, which its executor does not see ...
CancelCompany(n) ==
  /\ companyRuns[n].status \in {"queued", "running", "blocked"}
  /\ companyRuns' = [companyRuns EXCEPT ![n].status = "cancelled"]
  /\ UNCHANGED <<company, asked, inUse, pinned, newest, intertwined, overtaken>>
\* ... and asks for one again that ended without success: the same input under a key
\* of its own, whatever has been asked for since.
Retried == {k \in DOMAIN companyRuns : Len(k) > 1}
RetryCompany(n) ==
  LET run == companyRuns[n] IN
  /\ run.status \in {"failed", "cancelled", "blocked"} /\ Cardinality(Retried) < MaxRetries
  /\ Queue(Append(n, run.attempt), run)
  /\ overtaken' = overtaken \cup {g \in CompanyRequest \ (intertwined \cup {run.of}) : newest = g \/ UnderWay(g)}
  /\ UNCHANGED <<company, asked, inUse, pinned, newest, intertwined>>

\* The first session or ticket of the project; a merged change gives an agent a path.
UseCompany ==
  /\ company # NoCompany /\ ~inUse /\ inUse' = TRUE
  /\ UNCHANGED <<company, asked, companyRuns, pinned, newest, intertwined, overtaken>>
PinAgent ==
  /\ inUse /\ ~pinned /\ pinned' = TRUE
  /\ UNCHANGED <<company, asked, companyRuns, inUse, newest, intertwined, overtaken>>

CompanyNext ==
  \/ \E g \in CompanyRequest :
       \/ Ask(g) \/ ApplyTemplate(g) \/ CountRuns(g) \/ EnqueueCompany(g) \/ LoseRequest(g)
  \/ \E n \in DOMAIN companyRuns :
       \/ ClaimCompany(n) \/ FinishCompany(n) \/ ReapCompany(n) \/ CancelCompany(n) \/ RetryCompany(n)
       \/ \E e \in 0 .. companyRuns[n].attempt : ApplyPlanned(n, e) \/ CompanyRunBreaks(n, e)
  \/ UseCompany \/ PinAgent

CompanySpec == CompanyInit /\ [][CompanyNext]_companyVars
-----------------------------------------------------------------------------
CompanyTypeOK ==
  /\ company \in CompanyRequest \cup {NoCompany}
  /\ \A g \in CompanyRequest : asked[g].number <= Cardinality(CompanyRequest) + MaxRetries
  /\ \A n \in DOMAIN companyRuns :
       /\ companyRuns[n].of \in CompanyRequest \cup {NoCompany} /\ companyRuns[n].attempt \in 0 .. MaxTries
       /\ companyRuns[n].planning \subseteq 0 .. MaxTries - 1
  /\ inUse \in BOOLEAN /\ pinned \in BOOLEAN
  /\ newest \in CompanyRequest \cup {NoCompany} /\ intertwined \cup overtaken \subseteq CompanyRequest

\* A request that was made when no other and no run of another was under way has a
\* run of its own once it is answered, and as long as it is the newest the company
\* is the one that it asked for, however often its run is broken off, cancelled,
\* repeated or asked for again: unless an older request's run was asked for again,
\* which puts that one's roster in its place.
RosterAsAsked ==
  \A g \in CompanyRequest \ intertwined :
    /\ asked[g].phase = "done" => companyRuns[<<asked[g].number>>].of = g
    /\ newest = g /\ g \notin overtaken => company = g
=============================================================================
