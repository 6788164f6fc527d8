------------------------- MODULE RepositoryAnalysis -------------------------
(***************************************************************************)
(* The knowledge map of a project: the jobs that analyse its repositories  *)
(* (services/analysisWorker.service.ts) and the knowledge_map runs that    *)
(* hand the map to a model and write back what it says                     *)
(* (services/activities/knowledgeMap.ts, knowledgeMerge.ts).               *)
(*                                                                         *)
(* Every middleware process has one worker, which takes one job at a time. *)
(* A worker and a run both read the whole map, take their time and write   *)
(* the whole map: a worker within one transaction, READ COMMITTED and      *)
(* without a lock, a run with the model's answer in between.  The map's    *)
(* four lists are one here, an item per repository, which a worker tags    *)
(* with its repoId and a model's answer leaves untagged.  updated_at is a  *)
(* count of the writes.  The flows, which persistKnowledge merges beside   *)
(* the map in the same transaction, are left out.                          *)
(***************************************************************************)
EXTENDS Naturals, FiniteSets

CONSTANTS Repo,
          Request,        \* calls of enqueueProjectAnalysis
          Asked,          \* the repositories the project has when a request reads them
          Worker,
          NoJob,
          MaxMishaps      \* bound of the model: jobs that fail or are taken for
                          \*   stuck, workers that die

Job == UNION {{q} \X Asked[q] : q \in Request}    \* a request adds one at most for each
RepoOf(j) == j[2]

ASSUME AnalysisAssumption ==
  /\ NoJob \notin Job
  /\ Asked \in [Request -> SUBSET Repo]
  /\ MaxMishaps \in Nat

VARIABLES
  job,         \* analysis_jobs.status, "none" before it is inserted
  toCheck,     \* the repositories a request has still to look at
  toInsert,    \* those it has looked at and found without an active job
  worker,      \* what each worker does: its job, how far, and the map it read
  map,         \* the row of knowledge_maps
  run,         \* the knowledge_map runs, by the stamp in their key
  settled,     \* history: how the job that ended last ended
  drafted,     \* history: the stamp of the last draft
  analysed,    \* history: repositories whose items a worker has written
  overlapped,  \* history: those written over by who had read before, or that a
               \*   model's answer leaves out
  mishaps      \* history: failures, deaths and jobs requeued

analysisVars == <<job, toCheck, toInsert, worker, map, run, settled,
                  drafted, analysed, overlapped, mishaps>>

MaxStamp == 3 * Cardinality(Job) + 3
NoMap == [exists |-> FALSE, items |-> {}, stamp |-> 0]
Maps == [exists : BOOLEAN, items : SUBSET (Repo \X BOOLEAN), stamp : 0 .. MaxStamp]
Reading == [exists : BOOLEAN, items : SUBSET (Repo \X BOOLEAN), since : SUBSET Repo]
Nothing == [exists |-> FALSE, items |-> {}, since |-> {}]
Idle == [at |-> "idle", job |-> NoJob, seen |-> Nothing]

AnalysisTypeOK ==
  /\ job \in [Job -> {"none", "queued", "running", "done", "failed"}]
  /\ toCheck \in [Request -> SUBSET Repo] /\ toInsert \in [Request -> SUBSET Repo]
  /\ \A w \in Worker :
       /\ worker[w].at \in {"idle", "reading", "merging", "written", "ended", "last"}
       /\ worker[w].at = "idle" <=> worker[w].job = NoJob
       /\ worker[w].job \in Job \cup {NoJob} /\ worker[w].seen \in Reading
  /\ map \in Maps
  /\ \A s \in DOMAIN run : s \in 0 .. MaxStamp /\ run[s].seen \in Reading
                           /\ run[s].at \in {"queued", "asking", "ended"}
  /\ settled \in {"none", "done", "failed"} /\ drafted \in 0 .. MaxStamp
  /\ analysed \subseteq Repo /\ overlapped \subseteq Repo
  /\ mishaps \in 0 .. MaxMishaps

AnalysisInit ==
  /\ job = [j \in Job |-> "none"]
  /\ toCheck = Asked /\ toInsert = [q \in Request |-> {}]
  /\ worker = [w \in Worker |-> Idle]
  /\ map = NoMap
  /\ run = [s \in {} |-> [at |-> "ended", seen |-> Nothing]]
  /\ settled = "none" /\ drafted = 0
  /\ analysed = {} /\ overlapped = {}
  /\ mishaps = 0

-----------------------------------------------------------------------------
Seen == [exists |-> map.exists, items |-> map.items, since |-> {}]
Active(j) == job[j] \in {"queued", "running"}

\* enqueueProjectAnalysis: look for an active job of the repository, ...
LookForJob(q, r) ==
  /\ r \in toCheck[q] /\ toInsert[q] = {}
  /\ toCheck' = [toCheck EXCEPT ![q] = @ \ {r}]
  /\ toInsert' = [toInsert EXCEPT ![q] = IF \E j \in Job : RepoOf(j) = r /\ Active(j) THEN {} ELSE {r}]
  /\ UNCHANGED <<job, worker, map, run, settled, drafted, analysed, overlapped, mishaps>>
\* ... and insert one if there was none.
InsertJob(q, r) ==
  /\ r \in toInsert[q]
  /\ toInsert' = [toInsert EXCEPT ![q] = {}]
  /\ job' = [job EXCEPT ![<<q, r>>] = "queued"]
  /\ UNCHANGED <<toCheck, worker, map, run, settled, drafted, analysed, overlapped, mishaps>>

\* recoverStuckJobs: a job that has run ten minutes, its worker alive or not.
RecoverJob(j) ==
  /\ job[j] = "running"
  /\ mishaps < MaxMishaps /\ mishaps' = mishaps + 1
  /\ job' = [job EXCEPT ![j] = "queued"]
  /\ UNCHANGED <<toCheck, toInsert, worker, map, run, settled, drafted, analysed, overlapped>>

ClaimJob(w, j) ==
  /\ worker[w].at = "idle" /\ job[j] = "queued"
  /\ job' = [job EXCEPT ![j] = "running"]
  /\ worker' = [worker EXCEPT ![w] = [Idle EXCEPT !.at = "reading", !.job = j]]
  /\ UNCHANGED <<toCheck, toInsert, map, run, settled, drafted, analysed, overlapped, mishaps>>

\* persistKnowledge, once the repository is read: BEGIN and the map as it is.
ReadMap(w) ==
  /\ worker[w].at = "reading"
  /\ worker' = [worker EXCEPT ![w].at = "merging", ![w].seen = Seen]
  /\ UNCHANGED <<job, toCheck, toInsert, map, run, settled, drafted, analysed, overlapped, mishaps>>

ReplaceEverySlice(items, r) == {<<r, TRUE>>}
ReplaceRepoSlice(items, r) == (items \ {<<r, TRUE>>}) \cup {<<r, TRUE>>}

\* Repository r is in the map from now on; the others that have read it before
\* will write without it.
Tell(readers, r) ==
  [x \in DOMAIN readers |-> IF readers[x].at \in {"merging", "asking"}
                            THEN [readers[x] EXCEPT !.seen.since = @ \cup {r}] ELSE readers[x]]

\* ... the map written, and COMMIT.  A second INSERT of a project's map throws.
WriteMap(w) ==
  /\ worker[w].at = "merging"
  /\ LET r == RepoOf(worker[w].job)
         seen == worker[w].seen
     IN  IF map.exists /\ ~seen.exists
         THEN /\ job' = [job EXCEPT ![worker[w].job] = "failed"]
              /\ settled' = "failed"
              /\ worker' = [worker EXCEPT ![w] = Idle]
              /\ UNCHANGED <<map, run, drafted, analysed, overlapped>>
         ELSE /\ map' = [exists |-> TRUE, items |-> ReplaceRepoSlice(seen.items, r),
                         stamp |-> map.stamp + 1]
              /\ drafted' = map.stamp + 1
              /\ analysed' = analysed \cup {r}
              /\ overlapped' = (overlapped \cup seen.since) \ {r}
              /\ worker' = [Tell(worker, r) EXCEPT ![w].at = "written", ![w].seen = Nothing]
              /\ run' = Tell(run, r)
              /\ UNCHANGED <<job, settled>>
  /\ UNCHANGED <<toCheck, toInsert, mishaps>>

\* runJob: the job is done, by its id, whatever has become of it.
EndJob(w) ==
  /\ worker[w].at = "written"
  /\ job' = [job EXCEPT ![worker[w].job] = "done"]
  /\ settled' = "done"
  /\ worker' = [worker EXCEPT ![w].at = "ended"]
  /\ UNCHANGED <<toCheck, toInsert, map, run, drafted, analysed, overlapped, mishaps>>

\* Whoever sees no active job left hands the map to a model, ...
CountUndone(w) ==
  /\ worker[w].at = "ended"
  /\ worker' = [worker EXCEPT ![w] = IF \E j \in Job : job[j] \notin {"none", "done"} THEN Idle ELSE [@ EXCEPT !.at = "last"]]
  /\ UNCHANGED <<job, toCheck, toInsert, map, run, settled, drafted, analysed, overlapped, mishaps>>
CountJobs(w) ==
  /\ worker[w].at = "ended"
  /\ worker' = [worker EXCEPT ![w] = IF \E j \in Job : Active(j) THEN Idle ELSE [@ EXCEPT !.at = "last"]]
  /\ UNCHANGED <<job, toCheck, toInsert, map, run, settled, drafted, analysed, overlapped, mishaps>>
\* ... by a run whose key holds the map's stamp, so once for each state of it.
EnqueueRun(w) ==
  /\ worker[w].at = "last"
  /\ run' = [s \in DOMAIN run \cup {map.stamp} |->
               IF s \in DOMAIN run THEN run[s]
               ELSE [at |-> "queued", seen |-> Nothing]]
  /\ worker' = [worker EXCEPT ![w] = Idle]
  /\ UNCHANGED <<job, toCheck, toInsert, map, settled, drafted, analysed, overlapped, mishaps>>

\* A job fails before it is marked done, or its process dies at any moment.
FailJob(w) ==
  /\ worker[w].at \in {"reading", "merging", "written"}
  /\ mishaps < MaxMishaps /\ mishaps' = mishaps + 1
  /\ job' = [job EXCEPT ![worker[w].job] = "failed"]
  /\ settled' = "failed"
  /\ worker' = [worker EXCEPT ![w] = Idle]
  /\ UNCHANGED <<toCheck, toInsert, map, run, drafted, analysed, overlapped>>
WorkerDies(w) ==
  /\ worker[w].at # "idle"
  /\ mishaps < MaxMishaps /\ mishaps' = mishaps + 1
  /\ settled' = IF worker[w].at \in {"written", "ended", "last"} THEN "failed" ELSE settled
  /\ worker' = [worker EXCEPT ![w] = Idle]
  /\ UNCHANGED <<job, toCheck, toInsert, map, run, drafted, analysed, overlapped>>

-----------------------------------------------------------------------------
\* executeKnowledge: the map is read, and a model asked about it.
AskModel(s) ==
  /\ run[s].at = "queued"
  /\ run' = [run EXCEPT ![s] = [at |-> "asking", seen |-> Seen]]
  /\ UNCHANGED <<job, toCheck, toInsert, worker, map, settled, drafted, analysed, overlapped, mishaps>>

\* mergeKnowledgeState: the modules the model names, where they are known; what
\* was read, if it names none.
MergeKnowledge(items, named) ==
  IF named = {} THEN items ELSE {<<i[1], FALSE>> : i \in {k \in items : k[1] \in named}}
RepoIn(items) == {i[1] : i \in items}

\* applyKnowledgeMerge over the row that was read, or an invalid answer, which
\* touches updated_at alone.
ModelAnswers(s) ==
  /\ run[s].at = "asking"
  /\ \/ \E named \in SUBSET RepoIn(run[s].seen.items) :
          LET items == MergeKnowledge(run[s].seen.items, named)
          IN  /\ map' = [exists |-> TRUE, items |-> items, stamp |-> map.stamp + 1]
              /\ overlapped' = overlapped \cup run[s].seen.since
                               \cup (RepoIn(run[s].seen.items) \ RepoIn(items))
     \/ map' = [map EXCEPT !.stamp = @ + 1] /\ UNCHANGED overlapped
  /\ run' = [run EXCEPT ![s] = [at |-> "ended", seen |-> Nothing]]
  /\ UNCHANGED <<job, toCheck, toInsert, worker, settled, drafted, analysed, mishaps>>

AnalysisNext ==
  \/ \E q \in Request, r \in Repo : LookForJob(q, r) \/ InsertJob(q, r)
  \/ \E j \in Job : RecoverJob(j) \/ (\E w \in Worker : ClaimJob(w, j))
  \/ \E w \in Worker : \/ ReadMap(w) \/ WriteMap(w) \/ EndJob(w) \/ CountJobs(w)
                       \/ EnqueueRun(w) \/ FailJob(w) \/ WorkerDies(w)
  \/ \E s \in DOMAIN run : AskModel(s) \/ ModelAnswers(s)

AnalysisSpec == AnalysisInit /\ [][AnalysisNext]_analysisVars

-----------------------------------------------------------------------------
\* When the work is over and the job that ended last ended well, the map that
\* the last draft left has been handed to a model: two workers that end their
\* jobs together do not each leave it to the other.
EnrichmentFollows ==
  /\ \A j \in Job : ~Active(j)
  /\ \A w \in Worker : worker[w].at = "idle"
  /\ settled = "done"
  => \E s \in DOMAIN run : s >= drafted

\* What a repository's analysis put into the map is still there, whatever other
\* repositories' analyses and the models have written since, except where one
\* of them had read the map before it was put there or a model left it out.
SlicesKept ==
  \A r \in analysed \ overlapped : \E tagged \in BOOLEAN : <<r, tagged>> \in map.items
=============================================================================
