----------------------------- MODULE MCPlatform -----------------------------
(***************************************************************************)
(* Small instances of the parts around the runs and the tickets, side by   *)
(* side: LiveLogs, CloudSessions, PlannerWorktrees, TicketBoard,           *)
(* SprintStates, CompanyPlan, FlowOwners, CompanyRuns and                  *)
(* ProviderCredentials.  They share no variable: one of them, chosen at the*)
(* start, moves while the others stand, and so every state of each is      *)
(* visited.                                                                *)
(***************************************************************************)
EXTENDS LiveLogs, CloudSessions, PlannerWorktrees, TicketBoard, SprintStates,
        CompanyPlan, FlowOwners, CompanyRuns, ProviderCredentials, TLC

CONSTANTS r1, r2, a1, a2, b1, c1, s1, s2, s3, f1, f2, g1, g2, k1, k2, l1,
          MaxTriesUsed   \* bound: attempts that the company's runs use up in all

MCSays == [r \in LogRun |-> IF r = r1 THEN 3 ELSE 0]

\* Two planners of one run in one process, and two of other runs and processes.
MCProcessOf == [p \in Planner |-> CASE p = b1 -> s2 [] p = c1 -> s3 [] OTHER -> s1]
MCRunOf == [p \in Planner |-> CASE p = b1 -> "b" [] p = c1 -> "c" [] OTHER -> "a"]

\* Orders at the borders of the leadership's sizes, and every mix: none, one that
\* divides unevenly, one of ties, and the security roles.
Mix(m) == [k \in ToSet(MixKeys) |-> IF k \in DOMAIN m THEN m[k] ELSE 0]
Plain == Mix([qa |-> 1, frontend |-> 2, backend |-> 2])
MCOrder ==
  [size : {3, 4, 5, 7, 8, 11, 12, 13},
   mix : {Mix(<<>>), Plain, Mix([security |-> 5, frontend |-> 1]),
          Mix([business |-> 1, junior |-> 1, aiml |-> 1, devops |-> 3, fullstack |-> 3])}]
MCLayerOf == [f \in Flow |-> IF f = f1 THEN "frontend" ELSE "fullstack"]

\* Answers to the smallest order: every assignment of managers, of roles, of names
\* before and after they are cleaned, and of owners of a flow to two of them.
Small == [size |-> 3, mix |-> Plain]
Lead == <<"ceo", "cto", "product_owner">>
Answer(roles, managers, names, cleaned, backups, flows) ==
  [i \in 1 .. 3 |-> [role |-> roles[i], manager |-> managers[i], name |-> names[i],
                     cleaned |-> cleaned[i], backup |-> backups[i], flows |-> flows[i]]]
OwnRows ==
  {<<>>, <<[flow |-> "other", layer |-> "backend", role |-> "owner"]>>}
  \cup {<<[flow |-> f1, layer |-> l, role |-> r]>> :
          l \in {"frontend", "fullstack", "both"}, r \in {"owner", "backup", "reader"}}
MCPlanned ==
  {Small} \X
  (    {Answer(Lead, m, <<1, 2, 3>>, <<1, 2, 3>>, m, <<<<>>, <<>>, <<>>>>) : m \in [1 .. 3 -> 0 .. 4]}
  \cup {Answer(r, <<0, 1, 1>>, <<1, 2, 3>>, <<1, 2, 3>>, <<2, 1, 1>>, <<<<>>, <<>>, <<>>>>) : r \in [1 .. 3 -> ToSet(Lead)]}
  \cup {Answer(<<"cto", "product_owner", "ceo">>, <<3, 1, 0>>, n, c, <<1, 1, 1>>, <<<<>>, <<>>, <<>>>>) :
          n \in [1 .. 3 -> 1 .. 3], c \in [1 .. 3 -> 2 .. 3] \cup {<<1, 2, 3>>}}
  \cup {Answer(Lead, <<0, 1, 2>>, <<1, 2, 3>>, <<1, 2, 3>>, <<0, 0, 0>>, <<u, w, <<>>>>) : u, w \in OwnRows})

\* What a PUT asks for: a fullstack owner with a backup, owners of the halves, and
\* both of them at once, which is refused.
Owner(l, r, k) == [layer |-> l, role |-> r, agent |-> k]
WholeStack == {Owner("fullstack", "owner", k1), Owner("fullstack", "backup", k2)}
Halves == {Owner("frontend", "owner", k1), Owner("backend", "owner", k2), Owner("frontend", "backup", k2)}
MCOwnerLists == {WholeStack, Halves, WholeStack \cup Halves}

\* Two credentials of a provider that codes, and one of a provider that needs no key.
MCProviderOf == [k \in Credential |-> IF k = l1 THEN "ollama" ELSE "cursor"]

TriesUsed == Cardinality(UNION {{n} \X (1 .. companyRuns[n].attempt) : n \in DOMAIN companyRuns})

-----------------------------------------------------------------------------
VARIABLE part   \* the one that moves

Others == <<logVars, cloudVars, worktreeVars, boardVars, sprintVars, planVars, ownersVars,
            companyVars, credentialVars>>

PlatformInit ==
  /\ part \in {"logs", "cloud", "worktrees", "board", "sprints", "plan", "owners", "company", "credentials"}
  /\ LogsInit /\ CloudInit /\ WorktreesInit /\ BoardInit /\ SprintsInit /\ PlanInit
  /\ OwnersInit /\ CompanyInit /\ CredentialsInit

PlatformNext ==
  /\ UNCHANGED part
  /\ \/ part = "logs" /\ LogsNext
        /\ UNCHANGED <<cloudVars, worktreeVars, boardVars, sprintVars, planVars, ownersVars, companyVars, credentialVars>>
     \/ part = "cloud" /\ CloudNext
        /\ UNCHANGED <<logVars, worktreeVars, boardVars, sprintVars, planVars, ownersVars, companyVars, credentialVars>>
     \/ part = "worktrees" /\ WorktreesNext
        /\ UNCHANGED <<logVars, cloudVars, boardVars, sprintVars, planVars, ownersVars, companyVars, credentialVars>>
     \/ part = "board" /\ BoardNext
        /\ UNCHANGED <<logVars, cloudVars, worktreeVars, sprintVars, planVars, ownersVars, companyVars, credentialVars>>
     \/ part = "sprints" /\ SprintsNext
        /\ UNCHANGED <<logVars, cloudVars, worktreeVars, boardVars, planVars, ownersVars, companyVars, credentialVars>>
     \/ part = "plan" /\ PlanNext
        /\ UNCHANGED <<logVars, cloudVars, worktreeVars, boardVars, sprintVars, ownersVars, companyVars, credentialVars>>
     \/ part = "owners" /\ OwnersNext
        /\ UNCHANGED <<logVars, cloudVars, worktreeVars, boardVars, sprintVars, planVars, companyVars, credentialVars>>
     \/ part = "company" /\ CompanyNext /\ TriesUsed' <= MaxTriesUsed
        /\ UNCHANGED <<logVars, cloudVars, worktreeVars, boardVars, sprintVars, planVars, ownersVars, credentialVars>>
     \/ part = "credentials" /\ CredentialsNext
        /\ UNCHANGED <<logVars, cloudVars, worktreeVars, boardVars, sprintVars, planVars, ownersVars, companyVars>>

PlatformSpec == PlatformInit /\ [][PlatformNext]_<<part, Others>>
=============================================================================
