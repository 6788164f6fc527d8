-------------------------- MODULE PlannerWorktrees --------------------------
(***************************************************************************)
(* The worktrees of the local planner (services/models/localAgentProcess.ts*)
(* and cursorLocalReasoner of models/reasoning.ts), for one repository.    *)
(*                                                                         *)
(* A planner works in a worktree added to the repository's mirror.  The    *)
(* mirror is cloned or fetched and a worktree added in turn: within a      *)
(* process by a chain of promises, between processes by a lock file, which *)
(* is removed when it is old.  Planners of the same run in one process     *)
(* share a worktree, counted in heldWorktrees; the last of them removes    *)
(* it, by commands that git runs at the mirror out of turn.                *)
(***************************************************************************)
EXTENDS Naturals, Sequences, FiniteSets, SequencesExt

CONSTANTS Planner, Process,
          ProcessOf,   \* [Planner -> Process]
          RunOf,       \* the key under which a planner shares its worktree
          NoLock

ASSUME WorktreesAssumption ==
  ProcessOf \in [Planner -> Process] /\ DOMAIN RunOf = Planner /\ NoLock \notin Planner

VARIABLES
  at,        \* where each planner is
  chain,     \* repoChains: who is served or waits in each process
  lock,      \* checkout.lock: whose it is
  seen,      \* the lock whose age each waiter has read
  old,       \* the lock file is older than LOCK_STALE_MS
  held,      \* heldWorktrees of each process: by run, the worktree and its holders
  cwd,       \* each planner's worktree, by the planner that had it added
  disk,      \* the worktrees there are
  robbed,    \* history: a lock was removed that was not the one found old
  replaced,   \* history: runs whose shared worktree was replaced in heldWorktrees
  littered   \* history: worktrees left by a failure after they were added, or
             \* by one to remove them

worktreeVars == <<at, chain, lock, seen, old, held, cwd, disk, robbed, replaced, littered>>

At == {"new", "waiting", "statted", "inside", "added", "using", "removing", "clearing",
       "pruning", "over", "dead"}
InTurn == {"waiting", "statted", "inside", "added"}
NoSlots == [r \in {} |-> 0]

WorktreesInit ==
  /\ at = [p \in Planner |-> "new"]
  /\ chain = [s \in Process |-> <<>>]
  /\ lock = NoLock /\ old = FALSE
  /\ seen = [p \in Planner |-> NoLock]
  /\ held = [s \in Process |-> NoSlots]
  /\ cwd = [p \in Planner |-> p]
  /\ disk = {}
  /\ robbed = FALSE /\ replaced = {} /\ littered = {}

MovesOn(p, to) == at' = [at EXCEPT ![p] = to]
Slots(p) == held[ProcessOf[p]]
InFront(p) == chain[ProcessOf[p]] # <<>> /\ Head(chain[ProcessOf[p]]) = p
LeavesChain(p) == chain' = [chain EXCEPT ![ProcessOf[p]] = Tail(@)]
SetSlots(p, slots) == held' = [held EXCEPT ![ProcessOf[p]] = slots]

-----------------------------------------------------------------------------
\* plannerCwd: the worktree of the run is shared, or a turn is asked for.
AskCwd(p) ==
  /\ at[p] = "new"
  /\ IF RunOf[p] \in DOMAIN Slots(p)
     THEN /\ cwd' = [cwd EXCEPT ![p] = Slots(p)[RunOf[p]].cwd]
          /\ SetSlots(p, [Slots(p) EXCEPT ![RunOf[p]].holders = @ + 1])
          /\ MovesOn(p, "using")
          /\ UNCHANGED chain
     ELSE /\ chain' = [chain EXCEPT ![ProcessOf[p]] = Append(@, p)]
          /\ MovesOn(p, "waiting")
          /\ UNCHANGED <<held, cwd>>
  /\ UNCHANGED <<lock, seen, old, disk, robbed, replaced, littered>>

\* withFileLock: the file is created unless it is there, ...
TakeLock(p) ==
  /\ at[p] = "waiting" /\ InFront(p)
  /\ lock = NoLock
  /\ lock' = p /\ old' = FALSE
  /\ MovesOn(p, "inside")
  /\ UNCHANGED <<chain, seen, held, cwd, disk, robbed, replaced, littered>>
\* ... its age is read ...
AnyLock == lock # NoLock
OldLock == lock # NoLock /\ old
StatLock(p) ==
  /\ at[p] = "waiting" /\ InFront(p)
  /\ OldLock
  /\ seen' = [seen EXCEPT ![p] = lock]
  /\ MovesOn(p, "statted")
  /\ UNCHANGED <<chain, lock, old, held, cwd, disk, robbed, replaced, littered>>
\* ... and then whatever file is there is removed; the waiter tries again ...
RemoveOldLock(p) ==
  /\ at[p] = "statted"
  /\ lock' = NoLock /\ old' = FALSE
  /\ robbed' = (robbed \/ lock \notin {NoLock, seen[p]})
  /\ seen' = [seen EXCEPT ![p] = NoLock]
  /\ \/ MovesOn(p, "waiting") /\ UNCHANGED chain
     \/ MovesOn(p, "over") /\ LeavesChain(p)
  /\ UNCHANGED <<held, cwd, disk, replaced, littered>>
\* ... or gives up, as it may also after that removal.
GiveUp(p) ==
  /\ at[p] = "waiting" /\ InFront(p) /\ lock # NoLock
  /\ MovesOn(p, "over") /\ LeavesChain(p)
  /\ UNCHANGED <<lock, seen, old, held, cwd, disk, robbed, replaced, littered>>
\* A dead process's lock grows old.  A live one's does not: what is done under it
\* is timed out after a hundred seconds.
LockAges ==
  /\ lock # NoLock /\ ~old /\ at[lock] = "dead"
  /\ old' = TRUE
  /\ UNCHANGED <<at, chain, lock, seen, held, cwd, disk, robbed, replaced, littered>>

\* The mirror is cloned or fetched, and a worktree is added; any of it may fail,
\* the removal of the hooks after the worktree is there.
AddWorktree(p) ==
  /\ at[p] = "inside"
  /\ disk' = disk \cup {p}
  /\ MovesOn(p, "added")
  /\ UNCHANGED <<chain, lock, seen, old, held, cwd, robbed, replaced, littered>>
\* The lock file is removed, whoever's it is by now.
Unlock == lock' = NoLock /\ old' = FALSE
GitFails(p) ==
  /\ at[p] = "inside"
  /\ \/ UNCHANGED <<disk, littered>>
     \/ disk' = disk \cup {p} /\ littered' = littered \cup {p}
  /\ Unlock /\ LeavesChain(p)
  /\ MovesOn(p, "over")
  /\ UNCHANGED <<seen, held, cwd, robbed, replaced>>
\* The run's slot becomes this worktree's, also if it is another's by now.
HoldWorktree(p) ==
  /\ at[p] = "added"
  /\ Unlock /\ LeavesChain(p)
  /\ SetSlots(p, [r \in DOMAIN Slots(p) \cup {RunOf[p]} |->
                    IF r = RunOf[p] THEN [cwd |-> p, holders |-> 1] ELSE Slots(p)[r]])
  /\ replaced' = IF RunOf[p] \in DOMAIN Slots(p) /\ Slots(p)[RunOf[p]].holders > 1
                THEN replaced \cup {RunOf[p]} ELSE replaced
  /\ MovesOn(p, "using")
  /\ UNCHANGED <<seen, cwd, disk, robbed, littered>>

\* releasePlannerWorktree: the slot of this worktree is looked for; a holder that
\* is not the last leaves, the last one, or one without a slot, removes it.
Sharing(p) == {r \in DOMAIN Slots(p) : Slots(p)[r].cwd = cwd[p]}
Uncounted(p) == FALSE
LeavesOthers(p) == \E r \in Sharing(p) : Slots(p)[r].holders > 1
Release(p) ==
  /\ at[p] = "using"
  /\ IF LeavesOthers(p)
     THEN /\ SetSlots(p, [r \in DOMAIN Slots(p) |->
                            IF r \in Sharing(p) THEN [Slots(p)[r] EXCEPT !.holders = @ - 1] ELSE Slots(p)[r]])
          /\ MovesOn(p, "over")
     ELSE /\ SetSlots(p, [r \in DOMAIN Slots(p) \ Sharing(p) |-> Slots(p)[r]])
          /\ MovesOn(p, "removing")
  /\ UNCHANGED <<chain, lock, seen, old, cwd, disk, robbed, replaced, littered>>
\* removeWorktree, outside the chain and the lock: git removes the worktree, ...
IsGone(p) == disk' = disk \ {cwd[p]} /\ littered' = littered \ {cwd[p]}
RemoveWorktree(p) ==
  /\ at[p] = "removing"
  /\ \/ cwd[p] \in disk /\ IsGone(p) /\ MovesOn(p, "over")
     \/ UNCHANGED <<disk, littered>> /\ MovesOn(p, "clearing")
  /\ UNCHANGED <<chain, lock, seen, old, held, cwd, robbed, replaced>>
\* ... or fails, or there is none: the directory is removed, which may fail too, ...
ClearWorktree(p) ==
  /\ at[p] = "clearing"
  /\ \/ IsGone(p) /\ \E to \in {"pruning", "over"} : MovesOn(p, to)
     \/ /\ cwd[p] \in disk /\ littered' = littered \cup {cwd[p]}
        /\ MovesOn(p, "over")
        /\ UNCHANGED disk
  /\ UNCHANGED <<chain, lock, seen, old, held, cwd, robbed, replaced>>
\* ... and then git forgets it, if the mirror was known.
PruneMirror(p) ==
  /\ at[p] = "pruning"
  /\ MovesOn(p, "over")
  /\ UNCHANGED <<chain, lock, seen, old, held, cwd, disk, robbed, replaced, littered>>

\* A process dies; its lock file and its worktrees stay.
ProcessDies(s) ==
  /\ \E p \in Planner : ProcessOf[p] = s /\ at[p] \notin {"new", "over", "dead"}
  /\ at' = [p \in Planner |-> IF ProcessOf[p] = s /\ at[p] # "over" THEN "dead" ELSE at[p]]
  /\ chain' = [chain EXCEPT ![s] = <<>>]
  /\ held' = [held EXCEPT ![s] = NoSlots]
  /\ UNCHANGED <<lock, seen, old, cwd, disk, robbed, replaced, littered>>

WorktreesNext ==
  \/ \E p \in Planner :
       \/ AskCwd(p) \/ TakeLock(p) \/ StatLock(p) \/ RemoveOldLock(p) \/ GiveUp(p)
       \/ AddWorktree(p) \/ GitFails(p) \/ HoldWorktree(p) \/ Release(p)
       \/ RemoveWorktree(p) \/ ClearWorktree(p) \/ PruneMirror(p)
  \/ LockAges
  \/ \E s \in Process : ProcessDies(s)

WorktreesSpec == WorktreesInit /\ [][WorktreesNext]_worktreeVars

-----------------------------------------------------------------------------
WorktreesTypeOK ==
  /\ at \in [Planner -> At]
  /\ lock \in Planner \cup {NoLock} /\ seen \in [Planner -> Planner \cup {NoLock}] /\ old \in BOOLEAN
  /\ cwd \in [Planner -> Planner]
  /\ disk \cup littered \subseteq Planner
  /\ \A s \in Process : ToSet(chain[s]) = {p \in Planner : ProcessOf[p] = s /\ at[p] \in InTurn}

\* One planner at a time, in all the processes, clones or fetches the mirror, checks
\* it out and adds a worktree of what it has checked out, unless a waiter removed the
\* lock of one that had come after the dead one's.  Who removes a worktree is not in
\* this turn: its git commands at the mirror run beside those.
MirrorExclusive == robbed \/ Cardinality({p \in Planner : at[p] = "inside"}) <= 1

\* Who plans in a worktree has it until it lets go, though others of its run come
\* and go, unless a worktree shared by two was replaced in heldWorktrees; and in
\* the end every worktree is gone that no failure and no dead process has left.
WorktreeStands ==
  /\ \A p \in Planner : at[p] = "using" /\ RunOf[p] \notin replaced => cwd[p] \in disk
  /\ (\A p \in Planner : at[p] \in {"new", "over"}) =>
        disk = littered /\ \A s \in Process : held[s] = NoSlots
=============================================================================
