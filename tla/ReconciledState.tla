-------------------------- MODULE ReconciledState --------------------------
(***************************************************************************)
(* The reconciled state of a workspace and everything that changes it:     *)
(* src/workspace/state/mod.rs (index, repository status, stamp, mutation   *)
(* gate, writer), the pending paths of src/workspace/state/ledger.rs,      *)
(* reconcile.rs, commit.rs, the edit pipeline of edit.rs, rescan of        *)
(* summary.rs, the Git actions of git.rs and refresh_paths of              *)
(* index/scan.rs.                                                          *)
(*                                                                         *)
(* Around it: an editor that writes files and commits at any moment, and a *)
(* file watcher that reports each write some time later, possibly twice.   *)
(*                                                                         *)
(* Only the holder of the state writer works on the state, so its program  *)
(* counter and locals are single variables (wpc, draft, todo, ...).  Under *)
(* the state lock the code changes the index in place; no reader sees it   *)
(* before the lock is released, so the model keeps it in draft and copies  *)
(* it to index when update returns, with an error or without.  A status    *)
(* that is read and applied with nothing in between is one step.           *)
(*                                                                         *)
(* The internal-write markers and the mutation log, which these handlers   *)
(* also feed, do not influence this state and are left out here.           *)
(***************************************************************************)
EXTENDS Naturals, FiniteSets

CONSTANTS
  Clients,      \* concurrent requests
  Paths,        \* workspace files
  Texts,        \* contents the index can hold
  Opaque,       \* contents it skips: binary, not UTF-8, too large
  Writable,     \* those of them an edit can write: with a NUL byte, too large
  Excluded,     \* files it leaves out whatever they hold: exclusions, secrets
  Absent,       \* the content of a missing file
  Git,          \* a watcher event under .git/
  None,         \* no holder of a lock; a failed `git status`
  MaxExternal,  \* bound: writes and commits made outside CodeWeave
  MaxRepeats,   \* bound: writes the watcher reports again
  MaxFaults,    \* bound: operations on files or the repository that fail
  MaxEdits,     \* bound: code_edit calls
  MaxGit,       \* bound: git calls
  MaxRescans    \* bound: forced refreshes

ASSUME ContentAssumption ==
  /\ Texts \intersect Opaque = {}
  /\ Writable \subseteq Opaque
  /\ Absent \notin Texts \union Opaque
ASSUME PathAssumption == Git \notin Paths /\ Excluded \subseteq Paths
ASSUME ClientAssumption == None \notin Clients
ASSUME BoundAssumption ==
  {MaxExternal, MaxRepeats, MaxFaults, MaxEdits, MaxGit, MaxRescans} \subseteq Nat

VARIABLES
  \* the worktree and the repository: HEAD, its files, git's staging area
  disk, head, committed, stagingArea,
  \* struct Reconciled
  index, repo, stale, generation, snapshot,
  \* the watcher's undelivered events and the ledger's pending paths
  events, pending, flag,
  \* what each request does and where it stands; mutation gate, state writer
  op, at, permit, writer, wpc,
  \* locals of the request that holds the writer
  draft, todo, gitEvent, gitSeen,
  \* the edit plan and how far its commit or compensation got
  before, after, done, failures, undoRefresh,
  \* edits whose validation runs on in the background
  detached,
  \* history, read by properties only: dropped reports, an index changed
  \* without a new snapshot id, external writes since the recheck
  lost, torn, raced,
  \* what is left of the bounds
  left

repoVars   == <<disk, head, committed, stagingArea>>
stateVars  == <<index, repo, stale, generation, snapshot>>
ledgerVars == <<events, pending, flag>>
callVars   == <<op, at, permit, detached>>
localVars  == <<draft, todo, gitEvent, gitSeen>>
planVars   == <<before, after, done, failures, undoRefresh>>
ghostVars  == <<lost, torn, raced>>
vars == <<repoVars, stateVars, ledgerVars, callVars, writer, wpc,
          localVars, planVars, ghostVars, left>>

Contents == Texts \union Opaque \union {Absent}
Entries  == Texts \union {Absent}

(* A scan and a refresh pass over file p when it has content c. *)
Skips(p, c) == c \in Opaque \/ (p \in Excluded /\ c # Absent)

(* What a full scan puts in the index for file p with content c. *)
Indexed(p, c) == IF Skips(p, c) THEN Absent ELSE c

(* What a refresh makes of the entry of file p, which has content c: a      *)
(* file it skips keeps the entry it had.                                   *)
EntryAfter(p, entry, c) == IF Skips(p, c) THEN entry ELSE c

(* What `git status` would answer now. *)
GitStatus ==
  [head   |-> head,
   staged |-> {p \in Paths : stagingArea[p] # committed[p]},
   dirty  |-> {p \in Paths : disk[p] # stagingArea[p]}]

(* RepoStatus::default, the status before the first successful refresh. *)
NoStatus == [head |-> 0, staged |-> {}, dirty |-> {}]

(* CodeIndex::snapshot_id: a digest of the indexed contents and HEAD. *)
SnapshotId(i, h) == [index |-> i, head |-> h]

GitMutations == {"stage", "commit", "restore"}
Ops == GitMutations \union {"none", "reconcile", "edit", "refresh", "status"}

(* The files an edit plan changes. *)
Planned == {p \in Paths : after[p] # before[p]}

(* Where the holder of the writer runs refresh_paths, and where it is in   *)
(* commit_plan.                                                            *)
Refreshing == {"refresh", "crefresh", "urefresh"}
Committing == {"write", "crefresh", "undo", "urefresh", "undone", "committed"}

WriterStates ==
  {"off", "swap", "take", "refresh", "plan", "recheck", "write", "crefresh",
   "undo", "urefresh", "undone", "committed", "clear", "lower", "scan",
   "status", "release", "failed"}

StatusType == [head : Nat, staged : SUBSET Paths, dirty : SUBSET Paths]

TypeOK ==
  /\ disk \in [Paths -> Contents]
  /\ head \in Nat
  /\ committed \in [Paths -> Contents]
  /\ stagingArea \in [Paths -> Contents]
  /\ index \in [Paths -> Entries]
  /\ repo \in StatusType
  /\ stale \in BOOLEAN
  /\ generation \in Nat
  /\ snapshot \in [index : [Paths -> Entries], head : Nat]
  /\ events \in SUBSET (Paths \union {Git})
  /\ pending \in SUBSET (Paths \union {Git})
  /\ flag \in BOOLEAN
  /\ op \in [Clients -> Ops]
  /\ at \in [Clients -> {"idle", "reconcile", "mutate", "own", "validate"}]
  /\ permit \in Clients \union {None}
  /\ writer \in Clients \union {None}
  /\ wpc \in WriterStates
  /\ draft \in [Paths -> Entries]
  /\ todo \in SUBSET Paths
  /\ gitEvent \in BOOLEAN
  /\ gitSeen \in StatusType \union {None}
  /\ before \in [Paths -> Entries]
  /\ after \in [Paths -> Entries \union Writable]
  /\ done \in SUBSET Paths
  /\ failures \in SUBSET Paths
  /\ undoRefresh \in BOOLEAN
  /\ detached \in SUBSET Clients
  /\ lost \in SUBSET Paths
  /\ torn \in BOOLEAN
  /\ raced \in SUBSET Paths
  /\ left \in [{"ext", "repeat", "fault", "edit", "git", "scan"} -> Nat]

Empty == [p \in Paths |-> Absent]

(* ReconciledState::new after the scan of open_with_repository. *)
Init ==
  /\ disk \in [Paths -> Contents]
  /\ head = 1
  /\ committed = disk
  /\ stagingArea = disk
  /\ index = [p \in Paths |-> Indexed(p, disk[p])]
  /\ \/ repo = GitStatus /\ stale = FALSE
     \/ repo = NoStatus /\ stale = TRUE
  /\ generation = 1
  /\ snapshot = SnapshotId(index, repo.head)
  /\ events = {}
  /\ pending = {}
  /\ flag = FALSE
  /\ op = [c \in Clients |-> "none"]
  /\ at = [c \in Clients |-> "idle"]
  /\ permit = None
  /\ writer = None
  /\ wpc = "off"
  /\ draft = Empty
  /\ todo = {}
  /\ gitEvent = FALSE
  /\ gitSeen = None
  /\ before = Empty
  /\ after = Empty
  /\ done = {}
  /\ failures = {}
  /\ undoRefresh = FALSE
  /\ detached = {}
  /\ lost = {}
  /\ torn = FALSE
  /\ raced = {}
  /\ left = [ext |-> MaxExternal, repeat |-> MaxRepeats, fault |-> MaxFaults,
             edit |-> MaxEdits, git |-> MaxGit, scan |-> MaxRescans]

(* One more event of a bounded kind. *)
Spend(k) == left[k] > 0 /\ left' = [left EXCEPT ![k] = @ - 1]

-----------------------------------------------------------------------------
(* The editor, the repository and the file watcher.                        *)

(* Somebody else (an editor, a build, a Bash run) writes, creates or       *)
(* deletes a file.                                                         *)
ExternalWrite(p, c) ==
  /\ Spend("ext")
  /\ c # disk[p]
  /\ disk' = [disk EXCEPT ![p] = c]
  /\ events' = events \union {p}
  /\ raced' = IF p \in Planned THEN raced \union {p} ELSE raced
  /\ UNCHANGED <<head, committed, stagingArea, stateVars, pending, flag, callVars,
                 writer, wpc, localVars, planVars, lost, torn>>

(* Somebody else commits everything. *)
ExternalGit ==
  /\ Spend("ext")
  /\ head' = head + 1
  /\ committed' = disk
  /\ stagingArea' = disk
  /\ events' = events \union {Git}
  /\ UNCHANGED <<disk, stateVars, pending, flag, callVars, writer, wpc,
                 localVars, planVars, ghostVars>>

(* Mutant: the flag is not raised. *)
ObserveQuietly(e) ==
  /\ e \in events
  /\ pending' = pending \union {e}
  /\ UNCHANGED flag
  /\ UNCHANGED <<repoVars, stateVars, callVars, writer, wpc, localVars,
                 planVars, ghostVars>>

(* PendingHandle::observe, under the lock of the pending paths. *)
Observe(e) ==
  /\ e \in events
  /\ pending' = pending \union {e}
  /\ flag' = TRUE
  /\ UNCHANGED <<repoVars, stateVars, callVars, writer, wpc, localVars,
                 planVars, ghostVars>>

Deliver(e) ==
  /\ Observe(e)
  /\ events' = events \ {e}
  /\ UNCHANGED left

(* The watcher may report one write several times. *)
DeliverAgain(e) ==
  /\ Observe(e)
  /\ Spend("repeat")
  /\ UNCHANGED events

-----------------------------------------------------------------------------
(* Requests.  A request that mutates waits for the mutation gate first;    *)
(* waiting changes nothing, so a call starts when it has the permit.       *)

Call(c, o, a) ==
  /\ at[c] = "idle"
  /\ op' = [op EXCEPT ![c] = o]
  /\ at' = [at EXCEPT ![c] = a]
  /\ UNCHANGED <<repoVars, stateVars, ledgerVars, writer, wpc, localVars,
                 planVars, detached, ghostVars>>

(* reconcile_pending: without a reported path it returns at once.  Every   *)
(* reading request begins with it.                                         *)
ReconcilePending(c) ==
  /\ flag
  /\ Call(c, "reconcile", "own")
  /\ UNCHANGED <<permit, left>>

(* refresh with force. *)
Refresh(c) ==
  /\ Spend("scan")
  /\ Call(c, "refresh", "own")
  /\ UNCHANGED permit

(* code_edit. *)
CodeEdit(c) ==
  /\ Spend("edit")
  /\ permit = None
  /\ Call(c, "edit", "own")
  /\ permit' = c

(* git with the action status or preflight, up to git_blocking's reconcile. *)
GitRead(c) ==
  /\ Spend("git")
  /\ Call(c, "status", IF flag THEN "reconcile" ELSE "own")
  /\ UNCHANGED permit

(* git with a mutating action: first the permit, then the reconcile. *)
GitMutate(c, o) ==
  /\ Spend("git")
  /\ permit = None
  /\ Call(c, o, IF flag THEN "reconcile" ELSE "mutate")
  /\ permit' = c

(* git_mutation: the repository action itself.  It needs no writer. *)
MutateRepository(c) ==
  /\ at[c] = "mutate"
  /\ at' = [at EXCEPT ![c] = "own"]
  /\ \/ /\ op[c] = "stage"
        /\ \E p \in Paths : stagingArea' = [stagingArea EXCEPT ![p] = disk[p]]
        /\ events' = events \union {Git}
        /\ UNCHANGED <<disk, head, committed>>
     \/ /\ op[c] = "commit"
        /\ stagingArea # committed
        /\ committed' = stagingArea
        /\ head' = head + 1
        /\ events' = events \union {Git}
        /\ UNCHANGED <<disk, stagingArea>>
     \/ /\ op[c] = "restore"
        /\ \E p \in Paths :
             \/ /\ disk' = [disk EXCEPT ![p] = stagingArea[p]]
                /\ events' = events \union {p}
                /\ UNCHANGED stagingArea
             \/ /\ stagingArea' = [stagingArea EXCEPT ![p] = committed[p]]
                /\ events' = events \union {Git}
                /\ UNCHANGED disk
        /\ UNCHANGED <<head, committed>>
  /\ UNCHANGED <<stateVars, pending, flag, op, permit, detached, writer, wpc,
                 localVars, planVars, ghostVars, left>>

(* The request is over: its permit, if it has one, is dropped. *)
Return(c) ==
  /\ op' = [op EXCEPT ![c] = "none"]
  /\ at' = [at EXCEPT ![c] = "idle"]
  /\ permit' = IF permit = c THEN None ELSE permit

(* The repository action fails and so does the request; a commit with      *)
(* nothing staged always does.                                             *)
MutationFails(c) ==
  /\ \/ Spend("fault")
     \/ op[c] = "commit" /\ stagingArea = committed /\ UNCHANGED left
  /\ at[c] = "mutate"
  /\ Return(c)
  /\ UNCHANGED <<repoVars, stateVars, ledgerVars, detached, writer, wpc,
                 localVars, planVars, ghostVars>>

(* ReconciledState::writer.  What the request does first with it: *)
FirstStep(c) ==
  CASE at[c] = "reconcile" \/ op[c] \in {"reconcile", "edit"} -> "swap"
    [] at[c] = "own" /\ op[c] \in {"refresh", "restore"} -> "clear"
    [] OTHER -> "status"

AcquireWriter(c) ==
  /\ at[c] \in {"reconcile", "own"}
  /\ writer = None
  /\ writer' = c
  /\ wpc' = FirstStep(c)
  /\ UNCHANGED <<repoVars, stateVars, ledgerVars, callVars, localVars,
                 planVars, ghostVars, left>>

-----------------------------------------------------------------------------
(* Steps shared by the operations of the writer.                           *)

(* Repository::status answers s. *)
StatusIs(s) ==
  \/ s = GitStatus /\ UNCHANGED left
  \/ s = None /\ Spend("fault")

(* StateUpdate::apply_repo_status: a failed status keeps the old one. *)
ApplyRepoStatus(s) ==
  /\ repo' = IF s = None THEN repo ELSE s
  /\ stale' = (s = None)

(* Mutant: the generation stays. *)
BumpNothing == UNCHANGED generation

BumpGeneration == generation' = generation + 1

(* Mutant: the old HEAD is used. *)
RecomputeFromOldHead ==
  /\ snapshot' = SnapshotId(index', repo.head)
  /\ torn' = FALSE

(* Reconciled::recompute_snapshot, from the state being published. *)
RecomputeSnapshot ==
  /\ snapshot' = SnapshotId(index', repo'.head)
  /\ torn' = FALSE

(* One file of CodeIndex::refresh_paths: a missing file is removed, text   *)
(* is stored, and a file the index does not hold keeps its old entry.      *)
Refreshed(i, p) == [i EXCEPT ![p] = EntryAfter(p, @, disk[p])]

RefreshPath(p) ==
  /\ wpc \in Refreshing
  /\ p \in todo
  /\ draft' = Refreshed(draft, p)
  /\ todo' = todo \ {p}
  /\ lost' = lost \ {p}
  /\ UNCHANGED <<repoVars, stateVars, ledgerVars, callVars, writer, wpc,
                 gitEvent, gitSeen, planVars, torn, raced, left>>

(* What refresh_paths did before a read failed stays in the index. *)
LeaveHalfRefreshed ==
  /\ todo # {}
  /\ index' = draft
  /\ torn' = (torn \/ draft # index)
  /\ UNCHANGED <<repo, stale, generation, snapshot>>

-----------------------------------------------------------------------------
(* reconcile_with.                                                         *)

AfterReconcile == IF op[writer] = "edit" THEN "plan" ELSE "release"

(* drain_pending: needs_reconcile.swap, then the paths are taken. *)
DrainSwap ==
  /\ wpc = "swap"
  /\ wpc' = IF flag THEN "take" ELSE AfterReconcile
  /\ flag' = FALSE
  /\ UNCHANGED <<repoVars, stateVars, events, pending, callVars, writer,
                 localVars, planVars, ghostVars, left>>

(* Mutant: a Git event hides the other paths. *)
DrainTakeGitOnly ==
  /\ wpc = "take"
  /\ wpc' = "refresh"
  /\ todo' = IF Git \in pending THEN {} ELSE pending
  /\ gitEvent' = (Git \in pending)
  /\ pending' = {}
  /\ draft' = index
  /\ UNCHANGED <<repoVars, stateVars, events, flag, callVars, writer, gitSeen,
                 planVars, ghostVars, left>>

DrainTake ==
  /\ wpc = "take"
  /\ wpc' = "refresh"
  /\ todo' = pending \ {Git}
  /\ gitEvent' = (Git \in pending)
  /\ pending' = {}
  /\ draft' = index
  /\ UNCHANGED <<repoVars, stateVars, events, flag, callVars, writer, gitSeen,
                 planVars, ghostVars, left>>

(* The paths that were drained and not refreshed are not queued again. *)
ReconcileFails ==
  /\ Spend("fault")
  /\ wpc = "refresh"
  /\ LeaveHalfRefreshed
  /\ lost' = lost \union todo
  /\ wpc' = "failed"
  /\ UNCHANGED <<repoVars, ledgerVars, callVars, writer, localVars,
                 planVars, raced>>

(* The end of reconcile_with's update. *)
ReconcilePublish ==
  /\ wpc = "refresh"
  /\ todo = {}
  /\ index' = draft
  /\ LET changed == draft # index IN
       /\ IF gitEvent \/ changed
          THEN \E s \in {GitStatus, None} : StatusIs(s) /\ ApplyRepoStatus(s)
          ELSE UNCHANGED <<repo, stale, left>>
       /\ IF changed \/ repo' # repo THEN BumpGeneration ELSE UNCHANGED generation
       /\ IF changed \/ repo'.head # repo.head
          THEN RecomputeSnapshot
          ELSE UNCHANGED <<snapshot, torn>>
  /\ wpc' = AfterReconcile
  /\ UNCHANGED <<repoVars, ledgerVars, callVars, writer, localVars, planVars,
                 lost, raced>>

-----------------------------------------------------------------------------
(* prepare_edit after its reconcile, and commit_plan.  The plan is written *)
(* in path order; paths do not depend on each other, so any order will do. *)

(* plan_change over the whole request: what each file has to become.  It   *)
(* looks at neither the size of a text, nor for NUL bytes, nor at the       *)
(* exclusions, so a plan may hold what the index passes over.              *)
PlanEdit ==
  /\ wpc = "plan"
  /\ before' = index
  /\ after' \in [Paths -> Entries \union Writable] \ {index}
  /\ todo' = {p \in Paths : after'[p] # index[p]}
  /\ wpc' = "recheck"
  /\ UNCHANGED <<repoVars, stateVars, ledgerVars, callVars, writer, draft,
                 gitEvent, gitSeen, done, failures, undoRefresh, ghostVars, left>>

(* A precondition fails, the planned text has a syntax error, or the       *)
(* request is only a preview.                                              *)
PlanEnds ==
  /\ wpc = "plan"
  /\ wpc' = "failed"
  /\ UNCHANGED <<repoVars, stateVars, ledgerVars, callVars, writer, localVars,
                 planVars, ghostVars, left>>

(* Mutant: no file is compared. *)
RecheckNothing(p) ==
  /\ wpc = "recheck"
  /\ p \in todo
  /\ todo' = todo \ {p}
  /\ wpc' = IF todo' = {} THEN "write" ELSE wpc
  /\ raced' = raced \ {p}
  /\ UNCHANGED <<repoVars, stateVars, ledgerVars, callVars, writer, draft,
                 gitEvent, gitSeen, planVars, lost, torn, left>>

(* recheck_preconditions, one file at a time. *)
RecheckPath(p) ==
  /\ wpc = "recheck"
  /\ p \in todo
  /\ IF disk[p] = before[p]
     THEN /\ todo' = todo \ {p}
          /\ wpc' = IF todo' = {} THEN "write" ELSE wpc
          /\ raced' = raced \ {p}
     ELSE wpc' = "failed" /\ UNCHANGED <<todo, raced>>
  /\ UNCHANGED <<repoVars, stateVars, ledgerVars, callVars, writer, draft,
                 gitEvent, gitSeen, planVars, lost, torn, left>>

(* commit_plan replaces or removes one file. *)
WriteFile(p) ==
  /\ wpc = "write"
  /\ p \in Planned \ done
  /\ disk' = [disk EXCEPT ![p] = after[p]]
  /\ events' = events \union {p}
  /\ done' = done \union {p}
  /\ UNCHANGED <<head, committed, stagingArea, stateVars, pending, flag, callVars,
                 writer, wpc, localVars, before, after, failures, undoRefresh,
                 ghostVars, left>>

(* Mutant: nothing is compensated. *)
WriteFailsUndone ==
  /\ Spend("fault")
  /\ wpc = "write"
  /\ done # Planned
  /\ todo' = {}
  /\ wpc' = "undo"
  /\ UNCHANGED <<repoVars, stateVars, ledgerVars, callVars, writer, draft,
                 gitEvent, gitSeen, planVars, ghostVars>>

(* A file cannot be written: compensate what was, without a refresh. *)
WriteFails ==
  /\ Spend("fault")
  /\ wpc = "write"
  /\ done # Planned
  /\ todo' = done
  /\ wpc' = "undo"
  /\ UNCHANGED <<repoVars, stateVars, ledgerVars, callVars, writer, draft,
                 gitEvent, gitSeen, planVars, ghostVars>>

(* Mutant: the written files are not refreshed. *)
CommitUnrefreshed ==
  /\ wpc = "write"
  /\ done = Planned
  /\ \E s \in {GitStatus, None} : StatusIs(s) /\ gitSeen' = s
  /\ draft' = index
  /\ todo' = {}
  /\ wpc' = "crefresh"
  /\ UNCHANGED <<repoVars, stateVars, ledgerVars, callVars, writer, gitEvent,
                 planVars, ghostVars>>

(* All files are written: `git status` runs before the index refresh. *)
CommitStatus ==
  /\ wpc = "write"
  /\ done = Planned
  /\ \E s \in {GitStatus, None} : StatusIs(s) /\ gitSeen' = s
  /\ draft' = index
  /\ todo' = Planned
  /\ wpc' = "crefresh"
  /\ UNCHANGED <<repoVars, stateVars, ledgerVars, callVars, writer, gitEvent,
                 planVars, ghostVars>>

CommitPublish ==
  /\ wpc = "crefresh"
  /\ todo = {}
  /\ index' = draft
  /\ ApplyRepoStatus(gitSeen)
  /\ BumpGeneration
  /\ RecomputeSnapshot
  /\ wpc' = "committed"
  /\ UNCHANGED <<repoVars, ledgerVars, callVars, writer, localVars, planVars,
                 lost, raced, left>>

(* failed_after_apply. *)
CommitRefreshFails ==
  /\ Spend("fault")
  /\ wpc = "crefresh"
  /\ LeaveHalfRefreshed
  /\ todo' = done
  /\ undoRefresh' = TRUE
  /\ wpc' = "undo"
  /\ UNCHANGED <<repoVars, ledgerVars, callVars, writer, draft, gitEvent, gitSeen,
                 before, after, done, failures, lost, raced>>

(* compensate: restore_one for every completed file. *)
UndoFile(p) ==
  /\ wpc = "undo"
  /\ p \in todo
  /\ disk' = [disk EXCEPT ![p] = before[p]]
  /\ events' = events \union {p}
  /\ todo' = todo \ {p}
  /\ UNCHANGED <<head, committed, stagingArea, stateVars, pending, flag, callVars,
                 writer, wpc, draft, gitEvent, gitSeen, planVars, ghostVars, left>>

UndoFails(p) ==
  /\ Spend("fault")
  /\ wpc = "undo"
  /\ p \in todo
  /\ failures' = failures \union {p}
  /\ todo' = todo \ {p}
  /\ UNCHANGED <<repoVars, stateVars, ledgerVars, callVars, writer, wpc, draft,
                 gitEvent, gitSeen, before, after, done, undoRefresh, ghostVars>>

UndoOver ==
  /\ wpc = "undo"
  /\ todo = {}
  /\ draft' = index
  /\ todo' = IF undoRefresh THEN done ELSE {}
  /\ wpc' = IF undoRefresh THEN "urefresh" ELSE "undone"
  /\ UNCHANGED <<repoVars, stateVars, ledgerVars, callVars, writer, gitEvent,
                 gitSeen, planVars, ghostVars, left>>

(* The compensating refresh publishes no generation and no snapshot id. *)
UndoPublish ==
  /\ wpc = "urefresh"
  /\ todo = {}
  /\ index' = draft
  /\ torn' = (torn \/ draft # index)
  /\ wpc' = "undone"
  /\ UNCHANGED <<repoVars, repo, stale, generation, snapshot, ledgerVars, callVars,
                 writer, localVars, planVars, lost, raced, left>>

(* Its failure puts the completed paths back into the pending paths. *)
UndoRefreshFails ==
  /\ Spend("fault")
  /\ wpc = "urefresh"
  /\ LeaveHalfRefreshed
  /\ pending' = pending \union done
  /\ flag' = TRUE
  /\ wpc' = "undone"
  /\ UNCHANGED <<repoVars, events, callVars, writer, localVars, planVars,
                 lost, raced>>

-----------------------------------------------------------------------------
(* rescan and refresh_repo_status.                                         *)

(* clear_pending: the paths are cleared, then the flag is lowered. *)
ClearPaths ==
  /\ wpc = "clear"
  /\ pending' = {}
  /\ wpc' = "lower"
  /\ UNCHANGED <<repoVars, stateVars, events, flag, callVars, writer, localVars,
                 planVars, ghostVars, left>>

(* The flag is lowered and CodeIndex::scan starts on an empty index. *)
LowerFlag ==
  /\ wpc = "lower"
  /\ flag' = FALSE
  /\ draft' = Empty
  /\ todo' = Paths
  /\ wpc' = "scan"
  /\ UNCHANGED <<repoVars, stateVars, events, pending, callVars, writer,
                 gitEvent, gitSeen, planVars, ghostVars, left>>

ScanPath(p) ==
  /\ wpc = "scan"
  /\ p \in todo
  /\ draft' = [draft EXCEPT ![p] = Indexed(p, disk[p])]
  /\ todo' = todo \ {p}
  /\ UNCHANGED <<repoVars, stateVars, ledgerVars, callVars, writer, wpc,
                 gitEvent, gitSeen, planVars, ghostVars, left>>

(* One unreadable file fails the scan; the cleared paths stay cleared. *)
ScanFails ==
  /\ Spend("fault")
  /\ wpc = "scan"
  /\ todo # {}
  /\ wpc' = "failed"
  /\ lost' = lost \union {p \in Paths : index[p] # Indexed(p, disk[p])}
  /\ UNCHANGED <<repoVars, stateVars, ledgerVars, callVars, writer, localVars,
                 planVars, torn, raced>>

ScanPublish ==
  /\ wpc = "scan"
  /\ todo = {}
  /\ index' = draft
  /\ \E s \in {GitStatus, None} : StatusIs(s) /\ ApplyRepoStatus(s)
  /\ BumpGeneration
  /\ RecomputeSnapshot
  /\ lost' = {}
  /\ wpc' = "release"
  /\ UNCHANGED <<repoVars, ledgerVars, callVars, writer, localVars, planVars,
                 raced>>

(* refresh_repo_status: a new status and snapshot id, the same generation. *)
RefreshRepoStatus ==
  /\ wpc = "status"
  /\ UNCHANGED index
  /\ \E s \in {GitStatus, None} : StatusIs(s) /\ ApplyRepoStatus(s)
  /\ RecomputeSnapshot
  /\ wpc' = "release"
  /\ UNCHANGED <<repoVars, generation, ledgerVars, callVars, writer, localVars,
                 planVars, lost, raced>>

-----------------------------------------------------------------------------
(* The writer is released.                                                 *)

ForgetPlan ==
  /\ before' = Empty
  /\ after' = Empty
  /\ done' = {}
  /\ failures' = {}
  /\ undoRefresh' = FALSE
  /\ raced' = {}

ForgetLocals ==
  /\ draft' = Empty
  /\ todo' = {}
  /\ gitEvent' = FALSE
  /\ gitSeen' = None

LeaveWriter ==
  /\ writer' = None
  /\ wpc' = "off"
  /\ ForgetPlan
  /\ ForgetLocals

(* A Git action goes on after its reconcile; any other request returns. *)
Release(c) ==
  /\ writer = c
  /\ wpc = "release"
  /\ LeaveWriter
  /\ IF at[c] = "reconcile"
     THEN /\ at' = [at EXCEPT ![c] = IF op[c] \in GitMutations THEN "mutate" ELSE "own"]
          /\ UNCHANGED <<op, permit>>
     ELSE Return(c)
  /\ UNCHANGED <<repoVars, stateVars, ledgerVars, detached, lost, torn, left>>

(* Mutant: the writer is kept after a compensation. *)
FailKeepsWriter(c) ==
  /\ writer = c
  /\ wpc = "failed"
  /\ LeaveWriter
  /\ Return(c)
  /\ UNCHANGED <<repoVars, stateVars, ledgerVars, detached, lost, torn, left>>

(* An error return. *)
Fail(c) ==
  /\ writer = c
  /\ wpc \in {"failed", "undone"}
  /\ LeaveWriter
  /\ Return(c)
  /\ UNCHANGED <<repoVars, stateVars, ledgerVars, detached, lost, torn, left>>

(* Mutant: the permit is dropped before the validation. *)
EditAppliedOpensGate(c) ==
  /\ writer = c
  /\ wpc = "committed"
  /\ LeaveWriter
  /\ permit' = None
  /\ at' = [at EXCEPT ![c] = "validate"]
  /\ UNCHANGED <<repoVars, stateVars, ledgerVars, op, detached, lost, torn, left>>

(* code_edit goes on to run_edit_validation without the writer. *)
EditApplied(c) ==
  /\ writer = c
  /\ wpc = "committed"
  /\ LeaveWriter
  /\ at' = [at EXCEPT ![c] = "validate"]
  /\ UNCHANGED <<repoVars, stateVars, ledgerVars, op, permit, detached, lost, torn, left>>

(* The permit is dropped, then reconcile_pending_async runs. *)
LeaveValidation(c) ==
  /\ at[c] = "validate"
  /\ permit' = None
  /\ op' = [op EXCEPT ![c] = IF flag THEN "reconcile" ELSE "none"]
  /\ at' = [at EXCEPT ![c] = IF flag THEN "own" ELSE "idle"]
  /\ UNCHANGED <<repoVars, stateVars, ledgerVars, writer, wpc, localVars,
                 planVars, ghostVars, left>>

(* The validation commands end within the foreground budget. *)
ValidationEnds(c) ==
  /\ LeaveValidation(c)
  /\ UNCHANGED detached

(* They do not: they run on while code_edit answers validation_pending. *)
ValidationDetaches(c) ==
  /\ LeaveValidation(c)
  /\ detached' = detached \union {c}

DetachedEnds(c) ==
  /\ c \in detached
  /\ detached' = detached \ {c}
  /\ UNCHANGED <<repoVars, stateVars, ledgerVars, op, at, permit, writer, wpc,
                 localVars, planVars, ghostVars, left>>

-----------------------------------------------------------------------------
External ==
  \/ \E p \in Paths, c \in Contents : ExternalWrite(p, c)
  \/ ExternalGit
  \/ \E e \in Paths \union {Git} : Deliver(e) \/ DeliverAgain(e)

Request(c) ==
  \/ ReconcilePending(c)
  \/ Refresh(c)
  \/ CodeEdit(c)
  \/ GitRead(c)
  \/ \E o \in GitMutations : GitMutate(c, o)
  \/ MutateRepository(c)
  \/ MutationFails(c)
  \/ AcquireWriter(c)
  \/ Release(c)
  \/ Fail(c)
  \/ EditApplied(c)
  \/ ValidationEnds(c)
  \/ ValidationDetaches(c)
  \/ DetachedEnds(c)

PathStep(p) ==
  \/ RefreshPath(p)
  \/ RecheckPath(p)
  \/ WriteFile(p)
  \/ UndoFile(p)
  \/ UndoFails(p)
  \/ ScanPath(p)

WriterStep ==
  \/ DrainSwap
  \/ DrainTake
  \/ ReconcileFails
  \/ ReconcilePublish
  \/ PlanEdit
  \/ PlanEnds
  \/ WriteFails
  \/ CommitStatus
  \/ CommitPublish
  \/ CommitRefreshFails
  \/ UndoOver
  \/ UndoPublish
  \/ UndoRefreshFails
  \/ ClearPaths
  \/ LowerFlag
  \/ ScanFails
  \/ ScanPublish
  \/ RefreshRepoStatus
  \/ \E p \in Paths : PathStep(p)

Next == External \/ WriterStep \/ \E c \in Clients : Request(c)

Spec == Init /\ [][Next]_vars

(* What the system gives: the watcher delivers, a request that runs goes   *)
(* on, the writer's mutex is eventually fair.  What the clients give: a    *)
(* request comes in while a report is pending.                             *)
Fairness ==
  /\ \A e \in Paths \union {Git} : WF_vars(Deliver(e))
  /\ WF_vars(WriterStep)
  /\ \A c \in Clients :
       /\ WF_vars(ReconcilePending(c))
       /\ SF_vars(AcquireWriter(c))
       /\ WF_vars(MutateRepository(c) \/ MutationFails(c))
       /\ WF_vars(Release(c) \/ Fail(c) \/ EditApplied(c))
       /\ WF_vars(ValidationEnds(c) \/ ValidationDetaches(c))

FairSpec == Spec /\ Fairness

-----------------------------------------------------------------------------
(* Properties.                                                             *)

(* A file the index passes over that keeps the entry it had as text. *)
KeptEntry(p) == Skips(p, disk[p]) /\ index[p] # Absent

(* The watcher has a report of p, or the ledger has one that the next      *)
(* reconcile drains.                                                       *)
Reported(p) == p \in events \/ (p \in pending /\ flag)

(* The holder of the writer has yet to read p, or has read what is there. *)
BeingRead(p) ==
  \/ wpc = "take" /\ p \in pending
  \/ wpc = "lower"
  \/ wpc \in Refreshing \union {"scan"} /\ (p \in todo \/ draft[p] = Indexed(p, disk[p]))

(* No change on disk is ever forgotten: where the index differs from the   *)
(* file, a report or a read is on its way, however deliveries, drains,     *)
(* rescans and edits interleave.  The exceptions are a failed refresh or   *)
(* scan (lost) and a file that stopped being text.                         *)
DivergenceTracked ==
  \A p \in Paths :
    \/ index[p] = Indexed(p, disk[p])
    \/ Reported(p)
    \/ BeingRead(p)
    \/ p \in lost
    \/ KeptEntry(p)

(* The published snapshot id is the digest of the published index and      *)
(* HEAD, unless the last change to the index came from a failed refresh    *)
(* or from the refresh of a compensation.                                  *)
SnapshotDerived == torn \/ snapshot = SnapshotId(index, repo.head)

(* A change of the index that comes with a snapshot id comes with a new    *)
(* generation: equal stamps never name two different indexes.              *)
IndexChangeBumps ==
  [][index' # index => generation' > generation \/ torn']_vars

(* commit_plan replaces only what the edit was planned against, unless     *)
(* somebody wrote the file between recheck_preconditions and the write.    *)
OverwriteOnlyRaces ==
  [][\A p \in done' \ done : disk[p] = before[p] \/ p \in raced]_vars

(* After compensate every planned file has its old content back, save the  *)
(* reported failures and the files somebody else wrote meanwhile.          *)
CompensationRestores ==
  wpc = "undone" =>
    \A p \in Planned : disk[p] = before[p] \/ p \in failures \/ p \in raced

(* When code_edit reports success the index it stamps holds the planned    *)
(* content of every file it takes.  Of a file it passes over, because of   *)
(* the planned content or its path, it still holds the entry from before   *)
(* the edit: the success says nothing else of it.  Files somebody else     *)
(* wrote meanwhile are excepted.                                           *)
CommittedIndexed ==
  wpc = "committed" =>
    \A p \in Planned : index[p] = EntryAfter(p, before[p], after[p]) \/ p \in raced

(* code_edit, from its plan to the end of a foreground validation, and the *)
(* Git actions stage, commit and restore never overlap.                    *)
MutationsExclusive ==
  \A c, d \in Clients :
    {op[c], op[d]} \subseteq GitMutations \union {"edit"} => c = d

(* Once files stop changing, the index converges to the disk, save for      *)
(* dropped reports and files that stopped being text.                      *)
IndexConverges ==
  <>[](\A p \in Paths : index[p] = Indexed(p, disk[p]) \/ p \in lost \/ KeptEntry(p))

(* Every request that was let in returns. *)
EveryRequestReturns == \A c \in Clients : at[c] # "idle" ~> at[c] = "idle"

-----------------------------------------------------------------------------
(* What the documentation says and the code does not do.                   *)

Quiet == writer = None /\ events = {} /\ pending = {}

(* CONTEXT.md: "The next reconcile drains pending paths and refreshes them *)
(* in the index."                                                          *)
DrainedPathsRefreshed ==
  Quiet => \A p \in Paths : index[p] = Indexed(p, disk[p]) \/ KeptEntry(p)

(* CONTEXT.md: index and status are "kept under one lock so they always    *)
(* describe the same moment": when all reports are processed and the last  *)
(* `git status` succeeded, the status is that of the indexed files.        *)
SameMoment ==
  Quiet /\ ~stale /\ (\A p \in Paths : index[p] = Indexed(p, disk[p]))
    => repo.dirty = GitStatus.dirty

(* docs/architecture.md: "code_edit holds it from planning through         *)
(* post-apply validation, and Git stage, commit and restore hold it for    *)
(* the whole action, so these never overlap."                              *)
ValidationProtected ==
  detached # {} => \A c \in Clients : op[c] \notin GitMutations

-----------------------------------------------------------------------------
(* The inductive invariant behind DivergenceTracked and                    *)
(* MutationsExclusive.                                                     *)

(* What has been read is right, or is reported again. *)
DraftTracked ==
  \A p \in Paths \ todo :
    /\ wpc \in Refreshing =>
         \/ draft[p] = Indexed(p, disk[p])
         \/ Reported(p)
         \/ p \in lost
         \/ Skips(p, disk[p]) /\ draft[p] # Absent
    /\ wpc = "scan" => draft[p] = Indexed(p, disk[p]) \/ Reported(p)

(* The files an edit wrote stay reported until it lets go of the writer. *)
WritesReported ==
  /\ \A p \in done : Reported(p)
  /\ wpc \notin Committing => done = {}
  /\ wpc \in {"crefresh", "undo", "urefresh"} => todo \subseteq done

(* Who edits or changes the repository has the permit of the mutation      *)
(* gate.                                                                   *)
GateHeld ==
  \A c \in Clients :
    /\ op[c] \in GitMutations \union {"edit"} => permit = c
    /\ at[c] = "validate" => op[c] = "edit"

(* Who holds the writer works under it; only an edit plans and commits. *)
WriterConsistent ==
  /\ writer = None <=> wpc = "off"
  /\ writer # None => at[writer] \in {"reconcile", "own"}
  /\ wpc \in Committing \union {"plan", "recheck"} => op[writer] = "edit"

ReconcileInv ==
  /\ TypeOK
  /\ WriterConsistent
  /\ GateHeld
  /\ WritesReported
  /\ DraftTracked
  /\ DivergenceTracked
  /\ SnapshotDerived

=============================================================================
