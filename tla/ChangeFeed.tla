----------------------------- MODULE ChangeFeed -----------------------------
(***************************************************************************)
(* Who changed what: the internal-write markers and the mutation log of    *)
(* src/workspace/state/ledger.rs, the handlers that feed them (reconcile   *)
(* in reconcile.rs, commit and compensation in commit.rs) and the handlers *)
(* that read them: `workspace action=changes` (summary.rs) and the         *)
(* attribution of changed paths to a Bash run (run.rs, bash/lifecycle.rs). *)
(*                                                                         *)
(* ReconciledState has the same writers with the index and the repository  *)
(* status in full; here a text is the number of the write that made it,    *)
(* and what counts is the generation a change is published with, the       *)
(* record that enters the log afterwards, and who reads in between.        *)
(* A request that reconciles holds the state writer until Settle;          *)
(* an edit holds it until its records are in the log.                      *)
(*                                                                         *)
(* One Bash run is followed from its start to its frozen changes; what its *)
(* process does to the files is written by RunWrites, like an outsider's.  *)
(***************************************************************************)
EXTENDS Naturals, Sequences, FiniteSets

CONSTANTS
  Requests,   \* concurrent requests
  Paths,      \* workspace files
  None,       \* no holder, no baseline, nothing frozen
  MaxLog,     \* MAX_MUTATION_EVENTS
  Limit,      \* the limit of a changes request
  Workloads   \* bounds: how many of each kind of step a behaviour may take

Bounded == {"edit", "changes", "start", "poll", "outside", "commit", "runwrite",
            "fault", "expire"}
Baseline == [generation : Nat, dirty : SUBSET Paths]
Frozen == [generation : Nat, paths : SUBSET Paths]

ASSUME FeedAssumption ==
  /\ None \notin Requests \union Paths
  /\ None \notin Baseline
  /\ None \notin Frozen
  /\ IsFiniteSet(Paths)
  /\ MaxLog \in Nat \ {0}
  /\ Limit \in Nat \ {0}
  /\ Workloads \subseteq [Bounded -> Nat]

VARIABLES
  disk,        \* the text of each file
  mtime,       \* when it was last written
  head,        \* the text of each file in HEAD
  clock,       \* the time, which is also the number of the last write
  events,      \* paths the watcher will report; None is an event under .git/
  pending,     \* the ledger's pending paths
  flag,        \* needs_reconcile
  marker,      \* paths with a live internal-write marker
  index,       \* the indexed text of each file
  dirty,       \* dirty_files of the published status
  generation,  \* the published generation
  log,         \* the mutation log, oldest first
  writer,      \* the request that holds the state writer
  op, pc,      \* what each request does and where it stands
  drained,     \* the holder's PendingDrain: [git, paths, external]
  batch,       \* the records the holder publishes, not yet in the log
  before,      \* the texts an edit replaces
  stamp,       \* the timestamp of its records
  todo, done,  \* files an edit has still to write, or to refresh after its
               \* compensation; files it has written
  since,       \* what each follower has: the newest generation it was told,
  seen,        \* the records it was told,
  cut,         \* whether a reply to it was full
  run,         \* the Bash run: state, ended_at, baseline, frozen_changes
  local,       \* a starter's or poller's baseline, window and terminal flag
  \* history, read by properties only: texts edits wrote; paths whose marker
  \* expired, or was consumed by a reconcile that failed; all records; replies
  \* about the ended run; paths written before it ended, or by an edit that had
  \* begun by then
  ours, late, ever, replies, touched,
  left         \* what is left of the workload

fileVars  == <<disk, mtime, head, clock, events>>
queueVars == <<pending, flag, marker>>
stateVars == <<index, dirty, generation, log>>
editVars  == <<drained, batch, before, stamp, todo, done>>
feedVars  == <<since, seen, cut>>
runVars   == <<run, local>>
ghostVars == <<ours, late, ever, replies, touched>>
vars == <<fileVars, queueVars, stateVars, writer, op, pc, editVars, feedVars,
          runVars, ghostVars, left>>

Sources == {"mcp_edit", "external"}
RecordType ==
  [path : Paths, source : Sources, generation : Nat, text : Nat, time : Nat]
NoDrain == [git |-> FALSE, paths |-> {}, external |-> {}]
NoLocal == [current |-> None, window |-> None, terminal |-> FALSE, started |-> FALSE]

Places == {"idle", "reconcile", "drain", "publish", "record", "plan", "write",
           "undo", "commit", "records", "baseline", "launch", "wait", "current",
           "window", "attribute", "freeze"}

FeedTypeOK ==
  /\ disk \in [Paths -> Nat] /\ mtime \in [Paths -> Nat] /\ head \in [Paths -> Nat]
  /\ index \in [Paths -> Nat] /\ before \in [Paths -> Nat]
  /\ clock \in Nat /\ generation \in Nat /\ stamp \in Nat
  /\ events \subseteq Paths \union {None} /\ pending \subseteq Paths \union {None}
  /\ flag \in BOOLEAN
  /\ marker \subseteq Paths /\ dirty \subseteq Paths /\ todo \subseteq Paths
  /\ done \subseteq Paths /\ touched \subseteq Paths /\ late \subseteq Paths
  /\ log \in Seq(RecordType) /\ Len(log) <= MaxLog
  /\ writer \in Requests \union {None}
  /\ op \in [Requests -> {"none", "edit", "changes", "start", "poll"}]
  /\ pc \in [Requests -> Places]
  /\ drained \in [git : BOOLEAN, paths : SUBSET Paths, external : SUBSET Paths]
  /\ batch \in SUBSET RecordType
  /\ since \in [Requests -> Nat]
  /\ seen \in [Requests -> SUBSET RecordType]
  /\ cut \in [Requests -> BOOLEAN]
  /\ run \in [state : {"none", "running", "ended"}, ended : Nat,
              baseline : Baseline \union {None}, frozen : Frozen \union {None}]
  /\ local \in [Requests -> [current : Baseline \union {None},
                             window : Baseline \union Frozen \union {None},
                             terminal : BOOLEAN, started : BOOLEAN]]
  /\ ours \subseteq Nat
  /\ ever \in SUBSET RecordType
  /\ replies \in SUBSET Frozen
  /\ left \in [Bounded -> Nat]

Init ==
  /\ disk = [p \in Paths |-> 0] /\ mtime = disk /\ head = disk /\ index = disk /\ before = disk
  /\ clock = 0 /\ generation = 1 /\ stamp = 0
  /\ events = {} /\ pending = {} /\ flag = FALSE
  /\ marker = {} /\ dirty = {}
  /\ log = <<>>
  /\ writer = None
  /\ op = [r \in Requests |-> "none"] /\ pc = [r \in Requests |-> "idle"]
  /\ drained = NoDrain /\ batch = {} /\ todo = {} /\ done = {}
  /\ since = [r \in Requests |-> 0] /\ seen = [r \in Requests |-> {}]
  /\ cut = [r \in Requests |-> FALSE]
  /\ run = [state |-> "none", ended |-> 0, baseline |-> None, frozen |-> None]
  /\ local = [r \in Requests |-> NoLocal]
  /\ ours = {} /\ late = {} /\ ever = {} /\ replies = {} /\ touched = {}
  /\ left \in Workloads

Logged == {log[i] : i \in 1..Len(log)}

Spend(k) == left[k] > 0 /\ left' = [left EXCEPT ![k] = @ - 1]
Goto(r, place) == pc' = [pc EXCEPT ![r] = place]
Finish(r) ==
  /\ pc' = [pc EXCEPT ![r] = "idle"]
  /\ op' = [op EXCEPT ![r] = "none"]

-----------------------------------------------------------------------------
(* The files, the repository and the watcher, outside CodeWeave. *)

(* A timestamp is later than the last write and not later than the next.   *)
Now == clock + 1

(* A file gets text t now; the watcher will report it.  Whatever is begun  *)
(* by the time the run ends is held to have been done by then.             *)
WriteText(p, t, begun) ==
  /\ disk' = [disk EXCEPT ![p] = t]
  /\ clock' = clock + 1
  /\ mtime' = [mtime EXCEPT ![p] = clock + 1]
  /\ events' = events \union {p}
  /\ touched' = IF run.state = "ended" /\ begun > run.ended THEN touched
                ELSE touched \union {p}

OutsideWrites(p) ==
  /\ Spend("outside")
  /\ WriteText(p, clock + 1, Now)
  /\ UNCHANGED <<head, queueVars, stateVars, writer, op, pc, editVars, feedVars,
                 runVars, ours, late, ever, replies>>

OutsideCommits ==
  /\ Spend("commit")
  /\ head' = disk
  /\ events' = events \union {None}
  /\ UNCHANGED <<disk, mtime, clock, queueVars, stateVars, writer, op, pc,
                 editVars, feedVars, runVars, ghostVars>>

RunWrites(p) ==
  /\ run.state = "running"
  /\ Spend("runwrite")
  /\ WriteText(p, clock + 1, Now)
  /\ UNCHANGED <<head, queueVars, stateVars, writer, op, pc, editVars, feedVars,
                 runVars, ours, late, ever, replies>>

RunEnds ==
  /\ run.state = "running"
  /\ clock' = clock + 1
  /\ run' = [run EXCEPT !.state = "ended", !.ended = clock + 1]
  /\ UNCHANGED <<disk, mtime, head, events, queueVars, stateVars, writer, op,
                 pc, editVars, feedVars, local, ghostVars, left>>

(* PendingHandle::observe. *)
Observe(p) ==
  /\ p \in events
  /\ events' = events \ {p}
  /\ pending' = pending \union {p}
  /\ flag' = TRUE
  /\ UNCHANGED <<disk, mtime, head, clock, marker, stateVars, writer, op, pc,
                 editVars, feedVars, runVars, ghostVars, left>>

(* INTERNAL_WRITE_TTL has passed since the marker of p was set. *)
Expire(p) ==
  /\ p \in marker
  /\ Spend("expire")
  /\ marker' = marker \ {p}
  /\ late' = late \union {p}
  /\ UNCHANGED <<fileVars, pending, flag, stateVars, writer, op, pc, editVars,
                 feedVars, runVars, ours, ever, replies, touched>>

-----------------------------------------------------------------------------
(* Requests begin. *)

Call(r, kind, place) ==
  /\ pc[r] = "idle"
  /\ Spend(kind)
  /\ op' = [op EXCEPT ![r] = kind]
  /\ Goto(r, place)
  /\ UNCHANGED <<fileVars, queueVars, stateVars, writer, editVars, feedVars,
                 ghostVars>>

Changes(r) == Call(r, "changes", "reconcile") /\ UNCHANGED runVars
Edit(r) == Call(r, "edit", "reconcile") /\ UNCHANGED runVars
StartRun(r) ==
  /\ run.state = "none"
  /\ \A q \in Requests : op[q] # "start"
  /\ Call(r, "start", "reconcile")
  /\ local' = [local EXCEPT ![r] = NoLocal]
  /\ UNCHANGED run

(* The status is read before the reconcile: by a start that has returned   *)
(* and by a poll.                                                          *)
Begun(started) ==
  [current |-> None, window |-> None, terminal |-> run.state = "ended", started |-> started]

(* Another client can know the run before start has returned: a start that *)
(* is refused because this run is active names it (active_run_view).       *)
PollRun(r) ==
  /\ run.state # "none"
  /\ Call(r, "poll", "reconcile")
  /\ local' = [local EXCEPT ![r] = Begun(FALSE)]
  /\ UNCHANGED run

(* What a request does after reconcile_pending. *)
After(r) ==
  CASE op[r] = "changes" -> "records"
    [] op[r] = "edit" -> "plan"
    [] op[r] = "start" /\ ~local[r].started -> "baseline"
    [] OTHER -> "current"

-----------------------------------------------------------------------------
(* Reconcile. *)

(* reconcile_pending and reconcile_after_poll return at once when nothing  *)
(* is pending, the latter also soon after the last reconcile.              *)
SkipReconcile(r) ==
  /\ pc[r] = "reconcile"
  /\ op[r] # "edit"
  /\ ~flag \/ (op[r] = "poll" /\ ~local[r].terminal)
  /\ Goto(r, After(r))
  /\ UNCHANGED <<fileVars, queueVars, stateVars, writer, op, editVars, feedVars,
                 runVars, ghostVars, left>>

TakeWriter(r) ==
  /\ pc[r] = "reconcile"
  /\ flag \/ op[r] = "edit"
  /\ writer = None
  /\ writer' = r
  /\ Goto(r, "drain")
  /\ UNCHANGED <<fileVars, queueVars, stateVars, op, editVars, feedVars, runVars,
                 ghostVars, left>>

(* An edit goes on under the same writer; every other request releases it. *)
Settle(r) ==
  /\ Goto(r, After(r))
  /\ writer' = IF op[r] = "edit" THEN r ELSE None
  /\ drained' = NoDrain
  /\ batch' = {}

(* Mutant: markers are consumed and not looked at. *)
UnmarkedAll(paths) == paths

(* consume_internal: the paths without a live marker are external changes. *)
Unmarked(paths) == paths \ marker

(* drain_pending, with the markers of the drained paths consumed. *)
Drain(r) ==
  /\ writer = r /\ pc[r] = "drain"
  /\ \/ /\ ~flag
        /\ Settle(r)
        /\ UNCHANGED <<queueVars, before, stamp, todo, done>>
     \/ /\ flag
        /\ flag' = FALSE
        /\ pending' = {}
        /\ LET paths == pending \ {None} IN
             drained' = [git |-> None \in pending, paths |-> paths,
                         external |-> Unmarked(paths)]
        /\ marker' = marker \ pending
        /\ Goto(r, "publish")
        /\ UNCHANGED <<writer, batch, before, stamp, todo, done>>
  /\ UNCHANGED <<fileVars, stateVars, op, feedVars, runVars, ghostVars, left>>

Refreshed(paths) == [p \in Paths |-> IF p \in paths THEN disk[p] ELSE index[p]]
GitDirty == {p \in Paths : disk[p] # head[p]}

RecordsOf(paths, source) ==
  {[path |-> p, source |-> source, generation |-> generation + 1,
    text |-> disk[p], time |-> Now] : p \in paths}

(* The update of reconcile_with: readers see the new generation from here  *)
(* on, the records follow.  After an event under .git/ HEAD may be another *)
(* commit, although nothing else has changed.                              *)
Publish(r) ==
  /\ writer = r /\ pc[r] = "publish"
  /\ LET changed == {p \in drained.paths : index[p] # disk[p]}
         status == IF drained.git \/ changed # {} THEN GitDirty ELSE dirty
         found == drained.external \intersect changed IN
       /\ index' = Refreshed(changed)
       /\ dirty' = status
       /\ \/ /\ changed = {} /\ status = dirty
             /\ Settle(r)
             /\ UNCHANGED generation
          \/ /\ changed # {} \/ status # dirty \/ drained.git
             /\ generation' = generation + 1
             /\ batch' = RecordsOf(found, "external")
             /\ Goto(r, "record")
             /\ UNCHANGED <<writer, drained>>
  /\ UNCHANGED <<fileVars, queueVars, log, op, before, stamp, todo, done, feedVars,
                 runVars, ours, late, ever, replies, touched, left>>

(* refresh_paths fails half way: the error ends the request, the index      *)
(* keeps what was refreshed and the drained paths are forgotten.           *)
ReconcileFails(r) ==
  /\ writer = r /\ pc[r] = "publish" /\ drained.paths # {}
  /\ Spend("fault")
  /\ \E part \in SUBSET drained.paths : index' = Refreshed(part)
  /\ writer' = None
  /\ drained' = NoDrain
  /\ late' = late \union (drained.paths \ drained.external)
  /\ Finish(r)
  /\ UNCHANGED <<fileVars, queueVars, dirty, generation, log, batch, before, stamp,
                 todo, done, feedVars, runVars, ours, ever, replies, touched>>

(* ChangeLedger::record: appended at once, in any order, and the oldest    *)
(* beyond the bound go.                                                    *)
Orders(records) ==
  {s \in [1..Cardinality(records) -> records] :
     \A e \in records : \E i \in DOMAIN s : s[i] = e}
Newest(all) ==
  SubSeq(all, IF Len(all) > MaxLog THEN Len(all) - MaxLog + 1 ELSE 1, Len(all))
Recorded(records) == {Newest(log \o s) : s \in Orders(records)}

(* The records of a reconcile enter the log. *)
RecordExternal(r) ==
  /\ writer = r /\ pc[r] = "record"
  /\ log' \in Recorded(batch)
  /\ ever' = ever \union batch
  /\ Settle(r)
  /\ UNCHANGED <<fileVars, queueVars, index, dirty, generation, op, before,
                 stamp, todo, done, feedVars, runVars, ours, late, replies, touched, left>>

-----------------------------------------------------------------------------
(* code_edit under the writer: plan, commit_plan and its compensation. *)

(* The edit ends and releases the writer. *)
EndEdit(r) ==
  /\ Finish(r)
  /\ writer' = None
  /\ todo' = {} /\ done' = {}
  /\ batch' = {}

(* The plan of an edit of the files in paths: it only previews or is       *)
(* refused, as it must be when one of them is not what the index says, or  *)
(* goes on.  commit_plan takes the time of all records before it writes.   *)
Plan(r, paths) ==
  /\ writer = r /\ pc[r] = "plan"
  /\ paths # {}
  /\ \/ /\ EndEdit(r)
        /\ UNCHANGED <<before, stamp>>
     \/ /\ \A p \in paths : index[p] = disk[p]
        /\ before' = [p \in Paths |-> IF p \in paths THEN disk[p] ELSE before[p]]
        /\ stamp' = Now
        /\ todo' = paths
        /\ Goto(r, "write")
        /\ UNCHANGED <<writer, op, batch, done>>
  /\ UNCHANGED <<fileVars, queueVars, stateVars, drained, feedVars, runVars,
                 ghostVars, left>>

(* One file of the plan: record_internal, then the atomic write; its       *)
(* record is kept for the log.                                             *)
WriteFile(r, p) ==
  /\ writer = r /\ pc[r] = "write" /\ p \in todo
  /\ marker' = marker \union {p}
  /\ WriteText(p, clock + 1, stamp)
  /\ ours' = ours \union {clock + 1}
  /\ todo' = todo \ {p} /\ done' = done \union {p}
  /\ batch' = batch \union
       {[path |-> p, source |-> "mcp_edit", generation |-> generation + 1,
         text |-> clock + 1, time |-> stamp]}
  /\ UNCHANGED <<head, pending, flag, stateVars, writer, op, pc, drained, before,
                 stamp, feedVars, runVars, late, ever, replies, left>>

(* A write fails: forget_internal, then the written files are marked again *)
(* and compensated without an index refresh.                               *)
WriteFails(r, p) ==
  /\ writer = r /\ pc[r] = "write" /\ p \in todo
  /\ Spend("fault")
  /\ marker' = (marker \ {p}) \union done
  /\ \/ done = {} /\ EndEdit(r)
     \/ /\ done # {}
        /\ todo' = {} /\ batch' = {}
        /\ Goto(r, "undo")
        /\ UNCHANGED <<writer, op, done>>
  /\ UNCHANGED <<fileVars, pending, flag, stateVars, drained, before, stamp,
                 feedVars, runVars, ghostVars>>

(* Mutant: the edit is published without a new generation. *)
PublishEditUnbumped(r) ==
  /\ writer = r /\ pc[r] = "write" /\ todo = {}
  /\ index' = Refreshed(done)
  /\ dirty' = GitDirty
  /\ Goto(r, "commit")
  /\ UNCHANGED <<fileVars, queueVars, generation, log, writer, op, editVars,
                 feedVars, runVars, ghostVars, left>>

(* The update of commit_plan: the edit is the next generation. *)
PublishEdit(r) ==
  /\ writer = r /\ pc[r] = "write" /\ todo = {}
  /\ index' = Refreshed(done)
  /\ dirty' = GitDirty
  /\ generation' = generation + 1
  /\ Goto(r, "commit")
  /\ UNCHANGED <<fileVars, queueVars, log, writer, op, editVars, feedVars,
                 runVars, ghostVars, left>>

(* Its refresh fails: the files are compensated, then refreshed again. *)
PublishFails(r) ==
  /\ writer = r /\ pc[r] = "write" /\ todo = {}
  /\ Spend("fault")
  /\ \E part \in SUBSET done : index' = Refreshed(part)
  /\ marker' = marker \union done
  /\ todo' = done /\ batch' = {}
  /\ Goto(r, "undo")
  /\ UNCHANGED <<fileVars, pending, flag, dirty, generation, log, writer, op,
                 drained, before, stamp, done, feedVars, runVars, ghostVars>>

(* compensate, one file: restored, or left as the edit wrote it. *)
Restore(r, p) ==
  /\ writer = r /\ pc[r] = "undo" /\ p \in done
  /\ done' = done \ {p}
  /\ \/ WriteText(p, before[p], Now) /\ UNCHANGED left
     \/ Spend("fault") /\ UNCHANGED <<disk, mtime, clock, events, touched>>
  /\ UNCHANGED <<head, queueVars, stateVars, writer, op, pc, drained, batch,
                 before, stamp, todo, feedVars, runVars, ours, late, ever, replies>>

(* The end of compensate: without a refresh, with one, or with one that    *)
(* fails and leaves the paths pending.                                     *)
Compensated(r) ==
  /\ writer = r /\ pc[r] = "undo" /\ done = {}
  /\ EndEdit(r)
  /\ \/ /\ index' = Refreshed(todo)
        /\ UNCHANGED <<pending, flag, left>>
     \/ /\ todo # {}
        /\ Spend("fault")
        /\ \E part \in SUBSET todo : index' = Refreshed(part)
        /\ pending' = pending \union todo
        /\ flag' = TRUE
  /\ UNCHANGED <<fileVars, marker, dirty, generation, log, drained, before,
                 stamp, feedVars, runVars, ghostVars>>

RecordEdit(r) ==
  /\ writer = r /\ pc[r] = "commit"
  /\ log' \in Recorded(batch)
  /\ ever' = ever \union batch
  /\ EndEdit(r)
  /\ UNCHANGED <<fileVars, queueVars, index, dirty, generation, drained, before,
                 stamp, feedVars, runVars, ours, late, replies, touched, left>>

-----------------------------------------------------------------------------
(* workspace action=changes. *)

(* Mutant: the generation after the asked one is left out. *)
RecordsSinceLate(g) ==
  LET newer == {i \in 1..Len(log) : log[i].generation > g + 1} IN
    {i \in newer : Cardinality({j \in newer : j > i}) < Limit}

(* ChangeLedger::records_since: where the newest Limit records above g are.*)
RecordsSince(g) ==
  LET newer == {i \in 1..Len(log) : log[i].generation > g} IN
    {i \in newer : Cardinality({j \in newer : j > i}) < Limit}

(* The records are read, newest first; the client remembers them and asks  *)
(* next time for what is newer than the newest of them.                    *)
ReadRecords(r) ==
  /\ pc[r] = "records"
  /\ LET records == RecordsSince(since[r]) IN
       /\ seen' = [seen EXCEPT ![r] = @ \union {log[i] : i \in records}]
       /\ cut' = [cut EXCEPT ![r] = @ \/ Cardinality(records) = Limit]
       /\ \/ /\ records = {}
             /\ UNCHANGED since
          \/ \E first \in records :
               /\ \A i \in records : i <= first
               /\ since' = [since EXCEPT ![r] = log[first].generation]
  /\ Finish(r)
  /\ UNCHANGED <<fileVars, queueVars, stateVars, writer, editVars, runVars,
                 ghostVars, left>>

-----------------------------------------------------------------------------
(* Bash runs and the changes attributed to them. *)

Current == [generation |-> generation, dirty |-> dirty]
Keep(r, l) == local' = [local EXCEPT ![r] = l]

(* run, BashRequest::Start: the baseline is read before the run starts, *)
ReadBaseline(r) ==
  /\ pc[r] = "baseline"
  /\ Keep(r, [local[r] EXCEPT !.current = Current])
  /\ Goto(r, "launch")
  /\ UNCHANGED <<fileVars, queueVars, stateVars, writer, op, editVars, feedVars,
                 run, ghostVars, left>>

Launch(r) ==
  /\ pc[r] = "launch"
  /\ run' = [run EXCEPT !.state = "running"]
  /\ Goto(r, "wait")
  /\ UNCHANGED <<fileVars, queueVars, stateVars, writer, op, editVars, feedVars,
                 local, ghostVars, left>>

(* and set when start has returned, with the run over or still running.    *)
SetBaseline(r) ==
  /\ pc[r] = "wait"
  /\ run' = [run EXCEPT !.baseline = local[r].current]
  /\ Keep(r, Begun(TRUE))
  /\ Goto(r, "reconcile")
  /\ UNCHANGED <<fileVars, queueVars, stateVars, writer, op, editVars, feedVars,
                 ghostVars, left>>

(* attribute_run_changes: the view, *)
ReadCurrent(r) ==
  /\ pc[r] = "current"
  /\ Keep(r, [local[r] EXCEPT !.current = Current])
  /\ Goto(r, "window")
  /\ UNCHANGED <<fileVars, queueVars, stateVars, writer, op, editVars, feedVars,
                 run, ghostVars, left>>

(* the window, installing the view as the baseline of a run without one,   *)
(* or the frozen result;                                                   *)
ChangeWindow(r) ==
  /\ pc[r] = "window"
  /\ run' = [run EXCEPT !.baseline = IF @ = None THEN local[r].current ELSE @]
  /\ \/ /\ run.frozen # None
        /\ replies' = replies \union {run.frozen}
        /\ Finish(r)
        /\ UNCHANGED local
     \/ /\ run.frozen = None
        /\ Keep(r, [local[r] EXCEPT !.window = run'.baseline])
        /\ Goto(r, "attribute")
        /\ UNCHANGED <<op, replies>>
  /\ UNCHANGED <<fileVars, queueVars, stateVars, writer, editVars, feedVars,
                 ours, late, ever, touched, left>>

(* Mutant: attribution does not look at when the run ended. *)
AttributedLate(l) ==
  {p \in Paths : \/ (p \in l.window.dirty) # (p \in l.current.dirty)
                 \/ \E e \in Logged : /\ e.path = p
                                          /\ e.generation > l.window.generation
                                          /\ e.generation <= l.current.generation}

(* ChangeLedger::attribute_since. *)
Attributed(l) ==
  LET byEnd(p) == ~l.terminal \/ mtime[p] <= run.ended
      mutated == {p \in Paths : \E e \in Logged :
                    /\ e.path = p
                    /\ e.generation > l.window.generation
                    /\ e.generation <= l.current.generation
                    /\ byEnd(p) \/ e.time <= run.ended}
      flipped == {p \in Paths : (p \in l.window.dirty) # (p \in l.current.dirty)} IN
    mutated \union {p \in flipped : byEnd(p)}

Attribute(r) ==
  /\ pc[r] = "attribute"
  /\ LET changes == [generation |-> local[r].current.generation,
                     paths |-> Attributed(local[r])] IN
       IF local[r].terminal
       THEN /\ Keep(r, [local[r] EXCEPT !.window = changes])
            /\ Goto(r, "freeze")
            /\ UNCHANGED op
       ELSE /\ Finish(r)
            /\ UNCHANGED local
  /\ UNCHANGED <<fileVars, queueVars, stateVars, writer, editVars, feedVars, run,
                 ghostVars, left>>

(* Mutant: a later result replaces the frozen one. *)
FrozenBy(changes) == changes

(* freeze_changes: the first result is kept. *)
FreezeWith(changes) == IF run.frozen = None THEN changes ELSE run.frozen

FreezeChanges(r) ==
  /\ pc[r] = "freeze"
  /\ LET frozen == FreezeWith(local[r].window) IN
       /\ run' = [run EXCEPT !.frozen = frozen]
       /\ replies' = replies \union {frozen}
  /\ Finish(r)
  /\ UNCHANGED <<fileVars, queueVars, stateVars, writer, editVars, feedVars,
                 local, ours, late, ever, touched, left>>

-----------------------------------------------------------------------------
Outside ==
  \/ \E p \in Paths : OutsideWrites(p) \/ RunWrites(p) \/ Expire(p)
  \/ \E p \in Paths \union {None} : Observe(p)
  \/ OutsideCommits \/ RunEnds

ReconcileStep(r) ==
  \/ SkipReconcile(r) \/ TakeWriter(r) \/ Drain(r) \/ Publish(r)
  \/ ReconcileFails(r) \/ RecordExternal(r)

EditStep(r) ==
  \/ \E paths \in SUBSET Paths : Plan(r, paths)
  \/ \E p \in Paths : WriteFile(r, p) \/ WriteFails(r, p) \/ Restore(r, p)
  \/ PublishEdit(r) \/ PublishFails(r) \/ Compensated(r) \/ RecordEdit(r)

RunStep(r) ==
  \/ ReadBaseline(r) \/ Launch(r) \/ SetBaseline(r) \/ ReadCurrent(r)
  \/ ChangeWindow(r) \/ Attribute(r) \/ FreezeChanges(r)

Next ==
  \/ Outside
  \/ \E r \in Requests :
       \/ Changes(r) \/ Edit(r) \/ StartRun(r) \/ PollRun(r)
       \/ ReconcileStep(r) \/ EditStep(r) \/ ReadRecords(r) \/ RunStep(r)

Spec == Init /\ [][Next]_vars

-----------------------------------------------------------------------------
(* Properties. *)

(* The log is in the order of the generations, and holds nothing newer     *)
(* than the published one: followers read it from the newest record back   *)
(* and stop at a generation (ledger.rs records_since).                     *)
LogOrdered ==
  /\ \A i, j \in 1..Len(log) : i < j => log[i].generation <= log[j].generation
  /\ \A i \in 1..Len(log) : log[i].generation <= generation

(* A client that asks for what is newer than the newest record it was told *)
(* never skips a record, whatever commits and reconciles publish between   *)
(* its calls: each record up to there was in a reply, unless a reply was   *)
(* full or the record has left the bounded log.                            *)
FollowComplete ==
  \A r \in Requests : \A e \in Logged :
    e.generation <= since[r] => e \in seen[r] \/ cut[r]

(* What an edit wrote is never recorded as somebody else's change, in      *)
(* failed edits and failed compensations too, unless its marker was lost   *)
(* before: it expired (the watcher was slower than INTERNAL_WRITE_TTL), or *)
(* a reconcile consumed it and then failed.                                *)
OwnWritesNotExternal ==
  \A e \in ever :
    e.source = "external" /\ e.text \in ours => e.path \in late

(* Every reply about the ended run names the same changed paths, although  *)
(* several clients may compute them at the same time.                      *)
TerminalRepliesAgree == \A a, b \in replies : a = b

(* Nothing is attributed to a run that was begun after its end.  An edit   *)
(* counts from its timestamp: what it writes after the run has ended is    *)
(* attributed to the run if the edit was under way by then.                *)
NothingAfterEnd == run.frozen # None => run.frozen.paths \subseteq touched

(* Following the log is sound: ordered, and nothing is skipped.            *)
(* (ledger.rs record and records_since, summary.rs changes.)               *)
LogFollowed == FeedTypeOK /\ LogOrdered /\ FollowComplete

(* The changes of an ended run are settled once and do not grow            *)
(* (workspace/run.rs, bash/lifecycle.rs freeze_changes).                   *)
RunChangesSettled == TerminalRepliesAgree /\ NothingAfterEnd

=============================================================================
