# CodeWeave in TLA+

CodeWeave is an MCP server that gives an agent search, edits, Git and Bash over a
local workspace. It keeps an in-memory index of the workspace next to files that
editors, builds and its own commands change at any moment, runs shell commands
under one supervisor, and talks to language servers. This directory models the
parts of it whose correctness depends on interleavings and failures, checks them
with TLC on small instances and proves the central claims with TLAPS for every
instance.

Paths below are relative to the repository (`src/...` is its Rust source).

## 1. The system

| Component | State | Operations | Hard part |
|---|---|---|---|
| Reconciled state (`src/workspace/state/mod.rs`, `reconcile.rs`) | index, `git status` and its stale flag, generation, snapshot id; mutation gate, writer lock, state lock | `reconcile_pending`, `refresh_repo_status`, `writer.update` | many requests, one writer; a failed read in the middle of a refresh |
| Change ledger (`src/workspace/state/ledger.rs`) | pending paths with `needs_reconcile`; internal-write markers; bounded mutation log | `observe` (watcher thread), `drain_pending`, `clear_pending`, `mark_pending`; `record`, `records_since`, `attribute_since` | the watcher works concurrently with every request; publishing, recording and reading are separate steps |
| Edits (`src/workspace/edit.rs`, `commit.rs`, `validation.rs`) | the plan, how far its commit got | plan, recheck, write each file, refresh, compensate, validate | changes of one request build on each other; other programs write the same files; every single write and every restore may fail |
| Git (`src/workspace/git.rs`, `src/repository`) | the repository itself | status, diff, stage, commit, restore, ... | mutations exclude edits; status is read at another time than files |
| Bash (`src/bash.rs`, `src/bash/*`, `src/process_runtime.rs`) | run table, run records, run permit, process groups, output buffers | start, queue, poll, cancel, output | start, task, cancel, exit, timeout and shutdown race; a counted process handle kills on last drop; output is cut in chunks and dropped from the front |
| Index (`src/index`) | entries by path, symbol postings, incremental snapshot digest, on-disk cache | scan, refresh_paths, cache load and store | derived data kept up step by step; a cache written by another process under other settings |
| Retrieval (`src/workspace/retrieve.rs`, `fetch.rs`, `src/index/search.rs`, `windows.rs`, `src/reference_service`) | none between calls but the tokens and handles clients keep | a batch of operations: fetch, continue, search, references | the index changes between the calls of one client; limits at several levels |
| Language server workers (`src/intelligence/worker*`) | bounded queue, one server with its documents and diagnostics, status | execute with deadline, one restart, stop | late answers, dying servers, callers that gave up, stop during a request |
| Code intelligence sessions (`src/intelligence/session.rs`, `service.rs`, `position.rs`, `workspace_edit.rs`) | one session per request | open, ask, verify, interpret, fall back | files change while the server thinks; columns in three encodings |
| Transport and application (`src/cli/mcp_transport.rs`, `serve.rs`, `src/manager.rs`) | connection and body permits, operation gate, configuration, workspace, intelligence service | accept, authorize, collect, run a tool, initialize | requests end in many ways and must give everything back; initialize replaces three fields |
| Tools, requests, CLI | configuration | parsing and dispatch | mostly stateless |

How they meet: a connection is accepted, its request authorized, its body
collected and its tool run under the shared side of the operation gate. A tool call
reaches one `Workspace` method. A method that reads
begins with `reconcile_pending`; one that mutates waits for the mutation gate
first. Both then take the writer lock and, for a moment, the state lock (lock
order: permit, writer, state). The watcher thread only touches the pending paths.
`code_edit` runs its validation commands through the Bash supervisor. The
supervisor's tasks are detached: they outlive the request that started them.
Semantic requests go from a session through a queue to the thread that owns the
language server, and come back to a session that checks the files again.

What makes each part correct:

- reconciled state: no change on disk is forgotten; the stamp names the index it
  is returned with; index and status belong together; every request returns;
- edits: nothing is overwritten that the edit was not planned against; a failed
  edit is undone or reported; a successful one is in the index it is stamped with;
- gate: edits and Git mutations never overlap;
- Bash: one command at a time; a run ends exactly once, with the status its
  history deserves; a cancel always reaches the process; no process is left behind;
- run table: active runs stay reachable, ended ones go oldest first;
- run output: what is shown does not depend on where reads were cut, offsets keep
  their meaning while the front is dropped, and a part is never taken for the whole;
- change feed: a follower misses nothing, own writes are not reported as somebody
  else's, all replies about an ended run agree;
- index: postings and digest equal those of a fresh index of the same files; symbols
  belong to the content; a reported change is taken up;
- edit planning: the plan starts from the indexed content, no content is overwritten
  that the request did not name, handles confine changes to their lines, line
  endings stay;
- retrieval: pages of two versions are never joined, a cut is announced, no file crowds
  out the others, each operation is answered once;
- language servers: an answer is about the text handed over, nothing is done for a
  caller that gave up, no process is left behind, positions survive the conversion;
- sessions: a semantic answer is about files as disk and index have them;
- transport: no permit is lost, the unauthorized take none, nobody sees half a
  workspace.

## 2. Modules

| Module | What it is |
|---|---|
| `RunLifecycle` | abstract: the status machine of runs, at most one of them running |
| `BashSupervisor` | the supervisor, its tasks, cancel requests and process groups; implements `RunLifecycle` |
| `BashSupervisorProofs` | TLAPS proofs about `BashSupervisor` |
| `RunTable` | insertion into and eviction from the table of runs |
| `RunOutput` | decoders, tail buffers, pages and the status view of a run |
| `RunProofs` | TLAPS proofs about `RunTable` and `RunOutput` |
| `ReconciledState` | reconciled state, pending paths, edits, Git actions, rescans, watcher and outside world |
| `ReconciledProofs` | TLAPS proofs about `ReconciledState` |
| `ChangeFeed` | markers, mutation log, followers, change attribution of a run |
| `ChangeFeedProofs` | TLAPS proofs about `ChangeFeed` |
| `CodeIndex` | index, digest, postings, cache, scan and refresh |
| `EditPlan` | from a list of changes to the plan that `ReconciledState` commits |
| `Retrieval` | batches, fetch with continuations, search, references |
| `SemanticBackend` | abstract: what a semantic backend promises |
| `LspWorker` | the worker thread, its queue and its server; implements `SemanticBackend` |
| `LspWorkerProofs` | TLAPS proofs about `LspWorker` and its refinement, and about `LspEdits` |
| `CodeIntelligence` | sessions on top of `SemanticBackend` |
| `LspEdits` | position conversion and edits of language servers |
| `WorkspaceProofs` | TLAPS proofs about `CodeIndex`, `CodeIntelligence`, `EditPlan` and `Retrieval` |
| `Orderings` | sorting and filtering, with relations and sets where the community modules take operators |
| `SequenceLemmas` | induction and recursion over numbers, parts and concatenations of sequences, sorting |
| `Gateway` | transport, application and operation gate |
| `GatewayProofs` | TLAPS proofs about `Gateway` |
| `MCBashSupervisor`, `MCReconciledState`, `MCChangeFeed`, `MCLspWorker`, `MCGateway` | instances for TLC |
| `MCUnits` | the instance for the components that work alone: the initial state chooses one of `RunTable`, `RunOutput`, `CodeIndex`, `CodeIntelligence`, `EditPlan`, `Retrieval`, `LspEdits`, whose steps are then taken while the others stay where they are |

Composition: `LspWorker` is shown to implement `SemanticBackend`, and
`CodeIntelligence` is written over `SemanticBackend`, so that sessions are checked
against what the worker delivers without its inside. `EditPlan` ends where the commit
of `ReconciledState` begins. `ChangeFeed` repeats the writers of `ReconciledState` with
texts reduced to the write that made them, and adds what they record.

Operators whose comment begins with "Mutant:" are not part of the
specification. Each is a variant of the definition that follows it with a
plausible mistake in it; `PROJECT.json` says which property it has to break.

### BashSupervisor

For each run, `call` is the program counter of the request (`start` or `queue`),
`exec` that of the detached task and `canc` that of a cancel request between the
record lock and the signal. `status`, `cancelRequested` and `recGroup` are the
fields of `RunRecord`; `taskGroup` is the task's own handle. `proc` is the
process tree: no process, a living shell, a dead shell with living descendants,
or nothing left. Each step between two lock operations or awaits is one action;
what happens under one lock is one action. `permit` and `waiters` are tokio's
semaphore of one permit with its FIFO queue. `Shutdown` lets every suspended task
be dropped where it stands, which releases its permit and runs its guard. Output,
notes, exit codes other than success and failure, and times are left out: a
timer may fire at any moment. Dropping the last group handle kills the tree in
the same step (`SIGKILL` to the group); a stop request only arms the escalation,
since a process may ignore `SIGTERM`. `LaunchFails` covers the missing pipes,
whose process is killed on the spot. Concurrent cancels of one run are
represented by one at a time: a second one copies the same handle and repeats
the same stop request.

### RunTable

`Insert` is the first critical section of `RunTable::insert`, `ReadRecord` the
lock of one copied record, `Evict` the second critical section. `endedAt` is a
rank: records with equal end times are ordered by their sequence number in the
code, so there is always a strict order.

### ReconciledState

`disk`, `head`, `committed` and `stagingArea` are the worktree and the
repository; contents are model values, split into those the index can hold
(`Texts`) and those it skips (`Opaque`). `events` holds what the watcher has not
delivered yet; `pending` and `flag` are the ledger's paths and `needs_reconcile`.
`op` and `at` say what each request does and where it stands. `writer` is the
lock and `wpc` the place of its holder; since only the holder works on the state,
its locals are single variables. Reading a file is one step per file, so other
programs can write between any two of them. `draft` is the index as changed
inside one `update`: readers cannot see it before the state lock is released.
`refresh_paths` publishes its partial result when it fails, because it changes the
index in place.

The plan of an edit is any function from paths to contents that changes
something. `plan_change` checks neither size, NUL bytes nor exclusions, so a plan may hold
content from `Writable` (text that is too large or holds a NUL byte), and may touch `Excluded`
paths. What `refresh_paths` and a scan pass over is `Skips`: a refresh leaves the entry of such a
file as it was (`EntryAfter`), a full scan has none (`Indexed`). A commit succeeds
all the same, and `CommittedIndexed` says what the index holds then: the planned content where the index
takes it, the entry from before the edit where it does not. Planned files that end as they were are left out. A file is replaced
or removed atomically (`write_atomic` renames a temporary file). Directories are
not modelled: every path is a file. Diff, log, show, blame and push only begin
with the same reconcile and then ask Git. A commit with nothing staged fails.

Three history variables are read by properties only: `lost` (paths whose report
was dropped by a failed refresh or scan), `torn` (the index changed without a new
snapshot id) and `raced` (files other programs wrote since the recheck).

### ChangeFeed

A text is the number of the write that made it. A reconcile drains pending paths,
separates those whose marker it consumes from the external ones, publishes under a
new generation and records afterwards; a commit marks, writes, publishes and
records; a failed one compensates with new markers. A marker may expire at any
moment (`Expire`), which puts its path into `late`. A follower passes the newest
generation it was told; `cut` marks replies that were full or a log that has
dropped something. One run is followed: the baseline is taken before the start and
set after it, polls compute changes and the first to come freezes them. `clock` numbers
the moments at which something is written; `stamp` is the `timestamp_ms` an edit takes
before it writes its first file, which is what all its records carry. History: `seen`,
`ours`, `ever`, `late`, `replies`, `touched`.

Proving the three invariants corrected the model in two places. The timestamp of an edit is
taken before its writes, so an edit that began before a run ended and wrote afterwards is
attributed to the run; `touched` counts an edit from its timestamp. And a reconcile
that consumes a marker and then fails leaves the path without one, so a second report
of the same write is recorded as external; `late` holds such paths too.

### RunOutput

Bytes are named by what the decoder tells apart. `Decode` is the whole of
`StreamDecoder::decode` with UTF-8 validation and the escape automaton; `Push` keeps
the separate bookkeeping of start, retained and dropped characters, with
compaction by bytes. The reference definitions are the decoding of all bytes at once and
the tail of all characters ever appended.

### CodeIndex

A path holds a text, a directory, something that is not indexed, or nothing. The
snapshot accumulator is a set under symmetric difference, which is what XOR of
collision-free digests is. `Notify` is the watcher: a removed tree may be reported by its
root, a moved-in directory by its own name only. `Crash` may happen at every step; the next
process may use other settings. `WalkArtifacts` begins the walk of
the artifact paths, which do not respect `.gitignore`, after that of the root. `RefreshFails` is the read
error that ends a refresh and drops the rest of the drained paths; a read error of a scan fails
the opening, like `Crash`. Directories that cannot be listed are passed over by the code
(`filter_map(Result::ok)`) and count as `"absent"` to the model.

`Caught` leaves out what the code gives up, and names it: paths whose last change no refresh was
told of or whose refresh failed (`unseen`: changes while no watcher ran, the rest of a refresh that
failed, files in a directory that was moved in or replaced); a file that became binary, too
large or a directory, which keeps its entry; and files Git ignores that are no artifacts, which are
indexed when they change and not before. Everything else is asserted, a plain
deletion included.

### EditPlan

The six kinds of change with their hashes, handles, counts and flags; preflight,
planning change by change on the planned content, syntax check (may fail), recheck
against the disk. `Application::code_edit` first fills in the current snapshot when the request has
none (`FillSnapshot`), as the requests of the tools for one change always do, and until the writer is
taken other edits and reconciles may publish another index (`IndexMoves`). `NoBlindOverwrite` therefore
says two things: a client that states a snapshot or a content loses nothing it has not named; one that
states nothing (`code_write` with overwrite, `code_delete`) overwrites what was there when the
application took its request, unread, and is protected against later changes only. The refusal of a
change without any precondition (`edit.rs:474`) cannot occur through the application, which
supplies one. A rename preview sends its own snapshot to the workspace. Snapshot ids are the indexes
themselves; `HEAD`, which they also cover, does not move here. Texts are sequences over five characters, enough for both line
endings, a symbol and repeated text. The paths of a request are taken as already normalised:
two spellings of a new file would be planned as two files.

### Retrieval

A call is a list of operations; each reads the index as it is when it runs, and a
writer changes it in between. `Retrieved` dispatches to path and handle fetches (whole
file, line range, page, continuation), file name and text search and references; `Compacted` is
what a compact answer leaves of a read. The
client keeps what a read returned and follows its token. A compact page has no token and does not say
that it was cut; the token is then kept as history, and `ReadsFaithful` calls the text whole only if there
is none. The read of a run's output through `bash_log`, which is cut at `max_chars` without a
continuation, is left out: `RunOutput` has the paging of that output. Windows, per-file limits and the
turns of `interleave` are those of `windows.rs`; file order is by path, ranking is
left out.

### LspWorker, CodeIntelligence, LspEdits

The thread's program counter is `wpc`; `cur` is the command in hand, `ready` the server
kept between commands, `proc` the process. A deadline may pass at any moment and a caller
gives up some time later. The server learns texts when they are sent and may answer,
publish diagnostics of any document, open or not, about any text, ask, die or go mute at any moment.
The worker caches publications for any document and drops the entry when it sends `didOpen` or
`didChange`; `said` is the history of what the present process has said of a document and
could be received since it was last handed over. `execute` starts a server if there is none,
synchronises, sends and waits; a restartable failure is retried once if
deadline and stop flag allow. Positions are answered for the text that was
synchronised; diagnostics may be older, since the worker takes the first publication after
the change whatever version it names (`SemanticBackend` promises no more).

A session reads its target from index and disk in two steps, asks, reads disk and index
again in two steps, and then reads each file its result points into, once, and compares it with
the index in another step; everything may change between any two. A reconcile reads a changed file
and publishes it later, one file at a time. `diskSince` and `indexSince` are histories: the
texts each file and its entry have had since the backend answered. `SessionInv` says that the target's text and
each result file's text are among both. `LspEdits` converts positions and
compiles a list of edits over texts with characters of one to four bytes and of one or two
UTF-16 units.

### Gateway

`connection` is where the task of a connection stands, `holding` its body permit,
`gate` the fair read-write lock with its waiting writer. A client may go away wherever its
task waits, which drops the task with all it holds. `initialize` opens the
workspace and may fail before it stores anything.

## 3. Runs

| Run | Bounds | Shows |
|---|---|---|
| `bash` | 2 runs | the safety properties of the supervisor, `RunLifecycle`; every accepted run ends, a cancelled tree dies |
| `reconcile_edit` | 1 client, 2 files of which the index excludes one, 2 texts, 1 content it passes over that an edit may write and 1 only others write, 1 external change, 2 failures, 1 edit | nothing forgotten; overwrites, compensation, index after commit |
| `mutations` | 2 clients, 1 file, 1 external change, 1 repeated event, 1 failure, 1 edit, 1 Git call | stamps; mutual exclusion |
| `reconcile_liveness` | 2 clients, 1 file, 1 external change, 1 failure, 1 edit, 1 rescan | convergence; every request returns |
| `change_feed` | 3 requests, 2 files, log of 3, replies of 2; five workloads that bound edits, external writes, polls, failures and expiries | followers, attribution, own and external writes |
| `lsp_worker` | 2 callers, 1 document with 2 texts, queue of 1, 1 fault, 1 unasked message; a server that only has its diagnostics pulled, one that publishes them and answers positions, one without synchronisation | refinement of `SemanticBackend`; ownership, restart, published diagnostics, abandoned work; the queue empties, every caller returns, a dropped worker ends its server |
| `gateway` | 3 connections, 2 authorized, 2 connection permits, 1 body permit, 2 requests each, 2 initializations, 1 accept error | permits, layers, whole workspaces, backlog |
| `units` | see below | the components that work alone |

In `units`: five runs in a table of two; outputs of four bytes in chunks, retained 2,
pages of 1; a directory with a file and another file, both ignored by Git and artifacts under one of the two
settings each, two texts, three changes; one session over two documents and two writes; lists of up to two changes over
files with Unix, DOS and repeated text; calls of up to two operations over two files with
two index changes; up to two edits per document in three encodings.

Why these are enough: the supervisor couples runs only through the permit and its
queue, so two runs reach every relation between holder and waiter, and the safety
claims are also proved for any number. Inserts must overlap to evict from
each other's copies: five runs in a table of two allow that. For edits, two files are what
it takes to have one written and one not; two failures are what it takes for a
compensation to fail in its refresh; an external write comes between any two steps, and the races of
more writers are proved for any number. The log of three overflows in the workloads that follow it, so that both a
complete and a cut reply occur; two polls compute a run's final changes at the same time. One
fault of the language server is followed by the restart and a second request to the fresh
server; a queue of one is full as soon as the thread is busy. One free body permit for two
authorized clients gives both outcomes of admission, and the second initialization races
with running tools. Four bytes contain every sequence split in every place together with a
neighbour. Two changes of a request are what it takes for one to build on another. Deadlock
is not checked because all of these systems may come to
rest: bounds run out and no client has to call.

Bounds on history (`MaxExternal`, `MaxRepeats`, `MaxFaults`, `MaxEdits`, `MaxGit`,
`MaxRescans`, `MaxActive`, `MaxUnasked`, `MaxRequests`, `MaxInits`, `MaxErrors`, `MaxChanges`,
`MaxWrites`, `MaxIndexChanges`, `Workloads`, `OutputLoads`) sit in the guards of the actions they bound. `RunTable`
assumes that no more runs are active than the table retains (128 in the code):
nothing in the code enforces it for queued runs, and with more the table simply
grows.

Properties that belong together are checked as one invariant with named parts:
`EvictionSound`, `OutputFaithful`, `IndexSound`, `SessionInv`, `PlanSound`, `ChangesConfined`,
`ReadsFaithful`, `SearchFair`, `PositionsFaithful`, `GatewayInv`, `LogFollowed`,
`RunChangesSettled`, `WorkerInv` and `NeverStuck` say in their definitions which parts they
have; most parts have a mutant of their own. The type invariants are parts of these; those of `BashSupervisor` and
`ReconciledState`, and the inductive invariants around them, are proved and not run.

### Fairness

`bash`: every task that can move is eventually polled, timers fire,
handlers that began go on (weak fairness of `Task`, `Insert`/`Spawn`,
`CancelSignals`, `Escalate`). No process has to exit by itself and no client has
to call; the run's own timeout ends what does not end otherwise.

`reconcile_liveness`: the watcher delivers, the holder of the writer goes on, a
released writer goes to a waiting request sooner or later (strong fairness of
`AcquireWriter`: parking_lot's mutexes are eventually fair), repository commands
and validation return (they have timeouts or budgets). Convergence also needs a
request to arrive while something is pending (`ReconcilePending`), since only
requests reconcile; that is an assumption about clients, not about the code.

`lsp_worker`: the thread is scheduled and timers fire (`Thread`, `DeadlinePasses`, `GiveUp`). The
server owes nothing. Writing to it is assumed not to block, which the code does not
enforce: a server that stops reading its input can hold the thread, and with it the
drop of the worker.

`gateway`: accept loop, tasks and initialize are run, an idle connection is closed by
hyper's timer, clients finish bodies they began and tools return. The last two are
assumptions: collecting a body has no timeout of its own, and a tool holds its
body permit while it runs.

### What the documentation says and the code does not do

Each of these runs ends in a counterexample (`findings` in `PROJECT.json` quotes
the text):

- `drained_paths_lost`: a read error during reconcile drops the drained paths.
- `same_moment`: `commit_plan` reads `git status` before the index; a write in between
  leaves a wrong status that later reconciles do not correct.
- `validation_unprotected`: the permit is dropped while deferred validation runs.
- `references_truncated`: `interleave` compares counted windows with results that contain
  uncounted declarations, so a reference can be cut off without `truncated`.

More oddities have no run of their own and are visible in the actions or in the
exceptions a property names: a failed refresh, or a compensation's refresh, changes the
published index under the old snapshot id (`torn`); a file
that stops being text keeps its old entry when it is refreshed (`Refreshed`,
`KeptEntry`), while a full scan drops it; a status refresh publishes a new
snapshot id under the old generation (`RefreshRepoStatus`); a follower that continues from the
`generation` of a `changes` reply instead of its newest record can miss one; an
LSP edit into an empty file is refused; diagnostics published about an older text answer for the one
just handed over (`DiagnosticsArrive`); an edit may commit content the index then passes over
(`Skips`); a compact page does not say that it was cut (`Compacted`); a poll before the baseline of a run is set installs a
later one.

The passing properties are stated so that they say exactly what is left: the
exceptions in `DivergenceTracked`, `SnapshotDerived` and `IndexChangeBumps` are these
cases and no others, those of `Caught` are listed with `CodeIndex`, and those of `OwnWritesNotExternal` (`late`)
and `LogFollowed` (a follower from its newest record) with `ChangeFeed`.

## 4. Proofs

All theorems hold for every set of runs, clients, requests, paths, documents and contents
and for all bounds; they use only the named assumptions on constants (`NoneAssumption`;
`ContentAssumption`, `PathAssumption`, `ClientAssumption`, `BoundAssumption`;
`IndexAssumption`; `TableAssumption`; `OutputAssumption`; `EditAssumption`; `RetrievalAssumption`; `FeedAssumption`; `WorkerAssumption`,
`SessionAssumption`; `LspEditsAssumption`; `GatewayAssumption`). These say that `None` is none of the values it
stands beside, that sets which are counted are finite, that limits are numbers, and that a
character takes at least one code unit and exactly one in UTF-32. Each
invariant below that is not the property itself has been checked by TLC before it
was proved.

`BashSupervisorProofs`: `OneShell` is not inductive: that a second shell cannot
start follows from the permit, so `SupervisorInv` adds who holds the permit
(`PermitConsistent`), what status a task's place implies (`StatusConsistent`), where a
shell may live (`ShellHeld`) and where a run may be "running" (`RunningHeld`, which is
what the refinement needs: after a shutdown a dropped task leaves "running" behind for
a moment, harmless only because nothing is launched any more). From it follow
`TypeCorrect`, `OneShellAtATime`, `CancelDecides`, and `Refinement`: every step is a
step of `RunLifecycle` or leaves the statuses alone.
`HandlesInv` adds what two more theorems need. That no process of a run outlives its permit
(`TreeDiesWithPermit`) rests on who holds a handle of the group (`GroupHeld`: the task, the
record, or a cancel request about to signal), on the queue (`QueueKept`: only tasks that wait
are in it, once, so that a permit handed over finds its task) and on `PermitUsed`: whoever
the permit belongs to is on the way to using it or giving it back. That a foreground
caller told of the end finds it so and the permit free (`FinishedIsFinal`) needs that the task is done by
then (`RepliesKept`).

`ReconciledProofs`: that no change is forgotten (`NoChangeForgotten`) needs to know
that what the writer has read is right or reported again (`DraftTracked`), that the
files an edit wrote stay reported until the writer is released (`WritesReported`) and
who may be where under the writer (`WriterConsistent`). `GateExcludes` needs `GateHeld`:
who edits or mutates holds the permit. `StampNamesIndex` and `GenerationNamesIndex` follow
along the same step lemmas. Each step lemma has one case per action.
`EditFollowed` says what an edit may rely on at each place of its program about the planned
files nobody else touched meanwhile: checked ones still hold what was planned from,
written ones what was planned, restored ones what was there before, and what was
refreshed is in the draft. The gate keeps other edits and Git out, so only outside writers
remain, and these are named by `raced`. From it follow `CompensationComplete`,
`CommitIndexesPlan` and the action property `NothingElseOverwritten`.

`WorkspaceProofs`, index: `IndexStaysSound` states `IndexSound` of every index, however it came
about. It is not inductive by itself: a scan takes symbols from the cache, so `IndexInv`
adds that neither the cache file nor the loaded cache holds symbols of another text
(`CacheSound`), and says of postings and digest name by name what `IndexSound` says of them as
a whole (`GoodIndex`). The operators are proved to keep `GoodIndex` first (`RemovedGood`,
`InsertedGood`), then one case per action. `IndexCatchesUp` states `Caught`, which speaks only
of moments when nothing is on its way. `CaughtInv` says what holds in between: what exists lies in
directories (`TreeKept`), so that a drained path that was no directory had nothing
below it and removing its tree takes away no file that is not reported again (`RemovalsSafe`);
during the scan a file is listed or right (`ScanFollows`), later it is right, queued or drained,
and the entry of a path that is gone has a removal at or above it on the way
(`RefreshFollows`). That a removal is not dropped as excluded while a file below it is not
needs one more assumption on constants: exclusion is inherited, since `WorkspaceExclusions::new`
refuses negated patterns.

`RunProofs`, table: that the table respects its limit (`RetentionBound`, part of
`EvictionIsSound`) does not survive an eviction by itself: the victims an insert chose
may have been evicted by another one meanwhile. `EvictionsSuffice` says that the bound holds
whichever of the inserts in progress have evicted whatever they may. Why an insert may evict
what it chose rests on what it copied (`Copied`): the runs that had ended by then are
enough to bring the table down to the limit, and what was active then ends later.

`ChangeFeedProofs`: `FeedInv` has a part for each theorem. `FollowInv` (for `NothingSkipped`)
says which generation the next records will carry, published or not (`Fresh`): everything
in the log and everything a follower was told is below it, so that a reply between a
publication and its record cannot move a follower past the record. `FilesInv` and `RunInv` (for
`RunSettledOnce`) say what the request that starts or polls the run carries at each place
(`Carries`), that whatever was written or recorded by the end of the run is touched, and that
replies give what is frozen. `OwnInv` (for `OwnWritesKnown`) says that a written text which is
not indexed yet keeps its marker, or its path is `late`, wherever the writer's holder
stands (`MarkersKept`, `HolderKnows`). The type invariant is cut by groups of variables, and
`Frames` lemmas carry the parts an action does not touch.

`LspWorkerProofs`: `ConversationInv` says that a command is in the queue once or in hand
(`CommandsOnce`), that the worker's record of documents is what the server was told and
nothing is left where there is no server (`ServerKept`), that what is cached or on its way of a document has been said since it was handed over, that the status follows
(`StatusKept`), and that no message is newer than the last request while a response to
it is about the text of the command (`MessagesKept`). The last part is what the refinement
needs: `WorkerIsABackend` maps every step of caller, thread and server, with restarts and
abandoned calls, to a step of `SemanticBackend` or a stutter.

`PositionsAreFaithful` and `EditsAreSimultaneous` (`LspWorkerProofs`) hold for any texts, code
units and edits. `LspEditsInv` says that what is resolved are ranges of the document and that the
last conversion is as it should be (`Faithfully`). The code units of the prefixes of a line rise
strictly (`UnitsRise`), so the scan of `prefix_for_utf16_column` stops at the one prefix of that
width or at none (`PrefixIs`), and a line of the text is the places between two line ends
(`LineSpans`). For edits, `Before` says what the stable sort and the refusal of overlaps give: an edit
lies before all that were applied already and, of those that start at the same place, was earlier
in the array. Applying it by its own range to the text the others made is then making it at once
with them (`OneMoreEdit`), so by induction the text after any number of edits from the
back is the pieces that these edits at once leave.

`WorkspaceProofs`, sessions: `NoStaleAnswer` needs `SessionHas`, what a session has at each place
of its program: the request it opened with, an answer of the backend to that
request, and the texts read after it, each among those its file, and once checked its entry, have had
since the answer. The histories only grow while a session runs (`HistoryGrows`), so what was confirmed once
stays so.

`GatewayProofs`: `PermitsKept` counts: `Conserved` is the sum of free permits, connections
served and the permit in the accept loop's hand, kept with cardinalities of finite sets; that
a connection waits in the backlog once (`BacklogWaits`) is needed for an accept to add exactly
one. `NoHalfReplacedWorkspace` needs that the writer side of the gate follows
`initialize` (`GateFollows`), which sets its fields in order (`FieldsInOrder`), and that what a
tool took stays current while it is a reader (`UsesCurrent`).

`SequenceLemmas`: induction over the natural numbers is derived from the least number of
a non-empty set (`LeastNumber`), with sets in the place of predicates, and that a recursive
function on `0..n` exists and obeys its equation (`RankedRecursion`, `StepRecursion`) from that. The
components therefore write loops as recursive functions, `upTo[k]` being what the loop has after
k turns.

`RunProofs`, output: `OutputChunksInvisible` and `OutputIsFaithful` rest on `OutputInv`: an
open pipe has printed what decoding all of its bytes at once prints and its decoder is
where that leaves it (`DecodedSoFar`), each buffer is the tail of what its stream printed
with the counts of what was dropped and kept (`BuffersHold`), and a client's page and
token are about a part of the stream that no longer changes (`ReaderInv`). The step is the lemma that
decoding a concatenation is decoding its parts one after the other, for UTF-8
sequences and for escape sequences.

`WorkspaceProofs`, edit plans: `EditInv` adds to `PlanFromIndex` what is known before the
commit: every planned file is new, or the request stated its text or the snapshot, or the application
filled the snapshot in and the file is as it was then, by the
changes planned so far (`NothingBlind`), and a change through a handle is the only one of its
file (`HandlesAlone`), which is why what it leaves alone is still there at the end.
`EditsConfined` also needs what the operators do to texts: a replacement, cut and put together
at matches, stays within the lines of its handle, and each operator keeps a text without CR free of
it and a text whose line ends are all CRLF so (`LineEndingsKept`, whose condition on the text
that is searched for says what the code does not convert).

`WorkspaceProofs`, retrieval: `OperationsAnswered` needs that results and errors so far
are in the order of the call, disjoint, and together all places up to the last one, unless
fail_fast has ended the call there (`AnswersInv`). A call has at least one operation, since
an empty list is refused.

`ReadsAreFaithful` states `ReadsFaithful` for any texts, calls and changes of the index. `ReadsInv`
says what it rests on: what the client has
assembled is the scoped text of one version up to the offset of its token, or all of it if there is none
(`ReadGood`); the last result of a call carries that token, or handles that name a range
of lines of their text beside a preview of just these lines (`LastFits`); and an operation
that follows up an answer uses one of the two (`OpsGood`). The token a client holds is therefore never
older than what it has assembled. The lemmas
below it say, for every text, that clamping a range again or reading whole lines by a handle gives the same lines, that
windows lie within their file and never end before they start (`WindowBuilder::push`), and that taking
turns, cutting and stable sorting give back results that were put in. `StableSorted`
and `Picked` (`Orderings`) take a relation or a set of places, not an operator,
so that the lemmas about them (`SequenceLemmas`) hold for every order.

`SearchesAreFair` states `SearchFair` for any texts, calls and changes of the index. `SearchInv` says
of each text search recorded so far that its answer is fair to the index it was run on, which
no later step takes away, since an entry keeps the index it saw. Fairness of one answer rests on where
its results come from: each is one window of one file, in one turn, later turns follow earlier ones,
none comes twice, and a window comes only after all earlier windows of every file
(`ResultOrder`), and a file's windows cover all its matching lines, in order (`Covering`). A
search that does not say it was truncated has as many results as there are windows, so it has them
all (`AllTaken`, by counting); and when a file shows two results more than another, that one has had
a turn in which it had nothing left to give.

Only model-checked: the liveness properties (fairness and `ENABLED` are out of the
prover's reach). `LspEdits`, like the other modules, writes its loops as recursive functions and
sorts with `Orderings`, since the provers cannot expand operators that take operators.

## 5. Not modelled

Listed with reasons under `components` in `PROJECT.json`: symbol extraction, ranking,
symbol search and rendering (string work without state), parsing of requests and of
Git's output, the CLI and configuration files, confined file access and token files (used
here as atomic steps that may fail), readiness probes, Windows job objects, URI
spellings, the loop over several validation commands.

Two more are real and have no property: readers that return while another
request reconciles, and files written between the first
scan and the start of the watcher. The notes in `PROJECT.json` say why. The operations of one batch may read different index states; each is
checked against the one it read.

## 6. Plan

Every safety property of the runs is a theorem. Left are opening a workspace with the watcher
started after the scan, several validation commands, and paging of `git diff`.
