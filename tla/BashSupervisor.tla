--------------------------- MODULE BashSupervisor ---------------------------
(***************************************************************************)
(* The Bash supervisor: src/bash.rs (start, queue, cancel),                *)
(* src/bash/lifecycle.rs (the record), src/bash/execution.rs (the detached *)
(* task) and the process group handle of src/process_runtime.rs.  Which    *)
(* ended runs the table keeps is the subject of module RunTable.           *)
(*                                                                         *)
(* Each run has three concurrent actors: the request that starts it        *)
(* (call), the detached task that executes it (exec) and a cancel request  *)
(* (canc).  They meet in the record, which is locked for one step at a     *)
(* time, in the one-permit semaphore and in the process group, a counted   *)
(* handle whose last drop kills the process tree.                          *)
(***************************************************************************)
EXTENDS Naturals, FiniteSets, Sequences

CONSTANTS
  Runs,       \* run identities; each is started at most once
  None,       \* the semaphore's permit is free
  MaxActive   \* bound: runs that may be active at the same moment

ASSUME NoneAssumption == None \notin Runs

VARIABLES
  status,           \* RunRecord.status, "absent" before the record exists
  cancelRequested,  \* RunRecord.cancel_requested
  recGroup,         \* RunRecord.process holds a handle to the group
  permit,           \* holder of the run permit
  waiters,          \* FIFO queue of the semaphore
  call,             \* call[r]: where start / queue stands
  mode,             \* mode[r]: "foreground", "background" or "queued"
  exec,             \* exec[r]: where the detached task stands
  taskGroup,        \* the task's local handle to the group
  outcome,          \* outcome[r]: the task's local ProcessOutcome
  canc,             \* canc[r]: "signal" while a cancel holds a group handle
  proc,             \* proc[r]: the process tree itself
  exitCode,         \* exitCode[r]: how the shell exited
  stop,             \* stop[r]: terminate() was called, escalation is armed
  down              \* the async runtime is shutting down

recordVars == <<status, cancelRequested, recGroup>>
permitVars == <<permit, waiters>>
callVars   == <<call, mode>>
taskVars   == <<exec, taskGroup, outcome>>
procVars   == <<proc, exitCode, stop>>
vars == <<recordVars, permitVars, callVars, taskVars, canc, procVars, down>>

Lifecycle == INSTANCE RunLifecycle WITH Runs <- Runs, status <- status

Terminal == Lifecycle!Terminal
CanBecome(s, t) == Lifecycle!CanBecome(s, t)
Ended(r) == status[r] \in Terminal
ActiveRuns == {r \in Runs : call[r] # "none" /\ ~Ended(r)}

(* The tree states in which some process of the group is alive. *)
LiveTree == {"shell", "orphans"}

(* Where the task holds the permit. *)
Holding == {"begin", "launch", "start", "run", "stop", "drain", "finish",
            "error", "return", "release"}

(* Where the task is suspended, so that shutdown may drop it. *)
Suspended == {"acquire", "waiting", "begin", "run", "stop", "drain"}

CallStates == {"none", "insert", "spawn", "wait", "detached", "finished"}
ExecStates == Holding \union {"idle", "acquire", "waiting", "guard", "done"}

TypeOK ==
  /\ status \in [Runs -> Lifecycle!RunStatus \union {"absent"}]
  /\ cancelRequested \in [Runs -> BOOLEAN]
  /\ recGroup \in [Runs -> BOOLEAN]
  /\ permit \in Runs \union {None}
  /\ waiters \in Seq(Runs)
  /\ call \in [Runs -> CallStates]
  /\ mode \in [Runs -> {"none", "foreground", "background", "queued"}]
  /\ exec \in [Runs -> ExecStates]
  /\ taskGroup \in [Runs -> BOOLEAN]
  /\ outcome \in [Runs -> {"none", "ok", "fail", "waitfail", "timeout"}]
  /\ canc \in [Runs -> {"idle", "signal"}]
  /\ proc \in [Runs -> LiveTree \union {"none", "dead"}]
  /\ exitCode \in [Runs -> {"none", "ok", "fail"}]
  /\ stop \in [Runs -> BOOLEAN]
  /\ down \in BOOLEAN

Init ==
  /\ status = [r \in Runs |-> "absent"]
  /\ cancelRequested = [r \in Runs |-> FALSE]
  /\ recGroup = [r \in Runs |-> FALSE]
  /\ permit = None
  /\ waiters = <<>>
  /\ call = [r \in Runs |-> "none"]
  /\ mode = [r \in Runs |-> "none"]
  /\ exec = [r \in Runs |-> "idle"]
  /\ taskGroup = [r \in Runs |-> FALSE]
  /\ outcome = [r \in Runs |-> "none"]
  /\ canc = [r \in Runs |-> "idle"]
  /\ proc = [r \in Runs |-> "none"]
  /\ exitCode = [r \in Runs |-> "none"]
  /\ stop = [r \in Runs |-> FALSE]
  /\ down = FALSE

-----------------------------------------------------------------------------
(* The record: RunRecord::transition and its callers.                      *)

(* Mutant: no transition check. *)
FinishAnyway(r, s) ==
  /\ status' = [status EXCEPT ![r] = s]
  /\ recGroup' = [recGroup EXCEPT ![r] = FALSE]
  /\ UNCHANGED cancelRequested

(* RunRecord::finish through transition: a terminal status is entered at   *)
(* most once, and with it the record lets go of its group.                 *)
Finish(r, s) ==
  IF CanBecome(status[r], s)
  THEN /\ status' = [status EXCEPT ![r] = s]
       /\ recGroup' = [recGroup EXCEPT ![r] = FALSE]
       /\ UNCHANGED cancelRequested
  ELSE UNCHANGED recordVars

(* RunRecord::finish_process: a requested cancel turns any exit or timeout *)
(* into "cancelled", but not a failed wait.                                *)
StatusOf(r) ==
  CASE outcome[r] = "waitfail" -> "failed"
    [] outcome[r] # "waitfail" /\ cancelRequested[r] -> "cancelled"
    [] outcome[r] = "ok" /\ ~cancelRequested[r] -> "succeeded"
    [] outcome[r] = "timeout" /\ ~cancelRequested[r] -> "timed_out"
    [] OTHER -> "failed"

(* Mutant: dropping the last handle kills nothing. *)
NotReaped(p, held) == p

(* GroupInner::drop: with the last handle the escalation is aborted and    *)
(* what is left of the tree dies.                                          *)
Reaped(p, held) == IF held \/ p = "none" THEN p ELSE "dead"

(* Dropping tokio's Child kills the shell, not what the shell started. *)
ChildDropped(p) == IF p = "shell" THEN "orphans" ELSE p

-----------------------------------------------------------------------------
(* Starting a run: BashSupervisor::start, queue and start_prepared.        *)

(* Mutant: no RUN_BUSY check. *)
StartUnchecked(r, m) ==
  /\ ~down
  /\ call[r] = "none"
  /\ Cardinality(ActiveRuns) < MaxActive
  /\ permit' = r
  /\ call' = [call EXCEPT ![r] = "insert"]
  /\ mode' = [mode EXCEPT ![r] = m]
  /\ UNCHANGED <<recordVars, waiters, taskVars, canc, procVars, down>>

(* start: try_acquire_owned succeeds.  It fails with RUN_BUSY, changing    *)
(* nothing, while the permit is held or has been handed to a waiter.       *)
Start(r, m) ==
  /\ ~down
  /\ call[r] = "none"
  /\ Cardinality(ActiveRuns) < MaxActive
  /\ permit = None
  /\ permit' = r
  /\ call' = [call EXCEPT ![r] = "insert"]
  /\ mode' = [mode EXCEPT ![r] = m]
  /\ UNCHANGED <<recordVars, waiters, taskVars, canc, procVars, down>>

(* queue: the deferred validation commands of an edit; no permit yet. *)
Queue(r) ==
  /\ ~down
  /\ call[r] = "none"
  /\ Cardinality(ActiveRuns) < MaxActive
  /\ call' = [call EXCEPT ![r] = "insert"]
  /\ mode' = [mode EXCEPT ![r] = "queued"]
  /\ UNCHANGED <<recordVars, permitVars, taskVars, canc, procVars, down>>

(* The record enters the run table: from here on it can be polled and      *)
(* cancelled.                                                              *)
Insert(r) ==
  /\ call[r] = "insert"
  /\ status' = [status EXCEPT ![r] = "queued"]
  /\ call' = [call EXCEPT ![r] = "spawn"]
  /\ UNCHANGED <<cancelRequested, recGroup, permitVars, mode, taskVars, canc,
                 procVars, down>>

(* start_prepared: the detached task starts; a foreground request waits. *)
Spawn(r) ==
  /\ call[r] = "spawn"
  /\ exec' = [exec EXCEPT ![r] = IF mode[r] = "queued" THEN "acquire" ELSE "begin"]
  /\ call' = [call EXCEPT ![r] = IF mode[r] = "foreground" THEN "wait" ELSE "detached"]
  /\ mode' = [mode EXCEPT ![r] = "none"]
  /\ UNCHANGED <<recordVars, permitVars, taskGroup, outcome, canc, procVars,
                 down>>

(* The foreground budget runs out: the request returns, the run goes on. *)
Promote(r) ==
  /\ call[r] = "wait"
  /\ call' = [call EXCEPT ![r] = "detached"]
  /\ UNCHANGED <<recordVars, permitVars, mode, taskVars, canc,
                 procVars, down>>

(* Mutant: the request waits for the status, not for the task. *)
ForegroundReplyEarly(r) ==
  /\ call[r] = "wait"
  /\ Ended(r)
  /\ call' = [call EXCEPT ![r] = "finished"]
  /\ UNCHANGED <<recordVars, permitVars, mode, taskVars, canc,
                 procVars, down>>

(* The task ended within the budget: the request returns its final status. *)
ForegroundReply(r) ==
  /\ call[r] = "wait"
  /\ exec[r] = "done"
  /\ call' = [call EXCEPT ![r] = "finished"]
  /\ UNCHANGED <<recordVars, permitVars, mode, taskVars, canc,
                 procVars, down>>

-----------------------------------------------------------------------------
(* The detached task: start_prepared's spawned future and execute.         *)

(* Dropping an OwnedSemaphorePermit hands it to the longest waiter. *)
ReleasePermit ==
  IF waiters = <<>>
  THEN permit' = None /\ UNCHANGED waiters
  ELSE permit' = Head(waiters) /\ waiters' = Tail(waiters)

(* acquire_owned, first poll: take a free permit or join the queue. *)
Acquire(r) ==
  /\ ~down
  /\ exec[r] = "acquire"
  /\ IF permit = None
     THEN /\ permit' = r
          /\ exec' = [exec EXCEPT ![r] = "begin"]
          /\ UNCHANGED waiters
     ELSE /\ waiters' = Append(waiters, r)
          /\ exec' = [exec EXCEPT ![r] = "waiting"]
          /\ UNCHANGED permit
  /\ UNCHANGED <<recordVars, callVars, taskGroup, outcome, canc,
                 procVars, down>>

(* execute: a run cancelled before its process started ends here. *)
BeginExecute(r) ==
  /\ ~down
  /\ exec[r] \in {"begin", "waiting"}
  /\ permit = r
  /\ IF cancelRequested[r]
     THEN /\ Finish(r, "cancelled")
          /\ exec' = [exec EXCEPT ![r] = "return"]
     ELSE /\ exec' = [exec EXCEPT ![r] = "launch"]
          /\ UNCHANGED recordVars
  /\ UNCHANGED <<permitVars, callVars, taskGroup, outcome, canc,
                 procVars, down>>

(* Launcher::launch starts the shell as the leader of a new group. *)
Launch(r) ==
  /\ exec[r] = "launch"
  /\ exec' = [exec EXCEPT ![r] = "start"]
  /\ taskGroup' = [taskGroup EXCEPT ![r] = TRUE]
  /\ proc' = [proc EXCEPT ![r] = "shell"]
  /\ UNCHANGED <<recordVars, permitVars, callVars, outcome, canc,
                 exitCode, stop, down>>

(* Launcher::launch fails: no process, or no pipes to a process that the   *)
(* dropped handles kill at once.                                           *)
LaunchFails(r) ==
  /\ exec[r] = "launch"
  /\ exec' = [exec EXCEPT ![r] = "error"]
  /\ UNCHANGED <<recordVars, permitVars, callVars, taskGroup,
                 outcome, canc, procVars, down>>

(* finalize_run_error *)
FinalizeError(r) ==
  /\ exec[r] = "error"
  /\ Finish(r, "failed")
  /\ exec' = [exec EXCEPT ![r] = "return"]
  /\ UNCHANGED <<permitVars, callVars, taskGroup, outcome, canc,
                 procVars, down>>

(* Mutant: the cancel flag is not looked at. *)
StartProcessBlind(r) ==
  /\ exec[r] = "start"
  /\ status' = [status EXCEPT ![r] = "running"]
  /\ recGroup' = [recGroup EXCEPT ![r] = TRUE]
  /\ stop' = [stop EXCEPT ![r] = @ \/ cancelRequested[r]]
  /\ exec' = [exec EXCEPT ![r] = "run"]
  /\ UNCHANGED <<cancelRequested, permitVars,
                 callVars, taskGroup, outcome, canc, proc, exitCode, down>>

(* RunRecord::start_process: publish the group; a cancel that arrived      *)
(* between the check and here found no group, so the task stops it itself. *)
StartProcess(r) ==
  /\ exec[r] = "start"
  /\ status' = [status EXCEPT ![r] = IF cancelRequested[r] THEN @ ELSE "running"]
  /\ recGroup' = [recGroup EXCEPT ![r] = TRUE]
  /\ stop' = [stop EXCEPT ![r] = @ \/ cancelRequested[r]]
  /\ exec' = [exec EXCEPT ![r] = "run"]
  /\ UNCHANGED <<cancelRequested, permitVars,
                 callVars, taskGroup, outcome, canc, proc, exitCode, down>>

(* child.wait() resolves: the shell exited, or waiting itself failed. *)
WaitResolves(r) ==
  /\ ~down
  /\ exec[r] = "run"
  /\ \/ /\ proc[r] # "shell"
        /\ outcome' = [outcome EXCEPT ![r] = exitCode[r]]
     \/ outcome' = [outcome EXCEPT ![r] = "waitfail"]
  /\ exec' = [exec EXCEPT ![r] = "drain"]
  /\ UNCHANGED <<recordVars, permitVars, callVars, taskGroup, canc,
                 procVars, down>>

(* timeout_ms (or STOP_WAIT after an early cancel) passes: stop the group. *)
TimeoutFires(r) ==
  /\ ~down
  /\ exec[r] = "run"
  /\ stop' = [stop EXCEPT ![r] = TRUE]
  /\ exec' = [exec EXCEPT ![r] = "stop"]
  /\ UNCHANGED <<recordVars, permitVars, callVars, taskGroup,
                 outcome, canc, proc, exitCode, down>>

(* The stopped shell exits, or STOP_WAIT passes: the outcome is a timeout. *)
StopWaitOver(r) ==
  /\ ~down
  /\ exec[r] = "stop"
  /\ outcome' = [outcome EXCEPT ![r] = "timeout"]
  /\ exec' = [exec EXCEPT ![r] = "drain"]
  /\ UNCHANGED <<recordVars, permitVars, callVars, taskGroup, canc,
                 procVars, down>>

(* The pipes close, or OUTPUT_DRAIN_TIMEOUT passes. *)
DrainOver(r) ==
  /\ ~down
  /\ exec[r] = "drain"
  /\ exec' = [exec EXCEPT ![r] = "finish"]
  /\ UNCHANGED <<recordVars, permitVars, callVars, taskGroup,
                 outcome, canc, procVars, down>>

(* RunRecord::finish_process *)
FinishProcess(r) ==
  /\ exec[r] = "finish"
  /\ Finish(r, StatusOf(r))
  /\ exec' = [exec EXCEPT ![r] = "return"]
  /\ UNCHANGED <<permitVars, callVars, taskGroup, outcome, canc,
                 procVars, down>>

(* The locals of execute are dropped: the child and the group handle. *)
DropLocals(r) ==
  /\ taskGroup' = [taskGroup EXCEPT ![r] = FALSE]
  /\ outcome' = [outcome EXCEPT ![r] = "none"]
  /\ exitCode' = [exitCode EXCEPT ![r] = "none"]
  /\ LET held == recGroup[r] \/ canc[r] = "signal" IN
       /\ proc' = [proc EXCEPT ![r] = Reaped(ChildDropped(@), held)]
       /\ stop' = [stop EXCEPT ![r] = @ /\ held]

(* execute returns. *)
Return(r) ==
  /\ exec[r] = "return"
  /\ DropLocals(r)
  /\ exec' = [exec EXCEPT ![r] = "release"]
  /\ UNCHANGED <<recordVars, permitVars, callVars, canc, down>>

(* The task's permit is dropped before the guard it captured. *)
Release(r) ==
  /\ exec[r] = "release"
  /\ ReleasePermit
  /\ exec' = [exec EXCEPT ![r] = "guard"]
  /\ UNCHANGED <<recordVars, callVars, taskGroup, outcome, canc,
                 procVars, down>>

(* Mutant: an abandoned task leaves its record as it is. *)
GuardDropsIdle(r) ==
  /\ exec[r] = "guard"
  /\ UNCHANGED recordVars
  /\ LET held == recGroup'[r] \/ canc[r] = "signal" IN
       /\ proc' = [proc EXCEPT ![r] = Reaped(@, held)]
       /\ stop' = [stop EXCEPT ![r] = @ /\ held]
  /\ exec' = [exec EXCEPT ![r] = "done"]
  /\ UNCHANGED <<permitVars, callVars, taskGroup, outcome, canc, exitCode, down>>

(* AbandonGuard::drop: ends a run that has not ended, killing its tree. *)
GuardDrops(r) ==
  /\ exec[r] = "guard"
  /\ Finish(r, "cancelled")
  /\ LET held == recGroup'[r] \/ canc[r] = "signal" IN
       /\ proc' = [proc EXCEPT ![r] = Reaped(@, held)]
       /\ stop' = [stop EXCEPT ![r] = @ /\ held]
  /\ exec' = [exec EXCEPT ![r] = "done"]
  /\ UNCHANGED <<permitVars, callVars, taskGroup, outcome, canc, exitCode, down>>

-----------------------------------------------------------------------------
(* Runtime shutdown: suspended tasks are dropped where they stand.         *)

Shutdown ==
  /\ ~down
  /\ down' = TRUE
  /\ UNCHANGED <<recordVars, permitVars, callVars, taskVars, canc,
                 procVars>>

(* A dropped acquire_owned leaves the queue, in which it stands at most    *)
(* once.                                                                   *)
LeaveQueue(q, r) ==
  IF \A i \in 1..Len(q) : q[i] # r
  THEN q
  ELSE LET i == CHOOSE k \in 1..Len(q) : q[k] = r
       IN  [j \in 1..(Len(q) - 1) |-> IF j < i THEN q[j] ELSE q[j + 1]]

(* The dropped future gives back its permit or its place in the queue. *)
Abandon(r) ==
  /\ down
  /\ exec[r] \in Suspended
  /\ DropLocals(r)
  /\ IF permit = r
     THEN ReleasePermit
     ELSE /\ waiters' = LeaveQueue(waiters, r)
          /\ UNCHANGED permit
  /\ exec' = [exec EXCEPT ![r] = "guard"]
  /\ UNCHANGED <<recordVars, callVars, canc, down>>

-----------------------------------------------------------------------------
(* Cancelling: BashSupervisor::cancel and RunRecord::request_cancel.       *)

(* Under the record lock: mark the run and copy its group handle, if any.  *)
(* A terminal run is reported as it is; nothing changes.                   *)
Cancel(r) ==
  /\ status[r] # "absent"
  /\ canc[r] = "idle"
  /\ ~Ended(r)
  /\ status' = [status EXCEPT ![r] = "cancelling"]
  /\ cancelRequested' = [cancelRequested EXCEPT ![r] = TRUE]
  /\ canc' = [canc EXCEPT ![r] = IF recGroup[r] THEN "signal" ELSE "idle"]
  /\ UNCHANGED <<recGroup, permitVars, callVars,
                 taskVars, procVars, down>>

(* Without the record lock: terminate the group, then drop the handle. *)
CancelSignals(r) ==
  /\ canc[r] = "signal"
  /\ canc' = [canc EXCEPT ![r] = "idle"]
  /\ LET held == recGroup[r] \/ taskGroup[r] IN
       /\ stop' = [stop EXCEPT ![r] = held]
       /\ proc' = [proc EXCEPT ![r] = Reaped(@, held)]
  /\ UNCHANGED <<recordVars, permitVars, callVars, taskVars,
                 exitCode, down>>

-----------------------------------------------------------------------------
(* The process tree.                                                       *)

(* The shell exits, with or without leaving descendants behind, or the     *)
(* last descendant exits.                                                  *)
ProcessExits(r) ==
  /\ \/ /\ proc[r] = "shell"
        /\ \E p \in {"orphans", "dead"}, c \in {"ok", "fail"} :
             /\ proc' = [proc EXCEPT ![r] = p]
             /\ exitCode' = [exitCode EXCEPT ![r] = c]
     \/ /\ proc[r] = "orphans"
        /\ proc' = [proc EXCEPT ![r] = "dead"]
        /\ UNCHANGED exitCode
  /\ UNCHANGED <<recordVars, permitVars, callVars, taskVars, canc,
                 stop, down>>

(* ProcessGroup::terminate's escalation: TERMINATE_GRACE after the stop    *)
(* request the group is killed, if a handle to it still exists.            *)
Escalate(r) ==
  /\ ~down
  /\ stop[r]
  /\ proc[r] \in LiveTree
  /\ recGroup[r] \/ taskGroup[r] \/ canc[r] = "signal"
  /\ proc' = [proc EXCEPT ![r] = "dead"]
  /\ exitCode' = [exitCode EXCEPT ![r] = IF proc[r] = "shell" THEN "fail" ELSE @]
  /\ UNCHANGED <<recordVars, permitVars, callVars, taskVars, canc,
                 stop, down>>

-----------------------------------------------------------------------------

Caller(r) ==
  \/ \E m \in {"foreground", "background"} : Start(r, m)
  \/ Queue(r) \/ Insert(r) \/ Spawn(r)
  \/ Promote(r) \/ ForegroundReply(r)

Task(r) ==
  \/ Acquire(r) \/ BeginExecute(r) \/ Launch(r) \/ LaunchFails(r)
  \/ FinalizeError(r) \/ StartProcess(r) \/ WaitResolves(r) \/ TimeoutFires(r)
  \/ StopWaitOver(r) \/ DrainOver(r) \/ FinishProcess(r) \/ Return(r)
  \/ Release(r) \/ GuardDrops(r) \/ Abandon(r)

Next ==
  \/ \E r \in Runs :
       Caller(r) \/ Task(r) \/ Cancel(r) \/ CancelSignals(r)
         \/ ProcessExits(r) \/ Escalate(r)
  \/ Shutdown

(* Every task that can move is eventually polled, every timer eventually   *)
(* fires, and a handler that has begun runs on.  Nothing makes a client    *)
(* start or cancel a run, or a process exit by itself.                     *)
Fairness ==
  \A r \in Runs :
    /\ WF_vars(Insert(r) \/ Spawn(r))
    /\ WF_vars(Task(r))
    /\ WF_vars(CancelSignals(r))
    /\ WF_vars(Escalate(r))

Spec == Init /\ [][Next]_vars
FairSpec == Spec /\ Fairness

-----------------------------------------------------------------------------
(* Properties.                                                             *)

(* "Runs execute sequentially": the shells of two runs never live at the   *)
(* same time, whatever queueing, timeouts, cancels and shutdown do.        *)
OneShell ==
  \A r, s \in Runs : proc[r] = "shell" /\ proc[s] = "shell" => r = s

(* Once the permit has passed on, nothing of a run's process tree is left, *)
(* unless a cancel request is still about to signal it, or shutdown        *)
(* dropped the task and its guard has yet to run.                          *)
NoTreeOutlivesPermit ==
  \A r \in Runs :
    proc[r] \in LiveTree =>
      permit = r \/ canc[r] = "signal" \/ (down /\ exec[r] = "guard")

(* An accepted cancel decides the end: the run never ends as succeeded or  *)
(* timed out, however the exit, the timeout and the cancel race.           *)
CancelWins ==
  \A r \in Runs :
    cancelRequested[r] => status[r] \in {"cancelling", "cancelled", "failed"}

(* A foreground caller that was told its run ended finds the run ended and *)
(* its permit free for the next command.                                   *)
FinishedReply ==
  \A r \in Runs : call[r] = "finished" => Ended(r) /\ permit # r

(* Every run that was accepted ends. *)
EveryRunEnds == \A r \in Runs : (call[r] # "none") ~> Ended(r)

(* Cancelling a run ends in its process tree being gone. *)
CancelKillsTree ==
  \A r \in Runs : cancelRequested[r] ~> (proc[r] \notin LiveTree /\ Ended(r))

(* The statuses follow the documented state machine, one run at a time. *)
ImplementsLifecycle == Lifecycle!Spec

-----------------------------------------------------------------------------
(* The inductive invariant behind the safety properties.                   *)

(* Where the task runs before and after RunRecord::start_process. *)
NotStarted == {"acquire", "waiting", "begin", "launch", "start", "error"}
Started    == {"run", "stop", "drain", "finish"}

(* The permit belongs to the task that executes or to the request that     *)
(* took it and has yet to spawn its task.                                  *)
PermitConsistent ==
  \A r \in Runs :
    /\ exec[r] \in Holding => permit = r
    /\ call[r] \in {"insert", "spawn"} /\ mode[r] # "queued" => permit = r
    /\ exec[r] = "idle" <=> call[r] \in {"none", "insert", "spawn"}

(* The record's status, read off the place of the task. *)
StatusConsistent ==
  \A r \in Runs :
    /\ status[r] = "absent" <=> call[r] \in {"none", "insert"}
    /\ exec[r] \in NotStarted \/ call[r] = "spawn" =>
         status[r] = IF cancelRequested[r] THEN "cancelling" ELSE "queued"
    /\ exec[r] \in Started =>
         status[r] = IF cancelRequested[r] THEN "cancelling" ELSE "running"
    /\ exec[r] \in {"return", "release", "done"} => Ended(r)

(* A shell lives only while its task holds the permit. *)
ShellHeld ==
  \A r \in Runs : proc[r] = "shell" => exec[r] \in Started \union {"start", "return"}

(* So does the status "running", except after shutdown, when nothing is    *)
(* launched any more.                                                      *)
RunningHeld ==
  \A r \in Runs :
    status[r] = "running" =>
      \/ exec[r] \in Started
      \/ exec[r] = "guard" /\ down /\ \A s \in Runs : exec[s] \notin {"launch", "start"}

SupervisorInv ==
  /\ TypeOK
  /\ PermitConsistent
  /\ StatusConsistent
  /\ CancelWins
  /\ ShellHeld
  /\ RunningHeld

=============================================================================
