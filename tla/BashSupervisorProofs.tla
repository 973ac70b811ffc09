------------------------ MODULE BashSupervisorProofs ------------------------
(* Proofs about the Bash supervisor, for any set of runs.                   *)
EXTENDS BashSupervisor, SequenceTheorems, TLAPS

(* A waiter that gives up leaves a queue of runs. *)
LEMMA LeaveQueueType ==
  ASSUME NEW q \in Seq(Runs), NEW r \in Runs
  PROVE  LeaveQueue(q, r) \in Seq(Runs)
<1>1. CASE \A i \in 1..Len(q) : q[i] # r
  BY <1>1 DEF LeaveQueue
<1>2. CASE ~ \A i \in 1..Len(q) : q[i] # r
  <2>. DEFINE n == CHOOSE k \in 1..Len(q) : q[k] = r
  <2>1. n \in 1..Len(q)
    BY <1>2
  <2>2. Len(q) - 1 \in Nat
    BY <2>1, LenProperties
  <2>3. \A j \in 1..(Len(q) - 1) : (IF j < n THEN q[j] ELSE q[j + 1]) \in Runs
    BY <2>1, <2>2, ElementOfSeq
  <2>4. [j \in 1..(Len(q) - 1) |-> IF j < n THEN q[j] ELSE q[j + 1]] \in Seq(Runs)
    BY <2>2, <2>3, IsASeq
  <2>. QED
    BY <1>2, <2>4 DEF LeaveQueue
<1>. QED
  BY <1>1, <1>2

(* Dropping the permit leaves it free or with a run, and a queue of runs. *)
LEMMA ReleasePermitType ==
  ASSUME waiters \in Seq(Runs), ReleasePermit
  PROVE  permit' \in Runs \union {None} /\ waiters' \in Seq(Runs)
<1>1. CASE waiters = <<>>
  BY <1>1 DEF ReleasePermit
<1>2. CASE waiters # <<>>
  BY <1>2, HeadTailProperties DEF ReleasePermit
<1>. QED
  BY <1>1, <1>2

(* RunRecord::finish either leaves the record alone or ends it, and keeps  *)
(* the record well typed.                                                  *)
LEMMA FinishEffect ==
  ASSUME TypeOK, NEW r \in Runs, NEW s \in Terminal, Finish(r, s)
  PROVE  /\ status' \in [Runs -> Lifecycle!RunStatus \union {"absent"}]
         /\ cancelRequested' = cancelRequested
         /\ recGroup' \in [Runs -> BOOLEAN]
         /\ status' = [status EXCEPT ![r] = IF CanBecome(status[r], s) THEN s ELSE @]
<1>1. CASE CanBecome(status[r], s)
  <2>1. /\ status' = [status EXCEPT ![r] = s]
        /\ recGroup' = [recGroup EXCEPT ![r] = FALSE]
        /\ cancelRequested' = cancelRequested
    BY <1>1 DEF Finish
  <2>2. s \in Lifecycle!RunStatus
    BY DEF Terminal, Lifecycle!RunStatus
  <2>. QED
    BY <1>1, <2>1, <2>2 DEF TypeOK
<1>2. CASE ~CanBecome(status[r], s)
  <2>1. UNCHANGED <<status, cancelRequested, recGroup>>
    BY <1>2 DEF Finish, recordVars
  <2>. QED
    BY <1>2, <2>1 DEF TypeOK
<1>. QED
  BY <1>1, <1>2

(* Every outcome of a process is reported as a terminal status. *)
LEMMA StatusOfTerminal == \A r \in Runs : StatusOf(r) \in Terminal
BY DEF StatusOf, Terminal, Lifecycle!Terminal


LEMMA TypeStep ==
  ASSUME TypeOK, [Next]_vars
  PROVE  TypeOK'
<1>. USE DEF TypeOK, CallStates, ExecStates, Holding, LiveTree, recordVars,
             permitVars,
             callVars, taskVars, procVars, Lifecycle!RunStatus, Lifecycle!Active,
             Lifecycle!Terminal, Terminal
<1>1. CASE UNCHANGED vars
  BY <1>1 DEF vars
<1>2. CASE Shutdown
  BY <1>2 DEF Shutdown
<1>3. ASSUME NEW r \in Runs,
             Caller(r) \/ Task(r) \/ Cancel(r) \/ CancelSignals(r)
               \/ ProcessExits(r) \/ Escalate(r)
      PROVE  TypeOK'
  <2>1. CASE \E m \in {"foreground", "background"} : Start(r, m)
    BY <2>1 DEF Start
  <2>2. CASE Queue(r)
    BY <2>2 DEF Queue
  <2>3. CASE Insert(r)
    BY <2>3 DEF Insert
  <2>4. CASE Spawn(r)
    BY <2>4 DEF Spawn
  <2>5. CASE Promote(r)
    BY <2>5 DEF Promote
  <2>6. CASE ForegroundReply(r)
    BY <2>6 DEF ForegroundReply
  <2>7. CASE Acquire(r)
    <3>1. CASE permit = None
      BY <2>7, <3>1 DEF Acquire
    <3>2. CASE permit # None
      <4>1. /\ waiters' = Append(waiters, r)
            /\ exec' = [exec EXCEPT ![r] = "waiting"]
            /\ UNCHANGED permit
        BY <2>7, <3>2 DEF Acquire
      <4>2. waiters' \in Seq(Runs)
        BY <4>1, AppendProperties
      <4>. QED
        BY <2>7, <4>1, <4>2 DEF Acquire
    <3>. QED
      BY <3>1, <3>2
  <2>8. CASE BeginExecute(r)
    <3>1. CASE cancelRequested[r]
      BY <2>8, <3>1, FinishEffect DEF BeginExecute
    <3>2. CASE ~cancelRequested[r]
      <4>1. exec' = [exec EXCEPT ![r] = "launch"] /\ UNCHANGED recordVars
        BY <2>8, <3>2 DEF BeginExecute
      <4>. QED
        BY <2>8, <4>1 DEF BeginExecute
    <3>. QED
      BY <3>1, <3>2
  <2>9. CASE Launch(r)
    BY <2>9 DEF Launch
  <2>10. CASE LaunchFails(r)
    BY <2>10 DEF LaunchFails
  <2>11. CASE FinalizeError(r)
    BY <2>11, FinishEffect DEF FinalizeError
  <2>12. CASE StartProcess(r)
    BY <2>12 DEF StartProcess
  <2>13. CASE WaitResolves(r)
    BY <2>13 DEF WaitResolves
  <2>14. CASE TimeoutFires(r)
    BY <2>14 DEF TimeoutFires
  <2>15. CASE StopWaitOver(r)
    BY <2>15 DEF StopWaitOver
  <2>16. CASE DrainOver(r)
    BY <2>16 DEF DrainOver
  <2>17. CASE FinishProcess(r)
    BY <2>17, FinishEffect, StatusOfTerminal DEF FinishProcess
  <2>18. CASE Return(r)
    BY <2>18 DEF Return, DropLocals, Reaped, ChildDropped
  <2>19. CASE Release(r)
    BY <2>19, ReleasePermitType DEF Release
  <2>20. CASE GuardDrops(r)
    BY <2>20, FinishEffect DEF GuardDrops, Reaped
  <2>21. CASE Abandon(r)
    BY <2>21, ReleasePermitType, LeaveQueueType
       DEF Abandon, DropLocals, Reaped, ChildDropped, Suspended
  <2>22. CASE Cancel(r)
    BY <2>22 DEF Cancel
  <2>23. CASE CancelSignals(r)
    BY <2>23 DEF CancelSignals, Reaped
  <2>24. CASE ProcessExits(r)
    BY <2>24 DEF ProcessExits
  <2>25. CASE Escalate(r)
    BY <2>25 DEF Escalate
  <2>. QED
    BY <1>3, <2>1, <2>2, <2>3, <2>4, <2>5, <2>6, <2>7, <2>8, <2>9, <2>10, <2>11,
       <2>12, <2>13, <2>14, <2>15, <2>16, <2>17, <2>18, <2>19, <2>20, <2>21,
       <2>22, <2>23, <2>24, <2>25
       DEF Caller, Task
<1>. QED
  BY <1>1, <1>2, <1>3 DEF Next

(* The permit stays with the task or request that took it. *)
LEMMA PermitStep ==
  ASSUME SupervisorInv, [Next]_vars
  PROVE  PermitConsistent'
<1>. USE DEF TypeOK, PermitConsistent, Holding, recordVars, permitVars,
             callVars, taskVars, procVars
<1>0. TypeOK /\ PermitConsistent
  BY DEF SupervisorInv
<1>1. CASE UNCHANGED vars
  BY <1>0, <1>1 DEF vars
<1>2. CASE Shutdown
  BY <1>0, <1>2 DEF Shutdown
<1>3. ASSUME NEW r \in Runs,
             Caller(r) \/ Task(r) \/ Cancel(r) \/ CancelSignals(r)
               \/ ProcessExits(r) \/ Escalate(r)
      PROVE  PermitConsistent'
  <2>1. CASE \E m \in {"foreground", "background"} : Start(r, m)
    BY <1>0, <2>1, NoneAssumption DEF Start
  <2>2. CASE Queue(r)
    BY <1>0, <2>2 DEF Queue
  <2>3. CASE Insert(r)
    BY <1>0, <2>3 DEF Insert
  <2>4. CASE Spawn(r)
    BY <1>0, <2>4 DEF Spawn
  <2>5. CASE Promote(r)
    BY <1>0, <2>5 DEF Promote
  <2>6. CASE ForegroundReply(r)
    BY <1>0, <2>6 DEF ForegroundReply
  <2>7. CASE Acquire(r)
    BY <1>0, <2>7, NoneAssumption DEF Acquire
  <2>8. CASE BeginExecute(r)
    BY <1>0, <2>8 DEF BeginExecute
  <2>9. CASE Launch(r)
    BY <1>0, <2>9 DEF Launch
  <2>10. CASE LaunchFails(r)
    BY <1>0, <2>10 DEF LaunchFails
  <2>11. CASE FinalizeError(r)
    BY <1>0, <2>11 DEF FinalizeError
  <2>12. CASE StartProcess(r)
    BY <1>0, <2>12 DEF StartProcess
  <2>13. CASE WaitResolves(r)
    BY <1>0, <2>13 DEF WaitResolves
  <2>14. CASE TimeoutFires(r)
    BY <1>0, <2>14 DEF TimeoutFires
  <2>15. CASE StopWaitOver(r)
    BY <1>0, <2>15 DEF StopWaitOver
  <2>16. CASE DrainOver(r)
    BY <1>0, <2>16 DEF DrainOver
  <2>17. CASE FinishProcess(r)
    BY <1>0, <2>17 DEF FinishProcess
  <2>18. CASE Return(r)
    BY <1>0, <2>18 DEF Return
  <2>19. CASE Release(r)
    BY <1>0, <2>19 DEF Release, ReleasePermit
  <2>20. CASE GuardDrops(r)
    BY <1>0, <2>20 DEF GuardDrops
  <2>21. CASE Abandon(r)
    BY <1>0, <2>21 DEF Abandon, ReleasePermit, DropLocals, Suspended
  <2>22. CASE Cancel(r)
    BY <1>0, <2>22 DEF Cancel
  <2>23. CASE CancelSignals(r)
    BY <1>0, <2>23 DEF CancelSignals
  <2>24. CASE ProcessExits(r)
    BY <1>0, <2>24 DEF ProcessExits
  <2>25. CASE Escalate(r)
    BY <1>0, <2>25 DEF Escalate
  <2>. QED
    BY <1>3, <2>1, <2>2, <2>3, <2>4, <2>5, <2>6, <2>7, <2>8, <2>9, <2>10, <2>11,
       <2>12, <2>13, <2>14, <2>15, <2>16, <2>17, <2>18, <2>19, <2>20, <2>21,
       <2>22, <2>23, <2>24, <2>25
       DEF Caller, Task
<1>. QED
  BY <1>1, <1>2, <1>3 DEF Next

(* A shell is started and lives only in a task that holds the permit. *)
LEMMA ShellStep ==
  ASSUME SupervisorInv, [Next]_vars
  PROVE  ShellHeld'
<1>. USE DEF TypeOK, ShellHeld, Started, recordVars, permitVars, callVars,
             taskVars, procVars
<1>0. TypeOK /\ ShellHeld /\ PermitConsistent
  BY DEF SupervisorInv
<1>1. CASE UNCHANGED vars
  BY <1>0, <1>1 DEF vars
<1>2. CASE Shutdown
  BY <1>0, <1>2 DEF Shutdown
<1>3. ASSUME NEW r \in Runs,
             Caller(r) \/ Task(r) \/ Cancel(r) \/ CancelSignals(r)
               \/ ProcessExits(r) \/ Escalate(r)
      PROVE  ShellHeld'
  <2>1. CASE \E m \in {"foreground", "background"} : Start(r, m)
    BY <1>0, <2>1 DEF Start
  <2>2. CASE Queue(r)
    BY <1>0, <2>2 DEF Queue
  <2>3. CASE Insert(r)
    BY <1>0, <2>3 DEF Insert
  <2>4. CASE Spawn(r)
    BY <1>0, <2>4 DEF Spawn, PermitConsistent
  <2>5. CASE Promote(r)
    BY <1>0, <2>5 DEF Promote
  <2>6. CASE ForegroundReply(r)
    BY <1>0, <2>6 DEF ForegroundReply
  <2>7. CASE Acquire(r)
    BY <1>0, <2>7 DEF Acquire
  <2>8. CASE BeginExecute(r)
    BY <1>0, <2>8 DEF BeginExecute
  <2>9. CASE Launch(r)
    BY <1>0, <2>9 DEF Launch
  <2>10. CASE LaunchFails(r)
    BY <1>0, <2>10 DEF LaunchFails
  <2>11. CASE FinalizeError(r)
    BY <1>0, <2>11 DEF FinalizeError
  <2>12. CASE StartProcess(r)
    BY <1>0, <2>12 DEF StartProcess
  <2>13. CASE WaitResolves(r)
    BY <1>0, <2>13 DEF WaitResolves
  <2>14. CASE TimeoutFires(r)
    BY <1>0, <2>14 DEF TimeoutFires
  <2>15. CASE StopWaitOver(r)
    BY <1>0, <2>15 DEF StopWaitOver
  <2>16. CASE DrainOver(r)
    BY <1>0, <2>16 DEF DrainOver
  <2>17. CASE FinishProcess(r)
    BY <1>0, <2>17 DEF FinishProcess
  <2>18. CASE Return(r)
    BY <1>0, <2>18 DEF Return, DropLocals, Reaped, ChildDropped
  <2>19. CASE Release(r)
    BY <1>0, <2>19 DEF Release
  <2>20. CASE GuardDrops(r)
    BY <1>0, <2>20 DEF GuardDrops, Reaped
  <2>21. CASE Abandon(r)
    BY <1>0, <2>21 DEF Abandon, DropLocals, Reaped, ChildDropped
  <2>22. CASE Cancel(r)
    BY <1>0, <2>22 DEF Cancel
  <2>23. CASE CancelSignals(r)
    BY <1>0, <2>23 DEF CancelSignals, Reaped
  <2>24. CASE ProcessExits(r)
    BY <1>0, <2>24 DEF ProcessExits
  <2>25. CASE Escalate(r)
    BY <1>0, <2>25 DEF Escalate
  <2>. QED
    BY <1>3, <2>1, <2>2, <2>3, <2>4, <2>5, <2>6, <2>7, <2>8, <2>9, <2>10, <2>11,
       <2>12, <2>13, <2>14, <2>15, <2>16, <2>17, <2>18, <2>19, <2>20, <2>21,
       <2>22, <2>23, <2>24, <2>25
       DEF Caller, Task
<1>. QED
  BY <1>1, <1>2, <1>3 DEF Next

(* Every task leaves the status where its next place expects it. *)
LEMMA StatusStep ==
  ASSUME SupervisorInv, [Next]_vars
  PROVE  StatusConsistent'
<1>. USE DEF TypeOK, StatusConsistent, PermitConsistent, CancelWins, NotStarted,
             Started, Ended, Terminal,
             Lifecycle!Terminal, CanBecome, Lifecycle!CanBecome, recordVars, permitVars, callVars, taskVars, procVars
<1>0. TypeOK /\ StatusConsistent /\ PermitConsistent /\ CancelWins
  BY DEF SupervisorInv
<1>1. CASE UNCHANGED vars
  BY <1>0, <1>1 DEF vars
<1>2. CASE Shutdown
  BY <1>0, <1>2 DEF Shutdown
<1>3. ASSUME NEW r \in Runs,
             Caller(r) \/ Task(r) \/ Cancel(r) \/ CancelSignals(r)
               \/ ProcessExits(r) \/ Escalate(r)
      PROVE  StatusConsistent'
  <2>1. CASE \E m \in {"foreground", "background"} : Start(r, m)
    BY <1>0, <2>1 DEF Start
  <2>2. CASE Queue(r)
    BY <1>0, <2>2 DEF Queue
  <2>3. CASE Insert(r)
    BY <1>0, <2>3 DEF Insert
  <2>4. CASE Spawn(r)
    BY <1>0, <2>4 DEF Spawn
  <2>5. CASE Promote(r)
    BY <1>0, <2>5 DEF Promote
  <2>6. CASE ForegroundReply(r)
    BY <1>0, <2>6 DEF ForegroundReply
  <2>7. CASE Acquire(r)
    BY <1>0, <2>7 DEF Acquire
  <2>8. CASE BeginExecute(r)
    BY <1>0, <2>8, FinishEffect DEF BeginExecute
  <2>9. CASE Launch(r)
    BY <1>0, <2>9 DEF Launch
  <2>10. CASE LaunchFails(r)
    BY <1>0, <2>10 DEF LaunchFails
  <2>11. CASE FinalizeError(r)
    BY <1>0, <2>11, FinishEffect DEF FinalizeError
  <2>12. CASE StartProcess(r)
    BY <1>0, <2>12 DEF StartProcess
  <2>13. CASE WaitResolves(r)
    BY <1>0, <2>13 DEF WaitResolves
  <2>14. CASE TimeoutFires(r)
    BY <1>0, <2>14 DEF TimeoutFires
  <2>15. CASE StopWaitOver(r)
    BY <1>0, <2>15 DEF StopWaitOver
  <2>16. CASE DrainOver(r)
    BY <1>0, <2>16 DEF DrainOver
  <2>17. CASE FinishProcess(r)
    BY <1>0, <2>17, FinishEffect, StatusOfTerminal DEF FinishProcess, StatusOf
  <2>18. CASE Return(r)
    BY <1>0, <2>18 DEF Return
  <2>19. CASE Release(r)
    BY <1>0, <2>19 DEF Release
  <2>20. CASE GuardDrops(r)
    BY <1>0, <2>20, FinishEffect
       DEF GuardDrops, Lifecycle!RunStatus, Lifecycle!Active
  <2>21. CASE Abandon(r)
    BY <1>0, <2>21 DEF Abandon, Suspended
  <2>22. CASE Cancel(r)
    BY <1>0, <2>22 DEF Cancel
  <2>23. CASE CancelSignals(r)
    BY <1>0, <2>23 DEF CancelSignals
  <2>24. CASE ProcessExits(r)
    BY <1>0, <2>24 DEF ProcessExits
  <2>25. CASE Escalate(r)
    BY <1>0, <2>25 DEF Escalate
  <2>. QED
    BY <1>3, <2>1, <2>2, <2>3, <2>4, <2>5, <2>6, <2>7, <2>8, <2>9, <2>10, <2>11,
       <2>12, <2>13, <2>14, <2>15, <2>16, <2>17, <2>18, <2>19, <2>20, <2>21,
       <2>22, <2>23, <2>24, <2>25
       DEF Caller, Task
<1>. QED
  BY <1>1, <1>2, <1>3 DEF Next

(* No step takes a run out of the reach of an accepted cancel. *)
LEMMA CancelStep ==
  ASSUME SupervisorInv, [Next]_vars
  PROVE  CancelWins'
<1>. USE DEF TypeOK, StatusConsistent, CancelWins, Started, Terminal,
             Lifecycle!Terminal, recordVars, permitVars, callVars, taskVars, procVars
<1>0. TypeOK /\ StatusConsistent /\ CancelWins
  BY DEF SupervisorInv
<1>1. CASE UNCHANGED vars
  BY <1>0, <1>1 DEF vars
<1>2. CASE Shutdown
  BY <1>0, <1>2 DEF Shutdown
<1>3. ASSUME NEW r \in Runs,
             Caller(r) \/ Task(r) \/ Cancel(r) \/ CancelSignals(r)
               \/ ProcessExits(r) \/ Escalate(r)
      PROVE  CancelWins'
  <2>1. CASE \E m \in {"foreground", "background"} : Start(r, m)
    BY <1>0, <2>1 DEF Start
  <2>2. CASE Queue(r)
    BY <1>0, <2>2 DEF Queue
  <2>3. CASE Insert(r)
    BY <1>0, <2>3 DEF Insert
  <2>4. CASE Spawn(r)
    BY <1>0, <2>4 DEF Spawn
  <2>5. CASE Promote(r)
    BY <1>0, <2>5 DEF Promote
  <2>6. CASE ForegroundReply(r)
    BY <1>0, <2>6 DEF ForegroundReply
  <2>7. CASE Acquire(r)
    BY <1>0, <2>7 DEF Acquire
  <2>8. CASE BeginExecute(r)
    BY <1>0, <2>8, FinishEffect DEF BeginExecute
  <2>9. CASE Launch(r)
    BY <1>0, <2>9 DEF Launch
  <2>10. CASE LaunchFails(r)
    BY <1>0, <2>10 DEF LaunchFails
  <2>11. CASE FinalizeError(r)
    BY <1>0, <2>11, FinishEffect DEF FinalizeError
  <2>12. CASE StartProcess(r)
    BY <1>0, <2>12 DEF StartProcess
  <2>13. CASE WaitResolves(r)
    BY <1>0, <2>13 DEF WaitResolves
  <2>14. CASE TimeoutFires(r)
    BY <1>0, <2>14 DEF TimeoutFires
  <2>15. CASE StopWaitOver(r)
    BY <1>0, <2>15 DEF StopWaitOver
  <2>16. CASE DrainOver(r)
    BY <1>0, <2>16 DEF DrainOver
  <2>17. CASE FinishProcess(r)
    BY <1>0, <2>17, FinishEffect, StatusOfTerminal DEF FinishProcess, StatusOf
  <2>18. CASE Return(r)
    BY <1>0, <2>18 DEF Return
  <2>19. CASE Release(r)
    BY <1>0, <2>19 DEF Release
  <2>20. CASE GuardDrops(r)
    BY <1>0, <2>20, FinishEffect DEF GuardDrops
  <2>21. CASE Abandon(r)
    BY <1>0, <2>21 DEF Abandon
  <2>22. CASE Cancel(r)
    BY <1>0, <2>22 DEF Cancel
  <2>23. CASE CancelSignals(r)
    BY <1>0, <2>23 DEF CancelSignals
  <2>24. CASE ProcessExits(r)
    BY <1>0, <2>24 DEF ProcessExits
  <2>25. CASE Escalate(r)
    BY <1>0, <2>25 DEF Escalate
  <2>. QED
    BY <1>3, <2>1, <2>2, <2>3, <2>4, <2>5, <2>6, <2>7, <2>8, <2>9, <2>10, <2>11,
       <2>12, <2>13, <2>14, <2>15, <2>16, <2>17, <2>18, <2>19, <2>20, <2>21,
       <2>22, <2>23, <2>24, <2>25
       DEF Caller, Task
<1>. QED
  BY <1>1, <1>2, <1>3 DEF Next

(* A running status stays with the holder of the permit. *)
LEMMA RunningStep ==
  ASSUME SupervisorInv, [Next]_vars
  PROVE  RunningHeld'
<1>. USE DEF TypeOK, RunningHeld, StatusConsistent, PermitConsistent, Holding,
             Started, NotStarted, Ended,
             Terminal, Lifecycle!Terminal, recordVars, permitVars, callVars, taskVars, procVars
<1>0. TypeOK /\ RunningHeld /\ StatusConsistent /\ PermitConsistent
  BY DEF SupervisorInv
<1>1. CASE UNCHANGED vars
  BY <1>0, <1>1 DEF vars
<1>2. CASE Shutdown
  BY <1>0, <1>2 DEF Shutdown
<1>3. ASSUME NEW r \in Runs,
             Caller(r) \/ Task(r) \/ Cancel(r) \/ CancelSignals(r)
               \/ ProcessExits(r) \/ Escalate(r)
      PROVE  RunningHeld'
  <2>1. CASE \E m \in {"foreground", "background"} : Start(r, m)
    BY <1>0, <2>1 DEF Start
  <2>2. CASE Queue(r)
    BY <1>0, <2>2 DEF Queue
  <2>3. CASE Insert(r)
    BY <1>0, <2>3 DEF Insert
  <2>4. CASE Spawn(r)
    BY <1>0, <2>4 DEF Spawn
  <2>5. CASE Promote(r)
    BY <1>0, <2>5 DEF Promote
  <2>6. CASE ForegroundReply(r)
    BY <1>0, <2>6 DEF ForegroundReply
  <2>7. CASE Acquire(r)
    BY <1>0, <2>7 DEF Acquire
  <2>8. CASE BeginExecute(r)
    BY <1>0, <2>8, FinishEffect DEF BeginExecute
  <2>9. CASE Launch(r)
    BY <1>0, <2>9 DEF Launch
  <2>10. CASE LaunchFails(r)
    BY <1>0, <2>10 DEF LaunchFails
  <2>11. CASE FinalizeError(r)
    BY <1>0, <2>11, FinishEffect DEF FinalizeError
  <2>12. CASE StartProcess(r)
    BY <1>0, <2>12 DEF StartProcess
  <2>13. CASE WaitResolves(r)
    BY <1>0, <2>13 DEF WaitResolves
  <2>14. CASE TimeoutFires(r)
    BY <1>0, <2>14 DEF TimeoutFires
  <2>15. CASE StopWaitOver(r)
    BY <1>0, <2>15 DEF StopWaitOver
  <2>16. CASE DrainOver(r)
    BY <1>0, <2>16 DEF DrainOver
  <2>17. CASE FinishProcess(r)
    BY <1>0, <2>17, FinishEffect, StatusOfTerminal
       DEF FinishProcess, CanBecome, Lifecycle!CanBecome
  <2>18. CASE Return(r)
    BY <1>0, <2>18 DEF Return
  <2>19. CASE Release(r)
    BY <1>0, <2>19 DEF Release
  <2>20. CASE GuardDrops(r)
    BY <1>0, <2>20, FinishEffect
       DEF GuardDrops, Lifecycle!RunStatus, Lifecycle!Active, CanBecome,
           Lifecycle!CanBecome
  <2>21. CASE Abandon(r)
    BY <1>0, <2>21 DEF Abandon, Suspended
  <2>22. CASE Cancel(r)
    BY <1>0, <2>22 DEF Cancel
  <2>23. CASE CancelSignals(r)
    BY <1>0, <2>23 DEF CancelSignals
  <2>24. CASE ProcessExits(r)
    BY <1>0, <2>24 DEF ProcessExits
  <2>25. CASE Escalate(r)
    BY <1>0, <2>25 DEF Escalate
  <2>. QED
    BY <1>3, <2>1, <2>2, <2>3, <2>4, <2>5, <2>6, <2>7, <2>8, <2>9, <2>10, <2>11,
       <2>12, <2>13, <2>14, <2>15, <2>16, <2>17, <2>18, <2>19, <2>20, <2>21,
       <2>22, <2>23, <2>24, <2>25
       DEF Caller, Task
<1>. QED
  BY <1>1, <1>2, <1>3 DEF Next

(* The invariant holds in every reachable state. *)
THEOREM Invariance == Spec => []SupervisorInv
<1>1. Init => SupervisorInv
  <2>. SUFFICES ASSUME Init PROVE SupervisorInv
    OBVIOUS
  <2>1. TypeOK
    BY EmptySeq DEF Init, TypeOK, CallStates, ExecStates, LiveTree
  <2>2. PermitConsistent /\ StatusConsistent
    BY
       DEF Init, PermitConsistent, StatusConsistent, Holding, Started,
           NotStarted
  <2>3. CancelWins /\ ShellHeld /\ RunningHeld
    BY DEF Init, CancelWins, ShellHeld, RunningHeld
  <2>. QED
    BY <2>1, <2>2, <2>3 DEF SupervisorInv
<1>2. SupervisorInv /\ [Next]_vars => SupervisorInv'
  <2>. SUFFICES ASSUME SupervisorInv, [Next]_vars
                PROVE  SupervisorInv'
    OBVIOUS
  <2>1. TypeOK'
    BY TypeStep DEF SupervisorInv
  <2>. QED
    BY <2>1, PermitStep, StatusStep, CancelStep, ShellStep, RunningStep
       DEF SupervisorInv
<1>. QED
  BY <1>1, <1>2, PTL DEF Spec

(* Every variable of the supervisor keeps its type. *)
THEOREM TypeCorrect == Spec => []TypeOK
<1>1. SupervisorInv => TypeOK
  BY DEF SupervisorInv
<1>. QED
  BY <1>1, Invariance, PTL

(* Runs execute one at a time: the permit, which every task with a live    *)
(* shell holds, has one holder.                                            *)
THEOREM OneShellAtATime == Spec => []OneShell
<1>1. SupervisorInv => OneShell
  BY DEF SupervisorInv, OneShell, ShellHeld, PermitConsistent, Started, Holding
<1>. QED
  BY <1>1, Invariance, PTL

(* An accepted cancel decides how the run ends, for any number of runs and *)
(* any interleaving of exit, timeout, cancel and shutdown.                 *)
THEOREM CancelDecides == Spec => []CancelWins
<1>1. SupervisorInv => CancelWins
  BY DEF SupervisorInv
<1>. QED
  BY <1>1, Invariance, PTL

-----------------------------------------------------------------------------
(* Process trees and the queue of the semaphore.                           *)

(* Who holds a handle to the group of a live tree: the task while it has   *)
(* the permit, the record until the run ends, or a cancel request.         *)
GroupHeld ==
  \A r \in Runs :
    /\ taskGroup[r] => exec[r] \in Started \union {"start", "return"}
    /\ exec[r] \in Started \union {"start"} => taskGroup[r]
    /\ recGroup[r] => ~Ended(r) /\ (exec[r] \in Started \/ (exec[r] = "guard" /\ down))
    /\ proc[r] \in LiveTree => taskGroup[r] \/ recGroup[r] \/ canc[r] = "signal"

(* Only waiting tasks queue, each once and without the permit.             *)
QueueKept ==
  /\ \A i \in 1..Len(waiters) : exec[waiters[i]] = "waiting" /\ permit # waiters[i]
  /\ \A i, j \in 1..Len(waiters) : i # j => waiters[i] # waiters[j]

(* Who has the permit will give it back.                                   *)
PermitUsed ==
  permit \in Runs =>
    \/ exec[permit] \in Holding \union {"waiting"}
    \/ call[permit] \in {"insert", "spawn"} /\ mode[permit] # "queued"

RepliesKept == \A r \in Runs : call[r] = "finished" => exec[r] = "done"

HandlesInv == SupervisorInv /\ GroupHeld /\ QueueKept /\ PermitUsed /\ RepliesKept

(* Ending a run that has not ended lets go of its group, a run that ended  *)
(* is left alone.                                                          *)
LEMMA FinishGroup ==
  ASSUME TypeOK, NEW r \in Runs, NEW s \in Terminal, Finish(r, s),
         status[r] # "absent", status[r] \in {"queued", "cancelling"} => s \in {"failed", "cancelled"}
  PROVE  /\ status' = [status EXCEPT ![r] = IF Ended(r) THEN @ ELSE s]
         /\ recGroup' = [recGroup EXCEPT ![r] = IF Ended(r) THEN @ ELSE FALSE]
         /\ cancelRequested' = cancelRequested
<1>. USE DEF Ended, Terminal, Lifecycle!Terminal, CanBecome, Lifecycle!CanBecome
<1>1. CASE Ended(r)
  BY <1>1 DEF Finish, recordVars, TypeOK
<1>2. CASE ~Ended(r)
  BY <1>2 DEF Finish, TypeOK, Lifecycle!RunStatus, Lifecycle!Active
<1>. QED
  BY <1>1, <1>2

(* A live tree never loses its last handle.                                *)
LEMMA GroupStep ==
  ASSUME HandlesInv, [Next]_vars
  PROVE  GroupHeld'
<1>. USE DEF TypeOK, GroupHeld, Started, NotStarted, LiveTree, Ended, Terminal,
             Lifecycle!Terminal, recordVars, permitVars, callVars,
             taskVars, procVars
<1>0. TypeOK /\ GroupHeld /\ StatusConsistent /\ PermitConsistent
  BY DEF HandlesInv, SupervisorInv
<1>1. CASE UNCHANGED vars
  BY <1>0, <1>1 DEF vars
<1>2. CASE Shutdown
  BY <1>0, <1>2 DEF Shutdown
<1>3. ASSUME NEW r \in Runs,
             Caller(r) \/ Task(r) \/ Cancel(r) \/ CancelSignals(r)
               \/ ProcessExits(r) \/ Escalate(r)
      PROVE  GroupHeld'
  <2>1. CASE \E m \in {"foreground", "background"} : Start(r, m)
    BY <1>0, <2>1, NoneAssumption DEF Start
  <2>2. CASE Queue(r)
    BY <1>0, <2>2 DEF Queue
  <2>3. CASE Insert(r)
    BY <1>0, <2>3 DEF Insert, StatusConsistent, PermitConsistent
  <2>4. CASE Spawn(r)
    BY <1>0, <2>4 DEF Spawn, PermitConsistent, StatusConsistent
  <2>5. CASE Promote(r)
    BY <1>0, <2>5 DEF Promote
  <2>6. CASE ForegroundReply(r)
    BY <1>0, <2>6 DEF ForegroundReply
  <2>7. CASE Acquire(r)
    BY <1>0, <2>7 DEF Acquire
  <2>8. CASE BeginExecute(r)
    <3>1. /\ exec[r] \in NotStarted /\ UNCHANGED <<taskGroup, canc, proc, down>>
          /\ exec' = [exec EXCEPT ![r] = IF cancelRequested[r] THEN "return" ELSE "launch"]
      BY <1>0, <2>8 DEF BeginExecute
    <3>2. ~recGroup[r]
      BY <1>0, <3>1
    <3>3. CASE cancelRequested[r]
      <4>1. Finish(r, "cancelled") /\ status[r] = "cancelling"
        BY <1>0, <2>8, <3>1, <3>3 DEF BeginExecute, StatusConsistent
      <4>2. "cancelled" \in Terminal
        OBVIOUS
      <4>3. /\ status' = [status EXCEPT ![r] = "cancelled"]
            /\ recGroup' = [recGroup EXCEPT ![r] = FALSE]
        BY <1>0, <4>1, <4>2, FinishGroup
      <4>4. \A q \in Runs : q # r => (Ended(q)' <=> Ended(q)) /\ recGroup'[q] = recGroup[q]
        BY <1>0, <4>3
      <4>5. exec'[r] = "return" /\ ~recGroup'[r] /\ \A q \in Runs : q # r => exec'[q] = exec[q]
        BY <1>0, <3>1, <3>3, <4>3
      <4>. QED
        BY <1>0, <3>1, <4>4, <4>5
    <3>4. CASE ~cancelRequested[r]
      BY <1>0, <2>8, <3>1, <3>2, <3>4 DEF BeginExecute
    <3>. QED
      BY <3>3, <3>4
  <2>9. CASE Launch(r)
    BY <1>0, <2>9 DEF Launch
  <2>10. CASE LaunchFails(r)
    BY <1>0, <2>10 DEF LaunchFails
  <2>11. CASE FinalizeError(r)
    <3>1. /\ exec[r] = "error" /\ UNCHANGED <<taskGroup, canc, proc, down>>
          /\ exec' = [exec EXCEPT ![r] = "return"] /\ Finish(r, "failed")
      BY <2>11 DEF FinalizeError
    <3>2. status[r] \in {"queued", "cancelling"} /\ "failed" \in Terminal
      BY <1>0, <3>1 DEF StatusConsistent
    <3>3. /\ status' = [status EXCEPT ![r] = "failed"]
          /\ recGroup' = [recGroup EXCEPT ![r] = FALSE]
      BY <1>0, <3>1, <3>2, FinishGroup
    <3>. QED
      BY <1>0, <3>1, <3>3
  <2>12. CASE StartProcess(r)
    BY <1>0, <2>12 DEF StartProcess, StatusConsistent
  <2>13. CASE WaitResolves(r)
    BY <1>0, <2>13 DEF WaitResolves
  <2>14. CASE TimeoutFires(r)
    BY <1>0, <2>14 DEF TimeoutFires
  <2>15. CASE StopWaitOver(r)
    BY <1>0, <2>15 DEF StopWaitOver
  <2>16. CASE DrainOver(r)
    BY <1>0, <2>16 DEF DrainOver
  <2>17. CASE FinishProcess(r)
    <3>1. /\ exec[r] = "finish" /\ UNCHANGED <<taskGroup, canc, proc, down>>
          /\ exec' = [exec EXCEPT ![r] = "return"] /\ Finish(r, StatusOf(r))
      BY <2>17 DEF FinishProcess
    <3>2. status[r] = IF cancelRequested[r] THEN "cancelling" ELSE "running"
      BY <1>0, <3>1 DEF StatusConsistent
    <3>3. cancelRequested[r] => StatusOf(r) \in {"failed", "cancelled"}
      BY DEF StatusOf
    <3>4. /\ StatusOf(r) \in Terminal /\ status[r] # "absent"
          /\ ~Ended(r) /\ ~CanBecome("absent", StatusOf(r))
      BY <3>2, StatusOfTerminal DEF CanBecome, Lifecycle!CanBecome
    <3>5. CanBecome(status[r], StatusOf(r))
      BY <3>2, <3>3, <3>4 DEF CanBecome, Lifecycle!CanBecome
    <3>6. /\ status' = [status EXCEPT ![r] = StatusOf(r)]
          /\ recGroup' = [recGroup EXCEPT ![r] = FALSE]
      BY <3>1, <3>5, Zenon DEF Finish
    <3>7. \A q \in Runs : q # r => (Ended(q)' <=> Ended(q)) /\ recGroup'[q] = recGroup[q]
      BY <1>0, <3>6
    <3>8. exec'[r] = "return" /\ ~recGroup'[r] /\ \A q \in Runs : q # r => exec'[q] = exec[q]
      BY <1>0, <3>1, <3>6
    <3>. QED
      BY <1>0, <3>1, <3>7, <3>8
  <2>18. CASE Return(r)
    BY <1>0, <2>18 DEF Return, DropLocals, Reaped, ChildDropped, StatusConsistent
  <2>19. CASE Release(r)
    BY <1>0, <2>19 DEF Release, StatusConsistent
  <2>20. CASE GuardDrops(r)
    <3>1. /\ exec[r] = "guard" /\ UNCHANGED <<taskGroup, canc, down>>
          /\ exec' = [exec EXCEPT ![r] = "done"] /\ Finish(r, "cancelled")
          /\ proc' = [proc EXCEPT ![r] = Reaped(@, recGroup'[r] \/ canc[r] = "signal")]
      BY <2>20 DEF GuardDrops
    <3>2. status[r] # "absent" /\ "cancelled" \in Terminal
      BY <1>0, <3>1 DEF StatusConsistent, PermitConsistent
    <3>3. /\ status' = [status EXCEPT ![r] = IF Ended(r) THEN @ ELSE "cancelled"]
          /\ recGroup' = [recGroup EXCEPT ![r] = IF Ended(r) THEN @ ELSE FALSE]
      BY <1>0, <3>1, <3>2, FinishGroup
    <3>4. ~recGroup'[r] /\ \A s \in Runs : s # r => recGroup'[s] = recGroup[s]
      BY <1>0, <3>3
    <3>5. \A s \in Runs : s # r => status'[s] = status[s]
      BY <1>0, <3>3
    <3>6. ~taskGroup[r]
      BY <1>0, <3>1
    <3>. QED
      BY <1>0, <3>1, <3>4, <3>5, <3>6 DEF Reaped
  <2>21. CASE Abandon(r)
    BY <1>0, <2>21 DEF Abandon, DropLocals, Reaped, ChildDropped, Suspended
  <2>22. CASE Cancel(r)
    BY <1>0, <2>22 DEF Cancel
  <2>23. CASE CancelSignals(r)
    BY <1>0, <2>23 DEF CancelSignals, Reaped
  <2>24. CASE ProcessExits(r)
    BY <1>0, <2>24 DEF ProcessExits
  <2>25. CASE Escalate(r)
    BY <1>0, <2>25 DEF Escalate
  <2>. QED
    BY <1>3, <2>1, <2>2, <2>3, <2>4, <2>5, <2>6, <2>7, <2>8, <2>9, <2>10, <2>11,
       <2>12, <2>13, <2>14, <2>15, <2>16, <2>17, <2>18, <2>19, <2>20, <2>21,
       <2>22, <2>23, <2>24, <2>25
       DEF Caller, Task
<1>. QED
  BY <1>1, <1>2, <1>3 DEF Next

(* The queue without one of its runs.                                      *)
LEMMA LeaveQueueKeeps ==
  ASSUME NEW q \in Seq(Runs), NEW r \in Runs,
         \A i, j \in 1..Len(q) : i # j => q[i] # q[j]
  PROVE  LET l == LeaveQueue(q, r) IN
         /\ \A i \in 1..Len(l) : l[i] # r /\ \E k \in 1..Len(q) : l[i] = q[k]
         /\ \A i, j \in 1..Len(l) : i # j => l[i] # l[j]
<1>1. CASE \A i \in 1..Len(q) : q[i] # r
  BY <1>1 DEF LeaveQueue
<1>2. CASE ~ \A i \in 1..Len(q) : q[i] # r
  <2>. DEFINE n == CHOOSE k \in 1..Len(q) : q[k] = r
              l == [j \in 1..(Len(q) - 1) |-> IF j < n THEN q[j] ELSE q[j + 1]]
  <2>1. n \in 1..Len(q) /\ q[n] = r
    BY <1>2
  <2>2. l = LeaveQueue(q, r)
    BY <1>2 DEF LeaveQueue
  <2>3. Len(q) \in Nat /\ Len(q) - 1 \in Nat
    BY <2>1, LenProperties
  <2>. HIDE DEF n
  <2>4. Len(l) = Len(q) - 1
    BY <2>3
  <2>5. \A i \in 1..Len(l) : l[i] = IF i < n THEN q[i] ELSE q[i + 1]
    BY <2>4
  <2>. HIDE DEF l
  <2>6. \A i \in 1..Len(l) : i \in 1..Len(q) /\ i + 1 \in 1..Len(q)
    BY <2>3, <2>4
  <2>7. \A i \in 1..Len(l) : l[i] # r /\ \E k \in 1..Len(q) : l[i] = q[k]
    BY <2>1, <2>5, <2>6
  <2>8. \A i, j \in 1..Len(l) : i # j => l[i] # l[j]
    BY <2>1, <2>3, <2>5, <2>6
  <2>. QED
    BY <2>2, <2>7, <2>8
<1>. QED
  BY <1>1, <1>2

(* A permit that is given back goes to the run that has waited longest.    *)
LEMMA ReleaseKeeps ==
  ASSUME TypeOK, QueueKept, ReleasePermit
  PROVE  /\ \/ permit' = None /\ waiters' = <<>>
            \/ permit' \in Runs /\ exec[permit'] = "waiting" /\ permit' # permit
         /\ \A i \in 1..Len(waiters') :
              permit' # waiters'[i] /\ \E k \in 1..Len(waiters) : waiters'[i] = waiters[k]
         /\ \A i, j \in 1..Len(waiters') : i # j => waiters'[i] # waiters'[j]
<1>1. CASE waiters = <<>>
  BY <1>1 DEF ReleasePermit
<1>2. CASE waiters # <<>>
  <2>1. permit' = Head(waiters) /\ waiters' = Tail(waiters)
    BY <1>2 DEF ReleasePermit
  <2>2. /\ waiters \in Seq(Runs) /\ Len(waiters) \in Nat \ {0} /\ Head(waiters) = waiters[1]
        /\ waiters[1] \in Runs
        /\ Len(Tail(waiters)) = Len(waiters) - 1
        /\ \A i \in 1..Len(Tail(waiters)) : Tail(waiters)[i] = waiters[i + 1]
    BY <1>2 DEF TypeOK
  <2>3. \A i \in 1..Len(waiters') : i + 1 \in 1..Len(waiters) /\ i + 1 # 1
    BY <2>1, <2>2
  <2>4. 1 \in 1..Len(waiters)
    BY <2>2
  <2>5. permit' \in Runs /\ exec[permit'] = "waiting" /\ permit' # permit
    BY <2>1, <2>2, <2>4 DEF QueueKept
  <2>6. \A i \in 1..Len(waiters') :
          permit' # waiters'[i] /\ \E k \in 1..Len(waiters) : waiters'[i] = waiters[k]
    BY <2>1, <2>2, <2>3, <2>4 DEF QueueKept
  <2>7. ASSUME NEW i \in 1..Len(waiters'), NEW j \in 1..Len(waiters'), i # j
        PROVE  waiters'[i] # waiters'[j]
    <3>1. i + 1 # j + 1
      BY <2>7
    <3>. QED
      BY <2>1, <2>2, <2>3, <3>1 DEF QueueKept
  <2>. QED
    BY <2>5, <2>6, <2>7
<1>. QED
  BY <1>1, <1>2

(* Queue and permit: only waiting tasks queue, and the holder gives back.  *)
LEMMA QueueStep ==
  ASSUME HandlesInv, [Next]_vars
  PROVE  (QueueKept /\ PermitUsed)'
<1>. USE DEF TypeOK, QueueKept, PermitUsed, Holding, recordVars, permitVars, callVars,
             taskVars, procVars
<1>0. TypeOK /\ QueueKept /\ PermitUsed /\ PermitConsistent
  BY DEF HandlesInv, SupervisorInv
<1>1. CASE UNCHANGED vars
  BY <1>0, <1>1 DEF vars
<1>2. CASE Shutdown
  BY <1>0, <1>2 DEF Shutdown
<1>3. ASSUME NEW r \in Runs,
             Caller(r) \/ Task(r) \/ Cancel(r) \/ CancelSignals(r)
               \/ ProcessExits(r) \/ Escalate(r)
      PROVE  (QueueKept /\ PermitUsed)'
  <2>1. CASE \E m \in {"foreground", "background"} : Start(r, m)
    <3>1. PICK m \in {"foreground", "background"} : Start(r, m)
      BY <2>1
    <3>2. /\ permit = None /\ permit' = r /\ UNCHANGED <<waiters, exec>>
          /\ call[r] = "none" /\ call'[r] = "insert" /\ mode'[r] = m
      BY <1>0, <3>1 DEF Start
    <3>3. \A i \in 1..Len(waiters) : waiters[i] # r
      BY <1>0, <3>2 DEF PermitConsistent
    <3>. QED
      BY <1>0, <3>2, <3>3
  <2>2. CASE Queue(r)
    BY <1>0, <2>2 DEF Queue, PermitConsistent
  <2>3. CASE Insert(r)
    BY <1>0, <2>3 DEF Insert
  <2>4. CASE Spawn(r)
    BY <1>0, <2>4 DEF Spawn, PermitConsistent
  <2>5. CASE Promote(r)
    BY <1>0, <2>5 DEF Promote
  <2>6. CASE ForegroundReply(r)
    BY <1>0, <2>6 DEF ForegroundReply
  <2>7. CASE Acquire(r)
    <3>1. /\ exec[r] = "acquire" /\ UNCHANGED <<call, mode>>
      BY <2>7 DEF Acquire
    <3>2. CASE permit = None
      BY <1>0, <2>7, <3>1, <3>2, NoneAssumption DEF Acquire
    <3>3. CASE permit # None
      <4>1. /\ waiters' = Append(waiters, r) /\ permit' = permit
            /\ exec' = [exec EXCEPT ![r] = "waiting"]
        BY <2>7, <3>3 DEF Acquire
      <4>2. /\ Len(waiters) \in Nat /\ Len(waiters') = Len(waiters) + 1
            /\ waiters'[Len(waiters) + 1] = r
            /\ \A i \in 1..Len(waiters) : waiters'[i] = waiters[i] /\ waiters[i] \in Runs
        BY <1>0, <4>1
      <4>3. \A i \in 1..Len(waiters') : i \in 1..Len(waiters) \/ i = Len(waiters) + 1
        BY <4>2
      <4>4. permit # r /\ \A i \in 1..Len(waiters) : waiters[i] # r
        BY <1>0, <3>1 DEF PermitConsistent
      <4>5. ASSUME NEW i \in 1..Len(waiters')
            PROVE  exec'[waiters'[i]] = "waiting" /\ permit' # waiters'[i]
        <5>1. CASE i \in 1..Len(waiters)
          <6>1. /\ exec[waiters[i]] = "waiting" /\ permit # waiters[i]
                /\ waiters[i] # r /\ waiters[i] \in Runs /\ waiters'[i] = waiters[i]
            BY <1>0, <4>2, <4>4, <5>1
          <6>. QED
            BY <1>0, <4>1, <6>1
        <5>2. CASE i = Len(waiters) + 1
          BY <1>0, <4>1, <4>2, <4>4, <5>2
        <5>. QED
          BY <4>3, <5>1, <5>2
      <4>6. ASSUME NEW i \in 1..Len(waiters'), NEW j \in 1..Len(waiters'), i # j
            PROVE  waiters'[i] # waiters'[j]
        <5>1. CASE i \in 1..Len(waiters) /\ j \in 1..Len(waiters)
          <6>1. waiters[i] # waiters[j]
            BY <1>0, <4>6, <5>1
          <6>. QED
            BY <4>2, <5>1, <6>1
        <5>2. CASE i = Len(waiters) + 1 /\ j \in 1..Len(waiters)
          BY <4>2, <4>4, <5>2
        <5>3. CASE i \in 1..Len(waiters) /\ j = Len(waiters) + 1
          BY <4>2, <4>4, <5>3
        <5>. QED
          BY <4>3, <4>6, <5>1, <5>2, <5>3
      <4>. QED
        BY <1>0, <3>1, <4>1, <4>5, <4>6
    <3>. QED
      BY <3>2, <3>3
  <2>8. CASE BeginExecute(r)
    BY <1>0, <2>8 DEF BeginExecute
  <2>9. CASE Launch(r)
    BY <1>0, <2>9 DEF Launch
  <2>10. CASE LaunchFails(r)
    BY <1>0, <2>10 DEF LaunchFails
  <2>11. CASE FinalizeError(r)
    BY <1>0, <2>11 DEF FinalizeError
  <2>12. CASE StartProcess(r)
    BY <1>0, <2>12 DEF StartProcess
  <2>13. CASE WaitResolves(r)
    BY <1>0, <2>13 DEF WaitResolves
  <2>14. CASE TimeoutFires(r)
    BY <1>0, <2>14 DEF TimeoutFires
  <2>15. CASE StopWaitOver(r)
    BY <1>0, <2>15 DEF StopWaitOver
  <2>16. CASE DrainOver(r)
    BY <1>0, <2>16 DEF DrainOver
  <2>17. CASE FinishProcess(r)
    BY <1>0, <2>17 DEF FinishProcess
  <2>18. CASE Return(r)
    BY <1>0, <2>18 DEF Return
  <2>19. CASE Release(r)
    <3>1. permit = r /\ exec[r] = "release"
      BY <1>0, <2>19 DEF Release, PermitConsistent
    <3>2. /\ exec' = [exec EXCEPT ![r] = "guard"] /\ UNCHANGED <<call, mode>>
          /\ ReleasePermit
      BY <2>19 DEF Release
    <3>3. \A i \in 1..Len(waiters) : waiters[i] \in Runs /\ waiters[i] # r
      BY <1>0, <3>1
    <3>4. QueueKept'
      BY <1>0, <3>2, <3>3, ReleaseKeeps
    <3>5. PermitUsed'
      BY <1>0, <3>1, <3>2, ReleaseKeeps, NoneAssumption
    <3>. QED
      BY <3>4, <3>5
  <2>20. CASE GuardDrops(r)
    BY <1>0, <2>20 DEF GuardDrops
  <2>21. CASE Abandon(r)
    <3>1. /\ exec[r] \in Suspended /\ exec' = [exec EXCEPT ![r] = "guard"]
          /\ UNCHANGED <<call, mode>>
      BY <2>21 DEF Abandon
    <3>2. CASE permit = r
      <4>1. ReleasePermit
        BY <2>21, <3>2 DEF Abandon
      <4>. QED
        BY <1>0, <3>1, <3>2, <4>1, ReleaseKeeps, NoneAssumption
    <3>3. CASE permit # r
      <4>1. waiters' = LeaveQueue(waiters, r) /\ permit' = permit
        BY <2>21, <3>3 DEF Abandon
      <4>2. QueueKept'
        <5>. DEFINE l == LeaveQueue(waiters, r)
        <5>1. /\ \A i \in 1..Len(l) : l[i] # r /\ \E k \in 1..Len(waiters) : l[i] = waiters[k]
              /\ \A i, j \in 1..Len(l) : i # j => l[i] # l[j]
          <6>1. waiters \in Seq(Runs) /\ \A i, j \in 1..Len(waiters) : i # j => waiters[i] # waiters[j]
            BY <1>0
          <6>. QED
            BY ONLY <6>1, LeaveQueueKeeps, r \in Runs
        <5>2. waiters' = l
          BY <4>1
        <5>. HIDE DEF l
        <5>3. \A i \in 1..Len(waiters) : waiters[i] \in Runs
          BY <1>0
        <5>4. ASSUME NEW i \in 1..Len(l)
              PROVE  exec'[l[i]] = "waiting" /\ permit' # l[i]
          <6>1. PICK k \in 1..Len(waiters) : l[i] = waiters[k]
            BY <5>1
          <6>2. exec[waiters[k]] = "waiting" /\ permit # waiters[k] /\ waiters[k] \in Runs
            BY <1>0, <5>3
          <6>. QED
            BY <1>0, <3>1, <4>1, <5>1, <6>1, <6>2
        <5>. QED
          BY <5>1, <5>2, <5>4
      <4>3. PermitUsed'
        BY <1>0, <3>1, <3>3, <4>1
      <4>. QED
        BY <4>2, <4>3
    <3>. QED
      BY <3>2, <3>3
  <2>22. CASE Cancel(r)
    BY <1>0, <2>22 DEF Cancel
  <2>23. CASE CancelSignals(r)
    BY <1>0, <2>23 DEF CancelSignals
  <2>24. CASE ProcessExits(r)
    BY <1>0, <2>24 DEF ProcessExits
  <2>25. CASE Escalate(r)
    BY <1>0, <2>25 DEF Escalate
  <2>. QED
    BY <1>3, <2>1, <2>2, <2>3, <2>4, <2>5, <2>6, <2>7, <2>8, <2>9, <2>10, <2>11,
       <2>12, <2>13, <2>14, <2>15, <2>16, <2>17, <2>18, <2>19, <2>20, <2>21,
       <2>22, <2>23, <2>24, <2>25
       DEF Caller, Task
<1>. QED
  BY <1>1, <1>2, <1>3 DEF Next

(* A request is answered as finished when its task is done.               *)
LEMMA ReplyStep ==
  ASSUME HandlesInv, [Next]_vars
  PROVE  RepliesKept'
<1>. USE DEF TypeOK, RepliesKept, recordVars, permitVars, callVars,
             taskVars, procVars
<1>0. TypeOK /\ RepliesKept /\ PermitConsistent
  BY DEF HandlesInv, SupervisorInv
<1>1. CASE UNCHANGED vars
  BY <1>0, <1>1 DEF vars
<1>2. CASE Shutdown
  BY <1>0, <1>2 DEF Shutdown
<1>3. ASSUME NEW r \in Runs,
             Caller(r) \/ Task(r) \/ Cancel(r) \/ CancelSignals(r)
               \/ ProcessExits(r) \/ Escalate(r)
      PROVE  RepliesKept'
  <2>1. CASE \E m \in {"foreground", "background"} : Start(r, m)
    BY <1>0, <2>1, NoneAssumption DEF Start
  <2>2. CASE Queue(r)
    BY <1>0, <2>2 DEF Queue
  <2>3. CASE Insert(r)
    BY <1>0, <2>3 DEF Insert
  <2>4. CASE Spawn(r)
    BY <1>0, <2>4 DEF Spawn, PermitConsistent
  <2>5. CASE Promote(r)
    BY <1>0, <2>5 DEF Promote
  <2>6. CASE ForegroundReply(r)
    BY <1>0, <2>6 DEF ForegroundReply
  <2>7. CASE Acquire(r)
    BY <1>0, <2>7 DEF Acquire
  <2>8. CASE BeginExecute(r)
    BY <1>0, <2>8 DEF BeginExecute
  <2>9. CASE Launch(r)
    BY <1>0, <2>9 DEF Launch
  <2>10. CASE LaunchFails(r)
    BY <1>0, <2>10 DEF LaunchFails
  <2>11. CASE FinalizeError(r)
    BY <1>0, <2>11 DEF FinalizeError
  <2>12. CASE StartProcess(r)
    BY <1>0, <2>12 DEF StartProcess
  <2>13. CASE WaitResolves(r)
    BY <1>0, <2>13 DEF WaitResolves
  <2>14. CASE TimeoutFires(r)
    BY <1>0, <2>14 DEF TimeoutFires
  <2>15. CASE StopWaitOver(r)
    BY <1>0, <2>15 DEF StopWaitOver
  <2>16. CASE DrainOver(r)
    BY <1>0, <2>16 DEF DrainOver
  <2>17. CASE FinishProcess(r)
    BY <1>0, <2>17 DEF FinishProcess
  <2>18. CASE Return(r)
    BY <1>0, <2>18 DEF Return
  <2>19. CASE Release(r)
    BY <1>0, <2>19 DEF Release
  <2>20. CASE GuardDrops(r)
    BY <1>0, <2>20 DEF GuardDrops
  <2>21. CASE Abandon(r)
    BY <1>0, <2>21 DEF Abandon, Suspended
  <2>22. CASE Cancel(r)
    BY <1>0, <2>22 DEF Cancel
  <2>23. CASE CancelSignals(r)
    BY <1>0, <2>23 DEF CancelSignals
  <2>24. CASE ProcessExits(r)
    BY <1>0, <2>24 DEF ProcessExits
  <2>25. CASE Escalate(r)
    BY <1>0, <2>25 DEF Escalate
  <2>. QED
    BY <1>3, <2>1, <2>2, <2>3, <2>4, <2>5, <2>6, <2>7, <2>8, <2>9, <2>10, <2>11,
       <2>12, <2>13, <2>14, <2>15, <2>16, <2>17, <2>18, <2>19, <2>20, <2>21,
       <2>22, <2>23, <2>24, <2>25
       DEF Caller, Task
<1>. QED
  BY <1>1, <1>2, <1>3 DEF Next

LEMMA HandlesInvariance == Spec => []HandlesInv
<1>1. Init => GroupHeld /\ QueueKept /\ PermitUsed /\ RepliesKept
  BY NoneAssumption DEF Init, GroupHeld, QueueKept, PermitUsed, RepliesKept, LiveTree,
     Started
<1>2. HandlesInv /\ [Next]_vars
        => GroupHeld' /\ QueueKept' /\ PermitUsed' /\ RepliesKept'
  BY GroupStep, QueueStep, ReplyStep
<1>. QED
  BY <1>1, <1>2, Invariance, PTL DEF Spec, HandlesInv

(* Nothing of a process tree outlives its permit, for any number of runs:  *)
(* a live tree has a handle, and the task, the record or a cancel request  *)
(* that holds it is where the property allows it.                          *)
THEOREM TreeDiesWithPermit == Spec => []NoTreeOutlivesPermit
<1>1. HandlesInv => NoTreeOutlivesPermit
  BY DEF HandlesInv, SupervisorInv, NoTreeOutlivesPermit, GroupHeld, PermitConsistent, Holding,
         Started
<1>. QED
  BY <1>1, HandlesInvariance, PTL

(* A foreground caller that was told its run ended finds it ended and its  *)
(* permit given back (bash.rs start): nobody hands a permit to a task that *)
(* is done.                                                                *)
THEOREM FinishedIsFinal == Spec => []FinishedReply
<1>1. HandlesInv => FinishedReply
  BY DEF HandlesInv, SupervisorInv, FinishedReply, RepliesKept, PermitUsed, StatusConsistent,
         PermitConsistent, Holding
<1>. QED
  BY <1>1, HandlesInvariance, PTL

-----------------------------------------------------------------------------
(* What a step of the supervisor does to the statuses is a step of the     *)
(* abstract life cycle or nothing.                                         *)
LEMMA LifecycleStep ==
  ASSUME SupervisorInv, [Next]_vars
  PROVE  [Lifecycle!Next]_status
<1>. USE DEF SupervisorInv, recordVars
<1>1. CASE UNCHANGED vars
  BY <1>1 DEF vars
<1>2. CASE Shutdown
  BY <1>2 DEF Shutdown
<1>3. ASSUME NEW r \in Runs, NEW s \in Terminal, Finish(r, s)
      PROVE  [Lifecycle!Next]_status
  <2>1. CASE CanBecome(status[r], s)
    <3>1. status' = [status EXCEPT ![r] = s]
      BY <1>3, <2>1 DEF Finish
    <3>2. Lifecycle!End(r)
      BY <2>1, <3>1 DEF Lifecycle!End, Terminal, CanBecome
    <3>. QED
      BY <3>2 DEF Lifecycle!Next
  <2>2. CASE ~CanBecome(status[r], s)
    BY <1>3, <2>2 DEF Finish
  <2>. QED
    BY <2>1, <2>2
<1>4. {"cancelled", "failed"} \subseteq Terminal
  BY DEF Terminal, Lifecycle!Terminal
<1>5. ASSUME NEW r \in Runs,
             Caller(r) \/ Task(r) \/ Cancel(r) \/ CancelSignals(r)
               \/ ProcessExits(r) \/ Escalate(r)
      PROVE  [Lifecycle!Next]_status
  <2>1. CASE \E m \in {"foreground", "background"} : Start(r, m)
    BY <2>1 DEF Start
  <2>2. CASE Queue(r) \/ Spawn(r) \/ Promote(r) \/ ForegroundReply(r)
    BY <2>2 DEF Queue, Spawn, Promote, ForegroundReply
  <2>3. CASE Insert(r)
    <3>1. Lifecycle!Create(r)
      BY <2>3 DEF Insert, StatusConsistent, Lifecycle!Create
    <3>. QED
      BY <3>1 DEF Lifecycle!Next
  <2>4. CASE StartProcess(r)
    <3>1. CASE cancelRequested[r]
      BY <2>4, <3>1 DEF StartProcess, TypeOK
    <3>2. CASE ~cancelRequested[r]
      <4>1. status' = [status EXCEPT ![r] = "running"] /\ exec[r] = "start"
        BY <2>4, <3>2 DEF StartProcess
      <4>2. status[r] = "queued"
        BY <3>2, <4>1 DEF StatusConsistent, NotStarted
      <4>3. permit = r
        BY <4>1 DEF PermitConsistent, Holding
      <4>4. \A s \in Runs : status[s] # "running"
        BY <4>1, <4>2, <4>3 DEF RunningHeld, PermitConsistent, Holding, Started
      <4>5. Lifecycle!Begin(r)
        BY <4>1, <4>2, <4>4 DEF Lifecycle!Begin, Lifecycle!CanBecome
      <4>. QED
        BY <4>5 DEF Lifecycle!Next
    <3>. QED
      BY <3>1, <3>2
  <2>5. CASE BeginExecute(r)
    BY <2>5, <1>3, <1>4 DEF BeginExecute
  <2>6. CASE FinalizeError(r)
    BY <2>6, <1>3, <1>4 DEF FinalizeError
  <2>7. CASE FinishProcess(r)
    BY <2>7, <1>3, StatusOfTerminal DEF FinishProcess
  <2>8. CASE GuardDrops(r)
    BY <2>8, <1>3, <1>4 DEF GuardDrops
  <2>9. CASE Acquire(r) \/ Launch(r) \/ LaunchFails(r) \/ WaitResolves(r)
               \/ TimeoutFires(r) \/ StopWaitOver(r) \/ DrainOver(r)
    BY <2>9 DEF Acquire, Launch, LaunchFails, WaitResolves, TimeoutFires,
                StopWaitOver, DrainOver
  <2>10. CASE Return(r) \/ Release(r) \/ Abandon(r)
    BY <2>10 DEF Return, Release, Abandon
  <2>11. CASE Cancel(r)
    <3>1. status' = [status EXCEPT ![r] = "cancelling"]
      BY <2>11 DEF Cancel
    <3>2. status[r] \in {"queued", "running", "cancelling"}
      BY <2>11
         DEF Cancel, Ended, Terminal, TypeOK, Lifecycle!RunStatus,
             Lifecycle!Active
    <3>3. CASE status[r] = "cancelling"
      BY <3>1, <3>3 DEF TypeOK
    <3>4. CASE status[r] # "cancelling"
      <4>1. Lifecycle!RequestCancel(r)
        BY <3>1, <3>2, <3>4 DEF Lifecycle!RequestCancel, Lifecycle!CanBecome
      <4>. QED
        BY <4>1 DEF Lifecycle!Next
    <3>. QED
      BY <3>3, <3>4
  <2>12. CASE CancelSignals(r) \/ ProcessExits(r) \/ Escalate(r)
    BY <2>12 DEF CancelSignals, ProcessExits, Escalate
  <2>. QED
    BY <1>5, <2>1, <2>2, <2>3, <2>4, <2>5, <2>6, <2>7, <2>8, <2>9, <2>10, <2>11,
       <2>12
       DEF Caller, Task
<1>. QED
  BY <1>1, <1>2, <1>5 DEF Next

(* The supervisor implements the life cycle drawn in lifecycle.rs: a run   *)
(* starts only while no other is running, and a terminal status stays.     *)
THEOREM Refinement == Spec => ImplementsLifecycle
<1>1. Init => Lifecycle!Init
  BY DEF Init, Lifecycle!Init
<1>2. SupervisorInv /\ [Next]_vars => [Lifecycle!Next]_status
  BY LifecycleStep
<1>. QED
  BY <1>1, <1>2, Invariance, PTL DEF Spec, ImplementsLifecycle, Lifecycle!Spec

=============================================================================
