-------------------------- MODULE ReconciledProofs --------------------------
(* Proofs about the reconciled state, for any set of clients, paths and     *)
(* contents and any bounds.                                                 *)
EXTENDS ReconciledState, TLAPS

(* What `git status` answers is a status. *)
LEMMA GitStatusType == TypeOK => GitStatus \in StatusType
BY DEF TypeOK, GitStatus, StatusType

(* Storing an answer of `git status`, or its failure, stores a status. *)
LEMMA ApplyType ==
  ASSUME TypeOK, NEW s \in StatusType \union {None}, ApplyRepoStatus(s)
  PROVE  repo' \in StatusType /\ stale' \in BOOLEAN
BY DEF TypeOK, ApplyRepoStatus

(* A recomputed snapshot id has the type of one. *)
LEMMA SnapshotType ==
  ASSUME index' \in [Paths -> Entries], repo' \in StatusType, RecomputeSnapshot
  PROVE  /\ snapshot' \in [index : [Paths -> Entries], head : Nat]
         /\ torn' \in BOOLEAN
BY DEF RecomputeSnapshot, SnapshotId, StatusType

(* A failed `git status` uses up one fault of the bound. *)
LEMMA StatusSpends ==
  ASSUME TypeOK, NEW s, StatusIs(s)
  PROVE  left' \in [{"ext", "repeat", "fault", "edit", "git", "scan"} -> Nat]
<1>1. CASE UNCHANGED left
  BY <1>1 DEF TypeOK
<1>2. CASE Spend("fault")
  BY <1>2 DEF TypeOK, Spend
<1>. QED
  BY <1>1, <1>2 DEF StatusIs

(* Every step keeps the type of every variable. *)
LEMMA TypeStep ==
  ASSUME TypeOK, [Next]_vars
  PROVE  TypeOK'
<1>. USE DEF TypeOK, Contents, Entries, Empty, Ops, GitMutations, WriterStates,
             Refreshing, Indexed, Skips, EntryAfter,
             repoVars, stateVars, ledgerVars, callVars, localVars, planVars, ghostVars
<1>1. CASE UNCHANGED vars
  BY <1>1 DEF vars
<1>2. CASE External
  <2>1. CASE \E p \in Paths, c \in Contents : ExternalWrite(p, c)
    BY <2>1 DEF ExternalWrite, Spend
  <2>2. CASE ExternalGit
    BY <2>2 DEF ExternalGit, Spend
  <2>3. CASE \E e \in Paths \union {Git} : Deliver(e)
    BY <2>3 DEF Deliver, Observe
  <2>4. CASE \E e \in Paths \union {Git} : DeliverAgain(e)
    BY <2>4 DEF DeliverAgain, Spend, Observe
  <2>. QED
    BY <1>2, <2>1, <2>2, <2>3, <2>4 DEF External
<1>3. ASSUME NEW c \in Clients, Request(c)
      PROVE  TypeOK'
  <2>1. CASE ReconcilePending(c)
    BY <2>1 DEF ReconcilePending, Call
  <2>2. CASE Refresh(c)
    BY <2>2 DEF Refresh, Call, Spend
  <2>3. CASE CodeEdit(c)
    BY <2>3 DEF CodeEdit, Call, Spend
  <2>4. CASE GitRead(c)
    BY <2>4 DEF GitRead, Call, Spend
  <2>5. CASE \E o \in GitMutations : GitMutate(c, o)
    BY <2>5 DEF GitMutate, Call, Spend
  <2>6. CASE MutateRepository(c)
    BY <2>6 DEF MutateRepository
  <2>7. CASE MutationFails(c)
    BY <2>7 DEF MutationFails, Spend, Return
  <2>8. CASE AcquireWriter(c)
    BY <2>8 DEF AcquireWriter, FirstStep
  <2>9. CASE Release(c)
    BY <2>9 DEF Release, Return, LeaveWriter, ForgetPlan, ForgetLocals
  <2>10. CASE Fail(c)
    BY <2>10 DEF Fail, Return, LeaveWriter, ForgetPlan, ForgetLocals
  <2>11. CASE EditApplied(c)
    BY <2>11 DEF EditApplied, LeaveWriter, ForgetPlan, ForgetLocals
  <2>12. CASE ValidationEnds(c)
    BY <2>12 DEF ValidationEnds, LeaveValidation
  <2>13. CASE ValidationDetaches(c)
    BY <2>13 DEF ValidationDetaches, LeaveValidation
  <2>14. CASE DetachedEnds(c)
    BY <2>14 DEF DetachedEnds
  <2>. QED
    BY <1>3, <2>1, <2>2, <2>3, <2>4, <2>5, <2>6, <2>7, <2>8, <2>9, <2>10, <2>11,
       <2>12, <2>13, <2>14
       DEF Request
<1>4. ASSUME NEW p \in Paths, PathStep(p)
      PROVE  TypeOK'
  <2>1. CASE RefreshPath(p)
    BY <2>1 DEF RefreshPath, Refreshed
  <2>2. CASE RecheckPath(p)
    BY <2>2 DEF RecheckPath
  <2>3. CASE WriteFile(p)
    BY <2>3, ContentAssumption DEF WriteFile
  <2>4. CASE UndoFile(p)
    BY <2>4 DEF UndoFile
  <2>5. CASE UndoFails(p)
    BY <2>5 DEF UndoFails, Spend
  <2>6. CASE ScanPath(p)
    BY <2>6 DEF ScanPath
  <2>. QED
    BY <1>4, <2>1, <2>2, <2>3, <2>4, <2>5, <2>6 DEF PathStep
<1>5. CASE WriterStep
  <2>1. CASE DrainSwap
    BY <2>1 DEF DrainSwap, AfterReconcile
  <2>2. CASE DrainTake
    BY <2>2 DEF DrainTake
  <2>3. CASE ReconcileFails
    BY <2>3 DEF ReconcileFails, Spend, LeaveHalfRefreshed
  <2>4. CASE ReconcilePublish
    <3>. DEFINE changed == draft # index
    <3>1. repo' \in StatusType /\ stale' \in BOOLEAN
        /\ left' \in [{"ext", "repeat", "fault", "edit", "git", "scan"} -> Nat]
      <4>1. CASE gitEvent \/ changed
        BY <2>4, <4>1, ApplyType, GitStatusType, StatusSpends
           DEF ReconcilePublish
      <4>2. CASE ~(gitEvent \/ changed)
        BY <2>4, <4>2 DEF ReconcilePublish
      <4>. QED
        BY <4>1, <4>2
    <3>2. index' \in [Paths -> Entries]
      BY <2>4 DEF ReconcilePublish
    <3>3. snapshot' \in [index : [Paths -> Entries], head : Nat] /\ torn' \in BOOLEAN
      BY <2>4, <3>1, <3>2, SnapshotType DEF ReconcilePublish
    <3>4. generation' \in Nat
      BY <2>4 DEF ReconcilePublish, BumpGeneration
    <3>. QED
      BY <2>4, <3>1, <3>2, <3>3, <3>4 DEF ReconcilePublish, AfterReconcile
  <2>5. CASE PlanEdit
    BY <2>5 DEF PlanEdit
  <2>6. CASE PlanEnds
    BY <2>6 DEF PlanEnds
  <2>7. CASE WriteFails
    BY <2>7 DEF WriteFails, Spend
  <2>8. CASE CommitStatus
    BY <2>8, GitStatusType DEF CommitStatus, StatusIs, Spend
  <2>9. CASE CommitPublish
    <3>1. repo' \in StatusType /\ stale' \in BOOLEAN
      BY <2>9, ApplyType DEF CommitPublish
    <3>2. index' \in [Paths -> Entries]
      BY <2>9 DEF CommitPublish
    <3>3. snapshot' \in [index : [Paths -> Entries], head : Nat] /\ torn' \in BOOLEAN
      BY <2>9, <3>1, <3>2, SnapshotType DEF CommitPublish
    <3>. QED
      BY <2>9, <3>1, <3>2, <3>3 DEF CommitPublish, BumpGeneration
  <2>10. CASE CommitRefreshFails
    BY <2>10 DEF CommitRefreshFails, Spend, LeaveHalfRefreshed
  <2>11. CASE UndoOver
    BY <2>11 DEF UndoOver
  <2>12. CASE UndoPublish
    BY <2>12 DEF UndoPublish
  <2>13. CASE UndoRefreshFails
    BY <2>13 DEF UndoRefreshFails, Spend, LeaveHalfRefreshed
  <2>14. CASE ClearPaths
    BY <2>14 DEF ClearPaths
  <2>15. CASE LowerFlag
    BY <2>15 DEF LowerFlag
  <2>16. CASE ScanFails
    BY <2>16 DEF ScanFails, Spend
  <2>17. CASE ScanPublish
    <3>1. PICK s \in {GitStatus, None} : StatusIs(s) /\ ApplyRepoStatus(s)
      BY <2>17 DEF ScanPublish
    <3>2. repo' \in StatusType /\ stale' \in BOOLEAN
      BY <3>1, ApplyType, GitStatusType
    <3>3. index' \in [Paths -> Entries]
      BY <2>17 DEF ScanPublish
    <3>4. snapshot' \in [index : [Paths -> Entries], head : Nat] /\ torn' \in BOOLEAN
      BY <2>17, <3>2, <3>3, SnapshotType DEF ScanPublish
    <3>. QED
      BY <2>17, <3>1, <3>2, <3>3, <3>4, StatusSpends
         DEF ScanPublish, BumpGeneration
  <2>18. CASE RefreshRepoStatus
    <3>1. PICK s \in {GitStatus, None} : StatusIs(s) /\ ApplyRepoStatus(s)
      BY <2>18 DEF RefreshRepoStatus
    <3>2. repo' \in StatusType /\ stale' \in BOOLEAN
      BY <3>1, ApplyType, GitStatusType
    <3>3. index' \in [Paths -> Entries]
      BY <2>18 DEF RefreshRepoStatus
    <3>4. snapshot' \in [index : [Paths -> Entries], head : Nat] /\ torn' \in BOOLEAN
      BY <2>18, <3>2, <3>3, SnapshotType DEF RefreshRepoStatus
    <3>. QED
      BY <2>18, <3>1, <3>2, <3>3, <3>4, StatusSpends DEF RefreshRepoStatus
  <2>. QED
    BY <1>4, <1>5, <2>1, <2>2, <2>3, <2>4, <2>5, <2>6, <2>7, <2>8, <2>9, <2>10,
       <2>11, <2>12, <2>13, <2>14, <2>15, <2>16, <2>17, <2>18
       DEF WriterStep
<1>. QED
  BY <1>1, <1>2, <1>3, <1>5 DEF Next

(* Only the holder of the writer moves on under it. *)
LEMMA HolderStep ==
  ASSUME ReconcileInv, [Next]_vars
  PROVE  WriterConsistent'
<1>. USE DEF TypeOK, WriterConsistent, Committing, Refreshing, GitMutations,
             repoVars, stateVars, ledgerVars, callVars, localVars, planVars,
             ghostVars
<1>0. TypeOK /\ WriterConsistent
  BY DEF ReconcileInv
<1>1. CASE UNCHANGED vars
  BY <1>0, <1>1 DEF vars
<1>2. CASE External
  <2>1. CASE \E p \in Paths, c \in Contents : ExternalWrite(p, c)
    BY <1>0, <2>1 DEF ExternalWrite
  <2>2. CASE ExternalGit
    BY <1>0, <2>2 DEF ExternalGit
  <2>3. CASE \E e \in Paths \union {Git} : Deliver(e)
    BY <1>0, <2>3 DEF Deliver, Observe
  <2>4. CASE \E e \in Paths \union {Git} : DeliverAgain(e)
    BY <1>0, <2>4 DEF DeliverAgain, Observe
  <2>. QED
    BY <1>2, <2>1, <2>2, <2>3, <2>4 DEF External
<1>3. ASSUME NEW c \in Clients, Request(c)
      PROVE  WriterConsistent'
  <2>1. CASE ReconcilePending(c)
    BY <1>0, <2>1 DEF ReconcilePending, Call
  <2>2. CASE Refresh(c)
    BY <1>0, <2>2 DEF Refresh, Call
  <2>3. CASE CodeEdit(c)
    BY <1>0, <2>3 DEF CodeEdit, Call
  <2>4. CASE GitRead(c)
    BY <1>0, <2>4 DEF GitRead, Call
  <2>5. CASE \E o \in GitMutations : GitMutate(c, o)
    BY <1>0, <2>5 DEF GitMutate, Call
  <2>6. CASE MutateRepository(c)
    BY <1>0, <2>6 DEF MutateRepository
  <2>7. CASE MutationFails(c)
    BY <1>0, <2>7 DEF MutationFails, Return
  <2>8. CASE AcquireWriter(c)
    BY <1>0, <2>8, ClientAssumption DEF AcquireWriter, FirstStep
  <2>9. CASE Release(c)
    BY <1>0, <2>9, ClientAssumption DEF Release, Return, LeaveWriter
  <2>10. CASE Fail(c)
    BY <1>0, <2>10, ClientAssumption DEF Fail, Return, LeaveWriter
  <2>11. CASE EditApplied(c)
    BY <1>0, <2>11, ClientAssumption DEF EditApplied, LeaveWriter
  <2>12. CASE ValidationEnds(c)
    BY <1>0, <2>12 DEF ValidationEnds, LeaveValidation
  <2>13. CASE ValidationDetaches(c)
    BY <1>0, <2>13 DEF ValidationDetaches, LeaveValidation
  <2>14. CASE DetachedEnds(c)
    BY <1>0, <2>14 DEF DetachedEnds
  <2>. QED
    BY <1>3, <2>1, <2>2, <2>3, <2>4, <2>5, <2>6, <2>7, <2>8, <2>9, <2>10, <2>11,
       <2>12, <2>13, <2>14
       DEF Request
<1>4. ASSUME NEW p \in Paths, PathStep(p)
      PROVE  WriterConsistent'
  <2>1. CASE RefreshPath(p)
    BY <1>0, <2>1 DEF RefreshPath
  <2>2. CASE RecheckPath(p)
    BY <1>0, <2>2 DEF RecheckPath
  <2>3. CASE WriteFile(p)
    BY <1>0, <2>3 DEF WriteFile
  <2>4. CASE UndoFile(p)
    BY <1>0, <2>4 DEF UndoFile
  <2>5. CASE UndoFails(p)
    BY <1>0, <2>5 DEF UndoFails
  <2>6. CASE ScanPath(p)
    BY <1>0, <2>6 DEF ScanPath
  <2>. QED
    BY <1>4, <2>1, <2>2, <2>3, <2>4, <2>5, <2>6 DEF PathStep
<1>5. CASE WriterStep
  <2>1. CASE DrainSwap
    BY <1>0, <2>1, ClientAssumption DEF DrainSwap, AfterReconcile
  <2>2. CASE DrainTake
    BY <1>0, <2>2 DEF DrainTake
  <2>3. CASE ReconcileFails
    BY <1>0, <2>3 DEF ReconcileFails
  <2>4. CASE ReconcilePublish
    BY <1>0, <2>4, ClientAssumption DEF ReconcilePublish, AfterReconcile
  <2>5. CASE PlanEdit
    BY <1>0, <2>5 DEF PlanEdit
  <2>6. CASE PlanEnds
    BY <1>0, <2>6 DEF PlanEnds
  <2>7. CASE WriteFails
    BY <1>0, <2>7 DEF WriteFails
  <2>8. CASE CommitStatus
    BY <1>0, <2>8 DEF CommitStatus
  <2>9. CASE CommitPublish
    BY <1>0, <2>9 DEF CommitPublish
  <2>10. CASE CommitRefreshFails
    BY <1>0, <2>10 DEF CommitRefreshFails
  <2>11. CASE UndoOver
    BY <1>0, <2>11 DEF UndoOver
  <2>12. CASE UndoPublish
    BY <1>0, <2>12 DEF UndoPublish
  <2>13. CASE UndoRefreshFails
    BY <1>0, <2>13 DEF UndoRefreshFails
  <2>14. CASE ClearPaths
    BY <1>0, <2>14 DEF ClearPaths
  <2>15. CASE LowerFlag
    BY <1>0, <2>15 DEF LowerFlag
  <2>16. CASE ScanFails
    BY <1>0, <2>16 DEF ScanFails
  <2>17. CASE ScanPublish
    BY <1>0, <2>17 DEF ScanPublish
  <2>18. CASE RefreshRepoStatus
    BY <1>0, <2>18 DEF RefreshRepoStatus
  <2>. QED
    BY <1>4, <1>5, <2>1, <2>2, <2>3, <2>4, <2>5, <2>6, <2>7, <2>8, <2>9, <2>10,
       <2>11, <2>12, <2>13, <2>14, <2>15, <2>16, <2>17, <2>18
       DEF WriterStep
<1>. QED
  BY <1>1, <1>2, <1>3, <1>5 DEF Next

(* The permit stays with the mutation that took it. *)
LEMMA GateStep ==
  ASSUME ReconcileInv, [Next]_vars
  PROVE  GateHeld'
<1>. USE DEF TypeOK, GateHeld, WriterConsistent, Committing, GitMutations,
             repoVars, stateVars, ledgerVars, callVars, localVars, planVars,
             ghostVars
<1>0. TypeOK /\ GateHeld /\ WriterConsistent
  BY DEF ReconcileInv
<1>1. CASE UNCHANGED vars
  BY <1>0, <1>1 DEF vars
<1>2. CASE External
  <2>1. CASE \E p \in Paths, c \in Contents : ExternalWrite(p, c)
    BY <1>0, <2>1 DEF ExternalWrite
  <2>2. CASE ExternalGit
    BY <1>0, <2>2 DEF ExternalGit
  <2>3. CASE \E e \in Paths \union {Git} : Deliver(e)
    BY <1>0, <2>3 DEF Deliver, Observe
  <2>4. CASE \E e \in Paths \union {Git} : DeliverAgain(e)
    BY <1>0, <2>4 DEF DeliverAgain, Observe
  <2>. QED
    BY <1>2, <2>1, <2>2, <2>3, <2>4 DEF External
<1>3. ASSUME NEW c \in Clients, Request(c)
      PROVE  GateHeld'
  <2>1. CASE ReconcilePending(c)
    BY <1>0, <2>1 DEF ReconcilePending, Call
  <2>2. CASE Refresh(c)
    BY <1>0, <2>2 DEF Refresh, Call
  <2>3. CASE CodeEdit(c)
    BY <1>0, <2>3, ClientAssumption DEF CodeEdit, Call
  <2>4. CASE GitRead(c)
    BY <1>0, <2>4 DEF GitRead, Call
  <2>5. CASE \E o \in GitMutations : GitMutate(c, o)
    BY <1>0, <2>5, ClientAssumption DEF GitMutate, Call
  <2>6. CASE MutateRepository(c)
    BY <1>0, <2>6 DEF MutateRepository
  <2>7. CASE MutationFails(c)
    BY <1>0, <2>7 DEF MutationFails, Return
  <2>8. CASE AcquireWriter(c)
    BY <1>0, <2>8 DEF AcquireWriter
  <2>9. CASE Release(c)
    BY <1>0, <2>9 DEF Release, Return, LeaveWriter
  <2>10. CASE Fail(c)
    BY <1>0, <2>10 DEF Fail, Return, LeaveWriter
  <2>11. CASE EditApplied(c)
    BY <1>0, <2>11, ClientAssumption DEF EditApplied, LeaveWriter
  <2>12. CASE ValidationEnds(c)
    BY <1>0, <2>12 DEF ValidationEnds, LeaveValidation
  <2>13. CASE ValidationDetaches(c)
    BY <1>0, <2>13 DEF ValidationDetaches, LeaveValidation
  <2>14. CASE DetachedEnds(c)
    BY <1>0, <2>14 DEF DetachedEnds
  <2>. QED
    BY <1>3, <2>1, <2>2, <2>3, <2>4, <2>5, <2>6, <2>7, <2>8, <2>9, <2>10, <2>11,
       <2>12, <2>13, <2>14
       DEF Request
<1>4. ASSUME NEW p \in Paths, PathStep(p)
      PROVE  GateHeld'
  <2>1. CASE RefreshPath(p)
    BY <1>0, <2>1 DEF RefreshPath
  <2>2. CASE RecheckPath(p)
    BY <1>0, <2>2 DEF RecheckPath
  <2>3. CASE WriteFile(p)
    BY <1>0, <2>3 DEF WriteFile
  <2>4. CASE UndoFile(p)
    BY <1>0, <2>4 DEF UndoFile
  <2>5. CASE UndoFails(p)
    BY <1>0, <2>5 DEF UndoFails
  <2>6. CASE ScanPath(p)
    BY <1>0, <2>6 DEF ScanPath
  <2>. QED
    BY <1>4, <2>1, <2>2, <2>3, <2>4, <2>5, <2>6 DEF PathStep
<1>5. CASE WriterStep
  <2>1. CASE DrainSwap
    BY <1>0, <2>1 DEF DrainSwap
  <2>2. CASE DrainTake
    BY <1>0, <2>2 DEF DrainTake
  <2>3. CASE ReconcileFails
    BY <1>0, <2>3 DEF ReconcileFails
  <2>4. CASE ReconcilePublish
    BY <1>0, <2>4 DEF ReconcilePublish
  <2>5. CASE PlanEdit
    BY <1>0, <2>5 DEF PlanEdit
  <2>6. CASE PlanEnds
    BY <1>0, <2>6 DEF PlanEnds
  <2>7. CASE WriteFails
    BY <1>0, <2>7 DEF WriteFails
  <2>8. CASE CommitStatus
    BY <1>0, <2>8 DEF CommitStatus
  <2>9. CASE CommitPublish
    BY <1>0, <2>9 DEF CommitPublish
  <2>10. CASE CommitRefreshFails
    BY <1>0, <2>10 DEF CommitRefreshFails
  <2>11. CASE UndoOver
    BY <1>0, <2>11 DEF UndoOver
  <2>12. CASE UndoPublish
    BY <1>0, <2>12 DEF UndoPublish
  <2>13. CASE UndoRefreshFails
    BY <1>0, <2>13 DEF UndoRefreshFails
  <2>14. CASE ClearPaths
    BY <1>0, <2>14 DEF ClearPaths
  <2>15. CASE LowerFlag
    BY <1>0, <2>15 DEF LowerFlag
  <2>16. CASE ScanFails
    BY <1>0, <2>16 DEF ScanFails
  <2>17. CASE ScanPublish
    BY <1>0, <2>17 DEF ScanPublish
  <2>18. CASE RefreshRepoStatus
    BY <1>0, <2>18 DEF RefreshRepoStatus
  <2>. QED
    BY <1>4, <1>5, <2>1, <2>2, <2>3, <2>4, <2>5, <2>6, <2>7, <2>8, <2>9, <2>10,
       <2>11, <2>12, <2>13, <2>14, <2>15, <2>16, <2>17, <2>18
       DEF WriterStep
<1>. QED
  BY <1>1, <1>2, <1>3, <1>5 DEF Next

(* Every change of the index or of HEAD comes with a new snapshot id, or is
   marked as torn. *)
LEMMA SnapshotStep ==
  ASSUME ReconcileInv, [Next]_vars
  PROVE  SnapshotDerived'
<1>. USE DEF SnapshotDerived, SnapshotId, repoVars, stateVars, ledgerVars,
             callVars, localVars,
             planVars, ghostVars
<1>0. SnapshotDerived
  BY DEF ReconcileInv
<1>1. CASE UNCHANGED vars
  BY <1>0, <1>1 DEF vars
<1>2. CASE External
  <2>1. CASE \E p \in Paths, c \in Contents : ExternalWrite(p, c)
    BY <1>0, <2>1 DEF ExternalWrite
  <2>2. CASE ExternalGit
    BY <1>0, <2>2 DEF ExternalGit
  <2>3. CASE \E e \in Paths \union {Git} : Deliver(e)
    BY <1>0, <2>3 DEF Deliver, Observe
  <2>4. CASE \E e \in Paths \union {Git} : DeliverAgain(e)
    BY <1>0, <2>4 DEF DeliverAgain, Observe
  <2>. QED
    BY <1>2, <2>1, <2>2, <2>3, <2>4 DEF External
<1>3. ASSUME NEW c \in Clients, Request(c)
      PROVE  SnapshotDerived'
  <2>1. CASE ReconcilePending(c)
    BY <1>0, <2>1 DEF ReconcilePending, Call
  <2>2. CASE Refresh(c)
    BY <1>0, <2>2 DEF Refresh, Call
  <2>3. CASE CodeEdit(c)
    BY <1>0, <2>3 DEF CodeEdit, Call
  <2>4. CASE GitRead(c)
    BY <1>0, <2>4 DEF GitRead, Call
  <2>5. CASE \E o \in GitMutations : GitMutate(c, o)
    BY <1>0, <2>5 DEF GitMutate, Call
  <2>6. CASE MutateRepository(c)
    BY <1>0, <2>6 DEF MutateRepository
  <2>7. CASE MutationFails(c)
    BY <1>0, <2>7 DEF MutationFails, Return
  <2>8. CASE AcquireWriter(c)
    BY <1>0, <2>8 DEF AcquireWriter
  <2>9. CASE Release(c)
    BY <1>0, <2>9 DEF Release, Return, LeaveWriter, ForgetPlan
  <2>10. CASE Fail(c)
    BY <1>0, <2>10 DEF Fail, Return, LeaveWriter, ForgetPlan
  <2>11. CASE EditApplied(c)
    BY <1>0, <2>11 DEF EditApplied, LeaveWriter, ForgetPlan
  <2>12. CASE ValidationEnds(c)
    BY <1>0, <2>12 DEF ValidationEnds, LeaveValidation
  <2>13. CASE ValidationDetaches(c)
    BY <1>0, <2>13 DEF ValidationDetaches, LeaveValidation
  <2>14. CASE DetachedEnds(c)
    BY <1>0, <2>14 DEF DetachedEnds
  <2>. QED
    BY <1>3, <2>1, <2>2, <2>3, <2>4, <2>5, <2>6, <2>7, <2>8, <2>9, <2>10, <2>11,
       <2>12, <2>13, <2>14
       DEF Request
<1>4. ASSUME NEW p \in Paths, PathStep(p)
      PROVE  SnapshotDerived'
  <2>1. CASE RefreshPath(p)
    BY <1>0, <2>1 DEF RefreshPath
  <2>2. CASE RecheckPath(p)
    BY <1>0, <2>2 DEF RecheckPath
  <2>3. CASE WriteFile(p)
    BY <1>0, <2>3 DEF WriteFile
  <2>4. CASE UndoFile(p)
    BY <1>0, <2>4 DEF UndoFile
  <2>5. CASE UndoFails(p)
    BY <1>0, <2>5 DEF UndoFails
  <2>6. CASE ScanPath(p)
    BY <1>0, <2>6 DEF ScanPath
  <2>. QED
    BY <1>4, <2>1, <2>2, <2>3, <2>4, <2>5, <2>6 DEF PathStep
<1>5. CASE WriterStep
  <2>1. CASE DrainSwap
    BY <1>0, <2>1 DEF DrainSwap
  <2>2. CASE DrainTake
    BY <1>0, <2>2 DEF DrainTake
  <2>3. CASE ReconcileFails
    BY <1>0, <2>3 DEF ReconcileFails, LeaveHalfRefreshed
  <2>4. CASE ReconcilePublish
    BY <1>0, <2>4 DEF ReconcilePublish, ApplyRepoStatus, RecomputeSnapshot
  <2>5. CASE PlanEdit
    BY <1>0, <2>5 DEF PlanEdit
  <2>6. CASE PlanEnds
    BY <1>0, <2>6 DEF PlanEnds
  <2>7. CASE WriteFails
    BY <1>0, <2>7 DEF WriteFails
  <2>8. CASE CommitStatus
    BY <1>0, <2>8 DEF CommitStatus
  <2>9. CASE CommitPublish
    BY <1>0, <2>9 DEF CommitPublish, ApplyRepoStatus, RecomputeSnapshot
  <2>10. CASE CommitRefreshFails
    BY <1>0, <2>10 DEF CommitRefreshFails, LeaveHalfRefreshed
  <2>11. CASE UndoOver
    BY <1>0, <2>11 DEF UndoOver
  <2>12. CASE UndoPublish
    BY <1>0, <2>12 DEF UndoPublish
  <2>13. CASE UndoRefreshFails
    BY <1>0, <2>13 DEF UndoRefreshFails, LeaveHalfRefreshed
  <2>14. CASE ClearPaths
    BY <1>0, <2>14 DEF ClearPaths
  <2>15. CASE LowerFlag
    BY <1>0, <2>15 DEF LowerFlag
  <2>16. CASE ScanFails
    BY <1>0, <2>16 DEF ScanFails
  <2>17. CASE ScanPublish
    BY <1>0, <2>17 DEF ScanPublish, ApplyRepoStatus, RecomputeSnapshot
  <2>18. CASE RefreshRepoStatus
    BY <1>0, <2>18 DEF RefreshRepoStatus, ApplyRepoStatus, RecomputeSnapshot
  <2>. QED
    BY <1>4, <1>5, <2>1, <2>2, <2>3, <2>4, <2>5, <2>6, <2>7, <2>8, <2>9, <2>10,
       <2>11, <2>12, <2>13, <2>14, <2>15, <2>16, <2>17, <2>18
       DEF WriterStep
<1>. QED
  BY <1>1, <1>2, <1>3, <1>5 DEF Next

(* The reports of an edit's own writes wait until it lets go of the writer. *)
LEMMA WritesStep ==
  ASSUME ReconcileInv, [Next]_vars
  PROVE  WritesReported'
<1>. USE DEF TypeOK, WritesReported, Reported, Committing, Planned, repoVars,
             stateVars, ledgerVars, callVars,
             localVars, planVars, ghostVars
<1>0. TypeOK /\ WriterConsistent /\ WritesReported
  BY DEF ReconcileInv
<1>1. CASE UNCHANGED vars
  BY <1>0, <1>1 DEF vars
<1>2. CASE External
  <2>1. CASE \E p \in Paths, c \in Contents : ExternalWrite(p, c)
    BY <1>0, <2>1 DEF ExternalWrite
  <2>2. CASE ExternalGit
    BY <1>0, <2>2 DEF ExternalGit
  <2>3. CASE \E e \in Paths \union {Git} : Deliver(e)
    BY <1>0, <2>3 DEF Deliver, Observe
  <2>4. CASE \E e \in Paths \union {Git} : DeliverAgain(e)
    BY <1>0, <2>4 DEF DeliverAgain, Observe
  <2>. QED
    BY <1>2, <2>1, <2>2, <2>3, <2>4 DEF External
<1>3. ASSUME NEW c \in Clients, Request(c)
      PROVE  WritesReported'
  <2>1. CASE ReconcilePending(c)
    BY <1>0, <2>1 DEF ReconcilePending, Call
  <2>2. CASE Refresh(c)
    BY <1>0, <2>2 DEF Refresh, Call
  <2>3. CASE CodeEdit(c)
    BY <1>0, <2>3 DEF CodeEdit, Call
  <2>4. CASE GitRead(c)
    BY <1>0, <2>4 DEF GitRead, Call
  <2>5. CASE \E o \in GitMutations : GitMutate(c, o)
    BY <1>0, <2>5 DEF GitMutate, Call
  <2>6. CASE MutateRepository(c)
    BY <1>0, <2>6 DEF MutateRepository
  <2>7. CASE MutationFails(c)
    BY <1>0, <2>7 DEF MutationFails, Return
  <2>8. CASE AcquireWriter(c)
    BY <1>0, <2>8 DEF AcquireWriter, FirstStep, WriterConsistent
  <2>9. CASE Release(c)
    BY <1>0, <2>9 DEF Release, Return, LeaveWriter, ForgetPlan
  <2>10. CASE Fail(c)
    BY <1>0, <2>10 DEF Fail, Return, LeaveWriter, ForgetPlan
  <2>11. CASE EditApplied(c)
    BY <1>0, <2>11 DEF EditApplied, LeaveWriter, ForgetPlan
  <2>12. CASE ValidationEnds(c)
    BY <1>0, <2>12 DEF ValidationEnds, LeaveValidation
  <2>13. CASE ValidationDetaches(c)
    BY <1>0, <2>13 DEF ValidationDetaches, LeaveValidation
  <2>14. CASE DetachedEnds(c)
    BY <1>0, <2>14 DEF DetachedEnds
  <2>. QED
    BY <1>3, <2>1, <2>2, <2>3, <2>4, <2>5, <2>6, <2>7, <2>8, <2>9, <2>10, <2>11,
       <2>12, <2>13, <2>14
       DEF Request
<1>4. ASSUME NEW p \in Paths, PathStep(p)
      PROVE  WritesReported'
  <2>1. CASE RefreshPath(p)
    BY <1>0, <2>1 DEF RefreshPath, Refreshed
  <2>2. CASE RecheckPath(p)
    BY <1>0, <2>2 DEF RecheckPath
  <2>3. CASE WriteFile(p)
    BY <1>0, <2>3 DEF WriteFile
  <2>4. CASE UndoFile(p)
    BY <1>0, <2>4 DEF UndoFile
  <2>5. CASE UndoFails(p)
    BY <1>0, <2>5 DEF UndoFails
  <2>6. CASE ScanPath(p)
    BY <1>0, <2>6 DEF ScanPath
  <2>. QED
    BY <1>4, <2>1, <2>2, <2>3, <2>4, <2>5, <2>6 DEF PathStep
<1>5. CASE WriterStep
  <2>1. CASE DrainSwap
    BY <1>0, <2>1 DEF DrainSwap, AfterReconcile
  <2>2. CASE DrainTake
    BY <1>0, <2>2, PathAssumption DEF DrainTake
  <2>3. CASE ReconcileFails
    BY <1>0, <2>3 DEF ReconcileFails, LeaveHalfRefreshed
  <2>4. CASE ReconcilePublish
    BY <1>0, <2>4 DEF ReconcilePublish, AfterReconcile
  <2>5. CASE PlanEdit
    BY <1>0, <2>5 DEF PlanEdit
  <2>6. CASE PlanEnds
    BY <1>0, <2>6 DEF PlanEnds
  <2>7. CASE WriteFails
    BY <1>0, <2>7 DEF WriteFails
  <2>8. CASE CommitStatus
    BY <1>0, <2>8 DEF CommitStatus
  <2>9. CASE CommitPublish
    BY <1>0, <2>9 DEF CommitPublish
  <2>10. CASE CommitRefreshFails
    BY <1>0, <2>10 DEF CommitRefreshFails, LeaveHalfRefreshed
  <2>11. CASE UndoOver
    BY <1>0, <2>11 DEF UndoOver
  <2>12. CASE UndoPublish
    BY <1>0, <2>12 DEF UndoPublish
  <2>13. CASE UndoRefreshFails
    BY <1>0, <2>13 DEF UndoRefreshFails, LeaveHalfRefreshed
  <2>14. CASE ClearPaths
    BY <1>0, <2>14 DEF ClearPaths
  <2>15. CASE LowerFlag
    BY <1>0, <2>15 DEF LowerFlag
  <2>16. CASE ScanFails
    BY <1>0, <2>16 DEF ScanFails
  <2>17. CASE ScanPublish
    BY <1>0, <2>17 DEF ScanPublish
  <2>18. CASE RefreshRepoStatus
    BY <1>0, <2>18 DEF RefreshRepoStatus
  <2>. QED
    BY <1>4, <1>5, <2>1, <2>2, <2>3, <2>4, <2>5, <2>6, <2>7, <2>8, <2>9, <2>10,
       <2>11, <2>12, <2>13, <2>14, <2>15, <2>16, <2>17, <2>18
       DEF WriterStep
<1>. QED
  BY <1>1, <1>2, <1>3, <1>5 DEF Next

(* What the holder of the writer read stays right or is reported. *)
LEMMA DraftStep ==
  ASSUME ReconcileInv, [Next]_vars
  PROVE  DraftTracked'
<1>. USE DEF TypeOK, DraftTracked, DivergenceTracked, WritesReported, BeingRead,
             KeptEntry, Reported, Indexed, Skips, EntryAfter,
             Refreshing, repoVars, stateVars, ledgerVars, callVars, localVars, planVars, ghostVars
<1>0. TypeOK /\ WriterConsistent /\ DraftTracked /\ DivergenceTracked /\ WritesReported
  BY DEF ReconcileInv
<1>1. CASE UNCHANGED vars
  BY <1>0, <1>1 DEF vars
<1>2. CASE External
  <2>1. CASE \E p \in Paths, c \in Contents : ExternalWrite(p, c)
    BY <1>0, <2>1 DEF ExternalWrite
  <2>2. CASE ExternalGit
    BY <1>0, <2>2 DEF ExternalGit
  <2>3. CASE \E e \in Paths \union {Git} : Deliver(e)
    BY <1>0, <2>3 DEF Deliver, Observe
  <2>4. CASE \E e \in Paths \union {Git} : DeliverAgain(e)
    BY <1>0, <2>4 DEF DeliverAgain, Observe
  <2>. QED
    BY <1>2, <2>1, <2>2, <2>3, <2>4 DEF External
<1>3. ASSUME NEW c \in Clients, Request(c)
      PROVE  DraftTracked'
  <2>1. CASE ReconcilePending(c)
    BY <1>0, <2>1 DEF ReconcilePending, Call
  <2>2. CASE Refresh(c)
    BY <1>0, <2>2 DEF Refresh, Call
  <2>3. CASE CodeEdit(c)
    BY <1>0, <2>3 DEF CodeEdit, Call
  <2>4. CASE GitRead(c)
    BY <1>0, <2>4 DEF GitRead, Call
  <2>5. CASE \E o \in GitMutations : GitMutate(c, o)
    BY <1>0, <2>5 DEF GitMutate, Call
  <2>6. CASE MutateRepository(c)
    BY <1>0, <2>6 DEF MutateRepository
  <2>7. CASE MutationFails(c)
    BY <1>0, <2>7 DEF MutationFails, Return
  <2>8. CASE AcquireWriter(c)
    BY <1>0, <2>8 DEF AcquireWriter, FirstStep, WriterConsistent
  <2>9. CASE Release(c)
    BY <1>0, <2>9 DEF Release, Return, LeaveWriter, ForgetPlan
  <2>10. CASE Fail(c)
    BY <1>0, <2>10 DEF Fail, Return, LeaveWriter, ForgetPlan
  <2>11. CASE EditApplied(c)
    BY <1>0, <2>11 DEF EditApplied, LeaveWriter, ForgetPlan
  <2>12. CASE ValidationEnds(c)
    BY <1>0, <2>12 DEF ValidationEnds, LeaveValidation
  <2>13. CASE ValidationDetaches(c)
    BY <1>0, <2>13 DEF ValidationDetaches, LeaveValidation
  <2>14. CASE DetachedEnds(c)
    BY <1>0, <2>14 DEF DetachedEnds
  <2>. QED
    BY <1>3, <2>1, <2>2, <2>3, <2>4, <2>5, <2>6, <2>7, <2>8, <2>9, <2>10, <2>11,
       <2>12, <2>13, <2>14
       DEF Request
<1>4. ASSUME NEW p \in Paths, PathStep(p)
      PROVE  DraftTracked'
  <2>1. CASE RefreshPath(p)
    BY <1>0, <2>1 DEF RefreshPath, Refreshed
  <2>2. CASE RecheckPath(p)
    BY <1>0, <2>2 DEF RecheckPath
  <2>3. CASE WriteFile(p)
    BY <1>0, <2>3 DEF WriteFile
  <2>4. CASE UndoFile(p)
    BY <1>0, <2>4 DEF UndoFile
  <2>5. CASE UndoFails(p)
    BY <1>0, <2>5 DEF UndoFails
  <2>6. CASE ScanPath(p)
    BY <1>0, <2>6 DEF ScanPath
  <2>. QED
    BY <1>4, <2>1, <2>2, <2>3, <2>4, <2>5, <2>6 DEF PathStep
<1>5. CASE WriterStep
  <2>1. CASE DrainSwap
    BY <1>0, <2>1 DEF DrainSwap, AfterReconcile
  <2>2. CASE DrainTake
    BY <1>0, <2>2, PathAssumption DEF DrainTake
  <2>3. CASE ReconcileFails
    BY <1>0, <2>3 DEF ReconcileFails, LeaveHalfRefreshed
  <2>4. CASE ReconcilePublish
    BY <1>0, <2>4 DEF ReconcilePublish, AfterReconcile
  <2>5. CASE PlanEdit
    BY <1>0, <2>5 DEF PlanEdit
  <2>6. CASE PlanEnds
    BY <1>0, <2>6 DEF PlanEnds
  <2>7. CASE WriteFails
    BY <1>0, <2>7 DEF WriteFails
  <2>8. CASE CommitStatus
    BY <1>0, <2>8 DEF CommitStatus
  <2>9. CASE CommitPublish
    BY <1>0, <2>9 DEF CommitPublish
  <2>10. CASE CommitRefreshFails
    BY <1>0, <2>10 DEF CommitRefreshFails, LeaveHalfRefreshed
  <2>11. CASE UndoOver
    BY <1>0, <2>11 DEF UndoOver
  <2>12. CASE UndoPublish
    BY <1>0, <2>12 DEF UndoPublish
  <2>13. CASE UndoRefreshFails
    BY <1>0, <2>13 DEF UndoRefreshFails, LeaveHalfRefreshed
  <2>14. CASE ClearPaths
    BY <1>0, <2>14 DEF ClearPaths
  <2>15. CASE LowerFlag
    BY <1>0, <2>15 DEF LowerFlag
  <2>16. CASE ScanFails
    BY <1>0, <2>16 DEF ScanFails
  <2>17. CASE ScanPublish
    BY <1>0, <2>17 DEF ScanPublish
  <2>18. CASE RefreshRepoStatus
    BY <1>0, <2>18 DEF RefreshRepoStatus
  <2>. QED
    BY <1>4, <1>5, <2>1, <2>2, <2>3, <2>4, <2>5, <2>6, <2>7, <2>8, <2>9, <2>10,
       <2>11, <2>12, <2>13, <2>14, <2>15, <2>16, <2>17, <2>18
       DEF WriterStep
<1>. QED
  BY <1>1, <1>2, <1>3, <1>5 DEF Next

(* No step forgets a difference between the index and the disk. *)
LEMMA DivergenceStep ==
  ASSUME ReconcileInv, [Next]_vars
  PROVE  DivergenceTracked'
<1>. USE DEF TypeOK, DraftTracked, DivergenceTracked, WritesReported, BeingRead,
             KeptEntry, Reported, Indexed, Skips, EntryAfter,
             Refreshing, repoVars, stateVars, ledgerVars, callVars, localVars, planVars, ghostVars
<1>0. TypeOK /\ WriterConsistent /\ DraftTracked /\ DivergenceTracked /\ WritesReported
  BY DEF ReconcileInv
<1>1. CASE UNCHANGED vars
  BY <1>0, <1>1 DEF vars
<1>2. CASE External
  <2>1. CASE \E p \in Paths, c \in Contents : ExternalWrite(p, c)
    BY <1>0, <2>1 DEF ExternalWrite
  <2>2. CASE ExternalGit
    BY <1>0, <2>2 DEF ExternalGit
  <2>3. CASE \E e \in Paths \union {Git} : Deliver(e)
    BY <1>0, <2>3 DEF Deliver, Observe
  <2>4. CASE \E e \in Paths \union {Git} : DeliverAgain(e)
    BY <1>0, <2>4 DEF DeliverAgain, Observe
  <2>. QED
    BY <1>2, <2>1, <2>2, <2>3, <2>4 DEF External
<1>3. ASSUME NEW c \in Clients, Request(c)
      PROVE  DivergenceTracked'
  <2>1. CASE ReconcilePending(c)
    BY <1>0, <2>1 DEF ReconcilePending, Call
  <2>2. CASE Refresh(c)
    BY <1>0, <2>2 DEF Refresh, Call
  <2>3. CASE CodeEdit(c)
    BY <1>0, <2>3 DEF CodeEdit, Call
  <2>4. CASE GitRead(c)
    BY <1>0, <2>4 DEF GitRead, Call
  <2>5. CASE \E o \in GitMutations : GitMutate(c, o)
    BY <1>0, <2>5 DEF GitMutate, Call
  <2>6. CASE MutateRepository(c)
    BY <1>0, <2>6 DEF MutateRepository
  <2>7. CASE MutationFails(c)
    BY <1>0, <2>7 DEF MutationFails, Return
  <2>8. CASE AcquireWriter(c)
    BY <1>0, <2>8 DEF AcquireWriter, FirstStep, WriterConsistent
  <2>9. CASE Release(c)
    BY <1>0, <2>9 DEF Release, Return, LeaveWriter, ForgetPlan
  <2>10. CASE Fail(c)
    BY <1>0, <2>10 DEF Fail, Return, LeaveWriter, ForgetPlan
  <2>11. CASE EditApplied(c)
    BY <1>0, <2>11 DEF EditApplied, LeaveWriter, ForgetPlan
  <2>12. CASE ValidationEnds(c)
    BY <1>0, <2>12 DEF ValidationEnds, LeaveValidation
  <2>13. CASE ValidationDetaches(c)
    BY <1>0, <2>13 DEF ValidationDetaches, LeaveValidation
  <2>14. CASE DetachedEnds(c)
    BY <1>0, <2>14 DEF DetachedEnds
  <2>. QED
    BY <1>3, <2>1, <2>2, <2>3, <2>4, <2>5, <2>6, <2>7, <2>8, <2>9, <2>10, <2>11,
       <2>12, <2>13, <2>14
       DEF Request
<1>4. ASSUME NEW p \in Paths, PathStep(p)
      PROVE  DivergenceTracked'
  <2>1. CASE RefreshPath(p)
    BY <1>0, <2>1 DEF RefreshPath, Refreshed
  <2>2. CASE RecheckPath(p)
    BY <1>0, <2>2 DEF RecheckPath
  <2>3. CASE WriteFile(p)
    BY <1>0, <2>3 DEF WriteFile
  <2>4. CASE UndoFile(p)
    BY <1>0, <2>4 DEF UndoFile
  <2>5. CASE UndoFails(p)
    BY <1>0, <2>5 DEF UndoFails
  <2>6. CASE ScanPath(p)
    BY <1>0, <2>6 DEF ScanPath
  <2>. QED
    BY <1>4, <2>1, <2>2, <2>3, <2>4, <2>5, <2>6 DEF PathStep
<1>5. CASE WriterStep
  <2>1. CASE DrainSwap
    BY <1>0, <2>1 DEF DrainSwap, AfterReconcile
  <2>2. CASE DrainTake
    BY <1>0, <2>2, PathAssumption DEF DrainTake
  <2>3. CASE ReconcileFails
    BY <1>0, <2>3 DEF ReconcileFails, LeaveHalfRefreshed
  <2>4. CASE ReconcilePublish
    BY <1>0, <2>4 DEF ReconcilePublish, AfterReconcile
  <2>5. CASE PlanEdit
    BY <1>0, <2>5 DEF PlanEdit
  <2>6. CASE PlanEnds
    BY <1>0, <2>6 DEF PlanEnds
  <2>7. CASE WriteFails
    BY <1>0, <2>7 DEF WriteFails
  <2>8. CASE CommitStatus
    BY <1>0, <2>8 DEF CommitStatus
  <2>9. CASE CommitPublish
    BY <1>0, <2>9 DEF CommitPublish
  <2>10. CASE CommitRefreshFails
    BY <1>0, <2>10 DEF CommitRefreshFails, LeaveHalfRefreshed
  <2>11. CASE UndoOver
    BY <1>0, <2>11 DEF UndoOver
  <2>12. CASE UndoPublish
    BY <1>0, <2>12 DEF UndoPublish
  <2>13. CASE UndoRefreshFails
    BY <1>0, <2>13 DEF UndoRefreshFails, LeaveHalfRefreshed
  <2>14. CASE ClearPaths
    BY <1>0, <2>14 DEF ClearPaths
  <2>15. CASE LowerFlag
    BY <1>0, <2>15 DEF LowerFlag
  <2>16. CASE ScanFails
    BY <1>0, <2>16 DEF ScanFails
  <2>17. CASE ScanPublish
    BY <1>0, <2>17 DEF ScanPublish
  <2>18. CASE RefreshRepoStatus
    BY <1>0, <2>18 DEF RefreshRepoStatus
  <2>. QED
    BY <1>4, <1>5, <2>1, <2>2, <2>3, <2>4, <2>5, <2>6, <2>7, <2>8, <2>9, <2>10,
       <2>11, <2>12, <2>13, <2>14, <2>15, <2>16, <2>17, <2>18
       DEF WriterStep
<1>. QED
  BY <1>1, <1>2, <1>3, <1>5 DEF Next

(* A step that publishes another index publishes another generation, or
   leaves a torn stamp. *)
LEMMA BumpStep ==
  ASSUME TypeOK, [Next]_vars
  PROVE  index' # index => generation' > generation \/ torn'
<1>. USE DEF TypeOK, repoVars, stateVars, ledgerVars, callVars, localVars,
             planVars, ghostVars
<1>1. CASE UNCHANGED vars
  BY <1>1 DEF vars
<1>2. CASE External
  <2>1. CASE \E p \in Paths, c \in Contents : ExternalWrite(p, c)
    BY <2>1 DEF ExternalWrite
  <2>2. CASE ExternalGit
    BY <2>2 DEF ExternalGit
  <2>3. CASE \E e \in Paths \union {Git} : Deliver(e)
    BY <2>3 DEF Deliver, Observe
  <2>4. CASE \E e \in Paths \union {Git} : DeliverAgain(e)
    BY <2>4 DEF DeliverAgain, Observe
  <2>. QED
    BY <1>2, <2>1, <2>2, <2>3, <2>4 DEF External
<1>3. ASSUME NEW c \in Clients, Request(c)
      PROVE  index' # index => generation' > generation \/ torn'
  <2>1. CASE ReconcilePending(c)
    BY <2>1 DEF ReconcilePending, Call
  <2>2. CASE Refresh(c)
    BY <2>2 DEF Refresh, Call
  <2>3. CASE CodeEdit(c)
    BY <2>3 DEF CodeEdit, Call
  <2>4. CASE GitRead(c)
    BY <2>4 DEF GitRead, Call
  <2>5. CASE \E o \in GitMutations : GitMutate(c, o)
    BY <2>5 DEF GitMutate, Call
  <2>6. CASE MutateRepository(c)
    BY <2>6 DEF MutateRepository
  <2>7. CASE MutationFails(c)
    BY <2>7 DEF MutationFails, Return
  <2>8. CASE AcquireWriter(c)
    BY <2>8 DEF AcquireWriter
  <2>9. CASE Release(c)
    BY <2>9 DEF Release, Return, LeaveWriter
  <2>10. CASE Fail(c)
    BY <2>10 DEF Fail, Return, LeaveWriter
  <2>11. CASE EditApplied(c)
    BY <2>11 DEF EditApplied, LeaveWriter
  <2>12. CASE ValidationEnds(c)
    BY <2>12 DEF ValidationEnds, LeaveValidation
  <2>13. CASE ValidationDetaches(c)
    BY <2>13 DEF ValidationDetaches, LeaveValidation
  <2>14. CASE DetachedEnds(c)
    BY <2>14 DEF DetachedEnds
  <2>. QED
    BY <1>3, <2>1, <2>2, <2>3, <2>4, <2>5, <2>6, <2>7, <2>8, <2>9, <2>10, <2>11,
       <2>12, <2>13, <2>14
       DEF Request
<1>4. ASSUME NEW p \in Paths, PathStep(p)
      PROVE  index' # index => generation' > generation \/ torn'
  <2>1. CASE RefreshPath(p)
    BY <2>1 DEF RefreshPath
  <2>2. CASE RecheckPath(p)
    BY <2>2 DEF RecheckPath
  <2>3. CASE WriteFile(p)
    BY <2>3 DEF WriteFile
  <2>4. CASE UndoFile(p)
    BY <2>4 DEF UndoFile
  <2>5. CASE UndoFails(p)
    BY <2>5 DEF UndoFails
  <2>6. CASE ScanPath(p)
    BY <2>6 DEF ScanPath
  <2>. QED
    BY <1>4, <2>1, <2>2, <2>3, <2>4, <2>5, <2>6 DEF PathStep
<1>5. CASE WriterStep
  <2>1. CASE DrainSwap
    BY <2>1 DEF DrainSwap
  <2>2. CASE DrainTake
    BY <2>2 DEF DrainTake
  <2>3. CASE ReconcileFails
    BY <2>3 DEF ReconcileFails, LeaveHalfRefreshed
  <2>4. CASE ReconcilePublish
    BY <2>4 DEF ReconcilePublish, BumpGeneration, RecomputeSnapshot
  <2>5. CASE PlanEdit
    BY <2>5 DEF PlanEdit
  <2>6. CASE PlanEnds
    BY <2>6 DEF PlanEnds
  <2>7. CASE WriteFails
    BY <2>7 DEF WriteFails
  <2>8. CASE CommitStatus
    BY <2>8 DEF CommitStatus
  <2>9. CASE CommitPublish
    BY <2>9 DEF CommitPublish, BumpGeneration, RecomputeSnapshot
  <2>10. CASE CommitRefreshFails
    BY <2>10 DEF CommitRefreshFails, LeaveHalfRefreshed
  <2>11. CASE UndoOver
    BY <2>11 DEF UndoOver
  <2>12. CASE UndoPublish
    BY <2>12 DEF UndoPublish
  <2>13. CASE UndoRefreshFails
    BY <2>13 DEF UndoRefreshFails, LeaveHalfRefreshed
  <2>14. CASE ClearPaths
    BY <2>14 DEF ClearPaths
  <2>15. CASE LowerFlag
    BY <2>15 DEF LowerFlag
  <2>16. CASE ScanFails
    BY <2>16 DEF ScanFails
  <2>17. CASE ScanPublish
    BY <2>17 DEF ScanPublish, BumpGeneration, RecomputeSnapshot
  <2>18. CASE RefreshRepoStatus
    BY <2>18 DEF RefreshRepoStatus, RecomputeSnapshot
  <2>. QED
    BY <1>4, <1>5, <2>1, <2>2, <2>3, <2>4, <2>5, <2>6, <2>7, <2>8, <2>9, <2>10,
       <2>11, <2>12, <2>13, <2>14, <2>15, <2>16, <2>17, <2>18
       DEF WriterStep
<1>. QED
  BY <1>1, <1>2, <1>3, <1>5 DEF Next

(* The invariant holds in every reachable state. *)
THEOREM Invariance == Spec => []ReconcileInv
<1>1. Init => ReconcileInv
  <2>. SUFFICES ASSUME Init PROVE ReconcileInv
    OBVIOUS
  <2>1. GitStatus \in StatusType /\ NoStatus \in StatusType
    BY DEF Init, GitStatus, NoStatus, StatusType, Contents
  <2>2. index \in [Paths -> Entries]
    BY DEF Init, Indexed, Skips, Contents, Entries
  <2>3. repo \in StatusType /\ stale \in BOOLEAN
    BY <2>1 DEF Init
  <2>4. snapshot \in [index : [Paths -> Entries], head : Nat]
    BY <2>2, <2>3 DEF Init, SnapshotId, StatusType
  <2>5. TypeOK
    <3>1. left \in [{"ext", "repeat", "fault", "edit", "git", "scan"} -> Nat]
      BY BoundAssumption DEF Init
    <3>2. /\ draft \in [Paths -> Entries]
          /\ before \in [Paths -> Entries]
          /\ after \in [Paths -> Entries]
      BY DEF Init, Empty, Entries
    <3>3. op \in [Clients -> Ops]
      BY DEF Init, Ops
    <3>. QED
      BY <2>2, <2>3, <2>4, <3>1, <3>2, <3>3 DEF Init, TypeOK, WriterStates
  <2>6. WriterConsistent /\ GateHeld
    BY DEF Init, WriterConsistent, GateHeld, GitMutations, Committing
  <2>7. WritesReported /\ DraftTracked
    BY DEF Init, WritesReported, DraftTracked, Refreshing, Committing
  <2>8. DivergenceTracked /\ SnapshotDerived
    BY DEF Init, DivergenceTracked, SnapshotDerived
  <2>. QED
    BY <2>5, <2>6, <2>7, <2>8 DEF ReconcileInv
<1>2. ReconcileInv /\ [Next]_vars => ReconcileInv'
  <2>. SUFFICES ASSUME ReconcileInv, [Next]_vars
                PROVE  ReconcileInv'
    OBVIOUS
  <2>1. TypeOK'
    BY TypeStep DEF ReconcileInv
  <2>. QED
    BY <2>1, HolderStep, GateStep, SnapshotStep, WritesStep, DraftStep,
       DivergenceStep
       DEF ReconcileInv
<1>. QED
  BY <1>1, <1>2, PTL DEF Spec

(* Every variable of the reconciled state keeps its type. *)
THEOREM TypeCorrect == Spec => []TypeOK
<1>1. ReconcileInv => TypeOK
  BY DEF ReconcileInv
<1>. QED
  BY <1>1, Invariance, PTL

(* No interleaving of editor, watcher, reconciles, rescans and edits       *)
(* forgets a change on disk.                                               *)
THEOREM NoChangeForgotten == Spec => []DivergenceTracked
<1>1. ReconcileInv => DivergenceTracked
  BY DEF ReconcileInv
<1>. QED
  BY <1>1, Invariance, PTL

(* A stamp that is not torn names the index it was published with. *)
THEOREM StampNamesIndex == Spec => []SnapshotDerived
<1>1. ReconcileInv => SnapshotDerived
  BY DEF ReconcileInv
<1>. QED
  BY <1>1, Invariance, PTL

(* The mutation gate keeps edits and mutating Git actions apart. *)
THEOREM GateExcludes == Spec => []MutationsExclusive
<1>1. ReconcileInv => MutationsExclusive
  BY DEF ReconcileInv, GateHeld, MutationsExclusive
<1>. QED
  BY <1>1, Invariance, PTL

(* A new index comes with a new generation unless the stamp is torn. *)
THEOREM GenerationNamesIndex == Spec => IndexChangeBumps
<1>1. TypeOK /\ [Next]_vars => [index' # index => generation' > generation \/ torn']_vars
  BY BumpStep
<1>. QED
  BY <1>1, TypeCorrect, PTL DEF Spec, IndexChangeBumps

-----------------------------------------------------------------------------
(* Edits.                                                                  *)

(* What an edit knows about its files at each place, save those somebody   *)
(* else wrote meanwhile: rechecked files are as planned against, written   *)
(* ones as planned, refreshed ones indexed, undone ones as before.         *)
EditFollowed ==
  /\ done \subseteq Planned
  /\ wpc = "crefresh" => done = Planned
  /\ wpc \in {"recheck", "write"} => index = before
  /\ wpc = "crefresh" => \A p \in todo : draft[p] = before[p]
  /\ \A p \in Planned \ raced :
       /\ wpc = "recheck" /\ p \notin todo => disk[p] = before[p]
       /\ wpc = "write" => disk[p] = IF p \in done THEN after[p] ELSE before[p]
       /\ wpc = "crefresh" => 
            disk[p] = after[p] /\ (p \in todo \/ draft[p] = EntryAfter(p, before[p], after[p]))
       /\ wpc = "committed" => index[p] = EntryAfter(p, before[p], after[p])
       /\ wpc = "undo" => p \in todo \union failures \/ disk[p] = before[p]
       /\ wpc \in {"urefresh", "undone"} => p \in failures \/ disk[p] = before[p]

EditInv == ReconcileInv /\ EditFollowed

(* Every step of an edit, and every step beside it, keeps that knowledge: a *)
(* restore, which also writes files, waits for the gate.                    *)
LEMMA EditStep ==
  ASSUME EditInv, [Next]_vars
  PROVE  EditFollowed'
<1>. USE DEF TypeOK, EditFollowed, Committing, Planned, repoVars,
             stateVars, ledgerVars, callVars,
             localVars, planVars, ghostVars
<1>0. TypeOK /\ WriterConsistent /\ GateHeld /\ WritesReported /\ EditFollowed
  BY DEF EditInv, ReconcileInv
<1>1. CASE UNCHANGED vars
  BY <1>0, <1>1 DEF vars
<1>2. CASE External
  <2>1. CASE \E p \in Paths, c \in Contents : ExternalWrite(p, c)
    BY <1>0, <2>1 DEF ExternalWrite
  <2>2. CASE ExternalGit
    BY <1>0, <2>2 DEF ExternalGit
  <2>3. CASE \E e \in Paths \union {Git} : Deliver(e)
    BY <1>0, <2>3 DEF Deliver, Observe
  <2>4. CASE \E e \in Paths \union {Git} : DeliverAgain(e)
    BY <1>0, <2>4 DEF DeliverAgain, Observe
  <2>. QED
    BY <1>2, <2>1, <2>2, <2>3, <2>4 DEF External
<1>3. ASSUME NEW c \in Clients, Request(c)
      PROVE  EditFollowed'
  <2>1. CASE ReconcilePending(c)
    BY <1>0, <2>1 DEF ReconcilePending, Call
  <2>2. CASE Refresh(c)
    BY <1>0, <2>2 DEF Refresh, Call
  <2>3. CASE CodeEdit(c)
    BY <1>0, <2>3 DEF CodeEdit, Call
  <2>4. CASE GitRead(c)
    BY <1>0, <2>4 DEF GitRead, Call
  <2>5. CASE \E o \in GitMutations : GitMutate(c, o)
    BY <1>0, <2>5 DEF GitMutate, Call
  <2>6. CASE MutateRepository(c)
    BY <1>0, <2>6 DEF MutateRepository, WriterConsistent, GateHeld, GitMutations
  <2>7. CASE MutationFails(c)
    BY <1>0, <2>7 DEF MutationFails, Return
  <2>8. CASE AcquireWriter(c)
    BY <1>0, <2>8 DEF AcquireWriter, FirstStep, WriterConsistent
  <2>9. CASE Release(c)
    BY <1>0, <2>9 DEF Release, Return, Empty, LeaveWriter, ForgetPlan
  <2>10. CASE Fail(c)
    BY <1>0, <2>10 DEF Fail, Return, Empty, LeaveWriter, ForgetPlan
  <2>11. CASE EditApplied(c)
    BY <1>0, <2>11 DEF EditApplied, Empty, LeaveWriter, ForgetPlan
  <2>12. CASE ValidationEnds(c)
    BY <1>0, <2>12 DEF ValidationEnds, LeaveValidation
  <2>13. CASE ValidationDetaches(c)
    BY <1>0, <2>13 DEF ValidationDetaches, LeaveValidation
  <2>14. CASE DetachedEnds(c)
    BY <1>0, <2>14 DEF DetachedEnds
  <2>. QED
    BY <1>3, <2>1, <2>2, <2>3, <2>4, <2>5, <2>6, <2>7, <2>8, <2>9, <2>10, <2>11,
       <2>12, <2>13, <2>14
       DEF Request
<1>4. ASSUME NEW p \in Paths, PathStep(p)
      PROVE  EditFollowed'
  <2>1. CASE RefreshPath(p)
    BY <1>0, <2>1 DEF RefreshPath, Refreshed, Refreshing
  <2>2. CASE RecheckPath(p)
    BY <1>0, <2>2 DEF RecheckPath, WritesReported
  <2>3. CASE WriteFile(p)
    BY <1>0, <2>3 DEF WriteFile
  <2>4. CASE UndoFile(p)
    BY <1>0, <2>4 DEF UndoFile
  <2>5. CASE UndoFails(p)
    BY <1>0, <2>5 DEF UndoFails
  <2>6. CASE ScanPath(p)
    BY <1>0, <2>6 DEF ScanPath
  <2>. QED
    BY <1>4, <2>1, <2>2, <2>3, <2>4, <2>5, <2>6 DEF PathStep
<1>5. CASE WriterStep
  <2>1. CASE DrainSwap
    BY <1>0, <2>1 DEF DrainSwap, AfterReconcile
  <2>2. CASE DrainTake
    BY <1>0, <2>2, PathAssumption DEF DrainTake
  <2>3. CASE ReconcileFails
    BY <1>0, <2>3 DEF ReconcileFails, LeaveHalfRefreshed
  <2>4. CASE ReconcilePublish
    BY <1>0, <2>4 DEF ReconcilePublish, AfterReconcile
  <2>5. CASE PlanEdit
    BY <1>0, <2>5 DEF PlanEdit, WritesReported
  <2>6. CASE PlanEnds
    BY <1>0, <2>6 DEF PlanEnds
  <2>7. CASE WriteFails
    BY <1>0, <2>7 DEF WriteFails
  <2>8. CASE CommitStatus
    BY <1>0, <2>8 DEF CommitStatus
  <2>9. CASE CommitPublish
    BY <1>0, <2>9 DEF CommitPublish
  <2>10. CASE CommitRefreshFails
    BY <1>0, <2>10 DEF CommitRefreshFails, LeaveHalfRefreshed
  <2>11. CASE UndoOver
    BY <1>0, <2>11 DEF UndoOver
  <2>12. CASE UndoPublish
    BY <1>0, <2>12 DEF UndoPublish
  <2>13. CASE UndoRefreshFails
    BY <1>0, <2>13 DEF UndoRefreshFails, LeaveHalfRefreshed
  <2>14. CASE ClearPaths
    BY <1>0, <2>14 DEF ClearPaths
  <2>15. CASE LowerFlag
    BY <1>0, <2>15 DEF LowerFlag
  <2>16. CASE ScanFails
    BY <1>0, <2>16 DEF ScanFails
  <2>17. CASE ScanPublish
    BY <1>0, <2>17 DEF ScanPublish
  <2>18. CASE RefreshRepoStatus
    BY <1>0, <2>18 DEF RefreshRepoStatus
  <2>. QED
    BY <1>4, <1>5, <2>1, <2>2, <2>3, <2>4, <2>5, <2>6, <2>7, <2>8, <2>9, <2>10,
       <2>11, <2>12, <2>13, <2>14, <2>15, <2>16, <2>17, <2>18
       DEF WriterStep
<1>. QED
  BY <1>1, <1>2, <1>3, <1>5 DEF Next

(* What an edit knows about its files holds in every reachable state.       *)
LEMMA EditInvariance == Spec => []EditInv
<1>1. Init => EditFollowed
  BY DEF Init, EditFollowed, Planned, Empty
<1>2. EditInv /\ [Next]_vars => EditFollowed'
  BY EditStep
<1>. QED
  BY <1>1, <1>2, Invariance, PTL DEF Spec, EditInv

(* A compensation, after failed writes or a failed refresh, gives every     *)
(* planned file its old content back, save what it reports (commit.rs       *)
(* compensate), for any plan and any number of failures.                    *)
THEOREM CompensationComplete == Spec => []CompensationRestores
<1>1. EditInv => CompensationRestores
  BY DEF EditInv, EditFollowed, CompensationRestores
<1>. QED
  BY <1>1, EditInvariance, PTL

(* A successful edit is stamped with an index that holds what it wrote, in  *)
(* the files the index takes, and the entry from before the edit in those   *)
(* it passes over (commit.rs commit_plan, index/scan.rs refresh_paths).     *)
THEOREM CommitIndexesPlan == Spec => []CommittedIndexed
<1>1. EditInv => CommittedIndexed
  BY DEF EditInv, EditFollowed, CommittedIndexed, Planned
<1>. QED
  BY <1>1, EditInvariance, PTL

(* No file enters done but by commit_plan's write of it.                    *)
LEMMA DoneStep ==
  ASSUME [Next]_vars
  PROVE  done' \subseteq done \/ \E p \in Paths : WriteFile(p)
<1>. USE DEF planVars
<1>1. CASE UNCHANGED vars
  BY <1>1 DEF vars
<1>2. CASE External
  BY <1>2 DEF External, ExternalWrite, ExternalGit, Deliver, DeliverAgain, Observe
<1>3. ASSUME NEW c \in Clients, Request(c)
      PROVE  done' \subseteq done
  <2>1. CASE Release(c) \/ Fail(c) \/ EditApplied(c)
    BY <2>1 DEF Release, Fail, EditApplied, LeaveWriter, ForgetPlan
  <2>2. CASE ReconcilePending(c) \/ Refresh(c) \/ CodeEdit(c) \/ GitRead(c)
               \/ \E o \in GitMutations : GitMutate(c, o)
    BY <2>2 DEF ReconcilePending, Refresh, CodeEdit, GitRead, GitMutate, Call
  <2>3. CASE MutateRepository(c) \/ MutationFails(c) \/ AcquireWriter(c) \/ DetachedEnds(c)
    BY <2>3 DEF MutateRepository, MutationFails, AcquireWriter, DetachedEnds
  <2>4. CASE ValidationEnds(c) \/ ValidationDetaches(c)
    BY <2>4 DEF ValidationEnds, ValidationDetaches, LeaveValidation
  <2>. QED
    BY <1>3, <2>1, <2>2, <2>3, <2>4 DEF Request
<1>4. CASE WriterStep
  <2>1. CASE DrainSwap \/ DrainTake \/ ReconcileFails \/ ReconcilePublish \/ PlanEdit
               \/ PlanEnds \/ WriteFails
    BY <2>1 DEF DrainSwap, DrainTake, ReconcileFails, ReconcilePublish, PlanEdit, PlanEnds,
                WriteFails
  <2>2. CASE CommitStatus \/ CommitPublish \/ CommitRefreshFails \/ UndoOver \/ UndoPublish
               \/ UndoRefreshFails
    BY <2>2 DEF CommitStatus, CommitPublish, CommitRefreshFails, UndoOver, UndoPublish,
                UndoRefreshFails
  <2>3. CASE ClearPaths \/ LowerFlag \/ ScanFails \/ ScanPublish \/ RefreshRepoStatus
    BY <2>3 DEF ClearPaths, LowerFlag, ScanFails, ScanPublish, RefreshRepoStatus
  <2>4. ASSUME NEW p \in Paths, PathStep(p)
        PROVE  done' \subseteq done \/ WriteFile(p)
    BY <2>4 DEF PathStep, RefreshPath, RecheckPath, UndoFile, UndoFails, ScanPath
  <2>. QED
    BY <1>4, <2>1, <2>2, <2>3, <2>4 DEF WriterStep
<1>. QED
  BY <1>1, <1>2, <1>3, <1>4 DEF Next

(* commit_plan replaces only what the edit was planned against, unless      *)
(* somebody wrote the file after recheck_preconditions: a reconcile, a      *)
(* restore or another edit cannot come between.                             *)
THEOREM NothingElseOverwritten == Spec => OverwriteOnlyRaces
<1>1. EditInv /\ [Next]_vars
        => [\A p \in done' \ done : disk[p] = before[p] \/ p \in raced]_vars
  <2>. SUFFICES ASSUME EditInv, [Next]_vars, NEW q \in done' \ done
                PROVE  disk[q] = before[q] \/ q \in raced
    OBVIOUS
  <2>1. PICK p \in Paths : WriteFile(p)
    BY DoneStep
  <2>2. p = q /\ wpc = "write" /\ p \in Planned \ done
    BY <2>1 DEF WriteFile
  <2>. QED
    BY <2>2 DEF EditInv, EditFollowed
<1>. QED
  BY <1>1, EditInvariance, PTL DEF Spec, OverwriteOnlyRaces

=============================================================================
