------------------------ MODULE UploadPipelineProofs ------------------------
(***************************************************************************)
(* Proofs about UploadPipeline, for every number of instances, batches,    *)
(* chunks, cancellations, crashes and failing database calls.              *)
(***************************************************************************)
EXTENDS UploadPipelineInv, TLAPS

\* The worker's steps leave every variable of the right type.
LEMMA WorkerType ==
  ASSUME TypeOK, NEW b \in Batch, WorkerStep(b)
  PROVE  TypeOK'
<1> USE ChunksAssumption, BoundsAssumption
<1> USE DEF TypeOK, dbVars, workerVars, memVars, boundVars, historyVars,
            GoTo, SetStatus, Fault, DeleteRows, Status, Active, Aborted,
            Terminal, PC, Row, Table
<1>1. CASE CheckNoOtherUpload(b)
  <2>1. faults' \in Nat
    BY <1>1 DEF CheckNoOtherUpload, NoUploadBut
  <2> QED
    BY <1>1, <2>1 DEF CheckNoOtherUpload
<1>2. CASE RejectWorker(b)
  BY <1>2 DEF RejectWorker
<1>3. CASE TryAcquireAdvisoryLock(b)
  BY <1>3, AdvisoryLockAssumption DEF TryAcquireAdvisoryLock
<1>4. CASE ParseFile(b) \/ CheckDateWindow(b) \/ ResolveMasters(b) \/ ValidateRows(b)
           \/ CheckBeforePromotion(b) \/ CheckBeforeAggregation(b) \/ Aggregate(b)
  BY <1>4 DEF ParseFile, CheckDateWindow, ResolveMasters, ValidateRows,
              CheckBeforePromotion, CheckBeforeAggregation, Aggregate, Step
<1>5. ASSUME NEW t \in Table, CheckChunk(b, t)
      PROVE  TypeOK'
  <2>1. /\ faults' \in Nat
        /\ pc' \in [Batch -> PC]
    BY <1>5 DEF CheckChunk, AfterRaise
  <2>2. idx' \in [Batch -> Nat \ {0}]
    <3>1. idx' = idx \/ idx' = [idx EXCEPT ![b] = 1]
      BY ONLY <1>5 DEF CheckChunk
    <3> QED
      BY <3>1
  <2>4. checked' \in [Batch -> BOOLEAN]
    <3>1. checked' = checked \/ checked' = [checked EXCEPT ![b] = TRUE]
      BY ONLY <1>5 DEF CheckChunk
    <3> QED
      BY <3>1
  <2>3. known' \in [Instance -> SUBSET Batch]
    <3>1. host[b] \in Instance /\ known[host[b]] \cup {b} \in SUBSET Batch
      OBVIOUS
    <3> QED
      BY <1>5, <3>1 DEF CheckChunk
  <2> QED
    BY <1>5, <2>1, <2>2, <2>3, <2>4 DEF CheckChunk
<1>6. ASSUME NEW t \in Table, WriteChunk(b, t)
      PROVE  TypeOK'
  BY <1>6 DEF WriteChunk, AfterTable, Part
<1>7. ASSUME NEW t \in Table, FailChunk(b, t)
      PROVE  TypeOK'
  BY <1>7 DEF FailChunk, AfterRaise, Part
<1>8. CASE Promote(b)
  BY <1>8 DEF Promote
<1>9. CASE PopulateUserSalesFact(b)
  BY <1>9 DEF PopulateUserSalesFact
<1>10. CASE Load(b)
  BY <1>10 DEF Load
<1>11. CASE WorkerCleanup(b)
  <2>1. faults' \in Nat /\ rows' \subseteq Row /\ torn' \subseteq Row /\ damaged' \subseteq Batch
    BY ONLY <1>11, TypeOK, BoundsAssumption
       DEF WorkerCleanup, CleanupFailedBatch, Purge, DeleteRows, Fault, TypeOK
  <2>2. pc' \in [Batch -> PC]
    BY ONLY <1>11, TypeOK DEF WorkerCleanup, GoTo, PC, TypeOK
  <2> QED
    BY <1>11, <2>1, <2>2 DEF WorkerCleanup
<1>12. CASE MarkFailed(b)
  BY <1>12 DEF MarkFailed
<1>13. CASE HandlerRelease(b) \/ FinallyRelease(b)
  <2>1. lock' \in BOOLEAN
    BY ONLY <1>13 DEF HandlerRelease, FinallyRelease, ReleasePipelineLock
  <2> QED
    BY <1>13, <2>1 DEF HandlerRelease, FinallyRelease, ReleasePipelineLock
<1> HIDE DEF TypeOK
<1> QED
  BY ONLY WorkerStep(b),
     <1>1, <1>2, <1>3, <1>4, <1>5, <1>6, <1>7, <1>8, <1>9, <1>10, <1>11,
     <1>12, <1>13 DEF WorkerStep

\* So do the steps of an instance.
LEMMA InstanceType ==
  ASSUME TypeOK, NEW i \in Instance, InstanceStep(i)
  PROVE  TypeOK'
<1> USE ChunksAssumption, BoundsAssumption
<1> USE DEF TypeOK, dbVars, workerVars, memVars, boundVars, historyVars,
            GoTo, SetStatus, Fault, DeleteRows, Status, Active, Aborted,
            Terminal, PC, Row, Table
<1>1. CASE PassGate(i)
  <2>1. faults' \in Nat /\ reading' \in [Instance -> Nat]
    BY <1>1 DEF PassGate, NoUploadBut
  <2> QED
    BY <1>1, <2>1 DEF PassGate
<1>2. CASE DropUpload(i)
  BY <1>2 DEF DropUpload
<1>3. CASE ClearLocks(i)
  <2>1. lock' \in BOOLEAN
    BY ONLY <1>3 DEF ClearLocks
  <2> QED
    BY <1>3, <2>1 DEF ClearLocks
<1>4. CASE Crash(i)
  <2>1. pc' \in [Batch -> PC]
    BY <1>4 DEF Crash
  <2>2. /\ up' \in [Instance -> BOOLEAN]
        /\ known' \in [Instance -> SUBSET Batch]
        /\ cancelling' \in [Instance -> SUBSET Batch]
        /\ resetting' \in [Instance -> SUBSET Batch]
        /\ damaged' \subseteq Batch
    BY <1>4 DEF Crash
  <2> QED
    BY <1>4, <2>1, <2>2 DEF Crash
<1>5. CASE StartInstance(i)
  <2>1. Orphans \subseteq Batch
    BY DEF Orphans
  <2> QED
    BY <1>5, <2>1 DEF StartInstance
<1>6. ASSUME NEW b \in Batch, CreateInitialBatch(i, b)
      PROVE  TypeOK'
  BY <1>6 DEF CreateInitialBatch
<1>7. ASSUME NEW b \in Batch, ResetStale(i, b)
      PROVE  TypeOK'
  BY <1>7 DEF ResetStale
<1>8. ASSUME NEW b \in Batch, PurgeReset(i, b)
      PROVE  TypeOK'
  BY <1>8 DEF PurgeReset, PurgeUntilError, Purge
<1>9. ASSUME NEW b \in Batch, CancelBatch(i, b)
      PROVE  TypeOK'
  BY <1>9 DEF CancelBatch
<1>10. ASSUME NEW b \in Batch, FinishCancel(i, b)
       PROVE  TypeOK'
  <2>1. lock' \in BOOLEAN
    BY ONLY <1>10 DEF FinishCancel
  <2> QED
    BY <1>10, <2>1 DEF FinishCancel, CleanupFailedBatch, Purge
<1> QED
  BY ONLY InstanceStep(i),
     <1>1, <1>2, <1>3, <1>4, <1>5, <1>6, <1>7, <1>8, <1>9, <1>10
  DEF InstanceStep

LEMMA TypeStep ==
  ASSUME TypeOK, [Next]_vars
  PROVE  TypeOK'
<1>1. ASSUME NEW b \in Batch, Age(b)
      PROVE  TypeOK'
  BY <1>1 DEF Age, TypeOK, workerVars, memVars, boundVars, historyVars
<1>2. CASE UNCHANGED vars
  BY <1>2 DEF TypeOK, vars, dbVars, workerVars, memVars, boundVars, historyVars
<1> QED
  BY <1>1, <1>2, WorkerType, InstanceType DEF Next

LEMMA TypeInit == Init => TypeOK
<1>1. (CHOOSE i \in Instance : TRUE) \in Instance
  BY BoundsAssumption
<1> SUFFICES ASSUME Init PROVE TypeOK
  OBVIOUS
<1>2. /\ lock \in BOOLEAN
      /\ checked \in [Batch -> BOOLEAN]
      /\ up \in [Instance -> BOOLEAN]
  BY Zenon DEF Init
<1>3. /\ status \in [Batch -> Status]
      /\ pc \in [Batch -> PC]
      /\ host \in [Batch -> Instance]
      /\ idx \in [Batch -> Nat \ {0}]
      /\ reading \in [Instance -> Nat]
  BY <1>1 DEF Init, Status, PC
<1>4. /\ known \in [Instance -> SUBSET Batch]
      /\ cancelling \in [Instance -> SUBSET Batch]
      /\ resetting \in [Instance -> SUBSET Batch]
  BY DEF Init
<1> QED
  BY <1>2, <1>3, <1>4 DEF Init, TypeOK

\* Type correctness, for any number of instances, batches and chunks.
THEOREM TypeCorrect == Spec => []TypeOK
<1> QED
  BY TypeInit, TypeStep, PTL DEF Spec

-----------------------------------------------------------------------------
(***************************************************************************)
(* The parts of the invariant that only the control state bears on.        *)
(***************************************************************************)

LEMMA StatusStep ==
  ASSUME TypeOK, \A b \in Batch : StatusFollowsWorker(b), [Next]_vars
  PROVE  \A b \in Batch : StatusFollowsWorker(b)'
<1> SUFFICES ASSUME NEW c \in Batch
             PROVE  StatusFollowsWorker(c)'
  OBVIOUS
<1> USE DEF TypeOK, StatusFollowsWorker, dbVars, workerVars, memVars, vars,
            boundVars, historyVars, GoTo, SetStatus, Table
<1>1. ASSUME NEW b \in Batch, WorkerStep(b)
      PROVE  StatusFollowsWorker(c)'
  <2>1. CASE \/ CheckNoOtherUpload(b) \/ TryAcquireAdvisoryLock(b) \/ ParseFile(b)
             \/ CheckDateWindow(b) \/ ResolveMasters(b) \/ ValidateRows(b)
             \/ CheckBeforePromotion(b)
             \/ CheckBeforeAggregation(b) \/ Aggregate(b) \/ PopulateUserSalesFact(b)
    BY <2>1 DEF CheckNoOtherUpload, TryAcquireAdvisoryLock, ParseFile, CheckDateWindow,
                ResolveMasters,
                ValidateRows, CheckBeforePromotion, CheckBeforeAggregation, Aggregate,
                PopulateUserSalesFact, Step
  <2>2. CASE RejectWorker(b) \/ Promote(b) \/ Load(b) \/ MarkFailed(b)
    BY <2>2 DEF RejectWorker, Promote, Load, MarkFailed
  <2>3. CASE WorkerCleanup(b) \/ HandlerRelease(b) \/ FinallyRelease(b)
    BY <2>3 DEF WorkerCleanup, HandlerRelease, FinallyRelease
  <2>4. ASSUME NEW t \in Table, CheckChunk(b, t) \/ WriteChunk(b, t) \/ FailChunk(b, t)
        PROVE  StatusFollowsWorker(c)'
    BY <2>4 DEF CheckChunk, WriteChunk, FailChunk, AfterRaise, AfterTable
  <2> QED
    BY ONLY <1>1, <2>1, <2>2, <2>3, <2>4 DEF WorkerStep
<1>2. ASSUME NEW i \in Instance, InstanceStep(i)
      PROVE  StatusFollowsWorker(c)'
  <2>1. CASE PassGate(i) \/ DropUpload(i) \/ ClearLocks(i)
    BY <2>1 DEF PassGate, DropUpload, ClearLocks
  <2>2. CASE Crash(i) \/ StartInstance(i)
    BY <2>2 DEF Crash, StartInstance, Orphans
  <2>3. ASSUME NEW b \in Batch,
               \/ CreateInitialBatch(i, b) \/ ResetStale(i, b) \/ PurgeReset(i, b)
               \/ CancelBatch(i, b) \/ FinishCancel(i, b)
        PROVE  StatusFollowsWorker(c)'
    BY <2>3 DEF CreateInitialBatch, ResetStale, PurgeReset, CancelBatch, FinishCancel,
                StaleAhead, Active
  <2> QED
    BY ONLY <1>2, <2>1, <2>2, <2>3 DEF InstanceStep
<1> QED
  BY <1>1, <1>2 DEF Next, Age

LEMMA LoopsStep ==
  ASSUME TypeOK, [Next]_vars,
         \A b \in Batch : StatusFollowsWorker(b) /\ LoopsStartAtOne(b)
  PROVE  \A b \in Batch : LoopsStartAtOne(b)'
<1> SUFFICES ASSUME NEW c \in Batch
             PROVE  LoopsStartAtOne(c)'
  OBVIOUS
<1> USE DEF TypeOK, LoopsStartAtOne, dbVars, workerVars, memVars, vars,
            boundVars, historyVars, GoTo, Table
<1>1. ASSUME NEW b \in Batch, WorkerStep(b)
      PROVE  LoopsStartAtOne(c)'
  <2>1. CASE \/ CheckNoOtherUpload(b) \/ TryAcquireAdvisoryLock(b) \/ ParseFile(b)
             \/ CheckDateWindow(b) \/ ResolveMasters(b) \/ ValidateRows(b)
             \/ CheckBeforePromotion(b)
             \/ CheckBeforeAggregation(b) \/ Aggregate(b) \/ PopulateUserSalesFact(b)
    BY <2>1 DEF CheckNoOtherUpload, TryAcquireAdvisoryLock, ParseFile, CheckDateWindow,
                ResolveMasters,
                ValidateRows, CheckBeforePromotion, CheckBeforeAggregation, Aggregate,
                PopulateUserSalesFact, Step
  <2>2. CASE RejectWorker(b) \/ Promote(b) \/ Load(b) \/ MarkFailed(b)
    BY <2>2 DEF RejectWorker, Promote, Load, MarkFailed
  <2>3. CASE WorkerCleanup(b) \/ HandlerRelease(b) \/ FinallyRelease(b)
    BY <2>3 DEF WorkerCleanup, HandlerRelease, FinallyRelease
  <2>4. ASSUME NEW t \in Table, CheckChunk(b, t) \/ WriteChunk(b, t) \/ FailChunk(b, t)
        PROVE  LoopsStartAtOne(c)'
    BY <2>4 DEF CheckChunk, WriteChunk, FailChunk
  <2> QED
    BY ONLY <1>1, <2>1, <2>2, <2>3, <2>4 DEF WorkerStep
<1>2. ASSUME NEW i \in Instance, InstanceStep(i)
      PROVE  LoopsStartAtOne(c)'
  <2>1. CASE PassGate(i) \/ DropUpload(i) \/ ClearLocks(i) \/ Crash(i) \/ StartInstance(i)
    BY <2>1 DEF PassGate, DropUpload, ClearLocks, Crash, StartInstance
  <2>2. ASSUME NEW b \in Batch,
               \/ CreateInitialBatch(i, b) \/ ResetStale(i, b) \/ PurgeReset(i, b)
               \/ CancelBatch(i, b) \/ FinishCancel(i, b)
        PROVE  LoopsStartAtOne(c)'
    BY <2>2 DEF CreateInitialBatch, ResetStale, PurgeReset, CancelBatch, FinishCancel,
                StatusFollowsWorker
  <2> QED
    BY ONLY <1>2, <2>1, <2>2 DEF InstanceStep
<1> QED
  BY <1>1, <1>2 DEF Next, Age

LEMMA LockStep ==
  ASSUME TypeOK, \A b \in Batch : StatusFollowsWorker(b), LockHasHolder, [Next]_vars
  PROVE  LockHasHolder'
<1> USE DEF TypeOK, LockHasHolder, StatusFollowsWorker, dbVars, workerVars, memVars,
            vars, boundVars, historyVars, GoTo, Table
<1>1. ASSUME NEW b \in Batch, WorkerStep(b)
      PROVE  LockHasHolder'
  <2>1. CASE \/ CheckNoOtherUpload(b) \/ TryAcquireAdvisoryLock(b) \/ ParseFile(b)
             \/ CheckDateWindow(b) \/ ResolveMasters(b) \/ ValidateRows(b)
             \/ CheckBeforePromotion(b)
             \/ CheckBeforeAggregation(b) \/ Aggregate(b) \/ PopulateUserSalesFact(b)
    BY <2>1 DEF CheckNoOtherUpload, TryAcquireAdvisoryLock, ParseFile, CheckDateWindow,
                ResolveMasters,
                ValidateRows, CheckBeforePromotion, CheckBeforeAggregation, Aggregate,
                PopulateUserSalesFact, Step
  <2>2. CASE RejectWorker(b) \/ Promote(b) \/ Load(b) \/ MarkFailed(b)
    BY <2>2 DEF RejectWorker, Promote, Load, MarkFailed
  <2>3. CASE WorkerCleanup(b) \/ HandlerRelease(b) \/ FinallyRelease(b)
    BY <2>3 DEF WorkerCleanup, HandlerRelease, FinallyRelease, ReleasePipelineLock
  <2>4. ASSUME NEW t \in Table, CheckChunk(b, t) \/ WriteChunk(b, t) \/ FailChunk(b, t)
        PROVE  LockHasHolder'
    <3>1. lock' = lock /\ pc'[b] \notin {"none", "queued", "locking", "done"}
      BY <2>4 DEF CheckChunk, WriteChunk, FailChunk, AfterRaise, AfterTable
    <3> QED
      BY <3>1
  <2> QED
    BY ONLY <1>1, <2>1, <2>2, <2>3, <2>4 DEF WorkerStep
<1>2. ASSUME NEW i \in Instance, InstanceStep(i)
      PROVE  LockHasHolder'
  <2>1. CASE PassGate(i) \/ DropUpload(i) \/ ClearLocks(i) \/ StartInstance(i)
    BY <2>1 DEF PassGate, DropUpload, ClearLocks, StartInstance
  <2>3. CASE Crash(i)
    <3> SUFFICES ASSUME lock
                 PROVE  \E b \in Batch : pc'[b] \notin {"none", "queued", "locking", "done"}
      BY <2>3 DEF Crash
    <3>1. PICK b \in Batch : pc[b] \notin {"none", "queued", "locking", "done"}
      OBVIOUS
    <3>2. pc'[b] \in {pc[b], "dead"}
      BY <2>3, <3>1 DEF Crash
    <3> QED
      BY <3>1, <3>2
  <2>2. ASSUME NEW b \in Batch,
               \/ CreateInitialBatch(i, b) \/ ResetStale(i, b) \/ PurgeReset(i, b)
               \/ CancelBatch(i, b) \/ FinishCancel(i, b)
        PROVE  LockHasHolder'
    BY <2>2 DEF CreateInitialBatch, ResetStale, PurgeReset, CancelBatch, FinishCancel
  <2> QED
    BY ONLY <1>2, <2>1, <2>2, <2>3 DEF InstanceStep
<1> QED
  BY <1>1, <1>2 DEF Next, Age

LEMMA PurgesStep ==
  ASSUME TypeOK, PurgesInterrupt, [Next]_vars
  PROVE  PurgesInterrupt'
<1> USE DEF TypeOK, PurgesInterrupt, dbVars, workerVars, memVars, vars, boundVars,
            historyVars
<1>1. ASSUME NEW b \in Batch, WorkerStep(b)
      PROVE  PurgesInterrupt'
  <2>1. UNCHANGED <<cancelling, resetting, interrupted>>
    BY <1>1 DEF WorkerStep,
         CheckNoOtherUpload, TryAcquireAdvisoryLock, ParseFile, CheckDateWindow,
         ResolveMasters,
         ValidateRows, CheckBeforePromotion, CheckBeforeAggregation, Aggregate,
         PopulateUserSalesFact, Step, RejectWorker, Promote, Load, MarkFailed,
         WorkerCleanup, HandlerRelease, FinallyRelease, CheckChunk, WriteChunk,
         FailChunk
  <2> QED
    BY <2>1
<1>2. ASSUME NEW i \in Instance, InstanceStep(i)
      PROVE  PurgesInterrupt'
  <2>1. CASE PassGate(i) \/ DropUpload(i) \/ ClearLocks(i) \/ Crash(i) \/ StartInstance(i)
    BY <2>1 DEF PassGate, DropUpload, ClearLocks, Crash, StartInstance
  <2>2. ASSUME NEW b \in Batch,
               \/ CreateInitialBatch(i, b) \/ ResetStale(i, b) \/ PurgeReset(i, b)
               \/ CancelBatch(i, b) \/ FinishCancel(i, b)
        PROVE  PurgesInterrupt'
    BY <2>2 DEF CreateInitialBatch, ResetStale, PurgeReset, CancelBatch, FinishCancel
  <2> QED
    BY ONLY <1>2, <2>1, <2>2 DEF InstanceStep
<1> QED
  BY <1>1, <1>2 DEF Next, Age

LEMMA DownStep ==
  ASSUME TypeOK, DownIsIdle, [Next]_vars
  PROVE  DownIsIdle'
<1> USE DEF TypeOK, DownIsIdle, dbVars, workerVars, memVars, vars, boundVars,
            historyVars
<1>1. ASSUME NEW b \in Batch, WorkerStep(b)
      PROVE  DownIsIdle'
  <2>1. UNCHANGED <<cancelling, resetting, up>>
    BY <1>1 DEF WorkerStep,
         CheckNoOtherUpload, TryAcquireAdvisoryLock, ParseFile, CheckDateWindow,
         ResolveMasters,
         ValidateRows, CheckBeforePromotion, CheckBeforeAggregation, Aggregate,
         PopulateUserSalesFact, Step, RejectWorker, Promote, Load, MarkFailed,
         WorkerCleanup, HandlerRelease, FinallyRelease, CheckChunk, WriteChunk,
         FailChunk
  <2> QED
    BY <2>1
<1>2. ASSUME NEW i \in Instance, InstanceStep(i)
      PROVE  DownIsIdle'
  <2>1. CASE PassGate(i) \/ DropUpload(i) \/ ClearLocks(i) \/ Crash(i) \/ StartInstance(i)
    BY <2>1 DEF PassGate, DropUpload, ClearLocks, Crash, StartInstance
  <2>2. ASSUME NEW b \in Batch,
               \/ CreateInitialBatch(i, b) \/ ResetStale(i, b) \/ PurgeReset(i, b)
               \/ CancelBatch(i, b) \/ FinishCancel(i, b)
        PROVE  DownIsIdle'
    BY <2>2 DEF CreateInitialBatch, ResetStale, PurgeReset, CancelBatch, FinishCancel
  <2> QED
    BY ONLY <1>2, <2>1, <2>2 DEF InstanceStep
<1> QED
  BY <1>1, <1>2 DEF Next, Age

-----------------------------------------------------------------------------
(***************************************************************************)
(* Who believes a batch cancelled, and what the workers leave in its row.  *)
(***************************************************************************)

\* A worker's step touches none of the variables that record interference;
\* what it may add to `damaged` it never removes.
LEMMA WorkerFrame ==
  ASSUME TypeOK, NEW b \in Batch, WorkerStep(b)
  PROVE  /\ UNCHANGED <<cancelling, resetting, interrupted, rolledBack, host>>
         /\ damaged \subseteq damaged'
<1> USE DEF dbVars, workerVars, memVars, boundVars, historyVars, SetStatus
<1>1. ASSUME NEW t \in Table, CheckChunk(b, t) \/ WriteChunk(b, t) \/ FailChunk(b, t)
      PROVE  UNCHANGED <<cancelling, resetting, interrupted, rolledBack, host, damaged>>
  BY <1>1 DEF CheckChunk, WriteChunk, FailChunk
<1>2. CASE \/ CheckNoOtherUpload(b) \/ TryAcquireAdvisoryLock(b) \/ ParseFile(b)
           \/ CheckDateWindow(b) \/ ResolveMasters(b) \/ ValidateRows(b)
           \/ CheckBeforePromotion(b)
           \/ CheckBeforeAggregation(b) \/ Aggregate(b) \/ PopulateUserSalesFact(b)
           \/ HandlerRelease(b) \/ FinallyRelease(b)
  BY <1>2 DEF CheckNoOtherUpload, TryAcquireAdvisoryLock, ParseFile, CheckDateWindow,
              ResolveMasters,
              ValidateRows, CheckBeforePromotion, CheckBeforeAggregation, Aggregate,
              PopulateUserSalesFact, Step, HandlerRelease, FinallyRelease
<1>3. CASE RejectWorker(b) \/ Promote(b) \/ Load(b) \/ MarkFailed(b)
  BY <1>3 DEF RejectWorker, Promote, Load, MarkFailed
<1>4. CASE WorkerCleanup(b)
  BY <1>4 DEF WorkerCleanup, CleanupFailedBatch, Purge
<1> QED
  BY ONLY WorkerStep(b), <1>1, <1>2, <1>3, <1>4 DEF WorkerStep

\* Once a user has cancelled a batch, that stays on record.
LEMMA CancellationStays ==
  ASSUME TypeOK, NEW c \in Batch, UserCancelled(c), [Next]_vars
  PROVE  UserCancelled(c)'
<1> USE DEF TypeOK, UserCancelled, dbVars, workerVars, memVars, vars, boundVars,
            historyVars, SetStatus
<1>1. ASSUME NEW b \in Batch, WorkerStep(b)
      PROVE  UserCancelled(c)'
  BY <1>1, WorkerFrame
<1>2. ASSUME NEW i \in Instance, InstanceStep(i)
      PROVE  UserCancelled(c)'
  <2>1. CASE PassGate(i) \/ DropUpload(i) \/ ClearLocks(i) \/ Crash(i) \/ StartInstance(i)
    BY <2>1 DEF PassGate, DropUpload, ClearLocks, Crash, StartInstance
  <2>2. ASSUME NEW b \in Batch,
               \/ CreateInitialBatch(i, b) \/ ResetStale(i, b) \/ PurgeReset(i, b)
               \/ CancelBatch(i, b) \/ FinishCancel(i, b)
        PROVE  UserCancelled(c)'
    BY <2>2 DEF CreateInitialBatch, ResetStale, PurgeReset, CancelBatch, FinishCancel,
                PurgeUntilError, CleanupFailedBatch, Purge
  <2> QED
    BY ONLY <1>2, <2>1, <2>2 DEF InstanceStep
<1> QED
  BY <1>1, <1>2 DEF Next, Age

LEMMA BeliefStep ==
  ASSUME TypeOK, [Next]_vars,
         \A b \in Batch : StatusFollowsWorker(b) /\ BeliefIsJustified(b)
  PROVE  \A b \in Batch : BeliefIsJustified(b)'
<1> SUFFICES ASSUME NEW c \in Batch, ~UserCancelled(c)', NEW k \in Instance,
                    (c \in known[k])'
             PROVE  /\ k = host'[c]
                    /\ status'[c] \in Aborted
                    /\ pc'[c] \in {"mapped", "cancel_cleanup", "cancel_release",
                                   "release", "done", "dead"}
  BY DEF BeliefIsJustified
<1>1. ~UserCancelled(c)
  BY CancellationStays
<1>2. c \in known[k] =>
         /\ k = host[c]
         /\ status[c] \in Aborted
         /\ pc[c] \in {"mapped", "cancel_cleanup", "cancel_release",
                       "release", "done", "dead"}
  BY <1>1 DEF BeliefIsJustified
<1> USE DEF TypeOK, StatusFollowsWorker, dbVars, workerVars, memVars, vars,
            boundVars, historyVars, GoTo, Table, Active, Aborted
<1>3. ASSUME NEW b \in Batch, WorkerStep(b)
      PROVE  /\ k = host'[c]
             /\ status'[c] \in Aborted
             /\ pc'[c] \in {"mapped", "cancel_cleanup", "cancel_release",
                            "release", "done", "dead"}
  <2>1. CASE \/ CheckNoOtherUpload(b) \/ TryAcquireAdvisoryLock(b) \/ ParseFile(b)
             \/ CheckDateWindow(b) \/ ResolveMasters(b) \/ ValidateRows(b)
             \/ CheckBeforePromotion(b)
             \/ CheckBeforeAggregation(b) \/ Aggregate(b) \/ PopulateUserSalesFact(b)
    BY <1>2, <2>1
    DEF CheckNoOtherUpload, TryAcquireAdvisoryLock, ParseFile, CheckDateWindow,
        ResolveMasters,
        ValidateRows, CheckBeforePromotion, CheckBeforeAggregation, Aggregate,
        PopulateUserSalesFact, Step, IsBatchCancelled
  <2>2. CASE RejectWorker(b) \/ Promote(b) \/ Load(b) \/ MarkFailed(b)
    BY <1>2, <2>2 DEF RejectWorker, Promote, Load, MarkFailed, SetStatus
  <2>3. CASE WorkerCleanup(b) \/ HandlerRelease(b) \/ FinallyRelease(b)
    BY <1>2, <2>3 DEF WorkerCleanup, HandlerRelease, FinallyRelease
  <2>4. ASSUME NEW t \in Table, CheckChunk(b, t)
        PROVE  /\ k = host'[c]
               /\ status'[c] \in Aborted
               /\ pc'[c] \in {"mapped", "cancel_cleanup", "cancel_release",
                              "release", "done", "dead"}
    BY <1>2, <2>4 DEF CheckChunk, AfterRaise, AbortSeenInDB, IsBatchCancelled
  <2>5. ASSUME NEW t \in Table, WriteChunk(b, t) \/ FailChunk(b, t)
        PROVE  /\ k = host'[c]
               /\ status'[c] \in Aborted
               /\ pc'[c] \in {"mapped", "cancel_cleanup", "cancel_release",
                              "release", "done", "dead"}
    BY <1>2, <2>5 DEF WriteChunk, FailChunk
  <2> QED
    BY ONLY <1>3, <2>1, <2>2, <2>3, <2>4, <2>5 DEF WorkerStep
<1>4. ASSUME NEW i \in Instance, InstanceStep(i)
      PROVE  /\ k = host'[c]
             /\ status'[c] \in Aborted
             /\ pc'[c] \in {"mapped", "cancel_cleanup", "cancel_release",
                            "release", "done", "dead"}
  <2>1. CASE PassGate(i) \/ DropUpload(i) \/ ClearLocks(i) \/ Crash(i) \/ StartInstance(i)
    BY <1>2, <2>1 DEF PassGate, DropUpload, ClearLocks, Crash, StartInstance, Orphans
  <2>2. ASSUME NEW b \in Batch,
               \/ CreateInitialBatch(i, b) \/ ResetStale(i, b) \/ PurgeReset(i, b)
               \/ FinishCancel(i, b)
        PROVE  /\ k = host'[c]
               /\ status'[c] \in Aborted
               /\ pc'[c] \in {"mapped", "cancel_cleanup", "cancel_release",
                              "release", "done", "dead"}
    BY <1>2, <2>2 DEF CreateInitialBatch, ResetStale, PurgeReset, FinishCancel,
                      SetStatus, StaleAhead
  <2>3. ASSUME NEW b \in Batch, CancelBatch(i, b)
        PROVE  b # c /\ status'[c] = status[c] /\ pc'[c] = pc[c]
               /\ host'[c] = host[c] /\ c \in known[k]
    BY <2>3 DEF CancelBatch, UserCancelled, SetStatus
  <2> QED
    BY ONLY <1>2, <1>4, <2>1, <2>2, <2>3 DEF InstanceStep
<1> QED
  BY <1>2, <1>3, <1>4 DEF Next, Age

LEMMA ExitsStep ==
  ASSUME TypeOK, [Next]_vars,
         \A b \in Batch : /\ StatusFollowsWorker(b)
                         /\ BeliefIsJustified(b)
                         /\ ExitsAreSettled(b)
  PROVE  \A b \in Batch : ExitsAreSettled(b)'
<1> DEFINE Exits == {"cancel_cleanup", "cancel_release", "reject_release",
                     "release", "done"}
<1> SUFFICES ASSUME NEW c \in Batch, ~UserCancelled(c)', pc'[c] \in Exits
             PROVE  status'[c] \notin Active
  BY DEF ExitsAreSettled
<1>1. ~UserCancelled(c)
  BY CancellationStays
<1>2. pc[c] \in Exits => status[c] \notin Active
  BY <1>1 DEF ExitsAreSettled
<1>3. c \in known[host[c]] => status[c] \in Aborted
  BY <1>1 DEF BeliefIsJustified, TypeOK
<1>4. c \notin damaged'
  BY DEF UserCancelled
<1> USE DEF TypeOK, StatusFollowsWorker, dbVars, workerVars, memVars, vars,
            boundVars, historyVars, GoTo, Table, Active, Aborted
<1>5. ASSUME NEW b \in Batch, WorkerStep(b)
      PROVE  status'[c] \notin Active
  <2>1. CASE \/ CheckNoOtherUpload(b) \/ TryAcquireAdvisoryLock(b) \/ ParseFile(b)
             \/ CheckDateWindow(b) \/ ResolveMasters(b) \/ ValidateRows(b)
             \/ CheckBeforePromotion(b)
             \/ CheckBeforeAggregation(b) \/ Aggregate(b) \/ PopulateUserSalesFact(b)
    BY <1>2, <1>3, <2>1
    DEF CheckNoOtherUpload, TryAcquireAdvisoryLock, ParseFile, CheckDateWindow,
        ResolveMasters,
        ValidateRows, CheckBeforePromotion, CheckBeforeAggregation, Aggregate,
        PopulateUserSalesFact, Step, IsBatchCancelled
  <2>2. CASE RejectWorker(b) \/ Promote(b) \/ Load(b) \/ MarkFailed(b)
    BY <1>2, <1>4, <2>2 DEF RejectWorker, Promote, Load, MarkFailed, SetStatus
  <2>3. CASE WorkerCleanup(b) \/ HandlerRelease(b) \/ FinallyRelease(b)
    BY <1>2, <2>3 DEF WorkerCleanup, HandlerRelease, FinallyRelease
  <2>4. ASSUME NEW t \in Table, CheckChunk(b, t)
        PROVE  status'[c] \notin Active
    BY <1>2, <1>3, <2>4 DEF CheckChunk, AfterRaise, AbortSeenInDB, IsBatchCancelled
  <2>5. ASSUME NEW t \in Table, WriteChunk(b, t) \/ FailChunk(b, t)
        PROVE  status'[c] \notin Active
    BY <1>2, <2>5 DEF WriteChunk, FailChunk, AfterTable, AfterRaise
  <2> QED
    BY ONLY <1>5, <2>1, <2>2, <2>3, <2>4, <2>5 DEF WorkerStep
<1>6. ASSUME NEW i \in Instance, InstanceStep(i)
      PROVE  status'[c] \notin Active
  <2>1. CASE PassGate(i) \/ DropUpload(i) \/ ClearLocks(i) \/ Crash(i) \/ StartInstance(i)
    BY <1>2, <2>1 DEF PassGate, DropUpload, ClearLocks, Crash, StartInstance
  <2>2. ASSUME NEW b \in Batch,
               \/ CreateInitialBatch(i, b) \/ ResetStale(i, b) \/ PurgeReset(i, b)
               \/ CancelBatch(i, b) \/ FinishCancel(i, b)
        PROVE  status'[c] \notin Active
    BY <1>2, <2>2 DEF CreateInitialBatch, ResetStale, PurgeReset, CancelBatch,
                      FinishCancel, SetStatus
  <2> QED
    BY ONLY <1>6, <2>1, <2>2 DEF InstanceStep
<1> QED
  BY <1>2, <1>5, <1>6 DEF Next, Age

-----------------------------------------------------------------------------
(***************************************************************************)
(* The rows in the fact tables.                                            *)
(***************************************************************************)

\* Deleting a batch's rows leaves the other batches' alone.
LEMMA DeleteFacts ==
  ASSUME NEW b \in Batch, NEW tables, DeleteRows(b, tables), NEW c \in Batch
  PROVE  /\ c # b => FactsOf(c)' = FactsOf(c)
         /\ FactsOf(c)' \subseteq FactsOf(c)
         /\ FactTable \subseteq tables => FactsOf(b)' = {}
BY DEF DeleteRows, FactsOf

\* A purge leaves none of the batch's facts, or goes on record as failed.
LEMMA PurgeFacts ==
  ASSUME NEW b \in Batch, NEW failed, Purge(b, failed), NEW c \in Batch
  PROVE  /\ c # b => FactsOf(c)' = FactsOf(c)
         /\ FactsOf(c)' \subseteq FactsOf(c)
         /\ FactsOf(b)' = {} \/ b \in damaged'
         /\ damaged \subseteq damaged'
<1>1. CASE DeleteRows(b, Table) /\ UNCHANGED damaged
  BY <1>1, DeleteFacts DEF Table, FactTable
<1>2. CASE /\ \E kept \in failed : DeleteRows(b, Table \ kept)
           /\ damaged' = damaged \cup {b}
  BY <1>2, DeleteFacts
<1> QED
  BY <1>1, <1>2 DEF Purge

\* A chunk goes to its own batch; staging rows are no facts.
LEMMA ChunkFacts ==
  ASSUME NEW b \in Batch, NEW t \in Table, WriteChunk(b, t) \/ FailChunk(b, t),
         NEW c \in Batch, c # b \/ t = "raw"
  PROVE  FactsOf(c)' = FactsOf(c)
BY DEF WriteChunk, FailChunk, FactsOf, Part, FactTable

LEMMA FactsStep ==
  ASSUME TypeOK, DownIsIdle, [Next]_vars,
         \A b \in Batch : StatusFollowsWorker(b) /\ FactsFollowWorker(b)
  PROVE  \A b \in Batch : FactsFollowWorker(b)'
<1> SUFFICES ASSUME NEW c \in Batch
             PROVE  FactsFollowWorker(c)'
  OBVIOUS
<1>a. FactsFollowWorker(c)
  OBVIOUS
<1> USE DEF TypeOK, FactsFollowWorker, BeforeFacts, dbVars, workerVars, memVars, vars,
            boundVars, historyVars, GoTo, Table
<1>1. ASSUME NEW b \in Batch, WorkerStep(b)
      PROVE  FactsFollowWorker(c)'
  <2>0. /\ PurgePending(c)' = PurgePending(c)
        /\ damaged \subseteq damaged'
    BY <1>1, WorkerFrame DEF PurgePending
  <2>1. CASE \/ CheckNoOtherUpload(b) \/ TryAcquireAdvisoryLock(b) \/ ParseFile(b)
             \/ CheckDateWindow(b) \/ ResolveMasters(b) \/ ValidateRows(b)
             \/ CheckBeforePromotion(b)
             \/ CheckBeforeAggregation(b) \/ Aggregate(b)
    <3>1. FactsOf(c)' = FactsOf(c)
      BY <2>1 DEF CheckNoOtherUpload, TryAcquireAdvisoryLock, ParseFile, CheckDateWindow,
                  ResolveMasters,
                  ValidateRows, CheckBeforePromotion, CheckBeforeAggregation,
                  Aggregate, Step, FactsOf
    <3> QED
      BY <1>a, <2>0, <2>1, <3>1
      DEF CheckNoOtherUpload, TryAcquireAdvisoryLock, ParseFile, CheckDateWindow,
          ResolveMasters,
          ValidateRows, CheckBeforePromotion, CheckBeforeAggregation, Aggregate, Step
  <2>2. CASE RejectWorker(b) \/ Load(b) \/ MarkFailed(b)
    <3>1. FactsOf(c)' = FactsOf(c)
      BY <2>2 DEF RejectWorker, Load, MarkFailed, FactsOf
    <3> QED
      BY <1>a, <2>0, <2>2, <3>1 DEF RejectWorker, Load, MarkFailed, SetStatus
  <2>3. CASE Promote(b) \/ PopulateUserSalesFact(b)
    <3>1. c # b => FactsOf(c)' = FactsOf(c)
      BY <2>3, DeleteFacts DEF Promote, PopulateUserSalesFact, FactsOf
    <3> QED
      BY <1>a, <2>0, <2>3, <3>1 DEF Promote, PopulateUserSalesFact, SetStatus
  <2>4. CASE WorkerCleanup(b)
    <3>1. /\ c # b => FactsOf(c)' = FactsOf(c)
          /\ FactsOf(c)' \subseteq FactsOf(c)
          /\ FactsOf(b)' = {} \/ b \in damaged'
      BY <2>4, PurgeFacts DEF WorkerCleanup, CleanupFailedBatch
    <3> QED
      BY <1>a, <2>0, <2>4, <3>1 DEF WorkerCleanup
  <2>5. CASE HandlerRelease(b) \/ FinallyRelease(b)
    <3>1. FactsOf(c)' \subseteq FactsOf(c)
      BY <2>5, DeleteFacts DEF HandlerRelease, FinallyRelease, ReleasePipelineLock
    <3> QED
      BY <1>a, <2>0, <2>5, <3>1 DEF HandlerRelease, FinallyRelease
  <2>6. ASSUME NEW t \in Table, CheckChunk(b, t)
        PROVE  FactsFollowWorker(c)'
    <3>1. FactsOf(c)' = FactsOf(c)
      BY <2>6 DEF CheckChunk, FactsOf
    <3> QED
      BY <1>a, <2>0, <2>6, <3>1 DEF CheckChunk, AfterRaise
  <2>7. ASSUME NEW t \in Table, WriteChunk(b, t) \/ FailChunk(b, t)
        PROVE  FactsFollowWorker(c)'
    <3>1. c # b \/ t = "raw" => FactsOf(c)' = FactsOf(c)
      BY <2>7, ChunkFacts
    <3> QED
      BY <1>a, <2>0, <2>7, <3>1 DEF WriteChunk, FailChunk, AfterTable, AfterRaise
  <2> QED
    BY ONLY <1>1, <2>1, <2>2, <2>3, <2>4, <2>5, <2>6, <2>7 DEF WorkerStep
<1>2. ASSUME NEW i \in Instance, InstanceStep(i)
      PROVE  FactsFollowWorker(c)'
  <2>1. CASE PassGate(i) \/ DropUpload(i) \/ ClearLocks(i)
    <3>1. FactsOf(c)' = FactsOf(c) /\ PurgePending(c)' = PurgePending(c)
      BY <2>1 DEF PassGate, DropUpload, ClearLocks, FactsOf, PurgePending
    <3> QED
      BY <1>a, <2>1, <3>1 DEF PassGate, DropUpload, ClearLocks
  <2>2. CASE Crash(i)
    <3>1. FactsOf(c)' = FactsOf(c) /\ (PurgePending(c) => PurgePending(c)' \/ c \in damaged')
      BY <2>2 DEF Crash, FactsOf, PurgePending
    <3>2. pc'[c] \in {pc[c], "dead"} /\ status' = status /\ damaged \subseteq damaged'
      BY <2>2 DEF Crash
    <3> QED
      BY <1>a, <3>1, <3>2
  <2>3. CASE StartInstance(i)
    <3>1. FactsOf(c)' = FactsOf(c)
      BY <2>3 DEF StartInstance, FactsOf
    <3>2. PurgePending(c) => PurgePending(c)'
      BY <2>3 DEF StartInstance, PurgePending, DownIsIdle
    <3> QED
      BY <1>a, <2>3, <3>1, <3>2 DEF StartInstance, Orphans
  <2>4. ASSUME NEW b \in Batch, CreateInitialBatch(i, b)
        PROVE  FactsFollowWorker(c)'
    <3>1. FactsOf(c)' = FactsOf(c) /\ PurgePending(c)' = PurgePending(c)
      BY <2>4 DEF CreateInitialBatch, FactsOf, PurgePending
    <3> QED
      BY <1>a, <2>4, <3>1 DEF CreateInitialBatch, StatusFollowsWorker
  <2>5. ASSUME NEW b \in Batch, ResetStale(i, b) \/ CancelBatch(i, b)
        PROVE  FactsFollowWorker(c)'
    <3>1. FactsOf(c)' = FactsOf(c) /\ (PurgePending(c) => PurgePending(c)')
      BY <2>5 DEF ResetStale, CancelBatch, FactsOf, PurgePending
    <3>2. PurgePending(b)'
      BY <2>5 DEF ResetStale, CancelBatch, PurgePending
    <3> QED
      BY <1>a, <2>5, <3>1, <3>2 DEF ResetStale, CancelBatch, SetStatus
  <2>6. ASSUME NEW b \in Batch, PurgeReset(i, b) \/ FinishCancel(i, b)
        PROVE  FactsFollowWorker(c)'
    <3>1. /\ c # b => FactsOf(c)' = FactsOf(c)
          /\ FactsOf(c)' \subseteq FactsOf(c)
          /\ FactsOf(b)' = {} \/ b \in damaged'
          /\ damaged \subseteq damaged'
      BY <2>6, PurgeFacts DEF PurgeReset, FinishCancel, PurgeUntilError, CleanupFailedBatch
    <3>2. c # b /\ PurgePending(c) => PurgePending(c)'
      BY <2>6 DEF PurgeReset, FinishCancel, PurgePending
    <3> QED
      BY <1>a, <2>6, <3>1, <3>2 DEF PurgeReset, FinishCancel
  <2> QED
    BY ONLY <1>2, <2>1, <2>2, <2>3, <2>4, <2>5, <2>6 DEF InstanceStep
<1>3. CASE (\E b \in Batch : Age(b)) \/ UNCHANGED vars
  <2>1. FactsOf(c)' = FactsOf(c) /\ PurgePending(c)' = PurgePending(c)
    BY <1>3 DEF Age, FactsOf, PurgePending
  <2> QED
    BY <1>a, <1>3, <2>1 DEF Age
<1> QED
  BY ONLY [Next]_vars, <1>1, <1>2, <1>3 DEF Next

\* Rows of other batches, and rows of other tables, survive a deletion.
LEMMA DeleteKeeps ==
  ASSUME NEW b \in Batch, NEW tables, DeleteRows(b, tables),
         NEW r, r.batch # b \/ r.table \notin tables
  PROVE  (r \in rows => r \in rows') /\ (r \in torn' => r \in torn)
BY DEF DeleteRows

LEMMA SalesStep ==
  ASSUME TypeOK, PurgesInterrupt, [Next]_vars,
         \A b \in Batch : /\ StatusFollowsWorker(b)
                         /\ LoopsStartAtOne(b)
                         /\ SalesFollowWorker(b)
  PROVE  \A b \in Batch : SalesFollowWorker(b)'
<1> SUFFICES ASSUME NEW c \in Batch, c \notin interrupted'
             PROVE  SalesFollowWorker(c)'
  BY DEF SalesFollowWorker
<1>a. SalesFollowWorker(c) /\ StatusFollowsWorker(c)
  OBVIOUS
<1> DEFINE Kept == /\ \A n \in Nat : Part(c, "sales", n) \in rows
                                     => Part(c, "sales", n) \in rows'
                   /\ \A r \in torn' : r.batch = c /\ r.table = "sales" => r \in torn
           Same == /\ pc'[c] = pc[c]
                   /\ status'[c] = status[c]
                   /\ idx'[c] = idx[c]
<1>b. ASSUME Kept, Same, c \notin interrupted
      PROVE  SalesFollowWorker(c)'
  BY <1>a, <1>b, ChunksAssumption DEF SalesFollowWorker, TypeOK, Table
<1>c. ASSUME rows' = rows, torn' = torn
      PROVE  Kept
  BY <1>c
<1> HIDE DEF Kept, Same
<1>1. ASSUME NEW b \in Batch, WorkerStep(b)
      PROVE  SalesFollowWorker(c)'
  <2>0. c \notin interrupted
    BY <1>1, WorkerFrame
  <2> USE DEF TypeOK, dbVars, workerVars, memVars, boundVars, historyVars, GoTo, Table
  <2>1. CASE \/ CheckNoOtherUpload(b) \/ TryAcquireAdvisoryLock(b) \/ ParseFile(b)
             \/ CheckDateWindow(b) \/ ResolveMasters(b) \/ ValidateRows(b)
             \/ CheckBeforePromotion(b)
             \/ CheckBeforeAggregation(b) \/ Aggregate(b)
    BY <1>a, <2>0, <2>1
    DEF CheckNoOtherUpload, TryAcquireAdvisoryLock, ParseFile, CheckDateWindow,
        ResolveMasters,
        ValidateRows, CheckBeforePromotion, CheckBeforeAggregation, Aggregate, Step,
        SalesFollowWorker, AfterSales
  <2>2. CASE RejectWorker(b) \/ Load(b) \/ MarkFailed(b)
    BY <1>a, <2>0, <2>2
    DEF RejectWorker, Load, MarkFailed, SetStatus, SalesFollowWorker, AfterSales
  <2>3. CASE Promote(b) /\ b = c
    <3>1. /\ pc'[c] = "sales" /\ idx'[c] = 1 /\ status'[c] # "loaded"
          /\ \A r \in torn' : ~(r.batch = c /\ r.table = "sales")
      BY <1>a, <2>3 DEF Promote, SetStatus, DeleteRows, LoopsStartAtOne, StatusFollowsWorker
    <3> QED
      BY <3>1 DEF SalesFollowWorker, AfterSales
  <2>4. CASE PopulateUserSalesFact(b) /\ b = c
    <3>1. Kept
      <4>1. CASE DeleteRows(b, {"user"})
        BY <2>4, <4>1, DeleteKeeps DEF Kept, Part
      <4>2. CASE UNCHANGED <<rows, torn>>
        BY <1>c, <4>2
      <4> QED
        BY <2>4, <4>1, <4>2 DEF PopulateUserSalesFact
    <3> QED
      BY <1>a, <2>0, <2>4, <3>1, ChunksAssumption
      DEF PopulateUserSalesFact, SalesFollowWorker, AfterSales, Kept
  <2>5. CASE (Promote(b) \/ PopulateUserSalesFact(b) \/ WorkerCleanup(b)) /\ b # c
    <3>1. \/ \E tables : DeleteRows(b, tables)
          \/ UNCHANGED <<rows, torn>>
      BY <2>5 DEF Promote, PopulateUserSalesFact, WorkerCleanup, CleanupFailedBatch, Purge
    <3>2. Kept
      BY <2>5, <3>1, <1>c, DeleteKeeps DEF Kept, Part
    <3>3. Same
      BY <2>5 DEF Promote, PopulateUserSalesFact, WorkerCleanup, Same, SetStatus
    <3> QED
      BY <1>b, <2>0, <3>2, <3>3
  <2>6. CASE WorkerCleanup(b) /\ b = c
    BY <1>a, <2>6 DEF WorkerCleanup, SalesFollowWorker, StatusFollowsWorker, AfterSales
  <2>7. CASE HandlerRelease(b) \/ FinallyRelease(b)
    <3>1. Kept
      BY <2>7, DeleteKeeps DEF HandlerRelease, FinallyRelease, ReleasePipelineLock, Kept, Part
    <3> QED
      BY <1>a, <2>0, <2>7, <3>1, ChunksAssumption
      DEF HandlerRelease, FinallyRelease, SalesFollowWorker, AfterSales, Kept
  <2>8. ASSUME NEW t \in Table, CheckChunk(b, t)
        PROVE  SalesFollowWorker(c)'
    BY <1>a, <2>0, <2>8 DEF CheckChunk, AfterRaise, SalesFollowWorker, AfterSales
  <2>9. ASSUME NEW t \in Table, WriteChunk(b, t)
        PROVE  SalesFollowWorker(c)'
    <3>1. Kept /\ torn' = torn /\ status' = status
      BY <2>9 DEF WriteChunk, Kept
    <3>2. CASE b # c
      <4>1. Same
        BY <2>9, <3>2 DEF WriteChunk, Same
      <4> QED
        BY <1>b, <2>0, <3>1, <4>1
    <3>3. CASE b = c /\ t # "sales"
      BY <1>a, <2>0, <2>9, <3>1, <3>3, ChunksAssumption
      DEF WriteChunk, AfterTable, SalesFollowWorker, AfterSales, Kept
    <3>4. CASE b = c /\ t = "sales"
      <4>1. /\ \A n \in 1..(idx[c] - 1) : Part(c, "sales", n) \in rows
            /\ \A r \in torn : ~(r.batch = c /\ r.table = "sales")
            /\ status[c] # "loaded"
        BY <1>a, <2>0, <2>9, <3>4 DEF WriteChunk, SalesFollowWorker, StatusFollowsWorker
      <4>2. idx[c] \in Nat /\ \A n \in 1..idx[c] : Part(c, "sales", n) \in rows'
        BY <2>9, <3>1, <3>4, <4>1 DEF WriteChunk, Kept
      <4>3. CASE idx[c] < Chunks["sales"]
        <5>1. idx'[c] = idx[c] + 1 /\ pc'[c] = "sales"
          BY <2>9, <3>4, <4>3 DEF WriteChunk
        <5> QED
          BY <3>1, <4>1, <4>2, <5>1 DEF SalesFollowWorker, AfterSales
      <4>4. CASE ~(idx[c] < Chunks["sales"])
        <5>1. pc'[c] = "populate"
          BY <2>9, <3>4, <4>4 DEF WriteChunk, AfterTable
        <5>2. Chunks["sales"] \in Nat /\ 1..Chunks["sales"] \subseteq 1..idx[c]
          BY <4>2, <4>4, ChunksAssumption
        <5> QED
          BY <3>1, <4>1, <4>2, <5>1, <5>2 DEF SalesFollowWorker, AfterSales
      <4> QED
        BY <4>3, <4>4
    <3> QED
      BY <3>2, <3>3, <3>4
  <2>10. ASSUME NEW t \in Table, FailChunk(b, t)
         PROVE  SalesFollowWorker(c)'
    <3>1. CASE b # c
      <4>1. Same /\ Kept
        BY <2>10, <3>1 DEF FailChunk, Same, Kept, Part
      <4> QED
        BY <1>b, <2>0, <4>1
    <3>2. CASE b = c /\ t = "user"
      <4>1. Kept /\ status' = status /\ pc[c] = "user"
        BY <2>10, <3>2 DEF FailChunk, Kept, Part
      <4> QED
        BY <1>a, <2>0, <2>10, <3>2, <4>1, ChunksAssumption
        DEF FailChunk, AfterRaise, SalesFollowWorker, AfterSales, Kept
    <3>3. CASE b = c /\ t # "user"
      BY <1>a, <2>10, <3>3
      DEF FailChunk, AfterRaise, SalesFollowWorker, StatusFollowsWorker, AfterSales
    <3> QED
      BY <3>1, <3>2, <3>3
  <2> QED
    BY ONLY <1>1, <2>1, <2>2, <2>3, <2>4, <2>5, <2>6, <2>7, <2>8, <2>9, <2>10
    DEF WorkerStep
<1>2. ASSUME NEW i \in Instance, InstanceStep(i)
      PROVE  SalesFollowWorker(c)'
  <2> USE DEF TypeOK, dbVars, workerVars, memVars, boundVars, historyVars, GoTo, Table
  <2>1. CASE PassGate(i) \/ DropUpload(i) \/ ClearLocks(i) \/ Crash(i) \/ StartInstance(i)
    BY <1>a, <2>1
    DEF PassGate, DropUpload, ClearLocks, Crash, StartInstance, SalesFollowWorker, AfterSales
  <2>2. ASSUME NEW b \in Batch,
               CreateInitialBatch(i, b) \/ ResetStale(i, b) \/ CancelBatch(i, b)
        PROVE  SalesFollowWorker(c)'
    BY <1>a, <2>2
    DEF CreateInitialBatch, ResetStale, CancelBatch, SetStatus, SalesFollowWorker, AfterSales
  <2>3. ASSUME NEW b \in Batch, PurgeReset(i, b) \/ FinishCancel(i, b)
        PROVE  SalesFollowWorker(c)'
    <3>1. b \in interrupted /\ interrupted' = interrupted
      BY <2>3 DEF PurgeReset, FinishCancel, PurgesInterrupt
    <3>2. \E tables : DeleteRows(b, tables)
      BY <2>3 DEF PurgeReset, FinishCancel, PurgeUntilError, CleanupFailedBatch, Purge
    <3>3. Kept
      BY <3>1, <3>2, DeleteKeeps DEF Kept, Part
    <3>4. Same
      BY <2>3 DEF PurgeReset, FinishCancel, Same
    <3> QED
      BY <1>b, <3>1, <3>3, <3>4
  <2> QED
    BY ONLY <1>2, <2>1, <2>2, <2>3 DEF InstanceStep
<1>3. CASE (\E b \in Batch : Age(b)) \/ UNCHANGED vars
  <2>1. Kept /\ Same /\ c \notin interrupted
    BY <1>3, <1>c DEF Age, vars, dbVars, workerVars, historyVars, Same
  <2> QED
    BY <1>b, <2>1
<1> QED
  BY ONLY [Next]_vars, <1>1, <1>2, <1>3 DEF Next

-----------------------------------------------------------------------------

LEMMA InvInit == Init => IInv
<1> SUFFICES ASSUME Init PROVE IInv
  OBVIOUS
<1>1. TypeOK
  BY TypeInit
<1>2. LockHasHolder /\ PurgesInterrupt /\ DownIsIdle
  BY DEF Init, LockHasHolder, PurgesInterrupt, DownIsIdle
<1>3. ASSUME NEW b \in Batch
      PROVE  /\ StatusFollowsWorker(b)
             /\ LoopsStartAtOne(b)
             /\ FactsFollowWorker(b)
             /\ SalesFollowWorker(b)
             /\ BeliefIsJustified(b)
             /\ ExitsAreSettled(b)
  BY DEF Init, StatusFollowsWorker, LoopsStartAtOne, FactsFollowWorker, FactsOf,
         SalesFollowWorker, AfterSales, BeliefIsJustified, ExitsAreSettled
<1> QED
  BY <1>1, <1>2, <1>3 DEF IInv

LEMMA InvStep == IInv /\ [Next]_vars => IInv'
<1> SUFFICES ASSUME IInv, [Next]_vars PROVE IInv'
  OBVIOUS
<1> USE DEF IInv
<1>1. TypeOK'
  BY TypeStep
<1>2. LockHasHolder' /\ PurgesInterrupt' /\ DownIsIdle'
  BY LockStep, PurgesStep, DownStep
<1>3. \A b \in Batch : StatusFollowsWorker(b)' /\ LoopsStartAtOne(b)'
  BY StatusStep, LoopsStep
<1>4. \A b \in Batch : FactsFollowWorker(b)' /\ SalesFollowWorker(b)'
  BY FactsStep, SalesStep
<1>5. \A b \in Batch : BeliefIsJustified(b)' /\ ExitsAreSettled(b)'
  BY BeliefStep, ExitsStep
<1> QED
  BY <1>1, <1>2, <1>3, <1>4, <1>5

\* The invariant holds in every reachable state.
THEOREM InvCorrect == Spec => []IInv
<1> QED
  BY InvInit, InvStep, PTL DEF Spec

\* A loaded batch that nobody interfered with has every sales chunk, whole.
THEOREM LoadedCorrect == Spec => []LoadedIsComplete
<1>1. IInv => LoadedIsComplete
  BY DEF IInv, LoadedIsComplete, SalesFollowWorker, Part
<1> QED
  BY <1>1, InvCorrect, PTL

\* An upload that ended "failed" or "cancelled" has left no fact behind.
THEOREM RollbackCorrect == Spec => []RollbackLeavesNothing
<1>1. IInv => RollbackLeavesNothing
  BY DEF IInv, RollbackLeavesNothing, FactsFollowWorker, Aborted
<1> QED
  BY <1>1, InvCorrect, PTL

\* A worker that has ended without a user's cancellation leaves no active row.
THEOREM FinishedCorrect == Spec => []FinishedIsTerminal
<1>1. IInv => FinishedIsTerminal
  BY DEF IInv, FinishedIsTerminal, ExitsAreSettled
<1> QED
  BY <1>1, InvCorrect, PTL

\* The advisory lock always has a worker that will, or could not, release it.
THEOREM LockCorrect == Spec => []LockHasHolder
<1>1. IInv => LockHasHolder
  BY DEF IInv
<1> QED
  BY <1>1, InvCorrect, PTL

-----------------------------------------------------------------------------
(***************************************************************************)
(* UploadPipeline implements AtomicImport under the mapping of             *)
(* UploadPipelineInv.                                                      *)
(***************************************************************************)
\* The mapping at one batch.
LEMMA BarAt ==
  ASSUME NEW b \in Batch
  PROVE  /\ phaseBar[b] = IF Disturbed(b)              THEN "disturbed"
                          ELSE IF pc[b] = "none"       THEN "none"
                          ELSE IF status[b] = "loaded" THEN "loaded"
                          ELSE IF pc[b] = "done"       THEN "rolledback"
                          ELSE "importing"
         /\ factsBar[b] = IF Disturbed(b) THEN NoFacts
                          ELSE [whole |-> RowsOf(b, rows), torn |-> RowsOf(b, torn)]
BY DEF phaseBar, factsBar

LEMMA BarAtNext ==
  ASSUME NEW b \in Batch
  PROVE  /\ phaseBar'[b] = IF Disturbed(b)'              THEN "disturbed"
                           ELSE IF pc'[b] = "none"       THEN "none"
                           ELSE IF status'[b] = "loaded" THEN "loaded"
                           ELSE IF pc'[b] = "done"       THEN "rolledback"
                           ELSE "importing"
         /\ factsBar'[b] = IF Disturbed(b)' THEN NoFacts
                           ELSE [whole |-> RowsOf(b, rows'), torn |-> RowsOf(b, torn')]
BY DEF phaseBar, factsBar, RowsOf

\* Both are functions on the batches, so they are equal when they agree at each.
LEMMA BarFunctions ==
  /\ phaseBar = [b \in Batch |-> phaseBar[b]]
  /\ phaseBar' = [b \in Batch |-> phaseBar'[b]]
  /\ factsBar = [b \in Batch |-> factsBar[b]]
  /\ factsBar' = [b \in Batch |-> factsBar'[b]]
BY DEF phaseBar, factsBar

LEMMA Stutter ==
  ASSUME \A b \in Batch : phaseBar'[b] = phaseBar[b] /\ factsBar'[b] = factsBar[b]
  PROVE  UNCHANGED <<phaseBar, factsBar>>
<1>1. /\ [b \in Batch |-> phaseBar'[b]] = [b \in Batch |-> phaseBar[b]]
      /\ [b \in Batch |-> factsBar'[b]] = [b \in Batch |-> factsBar[b]]
  OBVIOUS
<1> QED
  BY ONLY <1>1, BarFunctions

\* A step in which one batch's facts or phase change in one of the ways that
\* AtomicImport allows is one of its steps.
LEMMA OneBatchSteps ==
  ASSUME NEW b \in Batch,
         \A c \in Batch \ {b} : phaseBar'[c] = phaseBar[c] /\ factsBar'[c] = factsBar[c],
         \/ phaseBar[b] = "none" /\ phaseBar'[b] = "importing" /\ factsBar'[b] = factsBar[b]
         \/ phaseBar[b] = "importing" /\ phaseBar'[b] = "importing"
         \/ /\ phaseBar[b] = "importing" /\ phaseBar'[b] = "loaded"
            /\ factsBar'[b] = factsBar[b]
            /\ HasAllSales(b, factsBar[b])
         \/ /\ phaseBar[b] = "importing" /\ phaseBar'[b] = "rolledback"
            /\ factsBar'[b] = factsBar[b]
            /\ factsBar[b] = NoFacts
         \/ /\ phaseBar[b] # "none" /\ phaseBar'[b] = "disturbed"
            /\ factsBar'[b] = NoFacts
         \/ phaseBar'[b] = phaseBar[b] /\ factsBar'[b] = factsBar[b]
  PROVE  [Import!ANext]_<<phaseBar, factsBar>>
<1>1. /\ phaseBar' = [phaseBar EXCEPT ![b] = phaseBar'[b]]
      /\ factsBar' = [factsBar EXCEPT ![b] = factsBar'[b]]
  <2>1. /\ [c \in Batch |-> phaseBar'[c]]
             = [[c \in Batch |-> phaseBar[c]] EXCEPT ![b] = phaseBar'[b]]
        /\ [c \in Batch |-> factsBar'[c]]
             = [[c \in Batch |-> factsBar[c]] EXCEPT ![b] = factsBar'[b]]
    OBVIOUS
  <2> QED
    BY ONLY <2>1, BarFunctions
<1>2. factsBar'[b] = factsBar[b] => factsBar' = factsBar
  <2>1. factsBar = [factsBar EXCEPT ![b] = factsBar[b]]
    BY BarFunctions
  <2> QED
    BY <1>1, <2>1
<1>3. CASE phaseBar[b] = "none" /\ phaseBar'[b] = "importing" /\ factsBar'[b] = factsBar[b]
  BY <1>1, <1>2, <1>3 DEF Import!ANext, Import!Begin
<1>4. CASE phaseBar[b] = "importing" /\ phaseBar'[b] = "importing"
  <2>1. phaseBar' = phaseBar
    BY <1>1, <1>4, BarFunctions
  <2> QED
    BY <1>1, <1>4, <2>1 DEF Import!ANext, Import!Work
<1>5. CASE /\ phaseBar[b] = "importing" /\ phaseBar'[b] = "loaded"
           /\ factsBar'[b] = factsBar[b]
           /\ HasAllSales(b, factsBar[b])
  BY <1>1, <1>2, <1>5 DEF Import!ANext, Import!Commit
<1>6. CASE /\ phaseBar[b] = "importing" /\ phaseBar'[b] = "rolledback"
           /\ factsBar'[b] = factsBar[b]
           /\ factsBar[b] = NoFacts
  BY <1>1, <1>2, <1>6 DEF Import!ANext, Import!RollBack
<1>7. CASE /\ phaseBar[b] # "none" /\ phaseBar'[b] = "disturbed"
           /\ factsBar'[b] = NoFacts
  <2>1. /\ phaseBar' = [c \in Batch |-> IF c \in {b} THEN "disturbed" ELSE phaseBar[c]]
        /\ factsBar' = [c \in Batch |-> IF c \in {b} THEN NoFacts ELSE factsBar[c]]
    <3>1. /\ [c \in Batch |-> phaseBar'[c]]
               = [c \in Batch |-> IF c \in {b} THEN "disturbed" ELSE phaseBar[c]]
          /\ [c \in Batch |-> factsBar'[c]]
               = [c \in Batch |-> IF c \in {b} THEN NoFacts ELSE factsBar[c]]
      BY <1>7
    <3> QED
      BY ONLY <3>1, BarFunctions
  <2>2. Import!Disturb({b})
    BY <1>7, <2>1 DEF Import!Disturb
  <2> QED
    BY <2>2 DEF Import!ANext
<1>8. CASE phaseBar'[b] = phaseBar[b] /\ factsBar'[b] = factsBar[b]
  BY <1>8, Stutter
<1> QED
  BY <1>3, <1>4, <1>5, <1>6, <1>7, <1>8

-----------------------------------------------------------------------------

\* Nothing that the mapping looks at changes for batch c.
Still(c) ==
    /\ pc'[c] = pc[c]
    /\ status'[c] = status[c]
    /\ c \in interrupted' <=> c \in interrupted
    /\ c \in damaged' <=> c \in damaged
    /\ RowsOf(c, rows') = RowsOf(c, rows)
    /\ RowsOf(c, torn') = RowsOf(c, torn)

Unseen(c) == phaseBar'[c] = phaseBar[c] /\ factsBar'[c] = factsBar[c]

LEMMA StillUnseen ==
  ASSUME NEW c \in Batch, Still(c)
  PROVE  Unseen(c)
BY BarAt, BarAtNext DEF Still, Unseen, Disturbed

\* Whatever happens to a batch that is disturbed already is a stutter.
LEMMA DisturbedUnseen ==
  ASSUME NEW c \in Batch, Disturbed(c), Disturbed(c)'
  PROVE  Unseen(c)
BY BarAt, BarAtNext DEF Unseen

LEMMA DeleteRowsOf ==
  ASSUME NEW b \in Batch, NEW tables, DeleteRows(b, tables), NEW c \in Batch,
         c # b \/ tables \cap FactTable = {}
  PROVE  RowsOf(c, rows') = RowsOf(c, rows) /\ RowsOf(c, torn') = RowsOf(c, torn)
BY DEF DeleteRows, RowsOf

LEMMA PurgeRowsOf ==
  ASSUME NEW b \in Batch, NEW failed, Purge(b, failed), NEW c \in Batch \ {b}
  PROVE  /\ RowsOf(c, rows') = RowsOf(c, rows)
         /\ RowsOf(c, torn') = RowsOf(c, torn)
         /\ c \in damaged' <=> c \in damaged
<1>1. CASE DeleteRows(b, Table) /\ UNCHANGED damaged
  BY <1>1, DeleteRowsOf
<1>2. CASE /\ \E kept \in failed : DeleteRows(b, Table \ kept)
           /\ damaged' = damaged \cup {b}
  BY <1>2, DeleteRowsOf
<1> QED
  BY <1>1, <1>2 DEF Purge

LEMMA OthersStill ==
  ASSUME TypeOK, NEW b \in Batch, WorkerStep(b), NEW c \in Batch \ {b}
  PROVE  Still(c)
<1> USE DEF TypeOK, Still, dbVars, workerVars, memVars, boundVars, historyVars,
            GoTo, SetStatus
<1>1. CASE \/ CheckNoOtherUpload(b) \/ TryAcquireAdvisoryLock(b) \/ ParseFile(b)
           \/ CheckDateWindow(b) \/ ResolveMasters(b) \/ ValidateRows(b)
           \/ CheckBeforePromotion(b)
           \/ CheckBeforeAggregation(b) \/ Aggregate(b)
  BY <1>1 DEF CheckNoOtherUpload, TryAcquireAdvisoryLock, ParseFile, CheckDateWindow,
              ResolveMasters,
              ValidateRows, CheckBeforePromotion, CheckBeforeAggregation, Aggregate,
              Step
<1>2. CASE RejectWorker(b) \/ Load(b) \/ MarkFailed(b)
  BY <1>2 DEF RejectWorker, Load, MarkFailed
<1>3. CASE Promote(b) \/ PopulateUserSalesFact(b)
  BY <1>3, DeleteRowsOf DEF Promote, PopulateUserSalesFact
<1>4. CASE HandlerRelease(b) \/ FinallyRelease(b)
  BY <1>4, DeleteRowsOf DEF HandlerRelease, FinallyRelease, ReleasePipelineLock
<1>5. CASE WorkerCleanup(b)
  BY <1>5, PurgeRowsOf DEF WorkerCleanup, CleanupFailedBatch
<1>6. ASSUME NEW t \in Table, CheckChunk(b, t)
      PROVE  Still(c)
  BY <1>6 DEF CheckChunk
<1>7. ASSUME NEW t \in Table, WriteChunk(b, t) \/ FailChunk(b, t)
      PROVE  Still(c)
  <2>1. RowsOf(c, rows') = RowsOf(c, rows) /\ RowsOf(c, torn') = RowsOf(c, torn)
    BY <1>7 DEF WriteChunk, FailChunk, RowsOf, Part
  <2> QED
    BY <1>7, <2>1 DEF WriteChunk, FailChunk
<1> QED
  BY ONLY <1>1, <1>2, <1>3, <1>4, <1>5, <1>6, <1>7, WorkerStep(b) DEF WorkerStep

\* What the worker does to its own batch, nobody having interfered.
LEMMA WorkerImports ==
  ASSUME IInv, NEW b \in Batch, WorkerStep(b), ~Disturbed(b), ~Disturbed(b)'
  PROVE  \/ phaseBar[b] = "importing" /\ phaseBar'[b] = "importing"
         \/ /\ phaseBar[b] = "importing" /\ phaseBar'[b] = "loaded"
            /\ factsBar'[b] = factsBar[b]
            /\ HasAllSales(b, factsBar[b])
         \/ /\ phaseBar[b] = "importing" /\ phaseBar'[b] = "rolledback"
            /\ factsBar'[b] = factsBar[b]
            /\ factsBar[b] = NoFacts
         \/ phaseBar'[b] = phaseBar[b] /\ factsBar'[b] = factsBar[b]
<1> USE DEF IInv, TypeOK, dbVars, workerVars, memVars, boundVars, historyVars,
            GoTo, SetStatus
<1>0. /\ b \notin interrupted /\ b \notin damaged /\ b \notin damaged'
      /\ status[b] = "none" <=> pc[b] = "none"
      /\ status[b] = "loaded" => pc[b] \in {"release", "done", "dead"}
      /\ ~PurgePending(b)
  BY DEF Disturbed, StatusFollowsWorker, PurgePending, PurgesInterrupt
<1>f. FactsOf(b) = {} => factsBar[b] = NoFacts
  BY BarAt DEF FactsOf, RowsOf, NoFacts
<1>i. ASSUME pc[b] \notin {"none", "done"}, pc'[b] \notin {"none", "done"},
             status[b] # "loaded", status'[b] # "loaded"
      PROVE  phaseBar[b] = "importing" /\ phaseBar'[b] = "importing"
  BY <1>i, BarAt, BarAtNext
<1>1. CASE Load(b)
  <2>1. phaseBar[b] = "importing" /\ phaseBar'[b] = "loaded"
    BY <1>0, <1>1, BarAt, BarAtNext DEF Load
  <2>2. factsBar'[b] = factsBar[b]
    BY <1>1, BarAt, BarAtNext DEF Load
  <2>3. /\ \A c \in 1..Chunks["sales"] : Part(b, "sales", c) \in rows
        /\ \A r \in torn : ~(r.batch = b /\ r.table = "sales")
    BY <1>0, <1>1 DEF Load, SalesFollowWorker, AfterSales
  <2>4. HasAllSales(b, factsBar[b])
    <3>1. factsBar[b] = [whole |-> RowsOf(b, rows), torn |-> RowsOf(b, torn)]
      BY BarAt
    <3>2. ASSUME NEW c \in 1..Chunks["sales"]
          PROVE  Part(b, "sales", c) \in RowsOf(b, rows)
      BY <2>3 DEF RowsOf, Part, FactTable
    <3>3. \A r \in RowsOf(b, torn) : r.table # "sales"
      BY <2>3 DEF RowsOf
    <3> QED
      BY ONLY <3>1, <3>2, <3>3 DEF HasAllSales
  <2> QED
    BY <2>1, <2>2, <2>4
<1>2. CASE RejectWorker(b)
  <2>1. pc[b] \in {"queued", "locking"} /\ pc'[b] = "done" /\ status'[b] = "failed"
    BY <1>0, <1>2 DEF RejectWorker
  <2>2. phaseBar[b] = "importing" /\ phaseBar'[b] = "rolledback"
    BY <1>0, <2>1, BarAt, BarAtNext
  <2>3. factsBar'[b] = factsBar[b]
    BY <1>2, BarAt, BarAtNext DEF RejectWorker
  <2>4. FactsOf(b) = {}
    BY <2>1 DEF FactsFollowWorker, BeforeFacts
  <2> QED
    BY <2>2, <2>3, <2>4, <1>f
<1>3. CASE FinallyRelease(b)
  <2>1. /\ pc[b] = "release" /\ pc'[b] = "done" /\ status' = status
        /\ RowsOf(b, rows') = RowsOf(b, rows)
        /\ RowsOf(b, torn') = RowsOf(b, torn)
    BY <1>3, DeleteRowsOf DEF FinallyRelease, ReleasePipelineLock, FactTable
  <2>2. factsBar'[b] = factsBar[b]
    BY <2>1, BarAt, BarAtNext
  <2>3. FactsOf(b) = {} \/ status[b] = "loaded"
    BY <1>0, <2>1 DEF FactsFollowWorker
  <2>4. CASE status[b] = "loaded"
    BY <2>1, <2>2, <2>4, BarAt, BarAtNext
  <2>5. CASE status[b] # "loaded" /\ FactsOf(b) = {}
    BY <2>1, <2>2, <2>5, <1>f, BarAt, BarAtNext
  <2> QED
    BY <2>3, <2>4, <2>5
<1>4. CASE \/ CheckNoOtherUpload(b) \/ TryAcquireAdvisoryLock(b) \/ ParseFile(b)
           \/ CheckDateWindow(b) \/ ResolveMasters(b) \/ ValidateRows(b)
           \/ CheckBeforePromotion(b)
           \/ CheckBeforeAggregation(b) \/ Aggregate(b) \/ PopulateUserSalesFact(b)
  BY <1>0, <1>4, <1>i
     DEF CheckNoOtherUpload, TryAcquireAdvisoryLock, ParseFile, CheckDateWindow,
         ResolveMasters,
         ValidateRows, CheckBeforePromotion, CheckBeforeAggregation, Aggregate,
         PopulateUserSalesFact, Step
<1>5. CASE Promote(b) \/ MarkFailed(b) \/ WorkerCleanup(b) \/ HandlerRelease(b)
  BY <1>0, <1>5, <1>i DEF Promote, MarkFailed, WorkerCleanup, HandlerRelease
<1>6. ASSUME NEW t \in Table, CheckChunk(b, t) \/ WriteChunk(b, t) \/ FailChunk(b, t)
      PROVE  phaseBar[b] = "importing" /\ phaseBar'[b] = "importing"
  BY <1>0, <1>6, <1>i DEF CheckChunk, WriteChunk, FailChunk, Table, AfterRaise, AfterTable
<1> QED
  BY ONLY <1>1, <1>2, <1>3, <1>4, <1>5, <1>6, WorkerStep(b) DEF WorkerStep

LEMMA WorkerRefines ==
  ASSUME IInv, NEW b \in Batch, WorkerStep(b)
  PROVE  [Import!ANext]_<<phaseBar, factsBar>>
<1>1. \A c \in Batch \ {b} : phaseBar'[c] = phaseBar[c] /\ factsBar'[c] = factsBar[c]
  BY OthersStill, StillUnseen DEF IInv, Unseen
<1>2. CASE Disturbed(b)
  <2>1. Disturbed(b)'
    BY <1>2, WorkerFrame DEF IInv, Disturbed
  <2> QED
    BY <1>1, <1>2, <2>1, DisturbedUnseen, OneBatchSteps DEF Unseen
<1>3. CASE ~Disturbed(b) /\ Disturbed(b)'
  <2>1. pc[b] # "none"
    BY DEF WorkerStep,
         CheckNoOtherUpload, TryAcquireAdvisoryLock, ParseFile, CheckDateWindow,
         ResolveMasters,
         ValidateRows, CheckBeforePromotion, CheckBeforeAggregation, Aggregate,
         PopulateUserSalesFact, Step, RejectWorker, Promote, Load, MarkFailed,
         WorkerCleanup, HandlerRelease, FinallyRelease, CheckChunk, WriteChunk,
         FailChunk, Table
  <2>2. phaseBar[b] # "none" /\ phaseBar'[b] = "disturbed" /\ factsBar'[b] = NoFacts
    BY <1>3, <2>1, BarAt, BarAtNext
  <2> QED
    BY <1>1, <2>2, OneBatchSteps
<1>4. CASE ~Disturbed(b) /\ ~Disturbed(b)'
  BY <1>1, <1>4, WorkerImports, OneBatchSteps
<1> QED
  BY <1>2, <1>3, <1>4

\* The five things another actor can do to one batch, and what the others see.
LEMMA InstanceRefines ==
  ASSUME IInv, NEW i \in Instance, InstanceStep(i)
  PROVE  [Import!ANext]_<<phaseBar, factsBar>>
<1> USE DEF IInv, TypeOK, dbVars, workerVars, memVars, boundVars, historyVars, SetStatus
<1>1. CASE PassGate(i) \/ DropUpload(i) \/ ClearLocks(i)
  <2>1. \A c \in Batch : Still(c)
    BY <1>1 DEF PassGate, DropUpload, ClearLocks, Still
  <2> QED
    BY <2>1, StillUnseen, Stutter DEF Unseen
<1>2. CASE Crash(i)
  <2>1. ASSUME NEW c \in Batch PROVE Unseen(c)
    <3>1. Disturbed(c)' <=> Disturbed(c)
      BY <1>2 DEF Crash, Disturbed, PurgesInterrupt
    <3>2. /\ status'[c] = status[c] /\ rows' = rows /\ torn' = torn
          /\ pc'[c] = "none" <=> pc[c] = "none"
          /\ pc'[c] = "done" <=> pc[c] = "done"
      BY <1>2 DEF Crash
    <3> QED
      BY <3>1, <3>2, BarAt, BarAtNext DEF Unseen
  <2> QED
    BY <2>1, Stutter DEF Unseen
<1>3. CASE StartInstance(i)
  <2>1. /\ UNCHANGED <<rows, torn, pc, damaged>>
        /\ \/ /\ status' = [b \in Batch |-> IF b \in Orphans THEN "failed" ELSE status[b]]
              /\ interrupted' = interrupted \cup Orphans
           \/ UNCHANGED <<status, interrupted>>
    BY <1>3 DEF StartInstance
  <2>2. CASE UNCHANGED <<status, interrupted>>
    <3>1. \A c \in Batch : Still(c)
      BY <2>1, <2>2 DEF Still
    <3> QED
      BY <3>1, StillUnseen, Stutter DEF Unseen
  <2>3. CASE /\ status' = [b \in Batch |-> IF b \in Orphans THEN "failed" ELSE status[b]]
             /\ interrupted' = interrupted \cup Orphans
    <3>1. ASSUME NEW c \in Batch
          PROVE  /\ phaseBar'[c] = IF c \in Orphans THEN "disturbed" ELSE phaseBar[c]
                 /\ factsBar'[c] = IF c \in Orphans THEN NoFacts ELSE factsBar[c]
                 /\ c \in Orphans => phaseBar[c] # "none"
      <4>1. CASE c \in Orphans
        <5>1. pc[c] # "none" /\ Disturbed(c)'
          BY <2>3, <4>1 DEF Orphans, StatusFollowsWorker, Disturbed
        <5> QED
          BY <4>1, <5>1, BarAt, BarAtNext
      <4>2. CASE c \notin Orphans
        <5>1. Still(c)
          BY <2>1, <2>3, <4>2 DEF Still
        <5> QED
          BY <4>2, <5>1, StillUnseen DEF Unseen
      <4> QED
        BY <4>1, <4>2
    <3>2. /\ [c \in Batch |-> phaseBar'[c]]
               = [c \in Batch |-> IF c \in Orphans THEN "disturbed" ELSE phaseBar[c]]
          /\ [c \in Batch |-> factsBar'[c]]
               = [c \in Batch |-> IF c \in Orphans THEN NoFacts ELSE factsBar[c]]
      BY <3>1
    <3>3. Import!Disturb(Orphans)
      BY ONLY <3>1, <3>2, BarFunctions DEF Import!Disturb, Orphans
    <3>4. Orphans \in SUBSET Batch
      BY DEF Orphans
    <3> QED
      BY ONLY <3>3, <3>4 DEF Import!ANext
  <2> QED
    BY <2>1, <2>2, <2>3
<1>4. ASSUME NEW b \in Batch, CreateInitialBatch(i, b)
      PROVE  [Import!ANext]_<<phaseBar, factsBar>>
  <2>1. \A c \in Batch \ {b} : Unseen(c)
    BY <1>4, StillUnseen DEF CreateInitialBatch, Still
  <2>2. /\ pc[b] = "none" /\ pc'[b] = "queued" /\ status'[b] = "queued"
        /\ UNCHANGED <<rows, torn>>
        /\ Disturbed(b)' <=> Disturbed(b)
    BY <1>4 DEF CreateInitialBatch, StatusFollowsWorker, Disturbed
  <2>3. CASE Disturbed(b)
    BY <2>1, <2>2, <2>3, DisturbedUnseen, Stutter DEF Unseen
  <2>4. CASE ~Disturbed(b)
    <3>1. /\ phaseBar[b] = "none" /\ phaseBar'[b] = "importing"
          /\ factsBar'[b] = factsBar[b]
      BY <2>2, <2>4, BarAt, BarAtNext
    <3> QED
      BY <2>1, <3>1, OneBatchSteps DEF Unseen
  <2> QED
    BY <2>3, <2>4
<1>5. ASSUME NEW b \in Batch, ResetStale(i, b) \/ CancelBatch(i, b)
      PROVE  [Import!ANext]_<<phaseBar, factsBar>>
  <2>1. \A c \in Batch \ {b} : Unseen(c)
    BY <1>5, StillUnseen DEF ResetStale, CancelBatch, Still
  <2>2. pc[b] # "none" /\ Disturbed(b)'
    BY <1>5 DEF ResetStale, CancelBatch, StaleAhead, Active, StatusFollowsWorker, Disturbed
  <2>3. phaseBar[b] # "none" /\ phaseBar'[b] = "disturbed" /\ factsBar'[b] = NoFacts
    BY <2>2, BarAt, BarAtNext
  <2> QED
    BY <2>1, <2>3, OneBatchSteps DEF Unseen
<1>6. ASSUME NEW b \in Batch, PurgeReset(i, b) \/ FinishCancel(i, b)
      PROVE  [Import!ANext]_<<phaseBar, factsBar>>
  <2>1. Disturbed(b) /\ Disturbed(b)'
    BY <1>6 DEF PurgeReset, FinishCancel, PurgesInterrupt, Disturbed
  <2>2. ASSUME NEW c \in Batch \ {b} PROVE Still(c)
    BY <1>6, PurgeRowsOf
       DEF PurgeReset, FinishCancel, PurgeUntilError, CleanupFailedBatch, Still
  <2> QED
    BY <2>1, <2>2, StillUnseen, DisturbedUnseen, Stutter DEF Unseen
<1> QED
  BY ONLY <1>1, <1>2, <1>3, <1>4, <1>5, <1>6, InstanceStep(i) DEF InstanceStep

LEMMA ImportInit == Init => Import!AInit
BY DEF Init, Import!AInit, phaseBar, factsBar, Disturbed, RowsOf, NoFacts

LEMMA ImportStep ==
  ASSUME IInv, [Next]_vars
  PROVE  [Import!ANext]_<<phaseBar, factsBar>>
<1>1. ASSUME (\E b \in Batch : Age(b)) \/ UNCHANGED vars
      PROVE  [Import!ANext]_<<phaseBar, factsBar>>
  <2>1. \A c \in Batch : Still(c)
    BY <1>1 DEF Age, vars, dbVars, workerVars, memVars, boundVars, historyVars, Still
  <2> QED
    BY <2>1, StillUnseen, Stutter DEF Unseen
<1> QED
  BY <1>1, WorkerRefines, InstanceRefines DEF Next

\* The pipeline implements AtomicImport: readers of the fact tables see every
\* import that nobody interferes with as one that commits or rolls back whole.
THEOREM ImportsAtomicallyCorrect == Spec => ImportsAtomically
<1>1. IInv /\ [Next]_vars => [Import!ANext]_(Import!avars)
  BY ImportStep DEF Import!avars
<1> QED
  BY ImportInit, InvCorrect, <1>1, PTL DEF Spec, ImportsAtomically, Import!ASpec
=============================================================================
