----------------------- MODULE SimulationQueueProofs -----------------------
(***************************************************************************)
(* Theorems about SimulationQueue, for any number of runs and of workers   *)
(* and any fault budget.                                                   *)
(***************************************************************************)
EXTENDS SimulationQueue, TLAPS

USE DEF RunStatus, ActiveStatuses, TerminalStatuses, Outcomes

-----------------------------------------------------------------------------
(* Type correctness.                                                       *)

\* Each handler of the API leaves every variable within its type.
LEMMA ApiTypes == TypeOK /\ ApiNext /\ UNCHANGED workerVars => TypeOK'
<1> SUFFICES ASSUME TypeOK, ApiNext, UNCHANGED workerVars
             PROVE  TypeOK'
  OBVIOUS
<1> USE NoRunAssumption, MaxFaultsAssumption
    DEF TypeOK, StoreTypeOK, ApiTypeOK, ApiPcs, ApiOps, NoHandler,
        Enter, GoTo, storeVars, WriteManifest, Fault
<1>w. WorkerTypeOK'
  BY DEF workerVars, WorkerTypeOK, Busy
<1>1. ASSUME NEW r \in Runs, StartOpencda(r) PROVE StoreTypeOK' /\ ApiTypeOK'
  BY <1>1 DEF StartOpencda
<1>2. ASSUME NEW r \in Runs, CreateRun(r) PROVE StoreTypeOK' /\ ApiTypeOK'
  BY <1>2 DEF CreateRun
<1>3. ASSUME NEW r \in Runs, StopSimulation(r) PROVE StoreTypeOK' /\ ApiTypeOK'
  BY <1>3 DEF StopSimulation
<1>4. ASSUME NEW r \in Runs, CancelQueued(r) PROVE StoreTypeOK' /\ ApiTypeOK'
  BY <1>4 DEF CancelQueued
<1>5. ASSUME NEW r \in Runs, DeleteResults(r) PROVE StoreTypeOK' /\ ApiTypeOK'
  BY <1>5 DEF DeleteResults
<1>6. CASE PutQueuedManifest
  BY <1>6, <1>w DEF PutQueuedManifest
<1>7. CASE SaveRunRecord
  BY <1>7, <1>w DEF SaveRunRecord, Save
<1>8. CASE TransitionLock
  BY <1>8, <1>w DEF TransitionLock
<1>9. CASE TransitionCommit
  BY <1>9, <1>w DEF TransitionCommit, Target
<1>10. CASE NoteManifest
  BY <1>10, <1>w DEF NoteManifest, Target
<1>11. CASE RemoveTree
  BY <1>11, <1>w DEF RemoveTree
<1>12. CASE AbortHandler
  BY <1>12, <1>w DEF AbortHandler
<1> QED
  BY <1>w, <1>1, <1>2, <1>3, <1>4, <1>5, <1>6, <1>7, <1>8, <1>9, <1>10,
     <1>11, <1>12 DEF ApiNext, TypeOK

\* Each step of a worker, of its environment or of a child does, too.
LEMMA WorkerTypes == TypeOK /\ WorkerNext /\ UNCHANGED apiVars => TypeOK'
<1> SUFFICES ASSUME TypeOK, WorkerNext, UNCHANGED apiVars
             PROVE  TypeOK'
  OBVIOUS
<1> USE NoRunAssumption, NoWorkerAssumption, MaxFaultsAssumption
    DEF TypeOK, StoreTypeOK, WorkerTypeOK, WorkerPcs, ChildStates, Busy,
        Jump, ClearJob, storeVars, jobVars, childVars, WriteManifest, Fault,
        Transition, ReleasedBy, SendSignal, AfterStop
<1>a. ApiTypeOK'
  BY DEF apiVars, ApiTypeOK
<1>1. ASSUME NEW w \in Workers, WorkerStep(w) PROVE StoreTypeOK' /\ WorkerTypeOK'
  <2>1. CASE AcquireLease(w)
    BY <2>1 DEF AcquireLease
  <2>2. CASE FailInterrupted(w)
    BY <2>2 DEF FailInterrupted, FailRows
  <2>21. CASE ReadInterrupted(w)
    BY <2>21 DEF ReadInterrupted, InterruptedRows
  <2>3. CASE GracefulExit(w)
    BY <2>3 DEF GracefulExit
  <2>4. ASSUME NEW r \in Runs, Claim(w, r) PROVE StoreTypeOK' /\ WorkerTypeOK'
    BY <2>4 DEF Claim, ClaimNext
  <2>5. CASE WriteRunning(w)
    BY <2>5 DEF WriteRunning
  <2>6. CASE Launch(w)
    BY <2>6 DEF Launch
  <2>7. CASE OnStarted(w)
    BY <2>7 DEF OnStarted
  <2>8. CASE StopExpired(w)
    BY <2>8 DEF StopExpired
  <2>9. CASE StopOnRequest(w)
    BY <2>9 DEF StopOnRequest
  <2>10. CASE KeepPolling(w)
    BY <2>10 DEF KeepPolling
  <2>11. CASE ReportProgress(w)
    BY <2>11 DEF ReportProgress
  <2>12. CASE StopReturns(w)
    BY <2>12 DEF StopReturns
  <2>13. CASE GraceExpires(w)
    BY <2>13 DEF GraceExpires
  <2>14. CASE SendKill(w)
    BY <2>14 DEF SendKill
  <2>15. CASE ChildExited(w)
    BY <2>15 DEF ChildExited
  <2>16. CASE Collect(w)
    BY <2>16 DEF Collect, Verdict
  <2>17. CASE WriteOutcome(w)
    BY <2>17 DEF WriteOutcome
  <2>18. CASE MarkOutcome(w)
    BY <2>18 DEF MarkOutcome
  <2>19. CASE MarkFailed(w)
    BY <2>19 DEF MarkFailed
  <2>20. CASE WriteFailed(w)
    BY <2>20 DEF WriteFailed
  <2> QED
    BY <1>1, <2>1, <2>2, <2>3, <2>4, <2>5, <2>6, <2>7, <2>8, <2>9, <2>10,
       <2>11, <2>12, <2>13, <2>14, <2>15, <2>16, <2>17, <2>18, <2>19, <2>20,
       <2>21 DEF WorkerStep
<1>2. ASSUME NEW w \in Workers, WorkerEnvironment(w)
      PROVE  StoreTypeOK' /\ WorkerTypeOK'
  <2>1. CASE LeaseHeld(w)
    BY <2>1 DEF LeaseHeld
  <2>2. CASE OperatorStart(w)
    BY <2>2 DEF OperatorStart
  <2>3. CASE ShutdownSignal(w)
    BY <2>3 DEF ShutdownSignal
  <2>4. CASE Crash(w)
    BY <2>4 DEF Crash, Die
  <2>5. CASE UncaughtError(w)
    BY <2>5 DEF UncaughtError, Die
  <2>6. CASE ExecuteRaises(w)
    BY <2>6 DEF ExecuteRaises
  <2>7. CASE ReapSession(w)
    BY <2>7 DEF ReapSession
  <2>8. CASE DropLease(w)
    BY <2>8 DEF DropLease
  <2>9. CASE RuntimeExpires(w)
    BY <2>9 DEF RuntimeExpires
  <2> QED
    BY <1>2, <2>1, <2>2, <2>3, <2>4, <2>5, <2>6, <2>7, <2>8, <2>9
       DEF WorkerEnvironment
<1>3. ASSUME NEW r \in Runs, ChildNext(r) PROVE StoreTypeOK' /\ WorkerTypeOK'
  BY <1>3 DEF ChildNext, ChildCompletes, ChildErrors, ChildDies, ChildEnds
<1> QED
  BY <1>a, <1>1, <1>2, <1>3 DEF WorkerNext

\* Every variable stays within its type; a handler in progress has a run and a
\* worker inside run_once() has a job.
THEOREM TypeCorrect == Spec => []TypeOK
<1>1. Init => TypeOK
  BY NoRunAssumption, MaxFaultsAssumption
     DEF Init, TypeOK, StoreInit, StoreTypeOK, ApiInit, ApiTypeOK, NoHandler,
         ApiPcs, ApiOps, WorkerInit, WorkerTypeOK, WorkerPcs, ChildStates, Busy
<1>2. TypeOK /\ [Next]_vars => TypeOK'
  <2> SUFFICES ASSUME TypeOK, [Next]_vars PROVE TypeOK'
    OBVIOUS
  <2>1. CASE Next
    BY <2>1, ApiTypes, WorkerTypes DEF Next
  <2>2. CASE UNCHANGED vars
    BY <2>2 DEF vars, storeVars, apiVars, workerVars, TypeOK, StoreTypeOK,
                ApiTypeOK, WorkerTypeOK, Busy
  <2> QED
    BY <2>1, <2>2
<1> QED
  BY <1>1, <1>2, PTL DEF Spec

-----------------------------------------------------------------------------
(* Who writes a row.                                                       *)

\* A worker writes rows only by claiming, by marking its job and by recovery,
\* inserts none, and never takes the API's row lock.
LEMMA WorkerWrites ==
  ASSUME WorkerNext
  PROVE  /\ rowLock' = rowLock /\ created' = created /\ clock' = clock
         /\ \/ status' = status
            \/ \E w \in Workers, r \in Runs : Claim(w, r)
            \/ \E w \in Workers : MarkOutcome(w) \/ MarkFailed(w)
            \/ \E w \in Workers : FailInterrupted(w)
<1> USE DEF storeVars
<1>1. ASSUME NEW w \in Workers, WorkerStep(w)
      PROVE  /\ rowLock' = rowLock /\ created' = created /\ clock' = clock
             /\ \/ status' = status
                \/ \E r \in Runs : Claim(w, r)
                \/ MarkOutcome(w) \/ MarkFailed(w)
                \/ FailInterrupted(w)
  <2>1. CASE FailInterrupted(w)
    BY <2>1 DEF FailInterrupted
  <2>2. CASE \E r \in Runs : Claim(w, r)
    BY <2>2 DEF Claim
  <2>3. CASE MarkOutcome(w) \/ MarkFailed(w)
    BY <2>3 DEF MarkOutcome, MarkFailed
  <2>4. CASE ~ \/ FailInterrupted(w)
               \/ \E r \in Runs : Claim(w, r)
               \/ MarkOutcome(w) \/ MarkFailed(w)
    BY <1>1, <2>4
       DEF WorkerStep, AcquireLease, ReadInterrupted, GracefulExit,
           WriteRunning, Launch, OnStarted, StopExpired, StopOnRequest, KeepPolling, ReportProgress,
           StopReturns, GraceExpires, SendKill, ChildExited, Collect,
           WriteOutcome, WriteFailed
  <2> QED
    BY <2>1, <2>2, <2>3, <2>4
<1>2. ASSUME NEW w \in Workers, WorkerEnvironment(w)
      PROVE  /\ rowLock' = rowLock /\ created' = created /\ clock' = clock
             /\ status' = status
  BY <1>2 DEF WorkerEnvironment, LeaseHeld, OperatorStart, ShutdownSignal,
              Crash, UncaughtError, ExecuteRaises, ReapSession, DropLease,
              RuntimeExpires
<1>3. ASSUME NEW r \in Runs, ChildNext(r)
      PROVE  /\ rowLock' = rowLock /\ created' = created /\ clock' = clock
             /\ status' = status
  BY <1>3 DEF ChildNext, ChildCompletes, ChildErrors, ChildDies, ChildEnds
<1> QED
  BY <1>1, <1>2, <1>3 DEF WorkerNext

-----------------------------------------------------------------------------
(* The API's handlers and the row lock.                                    *)

\* The lock taken by a handler's transition() keeps the move it checked legal
\* until it is committed, and no one else inserts the row a handler prepares.
LEMMA HandlerStep ==
  TypeOK /\ HandlerInv /\ ClaimedOnly /\ [Next]_vars => HandlerInv'
<1> SUFFICES ASSUME TypeOK, HandlerInv, ClaimedOnly, [Next]_vars
             PROVE  HandlerInv'
  OBVIOUS
<1> USE DEF TypeOK, StoreTypeOK, ApiTypeOK, HandlerInv, Target, storeVars
<1>1. ASSUME ApiNext PROVE HandlerInv'
  <2> USE DEF Enter, GoTo, NoHandler
  <2>1. ASSUME NEW r \in Runs, StartOpencda(r) PROVE HandlerInv'
    BY <2>1 DEF StartOpencda, Fresh
  <2>2. ASSUME NEW r \in Runs, CreateRun(r) PROVE HandlerInv'
    BY <2>2 DEF CreateRun, Fresh
  <2>3. ASSUME NEW r \in Runs, StopSimulation(r) PROVE HandlerInv'
    BY <2>3 DEF StopSimulation
  <2>4. ASSUME NEW r \in Runs, CancelQueued(r) PROVE HandlerInv'
    BY <2>4 DEF CancelQueued
  <2>5. ASSUME NEW r \in Runs, DeleteResults(r) PROVE HandlerInv'
    BY <2>5 DEF DeleteResults
  <2>6. CASE PutQueuedManifest
    BY <2>6 DEF PutQueuedManifest
  <2>7. CASE SaveRunRecord
    BY <2>7 DEF SaveRunRecord
  <2>8. CASE TransitionLock
    BY <2>8 DEF TransitionLock
  <2>9. CASE TransitionCommit
    BY <2>9 DEF TransitionCommit
  <2>10. CASE NoteManifest
    BY <2>10 DEF NoteManifest
  <2>11. CASE RemoveTree
    BY <2>11 DEF RemoveTree
  <2>12. CASE AbortHandler
    BY <2>12 DEF AbortHandler
  <2> QED
    BY <1>1, <2>1, <2>2, <2>3, <2>4, <2>5, <2>6, <2>7, <2>8, <2>9, <2>10,
       <2>11, <2>12 DEF ApiNext
<1>2. ASSUME WorkerNext, UNCHANGED apiVars PROVE HandlerInv'
  <2>1. api' = api /\ rowLock' = rowLock
    BY <1>2, WorkerWrites DEF apiVars
  <2>2. CASE status' = status
    BY <2>1, <2>2
  <2>3. ASSUME NEW w \in Workers, NEW r \in Runs, Claim(w, r) PROVE HandlerInv'
    BY <2>1, <2>3, NoRunAssumption DEF Claim, ClaimNext, Claimable
  <2>4. ASSUME NEW w \in Workers, MarkOutcome(w) \/ MarkFailed(w)
        PROVE  HandlerInv'
    BY <2>1, <2>4 DEF MarkOutcome, MarkFailed, Transition, CanTransition
  <2>5. ASSUME NEW w \in Workers, FailInterrupted(w) PROVE HandlerInv'
    BY <2>1, <2>5 DEF FailInterrupted, FailRows, ClaimedOnly, Claimed
  <2> QED
    BY <1>2, <2>2, <2>3, <2>4, <2>5, WorkerWrites
<1>3. CASE UNCHANGED vars
  BY <1>3 DEF vars, apiVars
<1> QED
  BY <1>1, <1>2, <1>3 DEF Next

-----------------------------------------------------------------------------
(* Only claimed rows are executed.                                         *)

\* How the API changes rows: it inserts the row of a handler that found none,
\* or commits the transition it holds the lock for.
LEMMA ApiWrites ==
  ASSUME TypeOK, HandlerInv, ApiNext
  PROVE  \/ status' = status
         \/ status[api.run] = "none" /\ status' = [status EXCEPT ![api.run] = "queued"]
         \/ /\ api.run \in Runs /\ rowLock = api.run
            /\ api.op \in {"stop", "cancel"}
            /\ CanTransition(status[api.run], Target)
            /\ status' = [status EXCEPT ![api.run] = Target]
<1> USE DEF storeVars, GoTo, HandlerInv
<1>1. CASE SaveRunRecord
  BY <1>1 DEF SaveRunRecord, Save
<1>2. CASE TransitionCommit
  BY <1>2 DEF TransitionCommit, TypeOK, ApiTypeOK
<1>3. CASE ~SaveRunRecord /\ ~TransitionCommit
  BY <1>3 DEF ApiNext, StartOpencda, CreateRun, StopSimulation, CancelQueued,
              DeleteResults, PutQueuedManifest, TransitionLock, NoteManifest,
              RemoveTree, AbortHandler
<1> QED
  BY <1>1, <1>2, <1>3

\* A row becomes a job only by a claim, and leaves "queued" for "cancelled"
\* only while no worker has claimed it.
LEMMA ClaimedStep ==
  TypeOK /\ HandlerInv /\ ClaimedOnly /\ [Next]_vars => ClaimedOnly'
<1> SUFFICES ASSUME TypeOK, HandlerInv, ClaimedOnly, [Next]_vars
             PROVE  ClaimedOnly'
  OBVIOUS
<1> USE DEF TypeOK, StoreTypeOK, WorkerTypeOK, ClaimedOnly, Claimed, Busy,
            storeVars, jobVars, childVars
<1>1. ASSUME ApiNext, UNCHANGED workerVars PROVE ClaimedOnly'
  <2>1. /\ pc' = pc /\ job' = job /\ interrupted' = interrupted
        /\ child' = child /\ owner' = owner
    BY <1>1 DEF workerVars
  <2>2. CASE status' = status
    BY <2>1, <2>2
  <2>3. CASE /\ status[api.run] = "none"
             /\ status' = [status EXCEPT ![api.run] = "queued"]
    BY <2>1, <2>3
  <2>4. CASE /\ api.run \in Runs
             /\ api.op \in {"stop", "cancel"}
             /\ CanTransition(status[api.run], Target)
             /\ status' = [status EXCEPT ![api.run] = Target]
    BY <2>1, <2>4 DEF CanTransition, AllowedTransitions, Target
  <2> QED
    BY <1>1, <2>2, <2>3, <2>4, ApiWrites
<1>2. ASSUME NEW w \in Workers, WorkerStep(w) PROVE ClaimedOnly'
  <2> USE DEF Jump, ClearJob
  <2>1. CASE AcquireLease(w)
    BY <2>1 DEF AcquireLease
  <2>2. CASE FailInterrupted(w)
    BY <2>2 DEF FailInterrupted, FailRows
  <2>13. CASE ReadInterrupted(w)
    BY <2>13 DEF ReadInterrupted, InterruptedRows, Active
  <2>3. CASE GracefulExit(w)
    BY <2>3 DEF GracefulExit
  <2>4. ASSUME NEW r \in Runs, Claim(w, r) PROVE ClaimedOnly'
    BY <2>4 DEF Claim, ClaimNext, Claimable
  <2>5. CASE Launch(w)
    BY <2>5 DEF Launch
  <2>6. CASE MarkOutcome(w)
    BY <2>6 DEF MarkOutcome, Transition, CanTransition, AllowedTransitions
  <2>7. CASE MarkFailed(w)
    BY <2>7 DEF MarkFailed, Transition, CanTransition, AllowedTransitions
  <2>8. CASE WriteFailed(w)
    BY <2>8 DEF WriteFailed
  <2>9. CASE WriteRunning(w) \/ OnStarted(w) \/ ReportProgress(w)
    BY <2>9 DEF WriteRunning, OnStarted, ReportProgress
  <2>10. CASE StopExpired(w) \/ StopOnRequest(w) \/ KeepPolling(w)
    BY <2>10 DEF StopExpired, StopOnRequest, KeepPolling
  <2>11. CASE StopReturns(w) \/ GraceExpires(w) \/ SendKill(w)
    BY <2>11 DEF StopReturns, GraceExpires, SendKill
  <2>12. CASE ChildExited(w) \/ Collect(w) \/ WriteOutcome(w)
    BY <2>12 DEF ChildExited, Collect, WriteOutcome
  <2> QED
    BY <1>2, <2>1, <2>2, <2>3, <2>4, <2>5, <2>6, <2>7, <2>8, <2>9, <2>10,
       <2>11, <2>12, <2>13 DEF WorkerStep
<1>3. ASSUME NEW w \in Workers, WorkerEnvironment(w) PROVE ClaimedOnly'
  <2> USE DEF Jump, ClearJob
  <2>1. CASE LeaseHeld(w) \/ OperatorStart(w) \/ ShutdownSignal(w)
    BY <2>1 DEF LeaseHeld, OperatorStart, ShutdownSignal
  <2>2. CASE Crash(w) \/ UncaughtError(w)
    <3>1. Die(w) /\ status' = status
      BY <2>2 DEF Crash, UncaughtError
    <3>2. \A r \in Runs : child[r] # "alive" => child'[r] = child[r]
      BY <3>1, NoWorkerAssumption DEF Die
    <3>3. \A r \in Runs : child'[r] # "alive" => owner'[r] = NoWorker
      BY <3>1 DEF Die
    <3> QED
      BY <3>1, <3>2, <3>3 DEF Die
  <2>3. CASE ExecuteRaises(w)
    BY <2>3 DEF ExecuteRaises
  <2>4. CASE ReapSession(w) \/ DropLease(w) \/ RuntimeExpires(w)
    BY <2>4 DEF ReapSession, DropLease, RuntimeExpires
  <2> QED
    BY <1>3, <2>1, <2>2, <2>3, <2>4 DEF WorkerEnvironment
<1>4. ASSUME NEW r \in Runs, ChildNext(r) PROVE ClaimedOnly'
  BY <1>4 DEF ChildNext, ChildCompletes, ChildErrors, ChildDies, ChildEnds
<1>5. CASE UNCHANGED vars
  BY <1>5 DEF vars, workerVars
<1> QED
  BY <1>1, <1>2, <1>3, <1>4, <1>5 DEF Next, WorkerNext

\* Both invariants hold throughout, whatever fails: they rest on the row lock
\* alone, not on the lease.
LEMMA RowLockInvariant == Spec => [](HandlerInv /\ ClaimedOnly)
<1>1. Init => HandlerInv /\ ClaimedOnly
  BY DEF Init, StoreInit, ApiInit, NoHandler, WorkerInit, HandlerInv,
         ClaimedOnly, Claimed, Busy
<1>2. TypeOK /\ HandlerInv /\ ClaimedOnly /\ [Next]_vars
        => HandlerInv' /\ ClaimedOnly'
  BY HandlerStep, ClaimedStep
<1> QED
  BY <1>1, <1>2, TypeCorrect, PTL DEF Spec

\* Whatever fails, a cancelled run never had a child process: the claim and
\* the cancellation exclude each other through the row lock.
THEOREM CancelledRunsNeverExecute == Spec => []CancelledNeverLaunched
<1>1. ClaimedOnly => CancelledNeverLaunched
  BY DEF ClaimedOnly, Claimed, CancelledNeverLaunched
<1> QED
  BY <1>1, RowLockInvariant, PTL

\* While a start handler runs, no row is inserted by another and none returns
\* from a terminal status.
LEMMA StartStep ==
  TypeOK /\ HandlerInv /\ ClaimedOnly /\ StartInv /\ [Next]_vars => StartInv'
<1> SUFFICES ASSUME TypeOK, HandlerInv, ClaimedOnly, StartInv, [Next]_vars
             PROVE  StartInv'
  OBVIOUS
<1> USE DEF StartInv, NothingPending, storeVars
<1>1. CASE ApiNext
  <2> USE <1>1 DEF Enter, GoTo, NoHandler
  <2>1. CASE \E r \in Runs : StartOpencda(r)
    BY <2>1 DEF StartOpencda
  <2>2. CASE \E r \in Runs : CreateRun(r) \/ StopSimulation(r)
                             \/ CancelQueued(r) \/ DeleteResults(r)
    BY <2>2 DEF CreateRun, StopSimulation, CancelQueued, DeleteResults,
                TypeOK, ApiTypeOK
  <2>3. CASE PutQueuedManifest
    BY <2>3 DEF PutQueuedManifest, TypeOK, ApiTypeOK
  <2>4. CASE SaveRunRecord \/ RemoveTree \/ NoteManifest \/ AbortHandler
    BY <2>4 DEF SaveRunRecord, RemoveTree, NoteManifest, AbortHandler
  <2>5. CASE TransitionLock \/ TransitionCommit
    BY <2>5 DEF TransitionLock, TransitionCommit, HandlerInv, TypeOK, ApiTypeOK
  <2> QED
    BY <2>1, <2>2, <2>3, <2>4, <2>5 DEF ApiNext
<1>2. ASSUME WorkerNext, UNCHANGED apiVars, api.op = "start" PROVE StartInv'
  <2> USE DEF TypeOK, StoreTypeOK, WorkerTypeOK
  <2>1. api' = api
    BY <1>2 DEF apiVars
  <2>2. CASE status' = status
    BY <1>2, <2>1, <2>2
  <2>3. ASSUME NEW w \in Workers, NEW r \in Runs, Claim(w, r) PROVE FALSE
    BY <1>2, <2>3 DEF Claim, ClaimNext, Claimable
  <2>4. ASSUME NEW w \in Workers, MarkOutcome(w) \/ MarkFailed(w)
        PROVE  StartInv'
    BY <1>2, <2>1, <2>4 DEF MarkOutcome, MarkFailed, Jump, Transition
  <2>5. ASSUME NEW w \in Workers, FailInterrupted(w) PROVE StartInv'
    BY <1>2, <2>1, <2>5 DEF FailInterrupted, FailRows
  <2> QED
    BY <1>2, <2>2, <2>3, <2>4, <2>5, WorkerWrites
<1>3. CASE UNCHANGED vars
  BY <1>3 DEF vars, apiVars
<1> QED
  BY <1>1, <1>2, <1>3 DEF Next, apiVars

\* Whatever fails, /start_opencda inserts its row beside no pending one: its
\* check stays true over the two operations that follow it.
THEOREM StartIsExclusive == Spec => ExclusiveStart
<1>1. Init => StartInv
  BY DEF Init, ApiInit, NoHandler, StartInv
<1>2. StartInv => (SaveRunRecord /\ api.op = "start" => NothingPending)
  BY DEF StartInv
<1> QED
  BY <1>1, <1>2, StartStep, RowLockInvariant, TypeCorrect, PTL
     DEF Spec, ExclusiveStart

-----------------------------------------------------------------------------
(* Submission order, as long as no cancellation is rolled back.             *)

\* A claim passes over a queued row only while its cancellation holds the lock,
\* and that cancellation is committed.
LEMMA OrderStep ==
  ASSUME "api_abort" \notin Faults,
         TypeOK, HandlerInv, ClaimedOnly, OrderInv, [Next]_vars
  PROVE  OrderInv'
<1> USE NoRunAssumption
    DEF OrderInv, NoOvertaking, Earlier, TypeOK, StoreTypeOK, storeVars
<1>1. CASE ApiNext
  <2> USE <1>1 DEF GoTo, Enter
  <2>1. CASE SaveRunRecord
    <3>1. api.run \in Runs /\ status[api.run] = "none"
      BY <2>1 DEF SaveRunRecord, HandlerInv, ApiTypeOK
    <3>2. /\ \A r \in Runs : created'[r] = IF r = api.run THEN clock + 1 ELSE created[r]
          /\ \A r \in Runs : status'[r] = IF r = api.run THEN "queued" ELSE status[r]
          /\ clock' = clock + 1 /\ rowLock' = rowLock
      BY <2>1, <3>1 DEF SaveRunRecord, Save
    <3> QED
      BY <3>1, <3>2
  <2>2. CASE TransitionLock
    BY <2>2 DEF TransitionLock, HandlerInv
  <2>3. CASE TransitionCommit
    <3>1. /\ api.run \in Runs /\ rowLock = api.run
          /\ status' = [status EXCEPT ![api.run] = Target]
          /\ created' = created /\ clock' = clock
      BY <2>3 DEF TransitionCommit, HandlerInv, ApiTypeOK
    <3>2. CASE Target = "cancelled"
      BY <3>1, <3>2
    <3>3. CASE Target = "stopping" /\ Claimed(api.run)
      BY <3>1, <3>3 DEF Claimed
    <3>4. Target = "stopping" => Claimed(api.run)
      BY <2>3 DEF TransitionCommit, HandlerInv, CanTransition,
                  AllowedTransitions, Claimed
    <3> QED
      BY <3>2, <3>3, <3>4 DEF Target
  <2>4. CASE AbortHandler
    BY <2>4 DEF AbortHandler, Fault
  <2>5. CASE ~(SaveRunRecord \/ TransitionLock \/ TransitionCommit \/ AbortHandler)
    BY <2>5 DEF ApiNext, StartOpencda, CreateRun, StopSimulation, CancelQueued,
                DeleteResults, PutQueuedManifest, NoteManifest, RemoveTree
  <2> QED
    BY <2>1, <2>2, <2>3, <2>4, <2>5
<1>2. CASE WorkerNext
  <2>1. created' = created /\ clock' = clock /\ rowLock' = rowLock
    BY <1>2, WorkerWrites
  <2>2. CASE status' = status
    BY <2>1, <2>2
  <2>3. ASSUME NEW w \in Workers, NEW r \in Runs, Claim(w, r) PROVE OrderInv'
    BY <2>1, <2>3 DEF Claim, ClaimNext, Claimable
  <2>4. ASSUME NEW w \in Workers, MarkOutcome(w) \/ MarkFailed(w)
        PROVE  OrderInv'
    <3>1. \A r \in Runs : status'[r] # status[r] => Claimed(r)
      BY <2>4 DEF MarkOutcome, MarkFailed, Transition, Jump, Busy, ClaimedOnly
    <3>2. \A r \in Runs : status'[r] # "queued" \/ status[r] = "queued"
      BY <2>4 DEF MarkOutcome, MarkFailed, Transition, Jump, WorkerTypeOK
    <3> QED
      BY <2>1, <3>1, <3>2 DEF Claimed
  <2>5. ASSUME NEW w \in Workers, FailInterrupted(w) PROVE OrderInv'
    BY <2>1, <2>5 DEF FailInterrupted, FailRows, ClaimedOnly, Claimed
  <2> QED
    BY <1>2, <2>2, <2>3, <2>4, <2>5, WorkerWrites
<1>3. CASE UNCHANGED vars
  BY <1>3 DEF vars
<1> QED
  BY <1>1, <1>2, <1>3 DEF Next

\* Runs are claimed in the order of submission, by any number of workers and
\* whatever fails in them.
THEOREM ClaimsKeepOrder ==
  ASSUME "api_abort" \notin Faults
  PROVE  Spec => []NoOvertaking
<1>1. Init => OrderInv
  BY DEF Init, StoreInit, OrderInv, NoOvertaking
<1>2. TypeOK /\ HandlerInv /\ ClaimedOnly /\ OrderInv /\ [Next]_vars => OrderInv'
  BY OrderStep
<1>3. OrderInv => NoOvertaking
  BY DEF OrderInv
<1> QED
  BY <1>1, <1>2, <1>3, RowLockInvariant, TypeCorrect, PTL DEF Spec

-----------------------------------------------------------------------------
(* The slot, as long as no lease connection breaks under a live worker.     *)

\* Only the lease holder runs, and an active row is its job or is left for it
\* to recover.
LEMMA SlotStep ==
  ASSUME "lease_drop" \notin Faults, TypeOK, ClaimedOnly, SlotInv, [Next]_vars
  PROVE  SlotInv'
<1> USE NoWorkerAssumption
    DEF TypeOK, StoreTypeOK, WorkerTypeOK, SlotInv, LeaseHeldByRunning,
        ActiveRowInv, Running, Busy, Active, InterruptedRows,
        storeVars, jobVars, childVars
<1>h. HandlerInv'
  BY HandlerStep
<1>1. ASSUME ApiNext, UNCHANGED workerVars
      PROVE  LeaseHeldByRunning' /\ ActiveRowInv'
  <2>1. pc' = pc /\ job' = job /\ lease' = lease /\ interrupted' = interrupted
    BY <1>1 DEF workerVars
  <2>2. CASE status' = status
    BY <2>1, <2>2
  <2>3. CASE /\ status[api.run] = "none"
             /\ status' = [status EXCEPT ![api.run] = "queued"]
    BY <2>1, <2>3
  <2>4. CASE /\ api.run \in Runs
             /\ api.op \in {"stop", "cancel"}
             /\ CanTransition(status[api.run], Target)
             /\ status' = [status EXCEPT ![api.run] = Target]
    <3>1. \A r \in Runs : Active(r)' <=> Active(r)
      BY <2>4 DEF CanTransition, AllowedTransitions, Target
    <3> QED
      BY <2>1, <3>1
  <2> QED
    BY <1>1, <2>2, <2>3, <2>4, ApiWrites
<1>2. ASSUME NEW w \in Workers, WorkerStep(w)
      PROVE  LeaseHeldByRunning' /\ ActiveRowInv'
  <2> USE DEF Jump, ClearJob
  <2>1. CASE AcquireLease(w)
    BY <2>1 DEF AcquireLease
  <2>2. CASE FailInterrupted(w)
    <3>1. \A r \in Runs : ~Active(r)'
      BY <2>2 DEF FailInterrupted, FailRows
    <3>2. \A v \in Workers : Running(v) => v = w
      BY <2>2 DEF FailInterrupted
    <3> QED
      BY <2>2, <3>1, <3>2 DEF FailInterrupted
  <2>12. CASE ReadInterrupted(w)
    BY <2>12 DEF ReadInterrupted
  <2>3. CASE GracefulExit(w)
    BY <2>3 DEF GracefulExit, ReleasedBy
  <2>4. ASSUME NEW r \in Runs, Claim(w, r)
        PROVE  LeaseHeldByRunning' /\ ActiveRowInv'
    <3>1. \A v \in Workers : Running(v) => v = w
      BY <2>4 DEF Claim
    <3>2. \A s \in Runs : Active(s)' <=> s = r
      BY <2>4 DEF Claim, ClaimNext, Claimable
    <3> QED
      BY <2>4, <3>1, <3>2 DEF Claim
  <2>5. CASE MarkOutcome(w)
    <3>1. \A v \in Workers : Running(v) => v = w
      BY <2>5 DEF MarkOutcome
    <3>2. \A r \in Runs : ~Active(r)'
      BY <2>5 DEF MarkOutcome, Transition, CanTransition, AllowedTransitions
    <3> QED
      BY <2>5, <3>1, <3>2 DEF MarkOutcome
  <2>6. CASE MarkFailed(w)
    <3>1. \A v \in Workers : Running(v) => v = w
      BY <2>6 DEF MarkFailed
    <3>2. \A r \in Runs : ~Active(r)'
      BY <2>6 DEF MarkFailed, Transition, CanTransition, AllowedTransitions
    <3> QED
      BY <2>6, <3>1, <3>2 DEF MarkFailed
  <2>7. CASE WriteFailed(w)
    BY <2>7 DEF WriteFailed
  <2>8. CASE WriteRunning(w) \/ Launch(w) \/ OnStarted(w) \/ ReportProgress(w)
    BY <2>8 DEF WriteRunning, Launch, OnStarted, ReportProgress
  <2>9. CASE StopExpired(w) \/ StopOnRequest(w) \/ KeepPolling(w)
    BY <2>9 DEF StopExpired, StopOnRequest, KeepPolling
  <2>10. CASE StopReturns(w) \/ GraceExpires(w) \/ SendKill(w)
    BY <2>10 DEF StopReturns, GraceExpires, SendKill, AfterStop
  <2>11. CASE ChildExited(w) \/ Collect(w) \/ WriteOutcome(w)
    BY <2>11 DEF ChildExited, Collect, WriteOutcome
  <2> QED
    BY <1>2, <2>1, <2>2, <2>3, <2>4, <2>5, <2>6, <2>7, <2>8, <2>9, <2>10,
       <2>11, <2>12 DEF WorkerStep
<1>3. ASSUME NEW w \in Workers, WorkerEnvironment(w)
      PROVE  LeaseHeldByRunning' /\ ActiveRowInv'
  <2> USE DEF Jump, ClearJob
  <2>1. CASE LeaseHeld(w) \/ OperatorStart(w) \/ ShutdownSignal(w)
    BY <2>1 DEF LeaseHeld, OperatorStart, ShutdownSignal
  <2>2. CASE Crash(w) \/ UncaughtError(w)
    <3>1. Die(w) /\ status' = status
      BY <2>2 DEF Crash, UncaughtError
    <3>2. \A v \in Workers :
            Running(v)' => /\ v # w /\ pc'[v] = pc[v]
                           /\ job'[v] = job[v] /\ interrupted'[v] = interrupted[v]
      BY <3>1 DEF Die
    <3>3. \A v \in Workers : Running(v)' => lease' = v
      BY <3>1, <3>2 DEF Die, ReleasedBy
    <3> QED
      BY <3>1, <3>2, <3>3
  <2>3. CASE ExecuteRaises(w)
    BY <2>3 DEF ExecuteRaises
  <2>4. CASE ReapSession(w) \/ RuntimeExpires(w)
    BY <2>4 DEF ReapSession, RuntimeExpires
  <2>5. CASE DropLease(w)
    BY <2>5 DEF DropLease, Fault
  <2> QED
    BY <1>3, <2>1, <2>2, <2>3, <2>4, <2>5 DEF WorkerEnvironment
<1>4. ASSUME NEW r \in Runs, ChildNext(r)
      PROVE  LeaseHeldByRunning' /\ ActiveRowInv'
  BY <1>4 DEF ChildNext, ChildCompletes, ChildErrors, ChildDies, ChildEnds
<1>5. CASE UNCHANGED vars
  BY <1>5, <1>h DEF vars, workerVars
<1> QED
  BY <1>h, <1>1, <1>2, <1>3, <1>4, <1>5 DEF Next, WorkerNext

\* The initial state has no row and no running worker.
LEMMA SlotInit == Init => SlotInv
BY NoWorkerAssumption
   DEF Init, StoreInit, ApiInit, NoHandler, WorkerInit, SlotInv, HandlerInv,
       LeaseHeldByRunning, ActiveRowInv, Running, Busy, Active

\* The inductive invariant of the slot holds throughout.
LEMMA SlotInvariant ==
  ASSUME "lease_drop" \notin Faults
  PROVE  Spec => []SlotInv
BY SlotInit, SlotStep, RowLockInvariant, TypeCorrect, PTL DEF Spec

\* While the lease connection holds, an idle worker leaves no row active,
\* whatever crashes, restarts, input/output and database errors went before.
THEOREM IdleWorkerLeavesNothingActive ==
  ASSUME "lease_drop" \notin Faults
  PROVE  Spec => []IdleMeansNoActiveRecord
<1>1. SlotInv => IdleMeansNoActiveRecord
  BY DEF SlotInv, ActiveRowInv, IdleMeansNoActiveRecord
<1> QED
  BY <1>1, SlotInvariant, PTL

\* The phase the slot sees of a row with a given status.
LEMMA PhaseOf ==
  ASSUME NEW r \in Runs
  PROVE  /\ status[r] = "none" => phaseBar[r] = "absent"
         /\ status[r] = "queued" => phaseBar[r] = "waiting"
         /\ Active(r) <=> phaseBar[r] = "holding"
         /\ status[r] \in TerminalStatuses => phaseBar[r] = "over"
BY DEF phaseBar, Active

\* Writing one row moves that row's phase and no other.
LEMMA RowMoves ==
  ASSUME StoreTypeOK, NEW r \in Runs, NEW t \in RunStatus,
         status' = [status EXCEPT ![r] = t],
         NEW p, p = CASE t = "queued" -> "waiting"
                      [] t \in ActiveStatuses -> "holding"
                      [] OTHER -> "over"
  PROVE  phaseBar' = [phaseBar EXCEPT ![r] = p]
<1>1. \A s \in Runs : status'[s] = IF s = r THEN t ELSE status[s]
  BY DEF StoreTypeOK
<1>2. \A s \in Runs : phaseBar'[s] = IF s = r THEN p ELSE phaseBar[s]
  <2> TAKE s \in Runs
  <2>1. CASE s = r
    BY <2>1, <1>1 DEF phaseBar
  <2>2. CASE s # r
    BY <2>2, <1>1 DEF phaseBar
  <2> QED
    BY <2>1, <2>2
<1> QED
  BY <1>2 DEF phaseBar

\* Ending an active row, by a mark or by recovery, is a release of the slot.
LEMMA EndReleases ==
  ASSUME StoreTypeOK, NEW r \in Runs, Active(r), NEW t \in TerminalStatuses,
         status' = [status EXCEPT ![r] = t]
  PROVE  Slot!Release(r)
<1>1. phaseBar[r] = "holding"
  BY PhaseOf
<1>2. phaseBar' = [phaseBar EXCEPT ![r] = "over"]
  BY RowMoves
<1> QED
  BY <1>1, <1>2 DEF Slot!Release, Slot!Move

\* Every step of the queue is a step of the slot or leaves it as it is.
LEMMA SlotSimulation ==
  ASSUME TypeOK, SlotInv, [Next]_vars
  PROVE  [Slot!Next]_phaseBar
<1> USE DEF TypeOK, StoreTypeOK, WorkerTypeOK, SlotInv, ActiveRowInv,
            Slot!Next, Slot!Move
<1>0. CASE status' = status
  BY <1>0 DEF phaseBar
<1>1. ASSUME ApiNext PROVE [Slot!Next]_phaseBar
  <2>1. CASE /\ status[api.run] = "none"
             /\ status' = [status EXCEPT ![api.run] = "queued"]
    <3>1. CASE api.run \in Runs
      <4>1. Slot!Submit(api.run)
        BY <2>1, <3>1 DEF Slot!Submit, phaseBar
      <4> QED
        BY <3>1, <4>1
    <3>2. CASE api.run \notin Runs
      BY <2>1, <3>2, <1>0
    <3> QED
      BY <3>1, <3>2
  <2>2. CASE /\ api.run \in Runs
             /\ api.op \in {"stop", "cancel"}
             /\ CanTransition(status[api.run], Target)
             /\ status' = [status EXCEPT ![api.run] = Target]
    <3>1. CASE status[api.run] = "queued" /\ Target = "cancelled"
      <4>1. Slot!Withdraw(api.run)
        BY <2>2, <3>1 DEF Slot!Withdraw, phaseBar
      <4> QED
        BY <2>2, <4>1
    <3>2. CASE ~(status[api.run] = "queued" /\ Target = "cancelled")
      BY <2>2, <3>2
         DEF CanTransition, AllowedTransitions, Target, phaseBar
    <3> QED
      BY <3>1, <3>2
  <2> QED
    BY <1>0, <1>1, <2>1, <2>2, ApiWrites
<1>2. ASSUME NEW w \in Workers, NEW r \in Runs, Claim(w, r)
      PROVE  [Slot!Next]_phaseBar
  <2>1. status[r] = "queued" /\ status' = [status EXCEPT ![r] = "running"]
    BY <1>2 DEF Claim, ClaimNext, Claimable
  <2>2. \A s \in Runs : phaseBar[s] # "holding"
    BY <1>2, PhaseOf DEF Claim, Jump
  <2>3. phaseBar[r] = "waiting" /\ phaseBar' = [phaseBar EXCEPT ![r] = "holding"]
    BY <2>1, PhaseOf, RowMoves
  <2>4. Slot!Grant(r)
    BY <2>2, <2>3 DEF Slot!Grant, Slot!Free
  <2> QED
    BY <2>4
<1>3. ASSUME NEW w \in Workers, MarkOutcome(w) \/ MarkFailed(w)
      PROVE  [Slot!Next]_phaseBar
  <2>1. job[w] \in Runs /\ Active(job[w])
    BY <1>3 DEF MarkOutcome, MarkFailed, Jump, Busy
  <2>2. PICK t \in TerminalStatuses : status' = [status EXCEPT ![job[w]] = t]
    BY <1>3, <2>1
       DEF MarkOutcome, MarkFailed, Jump, Transition, CanTransition,
           AllowedTransitions, Active
  <2>3. Slot!Release(job[w])
    BY <2>1, <2>2, EndReleases
  <2> QED
    BY <2>1, <2>3
<1>4. ASSUME NEW w \in Workers, FailInterrupted(w)
      PROVE  [Slot!Next]_phaseBar
  <2>1. status' = [r \in Runs |-> IF Active(r) THEN "failed" ELSE status[r]]
    BY <1>4 DEF FailInterrupted, FailRows, Jump, InterruptedRows
  <2>2. CASE \A r \in Runs : ~Active(r)
    BY <1>0, <2>1, <2>2
  <2>3. ASSUME NEW r \in Runs, Active(r) PROVE [Slot!Next]_phaseBar
    <3>1. status' = [status EXCEPT ![r] = "failed"]
      <4>1. \A s \in Runs : Active(s) <=> s = r
        BY <2>3
      <4>2. \A s \in Runs : status'[s] = IF s = r THEN "failed" ELSE status[s]
        BY <2>1, <4>1
      <4>3. status' \in [Runs -> RunStatus \cup {"none"}]
        BY <2>1
      <4> QED
        BY <4>2, <4>3
    <3>2. Slot!Release(r)
      BY <2>3, <3>1, EndReleases
    <3> QED
      BY <3>2
  <2> QED
    BY <2>2, <2>3
<1>5. CASE UNCHANGED vars
  BY <1>0, <1>5 DEF vars, storeVars
<1> QED
  BY <1>0, <1>1, <1>2, <1>3, <1>4, <1>5, WorkerWrites DEF Next

\* While the lease connection holds, the rows of the queue implement RunSlot:
\* one run at a time holds CARLA, once, and never after it was withdrawn.
THEOREM QueueImplementsSlot ==
  ASSUME "lease_drop" \notin Faults
  PROVE  Spec => ImplementsSlot
<1>1. Init => Slot!Init
  BY DEF Init, StoreInit, Slot!Init, phaseBar
<1> QED
  BY <1>1, SlotSimulation, SlotInvariant, TypeCorrect, PTL
     DEF Spec, ImplementsSlot, Slot!Spec

-----------------------------------------------------------------------------
(* The children, as long as no exception leaves execute()'s loop.           *)

\* A child on CARLA stays in the container of the worker that supervises it:
\* the loop is left only when the child has ended or was sent SIGKILL.
LEMMA ChildStep ==
  ASSUME {"io_error", "db_error"} \cap Faults = {},
         TypeOK, SlotInv, ChildInv, [Next]_vars
  PROVE  ChildInv'
<1> USE NoWorkerAssumption
    DEF TypeOK, StoreTypeOK, WorkerTypeOK, SlotInv, LeaseHeldByRunning, Running,
        ChildInv, LiveRuns, Live, Supervising, Busy, storeVars, jobVars, childVars
<1>1. CASE UNCHANGED workerVars
  BY <1>1 DEF workerVars
<1>2. ASSUME NEW w \in Workers, WorkerStep(w) PROVE ChildInv'
  <2> USE DEF Jump, ClearJob, SendSignal
  <2>1. CASE \/ AcquireLease(w) \/ GracefulExit(w)
             \/ ReadInterrupted(w) \/ FailInterrupted(w)
    BY <2>1 DEF AcquireLease, GracefulExit, ReadInterrupted, FailInterrupted
  <2>2. CASE \E r \in Runs : Claim(w, r)
    BY <2>2 DEF Claim
  <2>3. CASE Launch(w)
    <3>1. \A r \in Runs : ~Live(r)
      BY <2>3 DEF Launch
    <3> QED
      BY <2>3, <3>1 DEF Launch
  <2>4. CASE WriteRunning(w) \/ OnStarted(w) \/ ReportProgress(w)
    BY <2>4 DEF WriteRunning, OnStarted, ReportProgress
  <2>5. CASE StopExpired(w) \/ StopOnRequest(w) \/ KeepPolling(w)
    BY <2>5 DEF StopExpired, StopOnRequest, KeepPolling
  <2>6. CASE StopReturns(w) \/ ChildExited(w)
    BY <2>6 DEF StopReturns, ChildExited, AfterStop
  <2>7. CASE GraceExpires(w)
    BY <2>7 DEF GraceExpires
  <2>8. CASE SendKill(w)
    BY <2>8 DEF SendKill, AfterStop
  <2>9. CASE Collect(w) \/ WriteOutcome(w)
    BY <2>9 DEF Collect, WriteOutcome
  <2>10. CASE MarkOutcome(w) \/ MarkFailed(w) \/ WriteFailed(w)
    BY <2>10 DEF MarkOutcome, MarkFailed, WriteFailed
  <2> QED
    BY <1>2, <2>1, <2>2, <2>3, <2>4, <2>5, <2>6, <2>7, <2>8, <2>9, <2>10
       DEF WorkerStep
<1>3. ASSUME NEW w \in Workers, WorkerEnvironment(w) PROVE ChildInv'
  <2> USE DEF Jump, ClearJob
  <2>1. CASE LeaseHeld(w) \/ OperatorStart(w) \/ ShutdownSignal(w)
    BY <2>1 DEF LeaseHeld, OperatorStart, ShutdownSignal
  <2>2. CASE Crash(w) \/ UncaughtError(w)
    <3>1. Die(w)
      BY <2>2 DEF Crash, UncaughtError
    <3> QED
      BY <3>1 DEF Die
  <2>3. CASE ExecuteRaises(w)
    BY <2>3 DEF ExecuteRaises, Fault
  <2>4. CASE ReapSession(w) \/ DropLease(w) \/ RuntimeExpires(w)
    BY <2>4 DEF ReapSession, DropLease, RuntimeExpires
  <2> QED
    BY <1>3, <2>1, <2>2, <2>3, <2>4 DEF WorkerEnvironment
<1>4. ASSUME NEW r \in Runs, ChildNext(r) PROVE ChildInv'
  BY <1>4 DEF ChildNext, ChildCompletes, ChildErrors, ChildDies, ChildEnds
<1>5. CASE UNCHANGED vars
  BY <1>1, <1>5 DEF vars
<1> QED
  BY <1>1, <1>2, <1>3, <1>4, <1>5 DEF Next, WorkerNext

\* The children's invariant holds throughout.
LEMMA ChildInvariant ==
  ASSUME {"lease_drop", "io_error", "db_error"} \cap Faults = {}
  PROVE  Spec => []ChildInv
<1>1. Init => ChildInv
  BY DEF Init, WorkerInit, ChildInv, LiveRuns, Live
<1>2. "lease_drop" \notin Faults /\ {"io_error", "db_error"} \cap Faults = {}
  OBVIOUS
<1>3. TypeOK /\ SlotInv /\ ChildInv /\ [Next]_vars => ChildInv'
  BY <1>2, ChildStep
<1>4. Spec => []SlotInv
  BY <1>2, SlotInvariant
<1> QED
  BY <1>1, <1>3, <1>4, TypeCorrect, PTL DEF Spec

\* Two children never drive CARLA together, whatever number of workers is
\* started, crashes, is shut down or restarted before its session is reaped.
THEOREM OneRunAtATime ==
  ASSUME {"lease_drop", "io_error", "db_error"} \cap Faults = {}
  PROVE  Spec => []OneRunOnCarla
<1>1. SlotInv /\ ChildInv => OneRunOnCarla
  BY DEF SlotInv, LeaseHeldByRunning, Running, ChildInv, Supervising,
         OneRunOnCarla, LiveRuns
<1>2. "lease_drop" \notin Faults
  OBVIOUS
<1> QED
  BY <1>1, <1>2, SlotInvariant, ChildInvariant, PTL

\* Under the same assumption a child on CARLA always has an active record and
\* a worker in execute()'s loop.
THEOREM LiveRunsAreSupervised ==
  ASSUME {"lease_drop", "io_error", "db_error"} \cap Faults = {}
  PROVE  Spec => []LiveRunIsSupervised
<1>1. SlotInv /\ ChildInv => LiveRunIsSupervised
  BY DEF SlotInv, ActiveRowInv, Busy, ChildInv, Supervising,
         LiveRunIsSupervised, LiveRuns
<1>2. "lease_drop" \notin Faults
  OBVIOUS
<1> QED
  BY <1>1, <1>2, SlotInvariant, ChildInvariant, PTL

-----------------------------------------------------------------------------
(* The state machine of contracts.py.                                       *)

\* While the lease connection holds, no row takes a step the contract forbids:
\* the check transition() makes is still valid when it commits, and recovery,
\* which does not check, finds the rows still active that it has read.
THEOREM RowsFollowTheContract ==
  ASSUME "lease_drop" \notin Faults
  PROVE  Spec => StatusFollowsContract
<1> DEFINE Lawful == \A r \in Runs : status[r] # "none"
                                       => CanTransition(status[r], status'[r])
<1>1. ASSUME TypeOK, SlotInv, [Next]_vars PROVE Lawful
  <2> USE DEF TypeOK, StoreTypeOK, SlotInv
  <2>a. \A r \in Runs : status[r] # "none" => CanTransition(status[r], status[r])
    BY <1>1 DEF CanTransition
  <2>b. /\ CanTransition("queued", "running")
        /\ CanTransition("running", "failed")
        /\ CanTransition("stopping", "failed")
    BY DEF CanTransition, AllowedTransitions
  <2>0. CASE status' = status
    BY <2>0, <2>a
  <2>1. CASE ApiNext
    <3>1. CASE /\ status[api.run] = "none"
               /\ status' = [status EXCEPT ![api.run] = "queued"]
      BY <2>a, <3>1
    <3>2. CASE /\ CanTransition(status[api.run], Target)
               /\ status' = [status EXCEPT ![api.run] = Target]
      BY <2>a, <3>2
    <3> QED
      BY <1>1, <2>0, <2>1, <3>1, <3>2, ApiWrites
  <2>2. ASSUME NEW w \in Workers, NEW r \in Runs, Claim(w, r) PROVE Lawful
    BY <2>2, <2>a, <2>b DEF Claim, ClaimNext, Claimable
  <2>3. ASSUME NEW w \in Workers, MarkOutcome(w) \/ MarkFailed(w) PROVE Lawful
    <3>1. PICK t : status' = IF CanTransition(status[job[w]], t)
                               THEN [status EXCEPT ![job[w]] = t]
                               ELSE status
      BY <2>3 DEF MarkOutcome, MarkFailed, Transition
    <3> QED
      BY <2>a, <3>1
  <2>4. ASSUME NEW w \in Workers, FailInterrupted(w) PROVE Lawful
    <3>1. status' = [r \in Runs |-> IF Active(r) THEN "failed" ELSE status[r]]
      BY <1>1, <2>4
         DEF FailInterrupted, FailRows, Jump, ActiveRowInv, InterruptedRows
    <3> QED
      BY <3>1, <2>a, <2>b DEF Active
  <2>5. CASE UNCHANGED vars
    BY <2>0, <2>5 DEF vars, storeVars
  <2> QED
    BY <1>1, <2>0, <2>1, <2>2, <2>3, <2>4, <2>5, WorkerWrites DEF Next
<1> QED
  BY <1>1, TypeCorrect, SlotInvariant, PTL DEF Spec, StatusFollowsContract

-----------------------------------------------------------------------------
(* Outcomes, whatever fails.                                                *)

\* An ended child is left as it is, and only its worker records its outcome.
LEMMA OutcomeStep ==
  TypeOK /\ HandlerInv /\ ClaimedOnly /\ OutcomeInv /\ [Next]_vars => OutcomeInv'
<1> SUFFICES ASSUME TypeOK, HandlerInv, ClaimedOnly, OutcomeInv, [Next]_vars
             PROVE  OutcomeInv'
  OBVIOUS
<1> USE NoWorkerAssumption
    DEF TypeOK, StoreTypeOK, WorkerTypeOK, ClaimedOnly, Claimed, OutcomeInv,
        OutcomeIsTheChilds, Busy, storeVars, jobVars, childVars
<1>1. ASSUME ApiNext, UNCHANGED workerVars PROVE OutcomeInv'
  <2>1. /\ pc' = pc /\ job' = job /\ outcome' = outcome /\ child' = child
    BY <1>1 DEF workerVars
  <2>2. CASE status' = status
    BY <2>1, <2>2
  <2>3. CASE /\ status[api.run] = "none"
             /\ status' = [status EXCEPT ![api.run] = "queued"]
    BY <2>1, <2>3
  <2>4. CASE /\ api.run \in Runs
             /\ api.op \in {"stop", "cancel"}
             /\ CanTransition(status[api.run], Target)
             /\ status' = [status EXCEPT ![api.run] = Target]
    <3>1. \A r \in Runs :
            /\ status'[r] \in {"complete", "partial"}
                 => status'[r] = status[r]
            /\ status[r] \in {"stopping", "failed"} => status'[r] = status[r]
      BY <2>4 DEF CanTransition, AllowedTransitions, Target
    <3> QED
      BY <2>1, <3>1
  <2> QED
    BY <1>1, <2>2, <2>3, <2>4, ApiWrites
<1>2. ASSUME NEW w \in Workers, WorkerStep(w) PROVE OutcomeInv'
  <2> USE DEF Jump, ClearJob
  <2>1. CASE AcquireLease(w) \/ GracefulExit(w) \/ ReadInterrupted(w)
    BY <2>1 DEF AcquireLease, GracefulExit, ReadInterrupted
  <2>2. CASE FailInterrupted(w)
    BY <2>2 DEF FailInterrupted, FailRows
  <2>3. ASSUME NEW r \in Runs, Claim(w, r) PROVE OutcomeInv'
    BY <2>3 DEF Claim, ClaimNext, Claimable
  <2>4. CASE Launch(w)
    BY <2>4 DEF Launch
  <2>5. CASE WriteRunning(w) \/ OnStarted(w) \/ ReportProgress(w)
    BY <2>5 DEF WriteRunning, OnStarted, ReportProgress
  <2>6. CASE StopExpired(w) \/ StopOnRequest(w) \/ KeepPolling(w)
    <3>1. /\ \A v \in Workers \ {w} : pc'[v] = pc[v] /\ outcome'[v] = outcome[v]
          /\ pc[w] = "poll" /\ pc'[w] \in {"sigint", "report"}
          /\ job' = job /\ status' = status /\ child' = child
      BY <2>6 DEF StopExpired, StopOnRequest, KeepPolling
    <3> QED
      BY <3>1
  <2>7. CASE StopReturns(w) \/ GraceExpires(w) \/ SendKill(w)
    BY <2>7 DEF StopReturns, GraceExpires, SendKill, AfterStop
  <2>8. CASE ChildExited(w) \/ WriteOutcome(w)
    BY <2>8 DEF ChildExited, WriteOutcome
  <2>9. CASE Collect(w)
    BY <2>9 DEF Collect, Verdict, StopSeen
  <2>10. CASE MarkOutcome(w)
    BY <2>10 DEF MarkOutcome, Transition
  <2>11. CASE MarkFailed(w)
    BY <2>11 DEF MarkFailed, Transition
  <2>12. CASE WriteFailed(w)
    BY <2>12 DEF WriteFailed
  <2> QED
    BY <1>2, <2>1, <2>2, <2>3, <2>4, <2>5, <2>6, <2>7, <2>8, <2>9, <2>10,
       <2>11, <2>12 DEF WorkerStep
<1>3. ASSUME NEW w \in Workers, WorkerEnvironment(w) PROVE OutcomeInv'
  <2> USE DEF Jump, ClearJob
  <2>1. CASE LeaseHeld(w) \/ OperatorStart(w) \/ ShutdownSignal(w)
    BY <2>1 DEF LeaseHeld, OperatorStart, ShutdownSignal
  <2>2. CASE Crash(w) \/ UncaughtError(w)
    <3>1. Die(w) /\ status' = status
      BY <2>2 DEF Crash, UncaughtError
    <3>2. \A r \in Runs : child[r] # "alive" => child'[r] = child[r]
      BY <3>1 DEF Die
    <3>3. /\ \A v \in Workers \ {w} : /\ pc'[v] = pc[v] /\ job'[v] = job[v]
                                      /\ outcome'[v] = outcome[v]
          /\ pc'[w] = "down"
      BY <3>1 DEF Die
    <3> QED
      BY <3>1, <3>2, <3>3
  <2>3. CASE ExecuteRaises(w)
    BY <2>3 DEF ExecuteRaises
  <2>4. CASE ReapSession(w) \/ DropLease(w) \/ RuntimeExpires(w)
    BY <2>4 DEF ReapSession, DropLease, RuntimeExpires
  <2> QED
    BY <1>3, <2>1, <2>2, <2>3, <2>4 DEF WorkerEnvironment
<1>4. ASSUME NEW r \in Runs, ChildNext(r) PROVE OutcomeInv'
  BY <1>4 DEF ChildNext, ChildCompletes, ChildErrors, ChildDies, ChildEnds
<1>5. CASE UNCHANGED vars
  BY <1>5 DEF vars, workerVars
<1> QED
  BY <1>1, <1>2, <1>3, <1>4, <1>5 DEF Next, WorkerNext

\* The invariant of the outcomes holds throughout.
LEMMA OutcomeInvariant == Spec => []OutcomeInv
<1>1. Init => OutcomeInv
  BY DEF Init, StoreInit, WorkerInit, OutcomeInv, OutcomeIsTheChilds, Busy
<1> QED
  BY <1>1, OutcomeStep, RowLockInvariant, TypeCorrect, PTL DEF Spec

\* Whatever fails, a row is "complete" only with its child's result and
\* "partial" only with its child's error.
THEOREM OutcomesAreTheChilds == Spec => []OutcomeIsTheChilds
<1>1. OutcomeInv => OutcomeIsTheChilds
  BY DEF OutcomeInv
<1> QED
  BY <1>1, OutcomeInvariant, PTL

\* Whatever fails, a row becomes "partial" only from "stopping": the stop seen
\* by the verdict is still recorded when the worker marks the row.
THEOREM PartialMeansStopped == Spec => PartialOnlyAfterStop
<1> DEFINE Stopped == \A r \in Runs : status[r] # "partial" /\ status'[r] = "partial"
                                        => status[r] = "stopping"
<1>1. ASSUME TypeOK, HandlerInv, OutcomeInv, [Next]_vars PROVE Stopped
  <2> USE <1>1 DEF TypeOK, StoreTypeOK
  <2>0. CASE status' = status
    BY <2>0
  <2>1. CASE ApiNext
    BY <2>1, ApiWrites DEF Target
  <2>2. ASSUME NEW w \in Workers, NEW r \in Runs, Claim(w, r) PROVE Stopped
    BY <2>2 DEF Claim, ClaimNext
  <2>3. ASSUME NEW w \in Workers, MarkOutcome(w) PROVE Stopped
    <3>1. PICK t \in {"complete", "partial"} :
            /\ t = outcome[w]
            /\ status' = IF CanTransition(status[job[w]], t)
                           THEN [status EXCEPT ![job[w]] = t] ELSE status
      BY <2>3 DEF MarkOutcome, Transition, Jump, WorkerTypeOK
    <3>2. t = "partial" => status[job[w]] \in {"stopping", "failed"}
      BY <2>3, <3>1 DEF MarkOutcome, Jump, OutcomeInv
    <3>3. ~CanTransition("failed", "partial")
      BY DEF CanTransition, AllowedTransitions
    <3> QED
      BY <3>1, <3>2, <3>3
  <2>4. ASSUME NEW w \in Workers, MarkFailed(w) PROVE Stopped
    BY <2>4 DEF MarkFailed, Transition
  <2>5. ASSUME NEW w \in Workers, FailInterrupted(w) PROVE Stopped
    BY <2>5 DEF FailInterrupted, FailRows
  <2>6. CASE UNCHANGED vars
    BY <2>0, <2>6 DEF vars, storeVars
  <2> QED
    BY <2>0, <2>1, <2>2, <2>3, <2>4, <2>5, <2>6, WorkerWrites DEF Next
<1> QED
  BY <1>1, OutcomeInvariant, RowLockInvariant, TypeCorrect, PTL
     DEF Spec, PartialOnlyAfterStop

=============================================================================
