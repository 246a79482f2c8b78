-------------------------- MODULE SimulationQueue --------------------------
(***************************************************************************)
(* The durable run queue: the API process and the worker processes over    *)
(* the shared store, each interleaving with the others between any two of  *)
(* its database and file operations.                                       *)
(***************************************************************************)
EXTENDS RunApi, RunWorker

vars == <<storeVars, apiVars, workerVars>>

TypeOK == StoreTypeOK /\ ApiTypeOK /\ WorkerTypeOK

Init == StoreInit /\ ApiInit /\ WorkerInit

\* One step of worker w's own program.
WorkerStep(w) ==
  \/ AcquireLease(w)
  \/ ReadInterrupted(w)
  \/ FailInterrupted(w)
  \/ GracefulExit(w)
  \/ \E r \in Runs : Claim(w, r)
  \/ WriteRunning(w)
  \/ Launch(w)
  \/ OnStarted(w)
  \/ StopExpired(w)
  \/ StopOnRequest(w)
  \/ KeepPolling(w)
  \/ ReportProgress(w)
  \/ StopReturns(w)
  \/ GraceExpires(w)
  \/ SendKill(w)
  \/ ChildExited(w)
  \/ Collect(w)
  \/ WriteOutcome(w)
  \/ MarkOutcome(w)
  \/ MarkFailed(w)
  \/ WriteFailed(w)

\* What happens to worker w from outside its program.
WorkerEnvironment(w) ==
  \/ LeaseHeld(w)
  \/ OperatorStart(w)
  \/ ShutdownSignal(w)
  \/ Crash(w)
  \/ UncaughtError(w)
  \/ ExecuteRaises(w)
  \/ ReapSession(w)
  \/ DropLease(w)
  \/ RuntimeExpires(w)

ChildNext(r) == ChildCompletes(r) \/ ChildErrors(r) \/ ChildDies(r)

WorkerNext ==
  \/ \E w \in Workers : WorkerStep(w) \/ WorkerEnvironment(w)
  \/ \E r \in Runs : ChildNext(r)

Next ==
  \/ ApiNext /\ UNCHANGED workerVars
  \/ WorkerNext /\ UNCHANGED apiVars

Spec == Init /\ [][Next]_vars

\* Fairness the scheduling justifies: a handler on the event loop finishes; a
\* worker container that is not held back by another's lease is restarted and
\* its program goes on; time passes; a process sent SIGKILL ends.  A child is
\* not assumed to end by itself.
Fairness ==
  /\ WF_vars(ApiStep /\ UNCHANGED workerVars)
  /\ \A w \in Workers :
       /\ WF_vars(WorkerStep(w) /\ UNCHANGED apiVars)
       /\ WF_vars(RuntimeExpires(w) /\ UNCHANGED apiVars)
       /\ WF_vars(ReapSession(w) /\ UNCHANGED apiVars)
  /\ \A r \in Runs :
       WF_vars(signal[r] = "KILL" /\ ChildDies(r) /\ UNCHANGED apiVars)

FairSpec == Spec /\ Fairness

-----------------------------------------------------------------------------
(* Safety.                                                                 *)

\* Runs whose child process is still driving CARLA.
LiveRuns == {r \in Runs : Live(r)}

\* At no time do two children drive the one CARLA endpoint: "execute one CARLA
\* run at a time" (run_worker.py), whatever number of workers is started.
OneRunOnCarla == \A r, s \in LiveRuns : r = s

\* A child that drives CARLA belongs to a run the database reports as active
\* and to a worker that is supervising it: no crash, restart or error path
\* leaves a child running behind a finished record.
LiveRunIsSupervised ==
  \A r \in LiveRuns :
    Active(r) /\ \E w \in Workers : job[w] = r /\ Supervising(w)

\* A worker that holds the lease and has nothing to do leaves no record
\* active: such a record would block /start_opencda for ever.
IdleMeansNoActiveRecord ==
  \A w \in Workers : pc[w] = "idle" /\ lease = w => \A r \in Runs : ~Active(r)

\* A cancelled run never reached CARLA, in whatever order the cancellation
\* and the claim fell.
CancelledNeverLaunched ==
  \A r \in Runs : status[r] = "cancelled" => child[r] = "none"

\* Runs leave the queue in submission order: none that was claimed overtook an
\* earlier one that still waits, except one whose cancellation holds its row
\* (claim_next: "oldest queued run", SKIP LOCKED).
NoOvertaking ==
  \A r, s \in Runs :
    /\ status[r] = "queued" /\ r # rowLock
    /\ status[s] \notin {"none", "queued", "cancelled"}
    => ~Earlier(r, s)

\* The recorded outcome is the child's: "complete" only with its result,
\* "partial" only with its error.
OutcomeIsTheChilds ==
  \A r \in Runs :
    /\ status[r] = "complete" => child[r] = "completed"
    /\ status[r] = "partial" => child[r] = "errored"

\* Between requests, a completed or partial run can be listed and its results
\* served, unless they were deleted (README: "List completed, partial and
\* archived runs").
FinishedRunIsListed ==
  \A r \in Runs :
    /\ status[r] \in {"complete", "partial"}
    /\ api.run # r
    => manifest[r] \in CompletedOutcomes \cup {"absent"}

-----------------------------------------------------------------------------
(* Action properties.                                                      *)

\* Every write to a row obeys the state machine, also those of claim_next()
\* and recover_interrupted_runs(), which do not go through transition().
StatusFollowsContract ==
  [][\A r \in Runs : status[r] # "none" => CanTransition(status[r], status'[r])]_vars

\* /start_opencda never enqueues behind pending work, although its row is
\* inserted two operations after the check.
ExclusiveStart ==
  [][SaveRunRecord /\ api.op = "start" => NothingPending]_vars

\* A run ends partial only if a stop was requested for it.
PartialOnlyAfterStop ==
  [][\A r \in Runs :
       status[r] # "partial" /\ status'[r] = "partial"
         => status[r] = "stopping"]_vars

\* The reply "cancelled" is true when it is sent: "Remove a waiting run without
\* affecting the CARLA process in progress" (_cancel_queued_simulation).
CancelledReplyHolds ==
  [][NoteManifest /\ api.op = "cancel" => status[api.run] = "cancelled"]_vars

-----------------------------------------------------------------------------
(* Liveness.                                                               *)

\* An active run ends, whatever its child does: by its result, the stop
\* request, the runtime limit, or the next worker's recovery.
ActiveRunEnds ==
  \A r \in Runs : Active(r) ~> status[r] \in TerminalStatuses

\* A queued run is claimed or cancelled.
QueuedRunIsServed ==
  \A r \in Runs : status[r] = "queued" ~> status[r] # "queued"

-----------------------------------------------------------------------------
(* The queue implements the slot: RunSlot is what its records promise.      *)

phaseBar ==
  [r \in Runs |->
     CASE status[r] = "none" -> "absent"
       [] status[r] = "queued" -> "waiting"
       [] status[r] \in ActiveStatuses -> "holding"
       [] OTHER -> "over"]

Slot == INSTANCE RunSlot WITH phase <- phaseBar

\* The run records behave like the slot: one holder at a time, no run admitted
\* twice, none admitted after it was withdrawn.
ImplementsSlot == Slot!Spec

-----------------------------------------------------------------------------
(* The inductive invariants behind the theorems of SimulationQueueProofs.   *)

\* As long as no lease is lost under a live worker, a running worker holds it.
LeaseHeldByRunning == \A w \in Workers : Running(w) => lease = w

\* A handler about to insert a row has no row yet; one about to commit a
\* transition holds the row and the transition is still legal.
HandlerInv ==
  /\ api.pc \in {"put_manifest", "save"} => status[api.run] = "none"
  /\ api.pc \in {"lock", "commit", "note"} => api.op \in {"stop", "cancel"}
  /\ IF api.pc = "commit"
       THEN rowLock = api.run /\ CanTransition(status[api.run], Target)
       ELSE rowLock = NoRun

\* Nothing gets into the queue between start_opencda's check and its insert:
\* only the API inserts rows, one handler at a time.
StartInv ==
  api.op = "start" => api.pc \in {"put_manifest", "save"} /\ NothingPending

\* The order of claims, and the clock that a new row comes after every other.
OrderInv == NoOvertaking /\ \A r \in Runs : created[r] <= clock

\* At most one row is active: the job of the worker that is busy with it, from
\* the claim until the row is marked, or one that awaits recovery.
ActiveRowInv ==
  /\ \A r, s \in Runs : Active(r) /\ Active(s) => r = s
  /\ \A w \in Workers :
       /\ pc[w] \in {"idle", "failnote"} => \A r \in Runs : ~Active(r)
       /\ pc[w] = "fail_rows" => interrupted[w] = InterruptedRows
       /\ Busy(w) /\ pc[w] # "failnote" => Active(job[w])

SlotInv == LeaseHeldByRunning /\ HandlerInv /\ ActiveRowInv

\* A child on CARLA is in the container of the worker that supervises it.
ChildInv ==
  \A r \in LiveRuns :
    /\ owner[r] \in Workers
    /\ job[owner[r]] = r
    /\ Supervising(owner[r])

Claimed(r) == status[r] \notin {"none", "queued", "cancelled"}

\* Only a row that was claimed is a job or is failed by recovery, and only a
\* job gets a child.
ClaimedOnly ==
  /\ \A w \in Workers :
       /\ Busy(w) => Claimed(job[w])
       /\ \A r \in interrupted[w] : Claimed(r)
  /\ \A r \in Runs :
       /\ ~Claimed(r) => child[r] = "none"
       /\ child[r] # "alive" => owner[r] = NoWorker

\* What a worker is about to record is what its child left, and stays so: no
\* two workers have the same job, and a recorded outcome ends the job.
OutcomeInv ==
  /\ \A w, v \in Workers : Busy(w) /\ Busy(v) /\ job[w] = job[v] => w = v
  /\ \A w \in Workers :
       /\ Busy(w) => status[job[w]] \notin {"complete", "partial"}
       /\ pc[w] \in {"finish", "mark"} /\ outcome[w] = "complete"
            => child[job[w]] = "completed"
       /\ pc[w] \in {"finish", "mark"} /\ outcome[w] = "partial"
            => /\ child[job[w]] = "errored"
               /\ status[job[w]] \in {"stopping", "failed"}
  /\ OutcomeIsTheChilds

=============================================================================
