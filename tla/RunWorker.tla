------------------------------ MODULE RunWorker ------------------------------
(***************************************************************************)
(* The worker processes (run_worker.py), the lease that keeps a second one *)
(* out (worker_lease.py), the executor that launches, polls and stops one  *)
(* child process per run (execution.py, worker.py) and the child itself    *)
(* (simulation_worker.py around runner.run_scenario).                      *)
(*                                                                         *)
(* A worker is PID 1 of its container (entrypoint.sh ends in exec): when   *)
(* it ends, for whatever reason, the children it launched end with it.     *)
(***************************************************************************)
EXTENDS RunStore

CONSTANTS
  Workers,    \* worker containers
  NoWorker    \* "no worker"

ASSUME NoWorkerAssumption == NoWorker \notin Workers

VARIABLES
  pc,             \* [worker -> where run_forever / run_once / execute stands]
  job,            \* [worker -> the claimed run]
  outcome,        \* [worker -> terminal status the worker is about to record]
  stopRequested,  \* [worker -> execute() has already stopped its child]
  expired,        \* [worker -> the child exceeded the maximum runtime]
  interrupted,    \* [worker -> the rows recovery has read and will fail]
  shutdown,       \* [worker -> SIGTERM or SIGINT was received]
  lease,          \* holder of the PostgreSQL advisory lock, or NoWorker
  child,          \* [run -> the child process and, once ended, what it left]
  signal,         \* [run -> the strongest signal the child was sent]
  owner           \* [run -> worker whose container holds the live child]

workerVars ==
  <<pc, job, outcome, stopRequested, expired, interrupted, shutdown, lease,
    child, signal, owner>>

\* The locals of one worker's run_once() and recovery, and the child's fields.
jobVars == <<job, outcome, stopRequested, expired, interrupted>>
childVars == <<child, signal, owner>>

WorkerPcs ==
  {"down", "exited", "recover", "fail_rows", "idle", "claimed", "launch", "started",
   "poll", "report", "sigint", "sigterm", "collect", "finish", "mark",
   "failing", "failnote"}

\* Where the process runs and has got past acquire().
Running(w) == pc[w] \notin {"down", "exited"}

\* Inside run_once(), from the claim on.
Busy(w) == pc[w] \notin {"down", "exited", "recover", "fail_rows", "idle"}

\* Where execute() supervises a child it has launched.
Supervising(w) == pc[w] \in {"started", "poll", "report", "sigint", "sigterm"}

\* What a child that has ended left in worker_result.json: a result, an error
\* or nothing.
ChildStates == {"none", "alive", "completed", "errored", "died"}

\* A child that still executes its program.  SIGKILL leaves it no instruction.
Live(r) == child[r] = "alive" /\ signal[r] # "KILL"

WorkerTypeOK ==
  /\ pc \in [Workers -> WorkerPcs]
  /\ job \in [Workers -> Runs \cup {NoRun}]
  /\ outcome \in [Workers -> {"none", "complete", "partial", "failed"}]
  /\ stopRequested \in [Workers -> BOOLEAN]
  /\ expired \in [Workers -> BOOLEAN]
  /\ interrupted \in [Workers -> SUBSET Runs]
  /\ shutdown \in [Workers -> BOOLEAN]
  /\ lease \in Workers \cup {NoWorker}
  /\ child \in [Runs -> ChildStates]
  /\ signal \in [Runs -> {"none", "INT", "TERM", "KILL"}]
  /\ owner \in [Runs -> Workers \cup {NoWorker}]
  /\ \A w \in Workers :
       /\ Busy(w) => job[w] \in Runs
       /\ pc[w] \in {"finish", "mark"} => outcome[w] \in {"complete", "partial"}

WorkerInit ==
  /\ pc = [w \in Workers |-> "down"]
  /\ job = [w \in Workers |-> NoRun]
  /\ outcome = [w \in Workers |-> "none"]
  /\ stopRequested = [w \in Workers |-> FALSE]
  /\ expired = [w \in Workers |-> FALSE]
  /\ interrupted = [w \in Workers |-> {}]
  /\ shutdown = [w \in Workers |-> FALSE]
  /\ lease = NoWorker
  /\ child = [r \in Runs |-> "none"]
  /\ signal = [r \in Runs |-> "none"]
  /\ owner = [r \in Runs |-> NoWorker]

Jump(w, from, to) ==
  /\ pc[w] = from
  /\ pc' = [pc EXCEPT ![w] = to]

\* No local state is left once run_once() is over or the process has ended.
ClearJob(w) ==
  /\ job' = [job EXCEPT ![w] = NoRun]
  /\ outcome' = [outcome EXCEPT ![w] = "none"]
  /\ stopRequested' = [stopRequested EXCEPT ![w] = FALSE]
  /\ expired' = [expired EXCEPT ![w] = FALSE]
  /\ interrupted' = [interrupted EXCEPT ![w] = {}]

-----------------------------------------------------------------------------
(* main(): the lease, recovery, and the ways a worker process ends.        *)

\* Seeded bug: the result of pg_try_advisory_lock is ignored.
AcquireAlways(w) ==
  /\ Jump(w, "down", "recover")
  /\ lease' = w
  /\ UNCHANGED <<storeVars, jobVars, shutdown, childVars>>

AcquireLease(w) ==
  /\ lease = NoWorker
  /\ Jump(w, "down", "recover")
  /\ lease' = w
  /\ UNCHANGED <<storeVars, jobVars, shutdown, childVars>>

\* acquire() does not wait: a worker that finds the lease held returns from
\* main(), exit status 0, which `restart: on-failure' does not restart.
LeaseHeld(w) ==
  /\ lease # NoWorker
  /\ Jump(w, "down", "exited")
  /\ UNCHANGED <<storeVars, jobVars, shutdown, lease, childVars>>

\* docker compose up, or scaling the service: outside the program's control.
OperatorStart(w) ==
  /\ Jump(w, "exited", "down")
  /\ UNCHANGED <<storeVars, jobVars, shutdown, lease, childVars>>

ReadInterrupted(w) ==
  /\ Jump(w, "recover", "fail_rows")
  /\ interrupted' = [interrupted EXCEPT ![w] = InterruptedRows]
  /\ UNCHANGED <<storeVars, job, outcome, stopRequested, expired, shutdown>>
  /\ UNCHANGED <<lease, childVars>>

FailInterrupted(w) ==
  /\ Jump(w, "fail_rows", "idle")
  /\ FailRows(interrupted[w])
  /\ interrupted' = [interrupted EXCEPT ![w] = {}]
  /\ UNCHANGED <<created, clock, rowLock, manifest, faults>>
  /\ UNCHANGED <<job, outcome, stopRequested, expired, shutdown, lease>>
  /\ UNCHANGED childVars

ShutdownSignal(w) ==
  /\ "shutdown" \in Faults
  /\ Running(w) /\ ~shutdown[w]
  /\ shutdown' = [shutdown EXCEPT ![w] = TRUE]
  /\ UNCHANGED <<storeVars, pc, jobVars, lease, childVars>>

ReleasedBy(w) == IF lease = w THEN NoWorker ELSE lease

\* The shutdown flag is read between runs only; release() gives the lease back.
GracefulExit(w) ==
  /\ shutdown[w]
  /\ Jump(w, "idle", "exited")
  /\ lease' = ReleasedBy(w)
  /\ shutdown' = [shutdown EXCEPT ![w] = FALSE]
  /\ UNCHANGED <<storeVars, jobVars, childVars>>

\* The process ends with a failure status and Compose restarts its container.
\* PostgreSQL frees the lock when it notices the connection is gone: at once,
\* or ("session_linger") only later.
Die(w) ==
  /\ pc' = [pc EXCEPT ![w] = "down"]
  /\ ClearJob(w)
  /\ shutdown' = [shutdown EXCEPT ![w] = FALSE]
  /\ lease' \in {ReleasedBy(w)} \cup
                (IF "session_linger" \in Faults THEN {lease} ELSE {})
  /\ child' = [r \in Runs |->
                 IF owner[r] = w THEN "died" ELSE child[r]]
  /\ signal' = [r \in Runs |-> IF owner[r] = w THEN "none" ELSE signal[r]]
  /\ owner' = [r \in Runs |-> IF owner[r] = w THEN NoWorker ELSE owner[r]]

Crash(w) ==
  /\ Fault("worker_crash")
  /\ Running(w)
  /\ Die(w)
  /\ UNCHANGED <<status, created, clock, rowLock, manifest>>

ReapSession(w) ==
  /\ lease = w /\ ~Running(w)
  /\ lease' = NoWorker
  /\ UNCHANGED <<storeVars, pc, jobVars, shutdown, childVars>>

\* The lease connection breaks under a worker that lives on; nothing uses
\* that connection again before release().
DropLease(w) ==
  /\ Fault("lease_drop")
  /\ lease = w /\ Running(w)
  /\ lease' = NoWorker
  /\ UNCHANGED <<status, created, clock, rowLock, manifest>>
  /\ UNCHANGED <<pc, jobVars, shutdown, childVars>>

-----------------------------------------------------------------------------
(* run_once() up to execute().                                             *)

Claim(w, r) ==
  /\ ~shutdown[w]
  /\ Jump(w, "idle", "claimed")
  /\ ClaimNext(r)
  /\ job' = [job EXCEPT ![w] = r]
  /\ UNCHANGED <<created, clock, rowLock, manifest, faults>>
  /\ UNCHANGED <<outcome, stopRequested, expired, interrupted, shutdown>>
  /\ UNCHANGED <<lease, childVars>>

WriteRunning(w) ==
  /\ Jump(w, "claimed", "launch")
  /\ WriteManifest(job[w], "running")
  /\ UNCHANGED <<status, created, clock, rowLock, faults>>
  /\ UNCHANGED <<jobVars, shutdown, lease, childVars>>

\* This write and the claim stand before run_once()'s try: an error ends the
\* process.  So does one raised by its except clause.
UncaughtError(w) ==
  /\ \/ pc[w] = "claimed" /\ Fault("io_error")
     \/ pc[w] = "failnote" /\ Fault("io_error")
     \/ pc[w] \in {"recover", "fail_rows", "idle", "failing"} /\ Fault("db_error")
  /\ Die(w)
  /\ UNCHANGED <<status, created, clock, rowLock, manifest>>

-----------------------------------------------------------------------------
(* SimulationWorkerExecutor.execute().                                     *)

Launch(w) ==
  /\ Jump(w, "launch", "started")
  /\ child' = [child EXCEPT ![job[w]] = "alive"]
  /\ owner' = [owner EXCEPT ![job[w]] = w]
  /\ UNCHANGED <<storeVars, jobVars, shutdown, lease, signal>>

OnStarted(w) ==
  /\ Jump(w, "started", "poll")
  /\ WriteManifest(job[w], "running")
  /\ UNCHANGED <<status, created, clock, rowLock, faults>>
  /\ UNCHANGED <<jobVars, shutdown, lease, childVars>>

\* A pending SIGKILL is final, whatever is sent after it.
SendSignal(r, s) ==
  signal' = IF signal[r] = "KILL" THEN signal ELSE [signal EXCEPT ![r] = s]

\* One round of the loop while the child lives: the runtime limit first, then
\* the stop request, then the progress report.
StopExpired(w) ==
  /\ Jump(w, "poll", "sigint")
  /\ expired[w]
  /\ child[job[w]] = "alive"
  /\ SendSignal(job[w], "INT")
  /\ outcome' = [outcome EXCEPT ![w] = "failed"]
  /\ UNCHANGED <<storeVars, job, stopRequested, expired, interrupted>>
  /\ UNCHANGED <<shutdown, lease, child, owner>>

StopSeen(w) == status[job[w]] = "stopping"

StopOnRequest(w) ==
  /\ Jump(w, "poll", "sigint")
  /\ ~expired[w]
  /\ child[job[w]] = "alive"
  /\ StopSeen(w) /\ ~stopRequested[w]
  /\ SendSignal(job[w], "INT")
  /\ stopRequested' = [stopRequested EXCEPT ![w] = TRUE]
  /\ UNCHANGED <<storeVars, job, outcome, expired, interrupted>>
  /\ UNCHANGED <<shutdown, lease, child, owner>>

KeepPolling(w) ==
  /\ Jump(w, "poll", "report")
  /\ ~expired[w]
  /\ child[job[w]] = "alive"
  /\ ~StopSeen(w) \/ stopRequested[w]
  /\ UNCHANGED <<storeVars, jobVars, shutdown, lease, childVars>>

\* _report_progress: writes "running" whenever there is a progress file, also
\* after a stop request; its errors are swallowed.
ReportProgress(w) ==
  /\ Jump(w, "report", "poll")
  /\ WriteManifest(job[w], "running") \/ UNCHANGED manifest
  /\ UNCHANGED <<status, created, clock, rowLock, faults>>
  /\ UNCHANGED <<jobVars, shutdown, lease, childVars>>

\* stop_worker() returns into the loop or, for the runtime limit, into the
\* exception that follows it.
AfterStop(w) == IF outcome[w] = "failed" THEN "failing" ELSE "report"

StopReturns(w) ==
  /\ pc[w] \in {"sigint", "sigterm"}
  /\ child[job[w]] # "alive"
  /\ pc' = [pc EXCEPT ![w] = AfterStop(w)]
  /\ UNCHANGED <<storeVars, jobVars, shutdown, lease, childVars>>

GraceExpires(w) ==
  /\ Jump(w, "sigint", "sigterm")
  /\ child[job[w]] = "alive"
  /\ SendSignal(job[w], "TERM")
  /\ UNCHANGED <<storeVars, jobVars, shutdown, lease, child, owner>>

\* Seeded bug: stop_worker() gives up after SIGTERM.
GiveUpAfterTerm(w) ==
  /\ pc[w] = "sigterm"
  /\ child[job[w]] = "alive"
  /\ pc' = [pc EXCEPT ![w] = AfterStop(w)]
  /\ UNCHANGED <<storeVars, jobVars, shutdown, lease, childVars>>

\* SIGKILL is sent and not waited for.
SendKill(w) ==
  /\ pc[w] = "sigterm"
  /\ child[job[w]] = "alive"
  /\ pc' = [pc EXCEPT ![w] = AfterStop(w)]
  /\ SendSignal(job[w], "KILL")
  /\ UNCHANGED <<storeVars, jobVars, shutdown, lease, child, owner>>

ChildExited(w) ==
  /\ Jump(w, "poll", "collect")
  /\ child[job[w]] # "alive"
  /\ UNCHANGED <<storeVars, jobVars, shutdown, lease, childVars>>

\* The outcome: no result file fails the run; an error counts as a partial
\* run when a stop was requested by now; a result stands as it is (the
\* runner's "partial" needs request_stop(), which nothing calls).
\* Seeded bugs: any result file counts as completion; an error counts as a
\* partial run whether or not a stop was requested.
VerdictIgnoresError(w) ==
  IF child[job[w]] \in {"completed", "errored"} THEN "complete" ELSE "failed"

Verdict(w) ==
  CASE child[job[w]] = "completed" -> "complete"
    [] child[job[w]] = "errored" /\ StopSeen(w) -> "partial"
    [] OTHER -> "failed"

\* Seeded bug: the verdict is computed and dropped.
CollectDropsVerdict(w) ==
  /\ Jump(w, "collect", IF Verdict(w) = "failed" THEN "failing" ELSE "finish")
  /\ UNCHANGED <<storeVars, jobVars, shutdown, lease, childVars>>

Collect(w) ==
  /\ Jump(w, "collect", IF Verdict(w) = "failed" THEN "failing" ELSE "finish")
  /\ outcome' = [outcome EXCEPT ![w] = Verdict(w)]
  /\ UNCHANGED <<storeVars, job, stopRequested, expired, interrupted>>
  /\ UNCHANGED <<shutdown, lease, childVars>>

\* An exception out of execute(), or of the recording after it, is caught by
\* run_once().  Nothing on that path stops a child that is still alive.
ExecuteRaises(w) ==
  /\ \/ pc[w] \in {"launch", "started", "finish"} /\ Fault("io_error")
     \/ /\ pc[w] = "poll" /\ ~expired[w] /\ child[job[w]] = "alive"
        /\ Fault("db_error")
     \/ pc[w] = "collect" /\ child[job[w]] # "died" /\ Fault("db_error")
     \/ pc[w] = "mark" /\ Fault("db_error")
  /\ pc' = [pc EXCEPT ![w] = "failing"]
  /\ UNCHANGED <<status, created, clock, rowLock, manifest>>
  /\ UNCHANGED <<jobVars, shutdown, lease, childVars>>

-----------------------------------------------------------------------------
(* run_once() after execute(): a result is written to the manifest first,  *)
(* a failure to the row first.                                             *)

WriteOutcome(w) ==
  /\ Jump(w, "finish", "mark")
  /\ WriteManifest(job[w], outcome[w])
  /\ UNCHANGED <<status, created, clock, rowLock, faults>>
  /\ UNCHANGED <<jobVars, shutdown, lease, childVars>>

MarkOutcome(w) ==
  /\ Jump(w, "mark", "idle")
  /\ Transition(job[w], outcome[w])
  /\ ClearJob(w)
  /\ UNCHANGED <<created, clock, rowLock, manifest, faults>>
  /\ UNCHANGED <<shutdown, lease, childVars>>

MarkFailed(w) ==
  /\ Jump(w, "failing", "failnote")
  /\ Transition(job[w], "failed")
  /\ UNCHANGED <<created, clock, rowLock, manifest, faults>>
  /\ UNCHANGED <<jobVars, shutdown, lease, childVars>>

WriteFailed(w) ==
  /\ Jump(w, "failnote", "idle")
  /\ WriteManifest(job[w], "failed")
  /\ ClearJob(w)
  /\ UNCHANGED <<status, created, clock, rowLock, faults>>
  /\ UNCHANGED <<shutdown, lease, childVars>>

-----------------------------------------------------------------------------
(* The child, and the clock of the runtime limit.                          *)

ChildEnds(r, how) ==
  /\ child[r] = "alive"
  /\ child' = [child EXCEPT ![r] = how]
  /\ signal' = [signal EXCEPT ![r] = "none"]
  /\ owner' = [owner EXCEPT ![r] = NoWorker]
  /\ UNCHANGED <<storeVars, pc, jobVars, shutdown, lease>>

\* The scenario ended (before SIGINT took effect, if one was sent).
ChildCompletes(r) == signal[r] \in {"none", "INT"} /\ ChildEnds(r, "completed")

\* run_scenario raised: an error of its own, or SIGINT's KeyboardInterrupt.
ChildErrors(r) == signal[r] \in {"none", "INT"} /\ ChildEnds(r, "errored")

\* Killed by SIGTERM, SIGKILL or a native crash: no result file.
ChildDies(r) == ChildEnds(r, "died")

\* Seeded bug: the runtime limit never trips.
NeverExpires(w) == FALSE

RuntimeExpires(w) ==
  /\ pc[w] \in {"poll", "report", "sigint", "sigterm"}
  /\ ~expired[w]
  /\ expired' = [expired EXCEPT ![w] = TRUE]
  /\ UNCHANGED <<storeVars, pc, job, outcome, stopRequested, interrupted>>
  /\ UNCHANGED <<shutdown, lease, childVars>>

=============================================================================
