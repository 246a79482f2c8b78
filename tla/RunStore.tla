------------------------------ MODULE RunStore ------------------------------
(***************************************************************************)
(* What the API process and the worker processes share: the rows of        *)
(* simulation_runs (repository.py) and the manifest run_status.json in     *)
(* every run's result directory (run_results.py).  The operations are      *)
(* action fragments; RunApi and RunWorker build their steps from them.     *)
(*                                                                         *)
(* A database operation that reads and writes under one row lock is one    *)
(* step, but the API's transition() is split at its lock (see RunApi),     *)
(* because SKIP LOCKED makes the lock itself visible to claim_next().      *)
(* recover_interrupted_runs() reads without a lock and is two steps.       *)
(***************************************************************************)
EXTENDS RunContracts, Naturals

CONSTANTS
  Runs,       \* run ids the bounded instance may submit
  NoRun,      \* "no run"
  Faults,     \* kinds of environment fault this instance may exhibit
  MaxFaults   \* bound on the number of faults in a behaviour

ASSUME NoRunAssumption == NoRun \notin Runs
ASSUME MaxFaultsAssumption == MaxFaults \in Nat

VARIABLES
  status,     \* [run -> status column, or "none" when there is no row]
  created,    \* [run -> created_at of the row; 0 when there is no row]
  clock,      \* the database clock that stamps created_at
  rowLock,    \* the row an API transaction holds FOR UPDATE, or NoRun
  manifest,   \* [run -> outcome in run_status.json; "absent": no directory]
  faults      \* faults so far

storeVars == <<status, created, clock, rowLock, manifest, faults>>

Outcomes == {"queued", "running", "stopping",
             "complete", "partial", "failed", "cancelled"}

\* The outcomes under which GET /results lists and serves a run.
CompletedOutcomes == {"complete", "partial", "legacy"}

StoreTypeOK ==
  /\ status \in [Runs -> RunStatus \cup {"none"}]
  /\ created \in [Runs -> Nat]
  /\ clock \in Nat
  /\ rowLock \in Runs \cup {NoRun}
  /\ manifest \in [Runs -> Outcomes \cup {"absent"}]
  /\ faults \in 0 .. MaxFaults

StoreInit ==
  /\ status = [r \in Runs |-> "none"]
  /\ created = [r \in Runs |-> 0]
  /\ clock = 0
  /\ rowLock = NoRun
  /\ manifest = [r \in Runs |-> "absent"]
  /\ faults = 0

-----------------------------------------------------------------------------
(* Bounded environment faults.                                             *)

Fault(kind) ==
  /\ kind \in Faults
  /\ faults < MaxFaults
  /\ faults' = faults + 1

-----------------------------------------------------------------------------
(* SimulationRunRepository.                                                *)

Active(r) == status[r] \in ActiveStatuses

\* save(): insert the row, stamped by the database clock.
Save(r) ==
  /\ status' = [status EXCEPT ![r] = "queued"]
  /\ clock' = clock + 1
  /\ created' = [created EXCEPT ![r] = clock + 1]

\* Seeded bug: the write is not checked against the state machine.
TransitionUnchecked(r, target) ==
  /\ rowLock # r
  /\ status' = [status EXCEPT ![r] = target]

\* transition() as one step: wait for the row lock, write a legal move and
\* leave an illegal one alone.  (The API's two-step form is in RunApi.)
Transition(r, target) ==
  /\ rowLock # r
  /\ status' = IF CanTransition(status[r], target)
                 THEN [status EXCEPT ![r] = target]
                 ELSE status

Earlier(r, s) == created[r] < created[s]

\* The rows claim_next() may see: queued and not locked (SKIP LOCKED).
Claimable == {r \in Runs : status[r] = "queued" /\ r # rowLock}

\* Seeded bug: no ORDER BY.
ClaimAny(r) ==
  /\ r \in Claimable
  /\ status' = [status EXCEPT ![r] = "running"]

\* claim_next(): reserve the oldest of them.
ClaimNext(r) ==
  /\ r \in Claimable
  /\ \A s \in Claimable \ {r} : Earlier(r, s)
  /\ status' = [status EXCEPT ![r] = "running"]

\* Seeded bug: rows caught while stopping are overlooked.
RunningRows == {r \in Runs : status[r] = "running"}

\* recover_interrupted_runs(), first half: a plain SELECT, no row is locked.
InterruptedRows == {r \in Runs : Active(r)}

\* Seeded bug: an interrupted run is put back in the queue.
RequeueRows(rows) ==
  /\ rowLock \notin rows
  /\ status' = [r \in Runs |-> IF r \in rows THEN "queued" ELSE status[r]]

\* Second half: an UPDATE by primary key of the rows read.  It waits for a row
\* that an API transaction holds and does not look at the status again.
FailRows(rows) ==
  /\ rowLock \notin rows
  /\ status' = [r \in Runs |-> IF r \in rows THEN "failed" ELSE status[r]]

-----------------------------------------------------------------------------
(* write_run_metadata(): create the directory if needed, replace the file. *)

WriteManifest(r, outcome) ==
  manifest' = [manifest EXCEPT ![r] = outcome]

=============================================================================
