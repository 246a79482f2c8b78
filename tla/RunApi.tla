------------------------------- MODULE RunApi -------------------------------
(***************************************************************************)
(* The run-control endpoints of the API process (routers/simulation.py and *)
(* the DELETE endpoint of routers/simulation_results.py).                  *)
(*                                                                         *)
(* Every endpoint is an `async def' whose body never awaits, and main.py   *)
(* starts one uvicorn process: handlers never interleave with each other,  *)
(* so `api' holds the one handler in progress.  They do interleave with    *)
(* the worker between any two of their database or file operations.        *)
(***************************************************************************)
EXTENDS RunStore

VARIABLE
  api         \* the handler in progress: [pc, op, run]

apiVars == <<api>>

ApiPcs == {"idle", "put_manifest", "save", "lock", "commit", "note", "rmtree"}
ApiOps == {"none", "start", "create", "stop", "cancel", "delete"}

NoHandler == [pc |-> "idle", op |-> "none", run |-> NoRun]

ApiTypeOK ==
  /\ api \in [pc : ApiPcs, op : ApiOps, run : Runs \cup {NoRun}]
  /\ api.pc # "idle" => api.run \in Runs

ApiInit == api = NoHandler

Enter(op, r, pc) ==
  /\ api.pc = "idle"
  /\ api' = [pc |-> pc, op |-> op, run |-> r]

GoTo(from, to) ==
  /\ api.pc = from
  /\ api' = IF to = "idle" THEN NoHandler ELSE [api EXCEPT !.pc = to]

-----------------------------------------------------------------------------
(* POST /start_opencda and POST /v1/runs.  The manifest is written before  *)
(* the row is inserted.                                                    *)

\* Run ids carry a microsecond timestamp: a new request gets an unused one.
Fresh(r) == status[r] = "none" /\ manifest[r] = "absent"

\* The row check of start_opencda.
NothingPending ==
  \A s \in Runs : status[s] \notin {"queued", "running", "stopping"}

StartOpencda(r) ==
  /\ Fresh(r)
  /\ NothingPending
  /\ Enter("start", r, "put_manifest")
  /\ UNCHANGED storeVars

CreateRun(r) ==
  /\ Fresh(r)
  /\ Enter("create", r, "put_manifest")
  /\ UNCHANGED storeVars

PutQueuedManifest ==
  /\ GoTo("put_manifest", "save")
  /\ WriteManifest(api.run, "queued")
  /\ UNCHANGED <<status, created, clock, rowLock, faults>>

SaveRunRecord ==
  /\ GoTo("save", "idle")
  /\ Save(api.run)
  /\ UNCHANGED <<rowLock, manifest, faults>>

-----------------------------------------------------------------------------
(* POST /stop, POST /v1/runs/{id}/cancel.                                  *)

\* _stop_simulation: the row seen active is stopped; one already stopping
\* only has its manifest rewritten.  list_all() orders by updated_at; which
\* of several active rows comes first is left open.
StopSimulation(r) ==
  /\ Active(r)
  /\ Enter("stop", r, IF status[r] = "running" THEN "lock" ELSE "note")
  /\ UNCHANGED storeVars

\* _cancel_queued_simulation: the status is read here and acted on later.
CancelQueued(r) ==
  /\ status[r] = "queued"
  /\ Enter("cancel", r, "lock")
  /\ UNCHANGED storeVars

Target == IF api.op = "stop" THEN "stopping" ELSE "cancelled"

\* Seeded bug: the lock is taken and the state machine is not consulted.
LockUnchecked ==
  /\ GoTo("lock", "commit")
  /\ rowLock' = api.run
  /\ UNCHANGED <<status, created, clock, manifest, faults>>

\* transition(), first half: take the row lock and check the state machine.
\* A refused transition is logged and the handler carries on.
TransitionLock ==
  LET legal == CanTransition(status[api.run], Target) IN
  /\ GoTo("lock", IF legal THEN "commit" ELSE "note")
  /\ rowLock' = IF legal THEN api.run ELSE rowLock
  /\ UNCHANGED <<status, created, clock, manifest, faults>>

\* transition(), second half: write, commit, release the lock.
TransitionCommit ==
  /\ GoTo("commit", "note")
  /\ status' = [status EXCEPT ![api.run] = Target]
  /\ rowLock' = NoRun
  /\ UNCHANGED <<created, clock, manifest, faults>>

\* The reply leaves with the manifest's last write.  An OSError of that write
\* is caught and logged.
NoteManifest ==
  /\ GoTo("note", "idle")
  /\ \/ WriteManifest(api.run, Target) /\ UNCHANGED faults
     \/ Fault("io_error") /\ UNCHANGED manifest
  /\ UNCHANGED <<status, created, clock, rowLock>>

-----------------------------------------------------------------------------
(* DELETE /results/{id}: refused for a row that is queued or active, then  *)
(* the directory is removed.                                               *)

DeleteResults(r) ==
  /\ status[r] \notin {"queued", "running", "stopping"}
  /\ manifest[r] # "absent"
  /\ Enter("delete", r, "rmtree")
  /\ UNCHANGED storeVars

RemoveTree ==
  /\ GoTo("rmtree", "idle")
  /\ manifest' = [manifest EXCEPT ![api.run] = "absent"]
  /\ UNCHANGED <<status, created, clock, rowLock, faults>>

-----------------------------------------------------------------------------
\* The API process dies, or an error no handler catches ends the request;
\* either way an open transaction is rolled back.
AbortHandler ==
  /\ Fault("api_abort")
  /\ api.pc # "idle"
  /\ api' = NoHandler
  /\ rowLock' = NoRun
  /\ UNCHANGED <<status, created, clock, manifest>>

ApiNext ==
  \/ \E r \in Runs :
       \/ StartOpencda(r)
       \/ CreateRun(r)
       \/ StopSimulation(r)
       \/ CancelQueued(r)
       \/ DeleteResults(r)
  \/ PutQueuedManifest
  \/ SaveRunRecord
  \/ TransitionLock
  \/ TransitionCommit
  \/ NoteManifest
  \/ RemoveTree
  \/ AbortHandler

\* A handler that has started runs to its end.
ApiStep ==
  \/ PutQueuedManifest
  \/ SaveRunRecord
  \/ TransitionLock
  \/ TransitionCommit
  \/ NoteManifest
  \/ RemoveTree

=============================================================================
