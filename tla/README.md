# Verification of the scenario manager

TLA+ models of the scenario manager: its run queue, its scenario store, and the
browser that edits scenarios and follows runs; the TLC configurations that check
them and TLAPS proofs of their main properties. Paths such as `app/run_worker.py`
are relative to `src/`, and `useOdrLoader.ts` and its like are under
`src/frontend/src`.

## 1. The system

The scenario manager lets users build traffic scenarios in a browser, queues
them as simulation runs, and executes the runs one after the other against a
single CARLA server.

    browser ── REST / WebSocket ──► API process (FastAPI, one uvicorn process)
                                      │  rows              │  run_status.json
                                      ▼                    ▼
                                 PostgreSQL          evaluation_outputs/<run>
                                      ▲                    ▲
                                      │ claim, mark        │ outcome, progress
                                 worker process(es) ───────┘
                                      │ launch, SIGINT / SIGTERM / SIGKILL
                                      ▼
                                 child process (run_scenario) ──► CARLA

API and worker never talk to each other. They share the table
`simulation_runs` and, per run, one manifest file. The child is told about a
stop by a signal and reports by a progress and a result file.

### Inventory

| Component | State it keeps | Operations | Interacts by | What is hard, and what makes it correct |
| --- | --- | --- | --- | --- |
| Run contract (`services/simulation/contracts.py`) | – | `can_transition_run_status` | used by the repository | every write to a row must obey it, also those that do not call it |
| Run repository, lifecycle service (`repository.py`, `lifecycle.py`, `models.py`) | rows: status, created_at | `save`, `transition`, `claim_next`, `recover_interrupted_runs` | row locks, `SKIP LOCKED` | claims in order, each row once; recovery fails only abandoned rows |
| Run-control API (`routers/simulation.py`) | – (reads rows) | start, create, stop, cancel | rows, manifests | checks made before a lock is taken; replies that must be true |
| Results API (`routers/simulation_results.py`, `results.py`, `run_results.py`) | manifests, artifacts | list, read, delete, retention | files | a manifest and its row must agree in the end |
| Worker process (`run_worker.py`) | current run | recovery, claim, record outcome, shutdown | rows, manifests, lease | crashes and restarts at any step; errors that leave a step half done |
| Worker lease (`worker_lease.py`) | advisory lock | acquire, release | PostgreSQL session | a session outlives its process or dies before it |
| Child supervision (`execution.py`, `worker.py`) | child handle, stop flag | launch, poll, stop, collect | signals, files, rows | stop, timeout and end of the child race; no child may be left alive |
| Child (`simulation_worker.py`) | – | run the scenario, write the result | signals, files | how it ends decides the outcome |
| Scenario runner (`runner.py`) | actors in CARLA | setup, tick loop, teardown | CARLA, OpenCDA | teardown on every exit path |
| Legacy executor (`legacy_execution.py`) | in-process state | `execute` | thread, lock | kept for rolling deployments, started by no production code |
| WebSocket notifier (`notifications.py`) | subscriber lists | subscribe, broadcast, serve | event loop, threads | no subscriber is lost or kept after it left |
| Scenario store (`routers/scenarios.py`) | scenarios, revision | create, update, delete | rows | optimistic revision and empty-scene guard under concurrent saves |
| Accounts (`auth.py`, `routers/auth.py`) | users, tokens | login, create user, bootstrap | rows, cookies | unique users, expiry |
| OpenCDA configuration (`opencda_config.py`, validation) | – | build and validate a configuration | – | pure conversion |
| OpenCDA integration (`integrations/opencda`) | actors, telemetry | preflight, environment, pedestrians | CARLA | time limits, cleanup |
| Editor history (`createHistorySlice.ts`, `createHistoryTracker.ts`, `deleteSceneObject.ts`) | bounded stack with a cursor, snapshots of deletions, edits not yet recorded | push, undo, redo, delete, drag, restore from a toast | subscription to the store, timers | entries about objects deleted since; edits recorded half a second late |
| Scenario on display (`scenarioLoadHandler.ts`, `useMapSelection.ts`, `useOdrLoader.ts`, `useOdrMapManager.ts`, `scenarioCrudHandlers.ts`) | open scenario, its objects, map on display, caches of map texts and names, flags | load, choose a map, save, delete, describe, leave, reload | REST, web worker, `localStorage` | a load takes three answers, each may be overtaken; every failure must take the flags down |
| Mesh syncs (`use*MeshSync`), gizmo and drag | meshes, models, last synced objects | render, sync, load a model, attach | React effects, promises, timers | five hooks of different make follow one store |
| Settings dialog, properties panels, attack editor (`simulation-config`, `*Properties.tsx`, `attack-config`) | settings, optional fields of objects, switches of panels | type, switch, preset | store | some 300 inputs; what they let through must be accepted by the service |
| Exporters (`scenario-export`) | - | build the files of five simulators | downloads, start request | a setting must reach a file, a field must be written and read back |
| Browser's picture of the runs (`useSimulationSocket.ts`, `simulationHandlers.ts`, `useResultsRuns.ts`, `useSimulationRuns.ts`, `RunsPage.tsx`) | socket, reconnection delay, session, lists | connect, start, stop, list, cancel | WebSocket, REST | messages, replies and lists arrive in any order and may fail |
| Pages outside the editor | - | show and link | REST | - |
| OpenCDA core (`opencda/`) | vehicles, platoons, RSU trust | planning, V2X, trust | CARLA | numerical code |

The queue (the first eight rows) is the program's core: it is where processes
race, crash and leave steps half done. The scenario store is the second place
where concurrent users meet. Most of the code is the editor, where one user
meets many asynchronous answers.

## 2. Modules

| Module | Models | Built from |
| --- | --- | --- |
| `RunContracts` | statuses and allowed transitions | – |
| `RunStore` | rows, row lock, manifests, database operations | `RunContracts` |
| `RunApi` | the endpoints start, create, stop, cancel, delete | `RunStore` |
| `RunWorker` | lease, worker processes, supervision, children | `RunStore` |
| `SimulationQueue` | API and workers together; all properties | `RunApi`, `RunWorker` |
| `RunSlot` | what the queue promises: one slot, granted once per run | – |
| `MCSimulationQueue` | symmetry sets for TLC | `SimulationQueue` |
| `SimulationQueueProofs` | theorems and proofs | `SimulationQueue`, `TLAPS` |
| `ScenarioStore` | the scenario endpoints, their table and their clients | – |
| `MCScenarioStore` | request bodies and symmetry for TLC | `ScenarioStore` |
| `ScenarioStoreProofs` | theorems and proofs | `ScenarioStore`, `TLAPS` |
| `EditorHistory` | editing, undo and redo, deletions, drags, toasts | – |
| `EditorSession` | which scenario, map and row the editor holds | – |
| `MeshSync` | how the 3D scene follows the store | – |
| `ConfigForm` | every input of the settings dialog and the lists | – |
| `ObjectPanels` | every input of the properties panels, their switches | `ConfigForm` |
| `ScenarioArtifacts` | exported files, saved and reopened scenarios, the service's bounds | `ObjectPanels` |
| `ScenarioForms` | dialog, panels, saving and opening together; properties | `ScenarioArtifacts` |
| `RunMonitor` | socket, session, start, stop and lists of runs in the browser | `RunContracts` |
| `EditorSessionProofs`, `MeshSyncProofs`, `RunMonitorProofs`, `ScenarioFormsProofs` | theorems and proofs | the module they are named after, `TLAPS` |
| `EditorHistoryLemmas` | what the operations on collections, entries and logs of ids do | `EditorHistory`, `TLAPS` |
| `EditorHistoryProofs` | theorems and proofs | `EditorHistoryLemmas` |
| `MCEditorHistory`, `MCEditorSession`, `MCMeshSync`, `MCScenarioForms`, `MCRunMonitor` | symmetry and values for TLC | the module they are named after |

The modules of the browser are not composed with those of the server: each
contains what its component can see of the others. `RunMonitor`'s service is
rows that change as `RunContracts` allows, one active at a time, which is what
`SimulationQueue` is shown to keep, with manifests that a late stop may overwrite,
as `RunStore`'s do. `EditorSession`'s server is one step of the
update whose interleavings `ScenarioStore` has.

### The run queue: state and steps

* **Rows.** `status[r]` is the status column ("none": no row), `created[r]` the
  timestamp the database gives it. Operations that read and write under one row
  lock are one step. Two are not: the API's `transition()` is split at its lock
  (`TransitionLock`, `TransitionCommit`), because `claim_next()` skips locked
  rows and so can tell; `recover_interrupted_runs()` selects without a lock and
  updates at commit (`ReadInterrupted`, `FailInterrupted`).
* **Manifests.** `manifest[r]` is the `outcome` in `run_status.json`; "absent"
  means the run has no directory. Writing recreates the directory.
* **API.** Its endpoints are `async def` without an `await` in the body, and
  `main.py` starts one process, so handlers do not interleave with each other:
  `api` is the one in progress. They interleave with workers between any two of
  their database or file operations. `POST /start_opencda` and `POST /v1/runs`
  differ in the check; both write the manifest, then the row. Stop and cancel
  act on the status they read when they started.
* **Worker.** `pc[w]` follows `main`, `run_forever`, `run_once` and `execute`:
  down, recover, fail_rows, idle, claimed, launch, started, poll, report,
  sigint, sigterm, collect, then finish and mark for a result or failing and
  failnote for a failure; exited is a process that ended with status 0.
  `interrupted`, `stopRequested`, `expired` and `outcome` are the locals that
  matter.
* **Child.** `child[r]` is its state and, at the end, the kind of result file it
  left; `signal[r]` the strongest signal sent; `owner[r]` the container it lives
  in. The worker is PID 1 of its container (`entrypoint.sh` ends in `exec`), so
  its children die with it.
* **Faults.** `Faults` names the kinds an instance allows and `MaxFaults` bounds
  them: `worker_crash`, `session_linger` (PostgreSQL keeps the lock of a dead
  worker for a while), `shutdown` (SIGTERM to the worker), `io_error`,
  `db_error`, `lease_drop` (the lease connection breaks while the worker lives)
  and `api_abort` (the API process dies or a request ends by an error).

### The scenario store: state and steps

* **Row.** `row` is the row of one `scenario_id` (requests for others touch other
  rows): primary key, revision, scene and map, or `NoRow`. A scene is a value, of
  which the code looks only at whether it is empty. `lastId` is the sequence of
  the primary key, which PostgreSQL never rewinds.
* **Handlers.** The endpoints are plain `def`s, so FastAPI runs each on its
  thread pool, in a transaction of its own at READ COMMITTED. `BeginCreate`,
  `BeginUpdate` and `BeginDelete` are a handler's SELECT and its checks;
  `InsertRow` and `InsertConflict`, `CommitUpdate` and `StaleUpdate`, and
  `CommitDelete` are its commit. `handler[c].read` is the object it read: the
  UPDATE names that object's primary key and only the columns whose value
  differs from it (`Column`), and sets the revision to the one read plus one. A
  request refused by a check changes nothing and is not a step.
* **Clients.** `view[c]` is the scenario a client holds. The editor sends the
  revision of its view and always a scene and a map; another API client may leave
  out any field and, where `BlindSaves` holds, the revision. A reply may be lost.
  The primary key in `view` is bookkeeping for the properties: no client sees it.

`Concurrent` says whether handlers overlap. They do in the program; the value
FALSE asks what the endpoints guarantee to clients that happen to take turns.

### The editor's history: state and steps

* **Scene.** `cars` stands for the collections of objects that stand alone,
  `parts` for those that name a car (waypoints, lidars). An object is an id, an
  owner and one value.
* **History.** `hist` is the slice: stack, cursor, and the snapshots of deletions
  its entries refer to. An entry is a pair of updates, undo and redo; `Apply` is
  what the slice's switch over the kinds of entries does. Pushing cuts the
  undone part, drops the oldest entry beyond the bound, and forgets the
  snapshots nobody refers to.
* **Tracker.** `pending` holds the objects as they were before edits that wait
  for half a second of quiet; `EditSettles` is the timer. A deletion, an undo or a
  drag in between goes first, as in the code.
* **Users.** `Delete` (key), `DeleteSelected`, `EditSelected`, `DragStart`,
  `DragMove`, `DragEnd`, `Undo`, `Redo`, `ToastUndo`, `ToastRestore`, `Load`.

### The scenario on display: state and steps

* **Jobs.** A load or a selection of a map is a job that waits for its row, its
  map's text, the geometry a worker prepares, or the frames after the build
  (`pc` row, xodr, prepare, settle). Each wait is a step; `owner` says which job
  holds the latest token of each of the three counters (`beginMapLoadRequest`,
  `requestRef`, `mapBuildRequestRef`). `LoadFile` may fail at each of its calls.
* **What is open.** `doc` is the scenario with its revision and map, `scene` its
  objects, `clean` the fingerprint taken at the last save, `view` the map drawn
  and the parsed map of which a run takes its offsets, `cache` the name and the
  text that `xodrRepository.ts` keeps for the next visit.
* **Flags.** `screen` is the loading screen, `loading` the flag that disables
  saving, `dialogBusy` the upload dialog's.
* **Requests.** `op` is the save or deletion in flight: the payload is built when
  it is sent, and what its reply changes is what the mutation and the handler
  write. It sets `isReadOnly`, which disables saves, selections and the dialog
  (`EditorToolbarDialogs.tsx:45`). `desc` is the description the upload dialog
  saves: nothing waits for it, so scenarios and maps are loaded and saved while it
  is under way, and its answer binds whatever is open then to its id and revision
  (`TakeDescription`). `unseen` and a save's `blind` mark for the properties what
  has been bound without having been loaded or saved. `OtherSave` is another
  session.
* Upsets name what an instance lets happen: see the comment at `UpsetAssumption`.

### Meshes: state and steps

`store` and `drawn` hold a version of each object; `due` what React will render,
`jobs` the asynchronous hooks under way. `Render` runs the layout effects in
their order; `RsuSync`, `BuildingSync`, `PedestrianSync` and `LidarSync` are the
passes after their promises and timers; `CarModel` and `OtherModel` the arrival of
a model or its failure; `Attach` the 50 ms timer; `DragStart`, `DragMove` and
`DragEnd` the transform controls; `Align` the route alignment, which turns cars in
the store during a drag too. `late` are kinds whose hook has given up and will draw
only with the next change. A mesh may be `off` its version in a part: a pedestrian's
height and a scale along one axis are not written as they are drawn (`Unwritten`),
and a car that is turned does not take the turn the store gives it (`InHand`).
`hand`, for the properties, are the objects that changed last that way.

### Settings, panels and files: state and steps

`config` holds each setting that differs from its default, `lists` the vehicle
types, extra files and attacks, `objects` the optional fields of each object.
`EditConfig` is any input of any tab: `SimConfigModal` lists for each what it can
hand to the store after its own conversion (clamping, integer parsing, presets),
and `Merged` is what the store makes of it. Panels do the same for objects and keep
their switches (`advanced`, `shown`) across selections: React keeps the panel of a
road-side unit when another unit is selected, and `mounted` is the set of objects
the panel on display has shown. Patches are functions; `:>` and `@@` are defined in
`ConfigForm` as in the module TLC, whose definitions the prover does not see. `ScenarioArtifacts` says,
per simulator, which fields reach its file and when (`SumoCar`: there are no routes
unless every car has one, typed or found in the map's network, and its stop can be
written), and what the service's validation refuses. `Reload` saves the scenario and opens it again (`Reread`).

### The browser's picture of the runs: state and steps

`rows` is what the service would answer, but for the results, which it lists by
their manifests (`results.py:130`): `noted` are the completed runs whose manifest a
late stop has left at "stopping" (`StopIsNoted`). `link`, `delay` and `mail` the status
socket, its back-off and the messages on their way; `session` the phase, run
and status in the store; `start`, `stop`, `left` the requests under way; `list`,
`fetch` and `snap` the list of the open view and its request. `StatusRead`
follows `_current_status_response`: it looks the active run up, then reads it
again, and the run may end in between. Every upset (a broken or refused
connection, a failed request, a database error while the status is read, a stop
that is handled after the run's end, a page left, a click of the user) counts against `MaxUpsets`, so that a behaviour has
finitely many.

### Abstractions

*Queue and store.* Names, previews and annotations of a scenario are left out:
nothing depends on them. Scenario contents, parameters, ticks and error texts are
left out. Deleting a result directory, writing a manifest and recording a row are
each one step. `list_all()` orders by `updated_at`; which of several active rows
a stop finds is left open. The legacy in-process state is never active in
production and is taken as idle. A retention pass at API start, which removes
directories by age, is not modelled.

*History.* Ids of new objects are fresh. Seven collections are two.

*Session.* Contents are version numbers. In the two frames between a build and its
adoption nothing is clicked or left. Unsaved changes are asked about before a
map is chosen or a scenario opened; the answer is taken as yes.

*Meshes.* What the store holds of an object's place, turn and scale is one version;
a turn or scale it has no field for (of a road-side unit, say) is left out. Renders,
promises that are settled and zero timers run before the next input event. Ids are
fresh, and no car comes back within 50 ms of its last sync: the mesh the timer
captured is the car's own or gone. The read-only mode is left out. Of several 50 ms
timers the last one counts, as the others find another selection. A drag keeps its
mode, and route points, which are not dragged here, change at any time (`Align`).

*Forms.* Numbers are hundredths, and `Tiny` and `Huge` those printed with an
exponent; texts are empty, ordinary or not a plain YAML
scalar. What is geometry in a file (the SUMO network, the map's offsets) is left
out, as are file pickers.

*Monitor.* The cache of an earlier visit and the retries of react-query,
`broadcast()` beside the poll of every second, and a second start left behind are
left out; cancelling from the list is one step with its reply.

## 3. What TLC checks

Deadlock is not checked where ids, revisions, versions or operations are
bounded: a system that has used all of them rests.

| Run | Instance | Checks | Shows |
| --- | --- | --- | --- |
| `queue_safety` | 2 runs, 2 workers; crash, lingering session, shutdown; 1 fault | `TypeOK`, `OneRunOnCarla`, `LiveRunIsSupervised`, `IdleMeansNoActiveRecord`, `NoOvertaking`, `ImplementsSlot`, `StatusFollowsContract` | lease and recovery do their work when processes die at any step; claims keep their order |
| `queue_errors` | 2 runs, 2 workers; aborted request, I/O error, database error, lost lease; 1 fault | `CancelledNeverLaunched`, `OutcomeIsTheChilds` | what still holds when an operation fails anywhere or the lease is lost |
| `queue_liveness` | 2 runs, 1 worker, crash; 1 fault; fairness | `ActiveRunEnds`, `QueuedRunIsServed` | no run stays active or queued for ever, even when children hang |
| `orphan_child` | 2 runs, 1 worker, database error | `OneRunOnCarla` violated | see findings |
| `scenario_serial` | 3 clients taking turns, all with revisions; 3 scenes, 3 maps, 4 revisions, 1 row | `RevisionNamesContent`, `NoLostUpdate`, `SceneStaysOnItsMap` | the revision check and the map guard do what they promise when requests do not overlap |
| `scenario_races` | 2 overlapping clients, revisions optional; 2 scenes, 2 maps, 2 revisions, 2 rows | `ChangesStayWithTheirRow`, `DeletedStaysDeleted` | what holds in every interleaving: deletion is final |
| `editor_history` | 2 objects, 1 part, 2 values, a stack of 2, 6 operations | `UniqueIds`, `SnapshotsMatchEntries`, `NoOrphans`, `StepsCanBeUndone`, `EntriesMatchTheScene`, `UndoneStepsComeBack` | every recorded step can be taken back and done again, and the bounded stack and its snapshots stay in step |
| `editor_session` | 2 scenarios, 2 maps (one large), 2 jobs, 2 versions, 3 revisions, no upset; descriptions at any time | `RowsLieOnTheirMap`, `CleanMeansStored`, `MapsAgree`, `SavesKeepTheirScenario` | loads, selections, saves, descriptions, pages left and reloaded in any order keep scenario, row and map together, but for what a description's answer binds |
| `session_liveness` | 1 scenario, 1 large map, 2 jobs, 1 version, every upset; fairness | `LoadingEnds`, `SavingIsEnabledAgain` | whatever fails or is left, saving is enabled again and the loading screen goes, unless the dialog that loads was closed |
| `mesh_sync` | scenes of a car with its lidar, a pedestrian with a unit, a building; 2 versions, 1 operation after models have begun to load | `SceneShowsTheStore`, `GizmoInScene`, `DragKeepsItsObject` | late and failed models, renders, timers, drags and the route alignment leave the scene showing the store, but for what a drag left off |
| `config_form` | every input, three typed numbers beside one too small and one too large to print without an exponent, one car with a route found in the map, 2 edits of settings, lists of 2, or 2 edits of a car, 2 units, a building, a pedestrian or a lidar | `ServiceAccepts`, `SettingsReachAFile`, `NoHiddenOverride`, `EveryFieldIsKept`, `ReopenedRunsTheSame` | what the user sets reaches a file, is accepted by the service, is saved and is there again |
| `run_monitor` | 2 runs that end complete, 1 message on its way, 1 upset; fairness | `NamedRunWasClaimed`, `SessionFollowsTheService`, `RunsPageCatchesUp`, `ResultsCatchUp` | whatever breaks, the session and the lists end up at what the service says, but for a completed run whose manifest a late stop has overwritten |

**Bounds.** Two runs let one be queued, cancelled or started while another is
active. Two workers are enough for one to be live while another is restarted or
acquires the lease. One fault per behaviour reaches every step at which it can
strike; lingering sessions and shutdown signals are not counted. The theorems
below lift the bounds.

In the store, one client saves, a second holds an older revision and a third the
same one, so three take turns; two are enough to overlap, since every handler
commits against one row and a later commit sees only what the last one left.
Two scenes with objects and two maps let a save replace either. `MaxRows` says how
often the id is used: 1, or 2 for a scenario deleted and created again while an
update or deletion of the old one is under way.

In the history, a stack of two drops entries and cuts undone ones; six operations
delete a car with its part, undo, edit, and overflow the stack in one behaviour.
In the session, two jobs let each overtake the other at each wait, and the large
map adds the wait for the worker. Three revisions are needed: with two, nobody can
have a scenario's description saved and then save it. `VIEW` leaves out of a state
what no step and no checked property reads (`States` in `MCEditorSession`). A mesh sync depends on one object of each kind
and on the gizmo, wherever it is; every order in which the models of a scene
arrive around one operation (a drag counts as one however long it is) is explored.
Two edits set a section's switch and a field of it, or two fields of one object;
each input is explored from each value of the other. In the monitor one upset
falls at every step; two upsets, and outcomes other than complete, were explored
by hand with the same result.

**Fairness** (`Fairness` in `SimulationQueue`): a started handler finishes; a
worker's program goes on, and a dead one is restarted (`restart: on-failure`);
the session of a dead worker is reaped; time passes, so the runtime limit trips;
a process that was sent SIGKILL ends. Nothing is assumed of a child otherwise,
and nothing of users. `queue_liveness` has no lingering session: a worker
restarted before its old session is reaped exits with status 0 and is not
restarted again, so nothing in the code promises service then. It has no
database or I/O errors either.

In `EditorSession`, requests are answered or fail and workers and frames come. In
`RunMonitor`, timers fire, the service answers or fails, and the browser handles
what has arrived. Nothing is assumed of users, nor that a run ever ends.

**Properties.** Those about two actors or several steps come first:
`OneRunOnCarla` (two children never drive CARLA together),
`LiveRunIsSupervised` (a child on CARLA has an active row and a supervisor),
`IdleMeansNoActiveRecord` (an active row is never left behind),
`CancelledNeverLaunched`, `NoOvertaking`, `OutcomeIsTheChilds` (a recorded
outcome is the one the child left), `StatusFollowsContract`, and `ImplementsSlot`: under the mapping `phaseBar` from
statuses to phases, the rows behave like `RunSlot`.

Of the store: `RevisionNamesContent` (clients that hold one revision hold one
content), `NoLostUpdate` (a save replaces only what its client saw),
`SceneStaysOnItsMap`, and for overlapping requests `ChangesStayWithTheirRow` and
`DeletedStaysDeleted`.

Of the editor: `StepsCanBeUndone` (a recorded step is taken back, contents
included), `EntriesMatchTheScene` (an entry leads where its step led),
`UndoneStepsComeBack`, `UniqueIds`, and that snapshots and entries need each other.
`SavesKeepTheirScenario` (a save stores a scene that grew from the row it
overwrites), `CleanMeansStored` (the editor says nothing is unsaved only if so),
both but for what a description's answer has bound unseen,
`RowsLieOnTheirMap`, `MapsAgree`. `SceneShowsTheStore`, `GizmoInScene` (the gizmo
never holds a mesh that is gone), `DragKeepsItsObject`.

Some properties are proved and need no run: `ExclusiveStart` and
`PartialOnlyAfterStop` of the queue, `NoSilentWipe` of the store,
`FlagsFollowTheWork` of the session, and the types of the proved modules but the
queue's.

The exceptions a property names are what the code does and are listed under
"Observations"; without them TLC finds the behaviours described there.

Every property has a seeded bug (`Seeded bug` in the modules), a plausible
mistake in the code under which TLC finds the property violated.

### Findings

**Orphaned child** (`execution.py:107`, run `orphan_child`). A database error in
the polling loop marks the run failed and leaves its child alive; the next run
starts beside it. The same holds for an I/O error right after the launch.

Further configurations, which are not among the runs, give TLC's behaviours for
disagreements of the same kind. Each fails on the property it names.

| Configuration | Property | What happens |
| --- | --- | --- |
| `LostLease` | `OneRunOnCarla` | The lease is tied to a connection that is never used again (`worker_lease.py:30`). When it breaks under a live worker, a second worker takes over and two children drive CARLA. `StatusFollowsContract` fails there as well: recovery (`repository.py:119`) overwrites an outcome recorded after it read the row. |
| `CancelRace` | `CancelledReplyHolds` | A refused transition is only logged (`routers/simulation.py:514`): the reply says "cancelled" and the manifest is overwritten although the run executes. |
| `StopRace` | `FinishedRunIsListed` | A stop that loses the race overwrites the final manifest with "stopping" (`routers/simulation.py:503`), and the finished run is never listed again. `RunMonitor` has this stop as an upset, and `ResultsCatchUp` excepts the run. |
| `LostUpdate` | `NoLostUpdate` | The revision is compared with a row read without a lock and not compared again by the UPDATE (`routers/scenarios.py:215`): two saves that overlap are both accepted and the first one's scene is gone. |
| `Rebound` | `EverySaveKeepsItsScenario` | A description is saved through the mutation that saves use, whose answer rebinds whatever is open when it arrives to the described scenario (`UploadScenariosModal.tsx:66`, `useScenarioQueries.ts:79`): a draft, another scenario, or one that was loaded onto the scene while the answer was under way, which nothing prevents. The next save puts that scene over the described scenario. |
| `StaleDescription` | `AllChangesSaved` | A description is saved without a revision, and its answer replaces the one the editor holds (`useScenarioQueries.ts:90`). When somebody else has saved the scenario meanwhile, or it is not the one that is open, the editor holds the newest revision of a row it has not seen, and the next save passes the check "Scenario was changed in another session; reload before saving" (`routers/scenarios.py:215`). "All changes saved" is shown when the description is the one the open scenario had. |
| `ToastDuplicate` | `UniqueIds` | A deletion is undone from the keyboard, and then its toast is used: it restores the object a second time (`createHistorySlice.ts:41`; a test, `useEditorStore.deletionHistory.test.ts:287`, rules this out for one order of calls). |
| `RsuIds` | `RsuIdsDistinct` | OpenCDA keys the units by their ids without sign (`opencda.ts:267`, `rsu_manager.py:117`): two units with ids 1 and -1, or one that was given another's default, are one. |

`LostUpdate.cfg`, slightly changed, shows two more ways around the checks. With
`SceneStaysOnItsMap` as its property: the map guard (`routers/scenarios.py:245`)
looks at the scene as read, so an empty scene saved under a new map overlaps a save
that places objects on the old one, and only the map column is written over it.
With `Concurrent = FALSE` and `MaxRows = 2`: a scenario created under a deleted
one's id starts at revision 1 again (`routers/scenarios.py:179`), and a client
that holds revision 1 of the old one overwrites it.

### Observations

What the code does where a reader might expect otherwise, as met while modelling.
The models do the same, and the properties except it by name where they touch it.

*History.* A toast's restoration is recorded as an addition of the object alone:
undoing past it leaves waypoints without their car (`restored` in `NoOrphans`).
The entries of the additions stay as well, so that after two such restorations
undoing twice and redoing once brings back more than the first of the undos took
(`restored` in `UndoneStepsComeBack`). An edit made within half a second before a
deletion is missing from what redo restores.

*Session.* Closing the upload dialog with Escape during its load leaves the
loading screen up (`scenarioLoadHandler.ts:53`) or shows the new map under the
old scenario. A patch answered after the page was left for another scenario
rebinds it ("leave"); edits made while a save is in flight are marked clean by
its reply ("edit"); a map that cannot be drawn leaves an emptied scene and the
scenario open, and what is placed next is saved over it ("build",
`useOdrMapManager.ts:149`); a map that does not parse leaves a run without offsets
("parse"); a page reloaded while a large map is prepared keeps the new name with
the old text ("reload", `useOdrLoader.ts:146`). `sceneExplicitlyCleared` is never
set, so an emptied scene is never saved over one with objects. These are why
`editor_session` runs without upsets; `session_liveness` has all of them.

*Meshes.* A building whose model takes longer than two seconds, a lidar whose car
is drawn later, and pedestrians without a model wait for the next change of their
kind (`late`). A lidar edited in its panel while it has the gizmo is not moved
although it counts as synced (`Typed`). A car that the route alignment turns while
the user turns it stays drawn as the user left it (`useRouteOrientationSync.ts:20`,
`useCarMeshSync.ts:57`, `:76`), and a dragged pedestrian is drawn lower than its new
height says (`usePedestrianMeshSync.tsx:70`, `createObjectChangeHandler.ts:105`):
both until the object changes again (`hand`). The pedestrian then rises by its
offset.

*Forms.* The service refuses what the exceptions of `ServiceAccepts` name: numbers
printed with an exponent and no point, which are text to YAML: "5e-7" below a
millionth, "1e+21" from there on in an input without a maximum
(`opencdaFieldUtils.ts:14`, `GNSSNoiseSection.tsx:87`); a fractional number of cameras; a controller
type that is not a plain scalar (`opencdaYamlSections.ts:44`); a cleared Fixed Delta
or Traffic Manager port (`CarlaSettingsSection.tsx:57`, `:70`). An opened scenario
has lost its settings and attacks (`scenarioLoadHandler.ts:77`), a car's OpenCDA
overrides and a building's size and turn; a car's turn is rounded down each time
(`scenario.load.handler.ts:53`). Any edit of the settings turns the name of an
uploaded map into Town03 (`configGeneratorUtils.ts:53`). A road-side unit's panel
keeps its switches when another unit is selected (`RSUProperties.tsx:18`): with
`b` selected after `a` the switches of `a` are on, one turned off there is off when
`a` is shown again, and turning it on writes over the value `a` still has. This is
why `NoHiddenOverride` speaks of a panel that has shown one object only; the proof
of it failed without that. Undoing, from the keyboard, the edit that switched an
override off is not part of the model.

*Monitor.* The socket practically never says that a run has finished: once no run
is active, the answer falls back to an in-process state nobody updates
(`routers/simulation.py:230`), so the session goes from running to idle, although
`SceneTreePanel.integration.test.tsx:302` expects "finished". A stop names no run
(`useStopSimulationMutation.ts:6`) and may stop the next one. The details page
stops polling while a run is stopping (`RunDetailsPage.tsx:33`). A page of the
runs with nothing in progress does not poll, so a run submitted elsewhere
appears with the next visit. While a run is queued, the phase is idle and a
second click queues another one.

## 4. What is proved

`SimulationQueueProofs` proves, for any sets of runs and workers and any number
of faults, every safety property the passing runs check and two more.

| Theorem | Property | Assumes of `Faults` |
| --- | --- | --- |
| `TypeCorrect` | `TypeOK` | – |
| `CancelledRunsNeverExecute` | `CancelledNeverLaunched` | – |
| `StartIsExclusive` | `ExclusiveStart` | – |
| `OutcomesAreTheChilds` | `OutcomeIsTheChilds` | – |
| `PartialMeansStopped` | `PartialOnlyAfterStop` | – |
| `ClaimsKeepOrder` | `NoOvertaking` | no `api_abort` |
| `IdleWorkerLeavesNothingActive` | `IdleMeansNoActiveRecord` | no `lease_drop` |
| `QueueImplementsSlot` | `ImplementsSlot` | no `lease_drop` |
| `RowsFollowTheContract` | `StatusFollowsContract` | no `lease_drop` |
| `OneRunAtATime` | `OneRunOnCarla` | no `lease_drop`, `io_error`, `db_error` |
| `LiveRunsAreSupervised` | `LiveRunIsSupervised` | no `lease_drop`, `io_error`, `db_error` |

The assumptions are those the findings show to be needed. The only others are
that `NoRun` and `NoWorker` are not ids and that `MaxFaults` is a natural number.

The argument has two layers.

* **The row lock alone.** `HandlerInv` says that a handler about to commit holds
  the row and that its transition is still legal; `ClaimedOnly` that only a
  claimed row is a job, is failed by recovery, or has a child. Each needs the
  other: recovery must not touch the row a handler is about to insert. On top,
  `StartInv`, `OrderInv` and `OutcomeInv` give the properties that hold without
  the lease. `OutcomeInv` needs that no two workers share a job, since otherwise
  a second launch could replace the child whose result is about to be recorded.
* **The lease.** `SlotInv` adds that a running worker holds the lease and that
  the active row, if any, is the job of the busy worker or one that waits for
  recovery; at `fail_rows` the rows read are still exactly the active ones. The
  refinement of `RunSlot` follows step by step (`SlotSimulation`). `ChildInv`
  says that a child on CARLA lives in the container of the worker that is in the
  polling loop for it, and with `SlotInv` gives `OneRunOnCarla`.

`ScenarioStoreProofs` proves every property the passing runs of the store check,
and three more, for any clients, scenes, maps and request bodies and any bounds.

| Theorem | Property | Assumes |
| --- | --- | --- |
| `StoreTypeCorrect` | `TypeOK` | – |
| `NoResurrection` | `DeletedStaysDeleted` | – |
| `ChangesStay` | `ChangesStayWithTheirRow` | – |
| `WipesAreExplicit` | `NoSilentWipe` | no overlap |
| `ScenesStay` | `SceneStaysOnItsMap` | no overlap |
| `RevisionsAgree` | `RevisionNamesContent` | no overlap, revisions always sent, id used once |
| `NothingIsLost` | `NoLostUpdate` | the same |

`IdsInv` (nobody refers to a primary key not given out yet) carries the three that
hold in every interleaving. `SerialInv` says that without overlap the row is
still as the handler read it, so its checks still hold at the commit. On top,
`RevisionInv` says that no view is ahead of the row and that whoever saves holds
the current revision; two equal revisions then name one content, which makes the
revision check sufficient. Beside the assumptions named in `ScenarioStore`, which
type the constants, nothing is assumed.

`RunMonitorProofs` proves the two safety properties of the monitor for any runs and
any number of messages and upsets.

| Theorem | Property |
| --- | --- |
| `MonitorTypeCorrect` | `TypeOK` |
| `EditorNamesClaimedRuns` | `NamedRunWasClaimed` |

`Types` completes `TypeOK` with the variables it does not speak of. A message that
names a run was read when that run had been claimed, and a claimed run never
becomes queued or cancelled again (`MailClaimed`, which needs the contract's
transitions); the session takes names from messages and from replies to starts
only. `IInv` joins the three.

`EditorSessionProofs` proves the safety properties of the session for any
scenarios, maps, large maps, jobs, versions and revisions, under the assumption
`Calm`: none of the upsets happens. The observations above show what each upset
breaks. Descriptions are no upset: they may be saved, answered late or lost at any
time, and what they break is the exception the two properties name.

| Theorem | Property |
| --- | --- |
| `SessionTypeCorrect` | `Types` |
| `RowsStayOnTheirMap` | `RowsLieOnTheirMap` |
| `SavedMeansStored` | `CleanMeansStored` |
| `TheMapsAgree` | `MapsAgree` |
| `SavesStayInTheirScenario` | `SavesKeepTheirScenario` |
| `TheEditorIsNotLocked` | `FlagsFollowTheWork` |

No property is inductive: what a save sends depends on what every job has left
half done. `JobsHoldTokens` and `OneJobWorks` say that at most one job can still
change the scene and that it holds the tokens it will be asked for, so that the
branches for overtaken jobs are never taken by a job that draws. `SceneIsOpen` and
`CacheIsOpen` say what the scene, the display and the two caches are before, while
and after a map is drawn. `OpIsOpen` says that what a save sent is still what the
editor shows, whatever a description's answer has done to its id. `RevisionNamesClean` says that the revision the editor holds names
the content it calls clean as long as the row has that revision; it needs that an
answer's revision names what was sent (`Names`), also after others have saved, and
that the revision before a description names the same content as the one after it.
`LoadedRowsAreWhole` says the same of a row that was read and is not yet adopted.

`MeshSyncProofs` proves two properties of the meshes for any objects, scenes and
bounds, with every model late or failing.

| Theorem | Property |
| --- | --- |
| `SyncTypeCorrect` | `TypeOK` |
| `GizmoHoldsAMesh` | `GizmoInScene` |
| `DragIsKept` | `DragKeepsItsObject` |

That the held object has a mesh (`HeldIsThere`) depends on which passes may take a
mesh away: a lidar's goes with its car (`LidarsHaveCars`, `LidarsAreInCars`), a
road-side unit's look changes when its model arrives (`LooksFollowModels`), and the
50 ms timer may only take a car that has been drawn (`AwaitedIsDrawn`).
`GizmoFollowsSelection` says that between a change of the selection and its effect
the gizmo may hold the old object, but not while it is dragged.

Its second part proves, from the same invariant, that the scene shows the store.

| Theorem | Property | Assumes |
| --- | --- | --- |
| `SceneFollowsTheStore` | `SceneShowsTheStore` | `Typed` is FALSE |

The assumption is needed: see the observation about lidars edited in their panel.
`RestIsDue` says that what is not drawn as stored awaits a pass, a model or a
timer, or is late; it is not inductive, because a pass leaves alone what it takes
for synced or held. `SyncedIsShown` and `HeldIsShown` say that this is drawn as
stored, and `MeshesAreSettled` that a mesh of a kind with nothing due records the
version it shows or none, so that the next change is noticed. `MeshesHaveModels`
and `UndrawnLidarsAreNew` are for the meshes made of late models: a lidar drawn by
the map's timer, which does not record it, has no older record either. What may be
off is a second invariant, `HInv`: a mesh that is off was in the hand when its object
changed last, or is due, will not be skipped and is not held (`OffIsDue`), and a car
that differs from the store while it is turned was aligned under the drag
(`TurnedIsInHand`).

`EditorHistoryProofs` proves the three invariants and the three action properties of
the history for any ids, values and bounds, whatever is edited, deleted, dragged,
undone and redone in any order.

| Theorem | Property | Assumes |
| --- | --- | --- |
| `SnapshotsAlwaysMatch` | `SnapshotsMatchEntries` | – |
| `IdsStayUnique` | `UniqueIds` | `LateToasts` is FALSE |
| `PartsHaveTheirCar` | `NoOrphans` | `LateToasts` is FALSE |
| `RecordedStepsGoBack` | `StepsCanBeUndone` | `LateToasts` is FALSE, `MaxHistory` is not 1 |
| `EntriesKeepTheirScene` | `EntriesMatchTheScene` | `LateToasts` is FALSE |
| `RedoRepairs` | `UndoneStepsComeBack` | `LateToasts` is FALSE |

The first assumption is needed: `ToastDuplicate` shows what a toast does that is used after
its deletion was undone from the keyboard. `SnapInv` says that each snapshot is named
by one entry, with the number of the deletion, so that an entry dropped or cut takes
its own snapshot along. `UniqueIds` is far from inductive, because an entry restores
what it finds in its closure, and what the scene holds then depends on every entry
before and after it. `EditInv` says that the history fits the scene: each entry has
the form its step gave it, and the ids that entries add and delete form a log
(`LogOk`): an id that an entry deletes is in no later entry and, while that entry is
done, not in the scene. As long as no toast has restored anything the scene is also
what the log says when replayed (`Replayed`), and a part comes after its car and goes
no later (`OwnersFirst`). The owner of a part is not stored with the log; it is a function
of the id, chosen once for a whole behaviour (`own`). Filters, insertions and splices
are functions defined by recursion; the lemmas get at them by way of minimal
counterexamples (`NatMin`), since the library's induction is out of reach.

The action properties rest on the same invariant, step by step (`HistoryStep`). The
newest entry is the one just pushed (`PushedOne`), so it is enough that each kind of
entry, applied to the scene its step led to, changes nothing (`PatchAgain`,
`RemoveAgain`, `CutAgain`, `ValsAgain`, `GiveAgain`) and its undo leads back
(`UnsnapBack`, `SpliceBack`, `ValsBack`, `TakeBack`). The scenes compared hold the same
objects; their order may differ. A toast that brings back a car with its waypoints is
recorded as two entries and needs two undos (`AddedRecorded`); a stack of one entry
would drop the first of them, which is why `MaxHistory` is not 1
(`MAX_HISTORY_SIZE` is 100, `createHistorySlice.ts:4`). For the redo after an undo the
log is used once more: the ids the entry adds are in the scene and those it deletes are
not (`UndoRedo`).

`ScenarioFormsProofs` proves every property of the forms that a passing run checks,
for any objects, any numbers typed and any number of edits.

| Theorem | Property | Assumes |
| --- | --- | --- |
| `ServiceTakesTheFile` | `ServiceAccepts` | – |
| `NoSettingIsLost` | `SettingsReachAFile` | there is a road-side unit |
| `OverridesStayShown` | `NoHiddenOverride` | – |
| `FieldsReachAFileOrAreSaved` | `EveryFieldIsKept` | – |
| `OpenedAgainRunsTheSame` | `ReopenedRunsTheSame` | – |

`SettingsInv` says that the settings name only fields of the dialog, grouped by the
part of a file they belong to (`Known`), and that each the service checks holds a
number of at least zero or its default. It is kept by each of the some 300 inputs,
section by section. A unit is needed because two settings of the Artery file are
written once per unit (`artery.ts:22`). `PanelInv` says that an object holds fields of
its kind only, that a panel which has shown one object shows it still, and that the
switches of that object's overrides are on. It rests on `Proper`: an input writes
fields of its kind of object and leaves an override's fields alone, clears them all,
or has the switch on afterwards; `CarPartsApart` and `RsuPartsApart`, that no field
belongs to two switches, are what a new field in a panel could break.

Only model-checked: liveness, which is out of the prover's reach as soon as it rests on
fairness: `ActiveRunEnds` and `QueuedRunIsServed` of the queue, `LoadingEnds` and
`SavingIsEnabledAgain` of the session, `SessionFollowsTheService`, `RunsPageCatchesUp`
and `ResultsCatchUp` of the monitor. TLC checks them on the instances whose bounds
section 3 gives. Every safety property that a passing run checks has a theorem.

## 5. Not modelled

* **Scenario runner, OpenCDA integration, co-simulation.** Sequences of calls to
  CARLA and SUMO; their state is that of the simulators' actors. How a child can
  end is modelled (`ChildCompletes`, `ChildErrors`, `ChildDies`).
* **OpenCDA core** (planning, platooning, perception, localization, control, V2X,
  RSU trust). Transitions are decided by positions, speeds and distances; without
  them a model would only repeat the names of the states.
* **Results on disk.** Retention by age, the manifests without rows that a crashed
  submission leaves, charts and downloads.
* **Accounts.** Requests are independent of each other; the unique key decides
  between two that create one user.
* **Legacy executor.** No production code starts it.
* **Notifier.** `broadcast()` and the sockets of single runs. `RunMonitor` has one
  subscriber, served by its timer.
* **Rendering, OpenDRIVE parsing, the SUMO network's geometry.** Numerical code.
  `ModuleOpenDrive.js` is generated.
* **Pages outside the editor.** They show what a request returned.
* **Migrations and deployment**, but for the restart policy and the process tree
  that `RunWorker` assumes.

Worth doing next: the refinement of a register with compare-and-set by
`ScenarioStore` for clients that take turns.
