---------------------------- MODULE ScenarioStore ----------------------------
(***************************************************************************)
(* The scenario endpoints (routers/scenarios.py) over the table scenarios, *)
(* with the editors that call them (scenarioCrudHandlers.ts).              *)
(*                                                                         *)
(* The endpoints are plain `def's: FastAPI runs them on a thread pool, each *)
(* in its own READ COMMITTED transaction (database.py), so between the     *)
(* SELECT at the start of a handler and its commit any other may commit.   *)
(* Requests for different scenario_ids touch different rows; the module    *)
(* follows one scenario_id.                                                *)
(***************************************************************************)
EXTENDS Naturals

CONSTANTS
  Clients,      \* editor sessions and API clients
  Scenes,       \* values of scenario_text
  EmptyScenes,  \* those with no object placed
  Maps,         \* values of map, NULL included
  NoMap,        \* NULL
  Omitted,      \* a field the request leaves out
  Bodies,       \* the update bodies clients send: [scene, map, clear]
  Concurrent,   \* whether handlers overlap, as on the thread pool
  BlindSaves,   \* whether clients may leave expected_revision out
  MaxRevision,  \* bound on the revision of a row
  MaxRows       \* bound on the rows created under the scenario_id

ASSUME SceneAssumption == EmptyScenes \subseteq Scenes /\ Omitted \notin Scenes
ASSUME MapAssumption == NoMap \in Maps /\ Omitted \notin Maps
ASSUME BodyAssumption ==
  Bodies \subseteq [scene : Scenes \cup {Omitted},
                    map : (Maps \ {NoMap}) \cup {Omitted},
                    clear : BOOLEAN]
ASSUME BoundAssumption ==
  /\ Concurrent \in BOOLEAN /\ BlindSaves \in BOOLEAN
  /\ MaxRevision \in Nat /\ MaxRows \in Nat

VARIABLES
  row,      \* the row: [id, revision, scene, map], or NoRow
  lastId,   \* the last primary key the database gave out
  view,     \* [client -> the row as its last load or save left it, or NoRow;
            \*  a field the client never saw is Omitted]
  handler   \* [client -> its handler in progress: [op, read, body]]

vars == <<row, lastId, view, handler>>

NoRow == [id |-> 0, revision |-> 0, scene |-> Omitted, map |-> Omitted]

RowType ==
  {NoRow} \cup [id : Nat \ {0}, revision : Nat \ {0}, scene : Scenes, map : Maps]

ViewType ==
  {NoRow} \cup [id : Nat \ {0}, revision : Nat \ {0},
               scene : Scenes \cup {Omitted}, map : Maps \cup {Omitted}]

NoBody == [scene |-> Omitted, map |-> Omitted, clear |-> FALSE]
NoHandler == [op |-> "none", read |-> NoRow, body |-> NoBody]

BodyType ==
  [scene : Scenes \cup {Omitted}, map : Maps \cup {Omitted}, clear : BOOLEAN]

TypeOK ==
  /\ row \in RowType
  /\ lastId \in Nat
  /\ view \in [Clients -> ViewType]
  /\ handler \in
       [Clients -> [op : {"none", "create", "update", "delete"},
                    read : RowType, body : BodyType]]
  /\ \A c \in Clients :
       /\ handler[c].op \in {"update", "delete"} => handler[c].read # NoRow
       /\ handler[c].op = "create" => handler[c].body.scene # Omitted
                                    /\ handler[c].body.map # Omitted

Init ==
  /\ row = NoRow
  /\ lastId = 0
  /\ view = [c \in Clients |-> NoRow]
  /\ handler = [c \in Clients |-> NoHandler]

HasContent(scene) == scene \notin EmptyScenes

-----------------------------------------------------------------------------
(* A client has one request under way: useScenarioControls drops a second.  *)

Idle(c) == handler[c].op = "none"

Begin(c, op, body) ==
  /\ Idle(c)
  /\ Concurrent \/ \A d \in Clients : Idle(d)
  /\ handler' = [handler EXCEPT ![c] = [op |-> op, read |-> row, body |-> body]]
  /\ UNCHANGED <<row, lastId, view>>

End(c) == handler' = [handler EXCEPT ![c] = NoHandler]

\* The reply may get lost; the client then keeps what it had.
Reply(c, seen) ==
  \/ view' = [view EXCEPT ![c] = seen]
  \/ UNCHANGED view

\* GET /v1/scenarios/{id} and what handleLoad keeps of it.
Load(c) ==
  /\ Idle(c)
  /\ row # NoRow
  /\ view' = [view EXCEPT ![c] = row]
  /\ UNCHANGED <<row, lastId, handler>>

-----------------------------------------------------------------------------
(* POST /v1/scenarios: look the id up, then INSERT.                        *)

BeginCreate(c, scene, map) ==
  /\ row = NoRow
  /\ lastId < MaxRows
  /\ Begin(c, "create", [scene |-> scene, map |-> map, clear |-> FALSE])

Created(body) ==
  [id |-> lastId + 1, revision |-> 1, scene |-> body.scene, map |-> body.map]

InsertRow(c) ==
  /\ handler[c].op = "create"
  /\ row = NoRow
  /\ row' = Created(handler[c].body)
  /\ lastId' = lastId + 1
  /\ Reply(c, row')
  /\ End(c)

\* The unique constraint on scenario_id: IntegrityError, 409.
InsertConflict(c) ==
  /\ handler[c].op = "create"
  /\ row # NoRow
  /\ End(c)
  /\ UNCHANGED <<row, lastId, view>>

-----------------------------------------------------------------------------
(* PATCH /v1/scenarios/{id}: the checks, against the row as it was read.   *)

\* Seeded bug: a stale revision is let through.
AnyRevision(c) == TRUE

\* The editor sends the revision it holds as expected_revision.
Current(c) ==
  BlindSaves \/ (view[c] # NoRow /\ row.revision = view[c].revision)

\* The accidental-wipe guard: an empty scene over placed objects.
Wipes(body) ==
  /\ body.scene \in EmptyScenes
  /\ HasContent(row.scene)
  /\ ~body.clear

\* Seeded bug: explicit_clear lets a scene with objects through as well.
MovesSceneUnlessClear(body) ==
  /\ body.scene # Omitted
  /\ body.map \notin {Omitted, row.map}
  /\ HasContent(row.scene)
  /\ ~body.clear

\* A new map under placed objects, unless the request clears them.
MovesScene(body) ==
  /\ body.scene # Omitted
  /\ body.map \notin {Omitted, row.map}
  /\ HasContent(row.scene)
  /\ ~(body.clear /\ body.scene \in EmptyScenes)

\* Refused requests (404, 409) change nothing and are not steps.
BeginUpdate(c, body) ==
  /\ row # NoRow
  /\ row.revision < MaxRevision
  /\ Current(c)
  /\ ~Wipes(body)
  /\ ~MovesScene(body)
  /\ Begin(c, "update", body)

\* SQLAlchemy writes only the columns whose new value differs from the one
\* read, and as revision the one read plus one.
Column(sent, read, stored) == IF sent \in {Omitted, read} THEN stored ELSE sent

\* Seeded bug: the revision is not moved.
UpdatedSameRevision(read, body) ==
  [id |-> row.id,
   revision |-> row.revision,
   scene |-> Column(body.scene, read.scene, row.scene),
   map |-> Column(body.map, read.map, row.map)]

Updated(read, body) ==
  [id |-> row.id,
   revision |-> read.revision + 1,
   scene |-> Column(body.scene, read.scene, row.scene),
   map |-> Column(body.map, read.map, row.map)]

\* What the client believes after the reply: the revision of the reply with
\* what it sent, and what it had of the fields it left out.
Believed(c, read, body) ==
  [id |-> read.id,
   revision |-> read.revision + 1,
   scene |-> IF body.scene = Omitted THEN view[c].scene ELSE body.scene,
   map |-> IF body.map = Omitted THEN view[c].map ELSE body.map]

\* Seeded bug: UPDATE and DELETE go by scenario_id.
AnyRow(c) == row # NoRow

\* UPDATE and DELETE go by the primary key of the row read.
SameRow(c) == row.id = handler[c].read.id

CommitUpdate(c) ==
  LET read == handler[c].read
      body == handler[c].body IN
  /\ handler[c].op = "update"
  /\ SameRow(c)
  /\ row' = Updated(read, body)
  /\ Reply(c, Believed(c, read, body))
  /\ End(c)
  /\ UNCHANGED lastId

\* Seeded bug: the object is merged back, which inserts it again.
MergeUpdate(c) ==
  /\ handler[c].op = "update"
  /\ ~SameRow(c)
  /\ row' = IF row = NoRow THEN handler[c].read ELSE row
  /\ End(c)
  /\ UNCHANGED <<lastId, view>>

\* The row was deleted meanwhile: no row matches, StaleDataError, 500.
StaleUpdate(c) ==
  /\ handler[c].op = "update"
  /\ ~SameRow(c)
  /\ End(c)
  /\ UNCHANGED <<row, lastId, view>>

-----------------------------------------------------------------------------
(* DELETE /v1/scenarios/{id}: by primary key; no row is no error.          *)

BeginDelete(c) ==
  /\ row # NoRow
  /\ Begin(c, "delete", NoBody)

CommitDelete(c) ==
  /\ handler[c].op = "delete"
  /\ row' = IF SameRow(c) THEN NoRow ELSE row
  /\ Reply(c, NoRow)
  /\ End(c)
  /\ UNCHANGED lastId

-----------------------------------------------------------------------------
ClientNext(c) ==
  \/ Load(c)
  \/ \E scene \in Scenes, map \in Maps : BeginCreate(c, scene, map)
  \/ InsertRow(c)
  \/ InsertConflict(c)
  \/ \E body \in Bodies : BeginUpdate(c, body)
  \/ CommitUpdate(c)
  \/ StaleUpdate(c)
  \/ BeginDelete(c)
  \/ CommitDelete(c)

Next == \E c \in Clients : ClientNext(c)

Spec == Init /\ [][Next]_vars

-----------------------------------------------------------------------------
(* Properties.                                                             *)

SameScenario == row # NoRow /\ row' # NoRow /\ row.id = row'.id

\* The update whose handler ends with this step.
EndsUpdate(c) == handler[c].op = "update" /\ handler'[c].op = "none"

\* A revision stands for one content: two clients that hold the same revision
\* of a row, or a client and the table, agree on scene and map.
RevisionNamesContent ==
  \A c \in Clients :
    \A other \in {row} \cup {view[d] : d \in Clients} :
      /\ view[c].id = other.id
      /\ view[c].revision = other.revision
      => view[c] = other

\* A save replaces only what its client last saw, never another session's work:
\* "Scenario was changed in another session; reload before saving".
NoLostUpdate ==
  [][\A c \in Clients :
       CommitUpdate(c) =>
         /\ row'.scene # row.scene => row.scene = view[c].scene
         /\ row'.map # row.map => row.map = view[c].map]_vars

\* Placed objects vanish only if a client said so: the accidental-wipe guard
\* of update_scenario.
NoSilentWipe ==
  [][SameScenario /\ HasContent(row.scene) /\ ~HasContent(row'.scene)
       => \E c \in Clients : EndsUpdate(c) /\ handler[c].body.clear]_vars

\* Placed objects stay on the map they were placed on, unless the map alone
\* was sent or the objects are cleared with the change.
SceneStaysOnItsMap ==
  [][SameScenario /\ HasContent(row.scene) /\ row.map # row'.map
       => \E c \in Clients :
            /\ EndsUpdate(c)
            /\ \/ handler[c].body.scene = Omitted
               \/ handler[c].body.clear /\ ~HasContent(row'.scene)]_vars

\* A save or deletion that was under way when its scenario was deleted and the
\* id used again never touches the new scenario.
ChangesStayWithTheirRow ==
  [][row # NoRow /\ row' # row
       => \E c \in Clients :
            handler[c].read.id = row.id /\ ~Idle(c) /\ handler'[c].op = "none"]_vars

\* A deleted scenario stays deleted: no late save brings it back.
DeletedStaysDeleted ==
  [][row = NoRow /\ row' # NoRow
       => \A c \in Clients : view[c].id # row'.id /\ handler[c].read.id # row'.id]_vars

-----------------------------------------------------------------------------
(* The inductive invariants behind the theorems of ScenarioStoreProofs.     *)

\* Nothing refers to a primary key that was not given out.
IdsInv ==
  /\ row.id <= lastId
  /\ \A c \in Clients : view[c].id <= lastId /\ handler[c].read.id <= lastId

\* Handlers one after the other: the one in progress has read the row as it is,
\* and what it checked still holds.
SerialInv ==
  \A c \in Clients :
    ~Idle(c) =>
      /\ handler[c].read = row
      /\ \A d \in Clients : ~Idle(d) => d = c
      /\ handler[c].op = "update" =>
           ~Wipes(handler[c].body) /\ ~MovesScene(handler[c].body)

\* With one row under the id, revisions only grow, and whoever saves holds the
\* current one.
RevisionInv ==
  /\ RevisionNamesContent
  /\ lastId <= 1
  /\ \A c \in Clients :
       /\ view[c] # NoRow => view[c].id = lastId
       /\ view[c] # NoRow /\ row # NoRow => view[c].revision <= row.revision
       /\ handler[c].op = "update" => view[c] # NoRow /\ row.revision = view[c].revision
       /\ handler[c].op = "create" => lastId = 0

=============================================================================
