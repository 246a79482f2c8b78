------------------------------ MODULE MeshSync ------------------------------
(***************************************************************************)
(* How the meshes of the 3D scene follow the entity store: the five        *)
(* mesh-sync hooks of the editor, the models they wait for, the transform  *)
(* controls (the gizmo) and the drag that writes back to the store.        *)
(*                                                                         *)
(* A version of an object stands for what the store holds of its place,    *)
(* turn and scale; version 0 is an object that is not there.  Synced       *)
(* versions stand for the entity references the hooks compare.  A mesh has *)
(* the version it was last given or wrote, but may be off it in a part: a  *)
(* drag writes less than it does, and a mesh in the hand is not moved.     *)
(***************************************************************************)
EXTENDS Naturals

CONSTANTS
  Cars, Lidars, Pedestrians, Rsus, Buildings, \* ids of objects
  CarOf,   \* the carId of each lidar
  NoOne,   \* no object
  Scenes,  \* sets of objects the editor may start with
  MaxVer,  \* bound on the versions of an object
  MaxOps,  \* bound on the operations of the user
  Typed    \* whether the panel edits a lidar that carries the gizmo

Objects == Cars \cup Lidars \cup Pedestrians \cup Rsus \cup Buildings
Of == [car |-> Cars, lidar |-> Lidars, pedestrian |-> Pedestrians,
       rsu |-> Rsus, building |-> Buildings]
Kinds == DOMAIN Of
KindOf == [o \in Objects |-> CHOOSE k \in Kinds : o \in Of[k]]

ASSUME ObjectAssumption ==
  /\ \A k, l \in Kinds : k # l => Of[k] \cap Of[l] = {}
  /\ CarOf \in [Lidars -> Cars]
  /\ NoOne \notin Objects
  /\ \A S \in Scenes : S \subseteq Objects /\ \A l \in S \cap Lidars : CarOf[l] \in S
ASSUME BoundAssumption == MaxVer \in Nat \ {0} /\ MaxOps \in Nat

ASSUME TypedAssumption == Typed \in BOOLEAN

VARIABLES
  store,    \* the version of each object in the store
  drawn,    \* of each object's mesh: its version and look, and what of it is
            \* off that version
  synced,   \* the versions last synced
  model,    \* of each kind: "loading", "ready" or "failed"; of lidars, which
            \* have none: whether the map's timer has restored them
  due,      \* kinds changed since React rendered last, and "selection"
  jobs,     \* kinds with an asynchronous sync under way
  gizmo,    \* the object the transform controls are attached to
  dragging, \* isDraggingRef
  mode,     \* what the drag changes: "translate", "rotate" or "scale"
  selected, \* selectedIds, one object or none
  late,     \* kinds whose hook has given up since they changed last, so that
            \* they are drawn with their next change only
  attach,   \* the car the 50 ms timer is to attach, or NoOne
  hand,     \* for the properties: the objects that changed last in the user's
            \* hand, by the drag or under it
  ops       \* operations so far

vars == <<store, drawn, synced, model, due, jobs, gizmo, dragging, mode, selected, late,
          attach, hand, ops>>

Modes == {"translate", "rotate", "scale"}
Parts == {"turn", "scale", "height"}

Absent == [ver |-> 0, look |-> "none", off |-> {}]

Init ==
  /\ \E S \in Scenes : store = [o \in Objects |-> IF o \in S THEN 1 ELSE 0]
  /\ drawn = [o \in Objects |-> Absent]
  /\ synced = [o \in Objects |-> 0]
  /\ model = [k \in Kinds |-> "loading"]
  /\ due = Kinds
  /\ jobs = {}
  /\ gizmo = NoOne
  /\ dragging = FALSE
  /\ mode = "translate"
  /\ selected = NoOne
  /\ late = {}
  /\ attach = NoOne
  /\ hand = {}
  /\ ops = 0

-----------------------------------------------------------------------------
(* One pass of a hook over the objects of its kind.                        *)

\* What the user holds is not moved; a lidar stays while it has the gizmo.
Held(o) == gizmo = o /\ (dragging \/ o \in Lidars)

\* A mesh as the store has it.
Fresh(o, look) == [ver |-> store[o], look |-> look, off |-> {}]

\* A car takes from the store what the drag does not change: its place and scale
\* while it is turned, its turn too while it is moved.
InHand(o) ==
  IF o \notin Cars THEN drawn[o]
  ELSE [drawn[o] EXCEPT
          !.ver = store[o],
          !.off = CASE mode = "translate" -> {}
                    [] mode = "rotate" -> IF drawn[o].ver # store[o] THEN {"turn"}
                                          ELSE @ \cap {"turn"}
                    [] mode = "scale" -> @ \cap {"scale"}]

\* Seeded bug: meshes of objects that are gone are kept.
MeshKept(o, look) ==
  IF drawn[o].look # look THEN Fresh(o, look)
  ELSE IF synced[o] = store[o] THEN drawn[o]
  ELSE IF Held(o) THEN InHand(o)
  ELSE Fresh(o, look)

\* The mesh after the pass: removed, new (also for another look), left as it
\* is, or moved.
Mesh(o, look) ==
  IF store[o] = 0 THEN Absent
  ELSE IF drawn[o].look # look THEN Fresh(o, look)
  ELSE IF synced[o] = store[o] THEN drawn[o]
  ELSE IF Held(o) THEN InHand(o)
  ELSE Fresh(o, look)

\* Seeded bug: it leaves with every sync.
LeavesAny(S, pass) == IF gizmo \in S THEN NoOne ELSE gizmo

\* The gizmo leaves a mesh that is removed or replaced.
LeavesMesh(S, pass) ==
  IF gizmo \in S /\ drawn[gizmo].look # pass[gizmo].look THEN NoOne ELSE gizmo

Pass(S, look) ==
  [o \in Objects |-> IF o \in S THEN Mesh(o, look) ELSE drawn[o]]

Structural(pass) == \E o \in Objects : pass[o].look # drawn[o].look

Record(S) == [o \in Objects |-> IF o \in S THEN store[o] ELSE synced[o]]

\* updateSceneGraph() makes the selection look for its object again.
Graph(pass, left) == due' = IF Structural(pass) THEN left \cup {"selection"} ELSE left

-----------------------------------------------------------------------------
(* React renders: layout effects in order, then the selection's effect.    *)

\* useCarMeshSync; a car's lidars go with its mesh.
CarPass ==
  IF "car" \in due /\ model["car"] = "ready"
  THEN [o \in Objects |->
          IF o \in Cars THEN Mesh(o, "model")
          ELSE IF o \in Lidars /\ store[CarOf[o]] = 0 THEN Absent ELSE drawn[o]]
  ELSE drawn

CarRecord ==
  IF "car" \in due /\ model["car"] = "ready" THEN Record(Cars) ELSE synced

\* The other hooks start over when their slice has changed; the lidars' also
\* when the cars have.
Started(k) == k \in due \/ (k = "lidar" /\ "car" \in due)

Restarted == jobs \cup {k \in Kinds \ {"car"} : Started(k)}

\* useSelectionSceneSync, which runs after structural changes too.
Selection(pass) ==
  IF "selection" \in due \/ Structural(pass)
  THEN IF selected # NoOne /\ pass[selected].look # "none" THEN selected ELSE NoOne
  ELSE gizmo

Render ==
  /\ due # {}
  /\ drawn' = CarPass
  /\ synced' = CarRecord
  /\ jobs' = Restarted
  /\ gizmo' = Selection(CarPass)
  /\ attach' = IF due \cap {"car", "selection"} # {} /\ selected \in Cars
                  /\ CarPass[selected].look # "none"
               THEN selected ELSE attach
  /\ due' = {}
  /\ late' = {k \in late : ~Started(k)}
  /\ model' = IF "pedestrian" \in due /\ model["pedestrian"] = "failed"
              THEN [model EXCEPT !["pedestrian"] = "loading"] ELSE model
  /\ UNCHANGED <<store, dragging, mode, selected, hand, ops>>

\* Seeded bug: the timer does not look at the selection again.
AttachAnyway ==
  /\ attach # NoOne
  /\ gizmo' = attach
  /\ attach' = NoOne
  /\ UNCHANGED <<store, drawn, synced, model, due, jobs, dragging, mode, selected, late, hand, ops>>

\* 50 ms after a sync with a car selected.  The mesh of that sync is the car's
\* still, or gone: no id is used again as long as its timer runs (Add, Undo).
Attach ==
  /\ attach # NoOne
  /\ gizmo' = IF selected = attach THEN attach ELSE gizmo
  /\ attach' = NoOne
  /\ UNCHANGED <<store, drawn, synced, model, due, jobs, dragging, mode, selected, late, hand, ops>>

-----------------------------------------------------------------------------
(* The asynchronous hooks.  A job is dropped when its slice changes, so what *)
(* it read of the store when it started is what the store holds.             *)

Current(k) == k \in jobs /\ ~Started(k)

\* ensureRsuModel() has answered; the RSUs are read from the store now.
RsuSync ==
  /\ Current("rsu") /\ model["rsu"] # "loading"
  /\ LET look == IF model["rsu"] = "ready" THEN "model" ELSE "fallback"
         pass == Pass(Rsus, look) IN
     /\ drawn' = pass
     /\ gizmo' = LeavesMesh(Rsus, pass)
     /\ Graph(pass, due)
     /\ synced' = IF look = "model" THEN Record(Rsus) ELSE synced
  /\ jobs' = jobs \ {"rsu"}
  /\ UNCHANGED <<store, model, dragging, mode, selected, late, attach, hand, ops>>

\* The building's model is there before the attempts run out.
BuildingSync ==
  /\ Current("building") /\ model["building"] = "ready"
  /\ LET pass == Pass(Buildings, "model") IN
     /\ drawn' = pass
     /\ gizmo' = LeavesMesh(Buildings, pass)
     /\ Graph(pass, due)
  /\ synced' = Record(Buildings)
  /\ jobs' = jobs \ {"building"}
  /\ UNCHANGED <<store, model, dragging, mode, selected, late, attach, hand, ops>>

\* Twenty attempts, two seconds.
BuildingGivesUp ==
  /\ "building" \in jobs /\ model["building"] = "loading"
  /\ jobs' = jobs \ {"building"}
  /\ late' = late \cup {"building"}
  /\ UNCHANGED <<store, drawn, synced, model, due, gizmo, dragging, mode, selected, attach, hand, ops>>

\* The mesh of a pedestrian that is gone stays while it has the gizmo; without
\* the model nothing new is drawn.
PedestrianMesh(o) ==
  IF store[o] = 0 /\ gizmo = o THEN drawn[o]
  ELSE IF drawn[o].look = "none" /\ model["pedestrian"] # "ready" THEN Absent
  ELSE Mesh(o, "model")

PedestrianSync ==
  /\ Current("pedestrian") /\ model["pedestrian"] # "loading"
  /\ LET pass == [o \in Objects |-> IF o \in Pedestrians THEN PedestrianMesh(o)
                                    ELSE drawn[o]] IN
     /\ drawn' = pass
     /\ Graph(pass, due)
     /\ synced' = [o \in Objects |->
                     IF o \in Pedestrians /\ pass[o].look # "none" THEN store[o] ELSE synced[o]]
  /\ jobs' = jobs \ {"pedestrian"}
  /\ late' = IF model["pedestrian"] = "ready" THEN late
              ELSE late \cup {"pedestrian"}
  /\ UNCHANGED <<store, model, gizmo, dragging, mode, selected, attach, hand, ops>>

\* A lidar is drawn in the mesh of its car, if that is there.
LidarMesh(o) ==
  IF drawn[CarOf[o]].look = "none" THEN Absent ELSE Mesh(o, "model")

LidarSync ==
  /\ Current("lidar")
  /\ LET pass == [o \in Objects |-> IF o \in Lidars THEN LidarMesh(o) ELSE drawn[o]] IN
     /\ drawn' = pass
     /\ Graph(pass, due)
     /\ synced' = [o \in Objects |->
                     IF o \in Lidars /\ pass[o].look # "none" THEN store[o] ELSE synced[o]]
  /\ jobs' = jobs \ {"lidar"}
  /\ late' = IF model["car"] = "loading" /\ model["lidar"] = "ready"
              THEN late \cup {"lidar"} ELSE late
  /\ UNCHANGED <<store, model, gizmo, dragging, mode, selected, attach, hand, ops>>

\* restoreLidars, once, 100 ms after the map was built: lidars whose car is
\* drawn by then.
RestoreLidars ==
  /\ model["lidar"] = "loading"
  /\ model' = [model EXCEPT !["lidar"] = "ready"]
  /\ drawn' = [o \in Objects |->
       IF o \in Lidars /\ store[o] # 0 /\ drawn[o].look = "none"
          /\ drawn[CarOf[o]].look # "none"
       THEN Fresh(o, "model") ELSE drawn[o]]
  /\ Graph(drawn', due)
  /\ late' = IF model["car"] = "ready" THEN late ELSE late \cup {"lidar"}
  /\ UNCHANGED <<store, synced, jobs, gizmo, dragging, mode, selected, attach, hand, ops>>

-----------------------------------------------------------------------------
(* Models arrive.                                                          *)

\* Only the cars' model makes React render.  The lidars of cars drawn late wait
\* for the next change of a lidar or car, or for restoreLidars.
CarModel ==
  /\ model["car"] = "loading"
  /\ model' = [model EXCEPT !["car"] = "ready"]
  /\ drawn' = [o \in Objects |-> IF o \in Cars THEN Mesh(o, "model") ELSE drawn[o]]
  /\ synced' = Record(Cars)
  /\ Graph(drawn', due)
  /\ UNCHANGED <<store, jobs, gizmo, dragging, mode, selected, late, attach, hand, ops>>

\* The building's loader falls back to a box; a failed RSU model is not asked
\* for again, a failed pedestrian model at the next sync.
OtherModel(k) ==
  /\ k \in {"pedestrian", "rsu", "building"} /\ model[k] = "loading"
  /\ \E result \in {"ready", "failed"} :
       /\ result = "failed" => k # "building"
       /\ model' = [model EXCEPT ![k] = result]
  /\ UNCHANGED <<store, drawn, synced, due, jobs, gizmo, dragging, mode, selected, late, attach, hand, ops>>

-----------------------------------------------------------------------------
(* The user and the store.                                                 *)

\* React renders, and the syncs that wait for no model are through, before the
\* next event; between the moves of a drag the lidars' zero timer may be late.
Rendered == due = {} /\ \A k \in jobs \ {"lidar"} : model[k] = "loading"
Resting == Rendered /\ "lidar" \notin jobs
CanAct == Resting /\ ops < MaxOps /\ ops' = ops + 1

Changed(S) == due' = due \cup {KindOf[o] : o \in S}

WithLidars(o) == {o} \cup {l \in Lidars : CarOf[l] = o}

\* A panel or a batch operation writes an object.
Update(o) ==
  /\ CanAct
  /\ store[o] \in 1..(MaxVer - 1) /\ ~dragging
  /\ (o \in Lidars /\ o \in {gizmo, selected}) => Typed
  /\ store' = [store EXCEPT ![o] = @ + 1]
  /\ Changed({o})
  /\ hand' = hand \ {o}
  /\ UNCHANGED <<drawn, synced, model, jobs, gizmo, dragging, mode, selected, late, attach>>

\* The route alignment, if the user has asked for it, turns a car to its first
\* waypoint: after any change of the cars or points, the moves of a drag too.
Align(o) ==
  /\ Rendered
  /\ o \in Cars /\ store[o] \in 1..(MaxVer - 1)
  /\ store' = [store EXCEPT ![o] = @ + 1]
  /\ Changed({o})
  /\ hand' = IF Held(o) /\ mode # "translate" THEN hand \cup {o} ELSE hand \ {o}
  /\ UNCHANGED <<drawn, synced, model, jobs, gizmo, dragging, mode, selected, late, attach, ops>>

\* A click or a double click adds an object; a new car is selected.  Its id is
\* new: no timer waits for it.
Add(o) ==
  /\ CanAct
  /\ store[o] = 0 /\ attach # o /\ ~dragging
  /\ o \in Lidars => store[CarOf[o]] # 0
  /\ store' = [store EXCEPT ![o] = 1]
  /\ due' = due \cup {KindOf[o]} \cup (IF o \in Cars THEN {"selection"} ELSE {})
  /\ selected' = IF o \in Cars THEN o ELSE selected
  /\ hand' = hand \ {o}
  /\ UNCHANGED <<drawn, synced, model, jobs, gizmo, dragging, mode, late, attach>>

\* Deleting and undoing first take the gizmo and the selection away.
LetGo == gizmo' = NoOne /\ selected' = NoOne

Delete(o) ==
  /\ CanAct
  /\ store[o] # 0
  /\ LetGo
  /\ store' = [x \in Objects |-> IF x \in WithLidars(o) THEN 0 ELSE store[x]]
  /\ due' = due \cup {KindOf[o], "selection"}
                \cup (IF o \in Cars THEN {"lidar"} ELSE {})
  /\ hand' = hand \ WithLidars(o)
  /\ UNCHANGED <<drawn, synced, model, jobs, dragging, mode, late, attach>>

\* Ctrl+Z and Ctrl+Y, also during a drag: an object comes back (no timer waits for
\* it any more), changes or goes.
Undo(o) ==
  /\ CanAct
  /\ o \in Lidars => store[CarOf[o]] # 0
  /\ store[o] = 0 => attach # o
  /\ LetGo
  /\ \E v \in (0..MaxVer) \ {store[o]} :
       store' = [x \in Objects |->
                   IF x = o THEN v
                   ELSE IF v = 0 /\ x \in WithLidars(o) THEN 0 ELSE store[x]]
  /\ due' = due \cup {KindOf[o], "selection"}
                \cup (IF o \in Cars THEN {"lidar"} ELSE {})
  /\ hand' = hand \ (IF store'[o] = 0 THEN WithLidars(o) ELSE {o})
  /\ UNCHANGED <<drawn, synced, model, jobs, dragging, mode, late, attach>>

Select(o) ==
  /\ Resting
  /\ ~dragging /\ selected # o
  /\ o # NoOne => store[o] # 0 /\ drawn[o].look # "none"
  /\ selected' = o
  /\ due' = {"selection"}
  /\ UNCHANGED <<store, drawn, synced, model, jobs, gizmo, dragging, mode, late, attach, hand, ops>>

\* clearScene: groups leave the scene, fallbacks only with the next sync.
ClearScene ==
  /\ CanAct
  /\ store' = [o \in Objects |-> 0]
  /\ drawn' = [o \in Objects |-> IF drawn[o].look = "fallback" THEN drawn[o] ELSE Absent]
  /\ LetGo
  /\ due' = Kinds \cup {"selection"}
  /\ hand' = {}
  /\ UNCHANGED <<synced, model, jobs, dragging, mode, late, attach>>

-----------------------------------------------------------------------------
(* Dragging.                                                               *)

DragStart ==
  /\ Resting
  /\ ~dragging
  /\ gizmo # NoOne
  /\ dragging' = TRUE
  /\ mode' \in Modes
  /\ UNCHANGED <<store, drawn, synced, model, due, jobs, gizmo, selected, late, attach, hand, ops>>

\* What a drag does and the store does not take: a pedestrian is drawn above its
\* stored height, yet the height it is drawn at is stored; of a car or building
\* scaled along one axis one factor is stored.
Unwritten(o) ==
  CASE o \in Pedestrians -> {{"height"}}
    [] o \in Cars \cup Buildings ->
         IF mode = "scale" THEN {{}, {"scale"}} ELSE {drawn[o].off \cap {"scale"}}
    [] OTHER -> {{}}

\* The mesh moves and what it is then is written to the store.
DragMove ==
  /\ Rendered
  /\ dragging /\ gizmo # NoOne
  /\ store[gizmo] \in 1..(MaxVer - 1)
  /\ store' = [store EXCEPT ![gizmo] = @ + 1]
  /\ \E off \in Unwritten(gizmo) :
       drawn' = [drawn EXCEPT
                   ![gizmo] = [ver |-> store[gizmo] + 1, look |-> @.look, off |-> off]]
  /\ hand' = hand \cup {gizmo}
  /\ Changed({gizmo})
  /\ UNCHANGED <<synced, model, jobs, gizmo, dragging, mode, selected, late, attach, ops>>

\* The frame after the pointer was released; the next drag has a mode of its own.
DragEnd ==
  /\ dragging
  /\ dragging' = FALSE
  /\ mode' = "translate"
  /\ UNCHANGED <<store, drawn, synced, model, due, jobs, gizmo, selected, late, attach, hand, ops>>

-----------------------------------------------------------------------------
Hooks == Render \/ RsuSync \/ BuildingSync \/ PedestrianSync \/ LidarSync \/ RestoreLidars
Loaders == CarModel \/ \E k \in Kinds : OtherModel(k)

Next ==
  \/ Hooks \/ Attach \/ BuildingGivesUp
  \/ Loaders
  \/ \E o \in Objects : Update(o) \/ Align(o) \/ Add(o) \/ Delete(o) \/ Undo(o)
  \/ \E o \in Objects \cup {NoOne} : Select(o)
  \/ ClearScene
  \/ DragStart \/ DragMove \/ DragEnd

Spec == Init /\ [][Next]_vars

-----------------------------------------------------------------------------
(* Properties.                                                             *)

TypeOK ==
  /\ store \in [Objects -> 0..MaxVer]
  /\ drawn \in [Objects -> [ver : 0..MaxVer, look : {"none", "model", "fallback"},
                            off : SUBSET Parts]]
  /\ synced \in [Objects -> 0..MaxVer]
  /\ model \in [Kinds -> {"loading", "ready", "failed"}]
  /\ due \subseteq Kinds \cup {"selection"}
  /\ jobs \subseteq Kinds \ {"car"}
  /\ gizmo \in Objects \cup {NoOne}
  /\ selected \in Objects \cup {NoOne}
  /\ late \subseteq Kinds
  /\ attach \in Cars \cup {NoOne}
  /\ dragging \in BOOLEAN
  /\ mode \in Modes
  /\ hand \subseteq Objects
  /\ ops \in 0..MaxOps

Loaded == \A k \in Kinds : model[k] # "loading"
Quiet == due = {} /\ ~dragging /\ Loaded /\ jobs = {}

\* An object is drawn in the version the store has, and exactly so unless it was
\* in the user's hand when it changed last.
Shown(o) ==
  /\ drawn[o].ver = store[o]
  /\ drawn[o].off # {} => o \in hand

\* When nothing is due, nothing is drawn that is gone, and the scene shows what
\* the store holds, but for the kinds that were given up, whatever order renders,
\* promises, timers and models came in.
SceneShowsTheStore ==
  Quiet => \A o \in Objects :
    /\ store[o] = 0 => drawn[o].look = "none"
    /\ KindOf[o] \in late \/ Shown(o)

\* The transform controls hold a mesh of the scene.
GizmoInScene == gizmo # NoOne => drawn[gizmo].look # "none"

\* No sync, timer or render takes the object the user drags out of the hand or
\* puts another one there.
DragKeepsItsObject ==
  [][dragging /\ dragging' /\ ops' = ops => gizmo' = gizmo]_vars

=============================================================================
