--------------------------- MODULE MeshSyncProofs ---------------------------
(***************************************************************************)
(* Proofs about MeshSync for any objects, any scenes and any bounds.  The  *)
(* gizmo's hold on its object rests on seven facts that relate the store,  *)
(* the meshes, the models and the selection: IInv.  That the scene shows   *)
(* the store when nothing is due is the second part: as long as the panel  *)
(* does not edit a lidar that has the gizmo.                               *)
(***************************************************************************)
EXTENDS MeshSync, TLAPS

\* A lidar of the store is mounted on a car of the store.
LidarsHaveCars == \A o \in Lidars : store[o] # 0 => store[CarOf[o]] # 0

\* What is selected, or held by the gizmo, is in the store; the held has a mesh.
SelectedIsThere == selected # NoOne => store[selected] # 0
HeldIsThere == gizmo # NoOne => store[gizmo] # 0 /\ drawn[gizmo].look # "none"

\* The car the timer waits for, if still selected, has a mesh.
AwaitedIsDrawn ==
  attach # NoOne /\ selected = attach => drawn[attach].look # "none"

\* A lidar is drawn in its car.
LidarsAreInCars ==
  \A o \in Lidars : drawn[o].look # "none" => drawn[CarOf[o]].look # "none"

\* Each look is the one its model calls for.
LooksFollowModels ==
  /\ \A o \in Objects \ Rsus : drawn[o].look # "fallback"
  /\ \A o \in Rsus :
       /\ drawn[o].look = "model" => model["rsu"] = "ready"
       /\ drawn[o].look = "fallback" => model["rsu"] = "failed"
  /\ model["car"] = "loading" => \A o \in Cars : drawn[o].look = "none"

\* The gizmo is on the selected object, or the selection's effect is due.
GizmoFollowsSelection ==
  /\ gizmo \in {selected, NoOne} \/ "selection" \in due
  /\ dragging => gizmo = selected

IInv ==
  /\ TypeOK
  /\ LidarsHaveCars /\ SelectedIsThere /\ HeldIsThere
  /\ AwaitedIsDrawn /\ LidarsAreInCars /\ LooksFollowModels
  /\ GizmoFollowsSelection

-----------------------------------------------------------------------------
(* Facts about the objects and the passes.                                 *)

\* The kinds are five, and no object is of two.
LEMMA KindsFacts ==
  /\ Kinds = {"car", "lidar", "pedestrian", "rsu", "building"}
  /\ Of["car"] = Cars /\ Of["lidar"] = Lidars /\ Of["pedestrian"] = Pedestrians
  /\ Of["rsu"] = Rsus /\ Of["building"] = Buildings
<1> QED BY DEF Kinds, Of

LEMMA KindsApart ==
  /\ Cars \cap Lidars = {} /\ Cars \cap Pedestrians = {} /\ Cars \cap Rsus = {}
  /\ Cars \cap Buildings = {} /\ Lidars \cap Pedestrians = {}
  /\ Lidars \cap Rsus = {} /\ Lidars \cap Buildings = {}
  /\ Pedestrians \cap Rsus = {}
  /\ Pedestrians \cap Buildings = {} /\ Rsus \cap Buildings = {}
<1>1. \A k, m \in Kinds : k # m => Of[k] \cap Of[m] = {}
  BY ObjectAssumption
<1> QED BY <1>1, KindsFacts

\* The kind of an object is one of the five.
LEMMA KindType == \A o \in Objects : KindOf[o] \in Kinds
<1> TAKE o \in Objects
<1>1. \E k \in Kinds : o \in Of[k]
  BY KindsFacts DEF Objects
<1>2. KindOf[o] = CHOOSE k \in Kinds : o \in Of[k]
  BY DEF KindOf
<1> QED BY <1>1, <1>2

\* A lidar and its car are objects.
LEMMA LidarFacts ==
  \A o \in Lidars : o \in Objects /\ CarOf[o] \in Cars /\ CarOf[o] \in Objects
<1> QED BY ObjectAssumption DEF Objects

\* The type of a mesh.
Meshes == [ver : 0..MaxVer, look : {"none", "model", "fallback"}, off : SUBSET Parts]

\* A mesh in the hand keeps its look, a car there takes the version of the store.
LEMMA InHandFacts ==
  ASSUME TypeOK, NEW o \in Objects
  PROVE  /\ InHand(o) \in Meshes /\ InHand(o).look = drawn[o].look
         /\ o \notin Cars => InHand(o) = drawn[o]
         /\ o \in Cars => InHand(o).ver = store[o]
         /\ InHand(o).off \subseteq drawn[o].off \cup {"turn"}
         /\ "turn" \in InHand(o).off /\ drawn[o].off = {} =>
              o \in Cars /\ mode = "rotate" /\ drawn[o].ver # store[o]
         /\ o \in Cars /\ mode = "translate" => InHand(o).off = {}
<1>1. drawn[o] \in Meshes BY DEF TypeOK, Meshes
<1>2. store[o] \in 0..MaxVer BY DEF TypeOK
<1>3. CASE o \notin Cars BY <1>1, <1>3 DEF InHand
<1>4. CASE o \in Cars
  <2> DEFINE off == CASE mode = "translate" -> {}
                      [] mode = "rotate" -> IF drawn[o].ver # store[o] THEN {"turn"}
                                            ELSE drawn[o].off \cap {"turn"}
                      [] mode = "scale" -> drawn[o].off \cap {"scale"}
  <2>1. InHand(o) = [drawn[o] EXCEPT !.ver = store[o], !.off = off]
    BY <1>4 DEF InHand
  <2>2. mode \in {"translate", "rotate", "scale"} BY DEF TypeOK, Modes
  <2>3. /\ off \subseteq drawn[o].off \cup {"turn"}
        /\ "turn" \in off /\ drawn[o].off = {} =>
             mode = "rotate" /\ drawn[o].ver # store[o]
        /\ mode = "translate" => off = {}
    BY <2>2
  <2>4. off \in SUBSET Parts BY <1>1, <2>3 DEF Meshes, Parts
  <2> HIDE DEF off
  <2>5. /\ InHand(o).ver = store[o] /\ InHand(o).look = drawn[o].look
        /\ InHand(o).off = off /\ InHand(o) \in Meshes
    BY <1>1, <1>2, <2>1, <2>4 DEF Meshes
  <2> QED BY <1>4, <2>3, <2>5
<1> QED BY <1>3, <1>4

\* A mesh after a pass has the type of a mesh, and is there, in the look asked
\* for, exactly if the object is in the store.
LEMMA MeshFacts ==
  ASSUME TypeOK, NEW o \in Objects, NEW look \in {"model", "fallback"}
  PROVE  /\ Mesh(o, look) \in Meshes
         /\ store[o] = 0 => Mesh(o, look).look = "none"
         /\ store[o] # 0 => Mesh(o, look).look = look
<1>1. drawn[o] \in Meshes
  BY DEF TypeOK, Meshes
<1>2. store[o] \in 0..MaxVer /\ 0 \in 0..MaxVer
  BY BoundAssumption DEF TypeOK
<1>3. InHand(o) \in Meshes /\ InHand(o).look = drawn[o].look
  BY <1>1, <1>2, InHandFacts
<1>4. Fresh(o, look) \in Meshes /\ Fresh(o, look).look = look
  BY <1>2 DEF Fresh, Meshes
<1>5. Absent \in Meshes /\ Absent.look = "none"
  BY <1>2 DEF Absent, Meshes
<1> QED BY <1>1, <1>3, <1>4, <1>5 DEF Mesh

\* The pass of the cars at a render: what it leaves of each mesh.
LEMMA CarPassFacts ==
  ASSUME TypeOK, NEW o \in Objects
  PROVE  /\ CarPass[o] \in Meshes
         /\ o \notin Cars \cup Lidars => CarPass[o] = drawn[o]
         /\ CarPass[o].look \in {"none", "model", drawn[o].look}
         /\ (model["car"] = "loading") => CarPass[o] = drawn[o]
<1>1. Mesh(o, "model") \in Meshes
  BY MeshFacts
<1>2. Mesh(o, "model").look \in {"none", "model"}
  BY MeshFacts DEF TypeOK, Meshes
<1>3. drawn[o] \in Meshes
  BY DEF TypeOK, Meshes
<1>4. Absent \in Meshes /\ Absent.look = "none"
  BY BoundAssumption DEF Absent, Meshes
<1> QED BY <1>1, <1>2, <1>3, <1>4 DEF CarPass

\* It takes no mesh of an object of the store whose car is in the store.
LEMMA CarPassKeeps ==
  ASSUME TypeOK, NEW o \in Objects, store[o] # 0, drawn[o].look # "none",
         o \in Lidars => store[CarOf[o]] # 0
  PROVE  CarPass[o].look # "none"
<1>1. Mesh(o, "model").look # "none"
  BY MeshFacts
<1> QED BY <1>1, KindsApart DEF CarPass

\* The lidars it leaves are in cars it leaves.
LEMMA CarPassTogether ==
  ASSUME TypeOK, LidarsAreInCars, NEW o \in Lidars, CarPass[o].look # "none"
  PROVE  CarPass[CarOf[o]].look # "none"
<1>1. CarOf[o] \in Cars /\ o \in Objects /\ CarOf[o] \in Objects
  BY ObjectAssumption DEF Objects
<1>2. drawn[CarOf[o]].look # "none"
  BY <1>1, KindsApart DEF CarPass, Absent, LidarsAreInCars
<1>3. store[CarOf[o]] # 0 => Mesh(CarOf[o], "model").look # "none"
  BY <1>1, MeshFacts
<1> QED BY <1>1, <1>2, <1>3, KindsApart DEF CarPass, Absent

-----------------------------------------------------------------------------
(* One lemma per action: it keeps the invariant and, while the user drags,  *)
(* the hold on the object.                                                 *)

Keeps == dragging /\ dragging' /\ ops' = ops => gizmo' = gizmo

\* The timer gives the gizmo to the car it waited for, if that is selected still.
LEMMA AttachStep ==
  ASSUME IInv, Attach PROVE IInv' /\ Keeps
<1> USE DEF IInv
<1>1. TypeOK'
  BY DEF TypeOK, Attach
<1>2. HeldIsThere'
  BY DEF HeldIsThere, SelectedIsThere, AwaitedIsDrawn, Attach
<1>3. AwaitedIsDrawn'
  BY DEF AwaitedIsDrawn, Attach
<1>4. GizmoFollowsSelection'
  BY DEF GizmoFollowsSelection, Attach
<1>5. LidarsHaveCars' /\ SelectedIsThere' /\ LidarsAreInCars'
      /\ LooksFollowModels'
  BY DEF LidarsHaveCars, SelectedIsThere, LidarsAreInCars,
     LooksFollowModels, Attach
<1>6. Keeps
  BY DEF Keeps, GizmoFollowsSelection, Attach
<1> QED BY <1>1, <1>2, <1>3, <1>4, <1>5, <1>6

LEMMA BuildingGivesUpStep ==
  ASSUME IInv, BuildingGivesUp PROVE IInv' /\ Keeps
<1> USE DEF IInv
<1>1. TypeOK'
  BY DEF TypeOK, BuildingGivesUp
<1>2. LidarsHaveCars' /\ SelectedIsThere' /\ HeldIsThere' /\ AwaitedIsDrawn'
      /\ LidarsAreInCars' /\ LooksFollowModels'
      /\ GizmoFollowsSelection'
  BY DEF LidarsHaveCars, SelectedIsThere, HeldIsThere, AwaitedIsDrawn,
     LidarsAreInCars, LooksFollowModels, GizmoFollowsSelection,
     BuildingGivesUp
<1>3. Keeps
  BY DEF Keeps, BuildingGivesUp
<1> QED BY <1>1, <1>2, <1>3

LEMMA OtherModelStep ==
  ASSUME IInv, NEW k \in Kinds, OtherModel(k) PROVE IInv' /\ Keeps
<1> USE DEF IInv
<1>1. TypeOK'
  BY DEF TypeOK, OtherModel
<1>2. LooksFollowModels'
  BY DEF LooksFollowModels, TypeOK, OtherModel
<1>3. LidarsHaveCars' /\ SelectedIsThere' /\ HeldIsThere' /\ AwaitedIsDrawn'
      /\ LidarsAreInCars' /\ GizmoFollowsSelection'
  BY DEF LidarsHaveCars, SelectedIsThere, HeldIsThere, AwaitedIsDrawn,
     LidarsAreInCars, GizmoFollowsSelection, OtherModel
<1>4. Keeps
  BY DEF Keeps, OtherModel
<1> QED BY <1>1, <1>2, <1>3, <1>4

\* Nothing is due when a drag starts, so the gizmo is on the selected object.
LEMMA DragStartStep ==
  ASSUME IInv, DragStart PROVE IInv' /\ Keeps
<1> USE DEF IInv
<1>1. TypeOK'
  BY DEF TypeOK, DragStart
<1>2. GizmoFollowsSelection'
  BY DEF GizmoFollowsSelection, DragStart, Resting, Rendered
<1>3. LidarsHaveCars' /\ SelectedIsThere' /\ HeldIsThere' /\ AwaitedIsDrawn'
      /\ LidarsAreInCars' /\ LooksFollowModels'
  BY DEF LidarsHaveCars, SelectedIsThere, HeldIsThere, AwaitedIsDrawn,
     LidarsAreInCars, LooksFollowModels, DragStart
<1>4. Keeps
  BY DEF Keeps, DragStart
<1> QED BY <1>1, <1>2, <1>3, <1>4

LEMMA DragEndStep ==
  ASSUME IInv, DragEnd PROVE IInv' /\ Keeps
<1> USE DEF IInv
<1>1. TypeOK'
  BY DEF TypeOK, DragEnd, Modes
<1>2. GizmoFollowsSelection'
  BY DEF GizmoFollowsSelection, DragEnd
<1>3. LidarsHaveCars' /\ SelectedIsThere' /\ HeldIsThere' /\ AwaitedIsDrawn'
      /\ LidarsAreInCars' /\ LooksFollowModels'
  BY DEF LidarsHaveCars, SelectedIsThere, HeldIsThere, AwaitedIsDrawn,
     LidarsAreInCars, LooksFollowModels, DragEnd
<1>4. Keeps
  BY DEF Keeps, DragEnd
<1> QED BY <1>1, <1>2, <1>3, <1>4

\* What a move leaves of the mesh has a type, and its look is kept.
LEMMA UnwrittenFacts ==
  ASSUME TypeOK, NEW o \in Objects, NEW off \in Unwritten(o)
  PROVE  /\ off \subseteq Parts
         /\ off # {} => o \in Pedestrians \cup Cars \cup Buildings
<1>1. drawn[o] \in Meshes BY DEF TypeOK, Meshes
<1>2. drawn[o].off \subseteq Parts BY <1>1 DEF Meshes
<1>3. CASE o \in Pedestrians BY <1>3 DEF Unwritten, Parts
<1>4. CASE o \notin Pedestrians /\ o \in Cars \cup Buildings
  <2>1. off \in IF mode = "scale" THEN {{}, {"scale"}} ELSE {drawn[o].off \cap {"scale"}}
    BY <1>4 DEF Unwritten
  <2> QED BY <1>2, <1>4, <2>1 DEF Parts
<1>5. CASE o \notin Pedestrians \cup Cars \cup Buildings
  BY <1>5 DEF Unwritten
<1> QED BY <1>3, <1>4, <1>5

LEMMA DragMoveFacts ==
  ASSUME TypeOK, DragMove
  PROVE  /\ gizmo \in Objects
         /\ \E off \in Unwritten(gizmo) :
              drawn' = [drawn EXCEPT ![gizmo] = [ver |-> store[gizmo] + 1,
                                                 look |-> drawn[gizmo].look, off |-> off]]
         /\ store[gizmo] + 1 \in 0..MaxVer
         /\ drawn' \in [Objects -> Meshes]
         /\ \A o \in Objects : drawn'[o].look = drawn[o].look
<1>1. gizmo \in Objects /\ store[gizmo] \in 1..(MaxVer - 1)
  BY DEF DragMove, TypeOK
<1>2. drawn \in [Objects -> Meshes] BY DEF TypeOK, Meshes
<1>3. PICK off \in Unwritten(gizmo) :
        drawn' = [drawn EXCEPT ![gizmo] =
                    [ver |-> store[gizmo] + 1, look |-> drawn[gizmo].look, off |-> off]]
  BY <1>1, <1>2 DEF DragMove
<1> DEFINE mesh == [ver |-> store[gizmo] + 1, look |-> drawn[gizmo].look, off |-> off]
<1>5. drawn' = [drawn EXCEPT ![gizmo] = mesh]
  BY <1>3
<1>6. store[gizmo] + 1 \in 0..MaxVer
  BY <1>1, BoundAssumption
<1>7. off \in SUBSET Parts BY <1>1, UnwrittenFacts
<1>8. mesh \in Meshes /\ mesh.look = drawn[gizmo].look
  BY <1>1, <1>2, <1>6, <1>7 DEF Meshes
<1> HIDE DEF mesh
<1>9. drawn' \in [Objects -> Meshes] /\ \A o \in Objects : drawn'[o].look = drawn[o].look
  BY <1>1, <1>2, <1>5, <1>8
<1> QED BY <1>1, <1>5, <1>6, <1>9 DEF mesh

LEMMA DragMoveStep ==
  ASSUME IInv, DragMove PROVE IInv' /\ Keeps
<1> USE DEF IInv
<1>0. TypeOK BY DEF IInv
<1>1. TypeOK'
  <2>1. drawn' \in [Objects -> Meshes] /\ store[gizmo] + 1 \in 0..MaxVer
    BY <1>0, DragMoveFacts
  <2>2. store' \in [Objects -> 0..MaxVer] BY <2>1 DEF TypeOK, DragMove
  <2>3. due' \subseteq Kinds \cup {"selection"} /\ hand' \subseteq Objects
    BY <1>0, DragMoveFacts, KindType DEF TypeOK, DragMove, Changed
  <2> QED BY <2>1, <2>2, <2>3 DEF TypeOK, DragMove, Meshes
<1>a. \A o \in Objects : drawn'[o].look = drawn[o].look BY <1>0, DragMoveFacts
<1>2. LidarsHaveCars'
  BY LidarFacts DEF LidarsHaveCars, TypeOK, DragMove
<1>3. SelectedIsThere'
  BY DEF SelectedIsThere, TypeOK, DragMove
<1>4. HeldIsThere'
  BY <1>a DEF HeldIsThere, TypeOK, DragMove
<1>5. AwaitedIsDrawn'
  BY <1>a, ObjectAssumption DEF AwaitedIsDrawn, TypeOK, DragMove, Objects
<1>6. LidarsAreInCars'
  BY <1>a, LidarFacts DEF LidarsAreInCars, TypeOK, DragMove
<1>7. LooksFollowModels'
  <2>1. Cars \subseteq Objects /\ Rsus \subseteq Objects BY DEF Objects
  <2> QED BY <1>a, <2>1 DEF LooksFollowModels, DragMove
<1>8. GizmoFollowsSelection'
  BY DEF GizmoFollowsSelection, DragMove
<1>9. Keeps
  BY DEF Keeps, DragMove
<1> QED BY <1>1, <1>2, <1>3, <1>4, <1>5, <1>6, <1>7, <1>8, <1>9

LEMMA SelectStep ==
  ASSUME IInv, NEW o \in Objects \cup {NoOne}, Select(o) PROVE IInv' /\ Keeps
<1> USE DEF IInv
<1>1. TypeOK'
  BY DEF TypeOK, Select
<1>2. SelectedIsThere'
  BY DEF SelectedIsThere, Select
<1>3. AwaitedIsDrawn'
  BY DEF AwaitedIsDrawn, Select
<1>4. GizmoFollowsSelection'
  BY DEF GizmoFollowsSelection, Select
<1>5. LidarsHaveCars' /\ HeldIsThere' /\ LidarsAreInCars'
      /\ LooksFollowModels'
  BY DEF LidarsHaveCars, HeldIsThere, LidarsAreInCars, LooksFollowModels,
     Select
<1>6. Keeps
  BY DEF Keeps, Select
<1> QED BY <1>1, <1>2, <1>3, <1>4, <1>5, <1>6

LEMMA UpdateStep ==
  ASSUME IInv, NEW o \in Objects, Update(o) PROVE IInv' /\ Keeps
<1> USE DEF IInv
<1>1. TypeOK'
  BY BoundAssumption, KindType DEF TypeOK, Update, Changed, CanAct
<1>2. LidarsHaveCars'
  BY LidarFacts DEF LidarsHaveCars, TypeOK, Update
<1>3. SelectedIsThere'
  BY DEF SelectedIsThere, TypeOK, Update
<1>4. HeldIsThere'
  BY DEF HeldIsThere, TypeOK, Update
<1>5. GizmoFollowsSelection'
  BY DEF GizmoFollowsSelection, Update, CanAct, Resting, Rendered
<1>6. AwaitedIsDrawn' /\ LidarsAreInCars' /\ LooksFollowModels'
  BY DEF AwaitedIsDrawn, LidarsAreInCars, LooksFollowModels, Update
<1>7. Keeps
  BY DEF Keeps, Update
<1> QED BY <1>1, <1>2, <1>3, <1>4, <1>5, <1>6, <1>7

LEMMA AlignStep ==
  ASSUME IInv, NEW o \in Objects, Align(o) PROVE IInv' /\ Keeps
<1> USE DEF IInv
<1>1. TypeOK'
  BY BoundAssumption, KindType DEF TypeOK, Align, Changed
<1>2. LidarsHaveCars'
  BY LidarFacts DEF LidarsHaveCars, TypeOK, Align
<1>3. SelectedIsThere'
  BY DEF SelectedIsThere, TypeOK, Align
<1>4. HeldIsThere'
  BY DEF HeldIsThere, TypeOK, Align
<1>5. GizmoFollowsSelection'
  BY DEF GizmoFollowsSelection, Align, Changed
<1>6. AwaitedIsDrawn' /\ LidarsAreInCars' /\ LooksFollowModels'
  BY DEF AwaitedIsDrawn, LidarsAreInCars, LooksFollowModels, Align
<1>7. Keeps
  BY DEF Keeps, Align
<1> QED BY <1>1, <1>2, <1>3, <1>4, <1>5, <1>6, <1>7

\* A new car is selected before it is drawn; no timer waits for it.
LEMMA AddStep ==
  ASSUME IInv, NEW o \in Objects, Add(o) PROVE IInv' /\ Keeps
<1> USE DEF IInv
<1>1. TypeOK'
  BY BoundAssumption, KindType DEF TypeOK, Add, CanAct
<1>2. LidarsHaveCars'
  BY LidarFacts DEF LidarsHaveCars, TypeOK, Add
<1>3. SelectedIsThere'
  BY DEF SelectedIsThere, TypeOK, Add
<1>4. HeldIsThere'
  BY DEF HeldIsThere, TypeOK, Add
<1>5. AwaitedIsDrawn'
  BY DEF AwaitedIsDrawn, TypeOK, Add
<1>6. GizmoFollowsSelection'
  BY DEF GizmoFollowsSelection, Add
<1>7. LidarsAreInCars' /\ LooksFollowModels'
  BY DEF LidarsAreInCars, LooksFollowModels, Add
<1>8. Keeps
  BY DEF Keeps, Add
<1> QED BY <1>1, <1>2, <1>3, <1>4, <1>5, <1>6, <1>7, <1>8

\* A car goes with its lidars, and nothing is held or selected after.
LEMMA DeleteStep ==
  ASSUME IInv, NEW o \in Objects, Delete(o) PROVE IInv' /\ Keeps
<1> USE DEF IInv
<1>1. TypeOK'
  BY BoundAssumption, KindType, KindsFacts DEF TypeOK, Delete, LetGo,
     CanAct, Resting, Rendered
<1>2. LidarsHaveCars'
  <2> SUFFICES ASSUME NEW m \in Lidars, store'[m] # 0 PROVE store'[CarOf[m]] # 0
    BY DEF LidarsHaveCars
  <2>1. m \in Objects /\ CarOf[m] \in Cars /\ CarOf[m] \in Objects BY LidarFacts
  <2>2. \A x \in Objects : store'[x] = IF x \in WithLidars(o) THEN 0 ELSE store[x]
    BY DEF Delete
  <2>3. m \notin WithLidars(o) /\ store[m] # 0 BY <2>1, <2>2
  <2>4. CarOf[m] \notin WithLidars(o) BY <2>1, <2>3, KindsApart DEF WithLidars
  <2> QED BY <2>1, <2>2, <2>3, <2>4 DEF LidarsHaveCars
<1>3. SelectedIsThere'
  BY DEF SelectedIsThere, Delete, LetGo
<1>4. HeldIsThere'
  BY DEF HeldIsThere, Delete, LetGo
<1>5. AwaitedIsDrawn'
  BY DEF AwaitedIsDrawn, Delete, LetGo
<1>6. GizmoFollowsSelection'
  BY DEF GizmoFollowsSelection, Delete, LetGo
<1>7. LidarsAreInCars' /\ LooksFollowModels'
  BY DEF LidarsAreInCars, LooksFollowModels, Delete
<1>8. Keeps
  BY DEF Keeps, TypeOK, Delete, LetGo, CanAct
<1> QED BY <1>1, <1>2, <1>3, <1>4, <1>5, <1>6, <1>7, <1>8

LEMMA UndoStep ==
  ASSUME IInv, NEW o \in Objects, Undo(o) PROVE IInv' /\ Keeps
<1> USE DEF IInv
<1>1. TypeOK'
  BY BoundAssumption, KindType, KindsFacts DEF TypeOK, Undo, LetGo, CanAct,
     Resting, Rendered
<1>2. LidarsHaveCars'
  <2> SUFFICES ASSUME NEW m \in Lidars, store'[m] # 0 PROVE store'[CarOf[m]] # 0
    BY DEF LidarsHaveCars
  <2>1. m \in Objects /\ CarOf[m] \in Cars /\ CarOf[m] \in Objects BY LidarFacts
  <2>2. PICK v \in (0..MaxVer) \ {store[o]} :
          store' = [x \in Objects |-> IF x = o THEN v
                      ELSE IF v = 0 /\ x \in WithLidars(o) THEN 0 ELSE store[x]]
    BY DEF Undo
  <2>3. CASE m = o
    <3>1. store[CarOf[m]] # 0 BY <2>3 DEF Undo
    <3>2. CarOf[m] # o /\ CarOf[m] \notin WithLidars(o)
      BY <2>1, <2>3, KindsApart DEF WithLidars
    <3> QED BY <2>1, <2>2, <3>1, <3>2
  <2>4. CASE m # o
    <3>1. store[m] # 0 BY <2>1, <2>2, <2>4
    <3>2. store[CarOf[m]] # 0 BY <3>1 DEF LidarsHaveCars
    <3>3. CASE CarOf[m] = o
      <4>1. m \in WithLidars(o) BY <3>3 DEF WithLidars
      <4> QED BY <2>1, <2>2, <2>4, <3>3, <4>1
    <3>4. CASE CarOf[m] # o
      <4>1. CarOf[m] \notin WithLidars(o)
        BY <2>1, <3>4, KindsApart DEF WithLidars
      <4> QED BY <2>1, <2>2, <3>2, <3>4, <4>1
    <3> QED BY <3>3, <3>4
  <2> QED BY <2>3, <2>4
<1>3. SelectedIsThere'
  BY DEF SelectedIsThere, Undo, LetGo
<1>4. HeldIsThere'
  BY DEF HeldIsThere, Undo, LetGo
<1>5. AwaitedIsDrawn'
  BY DEF AwaitedIsDrawn, Undo, LetGo
<1>6. GizmoFollowsSelection'
  BY DEF GizmoFollowsSelection, Undo, LetGo
<1>7. LidarsAreInCars' /\ LooksFollowModels'
  BY DEF LidarsAreInCars, LooksFollowModels, Undo
<1>8. Keeps
  BY DEF Keeps, TypeOK, GizmoFollowsSelection, Undo, LetGo, CanAct, Resting,
     Rendered
<1> QED BY <1>1, <1>2, <1>3, <1>4, <1>5, <1>6, <1>7, <1>8

LEMMA ClearSceneStep ==
  ASSUME IInv, ClearScene PROVE IInv' /\ Keeps
<1> USE DEF IInv
<1>1. TypeOK'
  BY BoundAssumption DEF TypeOK, ClearScene, LetGo, Absent, CanAct
<1>2. LidarsHaveCars'
  BY LidarFacts DEF LidarsHaveCars, ClearScene
<1>3. SelectedIsThere'
  BY DEF SelectedIsThere, ClearScene, LetGo
<1>4. HeldIsThere'
  BY DEF HeldIsThere, ClearScene, LetGo
<1>5. AwaitedIsDrawn'
  BY DEF AwaitedIsDrawn, ClearScene, LetGo
<1>6. LidarsAreInCars'
  BY LidarFacts, KindsApart DEF LidarsAreInCars, LooksFollowModels,
     ClearScene
<1>7. LooksFollowModels'
  BY LidarFacts, KindsApart, KindsFacts
  DEF LooksFollowModels, TypeOK, ClearScene, LetGo, Absent, Objects
<1>8. GizmoFollowsSelection'
  BY DEF GizmoFollowsSelection, ClearScene, LetGo
<1>9. Keeps
  BY DEF Keeps, TypeOK, ClearScene, Absent, CanAct
<1> QED BY <1>1, <1>2, <1>3, <1>4, <1>5, <1>6, <1>7, <1>8, <1>9

-----------------------------------------------------------------------------
(* The hooks' steps.                                                       *)

\* What one pass over a set of objects makes of each mesh.
LEMMA PassFacts ==
  ASSUME TypeOK, NEW S, NEW look \in {"model", "fallback"}, NEW o \in Objects
  PROVE  /\ Pass(S, look)[o] \in Meshes
         /\ o \notin S => Pass(S, look)[o] = drawn[o]
         /\ o \in S => Pass(S, look)[o].look = IF store[o] = 0 THEN "none" ELSE look
<1>1. Pass(S, look)[o] = IF o \in S THEN Mesh(o, look) ELSE drawn[o]
  BY DEF Pass
<1> QED BY <1>1, MeshFacts DEF Meshes, TypeOK

\* A step that draws, and leaves the store, the selection and the drag alone,
\* keeps what the invariant says of them.
Draws ==
  /\ UNCHANGED <<store, selected, dragging, mode, hand, attach, ops>>
  /\ due \subseteq due' /\ due' \subseteq due \cup {"selection"}

LEMMA DrawsKeeps ==
  ASSUME IInv, Draws, gizmo' = gizmo
  PROVE  LidarsHaveCars' /\ SelectedIsThere' /\ GizmoFollowsSelection' /\ Keeps
<1>1. LidarsHaveCars' BY DEF IInv, LidarsHaveCars, Draws
<1>2. SelectedIsThere' BY DEF IInv, SelectedIsThere, Draws
<1>3. GizmoFollowsSelection' BY DEF IInv, GizmoFollowsSelection, Draws
<1> QED BY <1>1, <1>2, <1>3 DEF Keeps

LEMMA GraphDraws ==
  ASSUME NEW pass, Graph(pass, due)
  PROVE  due \subseteq due' /\ due' \subseteq due \cup {"selection"}
<1> QED BY DEF Graph

\* No mesh of the held object, or of a car, is lost, so the rest holds.
LEMMA StaysDrawn ==
  ASSUME IInv, Draws, gizmo' = gizmo,
         gizmo # NoOne => drawn'[gizmo].look # "none",
         \A o \in Cars :
           store[o] # 0 /\ drawn[o].look # "none" => drawn'[o].look # "none"
  PROVE  HeldIsThere' /\ AwaitedIsDrawn'
<1>1. HeldIsThere' BY DEF IInv, HeldIsThere, Draws
<1>2. AwaitedIsDrawn'
  BY ObjectAssumption DEF IInv, AwaitedIsDrawn, SelectedIsThere, Draws, TypeOK
<1> QED BY <1>1, <1>2

LEMMA RsuSyncStep ==
  ASSUME IInv, RsuSync PROVE IInv' /\ Keeps
<1>1. PICK look \in {"model", "fallback"} :
        /\ look = IF model["rsu"] = "ready" THEN "model" ELSE "fallback"
        /\ drawn' = Pass(Rsus, look)
        /\ gizmo' = LeavesMesh(Rsus, Pass(Rsus, look))
        /\ Graph(Pass(Rsus, look), due)
        /\ synced' = IF look = "model" THEN Record(Rsus) ELSE synced
  BY DEF RsuSync
<1>2. model' = model /\ model["rsu"] \in {"ready", "failed"}
      /\ UNCHANGED <<store, selected, dragging, mode, hand, attach, ops, late>>
      /\ jobs' \subseteq jobs
  BY KindsFacts DEF RsuSync, IInv, TypeOK
<1>3. Draws BY <1>1, <1>2, GraphDraws DEF Draws
<1>4. \A o \in Objects :
        /\ drawn'[o] \in Meshes
        /\ o \notin Rsus => drawn'[o] = drawn[o]
        /\ o \in Rsus => drawn'[o].look = IF store[o] = 0 THEN "none" ELSE look
  BY <1>1, PassFacts DEF IInv
<1>5. gizmo' = gizmo
  <2>1. CASE gizmo \notin Rsus BY <1>1, <2>1 DEF LeavesMesh
  <2>2. CASE gizmo \in Rsus
    <3>1. gizmo \in Objects /\ gizmo # NoOne BY <2>2, ObjectAssumption DEF Objects
    <3>2. drawn[gizmo].look = look
      BY <1>1, <1>2, <2>2, <3>1 DEF IInv, HeldIsThere, LooksFollowModels, TypeOK
    <3>3. drawn'[gizmo].look = look
      BY <1>4, <2>2, <3>1 DEF IInv, HeldIsThere
    <3> QED BY <1>1, <3>2, <3>3 DEF LeavesMesh
  <2> QED BY <2>1, <2>2
<1>6. TypeOK'
  <2>1. synced' \in [Objects -> 0..MaxVer] BY <1>1 DEF Record, IInv, TypeOK
  <2>2. drawn' \in [Objects -> Meshes] BY <1>1, <1>4 DEF Pass
  <2> QED BY <1>2, <1>3, <1>5, <2>1, <2>2 DEF Draws, Meshes, IInv, TypeOK
<1>7. gizmo # NoOne => drawn'[gizmo].look # "none"
  BY <1>4 DEF IInv, TypeOK, HeldIsThere
<1>8. \A o \in Cars \cup Lidars : o \in Objects /\ drawn'[o] = drawn[o]
  BY <1>4, KindsApart DEF Objects
<1>9. LidarsAreInCars' BY <1>8, LidarFacts DEF IInv, LidarsAreInCars
<1>10. LooksFollowModels'
  BY <1>1, <1>2, <1>4, <1>8 DEF IInv, LooksFollowModels, Objects
<1>11. HeldIsThere' /\ AwaitedIsDrawn'
  BY <1>3, <1>5, <1>7, <1>8, StaysDrawn
<1> QED BY <1>3, <1>5, <1>6, <1>9, <1>10, <1>11, DrawsKeeps DEF IInv

LEMMA BuildingSyncStep ==
  ASSUME IInv, BuildingSync PROVE IInv' /\ Keeps
<1>1. /\ drawn' = Pass(Buildings, "model")
      /\ gizmo' = LeavesMesh(Buildings, Pass(Buildings, "model"))
      /\ Graph(Pass(Buildings, "model"), due)
      /\ synced' = Record(Buildings) /\ jobs' \subseteq jobs
      /\ UNCHANGED <<store, model, selected, dragging, mode, hand, attach, ops, late>>
  BY DEF BuildingSync
<1>2. Draws BY <1>1, GraphDraws DEF Draws
<1>3. \A o \in Objects :
        /\ drawn'[o] \in Meshes
        /\ o \notin Buildings => drawn'[o] = drawn[o]
        /\ o \in Buildings =>
             drawn'[o].look = IF store[o] = 0 THEN "none" ELSE "model"
  BY <1>1, PassFacts DEF IInv
<1>4. gizmo' = gizmo
  <2>1. CASE gizmo \notin Buildings BY <1>1, <2>1 DEF LeavesMesh
  <2>2. CASE gizmo \in Buildings
    <3>1. gizmo \in Objects \ Rsus /\ gizmo # NoOne
      BY <2>2, ObjectAssumption, KindsApart DEF Objects
    <3>2. drawn[gizmo].look = "model"
      BY <3>1 DEF IInv, HeldIsThere, LooksFollowModels, TypeOK
    <3>3. drawn'[gizmo].look = "model"
      BY <1>3, <2>2, <3>1 DEF IInv, HeldIsThere
    <3> QED BY <1>1, <3>2, <3>3 DEF LeavesMesh
  <2> QED BY <2>1, <2>2
<1>5. TypeOK'
  <2>1. synced' \in [Objects -> 0..MaxVer] BY <1>1 DEF Record, IInv, TypeOK
  <2>2. drawn' \in [Objects -> Meshes] BY <1>1, <1>3 DEF Pass
  <2> QED BY <1>1, <1>2, <1>4, <2>1, <2>2 DEF Draws, Meshes, IInv, TypeOK
<1>6. gizmo # NoOne => drawn'[gizmo].look # "none"
  BY <1>3 DEF IInv, TypeOK, HeldIsThere
<1>7. \A o \in Cars \cup Lidars \cup Rsus : o \in Objects /\ drawn'[o] = drawn[o]
  BY <1>3, KindsApart DEF Objects
<1>8. LidarsAreInCars' BY <1>7, LidarFacts DEF IInv, LidarsAreInCars
<1>9. LooksFollowModels' BY <1>1, <1>3, <1>7 DEF IInv, LooksFollowModels
<1>10. HeldIsThere' /\ AwaitedIsDrawn' BY <1>2, <1>4, <1>6, <1>7, StaysDrawn
<1> QED BY <1>2, <1>4, <1>5, <1>8, <1>9, <1>10, DrawsKeeps DEF IInv

LEMMA PedestrianSyncStep ==
  ASSUME IInv, PedestrianSync PROVE IInv' /\ Keeps
<1> DEFINE pass == [o \in Objects |-> IF o \in Pedestrians THEN PedestrianMesh(o)
                                      ELSE drawn[o]]
<1>1. /\ drawn' = pass
      /\ Graph(pass, due)
      /\ synced' = [o \in Objects |->
            IF o \in Pedestrians /\ pass[o].look # "none" THEN store[o] ELSE synced[o]]
      /\ jobs' \subseteq jobs /\ late' \subseteq late \cup {"pedestrian"}
      /\ UNCHANGED <<store, model, gizmo, selected, dragging, mode, hand, attach, ops>>
  BY DEF PedestrianSync
<1>2. Draws BY <1>1, GraphDraws DEF Draws
<1>3. ASSUME NEW o \in Objects
      PROVE  /\ drawn'[o] \in Meshes
             /\ o \notin Pedestrians => drawn'[o] = drawn[o]
             /\ drawn'[o].look \in {"none", "model", drawn[o].look}
             /\ o = gizmo => drawn'[o].look # "none"
  <2>1. /\ Mesh(o, "model") \in Meshes
        /\ Mesh(o, "model").look = IF store[o] = 0 THEN "none" ELSE "model"
    BY MeshFacts DEF IInv
  <2>2. drawn[o] \in Meshes BY DEF IInv, TypeOK, Meshes
  <2>3. Absent \in Meshes /\ Absent.look = "none"
    BY BoundAssumption DEF Absent, Meshes
  <2>4. o = gizmo => drawn[o].look # "none" /\ store[o] # 0
    BY ObjectAssumption DEF IInv, HeldIsThere
  <2>5. drawn'[o] = IF o \in Pedestrians THEN PedestrianMesh(o) ELSE drawn[o]
    BY <1>1
  <2>6. PedestrianMesh(o) \in {drawn[o], Absent, Mesh(o, "model")}
    BY DEF PedestrianMesh
  <2>7. o = gizmo => PedestrianMesh(o) \in {drawn[o], Mesh(o, "model")}
    BY <2>4 DEF PedestrianMesh
  <2> HIDE DEF pass
  <2> QED BY <2>1, <2>2, <2>3, <2>4, <2>5, <2>6, <2>7
<1>4. TypeOK'
  <2>1. synced' \in [Objects -> 0..MaxVer] BY <1>1 DEF IInv, TypeOK
  <2>2. drawn' \in [Objects -> Meshes] BY <1>1, <1>3
  <2> HIDE DEF pass
  <2> QED BY <1>1, <1>2, <2>1, <2>2, KindsFacts DEF Draws, Meshes, IInv, TypeOK
<1> HIDE DEF pass
<1>5. gizmo # NoOne => drawn'[gizmo].look # "none" BY <1>3 DEF IInv, TypeOK
<1>6. \A o \in Cars \cup Lidars \cup Rsus : o \in Objects /\ drawn'[o] = drawn[o]
  BY <1>3, KindsApart DEF Objects
<1>7. LidarsAreInCars' BY <1>6, LidarFacts DEF IInv, LidarsAreInCars
<1>8. LooksFollowModels' BY <1>1, <1>3, <1>6 DEF IInv, LooksFollowModels
<1>9. HeldIsThere' /\ AwaitedIsDrawn' BY <1>1, <1>2, <1>5, <1>6, StaysDrawn
<1> QED BY <1>1, <1>2, <1>4, <1>7, <1>8, <1>9, DrawsKeeps DEF IInv
LEMMA LidarSyncStep ==
  ASSUME IInv, LidarSync PROVE IInv' /\ Keeps
<1> DEFINE pass == [o \in Objects |-> IF o \in Lidars THEN LidarMesh(o) ELSE drawn[o]]
<1>1. /\ drawn' = pass
      /\ Graph(pass, due)
      /\ synced' = [o \in Objects |->
            IF o \in Lidars /\ pass[o].look # "none" THEN store[o] ELSE synced[o]]
      /\ jobs' \subseteq jobs /\ late' \subseteq late \cup {"lidar"}
      /\ UNCHANGED <<store, model, gizmo, selected, dragging, mode, hand, attach, ops>>
  BY DEF LidarSync
<1>2. Draws BY <1>1, GraphDraws DEF Draws
<1>3. ASSUME NEW o \in Objects
      PROVE  /\ drawn'[o] \in Meshes
             /\ o \notin Lidars => drawn'[o] = drawn[o]
             /\ drawn'[o].look \in {"none", "model", drawn[o].look}
             /\ o \in Lidars /\ drawn'[o].look # "none" =>
                  drawn[CarOf[o]].look # "none"
             /\ o = gizmo => drawn'[o].look # "none"
  <2>1. /\ Mesh(o, "model") \in Meshes
        /\ Mesh(o, "model").look = IF store[o] = 0 THEN "none" ELSE "model"
    BY MeshFacts DEF IInv
  <2>2. drawn[o] \in Meshes BY DEF IInv, TypeOK, Meshes
  <2>3. Absent \in Meshes /\ Absent.look = "none"
    BY BoundAssumption DEF Absent, Meshes
  <2>4. o = gizmo => drawn[o].look # "none" /\ store[o] # 0
    BY ObjectAssumption DEF IInv, HeldIsThere
  <2>5. o = gizmo /\ o \in Lidars => drawn[CarOf[o]].look # "none"
    BY <2>4 DEF IInv, LidarsAreInCars
  <2>6. drawn'[o] = IF o \in Lidars THEN LidarMesh(o) ELSE drawn[o] BY <1>1
  <2>7. LidarMesh(o) = IF drawn[CarOf[o]].look = "none" THEN Absent ELSE Mesh(o, "model")
    BY DEF LidarMesh
  <2> HIDE DEF pass
  <2> QED BY <2>1, <2>2, <2>3, <2>4, <2>5, <2>6, <2>7
<1>4. TypeOK'
  <2>1. synced' \in [Objects -> 0..MaxVer] BY <1>1 DEF IInv, TypeOK
  <2>2. drawn' \in [Objects -> Meshes] BY <1>1, <1>3
  <2> HIDE DEF pass
  <2> QED BY <1>1, <1>2, <2>1, <2>2, KindsFacts DEF Draws, Meshes, IInv, TypeOK
<1> HIDE DEF pass
<1>5. gizmo # NoOne => drawn'[gizmo].look # "none" BY <1>3 DEF IInv, TypeOK
<1>6. \A o \in Cars \cup Rsus : o \in Objects /\ drawn'[o] = drawn[o]
  BY <1>3, KindsApart DEF Objects
<1>7. LidarsAreInCars' BY <1>3, <1>6, LidarFacts DEF LidarsAreInCars
<1>8. LooksFollowModels' BY <1>1, <1>3, <1>6 DEF IInv, LooksFollowModels
<1>9. HeldIsThere' /\ AwaitedIsDrawn' BY <1>1, <1>2, <1>5, <1>6, StaysDrawn
<1> QED BY <1>1, <1>2, <1>4, <1>7, <1>8, <1>9, DrawsKeeps DEF IInv

LEMMA RestoreLidarsStep ==
  ASSUME IInv, RestoreLidars PROVE IInv' /\ Keeps
<1>1. /\ drawn' = [o \in Objects |->
             IF o \in Lidars /\ store[o] # 0 /\ drawn[o].look = "none"
                /\ drawn[CarOf[o]].look # "none"
             THEN Fresh(o, "model") ELSE drawn[o]]
      /\ Graph(drawn', due)
      /\ model' = [model EXCEPT !["lidar"] = "ready"]
      /\ late' \subseteq late \cup {"lidar"}
      /\ UNCHANGED <<store, synced, jobs, gizmo, selected, dragging, mode, hand, attach, ops>>
  BY DEF RestoreLidars
<1>2. Draws BY <1>1, GraphDraws DEF Draws
<1>3. ASSUME NEW o \in Objects
      PROVE  /\ drawn'[o] \in Meshes
             /\ o \notin Lidars => drawn'[o] = drawn[o]
             /\ drawn'[o].look \in {"model", drawn[o].look}
             /\ o \in Lidars /\ drawn'[o].look # "none" =>
                  drawn[CarOf[o]].look # "none"
  <2>1. drawn[o] \in Meshes /\ Fresh(o, "model") \in Meshes
        /\ Fresh(o, "model").look = "model"
    BY DEF Fresh, IInv, TypeOK, Meshes
  <2>2. o \in Lidars /\ drawn[o].look # "none" => drawn[CarOf[o]].look # "none"
    BY DEF IInv, LidarsAreInCars
  <2> QED BY <1>1, <2>1, <2>2
<1>4. TypeOK'
  <2>1. drawn' \in [Objects -> Meshes] BY <1>1, <1>3
  <2> QED BY <1>1, <1>2, <2>1, KindsFacts DEF Draws, Meshes, IInv, TypeOK
<1>5. gizmo # NoOne => drawn'[gizmo].look # "none"
  BY <1>3 DEF IInv, TypeOK, HeldIsThere
<1>6. \A o \in Cars \cup Rsus : o \in Objects /\ drawn'[o] = drawn[o]
  BY <1>3, KindsApart DEF Objects
<1>7. LidarsAreInCars' BY <1>3, <1>6, LidarFacts DEF LidarsAreInCars
<1>8. model'["rsu"] = model["rsu"] /\ model'["car"] = model["car"]
  BY <1>1, KindsFacts DEF IInv, TypeOK
<1>9. LooksFollowModels' BY <1>8, <1>3, <1>6 DEF IInv, LooksFollowModels
<1>10. HeldIsThere' /\ AwaitedIsDrawn' BY <1>1, <1>2, <1>5, <1>6, StaysDrawn
<1> QED BY <1>1, <1>2, <1>4, <1>7, <1>9, <1>10, DrawsKeeps DEF IInv

\* Until the cars' model is there no car is drawn, so no lidar is.
LEMMA CarModelStep ==
  ASSUME IInv, CarModel PROVE IInv' /\ Keeps
<1>1. /\ drawn' = [o \in Objects |-> IF o \in Cars THEN Mesh(o, "model") ELSE drawn[o]]
      /\ Graph(drawn', due)
      /\ synced' = Record(Cars)
      /\ model["car"] = "loading" /\ model' = [model EXCEPT !["car"] = "ready"]
      /\ UNCHANGED <<store, jobs, gizmo, selected, dragging, mode, late, attach, hand, ops>>
  BY DEF CarModel
<1>2. Draws BY <1>1, GraphDraws DEF Draws
<1>3. \A o \in Cars : o \in Objects /\ drawn[o].look = "none"
  BY <1>1 DEF IInv, LooksFollowModels, Objects
<1>4. \A o \in Lidars : o \in Objects /\ drawn'[o] = drawn[o] /\ drawn[o].look = "none"
  BY <1>1, <1>3, LidarFacts, KindsApart DEF IInv, LidarsAreInCars
<1>5. ASSUME NEW o \in Objects
      PROVE  /\ drawn'[o] \in Meshes
             /\ o \notin Cars => drawn'[o] = drawn[o]
             /\ o \in Cars => drawn'[o].look \in {"none", "model"}
  <2>1. /\ Mesh(o, "model") \in Meshes
        /\ Mesh(o, "model").look = IF store[o] = 0 THEN "none" ELSE "model"
    BY MeshFacts DEF IInv
  <2>2. drawn[o] \in Meshes BY DEF IInv, TypeOK, Meshes
  <2> QED BY <1>1, <2>1, <2>2
<1>6. TypeOK'
  <2>1. drawn' \in [Objects -> Meshes] BY <1>1, <1>5
  <2>2. synced' \in [Objects -> 0..MaxVer] BY <1>1 DEF Record, IInv, TypeOK
  <2> QED BY <1>1, <1>2, <2>1, <2>2, KindsFacts DEF Draws, Meshes, IInv, TypeOK
<1>7. gizmo # NoOne => drawn'[gizmo].look # "none"
  BY <1>3, <1>5 DEF IInv, TypeOK, HeldIsThere
<1>8. LidarsAreInCars' BY <1>4 DEF LidarsAreInCars
<1>9. model'["rsu"] = model["rsu"] /\ model'["car"] = "ready"
  BY <1>1, KindsFacts DEF IInv, TypeOK
<1>10. LooksFollowModels'
  <2>1. \A o \in Objects \ Rsus : drawn'[o].look # "fallback"
    BY <1>5 DEF IInv, LooksFollowModels
  <2>2. \A o \in Rsus : drawn'[o] = drawn[o] BY <1>5, KindsApart DEF Objects
  <2> QED BY <1>9, <2>1, <2>2 DEF IInv, LooksFollowModels
<1>11. HeldIsThere' /\ AwaitedIsDrawn' BY <1>1, <1>2, <1>3, <1>7, StaysDrawn
<1> QED BY <1>1, <1>2, <1>6, <1>8, <1>10, <1>11, DrawsKeeps DEF IInv

\* The selection's effect attaches the selected object's mesh or nothing.
LEMMA SelectionFacts ==
  ASSUME NEW pass
  PROVE  \/ Selection(pass) = gizmo \/ Selection(pass) = NoOne
         \/ /\ Selection(pass) = selected /\ selected # NoOne
            /\ pass[selected].look # "none"
<1>1. CASE "selection" \in due \/ Structural(pass)
  <2>1. CASE selected # NoOne /\ pass[selected].look # "none"
    BY <1>1, <2>1 DEF Selection
  <2>2. CASE ~(selected # NoOne /\ pass[selected].look # "none")
    BY <1>1, <2>2 DEF Selection
  <2> QED BY <2>1, <2>2
<1>2. CASE ~("selection" \in due \/ Structural(pass))
  BY <1>2 DEF Selection
<1> QED BY <1>1, <1>2

\* A render passes over the cars and may look for the selection's object again.
LEMMA RenderStep ==
  ASSUME IInv, Render PROVE IInv' /\ Keeps
<1>1. /\ drawn' = CarPass
      /\ synced' = CarRecord
      /\ jobs' = Restarted
      /\ gizmo' = Selection(CarPass)
      /\ due' = {} /\ late' \subseteq late
      /\ UNCHANGED <<store, dragging, mode, hand, selected, ops>>
  BY DEF Render
<1>2. \/ attach' = attach
      \/ attach' = selected /\ selected \in Cars /\ drawn'[selected].look # "none"
  <2>1. \/ attach' = attach
        \/ attach' = selected /\ selected \in Cars /\ CarPass[selected].look # "none"
    <3>1. CASE due \cap {"car", "selection"} # {} /\ selected \in Cars
                 /\ CarPass[selected].look # "none"
      BY <3>1 DEF Render
    <3>2. CASE ~(due \cap {"car", "selection"} # {} /\ selected \in Cars
                   /\ CarPass[selected].look # "none")
      BY <3>2 DEF Render
    <3> QED BY <3>1, <3>2
  <2> QED BY <1>1, <2>1
<1>3. model' \in [Kinds -> {"loading", "ready", "failed"}]
      /\ model'["car"] = model["car"] /\ model'["rsu"] = model["rsu"]
  BY KindsFacts DEF Render, IInv, TypeOK
<1>4. ASSUME NEW o \in Objects
      PROVE  /\ drawn'[o] \in Meshes
             /\ o \notin Cars \cup Lidars => drawn'[o] = drawn[o]
             /\ drawn'[o].look \in {"none", "model", drawn[o].look}
             /\ model["car"] = "loading" => drawn'[o] = drawn[o]
  BY <1>1, CarPassFacts DEF IInv
<1>5. ASSUME NEW o \in Objects, store[o] # 0, drawn[o].look # "none"
      PROVE  drawn'[o].look # "none"
  BY <1>1, <1>5, CarPassKeeps DEF IInv, LidarsHaveCars
<1>6. \/ gizmo' = gizmo
      \/ gizmo' = NoOne
      \/ gizmo' = selected /\ selected # NoOne /\ drawn'[selected].look # "none"
  <2>1. \/ Selection(CarPass) = gizmo \/ Selection(CarPass) = NoOne
        \/ /\ Selection(CarPass) = selected /\ selected # NoOne
           /\ CarPass[selected].look # "none"
    BY SelectionFacts
  <2> QED BY <1>1, <2>1
<1>7. gizmo' \in {selected, NoOne}
  <2>1. CASE "selection" \in due BY <1>1, <2>1 DEF Selection
  <2>2. CASE "selection" \notin due
    <3>1. gizmo \in {selected, NoOne} BY <2>2 DEF IInv, GizmoFollowsSelection
    <3> QED BY <1>6, <3>1
  <2> QED BY <2>1, <2>2
<1>8. dragging => gizmo' = gizmo
  <2> SUFFICES ASSUME dragging PROVE gizmo' = gizmo OBVIOUS
  <2>1. gizmo = selected BY DEF IInv, GizmoFollowsSelection
  <2>2. CASE gizmo = NoOne BY <1>6, <2>1, <2>2
  <2>3. CASE gizmo # NoOne
    <3>1. gizmo \in Objects /\ store[gizmo] # 0 /\ drawn[gizmo].look # "none"
      BY <2>3 DEF IInv, TypeOK, HeldIsThere
    <3>2. drawn'[selected].look # "none" BY <1>5, <2>1, <3>1
    <3> QED BY <1>1, <2>1, <2>3, <3>2 DEF Selection
  <2> QED BY <2>2, <2>3
<1>9. TypeOK'
  <2>1. drawn' \in [Objects -> Meshes]
    <3>1. CarPass = [o \in Objects |-> CarPass[o]] BY DEF CarPass, IInv, TypeOK
    <3> QED BY <1>1, <1>4, <3>1
  <2>2. synced' \in [Objects -> 0..MaxVer]
    BY <1>1 DEF CarRecord, Record, IInv, TypeOK
  <2>3. jobs' \subseteq Kinds \ {"car"} BY <1>1 DEF Restarted, IInv, TypeOK
  <2>4. gizmo' \in Objects \cup {NoOne} BY <1>7 DEF IInv, TypeOK
  <2>5. attach' \in Cars \cup {NoOne} BY <1>2 DEF IInv, TypeOK
  <2> QED BY <1>1, <1>3, <2>1, <2>2, <2>3, <2>4, <2>5 DEF Meshes, IInv, TypeOK
<1>10. LidarsHaveCars' /\ SelectedIsThere'
  BY <1>1 DEF IInv, LidarsHaveCars, SelectedIsThere
<1>11. HeldIsThere'
  <2> SUFFICES ASSUME gizmo' # NoOne
      PROVE  store'[gizmo'] # 0 /\ drawn'[gizmo'].look # "none"
    BY DEF HeldIsThere
  <2>1. CASE gizmo' = gizmo
    BY <1>1, <1>5, <2>1 DEF IInv, HeldIsThere, TypeOK
  <2>2. CASE gizmo' = selected /\ drawn'[selected].look # "none"
    BY <1>1, <2>2 DEF IInv, SelectedIsThere
  <2> QED BY <1>6, <2>1, <2>2
<1>12. AwaitedIsDrawn'
  <2> SUFFICES ASSUME attach' # NoOne, selected' = attach'
      PROVE  drawn'[attach'].look # "none"
    BY DEF AwaitedIsDrawn
  <2>1. CASE attach' = attach
    BY <1>1, <1>5, <2>1 DEF IInv, AwaitedIsDrawn, SelectedIsThere, TypeOK
  <2> QED BY <1>1, <1>2, <2>1
<1>13. LidarsAreInCars'
  BY <1>1, CarPassTogether DEF IInv, LidarsAreInCars
<1>14. LooksFollowModels'
  <2>1. \A o \in Rsus : o \in Objects /\ drawn'[o] = drawn[o]
    BY <1>4, KindsApart DEF Objects
  <2>2. \A o \in Cars : o \in Objects BY DEF Objects
  <2> QED BY <1>3, <1>4, <2>1, <2>2 DEF IInv, LooksFollowModels
<1>15. GizmoFollowsSelection'
  BY <1>1, <1>7, <1>8 DEF IInv, GizmoFollowsSelection
<1>16. Keeps BY <1>8 DEF Keeps
<1> QED BY <1>9, <1>10, <1>11, <1>12, <1>13, <1>14, <1>15, <1>16 DEF IInv

-----------------------------------------------------------------------------
(* The inductive invariant and the theorems.                               *)

LEMMA InitInv == ASSUME Init PROVE IInv
<1>1. PICK S \in Scenes : store = [o \in Objects |-> IF o \in S THEN 1 ELSE 0]
  BY DEF Init
<1>2. \A o \in Objects : drawn[o].look = "none" BY DEF Init, Absent
<1>3. Absent \in Meshes BY BoundAssumption DEF Absent, Meshes
<1>4. TypeOK
  <2>1. store \in [Objects -> 0..MaxVer] BY <1>1, BoundAssumption
  <2>2. drawn \in [Objects -> Meshes] BY <1>3 DEF Init
  <2>3. synced \in [Objects -> 0..MaxVer] BY BoundAssumption DEF Init
  <2>4. model \in [Kinds -> {"loading", "ready", "failed"}] BY DEF Init
  <2>5. ops \in 0..MaxOps BY BoundAssumption DEF Init
  <2> QED BY <2>1, <2>2, <2>3, <2>4, <2>5 DEF Init, TypeOK, Meshes, Modes
<1>5. LidarsHaveCars BY <1>1, ObjectAssumption, LidarFacts DEF LidarsHaveCars
<1>6. LidarsAreInCars BY <1>2, LidarFacts DEF LidarsAreInCars
<1>7. LooksFollowModels BY <1>2 DEF LooksFollowModels, Objects
<1> QED BY <1>4, <1>5, <1>6, <1>7
        DEF IInv, Init, SelectedIsThere, HeldIsThere, AwaitedIsDrawn, GizmoFollowsSelection

LEMMA StepInv == ASSUME IInv, [Next]_vars PROVE IInv' /\ [Keeps]_vars
<1>1. CASE Hooks
  BY <1>1, RenderStep, RsuSyncStep, BuildingSyncStep, PedestrianSyncStep,
     LidarSyncStep, RestoreLidarsStep DEF Hooks
<1>2. CASE Attach \/ BuildingGivesUp BY <1>2, AttachStep, BuildingGivesUpStep
<1>3. CASE Loaders BY <1>3, CarModelStep, OtherModelStep DEF Loaders
<1>4. CASE \E o \in Objects : Update(o) \/ Align(o) \/ Add(o) \/ Delete(o) \/ Undo(o)
  BY <1>4, UpdateStep, AlignStep, AddStep, DeleteStep, UndoStep
<1>5. CASE \E o \in Objects \cup {NoOne} : Select(o) BY <1>5, SelectStep
<1>6. CASE ClearScene BY <1>6, ClearSceneStep
<1>7. CASE DragStart \/ DragMove \/ DragEnd
  BY <1>7, DragStartStep, DragMoveStep, DragEndStep
<1>8. CASE UNCHANGED vars
  BY <1>8 DEF vars, IInv, TypeOK, LidarsHaveCars, SelectedIsThere, HeldIsThere,
     AwaitedIsDrawn, LidarsAreInCars, LooksFollowModels, GizmoFollowsSelection
<1> QED BY <1>1, <1>2, <1>3, <1>4, <1>5, <1>6, <1>7, <1>8 DEF Next

LEMMA Invariance == Spec => []IInv
<1>1. Init => IInv BY InitInv
<1>2. IInv /\ [Next]_vars => IInv' BY StepInv
<1> QED BY <1>1, <1>2, PTL DEF Spec

\* Every variable of the synchronisation keeps its type: a sync never records
\* or draws a version that no store held.
THEOREM SyncTypeCorrect == Spec => []TypeOK
<1>1. IInv => TypeOK BY DEF IInv
<1> QED BY <1>1, Invariance, PTL

\* The transform controls hold a mesh of the scene, in whatever order models,
\* renders, hooks, timers and the user's operations come, with any number of
\* objects of each kind.
THEOREM GizmoHoldsAMesh == Spec => []GizmoInScene
<1>1. IInv => GizmoInScene BY DEF IInv, HeldIsThere, GizmoInScene
<1> QED BY <1>1, Invariance, PTL

\* No model, render, sync or timer changes what the user drags.
THEOREM DragIsKept == Spec => DragKeepsItsObject
<1>1. IInv /\ [Next]_vars =>
        [dragging /\ dragging' /\ ops' = ops => gizmo' = gizmo]_vars
  BY StepInv DEF Keeps
<1> QED BY <1>1, Invariance, PTL DEF Spec, DragKeepsItsObject

-----------------------------------------------------------------------------
(* The scene shows the store when nothing is due, as long as the panel     *)
(* does not edit a lidar that has the gizmo.                               *)

\* A kind whose hook has still to pass over its objects.
Pending(k) == Started(k) \/ k \in jobs

\* No mesh has no version; models come before the meshes made of them, and what
\* is recorded as synced was a model's mesh.
MeshesHaveModels ==
  /\ \A o \in Objects : drawn[o].look = "none" => drawn[o].ver = 0
  /\ model["car"] # "failed" /\ model["lidar"] # "failed" /\ "car" \notin late
  /\ \A k \in {"pedestrian", "building"} : model[k] # "ready" =>
       \A o \in Of[k] : drawn[o].look = "none"
  /\ model["rsu"] # "ready" => \A o \in Rsus : synced[o] = 0
  /\ model["car"] = "loading" => \A o \in Lidars : synced[o] = 0

\* What the user holds, but for a car, is drawn as it is stored, and so is a lidar that the panel
\* shows.
HeldIsShown ==
  /\ dragging /\ gizmo \in Objects \ Cars => drawn[gizmo].ver = store[gizmo]
  /\ \A o \in Lidars : o \in {gizmo, selected} /\ drawn[o].look # "none" =>
       drawn[o].ver = store[o]

\* A mesh that a pass will leave alone is drawn as it is stored.
SyncedIsShown ==
  \A o \in Objects :
    drawn[o].look # "none" /\ store[o] # 0 /\ synced[o] = store[o] =>
      drawn[o].ver = store[o]

\* So is every mesh of a kind that is not due, and a later change will be seen.
MeshesAreSettled ==
  \A o \in Objects :
    drawn[o].look # "none" /\ ~Pending(KindOf[o]) =>
      store[o] # 0 /\ drawn[o].ver = store[o] /\ synced[o] \in {0, store[o]}

\* A lidar that restoreLidars may draw has never been drawn.
UndrawnLidarsAreNew ==
  \A o \in Lidars :
    store[o] # 0 /\ drawn[o].look = "none" /\ drawn[CarOf[o]].look # "none"
      /\ ~Pending("lidar") => synced[o] = 0

\* What the scene does not show will be drawn: by a pass that is due, by a model
\* or timer that is awaited, or with the next change.
RestIsDue ==
  \A o \in Objects :
    LET k == KindOf[o] IN
    \/ Pending(k) \/ k \in late \/ drawn[o].ver = store[o]
    \/ k \in {"car", "lidar"} /\ model[k] = "loading"

SInv ==
  /\ MeshesHaveModels /\ HeldIsShown /\ SyncedIsShown
  /\ MeshesAreSettled /\ UndrawnLidarsAreNew /\ RestIsDue

-----------------------------------------------------------------------------
(* Facts about the kinds, the passes and what is due.                      *)

LEMMA KindFacts ==
  ASSUME NEW o \in Objects
  PROVE  /\ KindOf[o] \in Kinds /\ o \in Of[KindOf[o]]
         /\ \A k \in Kinds : o \in Of[k] => KindOf[o] = k
         /\ KindOf[o] = "car" <=> o \in Cars
         /\ KindOf[o] = "lidar" <=> o \in Lidars
         /\ KindOf[o] = "pedestrian" <=> o \in Pedestrians
         /\ KindOf[o] = "rsu" <=> o \in Rsus
         /\ KindOf[o] = "building" <=> o \in Buildings
<1>1. \E k \in Kinds : o \in Of[k] BY KindsFacts DEF Objects
<1>2. KindOf[o] = CHOOSE k \in Kinds : o \in Of[k] BY DEF KindOf
<1>3. KindOf[o] \in Kinds /\ o \in Of[KindOf[o]] BY <1>1, <1>2
<1>4. \A k \in Kinds : o \in Of[k] => KindOf[o] = k BY <1>3, ObjectAssumption
<1> QED BY <1>3, <1>4, KindsFacts

LEMMA ObjectFacts ==
  /\ Cars \subseteq Objects /\ Lidars \subseteq Objects /\ Rsus \subseteq Objects
  /\ Pedestrians \subseteq Objects /\ Buildings \subseteq Objects
  /\ NoOne \notin Objects
<1> QED BY ObjectAssumption DEF Objects

LEMMA MeshTypes ==
  ASSUME IInv, NEW o \in Objects
  PROVE  /\ drawn[o] \in Meshes /\ drawn[o].look \in {"none", "model", "fallback"}
         /\ store[o] \in 0..MaxVer /\ synced[o] \in 0..MaxVer
<1> QED BY DEF IInv, TypeOK, Meshes

\* After a pass an object is drawn as it is stored.
LEMMA MeshIsShown ==
  ASSUME IInv, SInv, NEW o \in Objects, NEW look \in {"model", "fallback"}
  PROVE  /\ Mesh(o, look).ver = store[o]
         /\ Mesh(o, look).look # "none" <=> store[o] # 0
<1>1. store[o] = 0 => Mesh(o, look).look = "none" BY MeshFacts DEF IInv
<1>2. store[o] # 0 => Mesh(o, look).look = look BY MeshFacts DEF IInv
<1>3. CASE store[o] = 0 BY <1>3 DEF Mesh, Absent
<1>4. CASE store[o] # 0 /\ drawn[o].look # look BY <1>4 DEF Mesh, Fresh
<1>5. CASE store[o] # 0 /\ drawn[o].look = look
  <2>1. CASE synced[o] = store[o]
    BY <1>5, <2>1 DEF Mesh, SInv, SyncedIsShown
  <2>2. CASE synced[o] # store[o] /\ Held(o)
    <3>1. Mesh(o, look) = InHand(o) BY <1>5, <2>2 DEF Mesh
    <3>2. CASE o \in Cars
      <4>1. InHand(o).ver = store[o] BY <3>2, InHandFacts DEF IInv
      <4> QED BY <1>2, <1>5, <3>1, <4>1
    <3>3. CASE o \notin Cars
      <4>1. drawn[o].ver = store[o]
        BY <1>5, <2>2, <3>3, ObjectFacts DEF Held, SInv, HeldIsShown
      <4>2. InHand(o) = drawn[o] BY <3>3 DEF InHand
      <4> QED BY <1>2, <1>5, <3>1, <4>1, <4>2
    <3> QED BY <3>2, <3>3
  <2>3. CASE synced[o] # store[o] /\ ~Held(o)
    BY <1>5, <2>3 DEF Mesh, Fresh
  <2> QED BY <1>1, <1>2, <2>1, <2>2, <2>3
<1> QED BY <1>1, <1>2, <1>3, <1>4, <1>5

\* What is due stays due, but for the kind of the hook that has run.
LEMMA DueStays ==
  ASSUME NEW k, due \subseteq due', k \in jobs => k \in jobs'
  PROVE  Pending(k) => Pending(k)'
<1> QED BY DEF Pending, Started

\* Between events a mesh is drawn as it is stored.
LEMMA AtRenderedFacts ==
  ASSUME IInv, SInv, Rendered, NEW o \in Objects, drawn[o].look # "none",
         o \in Lidars => "lidar" \notin jobs
  PROVE  store[o] # 0 /\ drawn[o].ver = store[o] /\ synced[o] \in {0, store[o]}
<1>1. \A k : ~Started(k) BY DEF Rendered, Started
<1>2. CASE KindOf[o] \notin jobs
  BY <1>1, <1>2 DEF SInv, MeshesAreSettled, Pending
<1>3. CASE KindOf[o] \in jobs
  <2>1. KindOf[o] # "lidar" BY <1>3, KindFacts
  <2>2. KindOf[o] # "car" BY <1>3 DEF IInv, TypeOK
  <2>3. model[KindOf[o]] = "loading" BY <1>3, <2>1 DEF Rendered
  <2>4. CASE KindOf[o] \in {"pedestrian", "building"}
    BY <2>3, <2>4, KindFacts DEF SInv, MeshesHaveModels
  <2>5. CASE KindOf[o] = "rsu"
    BY <2>3, <2>5, KindFacts, MeshTypes DEF IInv, LooksFollowModels
  <2> QED BY <2>1, <2>2, <2>4, <2>5, KindFacts, KindsFacts
<1> QED BY <1>2, <1>3

\* A change of the store between events: every object that changes is due.
LEMMA StoreChanges ==
  ASSUME IInv, SInv, Resting, UNCHANGED <<drawn, synced, model, jobs, late>>,
         due \subseteq due',
         \A o \in Objects : store'[o] # store[o] => KindOf[o] \in due'
  PROVE  MeshesHaveModels' /\ SyncedIsShown' /\ MeshesAreSettled'
         /\ UndrawnLidarsAreNew' /\ RestIsDue'
<1>1. \A o \in Objects : Pending(KindOf[o]) => Pending(KindOf[o])' BY DueStays
<1>2. \A o \in Objects : store'[o] # store[o] => Pending(KindOf[o])'
  BY DEF Pending, Started
<1>3. MeshesHaveModels' BY DEF SInv, MeshesHaveModels
<1>4. SyncedIsShown'
  <2> SUFFICES ASSUME NEW o \in Objects, drawn[o].look # "none", store'[o] # 0,
                      synced[o] = store'[o]
      PROVE  drawn[o].ver = store'[o]
    BY DEF SyncedIsShown
  <2>1. drawn[o].ver = store[o] /\ synced[o] \in {0, store[o]}
    BY AtRenderedFacts DEF Resting
  <2> QED BY <2>1
<1>5. MeshesAreSettled' BY <1>1, <1>2 DEF SInv, MeshesAreSettled
<1>6. UndrawnLidarsAreNew'
  <2>1. \A o \in Lidars : o \in Objects /\ KindOf[o] = "lidar"
    BY KindFacts, ObjectFacts
  <2> QED BY <1>1, <1>2, <2>1 DEF SInv, UndrawnLidarsAreNew
<1>7. RestIsDue' BY <1>1, <1>2 DEF SInv, RestIsDue
<1> QED BY <1>3, <1>4, <1>5, <1>6, <1>7

\* A step that draws: each mesh is left, taken away, or drawn as it is stored.
LEMMA PassKeepsShown ==
  ASSUME IInv, IInv', SInv, UNCHANGED <<store, dragging, selected>>,
         gizmo' \in {gizmo, NoOne, selected},
         \A o \in Objects : \/ drawn'[o] = drawn[o] /\ synced'[o] = synced[o]
                            \/ drawn'[o].ver = store[o]
                            \/ drawn'[o].look = "none"
  PROVE  HeldIsShown' /\ SyncedIsShown'
<1>1. SyncedIsShown' BY DEF SInv, SyncedIsShown
<1>2. dragging' /\ gizmo' \in Objects \ Cars => drawn'[gizmo'].ver = store'[gizmo']
  <2> SUFFICES ASSUME dragging', gizmo' \in Objects \ Cars
      PROVE  drawn'[gizmo'].ver = store'[gizmo']
    OBVIOUS
  <2>1. gizmo' = gizmo /\ gizmo \in Objects
    BY DEF IInv, TypeOK, GizmoFollowsSelection
  <2>2. drawn[gizmo].ver = store[gizmo] BY <2>1 DEF SInv, HeldIsShown
  <2>3. drawn'[gizmo].look # "none" BY <2>1, ObjectFacts DEF IInv, HeldIsThere
  <2> QED BY <2>1, <2>2, <2>3
<1>3. ASSUME NEW o \in Lidars, o \in {gizmo', selected'}, drawn'[o].look # "none"
      PROVE  drawn'[o].ver = store'[o]
  <2>1. o \in Objects BY ObjectFacts
  <2>2. o \in {gizmo, selected} BY <1>3, <2>1, ObjectFacts
  <2> QED BY <1>3, <2>1, <2>2 DEF SInv, HeldIsShown
<1> QED BY <1>1, <1>2, <1>3 DEF HeldIsShown

-----------------------------------------------------------------------------
(* One lemma per action: the user.                                         *)

LEMMA SceneUpdate ==
  ASSUME IInv, SInv, ~Typed, NEW o \in Objects, Update(o) PROVE SInv'
<1>1. /\ Resting /\ ~dragging /\ dragging' = dragging
      /\ o \in Lidars => o \notin {gizmo, selected}
      /\ store' = [store EXCEPT ![o] = @ + 1] /\ due' = due \cup {KindOf[o]}
      /\ UNCHANGED <<drawn, synced, model, jobs, gizmo, selected, late>>
  BY DEF Update, CanAct, Changed
<1>2. \A x \in Objects : x # o => store'[x] = store[x]
  BY <1>1 DEF IInv, TypeOK
<1>3. HeldIsShown' BY <1>1, <1>2, ObjectFacts DEF SInv, HeldIsShown
<1> QED BY <1>1, <1>2, <1>3, StoreChanges DEF SInv

LEMMA SceneAdd ==
  ASSUME IInv, SInv, NEW o \in Objects, Add(o) PROVE SInv'
<1>1. /\ Resting /\ ~dragging /\ dragging' = dragging /\ store[o] = 0
      /\ store' = [store EXCEPT ![o] = 1] /\ due \subseteq due' /\ KindOf[o] \in due'
      /\ selected' = selected \/ selected' \in Cars
      /\ UNCHANGED <<drawn, synced, model, jobs, gizmo, late>>
  BY DEF Add, CanAct
<1>2. \A x \in Objects : x # o => store'[x] = store[x]
  BY <1>1 DEF IInv, TypeOK
<1>3. drawn[o].look = "none"
  BY <1>1, AtRenderedFacts DEF Resting
<1>4. HeldIsShown'
  BY <1>1, <1>2, <1>3, KindsApart, ObjectFacts DEF SInv, HeldIsShown
<1> QED BY <1>1, <1>2, <1>4, StoreChanges DEF SInv

\* With nothing held and nothing selected there is nothing to show.
LEMMA LetGoFacts == ASSUME LetGo PROVE HeldIsShown'
<1> QED BY ObjectFacts DEF LetGo, HeldIsShown

\* The lidars that go with an object go with a car.
LEMMA WithLidarsFacts ==
  ASSUME NEW o \in Objects, NEW x \in WithLidars(o), x # o
  PROVE  o \in Cars /\ x \in Lidars /\ x \in Objects
<1> QED BY LidarFacts DEF WithLidars

LEMMA SceneDelete ==
  ASSUME IInv, SInv, NEW o \in Objects, Delete(o) PROVE SInv'
<1>1. /\ Resting /\ LetGo
      /\ store' = [x \in Objects |-> IF x \in WithLidars(o) THEN 0 ELSE store[x]]
      /\ due \subseteq due' /\ KindOf[o] \in due' /\ (o \in Cars => "lidar" \in due')
      /\ UNCHANGED <<drawn, synced, model, jobs, late>>
  BY DEF Delete, CanAct
<1>2. \A x \in Objects : store'[x] # store[x] => KindOf[x] \in due'
  BY <1>1, WithLidarsFacts, KindFacts
<1> QED BY <1>1, <1>2, LetGoFacts, StoreChanges DEF SInv

LEMMA SceneUndo ==
  ASSUME IInv, SInv, NEW o \in Objects, Undo(o) PROVE SInv'
<1>1. /\ Resting /\ LetGo
      /\ due \subseteq due' /\ KindOf[o] \in due' /\ (o \in Cars => "lidar" \in due')
      /\ UNCHANGED <<drawn, synced, model, jobs, late>>
  BY DEF Undo, CanAct
<1>2. PICK v \in 0..MaxVer :
        store' = [x \in Objects |->
                    IF x = o THEN v
                    ELSE IF v = 0 /\ x \in WithLidars(o) THEN 0 ELSE store[x]]
  BY DEF Undo
<1>3. \A x \in Objects : store'[x] # store[x] => KindOf[x] \in due'
  BY <1>1, <1>2, WithLidarsFacts, KindFacts
<1> QED BY <1>1, <1>3, LetGoFacts, StoreChanges DEF SInv

LEMMA SceneSelect ==
  ASSUME IInv, SInv, NEW o \in Objects \cup {NoOne}, Select(o) PROVE SInv'
<1>1. /\ Resting /\ ~dragging /\ dragging' = dragging /\ selected' = o
      /\ due' = {"selection"} /\ due = {}
      /\ UNCHANGED <<store, drawn, synced, model, jobs, gizmo, late>>
  BY DEF Select, Resting, Rendered
<1>2. ASSUME NEW x \in Lidars, x \in {gizmo, o}, drawn[x].look # "none"
      PROVE  drawn[x].ver = store[x]
  BY <1>1, <1>2, AtRenderedFacts, ObjectFacts DEF Resting
<1>3. HeldIsShown' BY <1>1, <1>2 DEF HeldIsShown
<1> QED BY <1>1, <1>3, StoreChanges DEF SInv

LEMMA SceneClear ==
  ASSUME IInv, SInv, ClearScene PROVE SInv'
<1>1. /\ store' = [o \in Objects |-> 0] /\ LetGo /\ due' = Kinds \cup {"selection"}
      /\ drawn' = [o \in Objects |->
                     IF drawn[o].look = "fallback" THEN drawn[o] ELSE Absent]
      /\ UNCHANGED <<synced, model, jobs, late>>
  BY DEF ClearScene
<1>2. \A o \in Objects : Pending(KindOf[o])' BY <1>1, KindFacts DEF Pending, Started
<1>3. \A o \in Objects : /\ drawn'[o].look = "none" => drawn'[o].ver = 0
                         /\ drawn'[o].look # "none" => drawn[o].look = "fallback"
  BY <1>1 DEF Absent
<1>4. MeshesHaveModels'
  <2>1. \A k \in {"pedestrian", "building"} : \A o \in Of[k] :
          o \in Objects /\ drawn'[o].look = "none"
    BY <1>3, ObjectFacts, KindsFacts, KindsApart DEF IInv, LooksFollowModels
  <2> QED BY <1>1, <1>3, <2>1 DEF SInv, MeshesHaveModels
<1>5. SyncedIsShown' BY <1>1 DEF SyncedIsShown
<1>6. MeshesAreSettled' /\ RestIsDue' BY <1>2 DEF MeshesAreSettled, RestIsDue
<1>7. UndrawnLidarsAreNew' BY <1>1, ObjectFacts DEF UndrawnLidarsAreNew
<1> QED BY <1>1, <1>4, <1>5, <1>6, <1>7, LetGoFacts DEF SInv

LEMMA SceneDragStart ==
  ASSUME IInv, SInv, DragStart PROVE SInv'
<1>1. /\ Resting /\ gizmo # NoOne
      /\ UNCHANGED <<store, drawn, synced, model, due, jobs, gizmo, selected, late>>
  BY DEF DragStart
<1>2. gizmo \in Objects /\ drawn[gizmo].look # "none"
  BY <1>1 DEF IInv, TypeOK, HeldIsThere
<1>3. drawn[gizmo].ver = store[gizmo] BY <1>1, <1>2, AtRenderedFacts DEF Resting
<1>4. HeldIsShown' BY <1>1, <1>3 DEF SInv, HeldIsShown
<1> QED BY <1>1, <1>4, StoreChanges DEF SInv

LEMMA SceneDragMove ==
  ASSUME IInv, SInv, DragMove PROVE SInv'
<1>1. /\ Rendered /\ dragging /\ gizmo \in Objects /\ drawn[gizmo].look # "none"
      /\ store[gizmo] \in 1..(MaxVer - 1)
      /\ store' = [store EXCEPT ![gizmo] = @ + 1]
      /\ drawn'[gizmo].ver = store[gizmo] + 1
      /\ \A o \in Objects : o # gizmo => drawn'[o] = drawn[o]
      /\ \A o \in Objects : drawn'[o].look = drawn[o].look
      /\ due' = due \cup {KindOf[gizmo]}
      /\ UNCHANGED <<synced, model, jobs, gizmo, dragging, selected, late>>
  <2>1. /\ drawn'[gizmo].ver = store[gizmo] + 1
        /\ \A o \in Objects : o # gizmo => drawn'[o] = drawn[o]
        /\ \A o \in Objects : drawn'[o].look = drawn[o].look
    BY DragMoveFacts DEF IInv, TypeOK
  <2> QED BY <2>1 DEF DragMove, Changed, IInv, TypeOK, HeldIsThere
<1>2. /\ drawn'[gizmo].ver = store'[gizmo] /\ drawn'[gizmo].look = drawn[gizmo].look
      /\ \A o \in Objects : o # gizmo => drawn'[o] = drawn[o] /\ store'[o] = store[o]
  BY <1>1 DEF IInv, TypeOK
<1>3. \A o \in Objects : Pending(KindOf[o]) => Pending(KindOf[o])'
  BY <1>1, DueStays
<1>4. Pending(KindOf[gizmo])' BY <1>1 DEF Pending, Started
<1>5. \A o \in Objects : drawn'[o].look = drawn[o].look BY <1>2
<1>6. MeshesHaveModels'
  <2>1. \A k \in {"pedestrian", "building"} : Of[k] \subseteq Objects
    BY ObjectFacts, KindsFacts
  <2> QED BY <1>1, <1>2, <1>5, <2>1 DEF SInv, MeshesHaveModels
<1>7. HeldIsShown' BY <1>1, <1>2, ObjectFacts DEF SInv, HeldIsShown
<1>8. SyncedIsShown' BY <1>1, <1>2 DEF SInv, SyncedIsShown
<1>9. MeshesAreSettled' BY <1>1, <1>2, <1>3, <1>4 DEF SInv, MeshesAreSettled
<1>10. UndrawnLidarsAreNew'
  <2>1. \A o \in Lidars : o \in Objects /\ CarOf[o] \in Objects /\ KindOf[o] = "lidar"
    BY KindFacts, LidarFacts
  <2> QED BY <1>1, <1>2, <1>3, <1>5, <2>1 DEF SInv, UndrawnLidarsAreNew
<1>11. RestIsDue' BY <1>1, <1>2, <1>3, <1>4 DEF SInv, RestIsDue
<1> QED BY <1>6, <1>7, <1>8, <1>9, <1>10, <1>11 DEF SInv

\* The alignment changes the store alone.
LEMMA SceneAlign ==
  ASSUME IInv, SInv, NEW c \in Objects, Align(c) PROVE SInv'
<1>1. /\ Rendered /\ c \in Cars
      /\ store' = [store EXCEPT ![c] = @ + 1] /\ store[c] \in 1..(MaxVer - 1)
      /\ due' = due \cup {KindOf[c]}
      /\ UNCHANGED <<drawn, synced, model, jobs, gizmo, dragging, selected, late>>
  BY DEF Align, Changed
<1>2. /\ store'[c] = store[c] + 1
      /\ \A o \in Objects : o # c => store'[o] = store[o]
  BY <1>1 DEF IInv, TypeOK
<1>3. \A o \in Objects : Pending(KindOf[o]) => Pending(KindOf[o])'
  BY <1>1, DueStays
<1>4. Pending(KindOf[c])' BY <1>1 DEF Pending, Started
<1>5. MeshesHaveModels' BY <1>1 DEF SInv, MeshesHaveModels
<1>6. HeldIsShown'
  BY <1>1, <1>2, KindsApart, ObjectFacts DEF SInv, HeldIsShown
<1>7. SyncedIsShown'
  <2>1. drawn[c].look # "none" => synced[c] \in {0, store[c]}
    BY <1>1, AtRenderedFacts, KindsApart
  <2> QED BY <1>1, <1>2, <2>1 DEF SInv, SyncedIsShown
<1>8. MeshesAreSettled' BY <1>1, <1>2, <1>3, <1>4 DEF SInv, MeshesAreSettled
<1>9. UndrawnLidarsAreNew'
  <2>1. \A o \in Lidars : o \in Objects /\ o # c /\ KindOf[o] = "lidar"
    BY <1>1, KindFacts, LidarFacts, KindsApart
  <2> QED BY <1>1, <1>2, <1>3, <2>1 DEF SInv, UndrawnLidarsAreNew
<1>10. RestIsDue' BY <1>1, <1>2, <1>3, <1>4 DEF SInv, RestIsDue
<1> QED BY <1>5, <1>6, <1>7, <1>8, <1>9, <1>10 DEF SInv

\* Steps that neither draw nor change the store.
LEMMA SceneFrame ==
  ASSUME SInv, UNCHANGED <<store, drawn, synced, model, due, jobs, late>>
  PROVE  MeshesHaveModels' /\ SyncedIsShown' /\ MeshesAreSettled'
         /\ UndrawnLidarsAreNew' /\ RestIsDue'
<1>1. \A k : Pending(k)' <=> Pending(k) BY DEF Pending, Started
<1> QED BY <1>1 DEF SInv, MeshesHaveModels, SyncedIsShown, MeshesAreSettled,
           UndrawnLidarsAreNew, RestIsDue

LEMMA SceneDragEnd ==
  ASSUME IInv, SInv, DragEnd PROVE SInv'
<1>1. HeldIsShown' BY DEF DragEnd, SInv, HeldIsShown
<1> QED BY <1>1, SceneFrame DEF DragEnd, SInv

LEMMA SceneAttach ==
  ASSUME IInv, IInv', SInv, Attach PROVE SInv'
<1>1. /\ UNCHANGED <<store, drawn, synced, model, due, jobs, dragging, selected, late>>
      /\ gizmo' \in {gizmo, NoOne, selected}
  BY DEF Attach
<1>2. HeldIsShown' BY <1>1, PassKeepsShown
<1> QED BY <1>1, <1>2, SceneFrame DEF SInv

-----------------------------------------------------------------------------
(* The hooks and the models.                                               *)

\* A pass over the kinds of objects in S: what it says of the other meshes.
LEMMA OtherKinds ==
  ASSUME IInv, SInv, NEW k \in Kinds, k # "car", due \subseteq due', jobs' = jobs \ {k},
         UNCHANGED <<store, model>>, late \subseteq late', late' \subseteq late \cup {k},
         NEW o \in Objects, o \notin Of[k],
         drawn'[o] = drawn[o], synced'[o] = synced[o]
  PROVE  /\ drawn'[o].look # "none" /\ ~Pending(KindOf[o])' =>
              store[o] # 0 /\ drawn'[o].ver = store[o] /\ synced'[o] \in {0, store[o]}
         /\ \/ Pending(KindOf[o])' \/ KindOf[o] \in late' \/ drawn'[o].ver = store[o]
            \/ KindOf[o] \in {"car", "lidar"} /\ model[KindOf[o]] = "loading"
<1>1. KindOf[o] # k BY KindFacts
<1>2. Pending(KindOf[o]) => Pending(KindOf[o])' BY <1>1, DueStays
<1> QED BY <1>2 DEF SInv, MeshesAreSettled, RestIsDue

\* A pass over the meshes of a kind draws them as they are stored; lidars aside.
LEMMA SceneAfterPass ==
  ASSUME IInv, IInv', SInv, NEW k \in {"pedestrian", "rsu", "building"},
         due \subseteq due', jobs' = jobs \ {k},
         UNCHANGED <<store, model, dragging, selected>>, gizmo' \in {gizmo, NoOne},
         late \subseteq late', late' \subseteq late \cup {k},
         model[k] # "loading",
         \A o \in Objects : o \notin Of[k] =>
           drawn'[o] = drawn[o] /\ synced'[o] = synced[o],
         \A o \in Of[k] :
           \/ drawn'[o].ver = store[o]
              /\ (drawn'[o].look = "none" <=> store[o] = 0)
              /\ (drawn'[o].look # "none" => synced'[o] \in {0, store[o]})
           \/ drawn'[o].look = "none" /\ drawn'[o].ver = 0 /\ k \in late',
         \A o \in Of[k] : drawn'[o].look # "none" =>
           model[k] = "ready" \/ k = "rsu",
         k = "rsu" /\ model["rsu"] # "ready" => \A o \in Rsus : synced'[o] = synced[o]
  PROVE  SInv'
<1>1. k \in Kinds /\ Of[k] \subseteq Objects BY KindsFacts, ObjectFacts
<1>2. \A o \in Of[k] : KindOf[o] = k BY <1>1, KindFacts
<1>3. \A o \in Cars \cup Lidars : o \in Objects /\ o \notin Of[k]
  BY KindsFacts, KindsApart, ObjectFacts
<1>4. HeldIsShown' /\ SyncedIsShown'
  <2>1. \A o \in Objects : \/ drawn'[o] = drawn[o] /\ synced'[o] = synced[o]
                           \/ drawn'[o].ver = store[o] \/ drawn'[o].look = "none"
    OBVIOUS
  <2> QED BY <2>1, PassKeepsShown
<1>5. MeshesHaveModels'
  <2>1. \A o \in Objects : drawn'[o].look = "none" => drawn'[o].ver = 0
    BY DEF SInv, MeshesHaveModels
  <2>2. "car" \notin late' BY DEF SInv, MeshesHaveModels
  <2>3. ASSUME NEW l \in {"pedestrian", "building"}, model[l] # "ready", NEW o \in Of[l]
        PROVE  drawn'[o].look = "none"
    <3>1. CASE l = k BY <2>3, <3>1
    <3>2. CASE l # k
      <4>1. o \in Objects /\ o \notin Of[k]
        BY <2>3, <3>2, <1>1, KindsFacts, ObjectFacts, ObjectAssumption
      <4> QED BY <2>3, <4>1 DEF SInv, MeshesHaveModels
    <3> QED BY <3>1, <3>2
  <2>4. ASSUME model["rsu"] # "ready", NEW o \in Rsus PROVE synced'[o] = 0
    <3>1. synced[o] = 0 BY <2>4 DEF SInv, MeshesHaveModels
    <3>2. CASE k = "rsu" BY <2>4, <3>1, <3>2
    <3>3. CASE k # "rsu"
      <4>1. o \in Objects /\ o \notin Of[k]
        BY <3>3, KindsFacts, KindsApart, ObjectFacts
      <4> QED BY <3>1, <4>1
    <3> QED BY <3>2, <3>3
  <2>5. model["car"] = "loading" => \A o \in Lidars : synced'[o] = 0
    BY <1>3 DEF SInv, MeshesHaveModels
  <2>6. model["car"] # "failed" /\ model["lidar"] # "failed"
    BY DEF SInv, MeshesHaveModels
  <2> QED BY <2>1, <2>2, <2>3, <2>4, <2>5, <2>6 DEF MeshesHaveModels
<1>6. ASSUME NEW o \in Objects, o \in Of[k]
      PROVE  /\ drawn'[o].look # "none" =>
                  store[o] # 0 /\ drawn'[o].ver = store[o] /\ synced'[o] \in {0, store[o]}
             /\ KindOf[o] \in late' \/ drawn'[o].ver = store[o]
  BY <1>2, <1>6
<1>7. k # "car" OBVIOUS
<1>8. MeshesAreSettled' BY <1>1, <1>6, <1>7, OtherKinds DEF MeshesAreSettled
<1>9. RestIsDue' BY <1>1, <1>6, <1>7, OtherKinds DEF RestIsDue
<1>10. UndrawnLidarsAreNew'
  <2>1. \A o \in Lidars : CarOf[o] \in Cars BY LidarFacts
  <2>2. Pending("lidar") => Pending("lidar")' BY DueStays
  <2> QED BY <1>3, <2>1, <2>2 DEF SInv, UndrawnLidarsAreNew
<1> QED BY <1>4, <1>5, <1>8, <1>9, <1>10 DEF SInv

LEMMA PassShows ==
  ASSUME IInv, SInv, NEW S, NEW look \in {"model", "fallback"}, NEW o \in Objects
  PROVE  /\ o \notin S => Pass(S, look)[o] = drawn[o]
         /\ o \in S => Pass(S, look)[o].ver = store[o]
         /\ o \in S => (Pass(S, look)[o].look = "none" <=> store[o] = 0)
<1>1. Pass(S, look)[o] = IF o \in S THEN Mesh(o, look) ELSE drawn[o] BY DEF Pass
<1> QED BY <1>1, MeshIsShown

LEMMA SceneRsuSync ==
  ASSUME IInv, IInv', SInv, RsuSync PROVE SInv'
<1>1. PICK look \in {"model", "fallback"} :
        /\ look = IF model["rsu"] = "ready" THEN "model" ELSE "fallback"
        /\ drawn' = Pass(Rsus, look)
        /\ gizmo' = LeavesMesh(Rsus, Pass(Rsus, look))
        /\ Graph(Pass(Rsus, look), due)
        /\ synced' = IF look = "model" THEN Record(Rsus) ELSE synced
  BY DEF RsuSync
<1>2. /\ model["rsu"] # "loading" /\ jobs' = jobs \ {"rsu"}
      /\ UNCHANGED <<store, model, dragging, selected, late>>
  BY DEF RsuSync
<1>3. gizmo' \in {gizmo, NoOne} BY <1>1 DEF LeavesMesh
<1>4. due \subseteq due' BY <1>1, GraphDraws
<1>5. Of["rsu"] = Rsus BY KindsFacts
<1>6. \A o \in Objects : o \notin Rsus => drawn'[o] = drawn[o] /\ synced'[o] = synced[o]
  BY <1>1, PassShows DEF Record
<1>7. \A o \in Rsus : /\ drawn'[o].ver = store[o]
                      /\ drawn'[o].look = "none" <=> store[o] = 0
  BY <1>1, PassShows, ObjectFacts
<1>8. \A o \in Rsus : synced'[o] \in {0, store[o]}
  BY <1>1, ObjectFacts DEF Record, SInv, MeshesHaveModels
<1>9. model["rsu"] # "ready" => \A o \in Rsus : synced'[o] = synced[o]
  BY <1>1
<1> QED BY <1>2, <1>3, <1>4, <1>5, <1>6, <1>7, <1>8, <1>9, SceneAfterPass

LEMMA SceneBuildingSync ==
  ASSUME IInv, IInv', SInv, BuildingSync PROVE SInv'
<1>1. /\ drawn' = Pass(Buildings, "model")
      /\ gizmo' = LeavesMesh(Buildings, Pass(Buildings, "model"))
      /\ Graph(Pass(Buildings, "model"), due)
      /\ synced' = Record(Buildings)
      /\ model["building"] = "ready" /\ jobs' = jobs \ {"building"}
      /\ UNCHANGED <<store, model, dragging, selected, late>>
  BY DEF BuildingSync
<1>2. gizmo' \in {gizmo, NoOne} BY <1>1 DEF LeavesMesh
<1>3. due \subseteq due' BY <1>1, GraphDraws
<1>4. Of["building"] = Buildings BY KindsFacts
<1>5. \A o \in Objects : o \notin Buildings =>
        drawn'[o] = drawn[o] /\ synced'[o] = synced[o]
  BY <1>1, PassShows DEF Record
<1>6. \A o \in Buildings : /\ drawn'[o].ver = store[o]
                           /\ drawn'[o].look = "none" <=> store[o] = 0
                           /\ synced'[o] = store[o]
  BY <1>1, PassShows, ObjectFacts DEF Record
<1> QED BY <1>1, <1>2, <1>3, <1>4, <1>5, <1>6, SceneAfterPass

LEMMA ScenePedestrianSync ==
  ASSUME IInv, IInv', SInv, PedestrianSync PROVE SInv'
<1> DEFINE pass == [o \in Objects |-> IF o \in Pedestrians THEN PedestrianMesh(o)
                                      ELSE drawn[o]]
<1>1. /\ drawn' = pass /\ Graph(pass, due)
      /\ synced' = [o \in Objects |->
            IF o \in Pedestrians /\ pass[o].look # "none" THEN store[o] ELSE synced[o]]
      /\ model["pedestrian"] # "loading" /\ jobs' = jobs \ {"pedestrian"}
      /\ late' = IF model["pedestrian"] = "ready" THEN late ELSE late \cup {"pedestrian"}
      /\ UNCHANGED <<store, model, gizmo, dragging, selected>>
  BY DEF PedestrianSync
<1>2. due \subseteq due' BY <1>1, GraphDraws
<1>3. Of["pedestrian"] = Pedestrians BY KindsFacts
<1>4. \A o \in Objects : o \notin Pedestrians =>
        drawn'[o] = drawn[o] /\ synced'[o] = synced[o]
  BY <1>1
<1>5. ASSUME NEW o \in Pedestrians
      PROVE  /\ \/ /\ drawn'[o].ver = store[o]
                   /\ drawn'[o].look = "none" <=> store[o] = 0
                \/ /\ drawn'[o].look = "none" /\ drawn'[o].ver = 0
                   /\ "pedestrian" \in late'
             /\ drawn'[o].look # "none" => synced'[o] = store[o]
             /\ drawn'[o].look # "none" => model["pedestrian"] = "ready"
             /\ synced'[o] \in {store[o], synced[o]}
  <2>1. o \in Objects BY ObjectFacts
  <2>2. drawn'[o] = PedestrianMesh(o) BY <1>1, <2>1
  <2>3. store[o] = 0 => gizmo # o BY <2>1, ObjectFacts DEF IInv, HeldIsThere
  <2>4. /\ Mesh(o, "model").ver = store[o]
        /\ Mesh(o, "model").look # "none" <=> store[o] # 0
    BY <2>1, MeshIsShown
  <2>5. drawn[o].look # "none" => model["pedestrian"] = "ready"
    BY <1>3 DEF SInv, MeshesHaveModels
  <2>6. CASE drawn[o].look = "none" /\ model["pedestrian"] # "ready"
    <3>1. drawn'[o] = Absent BY <2>2, <2>3, <2>6 DEF PedestrianMesh
    <3>2. "pedestrian" \in late' BY <1>1, <2>6
    <3>3. synced'[o] = synced[o] BY <1>1, <2>1, <3>1 DEF Absent
    <3> QED BY <3>1, <3>2, <3>3 DEF Absent
  <2>7. CASE ~(drawn[o].look = "none" /\ model["pedestrian"] # "ready")
    <3>1. drawn'[o] = Mesh(o, "model") BY <2>2, <2>3, <2>7 DEF PedestrianMesh
    <3>2. synced'[o] = IF drawn'[o].look # "none" THEN store[o] ELSE synced[o]
      BY <1>1, <2>1
    <3> QED BY <2>4, <2>5, <2>7, <3>1, <3>2
  <2> QED BY <2>6, <2>7
<1> HIDE DEF pass
<1> QED BY <1>1, <1>2, <1>3, <1>4, <1>5, SceneAfterPass

\* A building that is given up has no mesh, as its model is not there.
LEMMA SceneBuildingGivesUp ==
  ASSUME IInv, SInv, BuildingGivesUp PROVE SInv'
<1>1. /\ UNCHANGED <<store, drawn, synced, model, due, gizmo, dragging, selected>>
      /\ jobs' = jobs \ {"building"} /\ late' = late \cup {"building"}
      /\ model["building"] = "loading"
  BY DEF BuildingGivesUp
<1>2. \A o \in Buildings : o \in Objects /\ KindOf[o] = "building"
                           /\ drawn[o].look = "none"
  BY <1>1, KindFacts, KindsFacts, ObjectFacts DEF SInv, MeshesHaveModels
<1>3. MeshesHaveModels' BY <1>1 DEF SInv, MeshesHaveModels
<1>4. HeldIsShown' /\ SyncedIsShown' BY <1>1 DEF SInv, HeldIsShown, SyncedIsShown
<1>5. ASSUME NEW o \in Objects, o \notin Buildings
      PROVE  /\ drawn'[o].look # "none" /\ ~Pending(KindOf[o])' =>
                  store[o] # 0 /\ drawn'[o].ver = store[o] /\ synced'[o] \in {0, store[o]}
             /\ \/ Pending(KindOf[o])' \/ KindOf[o] \in late' \/ drawn'[o].ver = store[o]
                \/ KindOf[o] \in {"car", "lidar"} /\ model[KindOf[o]] = "loading"
  BY <1>1, <1>5, KindsFacts, OtherKinds
<1>6. MeshesAreSettled' BY <1>1, <1>2, <1>5 DEF MeshesAreSettled
<1>7. RestIsDue' BY <1>1, <1>2, <1>5 DEF RestIsDue
<1>8. UndrawnLidarsAreNew'
  <2>1. Pending("lidar") => Pending("lidar")' BY <1>1, DueStays
  <2> QED BY <1>1, <2>1 DEF SInv, UndrawnLidarsAreNew
<1> QED BY <1>3, <1>4, <1>6, <1>7, <1>8 DEF SInv

\* A model that arrives, or fails, draws nothing by itself.
LEMMA SceneOtherModel ==
  ASSUME IInv, SInv, NEW k \in Kinds, OtherModel(k) PROVE SInv'
<1>1. /\ UNCHANGED <<store, drawn, synced, due, jobs, gizmo, dragging, selected, late>>
      /\ k \in {"pedestrian", "rsu", "building"} /\ model[k] = "loading"
      /\ \E result \in {"ready", "failed"} : model' = [model EXCEPT ![k] = result]
  BY DEF OtherModel
<1>2. \A l \in Kinds : l # k => model'[l] = model[l] BY <1>1 DEF IInv, TypeOK
<1>3. model'["car"] = model["car"] /\ model'["lidar"] = model["lidar"]
  BY <1>1, <1>2, KindsFacts
<1>4. \A l : Pending(l)' <=> Pending(l) BY <1>1 DEF Pending, Started
<1>5. MeshesHaveModels'
  <2>1. \A l \in {"pedestrian", "building", "rsu"} :
          model'[l] # "ready" => model[l] # "ready"
    BY <1>1, <1>2, KindsFacts
  <2> QED BY <1>1, <1>3, <2>1 DEF SInv, MeshesHaveModels
<1>6. HeldIsShown' /\ SyncedIsShown' BY <1>1 DEF SInv, HeldIsShown, SyncedIsShown
<1>7. MeshesAreSettled' /\ UndrawnLidarsAreNew'
  BY <1>1, <1>4 DEF SInv, MeshesAreSettled, UndrawnLidarsAreNew
<1>8. RestIsDue' BY <1>1, <1>3, <1>4 DEF SInv, RestIsDue
<1> QED BY <1>5, <1>6, <1>7, <1>8 DEF SInv

\* A car of the store that no pass is due for is drawn, or its model is awaited.
LEMMA CarIsDrawn ==
  ASSUME IInv, SInv, NEW c \in Cars, store[c] # 0, "car" \notin due,
         model["car"] # "loading"
  PROVE  drawn[c].look # "none"
<1>1. c \in Objects /\ KindOf[c] = "car" BY KindFacts, ObjectFacts
<1>2. ~Pending("car") BY DEF Pending, Started, IInv, TypeOK
<1>3. drawn[c].ver = store[c]
  BY <1>1, <1>2 DEF SInv, RestIsDue, MeshesHaveModels
<1> QED BY <1>1, <1>3 DEF SInv, MeshesHaveModels

\* A lidar without a mesh has no car to be drawn in: that car is awaited.
LEMMA SceneLidarSync ==
  ASSUME IInv, IInv', SInv, LidarSync PROVE SInv'
<1> DEFINE pass == [o \in Objects |-> IF o \in Lidars THEN LidarMesh(o) ELSE drawn[o]]
<1>1. /\ drawn' = pass /\ Graph(pass, due)
      /\ synced' = [o \in Objects |->
            IF o \in Lidars /\ pass[o].look # "none" THEN store[o] ELSE synced[o]]
      /\ jobs' = jobs \ {"lidar"} /\ ~Started("lidar")
      /\ late' = IF model["car"] = "loading" /\ model["lidar"] = "ready"
                 THEN late \cup {"lidar"} ELSE late
      /\ UNCHANGED <<store, model, gizmo, dragging, selected>>
  BY DEF LidarSync, Current
<1>2. due \subseteq due' BY <1>1, GraphDraws
<1>3. \A o \in Objects : o \notin Lidars =>
        drawn'[o] = drawn[o] /\ synced'[o] = synced[o]
  BY <1>1
<1>4. ASSUME NEW o \in Lidars
      PROVE  /\ o \in Objects /\ KindOf[o] = "lidar"
             /\ drawn'[CarOf[o]] = drawn[CarOf[o]]
             /\ drawn[CarOf[o]].look = "none" =>
                  drawn'[o] = Absent /\ synced'[o] = synced[o]
             /\ drawn[CarOf[o]].look # "none" =>
                  /\ drawn'[o].ver = store[o]
                  /\ drawn'[o].look # "none" <=> store[o] # 0
                  /\ drawn'[o].look # "none" => synced'[o] = store[o]
  <2>1. o \in Objects /\ KindOf[o] = "lidar" BY KindFacts, ObjectFacts
  <2>2. drawn'[CarOf[o]] = drawn[CarOf[o]] BY <1>3, LidarFacts, KindsApart
  <2>3. drawn'[o] = LidarMesh(o) BY <1>1, <2>1
  <2>4. synced'[o] = IF drawn'[o].look # "none" THEN store[o] ELSE synced[o]
    BY <1>1, <2>1
  <2>5. /\ Mesh(o, "model").ver = store[o]
        /\ Mesh(o, "model").look # "none" <=> store[o] # 0
    BY <2>1, MeshIsShown
  <2> QED BY <2>1, <2>2, <2>3, <2>4, <2>5 DEF LidarMesh, Absent
<1> HIDE DEF pass
<1>5. HeldIsShown' /\ SyncedIsShown'
  <2>1. ASSUME NEW o \in Objects
        PROVE  \/ drawn'[o] = drawn[o] /\ synced'[o] = synced[o]
               \/ drawn'[o].ver = store[o] \/ drawn'[o].look = "none"
    BY <1>3, <1>4 DEF Absent
  <2> QED BY <1>1, <2>1, PassKeepsShown
<1>6. MeshesHaveModels'
  <2>1. ASSUME NEW o \in Objects, drawn'[o].look = "none" PROVE drawn'[o].ver = 0
    <3>1. CASE o \in Lidars BY <1>4, <2>1, <3>1 DEF Absent
    <3>2. CASE o \notin Lidars BY <1>3, <2>1, <3>2 DEF SInv, MeshesHaveModels
    <3> QED BY <3>1, <3>2
  <2>2. \A k \in {"pedestrian", "building"} : \A o \in Of[k] : drawn'[o] = drawn[o]
    BY <1>3, KindsFacts, KindsApart, ObjectFacts
  <2>3. \A o \in Rsus : synced'[o] = synced[o] BY <1>3, KindsApart, ObjectFacts
  <2>4. model["car"] = "loading" => \A o \in Lidars : synced'[o] = 0
    BY <1>4, LidarFacts DEF IInv, LooksFollowModels, SInv, MeshesHaveModels
  <2>5. "car" \notin late' BY <1>1 DEF SInv, MeshesHaveModels
  <2> QED BY <1>1, <2>1, <2>2, <2>3, <2>4, <2>5 DEF SInv, MeshesHaveModels
<1>7. ASSUME NEW o \in Objects, o \notin Lidars
      PROVE  /\ drawn'[o].look # "none" /\ ~Pending(KindOf[o])' =>
                  store[o] # 0 /\ drawn'[o].ver = store[o] /\ synced'[o] \in {0, store[o]}
             /\ \/ Pending(KindOf[o])' \/ KindOf[o] \in late' \/ drawn'[o].ver = store[o]
                \/ KindOf[o] \in {"car", "lidar"} /\ model[KindOf[o]] = "loading"
  <2>1. late \subseteq late' /\ late' \subseteq late \cup {"lidar"} BY <1>1
  <2>2. UNCHANGED <<store, model>> /\ jobs' = jobs \ {"lidar"} BY <1>1
  <2> QED BY <1>2, <1>3, <1>7, <2>1, <2>2, KindsFacts, OtherKinds
<1>8. MeshesAreSettled'
  <2> SUFFICES ASSUME NEW o \in Objects, drawn'[o].look # "none", ~Pending(KindOf[o])'
      PROVE  store'[o] # 0 /\ drawn'[o].ver = store'[o] /\ synced'[o] \in {0, store'[o]}
    BY DEF MeshesAreSettled
  <2>1. CASE o \in Lidars BY <1>1, <1>4, <2>1 DEF Absent
  <2>2. CASE o \notin Lidars BY <1>1, <1>7, <2>2
  <2> QED BY <2>1, <2>2
<1>9. UndrawnLidarsAreNew' BY <1>1, <1>4 DEF UndrawnLidarsAreNew
<1>10. ASSUME NEW o \in Lidars
       PROVE  \/ "lidar" \in late' \/ drawn'[o].ver = store[o]
              \/ model["lidar"] = "loading"
  <2> SUFFICES ASSUME drawn[CarOf[o]].look = "none", store[o] # 0
      PROVE  "lidar" \in late' \/ model["lidar"] = "loading"
    BY <1>4 DEF Absent
  <2>1. CarOf[o] \in Cars /\ store[CarOf[o]] # 0
    BY LidarFacts DEF IInv, LidarsHaveCars
  <2>2. "car" \notin due BY <1>1 DEF Started
  <2>3. model["car"] = "loading" BY <2>1, <2>2, CarIsDrawn
  <2>4. model["lidar"] \in {"loading", "ready"}
    BY KindsFacts DEF IInv, TypeOK, SInv, MeshesHaveModels
  <2> QED BY <1>1, <2>3, <2>4
<1>11. RestIsDue' BY <1>1, <1>4, <1>7, <1>10 DEF RestIsDue
<1> QED BY <1>5, <1>6, <1>8, <1>9, <1>11 DEF SInv

\* The timer of the map draws the lidars of the cars that are there; without the
\* cars' model the others wait for a change.
LEMMA SceneRestoreLidars ==
  ASSUME IInv, IInv', SInv, RestoreLidars PROVE SInv'
<1>1. /\ drawn' = [o \in Objects |->
             IF o \in Lidars /\ store[o] # 0 /\ drawn[o].look = "none"
                /\ drawn[CarOf[o]].look # "none"
             THEN Fresh(o, "model") ELSE drawn[o]]
      /\ Graph(drawn', due)
      /\ model' = [model EXCEPT !["lidar"] = "ready"]
      /\ late' = IF model["car"] = "ready" THEN late ELSE late \cup {"lidar"}
      /\ UNCHANGED <<store, synced, jobs, gizmo, dragging, selected>>
  BY DEF RestoreLidars
<1>2. \A k : Pending(k) => Pending(k)' BY <1>1, GraphDraws, DueStays
<1>3. /\ model'["lidar"] = "ready"
      /\ \A k \in Kinds : k # "lidar" => model'[k] = model[k]
  BY <1>1, KindsFacts DEF IInv, TypeOK
<1>4. \A o \in Objects :
        \/ drawn'[o] = drawn[o]
        \/ /\ o \in Lidars /\ store[o] # 0 /\ drawn[o].look = "none"
           /\ drawn[CarOf[o]].look # "none"
           /\ drawn'[o].ver = store[o] /\ drawn'[o].look = "model"
  BY <1>1 DEF Fresh
<1>5. \A o \in Objects : o \notin Lidars => drawn'[o] = drawn[o] BY <1>4
<1>6. \A o \in Lidars : o \in Objects /\ KindOf[o] = "lidar" /\ CarOf[o] \in Cars
                        /\ drawn'[CarOf[o]] = drawn[CarOf[o]]
  BY <1>5, KindFacts, LidarFacts, KindsApart
<1>7. HeldIsShown' /\ SyncedIsShown' BY <1>1, <1>4, PassKeepsShown
<1>8. MeshesHaveModels'
  <2>1. \A o \in Objects : drawn'[o].look = "none" => drawn'[o].ver = 0
    BY <1>4 DEF SInv, MeshesHaveModels
  <2>2. \A k \in {"pedestrian", "building"} : \A o \in Of[k] : drawn'[o] = drawn[o]
    BY <1>5, KindsFacts, KindsApart, ObjectFacts
  <2>3. "car" \notin late' BY <1>1 DEF SInv, MeshesHaveModels
  <2>4. \A k \in {"car", "pedestrian", "building", "rsu"} : model'[k] = model[k]
    BY <1>3, KindsFacts
  <2> QED BY <1>1, <1>3, <2>1, <2>2, <2>3, <2>4 DEF SInv, MeshesHaveModels
<1>9. MeshesAreSettled'
  <2> SUFFICES ASSUME NEW o \in Objects, drawn'[o].look # "none", ~Pending(KindOf[o])'
      PROVE  store[o] # 0 /\ drawn'[o].ver = store[o] /\ synced[o] \in {0, store[o]}
    BY <1>1 DEF MeshesAreSettled
  <2>1. CASE drawn'[o] = drawn[o] BY <1>2, <2>1 DEF SInv, MeshesAreSettled
  <2>2. CASE drawn'[o] # drawn[o]
    BY <1>2, <1>4, <1>6, <2>2 DEF SInv, UndrawnLidarsAreNew
  <2> QED BY <2>1, <2>2
<1>10. UndrawnLidarsAreNew' BY <1>1, <1>6 DEF Fresh, UndrawnLidarsAreNew
<1>11. ASSUME NEW o \in Lidars
       PROVE  Pending("lidar")' \/ "lidar" \in late' \/ drawn'[o].ver = store[o]
  <2> SUFFICES ASSUME ~Pending("lidar"), model["car"] = "ready"
      PROVE  drawn'[o].ver = store[o]
    BY <1>1, <1>2
  <2>1. "car" \notin due BY DEF Pending, Started
  <2>2. CASE drawn[o].look # "none"
    BY <1>4, <1>6, <2>2 DEF SInv, MeshesAreSettled
  <2>3. CASE drawn[o].look = "none" /\ store[o] = 0
    BY <1>4, <1>6, <2>3 DEF SInv, MeshesHaveModels
  <2>4. CASE drawn[o].look = "none" /\ store[o] # 0
    <3>1. store[CarOf[o]] # 0 BY <2>4 DEF IInv, LidarsHaveCars
    <3>2. drawn[CarOf[o]].look # "none" BY <1>6, <2>1, <3>1, CarIsDrawn
    <3> QED BY <1>1, <1>6, <2>4, <3>2 DEF Fresh
  <2> QED BY <2>2, <2>3, <2>4
<1>12. RestIsDue'
  <2> SUFFICES ASSUME NEW o \in Objects
      PROVE  \/ Pending(KindOf[o])' \/ KindOf[o] \in late' \/ drawn'[o].ver = store[o]
             \/ KindOf[o] \in {"car", "lidar"} /\ model'[KindOf[o]] = "loading"
    BY <1>1 DEF RestIsDue
  <2>1. CASE o \in Lidars BY <1>6, <1>11, <2>1
  <2>2. CASE o \notin Lidars
    <3>1. KindOf[o] # "lidar" /\ KindOf[o] \in Kinds BY <2>2, KindFacts
    <3>2. late \subseteq late' BY <1>1
    <3> QED BY <1>2, <1>3, <1>5, <2>2, <3>1, <3>2 DEF SInv, RestIsDue
  <2> QED BY <2>1, <2>2
<1> QED BY <1>7, <1>8, <1>9, <1>10, <1>12 DEF SInv

\* The cars' model draws the cars; no lidar was ever drawn before.
LEMMA SceneCarModel ==
  ASSUME IInv, IInv', SInv, CarModel PROVE SInv'
<1>1. /\ drawn' = [o \in Objects |-> IF o \in Cars THEN Mesh(o, "model") ELSE drawn[o]]
      /\ Graph(drawn', due)
      /\ synced' = Record(Cars)
      /\ model["car"] = "loading" /\ model' = [model EXCEPT !["car"] = "ready"]
      /\ UNCHANGED <<store, jobs, gizmo, dragging, selected, late>>
  BY DEF CarModel
<1>2. \A k : Pending(k) => Pending(k)' BY <1>1, GraphDraws, DueStays
<1>3. /\ model'["car"] = "ready"
      /\ \A k \in Kinds : k # "car" => model'[k] = model[k]
  BY <1>1, KindsFacts DEF IInv, TypeOK
<1>4. \A o \in Objects : o \notin Cars => drawn'[o] = drawn[o] /\ synced'[o] = synced[o]
  BY <1>1 DEF Record
<1>5. ASSUME NEW o \in Cars
      PROVE  /\ drawn'[o].ver = store[o] /\ (drawn'[o].look # "none" <=> store[o] # 0)
             /\ synced'[o] = store[o]
  <2>1. o \in Objects BY ObjectFacts
  <2> QED BY <1>1, <2>1, MeshIsShown DEF Record
<1>6. \A o \in Lidars : o \in Objects /\ synced'[o] = 0
  BY <1>1, <1>4, LidarFacts, KindsApart DEF SInv, MeshesHaveModels
<1>7. HeldIsShown' /\ SyncedIsShown' BY <1>1, <1>4, <1>5, PassKeepsShown
<1>8. MeshesHaveModels'
  <2>1. \A o \in Objects : drawn'[o].look = "none" => drawn'[o].ver = 0
    BY <1>4, <1>5 DEF SInv, MeshesHaveModels
  <2>2. \A k \in {"pedestrian", "building"} : \A o \in Of[k] : drawn'[o] = drawn[o]
    BY <1>4, KindsFacts, KindsApart, ObjectFacts
  <2>3. \A o \in Rsus : synced'[o] = synced[o] BY <1>4, KindsApart, ObjectFacts
  <2>4. \A k \in {"lidar", "pedestrian", "building", "rsu"} : model'[k] = model[k]
    BY <1>3, KindsFacts
  <2> QED BY <1>1, <1>3, <2>1, <2>2, <2>3, <2>4 DEF SInv, MeshesHaveModels
<1>9. MeshesAreSettled'
  BY <1>1, <1>2, <1>4, <1>5 DEF SInv, MeshesAreSettled
<1>10. UndrawnLidarsAreNew' BY <1>6 DEF UndrawnLidarsAreNew
<1>11. RestIsDue'
  <2> SUFFICES ASSUME NEW o \in Objects
      PROVE  \/ Pending(KindOf[o])' \/ KindOf[o] \in late' \/ drawn'[o].ver = store[o]
             \/ KindOf[o] \in {"car", "lidar"} /\ model'[KindOf[o]] = "loading"
    BY <1>1 DEF RestIsDue
  <2>1. CASE o \in Cars BY <1>5, <2>1
  <2>2. CASE o \notin Cars
    <3>1. KindOf[o] # "car" /\ KindOf[o] \in Kinds BY <2>2, KindFacts
    <3> QED BY <1>1, <1>2, <1>3, <1>4, <2>2, <3>1 DEF SInv, RestIsDue
  <2> QED BY <2>1, <2>2
<1> QED BY <1>7, <1>8, <1>9, <1>10, <1>11 DEF SInv

\* What is due before a render is under way after it, the cars' pass aside, which
\* is over.
LEMMA RenderFacts ==
  ASSUME IInv, Render
  PROVE  /\ \A k \in Kinds : k # "car" => (Pending(k)' <=> Pending(k))
         /\ \A k \in Kinds : k \in late => k \in late' \/ Started(k)
         /\ late' \subseteq late
         /\ \A k \in Kinds : k # "pedestrian" => model'[k] = model[k]
         /\ model["pedestrian"] = "ready" => model'["pedestrian"] = "ready"
         /\ gizmo' \in {gizmo, NoOne, selected}
         /\ Pending("car") => "car" \in due
<1>1. /\ jobs' = jobs \cup {k \in Kinds \ {"car"} : Started(k)} /\ due' = {}
      /\ late' = {k \in late : ~Started(k)} /\ gizmo' = Selection(CarPass)
      /\ model' = IF "pedestrian" \in due /\ model["pedestrian"] = "failed"
                  THEN [model EXCEPT !["pedestrian"] = "loading"] ELSE model
  BY DEF Render, Restarted
<1>2. \A k : ~Started(k)' BY <1>1 DEF Started
<1>3. gizmo' \in {gizmo, NoOne, selected} BY <1>1, SelectionFacts
<1>4. \A k \in Kinds : k # "pedestrian" => model'[k] = model[k]
  BY <1>1, KindsFacts DEF IInv, TypeOK
<1>5. model["pedestrian"] = "ready" => model'["pedestrian"] = "ready"
  BY <1>1
<1>6. Pending("car") => "car" \in due BY DEF Pending, Started, IInv, TypeOK
<1> QED BY <1>1, <1>2, <1>3, <1>4, <1>5, <1>6 DEF Pending

\* What a render leaves of the meshes.
LEMMA RenderDraws ==
  ASSUME IInv, SInv, Render, NEW o \in Objects
  PROVE  /\ \/ drawn'[o] = drawn[o] /\ synced'[o] = synced[o]
               /\ (o \in Cars => "car" \notin due \/ model["car"] = "loading")
            \/ /\ o \in Cars /\ model["car"] = "ready"
               /\ drawn'[o].ver = store[o] /\ (drawn'[o].look # "none" <=> store[o] # 0)
               /\ synced'[o] = store[o]
            \/ o \in Lidars /\ "car" \in due /\ drawn'[o] = Absent
               /\ synced'[o] = synced[o]
         /\ o \in Cars => ("car" \notin due => drawn'[o] = drawn[o])
<1>1. drawn' = CarPass /\ synced' = CarRecord BY DEF Render
<1>2. model["car"] \in {"loading", "ready"}
  BY KindsFacts DEF IInv, TypeOK, SInv, MeshesHaveModels
<1>3. CASE "car" \in due /\ model["car"] = "ready"
  <2>1. drawn'[o] = IF o \in Cars THEN Mesh(o, "model")
                    ELSE IF o \in Lidars /\ store[CarOf[o]] = 0 THEN Absent ELSE drawn[o]
    BY <1>1, <1>3 DEF CarPass
  <2>2. synced'[o] = IF o \in Cars THEN store[o] ELSE synced[o]
    BY <1>1, <1>3 DEF CarRecord, Record
  <2>3. /\ Mesh(o, "model").ver = store[o]
        /\ Mesh(o, "model").look # "none" <=> store[o] # 0
    BY MeshIsShown
  <2> QED BY <1>3, <2>1, <2>2, <2>3
<1>4. CASE ~("car" \in due /\ model["car"] = "ready")
  BY <1>1, <1>2, <1>4 DEF CarPass, CarRecord
<1> QED BY <1>3, <1>4

\* A render with a change of the cars draws them, or finds that none can be drawn
\* yet.
LEMMA SceneRender ==
  ASSUME IInv, IInv', SInv, Render PROVE SInv'
<1>1. UNCHANGED <<store, dragging, selected>> BY DEF Render
<1>2. \A o \in Objects : drawn'[o].look = "none" => drawn'[o].ver = 0
  BY RenderDraws DEF SInv, MeshesHaveModels, Absent
<1>3. \A o \in Objects : o \notin Cars \cup Lidars =>
        drawn'[o] = drawn[o] /\ synced'[o] = synced[o]
  BY RenderDraws
<1>4. HeldIsShown' /\ SyncedIsShown'
  <2>1. \A o \in Objects : \/ drawn'[o] = drawn[o] /\ synced'[o] = synced[o]
                           \/ drawn'[o].ver = store[o] \/ drawn'[o].look = "none"
    BY RenderDraws DEF Absent
  <2> QED BY <1>1, <2>1, RenderFacts, PassKeepsShown
<1>5. MeshesHaveModels'
  <2>1. \A k \in {"pedestrian", "building"} : \A o \in Of[k] : drawn'[o] = drawn[o]
    BY <1>3, KindsFacts, KindsApart, ObjectFacts
  <2>2. \A o \in Rsus : synced'[o] = synced[o] BY <1>3, KindsApart, ObjectFacts
  <2>3. \A o \in Lidars : synced'[o] = synced[o]
    BY RenderDraws, KindsApart, ObjectFacts
  <2>4. \A k \in {"car", "lidar", "building", "rsu"} : model'[k] = model[k]
    BY RenderFacts, KindsFacts
  <2>5. "car" \notin late' BY RenderFacts DEF SInv, MeshesHaveModels
  <2>6. ASSUME NEW k \in {"pedestrian", "building"}, model'[k] # "ready", NEW o \in Of[k]
        PROVE  drawn'[o].look = "none"
    <3>1. model[k] # "ready"
      <4>1. CASE k = "pedestrian" BY <2>6, <4>1, RenderFacts
      <4>2. CASE k = "building" BY <2>4, <2>6, <4>2
      <4> QED BY <4>1, <4>2
    <3> QED BY <2>1, <2>6, <3>1 DEF SInv, MeshesHaveModels
  <2> QED BY <1>2, <2>2, <2>3, <2>4, <2>5, <2>6 DEF SInv, MeshesHaveModels
<1>6. \A o \in Objects : o \notin Cars =>
        /\ KindOf[o] # "car" /\ KindOf[o] \in Kinds
        /\ Pending(KindOf[o])' <=> Pending(KindOf[o])
  BY RenderFacts, KindFacts
<1>7. \A o \in Lidars : /\ KindOf[o] = "lidar" /\ o \in Objects /\ o \notin Cars
                        /\ "car" \in due => Pending("lidar")
  BY KindFacts, KindsApart, ObjectFacts DEF Pending, Started
<1>8. MeshesAreSettled'
  <2> SUFFICES ASSUME NEW o \in Objects, drawn'[o].look # "none", ~Pending(KindOf[o])'
      PROVE  store[o] # 0 /\ drawn'[o].ver = store[o] /\ synced'[o] \in {0, store[o]}
    BY <1>1 DEF MeshesAreSettled
  <2>1. CASE o \notin Cars
    <3>1. drawn'[o] = drawn[o] /\ synced'[o] = synced[o]
      BY <2>1, RenderDraws DEF Absent
    <3> QED BY <1>6, <2>1, <3>1 DEF SInv, MeshesAreSettled
  <2>2. CASE o \in Cars
    <3>1. KindOf[o] = "car" /\ o \notin Lidars BY <2>2, KindFacts, KindsApart
    <3>2. CASE drawn'[o] = drawn[o] /\ synced'[o] = synced[o]
               /\ ("car" \notin due \/ model["car"] = "loading")
      <4>1. model["car"] # "loading"
        BY <2>2, <3>2 DEF IInv, LooksFollowModels
      <4>2. ~Pending("car") BY <3>2, <4>1, RenderFacts
      <4> QED BY <3>1, <3>2, <4>2 DEF SInv, MeshesAreSettled
    <3>3. CASE drawn'[o].ver = store[o] /\ (drawn'[o].look # "none" <=> store[o] # 0)
               /\ synced'[o] = store[o]
      BY <3>3
    <3> QED BY <2>2, <3>1, <3>2, <3>3, RenderDraws
  <2> QED BY <2>1, <2>2
<1>9. UndrawnLidarsAreNew'
  <2> SUFFICES ASSUME NEW o \in Lidars, store[o] # 0, drawn'[o].look = "none",
                      drawn'[CarOf[o]].look # "none", ~Pending("lidar")'
      PROVE  synced'[o] = 0
    BY <1>1 DEF UndrawnLidarsAreNew
  <2>1. ~Pending("lidar") /\ "car" \notin due BY <1>6, <1>7
  <2>2. drawn'[o] = drawn[o] /\ synced'[o] = synced[o] BY <1>7, <2>1, RenderDraws
  <2>3. drawn'[CarOf[o]] = drawn[CarOf[o]] BY <2>1, LidarFacts, RenderDraws
  <2> QED BY <2>1, <2>2, <2>3 DEF SInv, UndrawnLidarsAreNew
<1>10. RestIsDue'
  <2> SUFFICES ASSUME NEW o \in Objects
      PROVE  \/ Pending(KindOf[o])' \/ KindOf[o] \in late' \/ drawn'[o].ver = store[o]
             \/ KindOf[o] \in {"car", "lidar"} /\ model'[KindOf[o]] = "loading"
    BY <1>1 DEF RestIsDue
  <2>1. CASE o \notin Cars
    <3>1. CASE drawn'[o] = drawn[o]
      <4>1. KindOf[o] \in late => KindOf[o] \in late' \/ Pending(KindOf[o])
        BY <1>6, <2>1, RenderFacts DEF Pending
      <4>2. KindOf[o] = "lidar" => model'[KindOf[o]] = model[KindOf[o]]
        BY RenderFacts, KindsFacts
      <4> QED BY <1>6, <2>1, <3>1, <4>1, <4>2 DEF SInv, RestIsDue
    <3>2. CASE o \in Lidars /\ "car" \in due BY <1>6, <1>7, <3>2
    <3> QED BY <2>1, <3>1, <3>2, RenderDraws
  <2>2. CASE o \in Cars
    <3>1. KindOf[o] = "car" /\ o \notin Lidars BY <2>2, KindFacts, KindsApart
    <3>2. model'["car"] = model["car"] BY RenderFacts, KindsFacts
    <3>3. CASE drawn'[o].ver = store[o] BY <3>3
    <3>4. CASE model["car"] = "loading" BY <3>1, <3>2, <3>4
    <3>5. CASE drawn'[o] = drawn[o] /\ "car" \notin due /\ model["car"] # "loading"
      <4>1. ~Pending("car") BY <3>5, RenderFacts
      <4> QED BY <3>1, <3>5, <4>1 DEF SInv, RestIsDue, MeshesHaveModels
    <3> QED BY <2>2, <3>1, <3>3, <3>4, <3>5, RenderDraws
  <2> QED BY <2>1, <2>2
<1> QED BY <1>4, <1>5, <1>8, <1>9, <1>10 DEF SInv

-----------------------------------------------------------------------------
(* The inductive invariant and the theorem.                                *)

LEMMA SceneInit == ASSUME Init PROVE SInv
<1>1. \A o \in Objects : drawn[o].look = "none" /\ drawn[o].ver = 0 /\ synced[o] = 0
  BY DEF Init, Absent
<1>2. \A k \in Kinds : Pending(k) /\ model[k] = "loading"
  BY DEF Init, Pending, Started
<1>3. MeshesHaveModels
  BY <1>1, <1>2, KindsFacts, ObjectFacts DEF Init, MeshesHaveModels
<1>4. HeldIsShown BY <1>1, ObjectFacts DEF Init, HeldIsShown
<1>5. SyncedIsShown /\ MeshesAreSettled /\ UndrawnLidarsAreNew
  BY <1>1, ObjectFacts DEF SyncedIsShown, MeshesAreSettled, UndrawnLidarsAreNew
<1>6. RestIsDue BY <1>2, KindFacts DEF RestIsDue
<1> QED BY <1>3, <1>4, <1>5, <1>6 DEF SInv

LEMMA SceneStep ==
  ASSUME IInv, IInv', SInv, ~Typed, [Next]_vars PROVE SInv'
<1>1. CASE Hooks
  BY <1>1, SceneRender, SceneRsuSync, SceneBuildingSync, ScenePedestrianSync,
     SceneLidarSync, SceneRestoreLidars DEF Hooks
<1>2. CASE Attach \/ BuildingGivesUp BY <1>2, SceneAttach, SceneBuildingGivesUp
<1>3. CASE Loaders BY <1>3, SceneCarModel, SceneOtherModel DEF Loaders
<1>4. CASE \E o \in Objects : Update(o) \/ Align(o) \/ Add(o) \/ Delete(o) \/ Undo(o)
  BY <1>4, SceneUpdate, SceneAlign, SceneAdd, SceneDelete, SceneUndo
<1>5. CASE \E o \in Objects \cup {NoOne} : Select(o) BY <1>5, SceneSelect
<1>6. CASE ClearScene BY <1>6, SceneClear
<1>7. CASE DragStart \/ DragMove \/ DragEnd
  BY <1>7, SceneDragStart, SceneDragMove, SceneDragEnd
<1>8. CASE UNCHANGED vars
  <2>1. UNCHANGED <<store, drawn, synced, model, due, jobs, late, gizmo, dragging, selected>>
    BY <1>8 DEF vars
  <2>2. HeldIsShown' BY <2>1 DEF SInv, HeldIsShown
  <2> QED BY <2>1, <2>2, SceneFrame DEF SInv
<1> QED BY <1>1, <1>2, <1>3, <1>4, <1>5, <1>6, <1>7, <1>8 DEF Next

-----------------------------------------------------------------------------
(* What is off its version was in the user's hand when it changed last, or *)
(* is about to be drawn.                                                   *)

\* No lidar or road-side unit is off, nor what is not drawn.
OthersAreExact ==
  /\ \A o \in Lidars \cup Rsus : drawn[o].off = {}
  /\ \A o \in Objects : drawn[o].look = "none" => drawn[o].off = {}

\* A mesh that is off, and has been changed since by other means, is due, will
\* not be skipped and is not in the hand; or it is, and is a car that is moved.
OffIsDue ==
  \A o \in Objects : drawn[o].off # {} /\ o \notin hand =>
    /\ Pending(KindOf[o])
    /\ store[o] = 0 \/ synced[o] # store[o]
    /\ dragging /\ gizmo = o => o \in Cars /\ mode = "translate"

\* A car that is turned and differs from the store has been aligned under the drag.
TurnedIsInHand ==
  dragging /\ gizmo \in Cars /\ mode = "rotate" /\ drawn[gizmo].ver # store[gizmo] =>
    gizmo \in hand

HInv == OthersAreExact /\ OffIsDue /\ TurnedIsInHand

\* Between events only what was in the hand is off.
LEMMA OffAtRendered ==
  ASSUME IInv, SInv, HInv, Rendered, NEW o \in Objects, drawn[o].off # {}
  PROVE  o \in hand
<1> SUFFICES ASSUME o \notin hand PROVE FALSE OBVIOUS
<1>1. Pending(KindOf[o]) /\ drawn[o].look # "none" /\ o \notin Lidars \cup Rsus
  BY DEF HInv, OffIsDue, OthersAreExact
<1>2. \A k : ~Started(k) BY DEF Rendered, Started
<1>3. KindOf[o] \in jobs BY <1>1, <1>2 DEF Pending
<1>4. KindOf[o] # "lidar" /\ KindOf[o] # "rsu" BY <1>1, KindFacts
<1>5. KindOf[o] # "car" BY <1>3 DEF IInv, TypeOK
<1>6. model[KindOf[o]] = "loading" BY <1>3, <1>4 DEF Rendered
<1>7. KindOf[o] \in {"pedestrian", "building"}
  BY <1>4, <1>5, KindFacts, KindsFacts
<1> QED BY <1>1, <1>6, <1>7, KindFacts DEF SInv, MeshesHaveModels

\* A pass leaves nothing off that was not in the hand.
LEMMA PassOff ==
  ASSUME IInv, SInv, HInv, NEW o \in Objects, NEW look \in {"model", "fallback"}
  PROVE  /\ Mesh(o, look).off # {} => o \in hand
         /\ o \in Lidars \cup Rsus => Mesh(o, look).off = {}
         /\ Mesh(o, look).look = "none" => Mesh(o, look).off = {}
<1>1. CASE store[o] = 0 BY <1>1 DEF Mesh, Absent
<1>2. CASE store[o] # 0 /\ drawn[o].look # look BY <1>2 DEF Mesh, Fresh
<1>3. CASE store[o] # 0 /\ drawn[o].look = look /\ synced[o] = store[o]
  BY <1>3 DEF Mesh, HInv, OffIsDue, OthersAreExact
<1>4. CASE store[o] # 0 /\ drawn[o].look = look /\ synced[o] # store[o] /\ ~Held(o)
  BY <1>4 DEF Mesh, Fresh
<1>5. CASE store[o] # 0 /\ drawn[o].look = look /\ synced[o] # store[o] /\ Held(o)
  <2>1. Mesh(o, look) = InHand(o) /\ InHand(o).look # "none"
    BY <1>5, InHandFacts DEF Mesh, IInv
  <2>2. CASE o \notin Cars
    <3>1. InHand(o) = drawn[o] BY <2>2 DEF InHand
    <3> QED BY <1>5, <2>1, <2>2, <3>1 DEF Held, HInv, OffIsDue, OthersAreExact
  <2>3. CASE o \in Cars
    <3>1. dragging /\ gizmo = o BY <1>5, <2>3, KindsApart DEF Held
    <3>2. InHand(o).off # {} => o \in hand
      <4>1. CASE drawn[o].off # {}
        BY <3>1, <4>1, <2>3, InHandFacts DEF HInv, OffIsDue, IInv
      <4>2. CASE drawn[o].off = {} /\ "turn" \in InHand(o).off
        <5>1. mode = "rotate" /\ drawn[o].ver # store[o] BY <4>2, InHandFacts DEF IInv
        <5> QED BY <2>3, <3>1, <5>1 DEF HInv, TurnedIsInHand
      <4>3. CASE drawn[o].off = {} /\ "turn" \notin InHand(o).off
        BY <4>3, InHandFacts DEF IInv
      <4> QED BY <4>1, <4>2, <4>3
    <3> QED BY <2>1, <2>3, <3>2, KindsApart
  <2> QED BY <2>2, <2>3
<1> QED BY <1>1, <1>2, <1>3, <1>4, <1>5

\* A step of a hook, a model or a timer: each mesh is left, and stays due if it
\* was, or is drawn as by a pass.
LEMMA HandAfterPass ==
  ASSUME IInv, IInv', SInv, HInv, UNCHANGED <<store, dragging, mode, hand, selected>>,
         gizmo' \in {gizmo, NoOne, selected},
         \A o \in Objects :
           \/ /\ drawn'[o] = drawn[o]
              /\ drawn[o].off # {} =>
                   synced'[o] = synced[o] /\ (Pending(KindOf[o]) => Pending(KindOf[o])')
           \/ /\ o \in Cars => drawn'[o].ver = store[o]
              /\ drawn'[o].off # {} => o \in hand
              /\ o \in Lidars \cup Rsus => drawn'[o].off = {}
              /\ drawn'[o].look = "none" => drawn'[o].off = {}
  PROVE  HInv'
<1>1. dragging' => gizmo' \in {gizmo, NoOne}
  BY DEF IInv, GizmoFollowsSelection
<1>2. OthersAreExact' BY ObjectFacts DEF HInv, OthersAreExact
<1>3. OffIsDue'
  <2> SUFFICES ASSUME NEW o \in Objects, drawn'[o].off # {}, o \notin hand
      PROVE  /\ Pending(KindOf[o])'
             /\ store[o] = 0 \/ synced'[o] # store[o]
             /\ dragging' /\ gizmo' = o => o \in Cars /\ mode = "translate"
    BY DEF OffIsDue
  <2>1. /\ drawn[o].off # {} /\ synced'[o] = synced[o]
        /\ Pending(KindOf[o]) => Pending(KindOf[o])'
    OBVIOUS
  <2>2. o # NoOne BY ObjectFacts
  <2> QED BY <1>1, <2>1, <2>2 DEF HInv, OffIsDue
<1>4. TurnedIsInHand'
  <2> SUFFICES ASSUME dragging', gizmo' \in Cars, mode' = "rotate",
                      drawn'[gizmo'].ver # store'[gizmo']
      PROVE  gizmo' \in hand'
    BY DEF TurnedIsInHand
  <2>1. gizmo' = gizmo /\ gizmo \in Objects BY <1>1, ObjectFacts
  <2>2. drawn'[gizmo] = drawn[gizmo] BY <2>1
  <2> QED BY <2>1, <2>2 DEF HInv, TurnedIsInHand
<1> QED BY <1>2, <1>3, <1>4 DEF HInv

\* A step of the user between events: what leaves the hand, or is taken into it.
LEMMA HandAfterEvent ==
  ASSUME IInv, SInv, HInv, Rendered, UNCHANGED <<drawn, synced>>,
         \A o \in Objects : drawn[o].off # {} /\ o \notin hand' =>
           /\ KindOf[o] \in due'
           /\ store'[o] = 0 \/ synced[o] # store'[o]
           /\ dragging' /\ gizmo' = o => o \in Cars /\ mode' = "translate",
         TurnedIsInHand'
  PROVE  HInv'
<1>1. OthersAreExact' BY DEF HInv, OthersAreExact
<1>2. OffIsDue' BY DEF OffIsDue, Pending, Started
<1> QED BY <1>1, <1>2 DEF HInv

LEMMA HandRender ==
  ASSUME IInv, IInv', SInv, HInv, Render PROVE HInv'
<1>1. UNCHANGED <<store, dragging, mode, hand, selected>> /\ drawn' = CarPass
      /\ synced' = CarRecord
  BY DEF Render
<1>2. model["car"] \in {"loading", "ready"}
  BY KindsFacts DEF IInv, TypeOK, SInv, MeshesHaveModels
<1>3. ASSUME NEW o \in Objects
      PROVE  \/ /\ drawn'[o] = drawn[o]
                /\ drawn[o].off # {} =>
                     synced'[o] = synced[o] /\ (Pending(KindOf[o]) => Pending(KindOf[o])')
             \/ /\ o \in Cars => drawn'[o].ver = store[o]
                /\ drawn'[o].off # {} => o \in hand
                /\ o \in Lidars \cup Rsus => drawn'[o].off = {}
                /\ drawn'[o].look = "none" => drawn'[o].off = {}
  <2>1. CASE o \in Cars /\ "car" \in due /\ model["car"] = "ready"
    <3>1. drawn'[o] = Mesh(o, "model") BY <1>1, <2>1 DEF CarPass
    <3> QED BY <3>1, PassOff, MeshIsShown
  <2>2. CASE o \in Cars /\ "car" \in due /\ model["car"] = "loading"
    <3>1. drawn[o].off = {} /\ drawn'[o] = drawn[o]
      BY <1>1, <2>2 DEF CarPass, IInv, LooksFollowModels, HInv, OthersAreExact
    <3> QED BY <3>1
  <2>3. CASE o \in Cars /\ "car" \notin due
    <3>1. KindOf[o] = "car" /\ ~Pending("car") BY <2>3, KindFacts, RenderFacts
    <3> QED BY <1>1, <2>3, <3>1 DEF CarPass, CarRecord
  <2>4. CASE o \notin Cars
    <3>1. KindOf[o] # "car" /\ KindOf[o] \in Kinds BY <2>4, KindFacts
    <3>2. Pending(KindOf[o]) => Pending(KindOf[o])' BY <3>1, RenderFacts
    <3>3. synced'[o] = synced[o] BY <1>1, <2>4 DEF CarRecord, Record
    <3>4. drawn'[o] = drawn[o] \/ drawn'[o] = Absent
      BY <1>1, <2>4 DEF CarPass
    <3> QED BY <2>4, <3>2, <3>3, <3>4 DEF Absent
  <2> QED BY <1>2, <2>1, <2>2, <2>3, <2>4
<1>4. gizmo' \in {gizmo, NoOne, selected} BY RenderFacts
<1> QED BY <1>1, <1>3, <1>4, HandAfterPass

\* A hook's pass over the objects of its kind.
LEMMA HandSync ==
  ASSUME IInv, IInv', SInv, HInv, UNCHANGED <<store, dragging, mode, hand, selected>>,
         gizmo' \in {gizmo, NoOne}, NEW k \in Kinds, k # "car",
         due \subseteq due', jobs' = jobs \ {k},
         \A o \in Objects \ Of[k] : drawn'[o] = drawn[o] /\ synced'[o] = synced[o],
         \A o \in Of[k] : \/ drawn'[o] = Absent
                          \/ \E look \in {"model", "fallback"} : drawn'[o] = Mesh(o, look)
  PROVE  HInv'
<1>1. ASSUME NEW o \in Objects, o \notin Of[k]
      PROVE  Pending(KindOf[o]) => Pending(KindOf[o])'
  <2>1. KindOf[o] # k BY <1>1, KindFacts
  <2> QED BY <2>1, DueStays
<1>2. ASSUME NEW o \in Of[k]
      PROVE  /\ o \notin Cars
             /\ drawn'[o].off # {} => o \in hand
             /\ o \in Lidars \cup Rsus => drawn'[o].off = {}
             /\ drawn'[o].look = "none" => drawn'[o].off = {}
  <2>1. o \in Objects /\ o \notin Cars
    BY KindsFacts, ObjectFacts, ObjectAssumption
  <2>2. CASE drawn'[o] = Absent BY <2>1, <2>2 DEF Absent
  <2>3. CASE \E look \in {"model", "fallback"} : drawn'[o] = Mesh(o, look)
    BY <2>1, <2>3, PassOff
  <2> QED BY <2>2, <2>3
<1> QED BY <1>1, <1>2, HandAfterPass

LEMMA HandRsuSync ==
  ASSUME IInv, IInv', SInv, HInv, RsuSync PROVE HInv'
<1>1. PICK look \in {"model", "fallback"} :
        /\ look = IF model["rsu"] = "ready" THEN "model" ELSE "fallback"
        /\ drawn' = Pass(Rsus, look) /\ gizmo' \in {gizmo, NoOne}
        /\ Graph(Pass(Rsus, look), due)
        /\ synced' = IF look = "model" THEN Record(Rsus) ELSE synced
  BY DEF RsuSync, LeavesMesh
<1>2. UNCHANGED <<store, dragging, mode, hand, selected>> /\ jobs' = jobs \ {"rsu"}
  BY DEF RsuSync
<1>3. "rsu" \in Kinds /\ Of["rsu"] = Rsus /\ due \subseteq due'
  BY <1>1, KindsFacts, GraphDraws
<1>4. \A o \in Objects \ Rsus : drawn'[o] = drawn[o] /\ synced'[o] = synced[o]
  BY <1>1 DEF Pass, Record
<1>5. \A o \in Rsus : drawn'[o] = Mesh(o, look) BY <1>1, ObjectFacts DEF Pass
<1> QED BY <1>1, <1>2, <1>3, <1>4, <1>5, HandSync

LEMMA HandBuildingSync ==
  ASSUME IInv, IInv', SInv, HInv, BuildingSync PROVE HInv'
<1>1. /\ drawn' = Pass(Buildings, "model") /\ gizmo' \in {gizmo, NoOne}
      /\ Graph(Pass(Buildings, "model"), due) /\ synced' = Record(Buildings)
      /\ UNCHANGED <<store, dragging, mode, hand, selected>> /\ jobs' = jobs \ {"building"}
  BY DEF BuildingSync, LeavesMesh
<1>2. "building" \in Kinds /\ Of["building"] = Buildings /\ due \subseteq due'
  BY <1>1, KindsFacts, GraphDraws
<1>3. \A o \in Objects \ Buildings : drawn'[o] = drawn[o] /\ synced'[o] = synced[o]
  BY <1>1 DEF Pass, Record
<1>4. \A o \in Buildings : drawn'[o] = Mesh(o, "model")
  BY <1>1, ObjectFacts DEF Pass
<1> QED BY <1>1, <1>2, <1>3, <1>4, HandSync

\* The mesh of a pedestrian that is gone does not have the gizmo.
LEMMA HandPedestrianSync ==
  ASSUME IInv, IInv', SInv, HInv, PedestrianSync PROVE HInv'
<1> DEFINE pass == [o \in Objects |-> IF o \in Pedestrians THEN PedestrianMesh(o)
                                      ELSE drawn[o]]
<1>1. /\ drawn' = pass /\ Graph(pass, due)
      /\ synced' = [o \in Objects |->
            IF o \in Pedestrians /\ pass[o].look # "none" THEN store[o] ELSE synced[o]]
      /\ UNCHANGED <<store, gizmo, dragging, mode, hand, selected>>
      /\ jobs' = jobs \ {"pedestrian"}
  BY DEF PedestrianSync
<1>2. "pedestrian" \in Kinds /\ Of["pedestrian"] = Pedestrians /\ due \subseteq due'
  BY <1>1, KindsFacts, GraphDraws
<1>3. \A o \in Objects \ Pedestrians : drawn'[o] = drawn[o] /\ synced'[o] = synced[o]
  BY <1>1
<1>4. \A o \in Pedestrians : drawn'[o] = Absent \/ drawn'[o] = Mesh(o, "model")
  <2> TAKE o \in Pedestrians
  <2>1. drawn'[o] = PedestrianMesh(o) BY <1>1, ObjectFacts
  <2>2. store[o] = 0 => gizmo # o BY ObjectFacts DEF IInv, HeldIsThere
  <2> QED BY <2>1, <2>2 DEF PedestrianMesh
<1> HIDE DEF pass
<1> QED BY <1>1, <1>2, <1>3, <1>4, HandSync

LEMMA HandLidarSync ==
  ASSUME IInv, IInv', SInv, HInv, LidarSync PROVE HInv'
<1> DEFINE pass == [o \in Objects |-> IF o \in Lidars THEN LidarMesh(o) ELSE drawn[o]]
<1>1. /\ drawn' = pass /\ Graph(pass, due)
      /\ synced' = [o \in Objects |->
            IF o \in Lidars /\ pass[o].look # "none" THEN store[o] ELSE synced[o]]
      /\ UNCHANGED <<store, gizmo, dragging, mode, hand, selected>>
      /\ jobs' = jobs \ {"lidar"}
  BY DEF LidarSync
<1>2. "lidar" \in Kinds /\ Of["lidar"] = Lidars /\ due \subseteq due'
  BY <1>1, KindsFacts, GraphDraws
<1>3. \A o \in Objects \ Lidars : drawn'[o] = drawn[o] /\ synced'[o] = synced[o]
  BY <1>1
<1>4. \A o \in Lidars : drawn'[o] = Absent \/ drawn'[o] = Mesh(o, "model")
  <2> TAKE o \in Lidars
  <2>1. drawn'[o] = LidarMesh(o) BY <1>1, ObjectFacts
  <2> QED BY <2>1 DEF LidarMesh
<1> HIDE DEF pass
<1> QED BY <1>1, <1>2, <1>3, <1>4, HandSync

LEMMA HandRestoreLidars ==
  ASSUME IInv, IInv', SInv, HInv, RestoreLidars PROVE HInv'
<1>1. /\ drawn' = [o \in Objects |->
             IF o \in Lidars /\ store[o] # 0 /\ drawn[o].look = "none"
                /\ drawn[CarOf[o]].look # "none"
             THEN Fresh(o, "model") ELSE drawn[o]]
      /\ Graph(drawn', due)
      /\ UNCHANGED <<store, synced, jobs, gizmo, dragging, mode, hand, selected>>
  BY DEF RestoreLidars
<1>2. \A k : Pending(k) => Pending(k)' BY <1>1, GraphDraws, DueStays
<1>3. ASSUME NEW o \in Objects
      PROVE  drawn'[o] = drawn[o] \/ (o \notin Cars /\ drawn'[o].off = {})
  <2>1. drawn'[o] = drawn[o] \/ (o \in Lidars /\ drawn'[o] = Fresh(o, "model"))
    BY <1>1
  <2> QED BY <2>1, KindsApart DEF Fresh
<1> QED BY <1>1, <1>2, <1>3, HandAfterPass

LEMMA HandCarModel ==
  ASSUME IInv, IInv', SInv, HInv, CarModel PROVE HInv'
<1>1. /\ drawn' = [o \in Objects |-> IF o \in Cars THEN Mesh(o, "model") ELSE drawn[o]]
      /\ synced' = Record(Cars) /\ Graph(drawn', due)
      /\ UNCHANGED <<store, jobs, gizmo, dragging, mode, hand, selected>>
  BY DEF CarModel
<1>2. \A k : Pending(k) => Pending(k)' BY <1>1, GraphDraws, DueStays
<1>3. \A o \in Objects \ Cars : drawn'[o] = drawn[o] /\ synced'[o] = synced[o]
  BY <1>1 DEF Record
<1>4. \A o \in Cars : o \in Objects /\ drawn'[o] = Mesh(o, "model")
  BY <1>1, ObjectFacts
<1>5. ASSUME NEW o \in Cars
      PROVE  /\ drawn'[o].ver = store[o]
             /\ drawn'[o].off # {} => o \in hand
             /\ o \in Lidars \cup Rsus => drawn'[o].off = {}
             /\ drawn'[o].look = "none" => drawn'[o].off = {}
  BY <1>4, PassOff, MeshIsShown
<1> QED BY <1>1, <1>2, <1>3, <1>5, HandAfterPass

\* Timers and the other models draw nothing; the building that is given up has
\* no mesh.
LEMMA HandStays ==
  ASSUME IInv, IInv', SInv, HInv,
         Attach \/ BuildingGivesUp \/ (\E k \in Kinds : OtherModel(k))
  PROVE  HInv'
<1>1. /\ UNCHANGED <<store, drawn, synced, due, dragging, mode, hand, selected>>
      /\ gizmo' \in {gizmo, NoOne, selected}
      /\ \/ jobs' = jobs
         \/ jobs' = jobs \ {"building"} /\ model["building"] = "loading"
  BY DEF Attach, BuildingGivesUp, OtherModel
<1>2. ASSUME NEW o \in Objects, drawn[o].off # {}
      PROVE  Pending(KindOf[o]) => Pending(KindOf[o])'
  <2>1. drawn[o].look # "none" BY <1>2 DEF HInv, OthersAreExact
  <2>2. jobs' = jobs \/ KindOf[o] # "building"
    BY <1>1, <2>1, KindFacts, KindsFacts DEF SInv, MeshesHaveModels
  <2> QED BY <1>1, <2>2 DEF Pending, Started
<1> QED BY <1>1, <1>2, HandAfterPass

\* The user's steps.
LEMMA HandUpdate ==
  ASSUME IInv, SInv, HInv, NEW o \in Objects, Update(o) PROVE HInv'
<1>1. /\ Rendered /\ Resting /\ dragging' = FALSE /\ hand' = hand \ {o}
      /\ store' = [store EXCEPT ![o] = @ + 1] /\ store[o] \in 1..(MaxVer - 1)
      /\ due' = due \cup {KindOf[o]} /\ UNCHANGED <<drawn, synced>>
  BY DEF Update, CanAct, Changed, Resting
<1>2. ASSUME NEW x \in Objects, drawn[x].off # {}, x \notin hand'
      PROVE  KindOf[x] \in due' /\ (store'[x] = 0 \/ synced[x] # store'[x])
  <2>1. x = o BY <1>1, <1>2, OffAtRendered
  <2>2. drawn[o].look # "none" BY <1>2, <2>1 DEF HInv, OthersAreExact
  <2>3. synced[o] \in {0, store[o]} BY <1>1, <2>2, AtRenderedFacts DEF Resting
  <2>4. store'[o] = store[o] + 1 BY <1>1 DEF IInv, TypeOK
  <2> QED BY <1>1, <2>1, <2>3, <2>4
<1>3. TurnedIsInHand' BY <1>1 DEF TurnedIsInHand
<1> QED BY <1>1, <1>2, <1>3, HandAfterEvent

\* The car that is turned stays in the hand, the one that is moved takes its turn.
LEMMA HandAlign ==
  ASSUME IInv, SInv, HInv, NEW o \in Objects, Align(o) PROVE HInv'
<1>1. /\ Rendered /\ o \in Cars /\ o \notin Lidars
      /\ hand' = IF Held(o) /\ mode # "translate" THEN hand \cup {o} ELSE hand \ {o}
      /\ store' = [store EXCEPT ![o] = @ + 1] /\ store[o] \in 1..(MaxVer - 1)
      /\ due' = due \cup {KindOf[o]}
      /\ UNCHANGED <<drawn, synced, gizmo, dragging, mode>>
  BY KindsApart DEF Align, Changed
<1>2. ASSUME NEW x \in Objects, drawn[x].off # {}, x \notin hand'
      PROVE  /\ KindOf[x] \in due' /\ (store'[x] = 0 \/ synced[x] # store'[x])
             /\ dragging' /\ gizmo' = x => x \in Cars /\ mode' = "translate"
  <2>1. x = o BY <1>1, <1>2, OffAtRendered
  <2>2. drawn[o].look # "none" BY <1>2, <2>1 DEF HInv, OthersAreExact
  <2>3. synced[o] \in {0, store[o]} BY <1>1, <2>2, AtRenderedFacts
  <2>4. store'[o] = store[o] + 1 BY <1>1 DEF IInv, TypeOK
  <2> QED BY <1>1, <1>2, <2>1, <2>3, <2>4 DEF Held
<1>3. TurnedIsInHand'
  <2> SUFFICES ASSUME dragging', gizmo' \in Cars, mode' = "rotate",
                      drawn'[gizmo'].ver # store'[gizmo']
      PROVE  gizmo' \in hand'
    BY DEF TurnedIsInHand
  <2>1. CASE gizmo = o BY <1>1, <2>1 DEF Held
  <2>2. CASE gizmo # o
    <3>1. store'[gizmo] = store[gizmo] BY <1>1, <2>2, ObjectFacts DEF IInv, TypeOK
    <3> QED BY <1>1, <2>2, <3>1 DEF HInv, TurnedIsInHand
  <2> QED BY <2>1, <2>2
<1> QED BY <1>1, <1>2, <1>3, HandAfterEvent

LEMMA HandAdd ==
  ASSUME IInv, SInv, HInv, NEW o \in Objects, Add(o) PROVE HInv'
<1>1. /\ Rendered /\ Resting /\ dragging' = FALSE /\ hand' = hand \ {o}
      /\ store[o] = 0 /\ UNCHANGED <<drawn, synced>>
  BY DEF Add, CanAct, Resting
<1>2. drawn[o].off = {}
  BY <1>1, AtRenderedFacts DEF Resting, HInv, OthersAreExact
<1>3. \A x \in Objects : drawn[x].off # {} => x \in hand'
  BY <1>1, <1>2, OffAtRendered
<1>4. TurnedIsInHand' BY <1>1 DEF TurnedIsInHand
<1> QED BY <1>1, <1>3, <1>4, HandAfterEvent

\* With nothing held nothing is turned.
LEMMA LetGoTurns == ASSUME LetGo PROVE TurnedIsInHand' /\ \A x \in Objects : gizmo' # x
<1> QED BY ObjectFacts DEF LetGo, TurnedIsInHand

LEMMA HandDelete ==
  ASSUME IInv, SInv, HInv, NEW o \in Objects, Delete(o) PROVE HInv'
<1>1. /\ Rendered /\ LetGo /\ hand' = hand \ WithLidars(o)
      /\ store' = [x \in Objects |-> IF x \in WithLidars(o) THEN 0 ELSE store[x]]
      /\ KindOf[o] \in due' /\ (o \in Cars => "lidar" \in due')
      /\ UNCHANGED <<drawn, synced>>
  BY DEF Delete, CanAct, Resting
<1>2. ASSUME NEW x \in Objects, drawn[x].off # {}, x \notin hand'
      PROVE  KindOf[x] \in due' /\ store'[x] = 0
  <2>1. x \in WithLidars(o) BY <1>1, <1>2, OffAtRendered
  <2>2. KindOf[x] \in due' BY <1>1, <2>1, WithLidarsFacts, KindFacts
  <2> QED BY <1>1, <2>1, <2>2
<1> QED BY <1>1, <1>2, LetGoTurns, HandAfterEvent

LEMMA HandUndo ==
  ASSUME IInv, SInv, HInv, NEW o \in Objects, Undo(o) PROVE HInv'
<1>1. /\ Rendered /\ Resting /\ LetGo
      /\ hand' = hand \ (IF store'[o] = 0 THEN WithLidars(o) ELSE {o})
      /\ KindOf[o] \in due' /\ (o \in Cars => "lidar" \in due')
      /\ UNCHANGED <<drawn, synced>>
  BY DEF Undo, CanAct, Resting
<1>2. PICK v \in (0..MaxVer) \ {store[o]} :
        store' = [x \in Objects |->
                    IF x = o THEN v
                    ELSE IF v = 0 /\ x \in WithLidars(o) THEN 0 ELSE store[x]]
  BY DEF Undo
<1>3. store'[o] = v BY <1>2
<1>4. ASSUME NEW x \in Objects, drawn[x].off # {}, x \notin hand'
      PROVE  KindOf[x] \in due' /\ (store'[x] = 0 \/ synced[x] # store'[x])
  <2>1. x \in IF v = 0 THEN WithLidars(o) ELSE {o}
    BY <1>1, <1>3, <1>4, OffAtRendered
  <2>2. x = o \/ (v = 0 /\ x \in WithLidars(o)) BY <2>1
  <2>3. KindOf[x] \in due' BY <1>1, <2>2, WithLidarsFacts, KindFacts
  <2>4. drawn[x].look # "none" BY <1>4 DEF HInv, OthersAreExact
  <2>5. synced[x] \in {0, store[x]} BY <1>1, <2>4, AtRenderedFacts DEF Resting
  <2>6. store'[x] = 0 \/ (x = o /\ store'[x] = v /\ v # 0 /\ v # store[o])
    BY <1>2, <2>2
  <2> QED BY <2>3, <2>5, <2>6
<1> QED BY <1>1, <1>4, LetGoTurns, HandAfterEvent

LEMMA HandSelect ==
  ASSUME IInv, SInv, HInv, NEW o \in Objects \cup {NoOne}, Select(o) PROVE HInv'
<1>1. /\ Rendered /\ dragging' = FALSE /\ hand' = hand /\ UNCHANGED <<drawn, synced>>
  BY DEF Select, Resting
<1>2. \A x \in Objects : drawn[x].off # {} => x \in hand'
  BY <1>1, OffAtRendered
<1>3. TurnedIsInHand' BY <1>1 DEF TurnedIsInHand
<1> QED BY <1>1, <1>2, <1>3, HandAfterEvent

\* Fallbacks, which stay in the scene, are road-side units'.
LEMMA HandClear ==
  ASSUME IInv, SInv, HInv, ClearScene PROVE HInv'
<1>1. /\ LetGo
      /\ drawn' = [o \in Objects |->
                     IF drawn[o].look = "fallback" THEN drawn[o] ELSE Absent]
  BY DEF ClearScene
<1>2. \A o \in Objects : drawn[o].look = "fallback" => o \in Rsus
  BY DEF IInv, LooksFollowModels
<1>3. \A o \in Objects : drawn'[o].off = {}
  BY <1>1, <1>2 DEF Absent, HInv, OthersAreExact
<1> QED BY <1>1, <1>3, LetGoTurns, ObjectFacts DEF HInv, OthersAreExact, OffIsDue

LEMMA HandDragStart ==
  ASSUME IInv, SInv, HInv, DragStart PROVE HInv'
<1>1. /\ Rendered /\ Resting /\ gizmo # NoOne
      /\ UNCHANGED <<store, drawn, synced, gizmo, hand>>
  BY DEF DragStart, Resting
<1>2. \A x \in Objects : drawn[x].off # {} => x \in hand'
  BY <1>1, OffAtRendered
<1>3. gizmo \in Objects /\ drawn[gizmo].look # "none"
  BY <1>1 DEF IInv, TypeOK, HeldIsThere
<1>4. drawn[gizmo].ver = store[gizmo] BY <1>1, <1>3, AtRenderedFacts DEF Resting
<1>5. TurnedIsInHand' BY <1>1, <1>4 DEF TurnedIsInHand
<1> QED BY <1>1, <1>2, <1>5, HandAfterEvent

\* What the drag leaves off is in the hand.
LEMMA HandDragMove ==
  ASSUME IInv, SInv, HInv, DragMove PROVE HInv'
<1>1. /\ Rendered /\ gizmo \in Objects /\ hand' = hand \cup {gizmo}
      /\ store' = [store EXCEPT ![gizmo] = @ + 1]
      /\ UNCHANGED <<synced, gizmo, dragging, mode>>
      /\ drawn[gizmo].look # "none"
  BY DEF DragMove, IInv, TypeOK, HeldIsThere
<1>2. PICK off \in Unwritten(gizmo) :
        drawn' = [drawn EXCEPT ![gizmo] = [ver |-> store[gizmo] + 1,
                                           look |-> drawn[gizmo].look, off |-> off]]
  BY DragMoveFacts DEF IInv
<1>3. off # {} => gizmo \in Pedestrians \cup Cars \cup Buildings
  BY <1>1, UnwrittenFacts DEF IInv
<1>4. /\ drawn'[gizmo].off = off /\ drawn'[gizmo].ver = store'[gizmo]
      /\ drawn'[gizmo].look # "none"
      /\ \A o \in Objects : o # gizmo => drawn'[o] = drawn[o]
  BY <1>1, <1>2 DEF IInv, TypeOK
<1>5. OthersAreExact'
  BY <1>1, <1>3, <1>4, KindsApart, ObjectFacts DEF HInv, OthersAreExact
<1>6. \A o \in Objects : drawn'[o].off # {} => o \in hand'
  BY <1>1, <1>4, OffAtRendered
<1>7. OffIsDue' BY <1>6 DEF OffIsDue
<1>8. TurnedIsInHand' BY <1>1, <1>4 DEF TurnedIsInHand
<1> QED BY <1>5, <1>7, <1>8 DEF HInv

LEMMA HandDragEnd ==
  ASSUME IInv, SInv, HInv, DragEnd PROVE HInv'
<1>1. dragging' = FALSE /\ UNCHANGED <<store, drawn, synced, due, jobs, hand>>
  BY DEF DragEnd
<1> QED BY <1>1 DEF HInv, OthersAreExact, OffIsDue, TurnedIsInHand, Pending, Started

LEMMA HandInit == ASSUME Init PROVE HInv
<1>1. \A o \in Objects : drawn[o].off = {} BY DEF Init, Absent
<1>2. ~dragging BY DEF Init
<1> QED BY <1>1, <1>2, ObjectFacts DEF HInv, OthersAreExact, OffIsDue, TurnedIsInHand

LEMMA HandStep ==
  ASSUME IInv, IInv', SInv, HInv, [Next]_vars PROVE HInv'
<1>1. CASE Hooks
  BY <1>1, HandRender, HandRsuSync, HandBuildingSync, HandPedestrianSync,
     HandLidarSync, HandRestoreLidars DEF Hooks
<1>2. CASE Attach \/ BuildingGivesUp BY <1>2, HandStays
<1>3. CASE Loaders BY <1>3, HandCarModel, HandStays DEF Loaders
<1>4. CASE \E o \in Objects : Update(o) \/ Align(o) \/ Add(o) \/ Delete(o) \/ Undo(o)
  BY <1>4, HandUpdate, HandAlign, HandAdd, HandDelete, HandUndo
<1>5. CASE \E o \in Objects \cup {NoOne} : Select(o) BY <1>5, HandSelect
<1>6. CASE ClearScene BY <1>6, HandClear
<1>7. CASE DragStart \/ DragMove \/ DragEnd
  BY <1>7, HandDragStart, HandDragMove, HandDragEnd
<1>8. CASE UNCHANGED vars
  BY <1>8 DEF vars, HInv, OthersAreExact, OffIsDue, TurnedIsInHand, Pending, Started
<1> QED BY <1>1, <1>2, <1>3, <1>4, <1>5, <1>6, <1>7, <1>8 DEF Next

\* When no render, promise, timer or model is outstanding and nothing is dragged,
\* nothing is drawn that is gone, and every object is drawn as it is stored, but
\* for those of a kind whose hook gave up waiting for a model since it changed
\* last, and for what a drag, or the route alignment under it, has left off where
\* the object has not changed since: with any objects, from any scene, in whatever
\* order the user, React, the hooks, the timers and the loaders take their steps,
\* as long as the panel does not edit the lidar that has the gizmo.
THEOREM SceneFollowsTheStore == ASSUME ~Typed PROVE Spec => []SceneShowsTheStore
<1>1. Init => SInv /\ HInv BY SceneInit, HandInit
<1>2. IInv /\ (SInv /\ HInv) /\ [Next]_vars => (SInv /\ HInv)'
  <2> SUFFICES ASSUME IInv, SInv, HInv, [Next]_vars PROVE SInv' /\ HInv' OBVIOUS
  <2>1. IInv' BY StepInv
  <2> QED BY <2>1, SceneStep, HandStep
<1>3. IInv /\ (SInv /\ HInv) => SceneShowsTheStore
  <2> SUFFICES ASSUME IInv, SInv, HInv, Quiet, NEW o \in Objects
      PROVE  /\ store[o] = 0 => drawn[o].look = "none"
             /\ KindOf[o] \in late \/ Shown(o)
    BY DEF SceneShowsTheStore
  <2>1. ~Pending(KindOf[o]) BY DEF Quiet, Pending, Started
  <2>2. model[KindOf[o]] # "loading" BY KindFacts DEF Quiet, Loaded
  <2>3. store[o] = 0 => drawn[o].look = "none" BY <2>1 DEF SInv, MeshesAreSettled
  <2>4. drawn[o].off # {} => o \in hand BY <2>1 DEF HInv, OffIsDue
  <2> QED BY <2>1, <2>2, <2>3, <2>4 DEF SInv, RestIsDue, Shown
<1> HIDE DEF SInv, HInv
<1> QED BY <1>1, <1>2, <1>3, Invariance, PTL DEF Spec
=============================================================================
