------------------------ MODULE ScenarioStoreProofs ------------------------
(***************************************************************************)
(* Theorems about ScenarioStore, for any clients, scenes, maps, request    *)
(* bodies and bounds.                                                      *)
(***************************************************************************)
EXTENDS ScenarioStore, TLAPS

-----------------------------------------------------------------------------
(* Types and primary keys.                                                 *)

\* NoRow is no row: it differs from every record of the table.
LEMMA NoRowIsNone ==
  /\ NoRow.id = 0
  /\ \A r \in RowType : r.id \in Nat /\ (r # NoRow <=> r.id # 0)
  /\ \A v \in ViewType : v.id \in Nat /\ (v # NoRow <=> v.id # 0)
  BY DEF NoRow, RowType, ViewType

\* The row a save leaves has the type of a row, and so has what its client
\* believes.
LEMMA UpdatedType ==
  ASSUME TypeOK, NEW c \in Clients, handler[c].op = "update", SameRow(c)
  PROVE  /\ Updated(handler[c].read, handler[c].body) \in RowType
         /\ Believed(c, handler[c].read, handler[c].body) \in ViewType
<1> DEFINE read == handler[c].read
           body == handler[c].body
<1>1. /\ read \in RowType /\ read # NoRow /\ row \in RowType
      /\ body \in BodyType /\ view[c] \in ViewType
  BY DEF TypeOK
<1>2. row # NoRow
  BY <1>1, NoRowIsNone DEF SameRow
<1>3. /\ read \in [id : Nat \ {0}, revision : Nat \ {0}, scene : Scenes, map : Maps]
      /\ row \in [id : Nat \ {0}, revision : Nat \ {0}, scene : Scenes, map : Maps]
  BY <1>1, <1>2 DEF RowType
<1>4. /\ Column(body.scene, read.scene, row.scene) \in Scenes
      /\ Column(body.map, read.map, row.map) \in Maps
  BY <1>1, <1>3 DEF Column, BodyType
<1>5. /\ view[c].scene \in Scenes \cup {Omitted}
      /\ view[c].map \in Maps \cup {Omitted}
  BY <1>1 DEF ViewType, NoRow
<1> QED
  BY <1>1, <1>3, <1>4, <1>5
  DEF Updated, Believed, RowType, ViewType, BodyType, SameRow

\* Every step of a client leaves every variable within its type.
LEMMA TypesStep ==
  ASSUME TypeOK, NEW c \in Clients, ClientNext(c)
  PROVE  TypeOK'
<1> USE NoRowIsNone DEF TypeOK
<1>0. /\ NoBody \in BodyType
      /\ NoRow \in RowType
      /\ NoHandler \in [op : {"none", "create", "update", "delete"},
                        read : RowType, body : BodyType]
      /\ NoHandler.op = "none"
  BY DEF NoBody, BodyType, RowType, NoHandler
<1>e. ASSUME End(c)
      PROVE  /\ handler' \in
                  [Clients -> [op : {"none", "create", "update", "delete"},
                               read : RowType, body : BodyType]]
             /\ \A d \in Clients :
                  /\ handler'[d].op \in {"update", "delete"} => handler'[d].read # NoRow
                  /\ handler'[d].op = "create" => /\ handler'[d].body.scene # Omitted
                                                 /\ handler'[d].body.map # Omitted
  BY <1>0, <1>e DEF End
<1>1. CASE Load(c)
  BY <1>1 DEF Load, RowType, ViewType
<1>2. ASSUME NEW scene \in Scenes, NEW map \in Maps, BeginCreate(c, scene, map)
      PROVE  TypeOK'
  BY <1>2, SceneAssumption, MapAssumption DEF BeginCreate, Begin, BodyType
<1>3. CASE InsertRow(c)
  <2>1. handler[c].body.scene \in Scenes /\ handler[c].body.map \in Maps
    BY <1>3 DEF InsertRow, BodyType
  <2>2. row' \in RowType /\ row' \in ViewType
    BY <1>3, <2>1 DEF InsertRow, Created, RowType, ViewType
  <2>3. view' \in [Clients -> ViewType]
    BY <1>3, <2>2 DEF InsertRow, Reply
  <2> QED
    BY <1>e, <1>3, <2>2, <2>3 DEF InsertRow
<1>4. CASE InsertConflict(c)
  BY <1>e, <1>4 DEF InsertConflict
<1>5. ASSUME NEW body \in Bodies, BeginUpdate(c, body) PROVE TypeOK'
  <2>1. body \in BodyType
    BY BodyAssumption DEF BodyType
  <2> QED
    BY <1>5, <2>1 DEF BeginUpdate, Begin
<1>6. CASE CommitUpdate(c)
  <2>1. row' \in RowType
    BY <1>6, UpdatedType DEF CommitUpdate
  <2>2. view' \in [Clients -> ViewType]
    BY <1>6, UpdatedType DEF CommitUpdate, Reply
  <2>3. End(c) /\ lastId' = lastId
    BY <1>6 DEF CommitUpdate
  <2> QED
    BY <1>e, <2>1, <2>2, <2>3
<1>7. CASE StaleUpdate(c)
  BY <1>e, <1>7 DEF StaleUpdate
<1>8. CASE BeginDelete(c)
  BY <1>0, <1>8 DEF BeginDelete, Begin
<1>9. CASE CommitDelete(c)
  <2>1. view' \in [Clients -> ViewType]
    BY <1>9 DEF CommitDelete, Reply, ViewType
  <2>2. row' \in RowType /\ lastId' = lastId /\ End(c)
    BY <1>0, <1>9 DEF CommitDelete
  <2> QED
    BY <1>e, <2>1, <2>2
<1> QED
  BY <1>1, <1>2, <1>3, <1>4, <1>5, <1>6, <1>7, <1>8, <1>9 DEF ClientNext

LEMMA TypesInit == Init => TypeOK
  BY DEF Init, TypeOK, NoHandler, NoBody, BodyType, RowType, ViewType

\* Every reachable state has the types the module declares.
THEOREM StoreTypeCorrect == Spec => []TypeOK
<1>1. TypeOK /\ [Next]_vars => TypeOK'
  <2>1. TypeOK /\ UNCHANGED vars => TypeOK'
    BY DEF TypeOK, vars
  <2> QED
    BY <2>1, TypesStep DEF Next
<1> QED
  BY <1>1, TypesInit, PTL DEF Spec

-----------------------------------------------------------------------------
(* What holds however handlers overlap.                                    *)

\* No step invents a primary key.
LEMMA IdsStep ==
  ASSUME TypeOK, IdsInv, NEW c \in Clients, ClientNext(c)
  PROVE  IdsInv'
<1> USE NoRowIsNone DEF TypeOK, IdsInv
<1>0. NoHandler.read.id = 0
  BY DEF NoHandler
<1>1. CASE Load(c)
  BY <1>1 DEF Load
<1>2. ASSUME NEW op, NEW body, Begin(c, op, body) PROVE IdsInv'
  BY <1>2 DEF Begin
<1>3. CASE InsertRow(c)
  <2>1. row'.id = lastId + 1 /\ lastId' = lastId + 1
    BY <1>3 DEF InsertRow, Created
  <2>2. \A d \in Clients : view'[d].id <= lastId + 1
    BY <1>3, <2>1 DEF InsertRow, Reply
  <2>3. \A d \in Clients : handler'[d].read.id <= lastId + 1
    BY <1>0, <1>3 DEF InsertRow, End
  <2> QED
    BY <2>1, <2>2, <2>3
<1>4. CASE InsertConflict(c) \/ StaleUpdate(c)
  BY <1>0, <1>4 DEF InsertConflict, StaleUpdate, End
<1>5. CASE CommitUpdate(c)
  <2>1. /\ row'.id = row.id /\ lastId' = lastId
        /\ Believed(c, handler[c].read, handler[c].body).id = handler[c].read.id
    BY <1>5 DEF CommitUpdate, Updated, Believed
  <2>2. \A d \in Clients : view'[d].id <= lastId
    BY <1>5, <2>1 DEF CommitUpdate, Reply
  <2>3. \A d \in Clients : handler'[d].read.id <= lastId
    BY <1>0, <1>5 DEF CommitUpdate, End
  <2> QED
    BY <2>1, <2>2, <2>3
<1>6. CASE CommitDelete(c)
  BY <1>0, <1>6 DEF CommitDelete, Reply, End
<1> QED
  BY <1>1, <1>2, <1>3, <1>4, <1>5, <1>6
  DEF ClientNext, BeginCreate, BeginUpdate, BeginDelete

LEMMA IdsInit == Init => IdsInv
  BY DEF Init, IdsInv, NoRow, NoHandler

LEMMA IdsInvariant == Spec => [](TypeOK /\ IdsInv)
<1>1. TypeOK /\ IdsInv /\ [Next]_vars => IdsInv'
  <2>1. IdsInv /\ UNCHANGED vars => IdsInv'
    BY DEF IdsInv, vars
  <2> QED
    BY <2>1, IdsStep DEF Next
<1> QED
  BY <1>1, IdsInit, StoreTypeCorrect, PTL DEF Spec

\* A deleted scenario stays deleted: whatever is under way when a row goes
\* away, a row that appears later is a new one.
THEOREM NoResurrection == Spec => DeletedStaysDeleted
<1>1. ASSUME TypeOK, IdsInv, NEW c \in Clients, ClientNext(c),
             row = NoRow, row' # NoRow
      PROVE  row'.id = lastId + 1
  <2>1. InsertRow(c) => row'.id = lastId + 1
    BY DEF InsertRow, Created
  <2>2. ~CommitUpdate(c)
    <3>1. handler[c].op = "update" => handler[c].read \in RowType /\ handler[c].read # NoRow
      BY <1>1 DEF TypeOK
    <3> QED
      BY <1>1, <3>1, NoRowIsNone DEF CommitUpdate, SameRow
  <2> QED
    BY <1>1, <2>1, <2>2
    DEF ClientNext, Load, BeginCreate, BeginUpdate, BeginDelete, Begin,
        InsertConflict, StaleUpdate, CommitDelete
<1>2. TypeOK /\ IdsInv /\ [Next]_vars
        => [row = NoRow /\ row' # NoRow
              => \A c \in Clients : view[c].id # row'.id /\ handler[c].read.id # row'.id]_vars
  <2>1. ASSUME TypeOK, IdsInv, Next, row = NoRow, row' # NoRow,
               NEW d \in Clients
        PROVE  view[d].id # row'.id /\ handler[d].read.id # row'.id
    <3>1. row'.id = lastId + 1
      BY <1>1, <2>1 DEF Next
    <3>2. /\ lastId \in Nat
          /\ view[d].id \in Nat /\ handler[d].read.id \in Nat
      BY <2>1, NoRowIsNone DEF TypeOK
    <3> QED
      BY <2>1, <3>1, <3>2 DEF IdsInv
  <2> QED
    BY <2>1
<1> QED
  BY <1>2, IdsInvariant, PTL DEF Spec, DeletedStaysDeleted

\* A save or deletion that outlives its scenario never touches another one
\* created under the same id.
THEOREM ChangesStay == Spec => ChangesStayWithTheirRow
<1>1. ASSUME TypeOK, NEW c \in Clients, ClientNext(c), row # NoRow, row' # row
      PROVE  /\ handler[c].read.id = row.id
             /\ ~Idle(c)
             /\ handler'[c].op = "none"
  <2>1. CommitUpdate(c) \/ CommitDelete(c)
    BY <1>1
    DEF ClientNext, Load, BeginCreate, BeginUpdate, BeginDelete, Begin,
        InsertRow, InsertConflict, StaleUpdate
  <2>2. End(c) /\ SameRow(c) /\ handler[c].op \in {"update", "delete"}
    BY <1>1, <2>1 DEF CommitUpdate, CommitDelete
  <2> QED
    BY <1>1, <2>2 DEF End, SameRow, Idle, NoHandler, TypeOK
<1>2. TypeOK /\ [Next]_vars
        => [row # NoRow /\ row' # row
              => \E c \in Clients :
                   handler[c].read.id = row.id /\ ~Idle(c) /\ handler'[c].op = "none"]_vars
  BY <1>1 DEF Next
<1> QED
  BY <1>2, StoreTypeCorrect, PTL DEF Spec, ChangesStayWithTheirRow

-----------------------------------------------------------------------------
(* What holds when handlers do not overlap.                                *)

\* With no other handler in progress, what a handler has read and checked is
\* still so when it commits.
LEMMA SerialStep ==
  ASSUME ~Concurrent, TypeOK, SerialInv, NEW c \in Clients, ClientNext(c)
  PROVE  SerialInv'
<1> USE DEF TypeOK, Idle
<1>0. NoHandler.op = "none"
  BY DEF NoHandler
<1>1. CASE Load(c)
  BY <1>1 DEF Load, SerialInv, Wipes, MovesScene
<1>2. ASSUME NEW op, NEW body, Begin(c, op, body),
             op = "update" => ~Wipes(body) /\ ~MovesScene(body)
      PROVE  SerialInv'
  <2>1. /\ \A d \in Clients : handler[d].op = "none"
        /\ UNCHANGED row
        /\ handler' = [handler EXCEPT ![c] = [op |-> op, read |-> row, body |-> body]]
    BY <1>2 DEF Begin
  <2> QED
    BY <1>2, <2>1 DEF SerialInv, Wipes, MovesScene
<1>3. ASSUME End(c), ~Idle(c) PROVE SerialInv'
  <2>1. \A d \in Clients : handler'[d].op = "none"
    BY <1>0, <1>3 DEF End, SerialInv
  <2> QED
    BY <2>1 DEF SerialInv
<1>4. ClientNext(c) => \/ Load(c)
                       \/ End(c) /\ ~Idle(c)
                       \/ \E op, body :
                            /\ Begin(c, op, body)
                            /\ op = "update" => ~Wipes(body) /\ ~MovesScene(body)
  <2>1. ASSUME NEW scene \in Scenes, NEW map \in Maps, BeginCreate(c, scene, map)
        PROVE  \E op, body :
                 /\ Begin(c, op, body)
                 /\ op = "update" => ~Wipes(body) /\ ~MovesScene(body)
    <3> WITNESS "create", [scene |-> scene, map |-> map, clear |-> FALSE]
    <3> QED
      BY <2>1 DEF BeginCreate
  <2>2. ASSUME BeginDelete(c)
        PROVE  \E op, body :
                 /\ Begin(c, op, body)
                 /\ op = "update" => ~Wipes(body) /\ ~MovesScene(body)
    <3> WITNESS "delete", NoBody
    <3> QED
      BY <2>2 DEF BeginDelete
  <2>3. ASSUME NEW body \in Bodies, BeginUpdate(c, body)
        PROVE  \E op, b :
                 /\ Begin(c, op, b)
                 /\ op = "update" => ~Wipes(b) /\ ~MovesScene(b)
    <3> WITNESS "update", body
    <3> QED
      BY <2>3 DEF BeginUpdate
  <2>4. InsertRow(c) \/ InsertConflict(c) \/ CommitUpdate(c) \/ StaleUpdate(c)
          \/ CommitDelete(c) => End(c) /\ ~Idle(c)
    BY DEF InsertRow, InsertConflict, CommitUpdate, StaleUpdate, CommitDelete
  <2> QED
    BY <2>1, <2>2, <2>3, <2>4 DEF ClientNext
<1> QED
  BY <1>1, <1>2, <1>3, <1>4

LEMMA SerialInvariant ==
  ASSUME ~Concurrent
  PROVE  Spec => []SerialInv
<1>1. Init => SerialInv
  BY DEF Init, SerialInv, NoHandler, Idle
<1>2. TypeOK /\ SerialInv /\ [Next]_vars => SerialInv'
  <2>1. SerialInv /\ UNCHANGED vars => SerialInv'
    BY DEF SerialInv, vars, Idle, Wipes, MovesScene
  <2> QED
    BY <2>1, SerialStep DEF Next
<1> QED
  BY <1>1, <1>2, StoreTypeCorrect, PTL DEF Spec

\* Only a committing update changes scene or map of a scenario that stays.
LEMMA OnlyUpdates ==
  ASSUME TypeOK, NEW c \in Clients, ClientNext(c),
         row # NoRow, row' # NoRow, row' # row
  PROVE  CommitUpdate(c) /\ handler[c].op = "update" /\ handler'[c].op = "none"
<1>1. CommitUpdate(c)
  BY DEF ClientNext, Load, BeginCreate, BeginUpdate, BeginDelete, Begin,
         InsertRow, InsertConflict, StaleUpdate, CommitDelete
<1> QED
  BY <1>1 DEF CommitUpdate, End, NoHandler, TypeOK

\* Objects vanish only when a client said so.
THEOREM WipesAreExplicit ==
  ASSUME ~Concurrent
  PROVE  Spec => NoSilentWipe
<1>1. ASSUME TypeOK, SerialInv, NEW c \in Clients, ClientNext(c), SameScenario,
             HasContent(row.scene), ~HasContent(row'.scene)
      PROVE  EndsUpdate(c) /\ handler[c].body.clear
  <2>1. CommitUpdate(c) /\ EndsUpdate(c)
    BY <1>1, OnlyUpdates DEF SameScenario, EndsUpdate
  <2>2. handler[c].read = row /\ ~Wipes(handler[c].body)
    BY <1>1, <2>1 DEF SerialInv, EndsUpdate, Idle
  <2>3. row'.scene = Column(handler[c].body.scene, row.scene, row.scene)
    BY <2>1, <2>2 DEF CommitUpdate, Updated
  <2>4. row'.scene = row.scene \/ row'.scene = handler[c].body.scene
    BY <2>3 DEF Column
  <2>5. handler[c].body.clear \in BOOLEAN
    BY <1>1 DEF TypeOK, BodyType
  <2> QED
    BY <1>1, <2>1, <2>2, <2>4, <2>5 DEF Wipes, HasContent
<1>2. TypeOK /\ SerialInv /\ [Next]_vars
        => [SameScenario /\ HasContent(row.scene) /\ ~HasContent(row'.scene)
              => \E c \in Clients : EndsUpdate(c) /\ handler[c].body.clear]_vars
  BY <1>1 DEF Next
<1> QED
  BY <1>2, SerialInvariant, StoreTypeCorrect, PTL DEF Spec, NoSilentWipe

\* Objects stay on the map they were placed on.
THEOREM ScenesStay ==
  ASSUME ~Concurrent
  PROVE  Spec => SceneStaysOnItsMap
<1>1. ASSUME TypeOK, SerialInv, NEW c \in Clients, ClientNext(c), SameScenario,
             HasContent(row.scene), row.map # row'.map
      PROVE  /\ EndsUpdate(c)
             /\ \/ handler[c].body.scene = Omitted
                \/ handler[c].body.clear /\ ~HasContent(row'.scene)
  <2>1. CommitUpdate(c) /\ EndsUpdate(c)
    BY <1>1, OnlyUpdates DEF SameScenario, EndsUpdate
  <2>2. handler[c].read = row /\ ~MovesScene(handler[c].body)
    BY <1>1, <2>1 DEF SerialInv, EndsUpdate, Idle
  <2>3. /\ row'.scene = Column(handler[c].body.scene, row.scene, row.scene)
        /\ row'.map = Column(handler[c].body.map, row.map, row.map)
    BY <2>1, <2>2 DEF CommitUpdate, Updated
  <2>4. handler[c].body.map \notin {Omitted, row.map}
    BY <1>1, <2>3 DEF Column
  <2>5. \/ handler[c].body.scene = Omitted
        \/ handler[c].body.clear /\ handler[c].body.scene \in EmptyScenes
    BY <1>1, <2>2, <2>4 DEF MovesScene
  <2>6. handler[c].body.scene \in EmptyScenes => ~HasContent(row'.scene)
    BY <2>3, SceneAssumption DEF Column, HasContent
  <2> QED
    BY <2>1, <2>5, <2>6
<1>2. TypeOK /\ SerialInv /\ [Next]_vars
        => [SameScenario /\ HasContent(row.scene) /\ row.map # row'.map
              => \E c \in Clients :
                   /\ EndsUpdate(c)
                   /\ \/ handler[c].body.scene = Omitted
                      \/ handler[c].body.clear /\ ~HasContent(row'.scene)]_vars
  BY <1>1 DEF Next
<1> QED
  BY <1>2, SerialInvariant, StoreTypeCorrect, PTL DEF Spec, SceneStaysOnItsMap

-----------------------------------------------------------------------------
(* Revisions, when also the scenario_id is not used again after a deletion  *)
(* and every save carries the revision its client holds.                   *)

Orderly == ~Concurrent /\ ~BlindSaves /\ MaxRows <= 1

\* The only row there ever is has the last primary key.
LEMMA LastRow ==
  ASSUME TypeOK, IdsInv, RevisionInv, row # NoRow
  PROVE  row.id = lastId
<1>1. row.id \in Nat /\ row.id # 0 /\ lastId \in Nat
  BY NoRowIsNone DEF TypeOK
<1>2. row.id <= lastId /\ lastId <= 1
  BY DEF IdsInv, RevisionInv
<1> QED
  BY <1>1, <1>2

\* Whoever commits an update holds the row as it is.
LEMMA HoldsCurrentRow ==
  ASSUME TypeOK, IdsInv, RevisionInv,
         NEW c \in Clients, handler[c].op = "update", SameRow(c)
  PROVE  view[c] = row /\ row # NoRow
<1> USE NoRowIsNone DEF TypeOK
<1>1. row # NoRow /\ row.id \in Nat \ {0}
  BY DEF SameRow
<1>2. row.id = lastId
  BY <1>1, LastRow
<1>3. view[c].id = row.id /\ view[c].revision = row.revision
  BY <1>2 DEF RevisionInv
<1> QED
  BY <1>1, <1>3 DEF RevisionInv, RevisionNamesContent

LEMMA RevisionStep ==
  ASSUME Orderly, TypeOK, IdsInv, SerialInv, RevisionInv,
         NEW c \in Clients, ClientNext(c)
  PROVE  RevisionInv'
<1> USE NoRowIsNone, BoundAssumption DEF TypeOK, Idle, Orderly
<1>0. NoHandler.op = "none"
  BY DEF NoHandler
<1>1. CASE Load(c)
  <2>1. row.id = lastId
    BY <1>1, LastRow DEF Load
  <2>2. /\ UNCHANGED <<row, lastId, handler>>
        /\ \A d \in Clients : view'[d] = IF d = c THEN row ELSE view[d]
        /\ handler[c].op = "none" /\ row # NoRow
    BY <1>1 DEF Load
  <2>3. RevisionNamesContent'
    BY <2>2 DEF RevisionInv, RevisionNamesContent
  <2>4. row.revision \in Nat
    BY <2>2 DEF RowType
  <2> QED
    BY <2>1, <2>2, <2>3, <2>4 DEF RevisionInv
<1>2. ASSUME NEW scene \in Scenes, NEW map \in Maps, BeginCreate(c, scene, map)
      PROVE  RevisionInv'
  <2>1. lastId = 0
    BY <1>2 DEF BeginCreate
  <2> QED
    BY <1>2, <2>1 DEF BeginCreate, Begin, RevisionInv, RevisionNamesContent
<1>3. CASE InsertRow(c)
  <2>1. lastId = 0 /\ \A d \in Clients : view[d] = NoRow
    BY <1>3 DEF InsertRow, RevisionInv, IdsInv
  <2>2. row'.id = 1 /\ row'.revision = 1 /\ lastId' = 1 /\ row' # NoRow
    BY <1>3, <2>1 DEF InsertRow, Created
  <2>3. \A d \in Clients : view'[d] \in {row', NoRow}
    BY <1>3, <2>1 DEF InsertRow, Reply
  <2>4. \A d \in Clients : handler'[d].op = "none"
    BY <1>0, <1>3 DEF InsertRow, End, SerialInv
  <2>5. RevisionNamesContent'
    BY <2>2, <2>3 DEF RevisionNamesContent
  <2> QED
    BY <2>2, <2>3, <2>4, <2>5 DEF RevisionInv
<1>4. CASE InsertConflict(c) \/ StaleUpdate(c)
  <2>1. UNCHANGED <<row, lastId, view>> /\ End(c)
    BY <1>4 DEF InsertConflict, StaleUpdate
  <2> QED
    BY <1>0, <2>1 DEF End, RevisionInv, RevisionNamesContent
<1>5. ASSUME NEW body \in Bodies, BeginUpdate(c, body) PROVE RevisionInv'
  <2>1. view[c] # NoRow /\ row.revision = view[c].revision
    BY <1>5 DEF BeginUpdate, Current
  <2> QED
    BY <1>5, <2>1 DEF BeginUpdate, Begin, RevisionInv, RevisionNamesContent
<1>6. CASE CommitUpdate(c)
  <2>1. view[c] = row /\ row # NoRow /\ handler[c].read = row
    BY <1>6, HoldsCurrentRow DEF CommitUpdate, SerialInv
  <2>2. /\ row.id = lastId /\ lastId' = lastId /\ lastId = 1
        /\ row.revision \in Nat
    BY <1>6, <2>1 DEF CommitUpdate, IdsInv, RevisionInv, RowType
  <2>3. /\ Believed(c, row, handler[c].body) = Updated(row, handler[c].body)
        /\ row' = Updated(row, handler[c].body)
    BY <1>6, <2>1 DEF CommitUpdate, Believed, Updated, Column
  <2>4. row'.id = 1 /\ row'.revision = row.revision + 1
    BY <2>2, <2>3 DEF Updated
  <2>5. row' # NoRow
    BY <2>4 DEF NoRow
  <2>6. /\ \A d \in Clients : view'[d] = row' \/ view'[d] = view[d]
        /\ \A d \in Clients : handler'[d].op = "none"
    BY <1>0, <1>6, <2>1, <2>3 DEF CommitUpdate, Reply, End, SerialInv
  <2>7. \A d \in Clients :
          view[d] # NoRow => view[d].id = 1 /\ view[d].revision <= row.revision
    BY <2>1, <2>2 DEF RevisionInv
  <2>8. \A d \in Clients : view[d].revision \in Nat /\ view[d].id \in Nat
    BY DEF ViewType, NoRow
  <2>9. \A d \in Clients : ~(view[d].id = row'.id /\ view[d].revision = row'.revision)
    BY <2>2, <2>4, <2>7, <2>8
  <2>10. RevisionNamesContent'
    BY <2>6, <2>9 DEF RevisionInv, RevisionNamesContent
  <2> QED
    BY <2>2, <2>4, <2>5, <2>6, <2>7, <2>8, <2>10 DEF RevisionInv
<1>7. CASE BeginDelete(c)
  BY <1>7 DEF BeginDelete, Begin, RevisionInv, RevisionNamesContent
<1>8. CASE CommitDelete(c)
  <2>1. handler[c].read = row /\ row' = NoRow /\ lastId' = lastId
    BY <1>8 DEF CommitDelete, SameRow, SerialInv
  <2>2. /\ \A d \in Clients : view'[d] = NoRow \/ view'[d] = view[d]
        /\ \A d \in Clients : handler'[d].op = "none"
    BY <1>0, <1>8 DEF CommitDelete, Reply, End, SerialInv
  <2>3. \A d \in Clients : view[d].id = 0 => view[d] = NoRow
    OBVIOUS
  <2>4. RevisionNamesContent'
    BY <2>1, <2>2, <2>3 DEF RevisionInv, RevisionNamesContent
  <2> QED
    BY <2>1, <2>2, <2>4 DEF RevisionInv
<1> QED
  BY <1>1, <1>2, <1>3, <1>4, <1>5, <1>6, <1>7, <1>8 DEF ClientNext

\* Revisions only grow, and whoever saves holds the current one.
LEMMA RevisionInvariant ==
  ASSUME Orderly
  PROVE  Spec => []RevisionInv
<1>1. Init => RevisionInv
  BY DEF Init, RevisionInv, RevisionNamesContent, NoHandler
<1>2. TypeOK /\ IdsInv /\ SerialInv /\ RevisionInv /\ [Next]_vars => RevisionInv'
  <2>1. RevisionInv /\ UNCHANGED vars => RevisionInv'
    BY DEF RevisionInv, RevisionNamesContent, vars
  <2> QED
    BY <2>1, RevisionStep DEF Next
<1>3. ~Concurrent
  BY DEF Orderly
<1> QED
  BY <1>1, <1>2, <1>3, IdsInvariant, SerialInvariant, PTL DEF Spec

\* Two holders of one revision hold the same scenario.
THEOREM RevisionsAgree ==
  ASSUME Orderly
  PROVE  Spec => []RevisionNamesContent
<1>1. RevisionInv => RevisionNamesContent
  BY DEF RevisionInv
<1> QED
  BY <1>1, RevisionInvariant, PTL

\* No save overwrites work its client has not seen.
THEOREM NothingIsLost ==
  ASSUME Orderly
  PROVE  Spec => NoLostUpdate
<1>1. TypeOK /\ IdsInv /\ RevisionInv
        => \A c \in Clients :
             CommitUpdate(c) =>
               /\ row'.scene # row.scene => row.scene = view[c].scene
               /\ row'.map # row.map => row.map = view[c].map
  BY HoldsCurrentRow DEF CommitUpdate
<1> QED
  BY <1>1, RevisionInvariant, IdsInvariant, PTL DEF NoLostUpdate

=============================================================================
