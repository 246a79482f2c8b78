------------------------ MODULE EditorSessionProofs ------------------------
(***************************************************************************)
(* Proofs about EditorSession for any scenarios, maps, jobs and bounds, as *)
(* long as none of the upsets happens: the scene that is open, its row and *)
(* what is saved belong together.                                          *)
(***************************************************************************)
EXTENDS EditorSession, TLAPS

\* What the runs assume: none of the upsets.
Calm == Upsets = {}

MapsOrNone == Maps \cup {NoMap}
IdsOrNone == Ids \cup {NoId}
Scenes == [base : IdsOrNone, on : MapsOrNone, ver : Nat]
Rows == [rev : Nat, base : IdsOrNone, on : MapsOrNone, ver : Nat,
         map : MapsOrNone, file : MapsOrNone]
JobStates == [kind : {"none", "open", "dialog", "select", "left"},
              pc : {"none", "row", "xodr", "prepare", "settle"},
              map : MapsOrNone, row : Rows, id : IdsOrNone, prev : MapsOrNone,
              open : BOOLEAN]
Ops == [kind : {"none", "create", "patch", "delete"}, pc : {"none", "sent", "ok"},
        id : IdsOrNone, rev : Nat, scene : Scenes, map : MapsOrNone, file : MapsOrNone,
        blind : BOOLEAN, alive : BOOLEAN]
Descs == {NoDesc} \cup [pc : {"sent", "ok"}, id : Ids, rev : Nat]

Types ==
  /\ doc \in [id : IdsOrNone, rev : Nat, map : Maps]
  /\ scene \in Scenes
  /\ clean \in Maps \X Nat
  /\ view \in [shown : MapsOrNone, odr : MapsOrNone]
  /\ cache \in [name : MapsOrNone, xodr : Maps]
  /\ loading \in BOOLEAN
  /\ screen \in {"clear", "busy", "error"}
  /\ dialogBusy \in BOOLEAN
  /\ owner \in [load : Jobs \cup {NoJob}, select : Jobs \cup {NoJob},
                build : Jobs \cup {NoJob}]
  /\ jobs \in [Jobs -> JobStates]
  /\ op \in Ops
  /\ desc \in Descs
  /\ unseen \in BOOLEAN
  /\ rows \in [Ids -> Rows]
  /\ ver \in Nat

\* A job drawing its map: its map is parsed.
Drawing(j) == jobs[j].pc \in {"prepare", "settle"}
Loads(j) == jobs[j].kind \in {"open", "dialog"}
Selects(j) == jobs[j].kind \in {"select", "left"}

\* At most one job can still change the scene, and it holds the tokens.
JobsHoldTokens ==
  \A j \in Jobs :
    /\ jobs[j].kind = "none" => jobs[j].pc = "none"
    /\ jobs[j].kind = "left" => jobs[j].pc = "xodr"
    /\ Loads(j) =>
         /\ jobs[j].pc \in {"row", "prepare", "settle"}
         /\ jobs[j].id \in Ids
         /\ owner.load = j /\ jobs[j].open /\ screen = "busy"
    /\ jobs[j].kind = "select" =>
         jobs[j].pc \in {"xodr", "prepare", "settle"} /\ jobs[j].map \in Maps
    /\ Selects(j) => owner.select = j /\ loading
    /\ Drawing(j) => owner.build = j /\ screen = "busy" /\ jobs[j].map \in Maps

OneJobWorks ==
  \A j, k \in Jobs : ~(jobs[j].kind = "select" /\ Loads(k))

FlagsHaveWork ==
  /\ loading => \E j \in Jobs : Selects(j)
  /\ screen = "busy" => \E j \in Jobs : Loads(j) \/ Drawing(j)

\* The scene grew from the scenario that is open (unless a description's answer
\* bound it to another), on its map, and is on display; while a map settles it is
\* empty.
SceneIsOpen ==
  /\ \A j \in Jobs : jobs[j].pc = "settle" =>
       scene = NoScene /\ view = [shown |-> jobs[j].map, odr |-> jobs[j].map]
  /\ ~Settling =>
       /\ ~unseen => scene.base = doc.id
       /\ scene.ver # 0 => scene.on = doc.map
       /\ view.shown \in {NoMap, doc.map}
  /\ (\A j \in Jobs : ~Drawing(j)) => view.odr = view.shown

\* The cached text and name are those of the scenario's map, but for the name of
\* a map that is being drawn.
CacheIsOpen ==
  /\ cache.xodr = doc.map
  /\ \A j \in Jobs : jobs[j].kind = "select" /\ Drawing(j) =>
       cache.name = jobs[j].map /\ jobs[j].prev = doc.map
  /\ (\A j \in Jobs : ~(jobs[j].kind = "select" /\ Drawing(j))) =>
       cache.name \in {NoMap, doc.map}

RowOK(id, row) ==
  /\ row.rev # 0 /\ row.base = id
  /\ row.map \in Maps /\ row.file = row.map
  /\ row.ver # 0 => row.on = row.map

\* A revision of a row that is stored is no newer than the row.  If it is the
\* row's, or the one before and a description made the row's, it names its content.
Names(id, rev, content) ==
  Stored(id) =>
    /\ rev <= rows[id].rev
    /\ rev = rows[id].rev => content = rows[id].ver
    /\ (desc.pc = "ok" /\ desc.id = id /\ desc.rev = rows[id].rev /\ rev + 1 = desc.rev)
         => content = rows[id].ver

RowsAreWhole == \A id \in Ids : Stored(id) => RowOK(id, rows[id])

LoadedRowsAreWhole ==
  \A j \in Jobs : Loads(j) /\ Drawing(j) =>
    /\ RowOK(jobs[j].id, jobs[j].row) /\ jobs[j].map = jobs[j].row.file
    /\ Names(jobs[j].id, jobs[j].row.rev, jobs[j].row.ver)

\* While an operation is in flight no job works, and what it sent is what the
\* editor shows; what was sent unseen need not belong to its id.
OpIsOpen ==
  op # NoOp =>
    /\ op.alive /\ op.kind # "none" /\ op.pc # "none"
    /\ \A j \in Jobs : jobs[j].kind = "none"
    /\ op.kind = "create" => doc.id = NoId \/ unseen
    /\ op.kind # "create" \/ op.pc = "ok" => op.id \in Ids
    /\ op.kind # "delete" =>
         op.scene = scene /\ op.map = doc.map /\ op.file = cache.xodr
    /\ op.kind = "patch" /\ ~op.blind => op.scene.base = op.id
    /\ op.kind # "delete" /\ op.pc = "ok" =>
         op.rev # 0 /\ Names(op.id, op.rev, op.scene.ver)

\* The revision of a description's answer is no newer than its row.
DescIsStored ==
  desc.pc = "ok" => desc.rev # 0 /\ (Stored(desc.id) => desc.rev <= rows[desc.id].rev)

\* The revision the editor has seen names the content it calls clean.
RevisionNamesClean ==
  doc.id # NoId /\ ~unseen => doc.rev # 0 /\ Names(doc.id, doc.rev, clean[2])

IInv ==
  /\ Types
  /\ JobsHoldTokens /\ OneJobWorks /\ FlagsHaveWork
  /\ SceneIsOpen /\ CacheIsOpen
  /\ RowsAreWhole /\ LoadedRowsAreWhole
  /\ OpIsOpen /\ DescIsStored /\ RevisionNamesClean

-----------------------------------------------------------------------------
(* Facts about the constants of the model.                                 *)

LEMMA NothingFacts ==
  /\ Idle \in JobStates /\ Idle.kind = "none" /\ Idle.pc = "none"
  /\ NoScene \in Scenes /\ NoScene.ver = 0 /\ NoScene.base = NoId
  /\ NoRow \in Rows /\ NoRow.rev = 0 /\ NoRow.ver = 0
  /\ NoOp \in Ops /\ NoOp.kind = "none" /\ NoOp.pc = "none"
  /\ NoOp.alive = FALSE /\ NoOp.id = NoId
  /\ NoDesc \in Descs /\ NoDesc.pc = "none"
<1> USE DEF Idle, NoScene, NoRow, NoOp, NoDesc, JobStates, Scenes, Rows, Ops, Descs, IdsOrNone, MapsOrNone
<1> QED OBVIOUS

LEMMA CalmFacts ==
  ASSUME Calm
  PROVE  \A u : u \notin Upsets
<1> QED BY DEF Calm

\* While the screen is clear and the flag down, nothing works; an operation in
\* flight is not dead.
LEMMA ClickableFacts ==
  ASSUME IInv
  PROVE  /\ screen # "busy" => \A j \in Jobs : ~Loads(j) /\ ~Drawing(j)
         /\ ~loading => \A j \in Jobs : ~Selects(j)
         /\ screen # "busy" => ~Settling
         /\ ~op.alive => op = NoOp
<1> USE DEF IInv, JobsHoldTokens
<1>1. screen # "busy" => \A j \in Jobs : ~Loads(j) /\ ~Drawing(j) OBVIOUS
<1>2. ~loading => \A j \in Jobs : ~Selects(j) OBVIOUS
<1>3. screen # "busy" => ~Settling BY <1>1 DEF Settling, Drawing
<1>4. ~op.alive => op = NoOp BY DEF OpIsOpen
<1> QED BY <1>1, <1>2, <1>3, <1>4

\* What a step leaves alone keeps what is said of it.
LEMMA FrameJobs ==
  ASSUME IInv, UNCHANGED <<jobs, owner, screen, loading>>
  PROVE  JobsHoldTokens' /\ FlagsHaveWork'
<1>1. JobsHoldTokens' BY DEF IInv, JobsHoldTokens, Loads, Selects, Drawing
<1>2. FlagsHaveWork' BY DEF IInv, FlagsHaveWork, Loads, Selects, Drawing
<1> QED BY <1>1, <1>2

LEMMA FrameWorks == ASSUME IInv, UNCHANGED jobs PROVE OneJobWorks'
<1> QED BY DEF IInv, OneJobWorks, Loads

LEMMA FrameScene ==
  ASSUME IInv, UNCHANGED <<jobs, scene, view, doc, unseen>> PROVE SceneIsOpen'
<1> QED BY DEF IInv, SceneIsOpen, Settling, Drawing

LEMMA FrameCache ==
  ASSUME IInv, UNCHANGED <<jobs, cache, doc>> PROVE CacheIsOpen'
<1> QED BY DEF IInv, CacheIsOpen, Drawing

LEMMA FrameRows ==
  ASSUME IInv, UNCHANGED rows PROVE RowsAreWhole'
<1> QED BY DEF IInv, RowsAreWhole, Stored, RowOK

LEMMA FrameLoaded ==
  ASSUME IInv, UNCHANGED <<jobs, rows, desc>> PROVE LoadedRowsAreWhole'
<1> QED BY DEF IInv, LoadedRowsAreWhole, Loads, Drawing, Names, Stored, RowOK

LEMMA FrameOp ==
  ASSUME IInv, UNCHANGED <<op, jobs, doc, unseen, scene, cache, rows, desc>>
  PROVE  OpIsOpen'
<1> QED BY DEF IInv, OpIsOpen, Names, Stored

LEMMA FrameClean ==
  ASSUME IInv, UNCHANGED <<doc, clean, unseen, rows, desc>> PROVE RevisionNamesClean'
<1> QED BY DEF IInv, RevisionNamesClean, Names, Stored

LEMMA FrameDesc == ASSUME IInv, UNCHANGED <<rows, desc>> PROVE DescIsStored'
<1> QED BY DEF IInv, DescIsStored, Stored

LEMMA DismissStep ==
  ASSUME Calm, IInv, Dismiss PROVE IInv'
<1>1. screen = "error" /\ screen' = "clear"
  BY DEF Dismiss
<1>2. Types'
  BY <1>1 DEF IInv, Types, Dismiss, docVars
<1>3. JobsHoldTokens'
  BY <1>1, NothingFacts DEF IInv, JobsHoldTokens, Loads, Selects, Drawing,
     Dismiss, docVars
<1>4. FlagsHaveWork'
  BY <1>1, NothingFacts DEF IInv, FlagsHaveWork, Loads, Selects, Drawing,
     Dismiss, docVars
<1>5. OneJobWorks' /\ SceneIsOpen' /\ CacheIsOpen' /\ RowsAreWhole'
      /\ LoadedRowsAreWhole' /\ OpIsOpen' /\ RevisionNamesClean' /\ DescIsStored'
  BY <1>1, FrameWorks, FrameScene, FrameCache, FrameRows, FrameLoaded,
     FrameOp, FrameClean, FrameDesc DEF Dismiss, docVars
<1> QED BY <1>2, <1>3, <1>4, <1>5 DEF IInv

\* Objects are placed on the map on display, which is the scenario's.
LEMMA EditStep ==
  ASSUME Calm, IInv, Edit PROVE IInv'
<1>1. screen = "clear" /\ op = NoOp /\ view.shown # NoMap
  BY CalmFacts, ClickableFacts DEF Edit, CanEdit, Clickable
<1>2. \A j \in Jobs : ~Loads(j) /\ ~Drawing(j) /\ jobs[j].pc # "settle"
  BY <1>1, ClickableFacts DEF Drawing
<1>3. ~Settling
  BY <1>2 DEF Settling
<1>4. Types'
  <2>1. ver' \in Nat
    BY DEF IInv, Types, Edit
  <2>2. /\ scene'.base = scene.base /\ scene'.ver = ver + 1
        /\ scene'.on \in {view.shown, NoMap}
        /\ scene' = [base |-> scene'.base, on |-> scene'.on, ver |-> scene'.ver]
    BY DEF IInv, Types, Edit, Scenes
  <2>3. view.shown \in MapsOrNone /\ scene \in Scenes /\ ver \in Nat
    BY DEF IInv, Types
  <2>4. scene' \in Scenes
    BY <2>2, <2>3 DEF Scenes, MapsOrNone
  <2> QED BY <2>1, <2>2, <2>3, <2>4, <1>1, <1>2, <1>3 DEF IInv, Types, Edit, docVars
<1>5. SceneIsOpen'
  <2>1. scene'.base = scene.base /\ scene'.on = doc.map
    BY <1>1, <1>3 DEF IInv, Types, SceneIsOpen, Edit, Scenes, docVars
  <2> QED BY <1>2, <1>3, <2>1
          DEF IInv, SceneIsOpen, Edit, Settling, Drawing, docVars
<1>6. OpIsOpen'
  BY <1>1 DEF IInv, OpIsOpen, Edit
<1>7. JobsHoldTokens' /\ OneJobWorks' /\ FlagsHaveWork' /\ CacheIsOpen'
      /\ RowsAreWhole' /\ LoadedRowsAreWhole' /\ RevisionNamesClean' /\ DescIsStored'
  BY <1>1, <1>2, <1>3, FrameJobs, FrameWorks, FrameCache, FrameRows,
     FrameLoaded, FrameClean, FrameDesc DEF Edit, docVars
<1> QED BY <1>4, <1>5, <1>6, <1>7 DEF IInv

LEMMA RemoveEverythingStep ==
  ASSUME Calm, IInv, RemoveEverything PROVE IInv'
<1>1. screen = "clear" /\ op = NoOp /\ view.shown # NoMap
  BY CalmFacts, ClickableFacts DEF RemoveEverything, CanEdit, Clickable
<1>2. \A j \in Jobs : ~Loads(j) /\ ~Drawing(j) /\ jobs[j].pc # "settle"
  BY <1>1, ClickableFacts DEF Drawing
<1>3. ~Settling
  BY <1>2 DEF Settling
<1>4. Types'
  <2>1. scene' \in Scenes
    BY DEF IInv, Types, RemoveEverything, Scenes, IdsOrNone, MapsOrNone
  <2> QED BY <2>1, <1>1, <1>2, <1>3 DEF IInv, Types, RemoveEverything, docVars
<1>5. SceneIsOpen'
  <2>1. scene'.base = scene.base /\ scene'.ver = 0
    BY DEF IInv, Types, RemoveEverything, Scenes
  <2> QED BY <1>2, <1>3, <2>1
          DEF IInv, SceneIsOpen, RemoveEverything, Settling, Drawing, docVars
<1>6. OpIsOpen'
  BY <1>1 DEF IInv, OpIsOpen, RemoveEverything
<1>7. JobsHoldTokens' /\ OneJobWorks' /\ FlagsHaveWork' /\ CacheIsOpen'
      /\ RowsAreWhole' /\ LoadedRowsAreWhole' /\ RevisionNamesClean' /\ DescIsStored'
  BY <1>1, <1>2, <1>3, FrameJobs, FrameWorks, FrameCache, FrameRows,
     FrameLoaded, FrameClean, FrameDesc DEF RemoveEverything, docVars
<1> QED BY <1>4, <1>5, <1>6, <1>7 DEF IInv

LEMMA SaveStep ==
  ASSUME Calm, IInv, Save PROVE IInv'
<1>1. op = NoOp /\ \A j \in Jobs : ~Loads(j) /\ ~Drawing(j) /\ ~Selects(j)
  BY ClickableFacts DEF Save, Begin, Clickable, ReadOnly
<1>2. \A j \in Jobs : jobs[j].kind = "none"
  <2> TAKE j \in Jobs
  <2>1. jobs[j] \in JobStates BY DEF IInv, Types
  <2> QED BY <1>1, <2>1 DEF Loads, Selects, JobStates
<1>3. /\ op' \in Ops /\ op' # NoOp /\ op'.alive /\ op'.pc = "sent"
      /\ op'.kind = (IF doc.id = NoId THEN "create" ELSE "patch")
      /\ op'.id = doc.id /\ op'.rev = doc.rev
      /\ op'.scene = scene /\ op'.map = doc.map /\ op'.file = cache.xodr /\ op'.blind = unseen
      /\ UNCHANGED <<doc, clean, unseen, scene, cache, jobs, rows, desc>>
  <2>1. unseen \in BOOLEAN
        /\ doc \in [id : IdsOrNone, rev : Nat, map : Maps] /\ scene \in Scenes
        /\ cache \in [name : MapsOrNone, xodr : Maps]
    BY DEF IInv, Types
  <2> QED BY <2>1 DEF Save, Begin, Payload, NoOp, Ops, IdsOrNone, MapsOrNone, Scenes, docVars
<1>4. Types'
  <2>1. op' \in Ops
    BY <1>3 DEF Ops
  <2> QED BY <2>1, <1>1, <1>2, <1>3 DEF IInv, Types, Save, Begin, docVars
<1>5. OpIsOpen'
  <2>1. ~Settling BY <1>1 DEF Settling, Drawing
  <2>2. ~unseen => scene.base = doc.id BY <2>1 DEF IInv, SceneIsOpen
  <2>3. doc.id # NoId => doc.id \in Ids BY DEF IInv, Types, IdsOrNone
  <2> QED BY <1>2, <1>3, <2>2, <2>3 DEF OpIsOpen
<1>6. JobsHoldTokens' /\ OneJobWorks' /\ FlagsHaveWork' /\ SceneIsOpen'
      /\ CacheIsOpen' /\ RowsAreWhole' /\ LoadedRowsAreWhole' /\ RevisionNamesClean' /\ DescIsStored'
  BY <1>1, <1>2, <1>3, FrameJobs, FrameWorks, FrameScene, FrameCache,
     FrameRows, FrameLoaded, FrameClean, FrameDesc DEF Save, Begin, docVars
<1> QED BY <1>4, <1>5, <1>6 DEF IInv

LEMMA RemoveStep ==
  ASSUME Calm, IInv, Remove PROVE IInv'
<1>1. op = NoOp /\ \A j \in Jobs : ~Loads(j) /\ ~Drawing(j) /\ ~Selects(j)
  BY ClickableFacts DEF Remove, Begin, Clickable, ReadOnly
<1>2. \A j \in Jobs : jobs[j].kind = "none"
  <2> TAKE j \in Jobs
  <2>1. jobs[j] \in JobStates BY DEF IInv, Types
  <2> QED BY <1>1, <2>1 DEF Loads, Selects, JobStates
<1>3. /\ op' \in Ops /\ op' # NoOp /\ op'.alive /\ op'.pc = "sent"
      /\ op'.kind = "delete" /\ op'.id = doc.id /\ doc.id # NoId
      /\ UNCHANGED <<doc, clean, unseen, scene, cache, jobs, rows, desc>>
  <2>1. unseen \in BOOLEAN
        /\ doc \in [id : IdsOrNone, rev : Nat, map : Maps] /\ scene \in Scenes
        /\ cache \in [name : MapsOrNone, xodr : Maps]
    BY DEF IInv, Types
  <2> QED BY <2>1 DEF Remove, Begin, Payload, NoOp, Ops, IdsOrNone, MapsOrNone, Scenes, docVars
<1>4. Types'
  <2>1. op' \in Ops
    BY <1>3 DEF Ops
  <2> QED BY <2>1, <1>1, <1>2, <1>3 DEF IInv, Types, Remove, Begin, docVars
<1>5. OpIsOpen'
  <2>1. doc.id \in Ids BY <1>3 DEF IInv, Types, IdsOrNone
  <2> QED BY <1>2, <1>3, <2>1 DEF OpIsOpen
<1>6. JobsHoldTokens' /\ OneJobWorks' /\ FlagsHaveWork' /\ SceneIsOpen'
      /\ CacheIsOpen' /\ RowsAreWhole' /\ LoadedRowsAreWhole' /\ RevisionNamesClean' /\ DescIsStored'
  BY <1>1, <1>2, <1>3, FrameJobs, FrameWorks, FrameScene, FrameCache,
     FrameRows, FrameLoaded, FrameClean, FrameDesc DEF Remove, Begin, docVars
<1> QED BY <1>4, <1>5, <1>6 DEF IInv

-----------------------------------------------------------------------------
(* Descriptions.                                                           *)

LEMMA DescribeStep ==
  ASSUME Calm, IInv, NEW id \in Ids, Describe(id) PROVE IInv'
<1>1. UNCHANGED <<doc, clean, unseen, scene, view, cache, loading, screen, dialogBusy, owner,
                  jobs, op, rows, ver>>
  BY DEF Describe, docVars
<1>2. desc = NoDesc /\ desc' = [pc |-> "sent", id |-> id, rev |-> 0] BY DEF Describe
<1>3. desc.pc = "none" /\ desc'.pc = "sent" /\ desc' \in Descs
  BY <1>2, NothingFacts DEF Descs
<1>4. ASSUME NEW i, NEW r, NEW c, Names(i, r, c) PROVE Names(i, r, c)'
  BY <1>1, <1>3, <1>4 DEF Names, Stored
<1>5. Types' BY <1>1, <1>3 DEF IInv, Types
<1>6. LoadedRowsAreWhole'
  BY <1>1, <1>4 DEF IInv, LoadedRowsAreWhole, Loads, Drawing, RowOK
<1>7. OpIsOpen' BY <1>1, <1>4 DEF IInv, OpIsOpen
<1>8. DescIsStored' BY <1>3 DEF DescIsStored
<1>9. RevisionNamesClean' BY <1>1, <1>4 DEF IInv, RevisionNamesClean
<1> QED BY <1>1, <1>5, <1>6, <1>7, <1>8, <1>9, FrameJobs, FrameWorks, FrameScene,
           FrameCache, FrameRows DEF IInv

\* The server writes the description: the revision before names the content of the
\* new one too.
LEMMA DescribedStep ==
  ASSUME Calm, IInv, Described PROVE IInv'
<1>1. UNCHANGED <<doc, clean, unseen, scene, view, cache, loading, screen, dialogBusy, owner,
                  jobs, op, ver>>
  BY DEF Described, docVars
<1>2. /\ desc \in Descs /\ desc.pc = "sent" /\ rows \in [Ids -> Rows]
      /\ desc.id \in Ids /\ rows[desc.id] \in Rows
  BY NothingFacts DEF Described, IInv, Types, Descs
<1>3. CASE desc' = NoDesc /\ UNCHANGED rows
  <2>1. desc'.pc = "none" /\ desc' \in Descs BY <1>3, NothingFacts
  <2>2. ASSUME NEW i, NEW r, NEW c, Names(i, r, c) PROVE Names(i, r, c)'
    BY <1>3, <2>1, <2>2 DEF Names, Stored
  <2>3. Types' BY <1>1, <1>3, <2>1 DEF IInv, Types
  <2>4. LoadedRowsAreWhole'
    BY <1>1, <2>2 DEF IInv, LoadedRowsAreWhole, Loads, Drawing, RowOK
  <2>5. OpIsOpen' BY <1>1, <2>2 DEF IInv, OpIsOpen
  <2>6. DescIsStored' BY <2>1 DEF DescIsStored
  <2>7. RevisionNamesClean' BY <1>1, <2>2 DEF IInv, RevisionNamesClean
  <2> QED BY <1>1, <1>3, <2>3, <2>4, <2>5, <2>6, <2>7, FrameJobs, FrameWorks, FrameScene,
             FrameCache, FrameRows DEF IInv
<1>4. CASE /\ Stored(desc.id) /\ rows' = [rows EXCEPT ![desc.id].rev = @ + 1]
           /\ desc' = [desc EXCEPT !.pc = "ok", !.rev = rows[desc.id].rev + 1]
  <2>1. /\ rows[desc.id].rev \in Nat
        /\ \A i \in Ids : i # desc.id => rows'[i] = rows[i]
        /\ rows'[desc.id] = [rows[desc.id] EXCEPT !.rev = @ + 1]
        /\ rows' \in [Ids -> Rows]
    BY <1>2, <1>4 DEF Rows
  <2>2. /\ rows'[desc.id].rev = rows[desc.id].rev + 1 /\ rows'[desc.id].ver = rows[desc.id].ver
        /\ rows'[desc.id].base = rows[desc.id].base /\ rows'[desc.id].on = rows[desc.id].on
        /\ rows'[desc.id].map = rows[desc.id].map /\ rows'[desc.id].file = rows[desc.id].file
    BY <1>2, <2>1 DEF Rows
  <2>3. /\ desc' \in Descs /\ desc'.pc = "ok" /\ desc'.id = desc.id
        /\ desc'.rev = rows[desc.id].rev + 1
    <3>1. desc \in [pc : {"sent", "ok"}, id : Ids, rev : Nat] BY <1>2, NothingFacts DEF Descs
    <3>2. desc' = [pc |-> "ok", id |-> desc.id, rev |-> rows[desc.id].rev + 1]
      BY <1>4, <3>1
    <3>3. rows[desc.id].rev + 1 \in Nat BY <2>1
    <3> QED BY <1>2, <3>2, <3>3 DEF Descs
  <2>4. ASSUME NEW i \in Ids, NEW r \in Nat, NEW c, Names(i, r, c) PROVE Names(i, r, c)'
    <3>1. CASE i = desc.id
      <4>1. r <= rows[i].rev /\ (r = rows[i].rev => c = rows[i].ver)
        BY <1>4, <2>4, <3>1 DEF Names
      <4>2. rows'[i].rev = rows[i].rev + 1 /\ rows'[i].ver = rows[i].ver
            /\ desc'.rev = rows[i].rev + 1 /\ rows[i].rev \in Nat
        BY <2>1, <2>2, <2>3, <3>1
      <4> QED BY <4>1, <4>2 DEF Names
    <3>2. CASE i # desc.id BY <2>1, <2>3, <2>4, <3>2 DEF Names, Stored
    <3> QED BY <3>1, <3>2
  <2>5. Types' BY <1>1, <2>1, <2>3 DEF IInv, Types
  <2>6. RowsAreWhole'
    <3> SUFFICES ASSUME NEW i \in Ids, Stored(i)' PROVE RowOK(i, rows'[i])
      BY DEF RowsAreWhole, RowOK
    <3>1. CASE i = desc.id
      <4>1. RowOK(i, rows[i]) BY <1>4, <3>1 DEF IInv, RowsAreWhole
      <4>2. rows'[i].rev = rows[i].rev + 1 /\ rows[i].rev \in Nat BY <2>1, <2>2, <3>1
      <4>3. rows'[i].rev # 0 BY <4>2
      <4> QED BY <2>2, <3>1, <4>1, <4>3 DEF RowOK
    <3>2. CASE i # desc.id BY <2>1, <3>2 DEF IInv, RowsAreWhole, Stored
    <3> QED BY <3>1, <3>2
  <2>7. LoadedRowsAreWhole'
    <3> SUFFICES ASSUME NEW j \in Jobs, Loads(j), Drawing(j)
        PROVE  Names(jobs[j].id, jobs[j].row.rev, jobs[j].row.ver)'
      BY <1>1 DEF IInv, LoadedRowsAreWhole, Loads, Drawing, RowOK
    <3>1. jobs[j].id \in Ids /\ jobs[j].row \in Rows
      BY DEF IInv, JobsHoldTokens, Types, JobStates
    <3>2. jobs[j].row.rev \in Nat BY <3>1 DEF Rows
    <3> QED BY <1>1, <2>4, <3>1, <3>2 DEF IInv, LoadedRowsAreWhole
  <2>8. OpIsOpen'
    <3> SUFFICES ASSUME op # NoOp PROVE OpIsOpen' BY <1>1 DEF OpIsOpen
    <3>1. op \in Ops BY DEF IInv, Types
    <3>2. ASSUME op.kind # "delete", op.pc = "ok" PROVE Names(op.id, op.rev, op.scene.ver)'
      BY <1>1, <2>4, <3>1, <3>2 DEF IInv, OpIsOpen, Ops
    <3> QED BY <1>1, <3>2 DEF IInv, OpIsOpen
  <2>9. DescIsStored'
    <3>1. desc'.rev = rows'[desc'.id].rev /\ desc'.rev # 0 /\ desc'.rev \in Nat
      <4> DEFINE r == rows[desc.id].rev
      <4>1. r \in Nat /\ desc'.rev = r + 1 /\ rows'[desc'.id].rev = r + 1 BY <2>1, <2>2, <2>3
      <4> HIDE DEF r
      <4> QED BY <4>1
    <3> QED BY <3>1 DEF DescIsStored
  <2>10. RevisionNamesClean'
    BY <1>1, <2>4, SetAssumption DEF IInv, Types, RevisionNamesClean, IdsOrNone
  <2> QED BY <1>1, <2>5, <2>6, <2>7, <2>8, <2>9, <2>10, FrameJobs, FrameWorks, FrameScene,
             FrameCache DEF IInv
<1> QED BY <1>3, <1>4 DEF Described

\* The answer may bind what is open to another scenario, which is then unseen.
LEMMA DescriptionArrivesStep ==
  ASSUME Calm, IInv, DescriptionArrives PROVE IInv'
<1>1. UNCHANGED <<scene, clean, view, cache, loading, screen, dialogBusy, owner, jobs, op, rows,
                  ver>>
  BY DEF DescriptionArrives, TakeDescription, docVars
<1>2. /\ desc.pc = "ok" /\ desc.id \in Ids /\ desc.rev \in Nat /\ rows \in [Ids -> Rows]
      /\ desc' = NoDesc /\ desc'.pc = "none" /\ desc' \in Descs
      /\ doc \in [id : IdsOrNone, rev : Nat, map : Maps] /\ unseen \in BOOLEAN
  BY NothingFacts DEF DescriptionArrives, IInv, Types, Descs
<1>3. ASSUME NEW i, NEW r, NEW c, Names(i, r, c) PROVE Names(i, r, c)'
  BY <1>1, <1>2, <1>3 DEF Names, Stored
<1>4. DescIsStored' BY <1>2 DEF DescIsStored
<1>5. LoadedRowsAreWhole'
  BY <1>1, <1>3 DEF IInv, LoadedRowsAreWhole, Loads, Drawing, RowOK
<1>6. CASE UNCHANGED docVars
  <2>1. UNCHANGED <<doc, unseen>> BY <1>6 DEF docVars
  <2>2. Types' BY <1>1, <1>2, <2>1 DEF IInv, Types
  <2>3. OpIsOpen' BY <1>1, <1>3, <2>1 DEF IInv, OpIsOpen
  <2>4. RevisionNamesClean' BY <1>1, <1>3, <2>1 DEF IInv, RevisionNamesClean
  <2> QED BY <1>1, <1>4, <1>5, <2>1, <2>2, <2>3, <2>4, FrameJobs, FrameWorks, FrameScene,
             FrameCache, FrameRows DEF IInv
<1>7. CASE TakeDescription
  <2>1. /\ doc' \in [id : IdsOrNone, rev : Nat, map : Maps]
        /\ doc'.id = desc.id /\ doc'.rev = desc.rev /\ doc'.map = doc.map
        /\ unseen' \in BOOLEAN
    BY <1>2, <1>7 DEF TakeDescription, IdsOrNone
  <2>2. ~unseen' => ~unseen /\ desc.id = doc.id /\ desc.rev <= doc.rev + 1
    <3>1. ~unseen' => ~unseen /\ desc.id = doc.id /\ ~(desc.rev > doc.rev + 1)
      BY <1>7 DEF TakeDescription
    <3>2. doc.rev \in Nat /\ desc.rev \in Nat BY <1>2
    <3> QED BY <3>1, <3>2
  <2>3. unseen => unseen' BY <1>7 DEF TakeDescription
  <2>4. Types' BY <1>1, <1>2, <2>1 DEF IInv, Types
  <2>5. SceneIsOpen' BY <1>1, <2>1, <2>2 DEF IInv, SceneIsOpen, Settling, Drawing
  <2>6. CacheIsOpen' BY <1>1, <2>1 DEF IInv, CacheIsOpen, Drawing
  <2>7. OpIsOpen'
    <3> SUFFICES ASSUME op # NoOp PROVE OpIsOpen' BY <1>1 DEF OpIsOpen
    <3>1. op.kind = "create" => unseen'
      BY <1>2, <2>2, <2>3, SetAssumption DEF IInv, OpIsOpen
    <3> QED BY <1>1, <1>3, <2>1, <3>1 DEF IInv, OpIsOpen
  <2>8. RevisionNamesClean'
    <3> SUFFICES ASSUME ~unseen' PROVE RevisionNamesClean'
      BY DEF RevisionNamesClean
    <3>1. ~unseen /\ desc.id = doc.id /\ desc.rev <= doc.rev + 1 BY <2>2
    <3>2. desc.rev # 0 BY <1>2 DEF IInv, DescIsStored
    <3>3. ASSUME Stored(desc.id)
          PROVE  /\ desc.rev <= rows[desc.id].rev
                 /\ desc.rev = rows[desc.id].rev => clean[2] = rows[desc.id].ver
      <4>1. desc.rev <= rows[desc.id].rev BY <1>2, <3>3 DEF IInv, DescIsStored
      <4>2. doc.id # NoId BY <1>2, <3>1, SetAssumption
      <4>3. Names(desc.id, doc.rev, clean[2]) BY <3>1, <4>2 DEF IInv, RevisionNamesClean
      <4>4. doc.rev \in Nat BY <1>2
      <4>5. doc.rev <= rows[desc.id].rev BY <3>3, <4>3 DEF Names
      <4>6. desc.rev = rows[desc.id].rev => doc.rev = desc.rev \/ doc.rev + 1 = desc.rev
        BY <1>2, <3>1, <4>4, <4>5
      <4> QED BY <1>2, <3>3, <4>1, <4>3, <4>6 DEF Names
    <3>4. ASSUME Stored(doc.id)'
          PROVE  /\ doc'.rev <= rows'[doc'.id].rev
                 /\ doc'.rev = rows'[doc'.id].rev => clean'[2] = rows'[doc'.id].ver
      BY <1>1, <2>1, <3>3, <3>4 DEF Stored
    <3> QED BY <1>2, <2>1, <3>2, <3>4 DEF RevisionNamesClean, Names
  <2> QED BY <1>1, <1>4, <1>5, <2>4, <2>5, <2>6, <2>7, <2>8, FrameJobs, FrameWorks, FrameRows
          DEF IInv
<1> QED BY <1>6, <1>7 DEF DescriptionArrives

-----------------------------------------------------------------------------
(* What writes rows, and the replies.                                      *)

\* A row that is written anew takes no revision that is held to name its content.
LEMMA NamesKept ==
  ASSUME IInv, NEW id \in Ids, Stored(id), \A i \in Ids : i # id => rows'[i] = rows[i],
         rows'[id].rev \in Nat, rows'[id].rev > rows[id].rev, UNCHANGED desc,
         NEW i \in Ids, NEW r \in Nat, NEW c, Names(i, r, c)
  PROVE  Names(i, r, c)'
<1>1. CASE i # id BY <1>1 DEF Names, Stored
<1>2. CASE i = id
  <2>1. rows[i].rev \in Nat /\ desc \in Descs BY DEF IInv, Types, Rows
  <2>2. r <= rows[i].rev BY <1>2 DEF Names
  <2>3. ~(desc.pc = "ok" /\ desc.id = i /\ desc.rev = rows'[i].rev)
    <3> SUFFICES ASSUME desc.pc = "ok", desc.id = i PROVE desc.rev # rows'[i].rev
      OBVIOUS
    <3>1. desc.rev <= rows[i].rev BY <1>2 DEF IInv, DescIsStored
    <3>2. desc.rev \in Nat BY <2>1, NothingFacts DEF Descs
    <3> QED BY <1>2, <2>1, <3>1, <3>2
  <2> QED BY <1>2, <2>1, <2>2, <2>3 DEF Names
<1> QED BY <1>1, <1>2

LEMMA DescKept ==
  ASSUME IInv, NEW id \in Ids, Stored(id) \/ desc.id # id,
         \A i \in Ids : i # id => rows'[i] = rows[i],
         rows'[id].rev \in Nat, rows'[id].rev > rows[id].rev, UNCHANGED desc
  PROVE  DescIsStored'
<1> SUFFICES ASSUME desc.pc = "ok"
    PROVE  desc.rev # 0 /\ (Stored(desc.id)' => desc.rev <= rows'[desc.id].rev)
  BY DEF DescIsStored, Stored
<1>1. /\ desc.rev # 0 /\ (Stored(desc.id) => desc.rev <= rows[desc.id].rev)
      /\ desc.id \in Ids /\ desc.rev \in Nat /\ rows[desc.id].rev \in Nat
  BY NothingFacts DEF IInv, DescIsStored, Types, Descs, Rows
<1>2. CASE desc.id = id BY <1>1, <1>2
<1>3. CASE desc.id # id BY <1>1, <1>3 DEF Stored
<1> QED BY <1>2, <1>3

LEMMA OtherSaveStep ==
  ASSUME Calm, IInv, NEW id \in Ids, OtherSave(id) PROVE IInv'
<1>1. Stored(id) /\ rows[id] \in Rows /\ ver \in Nat /\ rows \in [Ids -> Rows]
  BY DEF OtherSave, IInv, Types
<1>2. /\ rows'[id] \in Rows /\ rows'[id].rev = rows[id].rev + 1
      /\ rows'[id].base = rows[id].base /\ rows'[id].on = rows[id].map
      /\ rows'[id].map = rows[id].map /\ rows'[id].file = rows[id].file
  <2>1. rows'[id] = [rev |-> rows[id].rev + 1, base |-> rows[id].base, on |-> rows[id].map,
                     ver |-> ver + 1, map |-> rows[id].map, file |-> rows[id].file]
    BY <1>1 DEF OtherSave, Rows
  <2> QED BY <1>1, <2>1 DEF Rows
<1>3. \A i \in Ids : i # id => rows'[i] = rows[i]
  BY <1>1 DEF OtherSave
<1>4. UNCHANGED <<doc, clean, unseen, scene, view, cache, loading, screen, dialogBusy, owner,
                  jobs, op, desc>>
  BY DEF OtherSave, docVars
<1>5. rows[id].rev \in Nat /\ rows'[id].rev \in Nat /\ rows'[id].rev > rows[id].rev
  BY <1>1, <1>2 DEF Rows
<1>6. ASSUME NEW i \in Ids, NEW r \in Nat, NEW c, Names(i, r, c) PROVE Names(i, r, c)'
  BY <1>1, <1>3, <1>4, <1>5, <1>6, NamesKept
<1>7. Types'
  <2>1. ver' \in Nat BY <1>1 DEF OtherSave
  <2>2. rows' \in [Ids -> Rows] BY <1>1, <1>2, <1>3 DEF OtherSave
  <2> QED BY <1>4, <2>1, <2>2 DEF IInv, Types
<1>8. RowsAreWhole'
  <2> SUFFICES ASSUME NEW i \in Ids, Stored(i)' PROVE RowOK(i, rows'[i])
    BY DEF RowsAreWhole, RowOK
  <2>1. CASE i = id
    <3>1. RowOK(id, rows[id]) BY <1>1 DEF IInv, RowsAreWhole
    <3> QED BY <1>2, <1>5, <2>1, <3>1 DEF RowOK
  <2>2. CASE i # id BY <1>3, <2>2 DEF IInv, RowsAreWhole, Stored
  <2> QED BY <2>1, <2>2
<1>9. LoadedRowsAreWhole'
  <2> SUFFICES ASSUME NEW j \in Jobs, Loads(j), Drawing(j)
      PROVE  Names(jobs[j].id, jobs[j].row.rev, jobs[j].row.ver)'
    BY <1>4 DEF IInv, LoadedRowsAreWhole, Loads, Drawing, RowOK
  <2>1. jobs[j].id \in Ids /\ jobs[j].row \in Rows
    BY DEF IInv, JobsHoldTokens, Types, JobStates
  <2>2. jobs[j].row.rev \in Nat BY <2>1 DEF Rows
  <2> QED BY <1>4, <1>6, <2>1, <2>2 DEF IInv, LoadedRowsAreWhole
<1>10. OpIsOpen'
  <2> SUFFICES ASSUME op # NoOp PROVE OpIsOpen' BY <1>4 DEF OpIsOpen
  <2>1. op \in Ops BY DEF IInv, Types
  <2>2. ASSUME op.kind # "delete", op.pc = "ok" PROVE Names(op.id, op.rev, op.scene.ver)'
    BY <1>4, <1>6, <2>1, <2>2 DEF IInv, OpIsOpen, Ops
  <2> QED BY <1>4, <2>2 DEF IInv, OpIsOpen
<1>11. RevisionNamesClean'
  BY <1>4, <1>6, SetAssumption DEF IInv, Types, RevisionNamesClean, IdsOrNone
<1>12. DescIsStored' BY <1>1, <1>3, <1>4, <1>5, DescKept
<1> QED BY <1>4, <1>7, <1>8, <1>9, <1>10, <1>11, <1>12, FrameJobs, FrameWorks, FrameScene,
           FrameCache DEF IInv

\* The server wrote the row of what was sent and answers with its revision.
LEMMA AnsweredRow ==
  ASSUME IInv, op # NoOp, NEW id \in Ids, NEW row \in Rows, RowOK(id, row),
         rows' = [rows EXCEPT ![id] = row],
         op' = [op EXCEPT !.pc = "ok", !.id = id, !.rev = row.rev],
         op.kind # "delete",
         op.kind # "create" => op.id = id,
         \/ Stored(id) /\ row.rev > rows[id].rev
         \/ ~Stored(id) /\ desc.id # id /\ op.kind = "create",
         row.ver = op.scene.ver,
         UNCHANGED <<docVars, scene, view, cache, loading, screen, dialogBusy, owner, jobs, desc, ver>>
  PROVE  Types' /\ RowsAreWhole' /\ OpIsOpen' /\ DescIsStored' /\ RevisionNamesClean'
<1>1. op \in Ops /\ rows \in [Ids -> Rows] /\ row.rev \in Nat /\ rows[id].rev \in Nat
  BY DEF IInv, Types, Rows
<1>2. op' \in Ops /\ op'.kind = op.kind /\ op'.alive = op.alive /\ op'.pc = "ok"
      /\ op'.id = id /\ op'.rev = row.rev /\ op'.scene = op.scene
      /\ op'.map = op.map /\ op'.file = op.file /\ op'.blind = op.blind
  BY <1>1 DEF Ops, IdsOrNone
<1>3. rows'[id] = row /\ \A i \in Ids : i # id => rows'[i] = rows[i]
  BY <1>1
<1>4. UNCHANGED <<doc, clean, unseen>> BY DEF docVars
<1>5. Types' BY <1>1, <1>2, <1>4 DEF IInv, Types
<1>6. RowsAreWhole'
  <2> SUFFICES ASSUME NEW i \in Ids, Stored(i)' PROVE RowOK(i, rows'[i])
    BY DEF RowsAreWhole, RowOK
  <2>1. CASE i = id BY <1>3, <2>1
  <2>2. CASE i # id BY <1>3, <2>2 DEF IInv, RowsAreWhole, Stored
  <2> QED BY <2>1, <2>2
<1>7. DescIsStored'
  <2>1. rows[id].rev < row.rev
    <3>1. CASE Stored(id) BY <3>1
    <3>2. CASE ~Stored(id)
      <4>1. rows[id].rev = 0 BY <3>2, NothingFacts DEF Stored
      <4> QED BY <1>1, <4>1 DEF RowOK
    <3> QED BY <3>1, <3>2
  <2> QED BY <1>1, <1>3, <2>1, DescKept
<1>8. ~(desc.pc = "ok" /\ desc.id = id /\ desc.rev = row.rev)
  <2> SUFFICES ASSUME desc.pc = "ok", desc.id = id, Stored(id) PROVE desc.rev # row.rev
    OBVIOUS
  <2>1. desc.rev <= rows[id].rev BY DEF IInv, DescIsStored
  <2>2. desc.rev \in Nat BY NothingFacts DEF IInv, Types, Descs
  <2> QED BY <1>1, <2>1, <2>2
<1>9. OpIsOpen'
  <2>1. Names(op.id, op.rev, op.scene.ver)'
    BY <1>1, <1>2, <1>3, <1>8 DEF Names
  <2>2. op'.rev # 0 BY <1>2 DEF RowOK
  <2> QED BY <1>2, <1>4, <2>1, <2>2 DEF IInv, OpIsOpen
<1>10. RevisionNamesClean'
  <2> SUFFICES ASSUME doc.id # NoId, ~unseen PROVE Names(doc.id, doc.rev, clean[2])'
    BY <1>4 DEF IInv, RevisionNamesClean
  <2>1. Stored(id) BY DEF IInv, OpIsOpen
  <2>2. doc.id \in Ids /\ doc.rev \in Nat BY DEF IInv, Types, IdsOrNone
  <2>3. Names(doc.id, doc.rev, clean[2]) BY DEF IInv, RevisionNamesClean
  <2>4. rows'[id].rev \in Nat /\ rows'[id].rev > rows[id].rev BY <1>1, <1>3, <2>1
  <2>5. Names(doc.id, doc.rev, clean[2]) => Names(doc.id, doc.rev, clean[2])'
    <3> DEFINE c == clean[2]
    <3>1. c' = c BY <1>4
    <3> HIDE DEF c
    <3>2. ASSUME Names(doc.id, doc.rev, c) PROVE Names(doc.id, doc.rev, c)'
      <4> DEFINE i == doc.id
                 r == doc.rev
      <4>1. i \in Ids /\ r \in Nat /\ i' = i /\ r' = r /\ Names(i, r, c)
        BY <1>4, <2>2, <3>2
      <4> QED BY <1>3, <1>4, <2>1, <2>2, <2>4, <3>1, <3>2, NamesKept DEF Names, Stored
    <3> QED BY <3>1, <3>2 DEF c
  <2> QED BY <2>3, <2>5
<1> QED BY <1>5, <1>6, <1>7, <1>9, <1>10

LEMMA ServerAnswersStep ==
  ASSUME Calm, IInv, ServerAnswers PROVE IInv'
<1>1. op.pc = "sent" /\ op # NoOp /\ op \in Ops /\ rows \in [Ids -> Rows]
  BY NothingFacts DEF ServerAnswers, IInv, Types
<1>2. UNCHANGED <<docVars, scene, view, cache, loading, screen, dialogBusy, owner, jobs, desc, ver>>
  BY DEF ServerAnswers
<1>3. UNCHANGED <<doc, clean, unseen>> BY <1>2 DEF docVars
<1>4. \A j \in Jobs : jobs[j].kind = "none" BY <1>1 DEF IInv, OpIsOpen
<1>5. doc.rev \in Nat /\ doc.id \in IdsOrNone /\ clean[2] \in Nat
      /\ doc.map \in Maps /\ scene \in Scenes
  BY DEF IInv, Types
<1>6. ~Settling BY <1>4 DEF IInv, JobsHoldTokens, Settling
<1>7. ASSUME op.kind # "delete", NEW id \in Ids, NEW rev \in Nat, rev # 0
      PROVE  SavedRow(id, rev) \in Rows /\ RowOK(id, SavedRow(id, rev))
             /\ SavedRow(id, rev).rev = rev /\ SavedRow(id, rev).ver = op.scene.ver
  <2>1. op.scene = scene /\ op.map = doc.map /\ op.file = doc.map
    BY <1>1, <1>7 DEF IInv, OpIsOpen, CacheIsOpen
  <2>2. scene.ver # 0 => scene.on = doc.map BY <1>6 DEF IInv, SceneIsOpen
  <2>3. scene.ver \in Nat /\ scene.on \in MapsOrNone BY <1>5 DEF Scenes
  <2>4. doc.map \in MapsOrNone /\ id \in IdsOrNone BY <1>5 DEF MapsOrNone, IdsOrNone
  <2>5. SavedRow(id, rev) = [rev |-> rev, base |-> id, on |-> scene.on,
                             ver |-> scene.ver, map |-> doc.map, file |-> doc.map]
    BY <2>1 DEF SavedRow
  <2> QED BY <1>5, <1>7, <2>1, <2>2, <2>3, <2>4, <2>5 DEF Rows, RowOK
<1>8. Types' /\ RowsAreWhole' /\ OpIsOpen' /\ DescIsStored' /\ RevisionNamesClean'
  <2> DEFINE G == Types' /\ RowsAreWhole' /\ OpIsOpen' /\ DescIsStored' /\ RevisionNamesClean'
  <2>1. ASSUME op.kind = "create", NEW id \in Ids, id # desc.id, ~Stored(id),
               rows' = [rows EXCEPT ![id] = SavedRow(id, 1)], Answer(id, 1)
        PROVE  G
    <3>1. SavedRow(id, 1) \in Rows /\ RowOK(id, SavedRow(id, 1))
          /\ SavedRow(id, 1).rev = 1 /\ SavedRow(id, 1).ver = op.scene.ver
      BY <1>7, <2>1
    <3> DEFINE row == SavedRow(id, 1)
    <3>2. op' = [op EXCEPT !.pc = "ok", !.id = id, !.rev = row.rev]
      BY <2>1, <3>1 DEF Answer
    <3>3. row \in Rows /\ RowOK(id, row) /\ row.ver = op.scene.ver
          /\ rows' = [rows EXCEPT ![id] = row]
      BY <2>1, <3>1
    <3> HIDE DEF row
    <3> QED BY <1>1, <1>2, <2>1, <3>2, <3>3, AnsweredRow
  <2>2. ASSUME op.kind = "patch", ~Refused(rows[op.id]),
               rows' = [rows EXCEPT ![op.id] = SavedRow(op.id, @.rev + 1)],
               Answer(op.id, rows[op.id].rev + 1)
        PROVE  G
    <3>1. op.id \in Ids /\ Stored(op.id)
      BY <1>1, <2>2 DEF IInv, OpIsOpen, Refused, Stored
    <3>2. rows[op.id].rev \in Nat BY <1>1, <3>1 DEF Rows
    <3> DEFINE row == SavedRow(op.id, rows[op.id].rev + 1)
    <3>3. row \in Rows /\ RowOK(op.id, row) /\ row.rev = rows[op.id].rev + 1
          /\ row.ver = op.scene.ver
      BY <1>7, <2>2, <3>1, <3>2
    <3>4. rows' = [rows EXCEPT ![op.id] = row]
      BY <1>1, <2>2, <3>1
    <3>5. op' = [op EXCEPT !.pc = "ok", !.id = op.id, !.rev = row.rev]
      BY <2>2, <3>3 DEF Answer
    <3> HIDE DEF row
    <3>6. row.rev > rows[op.id].rev BY <3>2, <3>3
    <3>7. PICK id \in Ids : id = op.id BY <3>1
    <3> QED BY <1>1, <1>2, <2>2, <3>1, <3>3, <3>4, <3>5, <3>6, <3>7, AnsweredRow
  <2>3. ASSUME op.kind = "delete", rows' = [rows EXCEPT ![op.id] = NoRow],
               Answer(op.id, op.rev)
        PROVE  G
    <3>1. op.id \in Ids BY <1>1, <2>3 DEF IInv, OpIsOpen
    <3>2. op' \in Ops /\ op'.kind = "delete" /\ op'.alive = op.alive /\ op'.pc = "ok"
          /\ op'.id = op.id
      BY <1>1, <2>3 DEF Answer, Ops
    <3>3. ~Stored(op.id)' /\ \A i \in Ids : i # op.id => rows'[i] = rows[i]
      BY <1>1, <2>3, <3>1, <3>2 DEF Stored
    <3>4. Types' BY <1>1, <1>2, <1>3, <2>3, <3>2, NothingFacts DEF IInv, Types
    <3>5. RowsAreWhole'
      BY <3>2, <3>3 DEF IInv, RowsAreWhole, RowOK, Stored
    <3>6. OpIsOpen'
      BY <1>1, <1>2, <1>3, <2>3, <3>1, <3>2 DEF IInv, OpIsOpen
    <3>7. RevisionNamesClean'
      <4> SUFFICES ASSUME doc.id # NoId, ~unseen PROVE Names(doc.id, doc.rev, clean[2])'
        BY <1>3 DEF IInv, RevisionNamesClean
      <4>1. doc.id \in Ids BY <1>5 DEF IdsOrNone
      <4>2. CASE doc.id = op.id BY <1>3, <3>2, <3>3, <4>2 DEF Names, Stored
      <4>3. CASE doc.id # op.id
        BY <1>2, <1>3, <3>3, <4>1, <4>3 DEF IInv, RevisionNamesClean, Names, Stored
      <4> QED BY <4>2, <4>3
    <3>8. DescIsStored'
      <4> SUFFICES ASSUME desc.pc = "ok", Stored(desc.id)' PROVE desc.rev <= rows'[desc.id].rev
        BY <1>2 DEF IInv, DescIsStored, Stored
      <4>1. desc.id \in Ids BY NothingFacts DEF IInv, Types, Descs
      <4>2. desc.id # op.id BY <1>2, <3>2, <3>3 DEF Stored
      <4> QED BY <1>2, <3>3, <4>1, <4>2 DEF IInv, DescIsStored, Stored
    <3> QED BY <3>4, <3>5, <3>6, <3>7, <3>8
  <2>4. ASSUME op' = NoOp, UNCHANGED rows PROVE G
    <3>1. Types' BY <1>2, <1>3, <2>4, NothingFacts DEF IInv, Types
    <3>2. OpIsOpen' BY <2>4 DEF OpIsOpen
    <3> QED BY <1>2, <1>3, <2>4, <3>1, <3>2, FrameRows, FrameClean, FrameDesc
  <2> QED BY <2>1, <2>2, <2>3, <2>4 DEF ServerAnswers
<1>9. LoadedRowsAreWhole' BY <1>2, <1>4 DEF LoadedRowsAreWhole, Loads
<1>10. JobsHoldTokens' /\ OneJobWorks' /\ FlagsHaveWork' /\ SceneIsOpen' /\ CacheIsOpen'
  BY <1>2, <1>3, FrameJobs, FrameWorks, FrameScene, FrameCache
<1> QED BY <1>8, <1>9, <1>10 DEF IInv

LEMMA ReplyStep ==
  ASSUME Calm, IInv, Reply PROVE IInv'
<1>1. op.pc = "ok" /\ op # NoOp /\ op \in Ops /\ op' = NoOp
  BY NothingFacts DEF Reply, IInv, Types
<1>2. UNCHANGED <<view, cache, loading, screen, dialogBusy, owner, jobs, desc, rows, ver>>
  BY DEF Reply
<1>3. \A j \in Jobs : jobs[j].kind = "none" BY <1>1 DEF IInv, OpIsOpen
<1>4. ~Settling /\ \A j \in Jobs : jobs[j].pc # "settle"
  BY <1>3 DEF IInv, JobsHoldTokens, Settling
<1>5. /\ doc \in [id : IdsOrNone, rev : Nat, map : Maps] /\ scene \in Scenes
      /\ clean \in Maps \X Nat
      /\ (scene.ver # 0 => scene.on = doc.map)
      /\ view.shown \in {NoMap, doc.map}
      /\ ((\A j \in Jobs : ~Drawing(j)) => view.odr = view.shown)
  BY <1>4 DEF IInv, Types, SceneIsOpen
<1>6. CASE UNCHANGED <<docVars, scene>>
  <2>1. UNCHANGED <<doc, clean, unseen>> BY <1>6 DEF docVars
  <2>2. Types' BY <1>1, <1>2, <1>6, <2>1, NothingFacts DEF IInv, Types
  <2>3. OpIsOpen' BY <1>1 DEF OpIsOpen
  <2> QED BY <1>2, <1>6, <2>1, <2>2, <2>3, FrameJobs, FrameWorks, FrameScene, FrameCache,
             FrameRows, FrameLoaded, FrameClean, FrameDesc DEF IInv
<1>7. CASE TakeReply /\ scene' = [scene EXCEPT !.base = NewBase]
  <2>1. NewBase \in IdsOrNone
    BY <1>1, <1>5 DEF NewBase, Ops, Scenes, IdsOrNone
  <2>2. scene' \in Scenes /\ scene'.ver = scene.ver /\ scene'.on = scene.on
        /\ scene'.base = NewBase
    BY <1>5, <1>7, <2>1 DEF Scenes
  <2>3. /\ doc' \in [id : IdsOrNone, rev : Nat, map : Maps]
        /\ doc'.map = doc.map /\ unseen' = FALSE
        /\ doc'.id = (IF op.kind = "delete" THEN NoId ELSE op.id)
        /\ doc'.rev = (IF op.kind = "delete" THEN doc.rev ELSE op.rev)
    BY <1>1, <1>5, <1>7 DEF TakeReply, Ops, IdsOrNone
  <2>4. clean' = IF op.kind \in {"create", "patch"} THEN <<doc.map, scene.ver>> ELSE clean
    BY <1>7 DEF TakeReply, Fingerprint
  <2>5. scene.ver \in Nat BY <1>5 DEF Scenes
  <2>6. clean' \in Maps \X Nat BY <1>5, <2>4, <2>5
  <2>7. op.kind # "delete" => op.scene = scene
    BY <1>1 DEF IInv, OpIsOpen
  <2>8. NewBase = doc'.id BY <2>3, <2>7 DEF NewBase
  <2>9. Types' BY <1>1, <1>2, <2>2, <2>3, <2>6, NothingFacts DEF IInv, Types
  <2>10. SceneIsOpen'
    BY <1>2, <1>4, <1>5, <2>2, <2>3, <2>8 DEF SceneIsOpen, Settling, Drawing
  <2>11. CacheIsOpen' BY <1>2, <2>3 DEF IInv, CacheIsOpen, Drawing
  <2>12. OpIsOpen' BY <1>1 DEF OpIsOpen
  <2>13. RevisionNamesClean'
    <3>1. CASE op.kind = "delete" BY <2>3, <3>1 DEF RevisionNamesClean
    <3>2. CASE op.kind # "delete"
      <4>1. op.rev # 0 /\ Names(op.id, op.rev, op.scene.ver)
        BY <1>1, <3>2 DEF IInv, OpIsOpen
      <4>2. op.kind \in {"create", "patch"}
        BY <1>1, <3>2 DEF IInv, OpIsOpen, Ops
      <4>3. clean'[2] = op.scene.ver BY <2>4, <2>7, <3>2, <4>2
      <4> QED BY <1>2, <2>3, <3>2, <4>1, <4>3 DEF RevisionNamesClean, Names, Stored
    <3> QED BY <3>1, <3>2
  <2> QED BY <1>2, <2>9, <2>10, <2>11, <2>12, <2>13, FrameJobs, FrameWorks,
             FrameRows, FrameLoaded, FrameDesc DEF IInv
<1> QED BY <1>6, <1>7 DEF Reply

\* The kind of a job that waits for a row or a map text, or that draws.
LEMMA KindsOfJobs ==
  ASSUME IInv, NEW j \in Jobs
  PROVE  /\ jobs[j] \in JobStates
         /\ jobs[j].pc = "row" => Loads(j) /\ ~Selects(j)
         /\ jobs[j].pc = "xodr" => Selects(j) /\ ~Loads(j)
         /\ Drawing(j) => Loads(j) \/ jobs[j].kind = "select"
         /\ Selects(j) => ~Loads(j)
<1>1. jobs[j] \in JobStates BY DEF IInv, Types
<1>2. jobs[j].kind \in {"none", "open", "dialog", "select", "left"}
  BY <1>1 DEF JobStates
<1>3. /\ jobs[j].kind = "none" => jobs[j].pc = "none"
      /\ jobs[j].kind = "left" => jobs[j].pc = "xodr"
      /\ Loads(j) => jobs[j].pc \in {"row", "prepare", "settle"}
      /\ jobs[j].kind = "select" => jobs[j].pc \in {"xodr", "prepare", "settle"}
  BY DEF IInv, JobsHoldTokens
<1> QED BY <1>1, <1>2, <1>3 DEF Loads, Selects, Drawing

\* Of the jobs that can change the scene there is one.
LEMMA WorksAlone ==
  ASSUME IInv, NEW j \in Jobs, NEW k \in Jobs, j # k,
         Loads(j) \/ jobs[j].kind = "select"
  PROVE  ~Loads(k) /\ ~Drawing(k) /\ jobs[k].kind # "select"
<1>1. Loads(j) => ~Loads(k) BY DEF IInv, JobsHoldTokens
<1>2. jobs[j].kind = "select" => jobs[k].kind # "select"
  BY DEF IInv, JobsHoldTokens, Selects
<1>3. ~(jobs[j].kind = "select" /\ Loads(k)) /\ ~(jobs[k].kind = "select" /\ Loads(j))
  BY DEF IInv, OneJobWorks
<1> QED BY <1>1, <1>2, <1>3, KindsOfJobs

LEMMA SelectsAlone ==
  ASSUME IInv, NEW j \in Jobs, NEW k \in Jobs, j # k, Selects(j) PROVE ~Selects(k)
<1> QED BY DEF IInv, JobsHoldTokens

\* Nothing is in flight while a job is under way.
LEMMA NoOpWhileJobs ==
  ASSUME IInv, NEW j \in Jobs, jobs[j].kind # "none" PROVE op = NoOp
<1> QED BY DEF IInv, OpIsOpen

\* A job ends without having drawn: what it holds is let go.
LEMMA GiveUpStep ==
  ASSUME IInv, NEW j \in Jobs, NEW s, GiveUp(j, s),
         jobs[j].pc \in {"row", "xodr"},
         s = screen \/ (s = "error" /\ jobs[j].kind # "left"),
         UNCHANGED <<docVars, scene, view, cache, owner, op, desc, rows, ver>>
  PROVE  IInv'
<1>1. jobs[j] \in JobStates /\ ~Drawing(j)
      /\ (Loads(j) \/ Selects(j)) /\ ~(Loads(j) /\ Selects(j))
  BY KindsOfJobs DEF Drawing
<1>2. jobs \in [Jobs -> JobStates] BY DEF IInv, Types
<1>3. /\ jobs' = [jobs EXCEPT ![j] = Idle]
      /\ jobs'[j] = Idle /\ \A k \in Jobs : k # j => jobs'[k] = jobs[k]
  BY <1>2 DEF GiveUp
<1>4. UNCHANGED <<doc, clean, unseen>> BY DEF docVars
<1>5. jobs'[j].kind = "none" /\ jobs'[j].pc = "none" BY <1>3, NothingFacts
<1>6. op = NoOp BY <1>1, NoOpWhileJobs DEF Loads, Selects
<1>7. loading' = (loading /\ ~Selects(j))
  BY <1>1 DEF GiveUp, IsSelect, Selects, IInv, JobsHoldTokens
<1>8. screen' = IF Loads(j) /\ s = "busy" THEN "clear" ELSE s
  BY <1>1 DEF GiveUp, IsSelect, Selects, Loads, Current, IInv, JobsHoldTokens
<1>9. \A k \in Jobs : k # j /\ (Loads(k) \/ Drawing(k)) => screen' = screen
  <2> SUFFICES ASSUME NEW k \in Jobs, k # j, Loads(k) \/ Drawing(k)
      PROVE  screen' = screen
    OBVIOUS
  <2>1. ~Loads(j) /\ jobs[j].kind # "select" BY WorksAlone
  <2> QED BY <1>1, <1>8, <2>1 DEF Selects
<1>10. Types'
  <2>1. jobs' \in [Jobs -> JobStates] BY <1>2, <1>3, NothingFacts
  <2>2. screen' \in {"clear", "busy", "error"} BY <1>8 DEF IInv, Types
  <2>3. dialogBusy' \in BOOLEAN BY DEF GiveUp
  <2> QED BY <1>4, <1>7, <2>1, <2>2, <2>3 DEF IInv, Types
<1>11. JobsHoldTokens'
  <2> SUFFICES ASSUME NEW k \in Jobs
      PROVE  (/\ jobs[k].kind = "none" => jobs[k].pc = "none"
              /\ jobs[k].kind = "left" => jobs[k].pc = "xodr"
              /\ Loads(k) =>
                   /\ jobs[k].pc \in {"row", "prepare", "settle"}
                   /\ jobs[k].id \in Ids
                   /\ owner.load = k /\ jobs[k].open /\ screen = "busy"
              /\ jobs[k].kind = "select" =>
                   jobs[k].pc \in {"xodr", "prepare", "settle"} /\ jobs[k].map \in Maps
              /\ Selects(k) => owner.select = k /\ loading
              /\ Drawing(k) => owner.build = k /\ screen = "busy" /\ jobs[k].map \in Maps)'
    BY DEF JobsHoldTokens
  <2>1. CASE k = j BY <1>5, <2>1 DEF Loads, Selects, Drawing
  <2>2. CASE k # j
    <3>1. jobs'[k] = jobs[k] BY <1>3, <2>2
    <3>2. Selects(k) => loading'
      BY <1>7, <2>2, SelectsAlone DEF IInv, JobsHoldTokens
    <3>3. Loads(k) \/ Drawing(k) => screen' = screen BY <1>9, <2>2
    <3> QED BY <3>1, <3>2, <3>3 DEF IInv, JobsHoldTokens, Loads, Selects, Drawing
  <2> QED BY <2>1, <2>2
<1>12. OneJobWorks'
  BY <1>3, <1>5 DEF IInv, OneJobWorks, Loads
<1>13. FlagsHaveWork'
  <2>1. loading' => \E k \in Jobs : Selects(k)'
    BY <1>3, <1>7 DEF IInv, FlagsHaveWork, Selects
  <2>2. screen' = "busy" => \E k \in Jobs : (Loads(k) \/ Drawing(k))'
    <3> SUFFICES ASSUME screen' = "busy" PROVE \E k \in Jobs : (Loads(k) \/ Drawing(k))'
      OBVIOUS
    <3>1. ~Loads(j) /\ screen = "busy" BY <1>8
    <3>2. PICK k \in Jobs : Loads(k) \/ Drawing(k) BY <3>1 DEF IInv, FlagsHaveWork
    <3>3. k # j BY <1>1, <3>1, <3>2
    <3> QED BY <1>3, <3>2, <3>3 DEF Loads, Drawing
  <2> QED BY <2>1, <2>2 DEF FlagsHaveWork
<1>14. \A k \in Jobs : Drawing(k)' <=> Drawing(k) BY <1>1, <1>3, <1>5 DEF Drawing
<1>15. \A k \in Jobs : jobs'[k].pc = "settle" <=> jobs[k].pc = "settle"
  BY <1>1, <1>3, <1>5 DEF Drawing
<1>16. \A k \in Jobs : Drawing(k) => jobs'[k] = jobs[k] BY <1>1, <1>3
<1>17. SceneIsOpen'
  BY <1>3, <1>4, <1>14, <1>15, <1>16 DEF IInv, SceneIsOpen, Settling, Drawing
<1>18. CacheIsOpen'
  BY <1>3, <1>4, <1>14, <1>16 DEF IInv, CacheIsOpen
<1>19. LoadedRowsAreWhole'
  BY <1>3, <1>14, <1>16 DEF IInv, LoadedRowsAreWhole, Loads, Names, Stored, RowOK
<1>20. OpIsOpen' BY <1>6 DEF OpIsOpen
<1> QED BY <1>4, <1>10, <1>11, <1>12, <1>13, <1>17, <1>18, <1>19, <1>20,
           FrameRows, FrameClean, FrameDesc DEF IInv

\* A parsed map is drawn at once or prepared: the job that has parsed it is the
\* only one that works.
LEMMA ParsedStep ==
  ASSUME IInv, NEW j \in Jobs, NEW job \in JobStates, Parsed(j, job),
         jobs[j].pc \in {"row", "xodr"}, jobs[j].kind # "left",
         job.kind = jobs[j].kind, job.map \in Maps, job.prev = MapName,
         Loads(j) =>
           /\ job.id = jobs[j].id /\ job.open
           /\ RowOK(job.id, job.row) /\ job.map = job.row.file
           /\ Names(job.id, job.row.rev, job.row.ver),
         UNCHANGED <<docVars, op, desc, rows, ver>>
  PROVE  IInv'
<1>1. /\ jobs[j] \in JobStates /\ ~Drawing(j)
      /\ (Loads(j) \/ jobs[j].kind = "select") /\ ~(Loads(j) /\ Selects(j))
      /\ jobs \in [Jobs -> JobStates]
  BY KindsOfJobs DEF Drawing, Selects, IInv, Types
<1>2. PICK pc \in {"prepare", "settle"} :
        /\ jobs' = [jobs EXCEPT ![j] = [job EXCEPT !.pc = pc]]
        /\ pc = "settle" =>
             scene' = NoScene /\ view' = [shown |-> job.map, odr |-> job.map]
        /\ pc = "prepare" => scene' = scene /\ view' = [view EXCEPT !.odr = NoMap]
  BY DEF Parsed, Build
<1>3. /\ cache' = [cache EXCEPT !.name = IF jobs[j].kind = "select" THEN job.map ELSE cache.name]
      /\ owner' = [owner EXCEPT !.build = j]
      /\ screen' = "busy" /\ loading' = loading /\ dialogBusy' = dialogBusy
  BY DEF Parsed, IsSelect
<1>4. UNCHANGED <<doc, clean, unseen>> BY DEF docVars
<1>5. /\ jobs'[j].pc = pc /\ jobs'[j].kind = jobs[j].kind /\ jobs'[j].map = job.map
      /\ jobs'[j].prev = MapName /\ jobs'[j].id = job.id /\ jobs'[j].row = job.row
      /\ jobs'[j].open = job.open
      /\ jobs' \in [Jobs -> JobStates]
      /\ \A k \in Jobs : k # j => jobs'[k] = jobs[k]
  BY <1>1, <1>2 DEF JobStates
<1>6. \A k \in Jobs : k # j => ~Loads(k) /\ ~Drawing(k) /\ jobs[k].kind # "select"
  BY <1>1, WorksAlone
<1>7. op = NoOp BY <1>1, NoOpWhileJobs DEF Loads
<1>8. \A k \in Jobs : ~Drawing(k) BY <1>1, <1>6
<1>9. ~Settling /\ \A k \in Jobs : jobs[k].pc # "settle"
  BY <1>8 DEF Drawing, Settling
<1>10. /\ (~unseen => scene.base = doc.id) /\ (scene.ver # 0 => scene.on = doc.map)
       /\ view.shown \in {NoMap, doc.map}
       /\ cache.xodr = doc.map /\ cache.name \in {NoMap, doc.map}
  BY <1>8, <1>9 DEF IInv, SceneIsOpen, CacheIsOpen
<1>11. MapName = doc.map BY <1>10 DEF MapName
<1>12. /\ cache \in [name : MapsOrNone, xodr : Maps]
       /\ view \in [shown : MapsOrNone, odr : MapsOrNone]
       /\ owner \in [load : Jobs \cup {NoJob}, select : Jobs \cup {NoJob},
                     build : Jobs \cup {NoJob}]
       /\ scene \in Scenes
  BY DEF IInv, Types
<1>13. /\ owner'.load = owner.load /\ owner'.select = owner.select /\ owner'.build = j
       /\ owner' \in [load : Jobs \cup {NoJob}, select : Jobs \cup {NoJob},
                      build : Jobs \cup {NoJob}]
  BY <1>3, <1>12
<1>14. /\ cache'.name = (IF jobs[j].kind = "select" THEN job.map ELSE cache.name)
       /\ cache'.xodr = cache.xodr
       /\ cache' \in [name : MapsOrNone, xodr : Maps]
  BY <1>3, <1>12 DEF MapsOrNone
<1>15. Types'
  <2>1. scene' \in Scenes BY <1>2, <1>12, NothingFacts
  <2>2. view' \in [shown : MapsOrNone, odr : MapsOrNone]
    BY <1>2, <1>12 DEF MapsOrNone
  <2> QED BY <1>3, <1>4, <1>5, <1>13, <1>14, <2>1, <2>2 DEF IInv, Types
<1>16. JobsHoldTokens'
  <2>1. \A k \in Jobs : k # j =>
          /\ jobs'[k] = jobs[k]
          /\ jobs[k].kind \notin {"open", "dialog", "select"}
          /\ jobs[k].pc \notin {"prepare", "settle"}
    BY <1>5, <1>6 DEF Loads, Drawing
  <2>2. Loads(j) => owner.load = j /\ jobs[j].id \in Ids
    BY DEF IInv, JobsHoldTokens
  <2>3. Selects(j) => owner.select = j /\ loading
    BY DEF IInv, JobsHoldTokens
  <2>4. jobs[j].kind \in {"open", "dialog", "select"} BY <1>1 DEF Loads
  <2>5. \A k \in Jobs : k # j =>
          /\ jobs[k].kind = "none" => jobs[k].pc = "none"
          /\ jobs[k].kind = "left" => jobs[k].pc = "xodr"
          /\ Selects(k) => owner.select = k /\ loading
    BY DEF IInv, JobsHoldTokens
  <2>6. pc \in {"prepare", "settle"} BY <1>2
  <2> QED BY <1>3, <1>5, <1>13, <2>1, <2>2, <2>3, <2>4, <2>5, <2>6
          DEF JobsHoldTokens, Loads, Selects, Drawing
<1>17. OneJobWorks'
  BY <1>1, <1>5, <1>6 DEF OneJobWorks, Loads
<1>18. FlagsHaveWork'
  <2>1. Drawing(j)' BY <1>2, <1>5 DEF Drawing
  <2>2. loading' => \E k \in Jobs : Selects(k)'
    BY <1>3, <1>5 DEF IInv, FlagsHaveWork, Selects
  <2> QED BY <2>1, <2>2 DEF FlagsHaveWork
<1>19. SceneIsOpen'
  <2>1. Drawing(j)' BY <1>2, <1>5 DEF Drawing
  <2>2. CASE pc = "settle"
    <3>1. Settling' BY <1>5, <2>2 DEF Settling
    <3>2. \A k \in Jobs : jobs'[k].pc = "settle" => k = j BY <1>5, <1>9
    <3> QED BY <1>2, <1>5, <2>1, <2>2, <3>1, <3>2 DEF SceneIsOpen
  <2>3. CASE pc = "prepare"
    <3>1. \A k \in Jobs : jobs'[k].pc # "settle" BY <1>5, <1>9, <2>3
    <3>2. view'.shown = view.shown BY <1>2, <1>12, <2>3
    <3> QED BY <1>2, <1>4, <1>10, <2>1, <2>3, <3>1, <3>2 DEF SceneIsOpen
  <2> QED BY <2>2, <2>3
<1>20. CacheIsOpen'
  <2>1. Drawing(j)' BY <1>2, <1>5 DEF Drawing
  <2>2. \A k \in Jobs : k # j => jobs'[k].kind # "select" BY <1>5, <1>6
  <2> QED BY <1>4, <1>5, <1>10, <1>11, <1>14, <2>1, <2>2 DEF CacheIsOpen
<1>21. LoadedRowsAreWhole'
  <2>1. \A k \in Jobs : Loads(k)' => k = j BY <1>5, <1>6 DEF Loads
  <2>2. Loads(j)' => Loads(j) BY <1>5 DEF Loads
  <2> QED BY <1>5, <2>1, <2>2 DEF LoadedRowsAreWhole, RowOK, Names, Stored
<1>22. OpIsOpen' BY <1>7 DEF OpIsOpen
<1> QED BY <1>4, <1>15, <1>16, <1>17, <1>18, <1>19, <1>20, <1>21, <1>22,
           FrameRows, FrameClean, FrameDesc DEF IInv

\* A map text that does not parse changes nothing when there are no upsets.
LEMMA UnparsedFacts == ASSUME Calm, Unparsed PROVE view' = view
<1> QED BY CalmFacts DEF Unparsed

LEMMA RowArrivesStep ==
  ASSUME Calm, IInv, NEW j \in Jobs, RowArrives(j) PROVE IInv'
<1>1. jobs[j].pc = "row" /\ UNCHANGED <<docVars, op, desc, rows, ver>>
  BY DEF RowArrives
<1>2. Loads(j) /\ jobs[j] \in JobStates /\ jobs[j].kind # "left" /\ ~Selects(j)
  BY <1>1, KindsOfJobs DEF Selects
<1>3. jobs[j].id \in Ids BY <1>2 DEF IInv, JobsHoldTokens
<1> DEFINE row == rows[jobs[j].id]
           job == [jobs[j] EXCEPT !.row = row, !.map = row.file]
<1>4. CASE Stored(jobs[j].id) /\ Current(j) /\ ParseFails(j, job)
  <2>1. GiveUp(j, "error") /\ UNCHANGED <<scene, cache, owner>> /\ view' = view
    BY <1>4, UnparsedFacts DEF ParseFails
  <2> QED BY <1>1, <1>2, <2>1, GiveUpStep
<1>5. CASE Stored(jobs[j].id) /\ Current(j)
           /\ Parsed(j, [job EXCEPT !.prev = MapName])
  <2>1. row \in Rows /\ RowOK(jobs[j].id, row)
    BY <1>3, <1>5 DEF IInv, Types, RowsAreWhole
  <2>2. row.rev \in Nat /\ row.file \in Maps BY <2>1 DEF Rows, RowOK
  <2>3. MapName \in MapsOrNone
    BY DEF MapName, MapsOrNone, IInv, Types
  <2>4. Current(j) => jobs[j].open BY DEF Current
  <2> DEFINE full == [job EXCEPT !.prev = MapName]
  <2>5. /\ full \in JobStates /\ full.kind = jobs[j].kind /\ full.map = row.file
        /\ full.prev = MapName /\ full.id = jobs[j].id /\ full.open = jobs[j].open
        /\ full.row = row
    <3>1. row.file \in MapsOrNone BY <2>2 DEF MapsOrNone
    <3> HIDE DEF row
    <3> QED BY <1>2, <2>1, <2>3, <3>1 DEF JobStates
  <2>6. Names(jobs[j].id, row.rev, row.ver) BY <2>2 DEF Names
  <2>7. Parsed(j, full) BY <1>5
  <2> HIDE DEF row, job, full
  <2> QED BY <1>1, <1>2, <1>5, <2>1, <2>2, <2>4, <2>5, <2>6, <2>7, ParsedStep
<1>6. CASE GiveUp(j, screen) /\ UNCHANGED <<scene, view, cache, owner>>
  BY <1>1, <1>2, <1>6, GiveUpStep
<1> QED BY <1>4, <1>5, <1>6 DEF RowArrives, LoadFile

LEMMA MapArrivesStep ==
  ASSUME Calm, IInv, NEW j \in Jobs, MapArrives(j) PROVE IInv'
<1>1. jobs[j].pc = "xodr" /\ UNCHANGED <<docVars, op, desc, rows, ver>>
  BY DEF MapArrives
<1>2. Selects(j) /\ jobs[j] \in JobStates /\ ~Loads(j) BY <1>1, KindsOfJobs
<1>3. CASE jobs[j].kind # "left" /\ ParseFails(j, jobs[j])
  <2>1. GiveUp(j, "error") /\ UNCHANGED <<scene, cache, owner>> /\ view' = view
    BY <1>3, UnparsedFacts DEF ParseFails
  <2> QED BY <1>1, <1>3, <2>1, GiveUpStep
<1>4. CASE jobs[j].kind # "left" /\ Parsed(j, [jobs[j] EXCEPT !.prev = MapName])
  <2>1. jobs[j].map \in Maps BY <1>2, <1>4 DEF IInv, JobsHoldTokens, Selects
  <2>2. MapName \in MapsOrNone BY DEF MapName, MapsOrNone, IInv, Types
  <2> DEFINE full == [jobs[j] EXCEPT !.prev = MapName]
  <2>3. full \in JobStates /\ full.kind = jobs[j].kind /\ full.map = jobs[j].map
        /\ full.prev = MapName
    BY <1>2, <2>2 DEF JobStates
  <2>4. Parsed(j, full) BY <1>4
  <2> HIDE DEF full
  <2> QED BY <1>1, <1>2, <1>4, <2>1, <2>3, <2>4, ParsedStep
<1>5. CASE GiveUp(j, screen) /\ UNCHANGED <<scene, view, cache, owner>>
  BY <1>1, <1>5, GiveUpStep
<1> QED BY <1>3, <1>4, <1>5 DEF MapArrives, LoadFile

\* With nothing drawing, the scene and the cache are those of the scenario.
LEMMA QuietScene ==
  ASSUME IInv, ~Settling, \A k \in Jobs : ~Drawing(k)',
         UNCHANGED <<doc, unseen, scene>>,
         \/ view' = view /\ \A k \in Jobs : ~Drawing(k)
         \/ \E m \in {NoMap, doc.map} : view' = [shown |-> m, odr |-> m]
  PROVE  SceneIsOpen'
<1>1. (~unseen => scene.base = doc.id) /\ (scene.ver # 0 => scene.on = doc.map)
      /\ view.shown \in {NoMap, doc.map}
  BY DEF IInv, SceneIsOpen
<1>2. \A k \in Jobs : jobs'[k].pc # "settle" BY DEF Drawing
<1>3. view'.shown \in {NoMap, doc.map} /\ view'.odr = view'.shown
  BY <1>1 DEF IInv, SceneIsOpen
<1> QED BY <1>1, <1>2, <1>3 DEF SceneIsOpen

LEMMA QuietCache ==
  ASSUME IInv, \A k \in Jobs : ~Drawing(k)', UNCHANGED doc,
         cache'.xodr = doc.map, cache'.name \in {NoMap, doc.map}
  PROVE  CacheIsOpen'
<1> QED BY DEF CacheIsOpen

LEMMA QuietRows ==
  ASSUME \A k \in Jobs : ~Drawing(k)' PROVE LoadedRowsAreWhole'
<1> QED BY DEF LoadedRowsAreWhole

\* What a click finds when nothing is under way.
LEMMA AtRest ==
  ASSUME IInv, Clickable, ~ReadOnly
  PROVE  /\ \A k \in Jobs : jobs[k].kind = "none" /\ jobs[k].pc = "none" /\ ~Drawing(k)
         /\ op = NoOp /\ ~loading /\ screen = "clear" /\ ~Settling
         /\ cache.xodr = doc.map /\ cache.name \in {NoMap, doc.map}
<1>1. screen = "clear" /\ ~loading /\ op = NoOp /\ ~Settling
  BY ClickableFacts DEF Clickable, ReadOnly
<1>2. \A k \in Jobs : ~Loads(k) /\ ~Drawing(k) /\ ~Selects(k) BY <1>1, ClickableFacts
<1>3. \A k \in Jobs : jobs[k].kind = "none" /\ jobs[k].pc = "none"
  <2> TAKE k \in Jobs
  <2>1. jobs[k] \in JobStates BY DEF IInv, Types
  <2>2. jobs[k].kind = "none" BY <1>2, <2>1 DEF Loads, Selects, JobStates
  <2> QED BY <2>2 DEF IInv, JobsHoldTokens
<1>4. cache.xodr = doc.map /\ cache.name \in {NoMap, doc.map}
  BY <1>2 DEF IInv, CacheIsOpen
<1> QED BY <1>1, <1>2, <1>3, <1>4

LEMMA LoadOnSceneStep ==
  ASSUME Calm, IInv, NEW j \in Jobs, NEW id \in Ids, LoadOnScene(j, id) PROVE IInv'
<1>1. /\ \A k \in Jobs : jobs[k].kind = "none" /\ jobs[k].pc = "none" /\ ~Drawing(k)
      /\ op = NoOp /\ ~loading /\ ~Settling
      /\ cache.xodr = doc.map /\ cache.name \in {NoMap, doc.map}
  BY AtRest DEF LoadOnScene
<1>2. UNCHANGED <<doc, clean, unseen, scene, view, cache, loading, op, desc, rows, ver>>
      /\ screen' = "busy" /\ dialogBusy' = TRUE
  BY DEF LoadOnScene, Load, docVars
<1>3. /\ jobs' \in [Jobs -> JobStates]
      /\ jobs'[j].kind = "dialog" /\ jobs'[j].pc = "row" /\ jobs'[j].id = id /\ jobs'[j].open
      /\ \A k \in Jobs : k # j => jobs'[k] = jobs[k]
  <2>1. jobs' = [jobs EXCEPT ![j] = [Idle EXCEPT !.kind = "dialog", !.pc = "row", !.id = id,
                                                  !.open = TRUE]]
    BY DEF LoadOnScene, Load
  <2>2. jobs \in [Jobs -> JobStates] BY DEF IInv, Types
  <2> QED BY <2>1, <2>2, NothingFacts DEF JobStates, IdsOrNone
<1>4. owner' \in [load : Jobs \cup {NoJob}, select : Jobs \cup {NoJob},
                  build : Jobs \cup {NoJob}]
      /\ owner'.load = j
  BY DEF LoadOnScene, Load, IInv, Types
<1>5. Types' BY <1>2, <1>3, <1>4 DEF IInv, Types
<1>6. \A k \in Jobs : ~Drawing(k)' BY <1>1, <1>3 DEF Drawing
<1>7. JobsHoldTokens'
  BY <1>1, <1>2, <1>3, <1>4, <1>6 DEF JobsHoldTokens, Loads, Selects
<1>8. OneJobWorks' BY <1>1, <1>3 DEF OneJobWorks, Loads
<1>9. FlagsHaveWork' BY <1>1, <1>2, <1>3 DEF FlagsHaveWork, Loads
<1>10. SceneIsOpen' BY <1>1, <1>2, <1>6, QuietScene
<1>11. CacheIsOpen' BY <1>1, <1>2, <1>6, QuietCache
<1>12. OpIsOpen' BY <1>1, <1>2 DEF OpIsOpen
<1> QED BY <1>2, <1>5, <1>6, <1>7, <1>8, <1>9, <1>10, <1>11, <1>12, QuietRows,
           FrameRows, FrameClean, FrameDesc DEF IInv

LEMMA SelectMapStep ==
  ASSUME Calm, IInv, NEW j \in Jobs, NEW m \in Maps, SelectMap(j, m) PROVE IInv'
<1>1. /\ \A k \in Jobs : jobs[k].kind = "none" /\ jobs[k].pc = "none" /\ ~Drawing(k)
      /\ op = NoOp /\ ~Settling /\ screen = "clear"
      /\ cache.xodr = doc.map /\ cache.name \in {NoMap, doc.map}
  BY AtRest DEF SelectMap
<1>2. UNCHANGED <<doc, clean, unseen, scene, view, cache, screen, dialogBusy, op, desc, rows, ver>>
      /\ loading' = TRUE
  BY DEF SelectMap, docVars
<1>3. /\ jobs' \in [Jobs -> JobStates]
      /\ jobs'[j].kind = "select" /\ jobs'[j].pc = "xodr" /\ jobs'[j].map = m
      /\ \A k \in Jobs : k # j => jobs'[k] = jobs[k]
  <2>1. jobs' = [jobs EXCEPT ![j] = [Idle EXCEPT !.kind = "select", !.pc = "xodr",
                                                  !.map = m, !.open = TRUE]]
    BY DEF SelectMap
  <2>2. jobs \in [Jobs -> JobStates] BY DEF IInv, Types
  <2> QED BY <2>1, <2>2, NothingFacts DEF JobStates, MapsOrNone
<1>4. owner' = [load |-> NoJob, select |-> j, build |-> NoJob] BY DEF SelectMap
<1>5. Types' BY <1>2, <1>3, <1>4 DEF IInv, Types
<1>6. \A k \in Jobs : ~Drawing(k)' BY <1>1, <1>3 DEF Drawing
<1>7. JobsHoldTokens'
  BY <1>1, <1>2, <1>3, <1>4, <1>6 DEF JobsHoldTokens, Loads, Selects
<1>8. OneJobWorks' BY <1>1, <1>3 DEF OneJobWorks, Loads
<1>9. FlagsHaveWork' BY <1>1, <1>2, <1>3 DEF FlagsHaveWork, Selects
<1>10. SceneIsOpen' BY <1>1, <1>2, <1>6, QuietScene
<1>11. CacheIsOpen' BY <1>1, <1>2, <1>6, QuietCache
<1>12. OpIsOpen' BY <1>1, <1>2 DEF OpIsOpen
<1> QED BY <1>2, <1>5, <1>6, <1>7, <1>8, <1>9, <1>10, <1>11, <1>12, QuietRows,
           FrameRows, FrameClean, FrameDesc DEF IInv

-----------------------------------------------------------------------------
(* Leaving and reopening the page.                                         *)

\* The page is left with the name of the map that is open.
LEMMA LeftCacheFacts ==
  ASSUME IInv, ~Settling, NEW named \in LeftCaches
  PROVE  /\ named \in [name : MapsOrNone, xodr : Maps]
         /\ named.xodr = doc.map /\ named.name \in {NoMap, doc.map}
<1>1. cache \in [name : MapsOrNone, xodr : Maps] /\ cache.xodr = doc.map
  BY DEF IInv, Types, CacheIsOpen
<1>2. CASE Preparing = {}
  <2>1. \A k \in Jobs : ~(jobs[k].kind = "select" /\ Drawing(k))
    BY <1>2 DEF Preparing, IsSelect, Settling, Drawing
  <2>2. named = cache BY <1>2 DEF LeftCaches
  <2> QED BY <1>1, <2>1, <2>2 DEF IInv, CacheIsOpen
<1>3. CASE Preparing # {}
  <2>1. PICK k \in Preparing : named = [cache EXCEPT !.name = jobs[k].prev]
    BY <1>3 DEF LeftCaches
  <2>2. k \in Jobs /\ jobs[k].pc = "prepare" /\ jobs[k].kind \in {"select", "left"}
    BY <2>1 DEF Preparing, IsSelect
  <2>3. jobs[k].kind = "select" BY <2>2 DEF IInv, JobsHoldTokens
  <2>4. jobs[k].prev = doc.map BY <2>2, <2>3 DEF IInv, CacheIsOpen, Drawing
  <2>5. doc.map \in MapsOrNone BY DEF IInv, Types, MapsOrNone
  <2> QED BY <1>1, <2>1, <2>4, <2>5
<1> QED BY <1>2, <1>3

LEMMA LeavesFacts ==
  ASSUME Calm, IInv, Leaves
  PROVE  op = NoOp /\ op' = NoOp /\ ~Settling /\ dialogBusy' = FALSE
<1>1. "leave" \notin Upsets BY CalmFacts
<1>2. op = NoOp BY <1>1 DEF Leaves
<1>3. op' = [NoOp EXCEPT !.alive = FALSE] BY <1>2 DEF Leaves
<1>4. op' = NoOp
  <2>1. op' = [kind |-> op'.kind, pc |-> op'.pc, id |-> op'.id, rev |-> op'.rev,
               scene |-> op'.scene, map |-> op'.map, file |-> op'.file, blind |-> op'.blind,
               alive |-> op'.alive]
    BY <1>3 DEF NoOp
  <2>2. /\ op'.kind = "none" /\ op'.pc = "none" /\ op'.id = NoId /\ op'.rev = 0
        /\ op'.scene = NoScene /\ op'.map = NoMap /\ op'.file = NoMap
        /\ op'.blind = FALSE /\ op'.alive = FALSE
    BY <1>3 DEF NoOp
  <2> QED BY <2>1, <2>2 DEF NoOp
<1> QED BY <1>2, <1>4 DEF Leaves

LEMMA LeftFacts ==
  ASSUME IInv, NEW k \in Jobs
  PROVE  /\ Left(jobs[k]) \in JobStates
         /\ jobs[k].pc = "xodr" => Left(jobs[k]).kind = "left" /\ Left(jobs[k]).pc = "xodr"
         /\ jobs[k].pc # "xodr" => Left(jobs[k]).kind = "none" /\ Left(jobs[k]).pc = "none"
<1>1. jobs[k] \in JobStates BY DEF IInv, Types
<1> QED BY <1>1, NothingFacts DEF Left, JobStates

LEMMA OpenEditorStep ==
  ASSUME Calm, IInv, NEW j \in Jobs, NEW id \in Ids, OpenEditor(j, id) PROVE IInv'
<1>1. op = NoOp /\ op' = NoOp /\ ~Settling /\ dialogBusy' = FALSE
  BY LeavesFacts DEF OpenEditor
<1>2. UNCHANGED <<doc, clean, unseen, scene, desc, rows, ver>> /\ screen' = "busy"
      /\ view' = [shown |-> NoMap, odr |-> NoMap] /\ cache' \in LeftCaches
      /\ jobs[j].pc # "xodr"
      /\ loading' = (loading /\ \E k \in Jobs : jobs[k].pc = "xodr")
  BY DEF OpenEditor, Leaves, docVars
<1>3. /\ jobs' \in [Jobs -> JobStates]
      /\ jobs'[j].kind = "open" /\ jobs'[j].pc = "row" /\ jobs'[j].id = id /\ jobs'[j].open
      /\ \A k \in Jobs : k # j => jobs'[k] = Left(jobs[k])
  <2>1. jobs' = [k \in Jobs |->
          IF k = j THEN [Idle EXCEPT !.kind = "open", !.pc = "row", !.id = id, !.open = TRUE]
          ELSE Left(jobs[k])]
    BY DEF OpenEditor
  <2>2. [Idle EXCEPT !.kind = "open", !.pc = "row", !.id = id, !.open = TRUE] \in JobStates
    BY NothingFacts DEF JobStates, IdsOrNone
  <2> QED BY <2>1, <2>2, NothingFacts, LeftFacts DEF JobStates
<1>4. owner' \in [load : Jobs \cup {NoJob}, select : Jobs \cup {NoJob},
                  build : Jobs \cup {NoJob}]
      /\ owner'.load = j /\ owner'.select = owner.select
  BY DEF OpenEditor, IInv, Types
<1>5. cache' \in [name : MapsOrNone, xodr : Maps]
      /\ cache'.xodr = doc.map /\ cache'.name \in {NoMap, doc.map}
  BY <1>1, <1>2, LeftCacheFacts
<1>6. Types'
  BY <1>1, <1>2, <1>3, <1>4, <1>5, NothingFacts DEF IInv, Types, MapsOrNone
<1>7. \A k \in Jobs : k # j =>
        /\ jobs'[k].kind \in {"left", "none"}
        /\ jobs'[k].kind = "left" => jobs[k].pc = "xodr"
        /\ jobs[k].pc = "xodr" => jobs'[k].kind = "left"
        /\ jobs'[k].kind = "left" => jobs'[k].pc = "xodr"
        /\ jobs'[k].kind = "none" => jobs'[k].pc = "none"
  BY <1>3, LeftFacts
<1>8. \A k \in Jobs : jobs[k].pc = "xodr" => owner.select = k /\ loading
  BY KindsOfJobs DEF IInv, JobsHoldTokens
<1>9. \A k \in Jobs : ~Drawing(k)' BY <1>3, <1>7 DEF Drawing
<1>10. JobsHoldTokens'
  BY <1>2, <1>3, <1>4, <1>7, <1>8, <1>9 DEF JobsHoldTokens, Loads, Selects
<1>11. OneJobWorks' BY <1>3, <1>7 DEF OneJobWorks
<1>12. FlagsHaveWork'
  <2>1. loading' => \E k \in Jobs : Selects(k)' BY <1>2, <1>7 DEF Selects
  <2> QED BY <1>3, <2>1 DEF FlagsHaveWork, Loads
<1>13. SceneIsOpen' BY <1>1, <1>2, <1>9, QuietScene
<1>14. CacheIsOpen' BY <1>2, <1>5, <1>9, QuietCache
<1>15. OpIsOpen' BY <1>1 DEF OpIsOpen
<1> QED BY <1>2, <1>6, <1>9, <1>10, <1>11, <1>12, <1>13, <1>14, <1>15, QuietRows,
           FrameRows, FrameClean, FrameDesc DEF IInv

\* The map of the cache is shown: it is the scenario's.
LEMMA ShowCachedFacts ==
  ASSUME IInv, NEW named \in [name : MapsOrNone, xodr : Maps], ShowCached(named),
         named.xodr = doc.map, named.name \in {NoMap, doc.map}
  PROVE  /\ UNCHANGED <<doc, clean, unseen, scene, rows, ver>> /\ screen' = "clear"
         /\ view' = [shown |-> doc.map, odr |-> doc.map]
         /\ view' \in [shown : MapsOrNone, odr : MapsOrNone]
         /\ cache' = named
<1>1. doc \in [id : IdsOrNone, rev : Nat, map : Maps] /\ cache.xodr = doc.map
  BY DEF IInv, Types, CacheIsOpen
<1>2. doc' = doc BY <1>1 DEF ShowCached
<1> QED BY <1>1, <1>2 DEF ShowCached, MapsOrNone

LEMMA ReturnStep ==
  ASSUME Calm, IInv, Return PROVE IInv'
<1>1. op = NoOp /\ op' = NoOp /\ ~Settling /\ dialogBusy' = FALSE
  BY LeavesFacts DEF Return
<1>2. UNCHANGED desc /\ \E named \in LeftCaches : ShowCached(named) BY DEF Return
<1>18. PICK named \in LeftCaches : ShowCached(named) BY <1>2
<1>3. named \in [name : MapsOrNone, xodr : Maps]
      /\ named.xodr = doc.map /\ named.name \in {NoMap, doc.map}
  BY <1>1, <1>18, LeftCacheFacts
<1>4. /\ UNCHANGED <<doc, clean, unseen, scene, desc, rows, ver>> /\ screen' = "clear"
      /\ view' = [shown |-> doc.map, odr |-> doc.map]
      /\ view' \in [shown : MapsOrNone, odr : MapsOrNone]
      /\ cache' = named
  BY <1>2, <1>18, <1>3, ShowCachedFacts
<1>5. jobs' = [k \in Jobs |-> Left(jobs[k])] /\ jobs' \in [Jobs -> JobStates]
  BY LeftFacts DEF Return
<1>6. loading' = (loading /\ \E k \in Jobs : jobs[k].pc = "xodr")
  BY DEF Return, Leaves
<1>7. owner' \in [load : Jobs \cup {NoJob}, select : Jobs \cup {NoJob},
                  build : Jobs \cup {NoJob}]
      /\ owner'.select = owner.select
  BY DEF Return, IInv, Types
<1>8. Types'
  BY <1>1, <1>3, <1>4, <1>5, <1>6, <1>7, NothingFacts DEF IInv, Types
<1>9. \A k \in Jobs :
        /\ jobs'[k].kind \in {"left", "none"}
        /\ jobs'[k].kind = "left" => jobs[k].pc = "xodr"
        /\ jobs[k].pc = "xodr" => jobs'[k].kind = "left"
        /\ jobs'[k].kind = "left" => jobs'[k].pc = "xodr"
        /\ jobs'[k].kind = "none" => jobs'[k].pc = "none"
  BY <1>5, LeftFacts
<1>10. \A k \in Jobs : jobs[k].pc = "xodr" => owner.select = k /\ loading
  BY KindsOfJobs DEF IInv, JobsHoldTokens
<1>11. \A k \in Jobs : ~Drawing(k)' BY <1>9 DEF Drawing
<1>12. JobsHoldTokens'
  BY <1>6, <1>7, <1>9, <1>10, <1>11 DEF JobsHoldTokens, Loads, Selects
<1>13. OneJobWorks' BY <1>9 DEF OneJobWorks
<1>14. FlagsHaveWork' BY <1>4, <1>6, <1>9 DEF FlagsHaveWork, Selects
<1>15. SceneIsOpen' BY <1>1, <1>4, <1>11, QuietScene
<1>16. CacheIsOpen' BY <1>3, <1>4, <1>11, QuietCache
<1>17. OpIsOpen' BY <1>1 DEF OpIsOpen
<1> QED BY <1>4, <1>8, <1>11, <1>12, <1>13, <1>14, <1>15, <1>16, <1>17, QuietRows,
           FrameRows, FrameClean, FrameDesc DEF IInv

LEMMA ReloadStep ==
  ASSUME Calm, IInv, Reload PROVE IInv'
<1>1. ~Settling /\ Preparing = {} /\ op' = NoOp /\ loading' = FALSE /\ dialogBusy' = FALSE
      /\ owner' = [load |-> NoJob, select |-> NoJob, build |-> NoJob]
      /\ jobs' = [k \in Jobs |-> Idle] /\ ShowCached(cache)
  BY CalmFacts DEF Reload
<1>2. cache \in LeftCaches BY <1>1 DEF LeftCaches
<1>3. cache \in [name : MapsOrNone, xodr : Maps]
      /\ cache.xodr = doc.map /\ cache.name \in {NoMap, doc.map}
  BY <1>1, <1>2, LeftCacheFacts
<1>4. /\ UNCHANGED <<doc, clean, unseen, scene, rows, ver>> /\ screen' = "clear"
      /\ view' = [shown |-> doc.map, odr |-> doc.map]
      /\ view' \in [shown : MapsOrNone, odr : MapsOrNone]
      /\ cache' = cache
  BY <1>1, <1>3, ShowCachedFacts
<1>14. desc' = NoDesc /\ desc' \in Descs /\ desc'.pc = "none" BY NothingFacts DEF Reload
<1>5. \A k \in Jobs : jobs'[k].kind = "none" /\ jobs'[k].pc = "none"
  BY <1>1, NothingFacts
<1>6. Types' BY <1>1, <1>3, <1>4, <1>14, NothingFacts DEF IInv, Types
<1>7. \A k \in Jobs : ~Drawing(k)' BY <1>5 DEF Drawing
<1>8. JobsHoldTokens' BY <1>5, <1>7 DEF JobsHoldTokens, Loads, Selects
<1>9. OneJobWorks' BY <1>5 DEF OneJobWorks
<1>10. FlagsHaveWork' BY <1>1, <1>4 DEF FlagsHaveWork
<1>11. SceneIsOpen' BY <1>1, <1>4, <1>7, QuietScene
<1>12. CacheIsOpen' BY <1>3, <1>4, <1>7, QuietCache
<1>13. OpIsOpen' BY <1>1 DEF OpIsOpen
<1>15. DescIsStored' BY <1>14 DEF DescIsStored
<1>16. RevisionNamesClean' BY <1>4, <1>14 DEF IInv, RevisionNamesClean, Names, Stored
<1> QED BY <1>4, <1>6, <1>7, <1>8, <1>9, <1>10, <1>11, <1>12, <1>13, <1>15, <1>16, QuietRows,
           FrameRows DEF IInv

\* The worker answers for the one job that draws: its map is built.
LEMMA PreparedStep ==
  ASSUME Calm, IInv, NEW j \in Jobs, Prepared(j) PROVE IInv'
<1>1. jobs[j].pc = "prepare" /\ UNCHANGED <<docVars, owner, op, desc, rows, ver>>
  BY DEF Prepared
<1>2. Drawing(j) /\ jobs[j] \in JobStates /\ (Loads(j) \/ jobs[j].kind = "select")
  BY <1>1, KindsOfJobs DEF Drawing
<1>3. owner.build = j /\ screen = "busy" /\ jobs[j].map \in Maps
  BY <1>2 DEF IInv, JobsHoldTokens
<1>4. "build" \notin Upsets BY CalmFacts
<1>5. Build(j, jobs[j]) /\ UNCHANGED <<cache, loading, screen, dialogBusy>>
  BY <1>3, <1>4 DEF Prepared, BuildFails
<1>6. UNCHANGED <<doc, clean, unseen>> BY <1>1 DEF docVars
<1>7. jobs \in [Jobs -> JobStates] BY DEF IInv, Types
<1>8. /\ jobs' \in [Jobs -> JobStates]
      /\ jobs'[j].pc = "settle" /\ jobs'[j].kind = jobs[j].kind
      /\ jobs'[j].map = jobs[j].map /\ jobs'[j].prev = jobs[j].prev
      /\ jobs'[j].row = jobs[j].row /\ jobs'[j].id = jobs[j].id
      /\ jobs'[j].open = jobs[j].open
      /\ \A k \in Jobs : k # j => jobs'[k] = jobs[k]
  BY <1>2, <1>5, <1>7 DEF Build, JobStates
<1>9. scene' = NoScene /\ view' = [shown |-> jobs[j].map, odr |-> jobs[j].map]
  BY <1>5 DEF Build
<1>10. \A k \in Jobs : k # j => ~Loads(k) /\ ~Drawing(k) /\ jobs[k].kind # "select"
  BY <1>2, WorksAlone
<1>11. op = NoOp BY <1>2, NoOpWhileJobs DEF Loads
<1>12. \A k \in Jobs : /\ Drawing(k)' <=> Drawing(k)
                       /\ Loads(k)' <=> Loads(k)
                       /\ Selects(k)' <=> Selects(k)
                       /\ jobs'[k].kind = jobs[k].kind
  BY <1>1, <1>8 DEF Drawing, Loads, Selects
<1>13. Types'
  <2>1. view' \in [shown : MapsOrNone, odr : MapsOrNone]
    BY <1>3, <1>9 DEF MapsOrNone
  <2> QED BY <1>1, <1>5, <1>6, <1>8, <1>9, <2>1, NothingFacts DEF IInv, Types
<1>14. JobsHoldTokens'
  <2>1. UNCHANGED <<owner, screen, loading>> BY <1>1, <1>5
  <2>2. \A k \in Jobs : k # j => jobs'[k] = jobs[k] BY <1>8
  <2>3. /\ Loads(j) => jobs[j].id \in Ids /\ owner.load = j /\ jobs[j].open
        /\ Selects(j) => owner.select = j /\ loading
        /\ jobs[j].kind \notin {"none", "left"}
    BY <1>2 DEF IInv, JobsHoldTokens, Loads
  <2> QED BY <1>3, <1>8, <1>12, <2>1, <2>2, <2>3 DEF IInv, JobsHoldTokens
<1>15. OneJobWorks' BY <1>12 DEF IInv, OneJobWorks
<1>16. FlagsHaveWork' BY <1>5, <1>12 DEF IInv, FlagsHaveWork
<1>17. SceneIsOpen'
  <2>1. Settling' BY <1>8 DEF Settling
  <2>2. \A k \in Jobs : jobs'[k].pc = "settle" => k = j BY <1>8, <1>10 DEF Drawing
  <2> QED BY <1>2, <1>8, <1>9, <1>12, <2>1, <2>2 DEF SceneIsOpen
<1>18. CacheIsOpen'
  <2>1. \A k \in Jobs : jobs'[k].prev = jobs[k].prev /\ jobs'[k].map = jobs[k].map
    BY <1>8
  <2> QED BY <1>5, <1>6, <1>12, <2>1 DEF IInv, CacheIsOpen
<1>19. LoadedRowsAreWhole'
  <2>1. \A k \in Jobs : /\ jobs'[k].row = jobs[k].row /\ jobs'[k].map = jobs[k].map
                        /\ jobs'[k].id = jobs[k].id
    BY <1>8
  <2> QED BY <1>1, <1>12, <2>1 DEF IInv, LoadedRowsAreWhole, RowOK, Names, Stored
<1>20. OpIsOpen' BY <1>1, <1>11 DEF OpIsOpen
<1> QED BY <1>1, <1>6, <1>13, <1>14, <1>15, <1>16, <1>17, <1>18, <1>19, <1>20,
           FrameRows, FrameClean, FrameDesc DEF IInv

\* What the end of the one job that draws does to the other jobs and the flags.
LEMMA DrawingEnds ==
  ASSUME IInv, NEW j \in Jobs, Drawing(j), jobs' = [jobs EXCEPT ![j] = Idle],
         screen' = "clear", loading' = (loading /\ ~Selects(j)), UNCHANGED owner
  PROVE  /\ jobs' \in [Jobs -> JobStates]
         /\ JobsHoldTokens' /\ OneJobWorks' /\ FlagsHaveWork'
         /\ LoadedRowsAreWhole' /\ \A k \in Jobs : ~Drawing(k)'
<1>1. Loads(j) \/ jobs[j].kind = "select" BY KindsOfJobs
<1>2. \A k \in Jobs : k # j => ~Loads(k) /\ ~Drawing(k) /\ jobs[k].kind # "select"
  BY <1>1, WorksAlone
<1>3. jobs \in [Jobs -> JobStates] BY DEF IInv, Types
<1>4. /\ jobs'[j].kind = "none" /\ jobs'[j].pc = "none"
      /\ \A k \in Jobs : k # j => jobs'[k] = jobs[k]
  BY <1>3, NothingFacts
<1>5. jobs' \in [Jobs -> JobStates] BY <1>3, NothingFacts
<1>6. \A k \in Jobs : ~Drawing(k)' /\ ~Loads(k)' /\ jobs'[k].kind # "select"
  <2> TAKE k \in Jobs
  <2>1. CASE k = j BY <1>4, <2>1 DEF Drawing, Loads
  <2>2. CASE k # j BY <1>2, <1>4, <2>2 DEF Drawing, Loads
  <2> QED BY <2>1, <2>2
<1>7. \A k \in Jobs : Selects(k)' => Selects(k) /\ k # j BY <1>4 DEF Selects
<1>8. JobsHoldTokens'
  <2> SUFFICES ASSUME NEW k \in Jobs
      PROVE  (/\ jobs[k].kind = "none" => jobs[k].pc = "none"
              /\ jobs[k].kind = "left" => jobs[k].pc = "xodr"
              /\ Selects(k) => owner.select = k /\ loading)'
    BY <1>6 DEF JobsHoldTokens
  <2>1. CASE k = j BY <1>4, <2>1 DEF Selects
  <2>2. CASE k # j
    <3>1. jobs'[k] = jobs[k] BY <1>4, <2>2
    <3>2. Selects(k) => loading' BY <2>2, SelectsAlone DEF IInv, JobsHoldTokens
    <3> QED BY <3>1, <3>2 DEF IInv, JobsHoldTokens, Selects
  <2> QED BY <2>1, <2>2
<1>9. OneJobWorks' BY <1>6 DEF OneJobWorks
<1>10. FlagsHaveWork'
  <2>1. loading' => \E k \in Jobs : Selects(k)'
    BY <1>4 DEF IInv, FlagsHaveWork, Selects
  <2> QED BY <2>1 DEF FlagsHaveWork
<1>11. LoadedRowsAreWhole' BY <1>6, QuietRows
<1> QED BY <1>5, <1>6, <1>8, <1>9, <1>10, <1>11

LEMMA SettledStep ==
  ASSUME Calm, IInv, NEW j \in Jobs, Settled(j) PROVE IInv'
<1>1. jobs[j].pc = "settle" /\ UNCHANGED <<view, owner, op, desc, rows, ver>>
  BY DEF Settled
<1>2. /\ Drawing(j) /\ jobs[j] \in JobStates /\ (Loads(j) \/ jobs[j].kind = "select")
      /\ (Selects(j) <=> jobs[j].kind = "select") /\ (Selects(j) <=> ~Loads(j))
  BY <1>1, KindsOfJobs DEF Drawing, Loads, Selects
<1>3. /\ owner.build = j /\ jobs[j].map \in Maps
      /\ Loads(j) => owner.load = j /\ jobs[j].open /\ jobs[j].id \in Ids
      /\ Selects(j) => owner.select = j
  BY <1>2 DEF IInv, JobsHoldTokens
<1>4. /\ IsSelect(j) <=> Selects(j)
      /\ Selects(j) => owner.select = j
      /\ ~Selects(j) => Current(j)
  BY <1>2, <1>3 DEF IsSelect, Selects, Current
<1>5. /\ screen' = "clear" /\ jobs' = [jobs EXCEPT ![j] = Idle]
      /\ loading' = (loading /\ ~Selects(j)) /\ dialogBusy' \in BOOLEAN
  BY <1>3, <1>4 DEF Settled
<1>6. /\ jobs' \in [Jobs -> JobStates]
      /\ JobsHoldTokens' /\ OneJobWorks' /\ FlagsHaveWork'
      /\ LoadedRowsAreWhole' /\ \A k \in Jobs : ~Drawing(k)'
  BY <1>1, <1>2, <1>5, DrawingEnds
<1>7. scene = NoScene /\ view = [shown |-> jobs[j].map, odr |-> jobs[j].map]
  BY <1>1 DEF IInv, SceneIsOpen
<1>8. op = NoOp BY <1>2, NoOpWhileJobs DEF Loads
<1>9. OpIsOpen' BY <1>1, <1>8 DEF OpIsOpen
<1>10. loading' \in BOOLEAN BY <1>5 DEF IInv, Types
<1>11. \A k \in Jobs : jobs'[k].pc # "settle" BY <1>6 DEF Drawing
<1>12. CASE Selects(j)
  <2>1. AdoptMap(j) BY <1>3, <1>4, <1>12 DEF Settled
  <2>2. cache.name = jobs[j].map BY <1>2, <1>12 DEF IInv, CacheIsOpen
  <2>3. /\ doc' = [id |-> NoId, rev |-> 0, map |-> jobs[j].map] /\ unseen' = FALSE
        /\ clean' = <<jobs[j].map, 0>> /\ scene' = NoScene
        /\ cache' = [name |-> jobs[j].map, xodr |-> jobs[j].map]
    BY <1>4, <1>7, <1>12, <2>1, <2>2, NothingFacts DEF AdoptMap, Remembered
  <2>4. Types'
    BY <1>1, <1>3, <1>5, <1>6, <1>10, <2>3, NothingFacts
       DEF IInv, Types, IdsOrNone, MapsOrNone
  <2>5. SceneIsOpen'
    BY <1>1, <1>7, <1>11, <2>3, NothingFacts DEF SceneIsOpen
  <2>6. CacheIsOpen' BY <1>6, <2>3 DEF CacheIsOpen
  <2>7. RevisionNamesClean' BY <2>3 DEF RevisionNamesClean
  <2> QED BY <1>1, <1>6, <1>9, <2>4, <2>5, <2>6, <2>7, FrameRows, FrameDesc DEF IInv
<1>13. CASE ~Selects(j)
  <2> DEFINE row == jobs[j].row
  <2>1. AdoptRow(j) BY <1>3, <1>4, <1>13 DEF Settled
  <2>2. Loads(j) /\ jobs[j].id \in Ids BY <1>2, <1>3, <1>13
  <2>3. row \in Rows BY <1>2 DEF JobStates
  <2>4. /\ RowOK(jobs[j].id, row) /\ jobs[j].map = row.file
        /\ Names(jobs[j].id, row.rev, row.ver)
    BY <1>2, <2>2 DEF IInv, LoadedRowsAreWhole
  <2>5. /\ row.rev \in Nat /\ row.rev # 0 /\ row.base = jobs[j].id
        /\ row.map \in Maps /\ row.map = jobs[j].map
        /\ row.ver \in Nat /\ row.on \in MapsOrNone
        /\ row.ver # 0 => row.on = row.map
    BY <2>3, <2>4 DEF RowOK, Rows
  <2>6. /\ doc' = [id |-> jobs[j].id, rev |-> row.rev, map |-> row.map] /\ unseen' = FALSE
        /\ clean' = <<row.map, row.ver>>
        /\ scene' = [base |-> row.base, on |-> row.on, ver |-> row.ver]
        /\ cache' = [name |-> row.map, xodr |-> jobs[j].map]
    BY <2>1 DEF AdoptRow, Remembered
  <2> HIDE DEF row
  <2>7. Types'
    <3>1. scene' \in Scenes BY <2>2, <2>5, <2>6 DEF Scenes, IdsOrNone
    <3> QED BY <1>1, <1>5, <1>6, <1>10, <2>2, <2>5, <2>6, <3>1
            DEF IInv, Types, IdsOrNone, MapsOrNone
  <2>8. SceneIsOpen'
    BY <1>1, <1>7, <1>11, <2>5, <2>6 DEF SceneIsOpen
  <2>9. CacheIsOpen' BY <1>6, <2>5, <2>6 DEF CacheIsOpen
  <2>10. RevisionNamesClean'
    BY <1>1, <2>4, <2>5, <2>6 DEF RevisionNamesClean, Names, Stored, row
  <2> QED BY <1>1, <1>6, <1>9, <2>7, <2>8, <2>9, <2>10, FrameRows, FrameDesc DEF IInv
<1> QED BY <1>12, <1>13

-----------------------------------------------------------------------------
(* The invariant, and what follows from it.                                *)

LEMMA InitInv == ASSUME Init PROVE IInv
<1>1. PICK m \in Maps :
        /\ doc = [id |-> NoId, rev |-> 0, map |-> m]
        /\ clean = <<m, 0>>
        /\ view = [shown |-> m, odr |-> m]
        /\ cache = [name |-> m, xodr |-> m]
  BY DEF Init
<1>2. /\ scene = NoScene /\ loading = FALSE /\ screen = "clear" /\ dialogBusy = FALSE
      /\ owner = [load |-> NoJob, select |-> NoJob, build |-> NoJob]
      /\ jobs = [j \in Jobs |-> Idle] /\ op = NoOp /\ desc = NoDesc /\ unseen = FALSE /\ ver = 1
  BY DEF Init
<1>3. \A j \in Jobs : jobs[j].kind = "none" /\ jobs[j].pc = "none"
  BY <1>2, NothingFacts
<1>4. \A id \in Ids : rows[id] \in Rows /\ (Stored(id) => RowOK(id, rows[id]))
  <2> TAKE id \in Ids
  <2>1. rows[id] \in {NoRow} \cup {FirstRow(i, n) : i \in Ids, n \in Maps}
        /\ rows[id].base \in {id, NoId}
    BY DEF Init
  <2>2. CASE rows[id] = NoRow BY <2>2, NothingFacts DEF Stored
  <2>3. CASE rows[id] # NoRow
    <3>1. PICK i \in Ids, n \in Maps : rows[id] = FirstRow(i, n) BY <2>1, <2>3
    <3>2. i = id BY <2>1, <3>1, SetAssumption DEF FirstRow
    <3>3. FirstRow(id, n) \in Rows BY DEF FirstRow, Rows, IdsOrNone, MapsOrNone
    <3>4. RowOK(id, FirstRow(id, n)) BY DEF FirstRow, RowOK
    <3> QED BY <3>1, <3>2, <3>3, <3>4
  <2> QED BY <2>2, <2>3
<1>5. Types
  <2>1. rows \in [Ids -> Rows]
    <3>1. rows \in [Ids -> {NoRow} \cup {FirstRow(i, n) : i \in Ids, n \in Maps}]
      BY DEF Init
    <3> QED BY <1>4, <3>1
  <2>2. jobs \in [Jobs -> JobStates] BY <1>2, NothingFacts
  <2> QED BY <1>1, <1>2, <2>1, <2>2, NothingFacts DEF Types, IdsOrNone, MapsOrNone
<1>6. JobsHoldTokens /\ OneJobWorks
  BY <1>3 DEF JobsHoldTokens, OneJobWorks, Loads, Selects, Drawing
<1>7. FlagsHaveWork BY <1>2 DEF FlagsHaveWork
<1>8. SceneIsOpen
  BY <1>1, <1>2, <1>3, NothingFacts DEF SceneIsOpen, Settling
<1>9. CacheIsOpen BY <1>1, <1>3 DEF CacheIsOpen
<1>10. RowsAreWhole BY <1>4 DEF RowsAreWhole
<1>11. LoadedRowsAreWhole BY <1>3 DEF LoadedRowsAreWhole, Drawing
<1>12. OpIsOpen BY <1>2 DEF OpIsOpen
<1>13. RevisionNamesClean BY <1>1 DEF RevisionNamesClean
<1>14. DescIsStored BY <1>2, NothingFacts DEF DescIsStored
<1> QED BY <1>5, <1>6, <1>7, <1>8, <1>9, <1>10, <1>11, <1>12, <1>13, <1>14 DEF IInv

LEMMA StutterStep == ASSUME IInv, UNCHANGED vars PROVE IInv'
<1>1. UNCHANGED <<doc, scene, clean, view, cache, loading, screen, dialogBusy, owner, jobs,
                  op, desc, unseen, rows, ver>>
  BY DEF vars
<1>2. Types' BY <1>1 DEF IInv, Types
<1> QED BY <1>1, <1>2, FrameJobs, FrameWorks, FrameScene, FrameCache, FrameRows,
           FrameLoaded, FrameOp, FrameClean, FrameDesc DEF IInv

LEMMA StepInv == ASSUME Calm, IInv, [Next]_vars PROVE IInv'
<1>1. ASSUME NEW j \in Jobs, NEW id \in Ids, LoadOnScene(j, id) \/ OpenEditor(j, id)
      PROVE  IInv'
  BY <1>1, LoadOnSceneStep, OpenEditorStep
<1>2. ASSUME NEW j \in Jobs, NEW m \in Maps, SelectMap(j, m) PROVE IInv'
  BY <1>2, SelectMapStep
<1>3. ASSUME NEW j \in Jobs, Work(j) PROVE IInv'
  BY <1>3, RowArrivesStep, MapArrivesStep, PreparedStep, SettledStep DEF Work
<1>4. ASSUME NEW j \in Jobs, Escape(j) PROVE IInv'
  BY <1>4, CalmFacts DEF Escape
<1>5. CASE Return BY <1>5, ReturnStep
<1>6. CASE Reload BY <1>6, ReloadStep
<1>7. CASE Dismiss BY <1>7, DismissStep
<1>8. CASE Edit BY <1>8, EditStep
<1>9. CASE RemoveEverything BY <1>9, RemoveEverythingStep
<1>10. CASE Save BY <1>10, SaveStep
<1>11. CASE Remove BY <1>11, RemoveStep
<1>12. ASSUME NEW id \in Ids, Describe(id) PROVE IInv' BY <1>12, DescribeStep
<1>17. CASE Described BY <1>17, DescribedStep
<1>18. CASE DescriptionArrives BY <1>18, DescriptionArrivesStep
<1>13. CASE ServerAnswers BY <1>13, ServerAnswersStep
<1>14. CASE Reply BY <1>14, ReplyStep
<1>15. ASSUME NEW id \in Ids, OtherSave(id) PROVE IInv' BY <1>15, OtherSaveStep
<1>16. CASE UNCHANGED vars BY <1>16, StutterStep
<1> QED BY <1>1, <1>2, <1>3, <1>4, <1>5, <1>6, <1>7, <1>8, <1>9, <1>10, <1>11, <1>12,
           <1>13, <1>14, <1>15, <1>16, <1>17, <1>18 DEF Next

LEMMA Invariance == ASSUME Calm PROVE Spec => []IInv
<1>1. Init => IInv BY InitInv
<1>2. IInv /\ [Next]_vars => IInv' BY StepInv
<1> QED BY <1>1, <1>2, PTL DEF Spec

\* The state of the editor and the rows of the server have their types; a
\* scenario that is open always has a map.
THEOREM SessionTypeCorrect == ASSUME Calm PROVE Spec => []Types
<1>1. IInv => Types BY DEF IInv
<1> QED BY <1>1, Invariance, PTL

\* Stored objects lie on the map their row names and carries: no interleaving of
\* loads, map selections, saves, page changes and other users' saves stores a
\* scene with the map of another one (buildScenarioRequest takes the entities,
\* the map's name and its text from three different stores).
THEOREM RowsStayOnTheirMap == ASSUME Calm PROVE Spec => []RowsLieOnTheirMap
<1>1. IInv => RowsLieOnTheirMap
  <2> SUFFICES ASSUME IInv, NEW id \in Ids, rows[id].ver # 0
      PROVE  rows[id].on = rows[id].map /\ rows[id].file = rows[id].map
    BY DEF RowsLieOnTheirMap
  <2>1. Stored(id) BY NothingFacts DEF Stored
  <2> QED BY <2>1 DEF IInv, RowsAreWhole, RowOK
<1> QED BY <1>1, Invariance, PTL

\* A scenario shown as saved, with the revision of its row, is that row: what is
\* on display is what the next load would bring.  Loads, map selections, saves and
\* descriptions may overlap as the editor lets them; the one exception is the state
\* a description's answer leaves when it binds the editor to an id or a revision it
\* has not seen (onSuccess of the update takes over both, whatever is open).
THEOREM SavedMeansStored == ASSUME Calm PROVE Spec => []CleanMeansStored
<1>1. IInv => CleanMeansStored
  <2> SUFFICES ASSUME IInv, ~unseen, doc.id # NoId, Stored(doc.id),
                      rows[doc.id].rev = doc.rev, clean = Fingerprint
      PROVE  scene.ver = rows[doc.id].ver
    BY DEF CleanMeansStored, AllChangesSaved
  <2>1. clean[2] = scene.ver BY DEF Fingerprint
  <2> QED BY <2>1 DEF IInv, RevisionNamesClean, Names
<1> QED BY <1>1, Invariance, PTL

\* With no load or selection under way, the map on display, the parsed one, the
\* cached text, the stored name and the scenario's map are one.
THEOREM TheMapsAgree == ASSUME Calm PROVE Spec => []MapsAgree
<1>1. IInv => MapsAgree
  <2> SUFFICES ASSUME IInv, \A j \in Jobs : Free(j), view.shown # NoMap
      PROVE  /\ view.odr \in {view.shown}
             /\ MapName = view.shown /\ cache.xodr = view.shown /\ doc.map = view.shown
    BY DEF MapsAgree
  <2>1. \A j \in Jobs : ~Drawing(j) /\ jobs[j].pc # "settle"
    BY NothingFacts DEF Free, Drawing
  <2>2. ~Settling BY <2>1 DEF Settling
  <2>3. view.odr = view.shown /\ view.shown = doc.map
    BY <2>1, <2>2 DEF IInv, SceneIsOpen
  <2>4. cache.xodr = doc.map /\ cache.name \in {NoMap, doc.map}
    BY <2>1 DEF IInv, CacheIsOpen
  <2> QED BY <2>3, <2>4 DEF MapName
<1> QED BY <1>1, Invariance, PTL

\* A save over a scenario stores a scene that grew from that scenario, whatever
\* was loaded, chosen, described, left or saved by others while the page was open:
\* the answer to a description, when it binds the editor to an id it has not
\* loaded, is the only thing that lets a save mix two scenarios up.
THEOREM SavesStayInTheirScenario == ASSUME Calm PROVE Spec => SavesKeepTheirScenario
<1>1. IInv /\ [Next]_vars =>
        [\A id \in Ids :
           (op.kind = "patch" /\ op'.pc = "ok" /\ op.pc = "sent" /\ op.id = id
              /\ rows[id].ver # 0)
             => op.scene.base = id \/ op.blind]_vars
  <2> SUFFICES ASSUME IInv, op.kind = "patch", ~op.blind
      PROVE  op.scene.base = op.id
    OBVIOUS
  <2>1. op # NoOp BY NothingFacts
  <2> QED BY <2>1 DEF IInv, OpIsOpen
<1> QED BY <1>1, Invariance, PTL DEF Spec, SavesKeepTheirScenario

\* Saving is disabled and the loading screen is up only while a job that will
\* take them down is under way: no order of clicks, answers and page changes
\* leaves the editor locked.
THEOREM TheEditorIsNotLocked == ASSUME Calm PROVE Spec => []FlagsFollowTheWork
<1>1. IInv => FlagsFollowTheWork
  <2> SUFFICES ASSUME IInv PROVE FlagsFollowTheWork
    OBVIOUS
  <2>1. loading => \E j \in Jobs : jobs[j].kind \in {"select", "left"}
    BY DEF IInv, FlagsHaveWork, Selects
  <2>2. \A j \in Jobs : Loads(j) \/ Drawing(j) =>
          jobs[j].kind \in {"open", "dialog", "select"}
    BY KindsOfJobs DEF Loads
  <2> QED BY <2>1, <2>2 DEF IInv, FlagsHaveWork, FlagsFollowTheWork
<1> QED BY <1>1, Invariance, PTL

=============================================================================
