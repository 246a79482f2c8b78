--------------------------- MODULE EditorSession ---------------------------
(***************************************************************************)
(* The scenario open in the editor: loading it and its map, choosing       *)
(* another map, saving, deleting and describing scenarios, leaving and     *)
(* reopening the page, while requests are in flight.                       *)
(*                                                                         *)
(* Versions stand for contents: 0 is a scene without objects, every edit   *)
(* makes a new version.  The properties know what the code does not: "base" *)
(* and "on", the scenario a scene grew from and the map its objects were   *)
(* placed on, and "unseen" (in a save: "blind"), that the id or the        *)
(* revision the editor holds came with the answer to a description and     *)
(* stands for contents it has neither loaded nor saved.                    *)
(***************************************************************************)
EXTENDS Naturals

CONSTANTS
  Ids, NoId,     \* scenario ids of the server, and the empty id
  Maps, NoMap,
  Large,         \* maps whose geometry is prepared in a worker
  Jobs, NoJob,   \* loads and map selections that can be under way together
  MaxVer,        \* bound on the versions of contents
  MaxRev,        \* bound on the revisions of a row
  Upsets         \* what may go wrong: see UpsetAssumption

ASSUME SetAssumption == NoId \notin Ids /\ NoMap \notin Maps /\ NoJob \notin Jobs
ASSUME BoundAssumption == Large \subseteq Maps /\ MaxVer \in Nat /\ MaxRev \in Nat

\* "escape": the upload dialog is closed from the keyboard during its load;
\* "leave": the page is left while a save is in flight; "edit": objects are
\* placed while a save is in flight; "build": a parsed map cannot be drawn;
\* "parse": the text of a map cannot be parsed; "reload": the page is reloaded
\* while the geometry of a chosen map is prepared.
ASSUME UpsetAssumption ==
  Upsets \subseteq {"escape", "leave", "edit", "build", "parse", "reload"}

VARIABLES
  doc,     \* [id, rev, map]: Scenario and simConfig.carla.map; revision 0: none
  scene,   \* [base, on, ver]: the entity collections
  clean,   \* savedScenarioFingerprint
  view,    \* [shown, odr]: the map drawn, and odrMapRef
  cache,   \* [name, xodr]: the map name and the map text of the repository
  loading, \* isMapLoading
  screen,  \* "clear", "busy" under the loading screen, "error"
  dialogBusy, \* loadingScene of the upload dialog
  owner,   \* [load, select, build]: the job that holds each latest token
  jobs,    \* what each load or selection waits for
  op,      \* the save or deletion in flight
  desc,    \* [pc, id, rev]: the description in flight
  unseen,  \* see above
  rows,    \* the server's rows
  ver      \* the newest version

docVars == <<doc, clean, unseen>>
vars == <<doc, scene, clean, view, cache, loading, screen, dialogBusy, owner, jobs, op, desc,
          unseen, rows, ver>>

NoScene == [base |-> NoId, on |-> NoMap, ver |-> 0]
NoRow == [rev |-> 0, base |-> NoId, on |-> NoMap, ver |-> 0, map |-> NoMap, file |-> NoMap]
Idle == [kind |-> "none", pc |-> "none", map |-> NoMap, row |-> NoRow, id |-> NoId,
         prev |-> NoMap, open |-> FALSE]
NoOp == [kind |-> "none", pc |-> "none", id |-> NoId, rev |-> 0, scene |-> NoScene,
         map |-> NoMap, file |-> NoMap, blind |-> FALSE, alive |-> FALSE]
NoDesc == [pc |-> "none", id |-> NoId, rev |-> 0]

FirstRow(id, m) ==
  [rev |-> 1, base |-> id, on |-> m, ver |-> 1, map |-> m, file |-> m]

Init ==
  /\ \E m \in Maps :
       /\ doc = [id |-> NoId, rev |-> 0, map |-> m]
       /\ clean = <<m, 0>>
       /\ view = [shown |-> m, odr |-> m]
       /\ cache = [name |-> m, xodr |-> m]
  /\ rows \in [Ids -> {NoRow} \cup {FirstRow(id, m) : id \in Ids, m \in Maps}]
  /\ \A id \in Ids : rows[id].base \in {id, NoId}
  /\ scene = NoScene
  /\ loading = FALSE
  /\ screen = "clear"
  /\ dialogBusy = FALSE
  /\ owner = [load |-> NoJob, select |-> NoJob, build |-> NoJob]
  /\ jobs = [j \in Jobs |-> Idle]
  /\ op = NoOp
  /\ desc = NoDesc
  /\ unseen = FALSE
  /\ ver = 1

-----------------------------------------------------------------------------
Stored(id) == rows[id] # NoRow
Fingerprint == <<doc.map, scene.ver>>

\* getStoredXodrName: the name in localStorage, or the scenario's map.
MapName == IF cache.name # NoMap THEN cache.name ELSE doc.map

\* isReadOnly: the upload dialog's own mutation is not part of it.
ReadOnly == loading \/ op.alive
Clickable == screen = "clear"
Free(j) == jobs[j] = Idle

\* isCurrent of handleLoad.
Current(j) == owner.load = j /\ jobs[j].open

\* Two frames pass between a map's build and its adoption; nothing is clicked
\* or left in between.
Settling == \E j \in Jobs : jobs[j].pc = "settle"

-----------------------------------------------------------------------------
(* loadFile, loadOdrMap and what follows them, as steps of job j.          *)

IsSelect(j) == jobs[j].kind \in {"select", "left"}

\* Seeded bug: the flag is kept when the selection fails.
GiveUpLocked(j, onScreen) ==
  /\ screen' = IF ~IsSelect(j) /\ Current(j) /\ onScreen = "busy" THEN "clear" ELSE onScreen
  /\ UNCHANGED loading
  /\ dialogBusy' = (dialogBusy /\ ~(jobs[j].kind = "dialog" /\ jobs[j].open))
  /\ jobs' = [jobs EXCEPT ![j] = Idle]

\* Seeded bug: a load that fails leaves its screen.
GiveUpOnScreen(j, onScreen) ==
  /\ screen' = onScreen
  /\ loading' = (loading /\ ~(IsSelect(j) /\ owner.select = j))
  /\ dialogBusy' = (dialogBusy /\ ~(jobs[j].kind = "dialog" /\ jobs[j].open))
  /\ jobs' = [jobs EXCEPT ![j] = Idle]

\* The caller learns that its map was not loaded: an error, if it is current.
GiveUp(j, onScreen) ==
  /\ screen' = IF ~IsSelect(j) /\ Current(j) /\ onScreen = "busy" THEN "clear" ELSE onScreen
  /\ loading' = (loading /\ ~(IsSelect(j) /\ owner.select = j))
  /\ dialogBusy' = (dialogBusy /\ ~(jobs[j].kind = "dialog" /\ jobs[j].open))
  /\ jobs' = [jobs EXCEPT ![j] = Idle]

\* Seeded bug: the objects stay.
BuildOver(j, job) ==
  /\ view' = [shown |-> job.map, odr |-> job.map]
  /\ jobs' = [jobs EXCEPT ![j] = [job EXCEPT !.pc = "settle"]]
  /\ UNCHANGED scene

\* buildScene: the objects are cleared, then the map is drawn.
Build(j, job) ==
  /\ scene' = NoScene
  /\ view' = [shown |-> job.map, odr |-> job.map]
  /\ jobs' = [jobs EXCEPT ![j] = [job EXCEPT !.pc = "settle"]]

BuildFails ==
  /\ "build" \in Upsets
  /\ scene' = NoScene
  /\ view' = [shown |-> NoMap, odr |-> NoMap]

\* The map text cannot be stored, or not parsed: the old scene and name stay.
Unparsed ==
  \/ view' = view
  \/ "parse" \in Upsets /\ view' = [view EXCEPT !.odr = NoMap]

\* Seeded bug: the map's name stays when the map does not parse.
ParseFailsNamed(j, job) ==
  /\ cache' = [cache EXCEPT !.name = IF IsSelect(j) THEN job.map ELSE @]
  /\ Unparsed
  /\ GiveUp(j, "error")
  /\ UNCHANGED <<scene, owner>>

ParseFails(j, job) ==
  /\ Unparsed
  /\ GiveUp(j, "error")
  /\ UNCHANGED <<scene, cache, owner>>

\* Only a map chosen by its name is stored under one; the name tells whether
\* a worker prepares the geometry.
Parsed(j, job) ==
  LET name == IF IsSelect(j) THEN job.map ELSE cache.name IN
  /\ cache' = [cache EXCEPT !.name = name]
  /\ owner' = [owner EXCEPT !.build = j]
  /\ screen' = "busy"
  /\ \/ /\ name \in Large
        /\ view' = [view EXCEPT !.odr = NoMap]
        /\ jobs' = [jobs EXCEPT ![j] = [job EXCEPT !.pc = "prepare"]]
        /\ UNCHANGED scene
     \/ /\ name \notin Large
        /\ Build(j, job)
  /\ UNCHANGED <<loading, dialogBusy>>

LoadFile(j, job) == ParseFails(j, job) \/ Parsed(j, [job EXCEPT !.prev = MapName])

RestoredName(j) == IF IsSelect(j) THEN [cache EXCEPT !.name = jobs[j].prev] ELSE cache

\* The worker answers, or fails and the main thread takes over; a superseded
\* preparation is aborted.
Prepared(j) ==
  /\ jobs[j].pc = "prepare"
  /\ \/ /\ owner.build = j
        /\ Build(j, jobs[j])
        /\ UNCHANGED <<cache, loading, screen, dialogBusy>>
     \/ /\ owner.build = j
        /\ BuildFails
        /\ cache' = RestoredName(j)
        /\ GiveUp(j, "error")
     \/ /\ owner.build # j
        /\ cache' = RestoredName(j)
        /\ GiveUp(j, screen)
        /\ UNCHANGED <<scene, view>>
  /\ UNCHANGED <<docVars, owner, op, desc, rows, ver>>

\* The built map is remembered under the name it was chosen by, if any.
Remembered(j) ==
  [name |-> IF IsSelect(j) THEN cache.name ELSE NoMap, xodr |-> jobs[j].map]

\* Seeded bug: the revision of the row is not taken over.
AdoptRowBare(j) ==
  LET row == jobs[j].row IN
  /\ doc' = [doc EXCEPT !.id = jobs[j].id, !.map = row.map]
  /\ unseen' = FALSE
  /\ cache' = [Remembered(j) EXCEPT !.name = row.map]
  /\ scene' = [base |-> row.base, on |-> row.on, ver |-> row.ver]
  /\ clean' = <<row.map, row.ver>>

\* handleLoad goes on: the row becomes the scenario that is open.
AdoptRow(j) ==
  LET row == jobs[j].row IN
  /\ doc' = [id |-> jobs[j].id, rev |-> row.rev, map |-> row.map]
  /\ unseen' = FALSE
  /\ cache' = [Remembered(j) EXCEPT !.name = row.map]
  /\ scene' = [base |-> row.base, on |-> row.on, ver |-> row.ver]
  /\ clean' = <<row.map, row.ver>>

\* Seeded bug: the draft on the new map keeps the scenario's id.
AdoptMapKeepingId(j) ==
  /\ doc' = [doc EXCEPT !.map = jobs[j].map]
  /\ unseen' = FALSE
  /\ clean' = <<jobs[j].map, scene.ver>>
  /\ cache' = Remembered(j)
  /\ UNCHANGED scene

\* handleSelectMap goes on: a new draft on the chosen map.
AdoptMap(j) ==
  /\ doc' = [id |-> NoId, rev |-> 0, map |-> jobs[j].map]
  /\ unseen' = FALSE
  /\ clean' = <<jobs[j].map, scene.ver>>
  /\ cache' = Remembered(j)
  /\ UNCHANGED scene

\* The frames after the build.
Settled(j) ==
  /\ jobs[j].pc = "settle"
  /\ \/ /\ owner.build = j
        /\ screen' = "clear"
        /\ \/ /\ IsSelect(j) /\ owner.select = j /\ AdoptMap(j)
           \/ /\ ~IsSelect(j) /\ Current(j) /\ AdoptRow(j)
           \/ /\ IF IsSelect(j) THEN owner.select # j ELSE ~Current(j)
              /\ cache' = Remembered(j)
              /\ UNCHANGED <<docVars, scene>>
        /\ loading' = (loading /\ ~(IsSelect(j) /\ owner.select = j))
        /\ dialogBusy' = (dialogBusy /\ ~(jobs[j].kind = "dialog" /\ jobs[j].open))
        /\ jobs' = [jobs EXCEPT ![j] = Idle]
     \/ /\ owner.build # j
        /\ cache' = RestoredName(j)
        /\ GiveUp(j, screen)
        /\ UNCHANGED <<docVars, scene>>
  /\ UNCHANGED <<view, owner, op, desc, rows, ver>>

-----------------------------------------------------------------------------
(* Loading a scenario.                                                     *)

Load(j, id, kind) ==
  /\ jobs' = [jobs EXCEPT ![j] = [Idle EXCEPT !.kind = kind, !.pc = "row", !.id = id,
                                               !.open = TRUE]]
  /\ owner' = [owner EXCEPT !.load = j]
  /\ screen' = "busy"

\* handleLoadOnScene of the upload dialog, which is open only while isReadOnly
\* is not set; the description it saves does not keep it from loading.
LoadOnScene(j, id) ==
  /\ Clickable /\ ~ReadOnly /\ ~dialogBusy /\ Free(j)
  /\ Load(j, id, "dialog")
  /\ dialogBusy' = TRUE
  /\ UNCHANGED <<docVars, scene, view, cache, loading, op, desc, rows, ver>>

\* handleClose of the dialog.
Escape(j) ==
  /\ "escape" \in Upsets
  /\ jobs[j].kind = "dialog" /\ jobs[j].open /\ jobs[j].pc # "settle"
  /\ jobs' = [jobs EXCEPT ![j].open = FALSE]
  /\ UNCHANGED <<docVars, scene, view, cache, loading, screen, dialogBusy, owner, op, desc, rows, ver>>

\* The scenario arrives, or the request fails.  Its map is in its file.
RowArrives(j) ==
  /\ jobs[j].pc = "row"
  /\ LET row == rows[jobs[j].id] IN
     \/ /\ Stored(jobs[j].id) /\ Current(j)
        /\ LoadFile(j, [jobs[j] EXCEPT !.row = row, !.map = row.file])
     \/ /\ GiveUp(j, screen)
        /\ UNCHANGED <<scene, view, cache, owner>>
  /\ UNCHANGED <<docVars, op, desc, rows, ver>>

-----------------------------------------------------------------------------
(* Choosing a map.  Unsaved changes are asked about before it starts.      *)

SelectMap(j, m) ==
  /\ Clickable /\ ~ReadOnly /\ Free(j)
  /\ jobs' = [jobs EXCEPT ![j] = [Idle EXCEPT !.kind = "select", !.pc = "xodr",
                                               !.map = m, !.open = TRUE]]
  /\ owner' = [load |-> NoJob, select |-> j, build |-> NoJob]
  /\ loading' = TRUE
  /\ UNCHANGED <<docVars, scene, view, cache, screen, dialogBusy, op, desc, rows, ver>>

\* fetchXodrText answers; "left" marks a selection whose page is gone.
MapArrives(j) ==
  /\ jobs[j].pc = "xodr"
  /\ \/ jobs[j].kind # "left" /\ owner.select = j /\ LoadFile(j, jobs[j])
     \/ GiveUp(j, screen) /\ UNCHANGED <<scene, view, cache, owner>>
  /\ UNCHANGED <<docVars, op, desc, rows, ver>>

-----------------------------------------------------------------------------
(* The page.                                                               *)

\* Unmounting ends what waits for the worker and outdates every token; a
\* selection still clears its flag when its map arrives.
Left(job) ==
  IF job.pc = "xodr" THEN [job EXCEPT !.kind = "left"] ELSE Idle

\* A name set before the worker was asked is taken back when it is aborted.
Preparing == {j \in Jobs : IsSelect(j) /\ jobs[j].pc = "prepare"}
LeftCaches ==
  IF Preparing = {} THEN {cache}
  ELSE {[cache EXCEPT !.name = jobs[j].prev] : j \in Preparing}

Leaves ==
  /\ ~Settling
  /\ op = NoOp \/ "leave" \in Upsets
  /\ op' = [op EXCEPT !.alive = FALSE]
  /\ dialogBusy' = FALSE
  /\ loading' = (loading /\ \E j \in Jobs : jobs[j].pc = "xodr")

\* The editor opened on a scenario: EditorScenarioBootstrap.
OpenEditor(j, id) ==
  /\ Leaves
  /\ jobs[j].pc # "xodr"
  /\ jobs' = [k \in Jobs |->
       IF k = j THEN [Idle EXCEPT !.kind = "open", !.pc = "row", !.id = id, !.open = TRUE]
       ELSE Left(jobs[k])]
  /\ owner' = [owner EXCEPT !.load = j, !.build = NoJob]
  /\ cache' \in LeftCaches
  /\ view' = [shown |-> NoMap, odr |-> NoMap]
  /\ screen' = "busy"
  /\ UNCHANGED <<docVars, scene, desc, rows, ver>>

\* Without a scenario the editor shows the text in the cache and takes over
\* the stored name; the scene is the one in the store.
ShowCached(named) ==
  /\ cache' = named
  /\ doc' = [doc EXCEPT !.map = IF named.name # NoMap THEN named.name ELSE @]
  /\ view' = [shown |-> cache.xodr, odr |-> cache.xodr]
  /\ screen' = "clear"
  /\ UNCHANGED <<scene, clean, unseen, rows, ver>>

Return ==
  /\ Leaves
  /\ jobs' = [k \in Jobs |-> Left(jobs[k])]
  /\ owner' = [owner EXCEPT !.load = NoJob, !.build = NoJob]
  /\ \E named \in LeftCaches : ShowCached(named)
  /\ UNCHANGED desc

\* The browser reloads the page: nothing survives but the persisted store
\* and localStorage.
Reload ==
  /\ ~Settling
  /\ Preparing # {} => "reload" \in Upsets
  /\ op.alive => "leave" \in Upsets
  /\ jobs' = [k \in Jobs |-> Idle]
  /\ owner' = [load |-> NoJob, select |-> NoJob, build |-> NoJob]
  /\ op' = NoOp
  /\ desc' = NoDesc
  /\ loading' = FALSE
  /\ dialogBusy' = FALSE
  /\ ShowCached(cache)

Dismiss ==
  /\ screen = "error"
  /\ screen' = "clear"
  /\ UNCHANGED <<docVars, scene, view, cache, loading, dialogBusy, owner, jobs, op, desc, rows, ver>>

-----------------------------------------------------------------------------
(* Objects.                                                                *)

CanEdit ==
  /\ Clickable /\ view.shown # NoMap
  /\ op.alive => "edit" \in Upsets

Edit ==
  /\ CanEdit /\ ver < MaxVer
  /\ ver' = ver + 1
  /\ scene' = [scene EXCEPT !.ver = ver + 1,
                            !.on = IF scene.ver = 0 \/ @ = view.shown THEN view.shown ELSE NoMap]
  /\ UNCHANGED <<docVars, view, cache, loading, screen, dialogBusy, owner, jobs, op, desc, rows>>

RemoveEverything ==
  /\ CanEdit /\ scene.ver # 0
  /\ scene' = [scene EXCEPT !.ver = 0, !.on = NoMap]
  /\ UNCHANGED <<docVars, view, cache, loading, screen, dialogBusy, owner, jobs, op, desc, rows, ver>>

-----------------------------------------------------------------------------
(* Saving.                                                                 *)

Begin(request) ==
  /\ Clickable /\ ~ReadOnly /\ op = NoOp
  /\ op' = [request EXCEPT !.pc = "sent", !.alive = TRUE]
  /\ UNCHANGED <<docVars, scene, view, cache, loading, screen, dialogBusy, owner, jobs, desc, rows, ver>>

Payload == [NoOp EXCEPT !.id = doc.id, !.rev = doc.rev, !.scene = scene,
                        !.map = doc.map, !.file = cache.xodr, !.blind = unseen]

Save == Begin([Payload EXCEPT !.kind = IF doc.id = NoId THEN "create" ELSE "patch"])
Remove == doc.id # NoId /\ Begin([Payload EXCEPT !.kind = "delete"])

\* _update_scenario's checks.
Refused(row) ==
  \/ row = NoRow
  \/ op.kind = "patch" /\
       (\/ op.rev # 0 /\ op.rev # row.rev
        \/ row.ver # 0 /\ (op.scene.ver = 0 \/ op.map # row.map))

SavedRow(id, rev) ==
  [rev |-> rev, base |-> id, on |-> op.scene.on, ver |-> op.scene.ver,
   map |-> op.map, file |-> op.file]

Answer(id, rev) == op' = [op EXCEPT !.pc = "ok", !.id = id, !.rev = rev]

ServerAnswers ==
  /\ op.pc = "sent"
  /\ \/ /\ op.kind = "create"
        /\ \E id \in Ids \ {desc.id} : \* a new id: uuid4
             /\ ~Stored(id)
             /\ rows' = [rows EXCEPT ![id] = SavedRow(id, 1)]
             /\ Answer(id, 1)
     \/ /\ op.kind = "patch" /\ ~Refused(rows[op.id]) /\ rows[op.id].rev < MaxRev
        /\ rows' = [rows EXCEPT ![op.id] = SavedRow(op.id, @.rev + 1)]
        /\ Answer(op.id, rows[op.id].rev + 1)
     \/ /\ op.kind = "delete" /\ Stored(op.id)
        /\ rows' = [rows EXCEPT ![op.id] = NoRow]
        /\ Answer(op.id, op.rev)
     \/ op' = NoOp /\ UNCHANGED rows \* failed: the editor only says so
  /\ UNCHANGED <<docVars, scene, view, cache, loading, screen, dialogBusy, owner, jobs, desc, ver>>

\* onSuccess of the mutations, then markScenarioClean.
TakeReply ==
  /\ doc' = IF op.kind = "delete" THEN [doc EXCEPT !.id = NoId]
            ELSE [doc EXCEPT !.id = op.id, !.rev = op.rev]
  /\ clean' = IF op.kind \in {"create", "patch"} THEN Fingerprint ELSE clean
  /\ unseen' = FALSE

\* The scene grows from the row it was saved to, and from none once the scenario
\* is deleted.
NewBase ==
  IF op.kind = "delete" THEN NoId
  ELSE IF scene.base = op.scene.base THEN op.id ELSE scene.base

\* The reply arrives, or was lost.
Reply ==
  /\ op.pc = "ok"
  /\ \/ TakeReply /\ scene' = [scene EXCEPT !.base = NewBase]
     \/ UNCHANGED <<docVars, scene>>
  /\ op' = NoOp
  /\ UNCHANGED <<view, cache, loading, screen, dialogBusy, owner, jobs, desc, rows, ver>>

\* Somebody else saves the scenario.
OtherSave(id) ==
  /\ Stored(id) /\ rows[id].rev < MaxRev /\ ver < MaxVer
  /\ ver' = ver + 1
  /\ rows' = [rows EXCEPT ![id].rev = @ + 1, ![id].ver = ver + 1, ![id].on = rows[id].map]
  /\ UNCHANGED <<docVars, scene, view, cache, loading, screen, dialogBusy, owner, jobs, op, desc>>

-----------------------------------------------------------------------------
(* Saving a description from the upload dialog.                            *)

\* handleSaveDescription: a patch of the description alone, without a
\* revision.  Its button waits for the description before; nothing else does.
Describe(id) ==
  /\ Clickable /\ ~ReadOnly /\ desc = NoDesc
  /\ desc' = [pc |-> "sent", id |-> id, rev |-> 0]
  /\ UNCHANGED <<docVars, scene, view, cache, loading, screen, dialogBusy, owner, jobs, op, rows, ver>>

Described ==
  /\ desc.pc = "sent"
  /\ \/ /\ Stored(desc.id) /\ rows[desc.id].rev < MaxRev
        /\ rows' = [rows EXCEPT ![desc.id].rev = @ + 1]
        /\ desc' = [desc EXCEPT !.pc = "ok", !.rev = rows[desc.id].rev + 1]
     \/ desc' = NoDesc /\ UNCHANGED rows \* failed: the editor only says so
  /\ UNCHANGED <<docVars, scene, view, cache, loading, screen, dialogBusy, owner, jobs, op, ver>>

\* onSuccess: the editor takes over the id and the revision, whatever is open.
\* (It takes over the description too, which is part of the fingerprint: its text
\* is left out, as though it were always the one that was marked clean.)
TakeDescription ==
  /\ doc' = [doc EXCEPT !.id = desc.id, !.rev = desc.rev]
  /\ unseen' = (unseen \/ desc.id # doc.id \/ desc.rev > doc.rev + 1)
  /\ UNCHANGED clean

\* The answer arrives, or was lost.
DescriptionArrives ==
  /\ desc.pc = "ok"
  /\ TakeDescription \/ UNCHANGED docVars
  /\ desc' = NoDesc
  /\ UNCHANGED <<scene, view, cache, loading, screen, dialogBusy, owner, jobs, op, rows, ver>>

-----------------------------------------------------------------------------
Work(j) == RowArrives(j) \/ MapArrives(j) \/ Prepared(j) \/ Settled(j)

Next ==
  \/ \E j \in Jobs, id \in Ids : LoadOnScene(j, id) \/ OpenEditor(j, id)
  \/ \E j \in Jobs, m \in Maps : SelectMap(j, m)
  \/ \E j \in Jobs : Work(j)
  \/ \E j \in Jobs : Escape(j)
  \/ Return \/ Reload \/ Dismiss
  \/ Edit \/ RemoveEverything
  \/ Save \/ Remove
  \/ ServerAnswers \/ Reply
  \/ \E id \in Ids : Describe(id)
  \/ Described \/ DescriptionArrives
  \/ \E id \in Ids : OtherSave(id)

\* Requests are answered or fail, workers and frames come.
Fairness ==
  /\ \A j \in Jobs : WF_vars(Work(j))
  /\ WF_vars(ServerAnswers) /\ WF_vars(Reply)
  /\ WF_vars(Described) /\ WF_vars(DescriptionArrives)

Spec == Init /\ [][Next]_vars /\ Fairness

-----------------------------------------------------------------------------
(* Properties.                                                             *)

\* A save over an existing scenario stores a scene that grew from it.  No run checks
\* this: the answer to a description makes it fail (Rebound.cfg).
EverySaveKeepsItsScenario ==
  [][\A id \in Ids :
       (op.kind = "patch" /\ op'.pc = "ok" /\ op.pc = "sent" /\ op.id = id /\ rows[id].ver # 0)
         => op.scene.base = id]_vars

\* The same, but for a save of what a description's answer has bound to an id or
\* a revision that the editor has not seen: nothing else mixes two scenarios up.
SavesKeepTheirScenario ==
  [][\A id \in Ids :
       (op.kind = "patch" /\ op'.pc = "ok" /\ op.pc = "sent" /\ op.id = id /\ rows[id].ver # 0)
         => op.scene.base = id \/ op.blind]_vars

\* Stored objects lie on the map the row names and carries.
RowsLieOnTheirMap ==
  \A id \in Ids : rows[id].ver # 0 => rows[id].on = rows[id].map /\ rows[id].file = rows[id].map

\* When the editor says "All changes saved" (EditorSaveButton) and nobody else has
\* saved, the row holds the scene on display.  No run checks this: the answer to a
\* description makes it fail (StaleDescription.cfg).
AllChangesSaved ==
  (/\ op = NoOp /\ doc.id # NoId /\ Stored(doc.id) /\ rows[doc.id].rev = doc.rev
   /\ clean = Fingerprint)
    => scene.ver = rows[doc.id].ver

\* The same, unless a description's answer brought an id or a revision that the
\* editor has not seen.
CleanMeansStored == unseen \/ AllChangesSaved

\* The flag that disables saving and the loading screen are up only while
\* something is under way that will take them down.
FlagsFollowTheWork ==
  /\ loading => \E j \in Jobs : jobs[j].kind \in {"select", "left"}
  /\ screen = "busy" => \E j \in Jobs : jobs[j].kind \in {"open", "dialog", "select"}

\* With nothing under way, a run gets the offsets of the map on display, and
\* a page that is reloaded shows that map again.
MapsAgree ==
  ((\A j \in Jobs : Free(j)) /\ view.shown # NoMap) =>
    /\ view.odr \in {view.shown}
    /\ MapName = view.shown /\ cache.xodr = view.shown /\ doc.map = view.shown

\* The loading screen goes away, unless the user opens one scenario after
\* the other or closes the dialog that loads (which leaves it up for good),
\* and the flag that disables saving is taken back.
LoadingEnds ==
  \/ []<>(screen # "busy")
  \/ []<><<\E j \in Jobs, id \in Ids : OpenEditor(j, id)>>_vars
  \/ <>(\E j \in Jobs : jobs[j].kind = "dialog" /\ ~jobs[j].open)
SavingIsEnabledAgain == loading ~> ~loading

=============================================================================
