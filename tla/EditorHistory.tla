--------------------------- MODULE EditorHistory ---------------------------
(***************************************************************************)
(* Editing a scene in the browser: the entity collections, the undo        *)
(* history with its deletion snapshots (frontend/src/store), the tracker   *)
(* that turns store changes into history entries after a pause, dragging,  *)
(* deletions by key and by selection, and the toast that offers to undo    *)
(* the last deletion.                                                      *)
(*                                                                         *)
(* "cars" stands for the collections of objects that stand alone (cars,    *)
(* RSUs, buildings, pedestrians), "parts" for those that name a car        *)
(* (waypoints, lidars).  What an object is made of is one value.           *)
(***************************************************************************)
EXTENDS Naturals, Sequences, SequencesExt

CONSTANTS
  Cars, Parts,  \* ids that nanoid() can still give to new objects
  Vals, Default, \* contents of an object, and of a new one
  NoOne,        \* the carId of an object that has none
  MaxHistory,   \* MAX_HISTORY_SIZE
  MaxOps,       \* bound on the operations of the user
  LateToasts    \* whether the toast of a deletion is used after that
                \* deletion has been undone from the keyboard

ASSUME IdAssumption == Cars \cap Parts = {} /\ NoOne \notin Cars \cup Parts
ASSUME BoundAssumption ==
  Default \in Vals /\ MaxHistory \in Nat \ {0} /\ MaxOps \in Nat /\ LateToasts \in BOOLEAN

VARIABLES
  scene,    \* [cars, parts]: sequences of [id, owner, val]
  hist,     \* [stack, cursor, deletions]: the history slice
  pending,  \* the tracker's edits not yet recorded: objects before the edit
  drag,     \* the drag under way: [id, before, attached], or NoDrag
  toast,    \* the toast on display: [snap] of a deletion, [entry], or NoToast
  used,     \* ids given out
  restored, \* whether a toast has brought an object back since the last Load
  ops       \* operations so far; names snapshots and entries

vars == <<scene, hist, pending, drag, toast, used, restored, ops>>

Colls == {"cars", "parts"}
CollOf(item) == IF item.owner = NoOne THEN "cars" ELSE "parts"

NoDrag == [id |-> NoOne, attached |-> FALSE]
NoToast == [snap |-> 0, entry |-> 0]

EmptyScene == [cars |-> <<>>, parts |-> <<>>]
EmptyHist == [stack |-> <<>>, cursor |-> 0, deletions |-> <<>>]

Init ==
  /\ scene = EmptyScene
  /\ hist = EmptyHist
  /\ pending = <<>>
  /\ drag = NoDrag
  /\ toast = NoToast
  /\ used = {}
  /\ restored = FALSE
  /\ ops = 0

-----------------------------------------------------------------------------
(* Collections.                                                            *)

IdsOf(items) == {items[i].id : i \in DOMAIN items}
Items(sc) == ToSet(sc.cars) \cup ToSet(sc.parts)
Present(sc, id) == \E x \in Items(sc) : x.id = id
TheItem(sc, id) == CHOOSE x \in Items(sc) : x.id = id

\* filter(): the elements of s at the indices of I, for every beginning of s.
Filtered(s, I) ==
  LET f[n \in 0..Len(s)] ==
        IF n = 0 THEN <<>>
        ELSE LET before == f[n - 1] IN IF n \in I THEN Append(before, s[n]) ELSE before
  IN  f
Filter(s, I) == Filtered(s, I)[Len(s)]

Without(items, ids) == Filter(items, {i \in DOMAIN items : items[i].id \notin ids})
OwnedBy(items, ids) == Filter(items, {i \in DOMAIN items : items[i].owner \in ids})
NotOwnedBy(items, ids) == Filter(items, {i \in DOMAIN items : items[i].owner \notin ids})

Patched(items, item) ==
  [i \in DOMAIN items |-> IF items[i].id = item.id THEN item ELSE items[i]]

\* Seeded bug: objects that are there already are appended again.
AppendAll(items, new) == items \o new

AppendMissing(items, new) == items \o Without(new, IdsOf(items))

\* splice() at an index of the past, cut to the present length.
SpliceIn(items, at, item) ==
  InsertAt(items, IF at > Len(items) THEN Len(items) + 1 ELSE at, item)

PatchScene(sc, item) == [sc EXCEPT ![CollOf(item)] = Patched(@, item)]

\* Seeded bug: the waypoints and lidars of a car stay.
RemoveItemsBare(sc, ids) == [c \in Colls |-> Without(sc[c], ids)]

\* Removing a car takes its waypoints and lidars along.
RemoveItems(sc, ids) ==
  [cars |-> Without(sc.cars, ids),
   parts |-> NotOwnedBy(Without(sc.parts, ids), ids)]

IndexIn(items, id) == CHOOSE i \in DOMAIN items : items[i].id = id

-----------------------------------------------------------------------------
(* History entries: the undo and redo closures as data.                    *)

\* Seeded bug: the waypoints of the car are not brought back.
RestoreSnapshotBare(sc, s) ==
  [sc EXCEPT ![CollOf(s.item)] = SpliceIn(@, s.at, s.item)]

\* restoreLastDeletion: the object at its old index, its parts at the end.
RestoreSnapshot(sc, s) ==
  IF CollOf(s.item) = "cars"
  THEN [cars |-> SpliceIn(sc.cars, s.at, s.item), parts |-> sc.parts \o s.parts]
  ELSE [sc EXCEPT !.parts = SpliceIn(@, s.at, s.item)]

\* The objects of a batch, each at its old index unless it is there.
Spliced(items, removed) ==
  LET f[n \in 0..Len(removed)] ==
        IF n = 0 THEN items
        ELSE LET before == f[n - 1]
                 r == removed[n]
             IN  IF r.item.id \in IdsOf(before) THEN before ELSE SpliceIn(before, r.at, r.item)
  IN  f
SpliceMissing(items, removed) == Spliced(items, removed)[Len(removed)]

PatchVals(items, vals) ==
  [i \in DOMAIN items |->
     IF items[i].id \in DOMAIN vals
     THEN [items[i] EXCEPT !.val = vals[items[i].id]] ELSE items[i]]

Apply(op, sc, deletions) ==
  CASE op.kind = "remove"  -> [sc EXCEPT ![op.coll] = Without(@, op.ids)]
    [] op.kind = "restore" -> [sc EXCEPT ![op.coll] = AppendMissing(@, op.items)]
    [] op.kind = "patch"   -> PatchScene(sc, op.item)
    [] op.kind = "unsnap"  -> IF op.snap \in DOMAIN deletions
                              THEN RestoreSnapshot(sc, deletions[op.snap]) ELSE sc
    [] op.kind = "delete"  -> RemoveItems(sc, {op.id})
    [] op.kind = "cut"     -> [c \in Colls |-> Without(sc[c], op.ids)]
    [] op.kind = "splice"  -> [c \in Colls |-> SpliceMissing(sc[c], op.removed[c])]
    [] op.kind = "vals"    -> [c \in Colls |-> PatchVals(sc[c], op.vals)]

-----------------------------------------------------------------------------
(* pushHistoryEntry.                                                       *)

Snaps(stack) == {stack[i].snap : i \in DOMAIN stack} \ {0}
RestrictTo(f, S) == [x \in DOMAIN f \cap S |-> f[x]]

LastEntries(stack) ==
  SubSeq(stack, IF Len(stack) > MaxHistory THEN Len(stack) - MaxHistory + 1 ELSE 1,
         Len(stack))

\* Undone entries go, the oldest beyond the limit go, and with an entry the
\* snapshot only it refers to.
PushAll(h, entries) ==
  LET kept == LastEntries(SubSeq(h.stack, 1, h.cursor) \o entries)
      gone == Snaps(h.stack) \ Snaps(kept) IN
  IF entries = <<>> THEN h
  ELSE [stack |-> kept,
        cursor |-> Len(kept),
        deletions |-> RestrictTo(h.deletions, DOMAIN h.deletions \ gone)]

Push(h, e) == PushAll(h, <<e>>)

Entry(undo, redo) == [undo |-> undo, redo |-> redo, snap |-> 0, entry |-> 0]

PatchOp(item) == [kind |-> "patch", item |-> item]

\* commit() of the tracker, and of a finished drag.
Changed(sc, before) == Present(sc, before.id) /\ TheItem(sc, before.id) # before
EditEntry(sc, before) == Entry(PatchOp(before), PatchOp(TheItem(sc, before.id)))

Record(h, sc, before) == IF Changed(sc, before) THEN Push(h, EditEntry(sc, before)) ELSE h

\* flushPendingHistory: cars first, each collection in the order of the edits.
Flushed(h, sc) ==
  LET inColl(c) == Filter(pending, {i \in DOMAIN pending :
                                     CollOf(pending[i]) = c /\ Changed(sc, pending[i])})
      edits == inColl("cars") \o inColl("parts")
  IN  PushAll(h, [i \in DOMAIN edits |-> EditEntry(sc, edits[i])])

-----------------------------------------------------------------------------
(* The tracker's view of a change from scene s to scene t.                 *)

Added(s, t) == Without(t, IdsOf(s))

PushAdded(h, c, added) ==
  IF added = <<>> THEN h
  ELSE Push(h, Entry([kind |-> "remove", coll |-> c, ids |-> IdsOf(added)],
                     [kind |-> "restore", coll |-> c, items |-> added]))

TrackAdded(h, s, t) ==
  PushAdded(PushAdded(h, "cars", Added(s.cars, t.cars)),
            "parts", Added(s.parts, t.parts))

\* The toast's subscription closes it when what it would undo is gone.
StillValid(h, shown) ==
  /\ shown.snap # 0 => shown.snap \in DOMAIN h.deletions
  /\ shown.entry # 0 => (h.cursor > 0 /\ h.stack[h.cursor].entry = shown.entry)

SetHist(h, shown) ==
  /\ hist' = h
  /\ toast' = IF StillValid(h, shown) THEN shown ELSE NoToast

-----------------------------------------------------------------------------
(* Adding and editing.                                                     *)

Resting == drag = NoDrag

\* A click or a double click in the scene.
Add(item) ==
  /\ Resting
  /\ item.id \notin used /\ ops < MaxOps
  /\ LET c == CollOf(item)
         t == [scene EXCEPT ![c] = Append(@, item)] IN
     /\ scene' = t
     /\ SetHist(TrackAdded(hist, scene, t), toast)
  /\ used' = used \cup {item.id}
  /\ ops' = ops + 1
  /\ UNCHANGED <<pending, drag, restored>>

AddCar(id) == Add([id |-> id, owner |-> NoOne, val |-> Default])

AddPart(id, car) ==
  /\ Present(scene, car)
  /\ Add([id |-> id, owner |-> car, val |-> Default])

\* The object as it was before the first of several quick edits.
Remember(before) ==
  IF before.id \in IdsOf(pending) THEN pending ELSE Append(pending, before)

\* The duplicate button: a copy with a new id, beside the original.
Duplicate(id, original) ==
  /\ Present(scene, original)
  /\ id \in Cars <=> original \in Cars
  /\ Add([TheItem(scene, original) EXCEPT !.id = id])

\* A field of the properties panel.
Edit(id, val) ==
  /\ Resting
  /\ Present(scene, id) /\ ops < MaxOps
  /\ LET before == TheItem(scene, id) IN
     /\ before.val # val
     /\ scene' = PatchScene(scene, [before EXCEPT !.val = val])
     /\ pending' = Remember(before)
  /\ ops' = ops + 1
  /\ UNCHANGED <<hist, drag, toast, used, restored>>

\* HISTORY_COALESCE_MS after the last edit of the object.
EditSettles(i) ==
  /\ SetHist(Record(hist, scene, pending[i]), toast)
  /\ pending' = RemoveAt(pending, i)
  /\ UNCHANGED <<scene, drag, used, restored, ops>>

-----------------------------------------------------------------------------
(* Dragging with the transform controls.  The tracker looks away from the  *)
(* start of a drag until the frame after its end.                          *)

DragStart(id) ==
  /\ Resting
  /\ Present(scene, id) /\ ops < MaxOps
  /\ drag' = [id |-> id, before |-> TheItem(scene, id), attached |-> TRUE]
  /\ ops' = ops + 1
  /\ UNCHANGED <<scene, hist, pending, toast, used, restored>>

DragMove(val) ==
  /\ ~Resting
  /\ drag.attached /\ Present(scene, drag.id)
  /\ scene' = PatchScene(scene, [TheItem(scene, drag.id) EXCEPT !.val = val])
  /\ UNCHANGED <<hist, pending, drag, toast, used, restored, ops>>

\* Seeded bug: the entry keeps only where the object came from.
RecordMoveBlind(h, sc, before) == Push(h, Entry(PatchOp(before), PatchOp(before)))

RecordMove(h, sc, before) == Record(h, sc, before)

DragEnd ==
  /\ ~Resting
  /\ SetHist(RecordMove(hist, scene, drag.before), toast)
  /\ drag' = NoDrag
  /\ UNCHANGED <<scene, pending, used, restored, ops>>

Detached == IF Resting THEN NoDrag ELSE [drag EXCEPT !.attached = FALSE]

-----------------------------------------------------------------------------
(* Deletions.                                                              *)

Snapshot(sc, id) ==
  LET item == TheItem(sc, id) IN
  [item |-> item,
   at |-> IndexIn(sc[CollOf(item)], id),
   parts |-> OwnedBy(sc.parts, {id})]

\* The Delete key on the attached object: snapshot and entry, then removal.
Delete(id) ==
  /\ Present(scene, id)
  /\ Resting \/ (drag.attached /\ drag.id = id)
  /\ ops < MaxOps
  /\ LET snap == ops + 1
         e == [undo |-> [kind |-> "unsnap", snap |-> snap],
               redo |-> [kind |-> "delete", id |-> id],
               snap |-> snap, entry |-> 0]
         h == [hist EXCEPT !.deletions =
                 [n \in DOMAIN @ \cup {snap} |->
                    IF n = snap THEN Snapshot(scene, id) ELSE @[n]]] IN
     SetHist(Push(h, e), [snap |-> snap, entry |-> 0])
  /\ scene' = RemoveItems(scene, {id})
  /\ drag' = Detached
  /\ ops' = ops + 1
  /\ UNCHANGED <<pending, used, restored>>

\* The objects to remove, each with its index, in the order of the collection.
Removed(items, ids) ==
  LET indexed == [i \in DOMAIN items |-> [item |-> items[i], at |-> i]] IN
  Filter(indexed, {i \in DOMAIN items : items[i].id \in ids \/ items[i].owner \in ids})

\* Delete selected, from the tree or with several objects selected.
DeleteSelected(ids) ==
  /\ Resting
  /\ ops < MaxOps
  /\ LET removed == [c \in Colls |-> Removed(scene[c], ids)]
         gone == {r.item.id : r \in ToSet(removed["cars"]) \cup ToSet(removed["parts"])}
         cut == [kind |-> "cut", ids |-> gone]
         e == [undo |-> [kind |-> "splice", removed |-> removed],
               redo |-> cut, snap |-> 0, entry |-> ops + 1] IN
     /\ SetHist(Push(Flushed(hist, scene), e), [snap |-> 0, entry |-> ops + 1])
     /\ scene' = Apply(cut, scene, <<>>)
  /\ pending' = <<>>
  /\ ops' = ops + 1
  /\ UNCHANGED <<drag, used, restored>>

\* One field of all selected objects.
EditSelected(ids, val) ==
  /\ Resting /\ ops < MaxOps
  /\ LET changed == {x \in Items(scene) : x.id \in ids /\ x.val # val}
         changedIds == {x.id : x \in changed}
         redo == [kind |-> "vals", vals |-> [id \in changedIds |-> val]]
         undo == [kind |-> "vals",
                  vals |-> [id \in changedIds |-> TheItem(scene, id).val]] IN
     /\ changed # {}
     /\ SetHist(Push(Flushed(hist, scene), Entry(undo, redo)), toast)
     /\ scene' = Apply(redo, scene, <<>>)
  /\ pending' = <<>>
  /\ ops' = ops + 1
  /\ UNCHANGED <<drag, used, restored>>

-----------------------------------------------------------------------------
(* Undo and redo.                                                          *)

\* The store's undo(), which the toast of a batch calls directly.
UndoTop(h, shown) ==
  /\ h.cursor > 0
  /\ scene' = Apply(h.stack[h.cursor].undo, scene, h.deletions)
  /\ SetHist([h EXCEPT !.cursor = @ - 1], shown)

\* Seeded bug: the entry undone last is done again instead of the next one.
RedoNextOff(h) ==
  /\ h.cursor < Len(h.stack)
  /\ scene' = Apply(h.stack[Len(h.stack)].redo, scene, h.deletions)
  /\ SetHist([h EXCEPT !.cursor = @ + 1], toast)

RedoNext(h) ==
  /\ h.cursor < Len(h.stack)
  /\ scene' = Apply(h.stack[h.cursor + 1].redo, scene, h.deletions)
  /\ SetHist([h EXCEPT !.cursor = @ + 1], toast)

\* Ctrl+Z, also during a drag.
Undo ==
  /\ UndoTop(Flushed(hist, scene), toast)
  /\ pending' = <<>>
  /\ drag' = Detached
  /\ UNCHANGED <<used, restored, ops>>

Redo ==
  /\ RedoNext(Flushed(hist, scene))
  /\ pending' = <<>>
  /\ drag' = Detached
  /\ UNCHANGED <<used, restored, ops>>

\* The toast of a selection: undo() without a flush.
ToastUndo ==
  /\ Resting
  /\ toast.entry # 0
  /\ UndoTop(hist, NoToast)
  /\ UNCHANGED <<pending, drag, used, restored, ops>>

EntryOf(h, snap) == CHOOSE i \in DOMAIN h.stack : h.stack[i].snap = snap

\* Seeded bug: the snapshot goes, the entry stays.
ForgetSnapshot(h, snap) ==
  [h EXCEPT !.deletions = RestrictTo(@, DOMAIN @ \ {snap})]

\* restoreLastDeletion without preserveHistoryEntry forgets the entry.
Forget(h, snap) ==
  LET at == EntryOf(h, snap) IN
  IF snap \notin Snaps(h.stack) THEN h
  ELSE [stack |-> RemoveAt(h.stack, at),
        cursor |-> IF at <= h.cursor THEN h.cursor - 1 ELSE h.cursor,
        deletions |-> RestrictTo(h.deletions, DOMAIN h.deletions \ {snap})]

Undone(h, snap) == \E i \in DOMAIN h.stack : i > h.cursor /\ h.stack[i].snap = snap

\* The toast of a single deletion.  The tracker sees the objects come back
\* as new ones.
ToastRestore ==
  /\ Resting
  /\ toast.snap # 0
  /\ (LateToasts \/ ~Undone(hist, toast.snap))
  /\ LET t == RestoreSnapshot(scene, hist.deletions[toast.snap]) IN
     /\ scene' = t
     /\ SetHist(TrackAdded(Forget(hist, toast.snap), scene, t), NoToast)
  /\ restored' = TRUE
  /\ UNCHANGED <<pending, drag, used, ops>>

ToastCloses ==
  /\ toast # NoToast
  /\ toast' = NoToast
  /\ UNCHANGED <<scene, hist, pending, drag, used, restored, ops>>

\* handleLoad: another scenario replaces the scene and its history.  Its reply
\* may arrive during a drag.
Load(new) ==
  /\ ops < MaxOps
  /\ IdsOf(new) \cap used = {}
  /\ scene' = [cars |-> new, parts |-> <<>>]
  /\ SetHist(EmptyHist, toast)
  /\ used' = used \cup IdsOf(new)
  /\ restored' = FALSE
  /\ ops' = ops + 1
  /\ UNCHANGED <<pending, drag>>

-----------------------------------------------------------------------------
Contents == {<<>>} \cup {<<[id |-> id, owner |-> NoOne, val |-> Default]>> : id \in Cars}

SceneIds == {x.id : x \in Items(scene)}

Next ==
  \/ \E id \in Cars : AddCar(id)
  \/ \E id \in Parts, car \in Cars : AddPart(id, car)
  \/ \E id \in Cars \cup Parts, original \in SceneIds : Duplicate(id, original)
  \/ \E id \in SceneIds, v \in Vals : Edit(id, v)
  \/ \E i \in DOMAIN pending : EditSettles(i)
  \/ \E id \in SceneIds : DragStart(id)
  \/ \E v \in Vals : DragMove(v)
  \/ DragEnd
  \/ \E id \in SceneIds : Delete(id)
  \/ \E ids \in (SUBSET SceneIds) \ {{}} : DeleteSelected(ids)
  \/ \E ids \in (SUBSET SceneIds) \ {{}}, v \in Vals : EditSelected(ids, v)
  \/ Undo
  \/ Redo
  \/ ToastUndo
  \/ ToastRestore
  \/ ToastCloses
  \/ \E new \in Contents : Load(new)

Spec == Init /\ [][Next]_vars

-----------------------------------------------------------------------------
(* Properties.                                                             *)

\* No two objects of the scene have one id, whatever is undone, redone or
\* restored and in whichever order.
UniqueIds ==
  \A c \in Colls : \A i, j \in DOMAIN scene[c] :
    scene[c][i].id = scene[c][j].id => i = j

\* The snapshots kept are those the entries refer to: every deletion of the
\* stack can be undone and redone, and none is remembered for ever.
SnapshotsMatchEntries == Snaps(hist.stack) = DOMAIN hist.deletions

\* A waypoint or lidar belongs to a car of the scene.  A toast's restoration
\* is recorded as an addition, so undoing past it leaves a waypoint alone.
NoOrphans == ~restored => \A x \in ToSet(scene.parts) : Present(scene, x.owner)

\* The scene after the n newest entries were undone.
UndoNewest(h, sc) ==
  LET f[n \in 0..h.cursor] ==
        IF n = 0 THEN sc ELSE Apply(h.stack[h.cursor + 1 - n].undo, f[n - 1], h.deletions)
  IN  f

SameIds(s, t) ==
  \A c \in Colls : IdsOf(s[c]) = IdsOf(t[c]) /\ Len(s[c]) = Len(t[c])

\* A step that records what it does to the scene is taken back, contents
\* included, by as many undos as it made entries.
Recorded ==
  /\ scene' # scene
  /\ hist'.stack # hist.stack
  /\ hist'.stack # <<>> /\ hist'.cursor = Len(hist'.stack)
StepsCanBeUndone ==
  [][Recorded => \E n \in 1..hist'.cursor :
       \A c \in Colls :
         ToSet(UndoNewest(hist', scene')[n][c]) = ToSet(scene[c])]_vars

\* Doing the newest entry again, right after it was recorded, changes nothing:
\* an entry keeps where its step has led, not some other state.
EntriesMatchTheScene ==
  [][(hist'.stack # hist.stack /\ hist'.stack # <<>> /\ hist'.cursor = Len(hist'.stack)) =>
       \A c \in Colls :
         ToSet(Apply(Last(hist'.stack).redo, scene', hist'.deletions)[c])
           = ToSet(scene'[c])]_vars

\* What an undo takes away or brings back, the redo that follows puts right,
\* unless a toast has recorded objects a second time.
Undid ==
  /\ hist'.cursor < Len(hist'.stack)
  /\ hist'.cursor < hist.cursor \/ hist'.stack # hist.stack
  /\ ~SameIds(scene', scene)
UndoneStepsComeBack ==
  [][Undid /\ ~restored =>
       SameIds(Apply(hist'.stack[hist'.cursor + 1].redo, scene', hist'.deletions),
               scene)]_vars

=============================================================================
