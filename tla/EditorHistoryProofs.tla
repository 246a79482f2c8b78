------------------------- MODULE EditorHistoryProofs -------------------------
(***************************************************************************)
(* Proofs about EditorHistory for any objects, any bound on the history and *)
(* any number of operations: snapshots and entries agree, and, when no toast *)
(* outlives its deletion, ids stay unique, parts keep their cars, recorded  *)
(* steps can be taken back, and what was undone can be done again.         *)
(***************************************************************************)
EXTENDS EditorHistoryLemmas

-----------------------------------------------------------------------------
(* Every snapshot has its entry.                                           *)

\* Forgetting the entry of a snapshot.
LEMMA ForgetIs ==
  ASSUME NEW h, NEW snap, IsSeq(h.stack), snap \in Snaps(h.stack)
  PROVE LET at == EntryOf(h, snap) IN
        /\ at \in 1..Len(h.stack) /\ h.stack[at].snap = snap /\ snap # 0
        /\ Forget(h, snap) =
             [stack |-> RemoveAt(h.stack, at),
              cursor |-> IF at <= h.cursor THEN h.cursor - 1 ELSE h.cursor,
              deletions |-> RestrictTo(h.deletions, DOMAIN h.deletions \ {snap})]
<1>1. DOMAIN h.stack = 1..Len(h.stack)
  BY DEF IsSeq
<1>2. \E i \in DOMAIN h.stack : h.stack[i].snap = snap
  BY DEF Snaps
<1>3. EntryOf(h, snap) \in DOMAIN h.stack /\ h.stack[EntryOf(h, snap)].snap = snap
  BY <1>2 DEF EntryOf
<1>4. snap # 0
  BY DEF Snaps
<1> QED
  BY <1>1, <1>3, <1>4 DEF Forget

\* Forgetting an entry forgets its snapshot.
LEMMA ForgetSnaps ==
  ASSUME NEW h, NEW snap, NEW top \in Nat, SnapsOk(h, top)
  PROVE SnapsOk(Forget(h, snap), top)
<1>1. CASE snap \notin Snaps(h.stack)
  BY <1>1 DEF Forget
<1>2. CASE snap \in Snaps(h.stack)
  <2> DEFINE at == EntryOf(h, snap)
             r == Forget(h, snap)
             n == Len(h.stack)
  <2>1. /\ at \in 1..n /\ h.stack[at].snap = snap /\ snap # 0
        /\ r = [stack |-> RemoveAt(h.stack, at),
                cursor |-> IF at <= h.cursor THEN h.cursor - 1 ELSE h.cursor,
                deletions |-> RestrictTo(h.deletions, DOMAIN h.deletions \ {snap})]
    BY <1>2, ForgetIs DEF SnapsOk
  <2>2. n \in Nat /\ DOMAIN h.stack = 1..n /\ h.cursor \in 0..n
    BY DEF SnapsOk, IsSeq
  <2>3. /\ r.stack \in Seq(ToSet(h.stack)) /\ Len(r.stack) = n - 1
        /\ \A k \in 1..(n - 1) : r.stack[k] = IF k < at THEN h.stack[k] ELSE h.stack[k + 1]
    BY <2>1, <2>2, RemoveAtSet DEF SnapsOk, IsSeq
  <2> HIDE DEF at, r, n
  <2>4. r.cursor \in 0..Len(r.stack) /\ IsHist(r) /\ IsSeq(r.stack)
    <3>1. r.cursor \in 0..(n - 1)
      BY <2>1, <2>2
    <3> QED BY <2>1, <2>3, <3>1, SeqIsSeq DEF IsHist
  <2> DEFINE old(k) == IF k < at THEN k ELSE k + 1
  <2>5. \A k \in 1..(n - 1) : old(k) \in 1..n /\ old(k) # at
    BY <2>1, <2>2
  <2>6. \A k, l \in 1..(n - 1) : old(k) = old(l) => k = l
    BY <2>1, <2>2
  <2>7. \A k \in 1..(n - 1) : r.stack[k] = h.stack[old(k)]
    BY <2>3
  <2>8. \A k \in 1..n : k # at => \E l \in 1..(n - 1) : old(l) = k
    <3> SUFFICES ASSUME NEW k \in 1..n, k # at PROVE \E l \in 1..(n - 1) : old(l) = k
      OBVIOUS
    <3>1. CASE k < at
      <4>1. k \in 1..(n - 1) /\ old(k) = k
        BY <2>1, <2>2, <3>1
      <4> QED BY <4>1
    <3>2. CASE ~(k < at)
      <4>1. k - 1 \in 1..(n - 1) /\ old(k - 1) = k
        BY <2>1, <2>2, <3>2
      <4> QED BY <4>1
    <3> QED BY <3>1, <3>2
  <2> HIDE DEF old
  <2>9. \A i, j \in 1..n : h.stack[i].snap = h.stack[j].snap /\ h.stack[i].snap # 0 => i = j
    BY DEF SnapsOk, n
  <2>10. \A i \in 1..n : h.stack[i].snap \in 0..top
    BY DEF SnapsOk, n
  <2>11. \A k \in 1..(n - 1) : r.stack[k].snap \in 0..top
    BY <2>5, <2>7, <2>10
  <2>12. \A k, l \in 1..(n - 1) : r.stack[k].snap = r.stack[l].snap /\ r.stack[k].snap # 0 => k = l
    BY <2>5, <2>6, <2>7, <2>9
  <2>13. DOMAIN r.stack = 1..(n - 1)
    BY <2>3
  <2>14. Snaps(r.stack) \subseteq Snaps(h.stack) \ {snap}
    <3> SUFFICES ASSUME NEW k \in 1..(n - 1), r.stack[k].snap # 0
                 PROVE r.stack[k].snap \in Snaps(h.stack) \ {snap}
      BY <2>13 DEF Snaps
    <3>1. r.stack[k].snap \in Snaps(h.stack)
      BY <2>2, <2>5, <2>7 DEF Snaps
    <3>2. r.stack[k].snap # snap
      BY <2>1, <2>5, <2>7, <2>9
    <3> QED BY <3>1, <3>2
  <2>15. Snaps(h.stack) \ {snap} \subseteq Snaps(r.stack)
    <3> SUFFICES ASSUME NEW x \in Snaps(h.stack) \ {snap} PROVE x \in Snaps(r.stack)
      OBVIOUS
    <3>1. PICK i \in 1..n : h.stack[i].snap = x
      BY <2>2 DEF Snaps
    <3>2. i # at /\ x # 0
      BY <2>1, <3>1 DEF Snaps
    <3>3. PICK l \in 1..(n - 1) : old(l) = i
      BY <2>8, <3>2
    <3>4. r.stack[l].snap = x
      BY <2>7, <3>1, <3>3
    <3> QED BY <2>13, <3>2, <3>4 DEF Snaps
  <2>16. DOMAIN r.deletions = DOMAIN h.deletions \ {snap}
    BY <2>1 DEF RestrictTo
  <2>17. Snaps(r.stack) = DOMAIN r.deletions
    BY <2>14, <2>15, <2>16 DEF SnapsOk
  <2> QED BY <2>3, <2>4, <2>11, <2>12, <2>17 DEF SnapsOk, r
<1> QED
  BY <1>1, <1>2

\* Snapshots and entries agree: inductive.
SnapInv == ops \in Nat /\ SnapsOk(hist, ops) /\ IsSeq(pending)

\* The empty sequence is one.
LEMMA EmptyIsSeq == IsSeq(<<>>)
  BY DEF IsSeq

\* The empty history needs no snapshot.
LEMMA EmptySnaps ==
  ASSUME NEW top \in Nat
  PROVE SnapsOk(EmptyHist, top)
BY EmptyIsSeq DEF SnapsOk, EmptyHist, IsHist, Snaps

\* It holds at the start.
LEMMA SnapInit == Init => SnapInv
BY EmptyIsSeq, EmptySnaps DEF Init, SnapInv

\* Every step keeps it.
LEMMA SnapStep == SnapInv /\ [Next]_vars => SnapInv'
<1> SUFFICES ASSUME SnapInv, [Next]_vars PROVE SnapInv'
  OBVIOUS
<1>0. ops \in Nat /\ ops + 1 \in Nat /\ SnapsOk(hist, ops) /\ SnapsOk(hist, ops + 1) /\ IsSeq(pending)
  BY SnapsGrow DEF SnapInv
<1>1. ASSUME NEW id \in Cars, AddCar(id) PROVE SnapInv'
  BY <1>0, <1>1, TrackAddedSnaps DEF AddCar, Add, SetHist, SnapInv
<1>2. ASSUME NEW id \in Parts, NEW car \in Cars, AddPart(id, car) PROVE SnapInv'
  BY <1>0, <1>2, TrackAddedSnaps DEF AddPart, Add, SetHist, SnapInv
<1>3. ASSUME NEW id \in Cars \cup Parts, NEW original \in SceneIds, Duplicate(id, original) PROVE SnapInv'
  BY <1>0, <1>3, TrackAddedSnaps DEF Duplicate, Add, SetHist, SnapInv
<1>4. ASSUME NEW id \in SceneIds, NEW v \in Vals, Edit(id, v) PROVE SnapInv'
  <2>1. \A before : IsSeq(Remember(before))
    <3> TAKE before
    <3>1. CASE before.id \in IdsOf(pending)
      BY <1>0, <3>1 DEF Remember
    <3>2. CASE before.id \notin IdsOf(pending)
      <4>1. pending \in Seq(ToSet(pending) \cup {before})
        BY <1>0, SeqMonotonic DEF IsSeq
      <4>2. Append(pending, before) \in Seq(ToSet(pending) \cup {before})
        BY <4>1
      <4> QED BY <3>2, <4>2, SeqIsSeq DEF Remember
    <3> QED BY <3>1, <3>2
  <2> QED BY <1>0, <1>4, <2>1 DEF Edit, SnapInv
<1>5. ASSUME NEW i \in DOMAIN pending, EditSettles(i) PROVE SnapInv'
  <2>1. IsSeq(RemoveAt(pending, i))
    BY <1>0, RemoveAtSet, SeqIsSeq DEF IsSeq
  <2> QED BY <1>0, <1>5, <2>1, RecordSnaps DEF EditSettles, SetHist, SnapInv
<1>6. ASSUME NEW id \in SceneIds, DragStart(id) PROVE SnapInv'
  BY <1>0, <1>6 DEF DragStart, SnapInv
<1>7. ASSUME NEW v \in Vals, DragMove(v) PROVE SnapInv'
  BY <1>0, <1>7 DEF DragMove, SnapInv
<1>8. CASE DragEnd
  BY <1>0, <1>8, RecordSnaps DEF DragEnd, RecordMove, SetHist, SnapInv
<1>9. ASSUME NEW id \in SceneIds, Delete(id) PROVE SnapInv'
  <2> DEFINE e == [undo |-> [kind |-> "unsnap", snap |-> ops + 1],
                   redo |-> [kind |-> "delete", id |-> id],
                   snap |-> ops + 1, entry |-> 0]
             h == [hist EXCEPT !.deletions =
                 [n \in DOMAIN @ \cup {ops + 1} |->
                    IF n = ops + 1 THEN Snapshot(scene, id) ELSE @[n]]]
  <2>1. hist' = Push(h, e) /\ ops' = ops + 1 /\ pending' = pending
    BY <1>9 DEF Delete, SetHist
  <2>2. h.stack = hist.stack /\ h.cursor = hist.cursor /\ IsHist(h)
        /\ DOMAIN h.deletions = DOMAIN hist.deletions \cup {ops + 1}
    BY <1>0 DEF SnapsOk, IsHist
  <2>3. IsSeq(<<e>>) /\ Len(<<e>>) = 1 /\ <<e>>[1].snap = ops + 1 /\ <<e>> # <<>>
    BY OneSet, SeqIsSeq
  <2>4. \A i \in 1..1 : i = 1
    OBVIOUS
  <2> HIDE DEF h, e
  <2>5. NewSnap(ops + 1, ops, ops + 1)
    BY DEF NewSnap
  <2>6. DOMAIN h.deletions = Snaps(h.stack) \cup ({ops + 1} \ {0})
    BY <1>0, <2>2 DEF SnapsOk
  <2>7. /\ IsHist(h) /\ IsSeq(h.stack) /\ h.cursor \in 0..Len(h.stack)
        /\ \A i \in 1..Len(h.stack) : h.stack[i].snap \in 0..ops
        /\ \A i, j \in 1..Len(h.stack) : h.stack[i].snap = h.stack[j].snap /\ h.stack[i].snap # 0 => i = j
    BY <1>0, <2>2 DEF SnapsOk
  <2>8. SnapsOk(PushAll(h, <<e>>), ops + 1)
    BY <1>0, <2>3, <2>4, <2>5, <2>6, <2>7, PushKeepsSnaps
  <2> QED BY <1>0, <2>1, <2>8 DEF Push, SnapInv
<1>10. ASSUME NEW ids \in (SUBSET SceneIds) \ {{}}, DeleteSelected(ids) PROVE SnapInv'
  <2>1. SnapsOk(Flushed(hist, scene), ops + 1)
    BY <1>0, FlushedSnaps
  <2>2. \A u, r, n : [undo |-> u, redo |-> r, snap |-> 0, entry |-> n].snap = 0
    OBVIOUS
  <2>3. \E e : e.snap = 0 /\ hist' = Push(Flushed(hist, scene), e) /\ pending' = <<>> /\ ops' = ops + 1
    BY <1>10, <2>2 DEF DeleteSelected, SetHist
  <2> QED BY <1>0, <2>1, <2>3, PushOneSnaps, EmptyIsSeq DEF SnapInv
<1>11. ASSUME NEW ids \in (SUBSET SceneIds) \ {{}}, NEW v \in Vals, EditSelected(ids, v) PROVE SnapInv'
  <2>1. SnapsOk(Flushed(hist, scene), ops + 1)
    BY <1>0, FlushedSnaps
  <2>2. \A u, r : Entry(u, r).snap = 0
    BY DEF Entry
  <2>3. \E e : e.snap = 0 /\ hist' = Push(Flushed(hist, scene), e) /\ pending' = <<>> /\ ops' = ops + 1
    BY <1>11, <2>2 DEF EditSelected, SetHist
  <2> QED BY <1>0, <2>1, <2>3, PushOneSnaps, EmptyIsSeq DEF SnapInv
<1>12. CASE Undo
  <2> DEFINE h == Flushed(hist, scene)
  <2>1. SnapsOk(h, ops)
    BY <1>0, FlushedSnaps
  <2>2. hist' = [h EXCEPT !.cursor = @ - 1] /\ h.cursor > 0 /\ pending' = <<>> /\ ops' = ops
    BY <1>12 DEF Undo, UndoTop, SetHist
  <2> HIDE DEF h
  <2>3. h.cursor - 1 \in 0..Len(h.stack)
    BY <2>1, <2>2 DEF SnapsOk, IsSeq
  <2>4. hist' = [h EXCEPT !.cursor = h.cursor - 1]
    BY <2>2
  <2> QED BY <1>0, <2>1, <2>2, <2>3, <2>4, CursorSnaps, EmptyIsSeq DEF SnapInv
<1>13. CASE Redo
  <2> DEFINE h == Flushed(hist, scene)
  <2>1. SnapsOk(h, ops)
    BY <1>0, FlushedSnaps
  <2>2. hist' = [h EXCEPT !.cursor = @ + 1] /\ h.cursor < Len(h.stack) /\ pending' = <<>> /\ ops' = ops
    BY <1>13 DEF Redo, RedoNext, SetHist
  <2> HIDE DEF h
  <2>3. h.cursor + 1 \in 0..Len(h.stack)
    BY <2>1, <2>2 DEF SnapsOk, IsSeq
  <2>4. hist' = [h EXCEPT !.cursor = h.cursor + 1]
    BY <2>2
  <2> QED BY <1>0, <2>1, <2>2, <2>3, <2>4, CursorSnaps, EmptyIsSeq DEF SnapInv
<1>14. CASE ToastUndo
  <2>1. hist' = [hist EXCEPT !.cursor = hist.cursor - 1] /\ hist.cursor > 0 /\ UNCHANGED <<pending, ops>>
    BY <1>14 DEF ToastUndo, UndoTop, SetHist
  <2>2. hist.cursor - 1 \in 0..Len(hist.stack)
    BY <1>0, <2>1 DEF SnapsOk, IsSeq
  <2> QED BY <1>0, <2>1, <2>2, CursorSnaps DEF SnapInv
<1>15. CASE ToastRestore
  BY <1>0, <1>15, ForgetSnaps, TrackAddedSnaps DEF ToastRestore, SetHist, SnapInv
<1>16. CASE ToastCloses
  BY <1>0, <1>16 DEF ToastCloses, SnapInv
<1>17. ASSUME NEW new \in Contents, Load(new) PROVE SnapInv'
  BY <1>0, <1>17, EmptySnaps DEF Load, SetHist, SnapInv
<1>18. CASE UNCHANGED vars
  BY <1>0, <1>18 DEF vars, SnapInv
<1> QED
  BY <1>1, <1>2, <1>3, <1>4, <1>5, <1>6, <1>7, <1>8, <1>9, <1>10, <1>11, <1>12, <1>13,
     <1>14, <1>15, <1>16, <1>17, <1>18 DEF Next

\* The snapshots kept are those the entries refer to.
THEOREM SnapshotsAlwaysMatch == Spec => []SnapshotsMatchEntries
<1>1. SnapInv => SnapshotsMatchEntries
  BY DEF SnapInv, SnapsOk, SnapshotsMatchEntries
<1> QED
  BY SnapInit, SnapStep, <1>1, PTL DEF Spec

-----------------------------------------------------------------------------
(* The history as a log, and pushing to it.                                *)

\* The log of a history: what each entry brings in, and what it takes out.
Adds(h) == [i \in 1..Len(h.stack) |-> AddIds(h.stack[i])]
\* What each entry takes out.
Dels(h) == [i \in 1..Len(h.stack) |-> DelIds(h.stack[i], h.deletions)]

\* A well-formed history beside a possible scene.
HistOk(h, sc, C, P) ==
  /\ IsHist(h) /\ IsSeq(h.stack) /\ h.cursor \in 0..Len(h.stack)
  /\ SceneOk(sc, C, P)
  /\ \A i \in 1..Len(h.stack) : EntryOk(h.stack[i], h.deletions, C, P)
  /\ LogOk(Len(h.stack), Adds(h), Dels(h), h.cursor, IdsIn(sc))

\* The scene is what the history makes of it, and owners come before parts.
OrderOk(h, sc, own) ==
  /\ Replayed(Len(h.stack), Adds(h), Dels(h), h.cursor, IdsIn(sc))
  /\ OwnersFirst(Len(h.stack), Adds(h), Dels(h), IdsIn(sc), Parts, own)

\* An entry depends on its own snapshot only.
SameSnap(e, del, del2) == e.snap # 0 /\ e.snap \in DOMAIN del => e.snap \in DOMAIN del2 /\ del2[e.snap] = del[e.snap]

\* Such an entry means the same.
LEMMA SameEntry ==
  ASSUME NEW C, NEW P, NEW e, NEW del, NEW del2, EntryOk(e, del, C, P), SameSnap(e, del, del2)
  PROVE EntryOk(e, del2, C, P) /\ DelIds(e, del2) = DelIds(e, del)
<1>1. CASE DeleteEntry(e, del, C, P)
  <2>1. e.snap \in DOMAIN del2 /\ del2[e.snap] = del[e.snap]
    BY <1>1 DEF DeleteEntry, SameSnap
  <2>2. DeleteEntry(e, del2, C, P)
    BY <1>1, <2>1 DEF DeleteEntry
  <2>3. DelIds(e, del2) = DelIds(e, del)
    BY <2>1 DEF DelIds
  <2> QED BY <2>2, <2>3 DEF EntryOk
<1>2. CASE AddEntry(e, C, P) \/ PatchEntry(e, C, P) \/ CutEntry(e, C, P) \/ ValsEntry(e)
  <2>1. e.undo.kind # "unsnap"
    BY <1>2 DEF AddEntry, PatchEntry, CutEntry, ValsEntry
  <2>2. DelIds(e, del2) = DelIds(e, del)
    BY <2>1 DEF DelIds
  <2> QED BY <1>2, <2>2 DEF EntryOk
<1> QED
  BY <1>1, <1>2 DEF EntryOk

\* Old and new entries after a push.
LEMMA PushSlides ==
  ASSUME NEW C, NEW P, NEW h, NEW entries,
         IsSeq(h.stack), h.cursor \in 0..Len(h.stack),
         \A i \in 1..Len(h.stack) : EntryOk(h.stack[i], h.deletions, C, P),
         IsSeq(entries), entries # <<>>,
         \A i \in 1..Len(entries) : EntryOk(entries[i], h.deletions, C, P),
         \A i \in 1..Len(entries) : i # Len(entries) =>
           AddIds(entries[i]) = {} /\ DelIds(entries[i], h.deletions) = {}
  PROVE LET r == PushAll(h, entries)
            e == entries[Len(entries)]
        IN  /\ IsHist(r) /\ IsSeq(r.stack) /\ r.cursor = Len(r.stack)
            /\ \A i \in 1..Len(r.stack) : EntryOk(r.stack[i], r.deletions, C, P)
            /\ \E off : Slid(Len(h.stack), Adds(h), Dels(h), Len(r.stack), Adds(r), Dels(r),
                             h.cursor, off, AddIds(e), DelIds(e, h.deletions))
<1> DEFINE S == ToSet(h.stack) \cup ToSet(entries)
           r == PushAll(h, entries)
           n == h.cursor + Len(entries)
           e == entries[Len(entries)]
           X == AddIds(e)
           Y == DelIds(e, h.deletions)
           off == IF Over(n) <= h.cursor THEN Over(n) ELSE h.cursor
<1>1. h.stack \in Seq(S) /\ entries \in Seq(S)
  BY SameSet
<1> HIDE DEF S
<1>2. /\ IsHist(r) /\ r.stack \in Seq(S)
      /\ n \in Nat /\ Over(n) \in 0..(n - 1)
      /\ Len(r.stack) = n - Over(n) /\ r.cursor = n - Over(n)
      /\ \A i \in 1..(n - Over(n)) :
           r.stack[i] = IF i + Over(n) <= h.cursor THEN h.stack[i + Over(n)]
                        ELSE entries[(i + Over(n)) - h.cursor]
      /\ r.deletions = RestrictTo(h.deletions, DOMAIN h.deletions \ (Snaps(h.stack) \ Snaps(r.stack)))
  <2>1. Pushed(S, h, entries, PushAll(h, entries))
    BY <1>1, PushAllKeeps
  <2> HIDE DEF n
  <2> QED BY <2>1 DEF Pushed, n
<1>3. Len(entries) \in Nat \ {0} /\ Len(h.stack) \in Nat /\ h.cursor \in Nat /\ h.cursor <= Len(h.stack)
      /\ DOMAIN h.stack = 1..Len(h.stack) /\ DOMAIN r.stack = 1..Len(r.stack) /\ IsSeq(r.stack)
  BY <1>1, <1>2, SeqIsSeq
<1>3a. n = h.cursor + Len(entries) /\ Over(n) \in Nat /\ Over(n) < n /\ n \in Nat
  BY <1>2
<1>3c. /\ Over(n) <= h.cursor => off = Over(n)
       /\ ~(Over(n) <= h.cursor) => off = h.cursor
  OBVIOUS
<1> HIDE DEF r, n, off
<1>4. /\ off \in 0..h.cursor /\ Len(r.stack) \in Nat /\ Len(r.stack) > h.cursor - off
      /\ Len(r.stack) \in 1..Len(r.stack)
      /\ \A i \in 1..Len(r.stack) : i <= h.cursor - off =>
           i + off \in 1..Len(h.stack) /\ r.stack[i] = h.stack[i + off]
      /\ \A i \in 1..Len(r.stack) : ~(i <= h.cursor - off) =>
           \E j \in 1..Len(entries) : r.stack[i] = entries[j] /\ (i # Len(r.stack) <=> j # Len(entries))
      /\ 1..(h.cursor - off) \subseteq 1..Len(r.stack)
      /\ \A i \in 1..(h.cursor - off) : i <= h.cursor - off
      /\ \A i \in (h.cursor - off + 1)..Len(r.stack) : i \in 1..Len(r.stack) /\ ~(i <= h.cursor - off)
  <2> DEFINE c == h.cursor
             k == Len(entries)
             m == Len(h.stack)
             o == Over(n)
             l == Len(r.stack)
  <2>1. c \in Nat /\ m \in Nat /\ c <= m /\ k \in Nat \ {0} /\ n = c + k /\ o \in Nat /\ o < n /\ l = n - o
        /\ (o <= c => off = o) /\ (~(o <= c) => off = c)
        /\ \A i \in 1..(n - o) : r.stack[i] = IF i + o <= c THEN h.stack[i + o] ELSE entries[(i + o) - c]
    BY <1>2, <1>3, <1>3a, <1>3c
  <2> HIDE DEF c, k, m, o, l
  <2>2. /\ off \in 0..c /\ l \in Nat /\ l > c - off /\ l \in 1..l
        /\ 1..(c - off) \subseteq 1..l
        /\ \A i \in 1..(c - off) : i <= c - off
    BY <2>1
  <2>3. \A i \in 1..l : i <= c - off => i + off \in 1..m /\ off = o /\ i + o <= c
    BY <2>1
  <2>4. \A i \in 1..l : ~(i <= c - off) =>
          ~(i + o <= c) /\ (i + o) - c \in 1..k /\ (i # l <=> (i + o) - c # k)
    BY <2>1
  <2>5. \A i \in 1..l : i <= c - off => i + off \in 1..m /\ r.stack[i] = h.stack[i + off]
    BY <2>1, <2>3
  <2>6. \A i \in 1..l : ~(i <= c - off) =>
          \E j \in 1..k : r.stack[i] = entries[j] /\ (i # l <=> j # k)
    BY <2>1, <2>4
  <2>7. \A i \in (c - off + 1)..l : i \in 1..l /\ ~(i <= c - off)
    BY <2>1, <2>2
  <2> QED BY <2>2, <2>5, <2>6, <2>7 DEF c, k, m, l
<1>5. \A i \in 1..Len(r.stack) : EntryOk(r.stack[i], h.deletions, C, P)
  BY <1>4
<1>6. ASSUME NEW i \in 1..Len(r.stack) PROVE SameSnap(r.stack[i], h.deletions, r.deletions)
  <2>1. r.stack[i].snap # 0 => r.stack[i].snap \in Snaps(r.stack)
    BY <1>3 DEF Snaps
  <2> QED BY <1>2, <2>1 DEF SameSnap, RestrictTo
<1>7. \A i \in 1..Len(r.stack) :
        /\ EntryOk(r.stack[i], r.deletions, C, P)
        /\ DelIds(r.stack[i], r.deletions) = DelIds(r.stack[i], h.deletions)
  BY <1>5, <1>6, SameEntry
<1>8. ASSUME NEW i \in 1..(h.cursor - off)
      PROVE Adds(r)[i] = Adds(h)[i + off] /\ Dels(r)[i] = Dels(h)[i + off]
  BY <1>4, <1>7 DEF Adds, Dels
<1>9. ASSUME NEW i \in (h.cursor - off + 1)..Len(r.stack), i # Len(r.stack)
      PROVE Adds(r)[i] = {} /\ Dels(r)[i] = {}
  <2>1. i \in 1..Len(r.stack)
    BY <1>4
  <2>2. PICK j \in 1..Len(entries) : r.stack[i] = entries[j] /\ j # Len(entries)
    BY <1>4, <1>9
  <2>3. AddIds(r.stack[i]) = {} /\ DelIds(r.stack[i], h.deletions) = {}
    BY <2>2
  <2> QED BY <1>7, <2>1, <2>3 DEF Adds, Dels
<1>10. Adds(r)[Len(r.stack)] = X /\ Dels(r)[Len(r.stack)] = Y
  <2>1. Len(r.stack) \in 1..Len(r.stack) /\ ~(Len(r.stack) <= h.cursor - off)
    BY <1>3, <1>4
  <2>2. PICK j \in 1..Len(entries) : r.stack[Len(r.stack)] = entries[j] /\ ~(j # Len(entries))
    BY <1>4, <2>1
  <2>3. r.stack[Len(r.stack)] = e
    BY <2>2
  <2>4. DelIds(r.stack[Len(r.stack)], r.deletions) = DelIds(r.stack[Len(r.stack)], h.deletions)
    BY <1>7, <2>1
  <2> HIDE DEF e
  <2> QED BY <2>1, <2>3, <2>4 DEF Adds, Dels
<1> HIDE DEF X, Y, e
<1>11. Slid(Len(h.stack), Adds(h), Dels(h), Len(r.stack), Adds(r), Dels(r), h.cursor, off, X, Y)
  <2>1. \A i \in (h.cursor - off + 1)..Len(r.stack) : i # Len(r.stack) => Adds(r)[i] = {} /\ Dels(r)[i] = {}
    BY <1>9
  <2>2. \A i \in 1..(h.cursor - off) : Adds(r)[i] = Adds(h)[i + off] /\ Dels(r)[i] = Dels(h)[i + off]
    BY <1>8
  <2> QED BY <1>4, <1>10, <2>1, <2>2 DEF Slid
<1>12. IsHist(r) /\ IsSeq(r.stack) /\ r.cursor = Len(r.stack)
  BY <1>2, <1>3
<1> QED
  BY <1>7, <1>11, <1>12 DEF r, e, X, Y

\* A history that fits the scene; strictly so while no toast has restored.
Fits(h, sc, C, P, own, strict) == HistOk(h, sc, C, P) /\ (strict => OrderOk(h, sc, own))

\* An id of the scene or of an entry of the history.
KnownIn(h, sc, x) == Known(Len(h.stack), Adds(h), Dels(h), IdsIn(sc), x)

\* An entry that may follow history h at scene sc.
NextEntry(h, sc, e, own, strict) ==
  /\ AddIds(e) = {} \/ DelIds(e, h.deletions) = {}
  /\ DelIds(e, h.deletions) \subseteq IdsIn(sc)
  /\ \A i \in 1..h.cursor : AddIds(e) \cap Dels(h)[i] = {}
  /\ strict =>
       /\ \A x \in AddIds(e) : ~KnownIn(h, sc, x)
       /\ \A p \in Parts :
            /\ p \in AddIds(e) => own[p] \in IdsIn(sc)
            /\ p \in IdsIn(sc) /\ own[p] \in DelIds(e, h.deletions) => p \in DelIds(e, h.deletions)

\* All entries but the last are edits, which bring in and take out nothing.
PlainBefore(entries, del) ==
  \A i \in 1..Len(entries) : i # Len(entries) => AddIds(entries[i]) = {} /\ DelIds(entries[i], del) = {}

\* A sequence of well-formed entries.
EntriesOk(entries, del, C, P) ==
  /\ IsSeq(entries) /\ \A i \in 1..Len(entries) : EntryOk(entries[i], del, C, P)

\* Pushing such entries keeps the history fitting the scene.
LEMMA PushFits ==
  ASSUME NEW C, NEW P, NEW own, NEW strict \in BOOLEAN, NEW h, NEW sc, Fits(h, sc, C, P, own, strict),
         NEW entries, entries # <<>>, EntriesOk(entries, h.deletions, C, P), PlainBefore(entries, h.deletions),
         NextEntry(h, sc, entries[Len(entries)], own, strict),
         NEW t, SceneOk(t, C, P),
         IdsIn(t) = (IdsIn(sc) \cup AddIds(entries[Len(entries)])) \ DelIds(entries[Len(entries)], h.deletions)
  PROVE Fits(PushAll(h, entries), t, C, P, own, strict)
<1> DEFINE r == PushAll(h, entries)
           e == entries[Len(entries)]
           X == AddIds(e)
           Y == DelIds(e, h.deletions)
           n == Len(h.stack)
           n2 == Len(r.stack)
           A == Adds(h)
           D == Dels(h)
           A2 == Adds(r)
           D2 == Dels(r)
           S == IdsIn(sc)
           cur == h.cursor
<1>1. /\ IsSeq(h.stack) /\ cur \in 0..n
      /\ \A i \in 1..n : EntryOk(h.stack[i], h.deletions, C, P)
      /\ LogOk(n, A, D, cur, S)
      /\ strict => Replayed(n, A, D, cur, S) /\ OwnersFirst(n, A, D, S, Parts, own)
  BY DEF Fits, HistOk, OrderOk
<1>2. /\ IsHist(r) /\ IsSeq(r.stack) /\ r.cursor = Len(r.stack)
      /\ \A i \in 1..Len(r.stack) : EntryOk(r.stack[i], r.deletions, C, P)
      /\ \E off : Slid(n, A, D, n2, A2, D2, cur, off, X, Y)
  <2>1. /\ \A i \in 1..Len(entries) : EntryOk(entries[i], h.deletions, C, P)
        /\ \A i \in 1..Len(entries) : i # Len(entries) => AddIds(entries[i]) = {} /\ DelIds(entries[i], h.deletions) = {}
        /\ IsSeq(entries)
    BY DEF EntriesOk, PlainBefore
  <2> HIDE DEF A, D, A2, D2
  <2>2. \A i \in 1..Len(h.stack) : EntryOk(h.stack[i], h.deletions, C, P)
    BY <1>1
  <2>3. LET q == PushAll(h, entries)
            l == entries[Len(entries)]
        IN  /\ IsHist(q) /\ IsSeq(q.stack) /\ q.cursor = Len(q.stack)
            /\ \A i \in 1..Len(q.stack) : EntryOk(q.stack[i], q.deletions, C, P)
            /\ \E off : Slid(Len(h.stack), Adds(h), Dels(h), Len(q.stack), Adds(q), Dels(q),
                             h.cursor, off, AddIds(l), DelIds(l, h.deletions))
    BY <1>1, <2>1, <2>2, PushSlides
  <2> QED BY <2>3 DEF A, D, A2, D2
<1>3. /\ X = {} \/ Y = {}
      /\ Y \subseteq S
      /\ \A i \in 1..cur : X \cap D[i] = {}
      /\ strict => /\ \A x \in X : ~Known(n, A, D, S, x)
                   /\ \A p \in Parts : (p \in X => own[p] \in S) /\ (p \in S /\ own[p] \in Y => p \in Y)
      /\ IdsIn(t) = (S \cup X) \ Y
  BY DEF NextEntry, KnownIn
<1>4. r.cursor = n2
  BY <1>2
<1> HIDE DEF X, Y, n, A, D, A2, D2, S, cur, e
<1>5. PICK off : Slid(n, A, D, n2, A2, D2, cur, off, X, Y)
  BY <1>2
<1> HIDE DEF n2
<1>6. LogOk(n2, A2, D2, n2, (S \cup X) \ Y)
  BY <1>1, <1>3, <1>5, LogPush
<1>7. strict => Replayed(n2, A2, D2, n2, (S \cup X) \ Y) /\ OwnersFirst(n2, A2, D2, (S \cup X) \ Y, Parts, own)
  BY <1>1, <1>3, <1>5, ReplayPush
<1>8. LogOk(n2, A2, D2, r.cursor, IdsIn(t))
  BY <1>3, <1>4, <1>6
<1>9. strict => Replayed(n2, A2, D2, r.cursor, IdsIn(t)) /\ OwnersFirst(n2, A2, D2, IdsIn(t), Parts, own)
  BY <1>3, <1>4, <1>7
<1>10. r.cursor \in 0..Len(r.stack)
  BY <1>8 DEF LogOk, n2
<1> HIDE DEF r
<1>11. HistOk(r, t, C, P)
  BY <1>2, <1>8, <1>10 DEF HistOk, n2, A2, D2
<1>12. strict => OrderOk(r, t, own)
  BY <1>9 DEF OrderOk, n2, A2, D2
<1> QED
  BY <1>11, <1>12 DEF Fits, r

\* Edits only: the ids of the scene stay.
LEMMA PushPlain ==
  ASSUME NEW C, NEW P, NEW own, NEW strict \in BOOLEAN, NEW h, NEW sc, Fits(h, sc, C, P, own, strict),
         NEW entries, EntriesOk(entries, h.deletions, C, P),
         \A i \in 1..Len(entries) : AddIds(entries[i]) = {} /\ DelIds(entries[i], h.deletions) = {},
         NEW t, SceneOk(t, C, P), IdsIn(t) = IdsIn(sc)
  PROVE Fits(PushAll(h, entries), t, C, P, own, strict)
<1>1. CASE entries = <<>>
  <2>1. PushAll(h, entries) = h
    BY <1>1 DEF PushAll
  <2>2. HistOk(h, t, C, P)
    BY DEF Fits, HistOk
  <2>3. strict => OrderOk(h, t, own)
    BY DEF Fits, OrderOk
  <2> QED BY <2>1, <2>2, <2>3 DEF Fits
<1>2. CASE entries # <<>>
  <2>1. Len(entries) \in 1..Len(entries)
    BY <1>2 DEF EntriesOk, IsSeq
  <2>2. AddIds(entries[Len(entries)]) = {} /\ DelIds(entries[Len(entries)], h.deletions) = {}
    BY <2>1
  <2>3. PlainBefore(entries, h.deletions)
    BY DEF PlainBefore
  <2>4. NextEntry(h, sc, entries[Len(entries)], own, strict)
    BY <2>2 DEF NextEntry
  <2>5. IdsIn(t) = (IdsIn(sc) \cup AddIds(entries[Len(entries)])) \ DelIds(entries[Len(entries)], h.deletions)
    BY <2>2
  <2> QED BY <1>2, <2>3, <2>4, <2>5, PushFits
<1> QED
  BY <1>1, <1>2

\* One entry.
LEMMA PushOne ==
  ASSUME NEW C, NEW P, NEW own, NEW strict \in BOOLEAN, NEW h, NEW sc, Fits(h, sc, C, P, own, strict),
         NEW e, EntryOk(e, h.deletions, C, P), NextEntry(h, sc, e, own, strict),
         NEW t, SceneOk(t, C, P), IdsIn(t) = (IdsIn(sc) \cup AddIds(e)) \ DelIds(e, h.deletions)
  PROVE Fits(Push(h, e), t, C, P, own, strict)
<1> DEFINE entries == <<e>>
<1>1. Len(entries) = 1 /\ entries # <<>> /\ entries[1] = e /\ \A i \in 1..Len(entries) : i = 1 /\ entries[i] = e
  OBVIOUS
<1>2. IsSeq(entries)
  BY OneSet, SeqIsSeq
<1> HIDE DEF entries
<1>3. EntriesOk(entries, h.deletions, C, P)
  BY <1>1, <1>2 DEF EntriesOk
<1>4. PlainBefore(entries, h.deletions)
  BY <1>1 DEF PlainBefore
<1>5. entries[Len(entries)] = e
  BY <1>1
<1>6. Fits(PushAll(h, entries), t, C, P, own, strict)
  BY <1>1, <1>3, <1>4, <1>5, PushFits
<1> QED
  BY <1>6 DEF Push, entries

-----------------------------------------------------------------------------
(* Recording edits, undo and redo.                                         *)

\* Objects of a scene by id.
LEMMA ItemsOfScene ==
  ASSUME NEW C, NEW P, NEW sc, SceneOk(sc, C, P)
  PROVE /\ Items(sc) = CarsOf(sc) \cup PartsOf(sc) /\ Items(sc) \subseteq C \cup P
        /\ \A id : Present(sc, id) <=> id \in IdsIn(sc)
        /\ \A id : Present(sc, id) => TheItem(sc, id) \in Items(sc) /\ TheItem(sc, id).id = id
<1>1. Items(sc) = CarsOf(sc) \cup PartsOf(sc)
  BY DEF Items, CarsOf, PartsOf
<1>2. CarsOf(sc) \subseteq C /\ PartsOf(sc) \subseteq P
  BY SceneFacts DEF CarsOf, PartsOf
<1>3. \A id : Present(sc, id) <=> id \in IdsIn(sc)
  BY <1>1, IdsInOf DEF Present
<1>4. ASSUME NEW id, Present(sc, id) PROVE TheItem(sc, id) \in Items(sc) /\ TheItem(sc, id).id = id
  <2>1. \E x \in Items(sc) : x.id = id
    BY <1>4 DEF Present
  <2> QED BY <2>1 DEF TheItem
<1> QED
  BY <1>1, <1>2, <1>3, <1>4

\* A recorded edit is a well-formed entry.
LEMMA EditEntryOk ==
  ASSUME NEW C, NEW P, NEW sc, SceneOk(sc, C, P), NEW before \in C \cup P, Changed(sc, before), NEW del
  PROVE /\ EntryOk(EditEntry(sc, before), del, C, P)
        /\ AddIds(EditEntry(sc, before)) = {} /\ DelIds(EditEntry(sc, before), del) = {}
<1> DEFINE e == EditEntry(sc, before)
<1>1. TheItem(sc, before.id) \in C \cup P /\ TheItem(sc, before.id).id = before.id
  BY ItemsOfScene DEF Changed
<1>2. /\ e.undo.kind = "patch" /\ e.redo.kind = "patch" /\ e.snap = 0
      /\ e.undo.item = before /\ e.redo.item = TheItem(sc, before.id)
  BY DEF EditEntry, Entry, PatchOp
<1> HIDE DEF e
<1>3. EntryOk(e, del, C, P)
  BY <1>1, <1>2 DEF EntryOk, PatchEntry
<1>4. AddIds(e) = {} /\ DelIds(e, del) = {}
  BY <1>2 DEF AddIds, DelIds
<1> QED
  BY <1>3, <1>4 DEF e

\* A history that fits a scene, fits a possible one.
LEMMA FitsScene ==
  ASSUME NEW C, NEW P, NEW own, NEW strict, NEW h, NEW sc, Fits(h, sc, C, P, own, strict)
  PROVE SceneOk(sc, C, P)
BY DEF Fits, HistOk

\* It fits any scene with the same ids.
LEMMA SameIdsFit ==
  ASSUME NEW C, NEW P, NEW own, NEW strict, NEW h, NEW sc, Fits(h, sc, C, P, own, strict),
         NEW t, SceneOk(t, C, P), IdsIn(t) = IdsIn(sc)
  PROVE Fits(h, t, C, P, own, strict)
BY DEF Fits, HistOk, OrderOk

\* Recording an edit.
LEMMA RecordFits ==
  ASSUME NEW C, NEW P, NEW own, NEW strict \in BOOLEAN, NEW h, NEW sc, Fits(h, sc, C, P, own, strict),
         NEW before \in C \cup P
  PROVE Fits(Record(h, sc, before), sc, C, P, own, strict)
<1> DEFINE e == EditEntry(sc, before)
<1>1. SceneOk(sc, C, P)
  BY FitsScene
<1>2. CASE Changed(sc, before)
  <2>1. /\ EntryOk(e, h.deletions, C, P)
        /\ AddIds(e) = {} /\ DelIds(e, h.deletions) = {}
    BY <1>1, <1>2, EditEntryOk
  <2> HIDE DEF e
  <2>2. NextEntry(h, sc, e, own, strict)
    BY <2>1 DEF NextEntry
  <2>3. IdsIn(sc) = (IdsIn(sc) \cup AddIds(e)) \ DelIds(e, h.deletions)
    BY <2>1
  <2>4. Fits(Push(h, e), sc, C, P, own, strict)
    BY <1>1, <2>1, <2>2, <2>3, PushOne
  <2> QED BY <1>2, <2>4 DEF Record, e
<1>3. CASE ~Changed(sc, before)
  BY <1>3 DEF Record
<1> QED
  BY <1>2, <1>3

\* Flushing the pending edits.
LEMMA FlushedFits ==
  ASSUME NEW C, NEW P, NEW own, NEW strict \in BOOLEAN, NEW h, NEW sc, Fits(h, sc, C, P, own, strict),
         pending \in Seq(C \cup P)
  PROVE Fits(Flushed(h, sc), sc, C, P, own, strict)
<1> DEFINE d == Edits(sc)
           es == [i \in DOMAIN d |-> EditEntry(sc, d[i])]
<1>0. SceneOk(sc, C, P)
  BY FitsScene
<1>1. d \in Seq(C \cup P) /\ ToSet(d) \subseteq {x \in ToSet(pending) : Changed(sc, x)}
  BY EditsSet
<1> HIDE DEF d
<1>2. DOMAIN d = 1..Len(d) /\ Len(d) \in Nat /\ \A i \in DOMAIN d : d[i] \in C \cup P /\ Changed(sc, d[i])
  BY <1>1 DEF ToSet
<1>3. es \in Seq({EditEntry(sc, d[i]) : i \in DOMAIN d}) /\ Len(es) = Len(d)
  BY <1>2
<1>4. IsSeq(es)
  BY <1>3, SeqIsSeq
<1>5. \A i \in 1..Len(es) : /\ EntryOk(es[i], h.deletions, C, P)
                            /\ AddIds(es[i]) = {} /\ DelIds(es[i], h.deletions) = {}
  BY <1>0, <1>2, <1>3, EditEntryOk
<1> HIDE DEF es
<1>6. EntriesOk(es, h.deletions, C, P)
  BY <1>4, <1>5 DEF EntriesOk
<1>7. Fits(PushAll(h, es), sc, C, P, own, strict)
  BY <1>0, <1>5, <1>6, PushPlain
<1> QED
  BY <1>7, FlushedIs DEF es, d

\* Undoing: nothing that is there comes back a second time.
LEMMA UndoFits ==
  ASSUME NEW C, NEW P, NEW own, Kinds(C, P, own), NEW strict \in BOOLEAN,
         NEW h, NEW sc, Fits(h, sc, C, P, own, strict), h.cursor > 0
  PROVE Fits([h EXCEPT !.cursor = h.cursor - 1], Apply(h.stack[h.cursor].undo, sc, h.deletions), C, P, own, strict)
<1> DEFINE r == [h EXCEPT !.cursor = h.cursor - 1]
           e == h.stack[h.cursor]
           t == Apply(e.undo, sc, h.deletions)
           n == Len(h.stack)
           A == Adds(h)
           D == Dels(h)
           S == IdsIn(sc)
           cur == h.cursor
<1>1. /\ IsHist(h) /\ IsSeq(h.stack) /\ cur \in 0..n /\ SceneOk(sc, C, P)
      /\ \A i \in 1..n : EntryOk(h.stack[i], h.deletions, C, P)
      /\ LogOk(n, A, D, cur, S)
      /\ strict => Replayed(n, A, D, cur, S) /\ OwnersFirst(n, A, D, S, Parts, own)
  BY DEF Fits, HistOk, OrderOk
<1>2. cur \in 1..n /\ n \in Nat /\ cur > 0
  BY <1>1 DEF LogOk
<1>3. A[cur] = AddIds(e) /\ D[cur] = DelIds(e, h.deletions) /\ EntryOk(e, h.deletions, C, P)
  BY <1>1, <1>2 DEF Adds, Dels
<1>4. D[cur] \cap S = {}
  <2>1. cur \in 1..cur
    BY <1>2
  <2> HIDE DEF A, D, S, cur
  <2> QED BY <1>1, <2>1 DEF LogOk
<1>5. SceneOk(t, C, P) /\ IdsIn(t) = (S \ A[cur]) \cup D[cur]
  BY <1>1, <1>3, <1>4, UndoKeeps
<1>6. r.stack = h.stack /\ r.deletions = h.deletions /\ r.cursor = cur - 1 /\ IsHist(r)
  BY <1>1 DEF IsHist
<1> HIDE DEF r, e, t, n, A, D, S, cur
<1>7. LogOk(n, A, D, cur - 1, IdsIn(t))
  BY <1>1, <1>2, <1>5, LogUndo
<1>8. ASSUME strict PROVE Replayed(n, A, D, cur - 1, IdsIn(t)) /\ OwnersFirst(n, A, D, IdsIn(t), Parts, own)
  <2>1. Replayed(n, A, D, cur, S) /\ OwnersFirst(n, A, D, S, Parts, own)
    BY <1>1, <1>8
  <2> DEFINE T == (S \ A[cur]) \cup D[cur]
  <2>2. /\ Replayed(n, A, D, cur - 1, T)
        /\ \A x : Known(n, A, D, T, x) <=> Known(n, A, D, S, x)
    BY <1>1, <1>2, <2>1, ReplayUndo
  <2> HIDE DEF T
  <2>3. OwnersFirst(n, A, D, T, Parts, own)
    BY <2>1, <2>2, SameKnown
  <2> QED BY <1>5, <2>2, <2>3 DEF T
<1>9. Adds(r) = A /\ Dels(r) = D /\ Len(r.stack) = n
  BY <1>6 DEF Adds, Dels, A, D, n
<1>10. r.cursor \in 0..n
  BY <1>6, <1>7 DEF LogOk
<1>11. HistOk(r, t, C, P)
  <2>1. IsSeq(r.stack) /\ \A i \in 1..Len(r.stack) : EntryOk(r.stack[i], r.deletions, C, P)
    BY <1>1, <1>6, <1>9
  <2> QED BY <1>5, <1>6, <1>7, <1>9, <1>10, <2>1 DEF HistOk
<1>12. strict => OrderOk(r, t, own)
  BY <1>6, <1>8, <1>9 DEF OrderOk
<1> QED
  BY <1>11, <1>12 DEF Fits, r, t, e

\* Redoing.
LEMMA RedoFits ==
  ASSUME NEW C, NEW P, NEW own, Kinds(C, P, own), NEW strict \in BOOLEAN,
         NEW h, NEW sc, Fits(h, sc, C, P, own, strict), h.cursor < Len(h.stack)
  PROVE Fits([h EXCEPT !.cursor = h.cursor + 1], Apply(h.stack[h.cursor + 1].redo, sc, h.deletions), C, P, own, strict)
<1> DEFINE r == [h EXCEPT !.cursor = h.cursor + 1]
           e == h.stack[h.cursor + 1]
           t == Apply(e.redo, sc, h.deletions)
           n == Len(h.stack)
           A == Adds(h)
           D == Dels(h)
           S == IdsIn(sc)
           cur == h.cursor
           q == cur + 1
<1>1. /\ IsHist(h) /\ IsSeq(h.stack) /\ cur \in 0..n /\ SceneOk(sc, C, P)
      /\ \A i \in 1..n : EntryOk(h.stack[i], h.deletions, C, P)
      /\ LogOk(n, A, D, cur, S)
      /\ strict => Replayed(n, A, D, cur, S) /\ OwnersFirst(n, A, D, S, Parts, own)
  BY DEF Fits, HistOk, OrderOk
<1>2. q \in 1..n /\ n \in Nat /\ cur < n /\ cur \in Nat /\ q = cur + 1
  BY <1>1 DEF LogOk
<1>3. A[q] = AddIds(e) /\ D[q] = DelIds(e, h.deletions) /\ EntryOk(e, h.deletions, C, P)
  BY <1>1, <1>2 DEF Adds, Dels
<1>5. /\ SceneOk(t, C, P) /\ IdsIn(t) \subseteq S \cup A[q] /\ IdsIn(t) \cap D[q] = {}
      /\ (\A p \in Parts : p \in S /\ own[p] \in D[q] => p \in D[q]) => IdsIn(t) = (S \cup A[q]) \ D[q]
  BY <1>1, <1>3, RedoKeeps
<1>6. r.stack = h.stack /\ r.deletions = h.deletions /\ r.cursor = q /\ IsHist(r)
  BY <1>1 DEF IsHist
<1> HIDE DEF r, e, t, n, A, D, S, cur
<1>7. LogOk(n, A, D, cur + 1, IdsIn(t))
  BY <1>1, <1>2, <1>5, LogRedo
<1>7a. LogOk(n, A, D, q, IdsIn(t))
  BY <1>2, <1>7
<1>8. ASSUME strict PROVE Replayed(n, A, D, q, IdsIn(t)) /\ OwnersFirst(n, A, D, IdsIn(t), Parts, own)
  <2>1. Replayed(n, A, D, cur, S) /\ OwnersFirst(n, A, D, S, Parts, own)
    BY <1>1, <1>8
  <2> DEFINE T == (S \cup A[cur + 1]) \ D[cur + 1]
  <2>2. /\ Replayed(n, A, D, cur + 1, T)
        /\ \A x : Known(n, A, D, T, x) <=> Known(n, A, D, S, x)
    BY <1>1, <1>2, <2>1, ReplayRedo
  <2>4. ASSUME NEW p \in Parts, p \in S, own[p] \in D[q] PROVE p \in D[q]
    <3>1. Known(n, A, D, S, p) /\ Done(n, A, D, cur, p)
      BY <2>1, <2>4 DEF Replayed, Known
    <3>2. PICK m \in 1..n : m <= q /\ p \in D[m]
      BY <1>2, <2>1, <2>4, <3>1 DEF OwnersFirst
    <3>3. m > cur
      BY <3>1, <3>2 DEF Done
    <3>4. m = q
      BY <1>2, <3>2, <3>3
    <3> QED BY <3>2, <3>4
  <2>5. IdsIn(t) = T
    BY <1>2, <1>5, <2>4
  <2> HIDE DEF T
  <2>3. OwnersFirst(n, A, D, T, Parts, own)
    BY <2>1, <2>2, SameKnown
  <2> QED BY <1>2, <2>2, <2>3, <2>5
<1>9. Adds(r) = A /\ Dels(r) = D /\ Len(r.stack) = n
  BY <1>6 DEF Adds, Dels, A, D, n
<1>10. r.cursor \in 0..n
  BY <1>6, <1>7a DEF LogOk
<1> HIDE DEF q
<1>11. HistOk(r, t, C, P)
  <2>1. IsSeq(r.stack) /\ \A i \in 1..Len(r.stack) : EntryOk(r.stack[i], r.deletions, C, P)
    BY <1>1, <1>6, <1>9
  <2> QED BY <1>5, <1>6, <1>7a, <1>9, <1>10, <2>1 DEF HistOk
<1>12. strict => OrderOk(r, t, own)
  BY <1>6, <1>8, <1>9 DEF OrderOk
<1> QED
  BY <1>11, <1>12 DEF Fits, r, t, e

-----------------------------------------------------------------------------
(* Additions.                                                              *)

\* Only ids given out are known to the history.
LEMMA KnownUsed ==
  ASSUME NEW U, NEW own, NEW h, NEW sc, HistOk(h, sc, CarItems(U), PartItems(U, own))
  PROVE \A x : KnownIn(h, sc, x) => x \in U
<1> DEFINE C == CarItems(U)
           P == PartItems(U, own)
<1>1. \A x \in C \cup P : x.id \in U
  BY DEF CarItems, PartItems
<1>2. /\ SceneOk(sc, C, P)
      /\ \A i \in 1..Len(h.stack) : EntryOk(h.stack[i], h.deletions, C, P)
  BY DEF HistOk
<1> HIDE DEF C, P
<1>3. IdsIn(sc) \subseteq U
  BY <1>1, <1>2, IdsInOf, ItemsOfScene
<1>4. ASSUME NEW e, EntryOk(e, h.deletions, C, P) PROVE AddIds(e) \cup DelIds(e, h.deletions) \subseteq U
  <2>1. CASE AddEntry(e, C, P)
    <3>1. e.undo.kind = "remove" /\ e.undo.ids = IdsOf(e.redo.items)
          /\ (e.redo.items \in Seq(C) \/ e.redo.items \in Seq(P))
      BY <2>1 DEF AddEntry
    <3>2. IdsOf(e.redo.items) \subseteq U
      BY <1>1, <3>1 DEF IdsOf
    <3> QED BY <3>1, <3>2 DEF AddIds, DelIds
  <2>2. CASE PatchEntry(e, C, P) \/ ValsEntry(e)
    <3>1. e.undo.kind = "patch" \/ e.undo.kind = "vals"
      BY <2>2 DEF PatchEntry, ValsEntry
    <3> QED BY <3>1 DEF AddIds, DelIds
  <2>3. CASE DeleteEntry(e, h.deletions, C, P)
    <3> DEFINE s == h.deletions[e.snap]
    <3>1. e.undo.kind = "unsnap" /\ s.item \in C \cup P /\ s.parts \in Seq(P)
      BY <2>3 DEF DeleteEntry, SnapOk
    <3>2. s.item.id \in U /\ IdsOf(s.parts) \subseteq U
      BY <1>1, <3>1 DEF IdsOf
    <3> QED BY <3>1, <3>2 DEF AddIds, DelIds
  <2>4. CASE CutEntry(e, C, P)
    <3> DEFINE rc == e.undo.removed["cars"]
               rp == e.undo.removed["parts"]
    <3>1. e.undo.kind = "splice" /\ RemovedOk(rc, C) /\ RemovedOk(rp, P)
          /\ e.redo.ids = RemovedIds(rc) \cup RemovedIds(rp)
      BY <2>4 DEF CutEntry
    <3> HIDE DEF rc, rp
    <3>2. rc \in Seq(RemovedFrom(C)) /\ rp \in Seq(RemovedFrom(P))
      BY <3>1 DEF RemovedOk
    <3>3. \A i \in DOMAIN rc : rc[i] \in RemovedFrom(C)
      BY <3>2
    <3>4. \A i \in DOMAIN rp : rp[i] \in RemovedFrom(P)
      BY <3>2
    <3>5. RemovedIds(rc) \subseteq U
      BY <1>1, <3>3 DEF RemovedIds, RemovedFrom
    <3>6. RemovedIds(rp) \subseteq U
      BY <1>1, <3>4 DEF RemovedIds, RemovedFrom
    <3> QED BY <3>1, <3>5, <3>6 DEF AddIds, DelIds
  <2> QED BY <1>4, <2>1, <2>2, <2>3, <2>4 DEF EntryOk
<1>5. \A i \in 1..Len(h.stack) : Adds(h)[i] \cup Dels(h)[i] \subseteq U
  BY <1>2, <1>4 DEF Adds, Dels
<1> QED
  BY <1>3, <1>5 DEF KnownIn, Known

\* Giving out another id keeps what fits.
LEMMA EntryGrows ==
  ASSUME NEW C, NEW P, NEW C2, NEW P2, C \subseteq C2, P \subseteq P2, NEW e, NEW del, EntryOk(e, del, C, P)
  PROVE EntryOk(e, del, C2, P2)
<1>0. Seq(C) \subseteq Seq(C2) /\ Seq(P) \subseteq Seq(P2)
  BY SeqMonotonic
<1>1. CASE AddEntry(e, C, P)
  BY <1>0, <1>1 DEF AddEntry, EntryOk
<1>2. CASE PatchEntry(e, C, P)
  BY <1>2 DEF PatchEntry, EntryOk
<1>3. CASE DeleteEntry(e, del, C, P)
  BY <1>0, <1>3 DEF DeleteEntry, SnapOk, EntryOk
<1>4. CASE CutEntry(e, C, P)
  <2>1. RemovedFrom(C) \subseteq RemovedFrom(C2) /\ RemovedFrom(P) \subseteq RemovedFrom(P2)
    BY DEF RemovedFrom
  <2>2. Seq(RemovedFrom(C)) \subseteq Seq(RemovedFrom(C2)) /\ Seq(RemovedFrom(P)) \subseteq Seq(RemovedFrom(P2))
    BY <2>1, SeqMonotonic
  <2>3. \A r : (RemovedOk(r, C) => RemovedOk(r, C2)) /\ (RemovedOk(r, P) => RemovedOk(r, P2))
    BY <2>2 DEF RemovedOk
  <2> QED BY <1>4, <2>3 DEF CutEntry, EntryOk
<1>5. CASE ValsEntry(e)
  BY <1>5 DEF EntryOk
<1> QED
  BY <1>1, <1>2, <1>3, <1>4, <1>5 DEF EntryOk

\* The history fits when more ids have been given out.
LEMMA FitsGrow ==
  ASSUME NEW C, NEW P, NEW C2, NEW P2, C \subseteq C2, P \subseteq P2, NEW own, NEW own2, NEW strict,
         NEW h, NEW sc, Fits(h, sc, C, P, own, strict),
         strict => \A p \in Parts : KnownIn(h, sc, p) => own2[p] = own[p]
  PROVE Fits(h, sc, C2, P2, own2, strict)
<1>0. Seq(C) \subseteq Seq(C2) /\ Seq(P) \subseteq Seq(P2)
  BY SeqMonotonic
<1>1. SceneOk(sc, C2, P2)
  BY <1>0 DEF Fits, HistOk, SceneOk
<1>2. \A i \in 1..Len(h.stack) : EntryOk(h.stack[i], h.deletions, C2, P2)
  BY EntryGrows DEF Fits, HistOk
<1>3. HistOk(h, sc, C2, P2)
  BY <1>1, <1>2 DEF Fits, HistOk
<1>4. ASSUME strict PROVE OrderOk(h, sc, own2)
  <2> DEFINE n == Len(h.stack)
             A == Adds(h)
             D == Dels(h)
             S == IdsIn(sc)
  <2>1. Replayed(n, A, D, h.cursor, S) /\ OwnersFirst(n, A, D, S, Parts, own)
    BY <1>4 DEF Fits, OrderOk
  <2>2. \A p \in Parts : Known(n, A, D, S, p) => own2[p] = own[p]
    BY <1>4 DEF KnownIn
  <2> HIDE DEF n, A, D, S
  <2>3. OwnersFirst(n, A, D, S, Parts, own2)
    BY <2>1, <2>2 DEF OwnersFirst
  <2> QED BY <2>1, <2>3 DEF OrderOk, n, A, D, S
<1> QED
  BY <1>3, <1>4 DEF Fits

-----------------------------------------------------------------------------
(* Additions.                                                              *)

\* No entry that is done takes these ids out.
NotDeleted(h, X) == \A i \in 1..h.cursor : X \cap Dels(h)[i] = {}

\* Pushing an entry that takes none of them out.
LEMMA PushNotDeleted ==
  ASSUME NEW C, NEW P, NEW own, NEW strict, NEW h, NEW sc, Fits(h, sc, C, P, own, strict),
         NEW e, EntryOk(e, h.deletions, C, P), NEW X, NotDeleted(h, X), X \cap DelIds(e, h.deletions) = {}
  PROVE NotDeleted(Push(h, e), X)
<1> DEFINE entries == <<e>>
           r == PushAll(h, entries)
           n == Len(h.stack)
           n2 == Len(r.stack)
           A == Adds(h)
           D == Dels(h)
           A2 == Adds(r)
           D2 == Dels(r)
           cur == h.cursor
           x == AddIds(e)
           y == DelIds(e, h.deletions)
<1>1. /\ Len(entries) = 1 /\ entries # <<>> /\ entries[Len(entries)] = e
      /\ \A i \in 1..Len(entries) : i = Len(entries) /\ entries[i] = e
  OBVIOUS
<1>2. IsSeq(entries)
  BY OneSet, SeqIsSeq
<1>3. /\ IsSeq(h.stack) /\ h.cursor \in 0..Len(h.stack)
      /\ \A i \in 1..Len(h.stack) : EntryOk(h.stack[i], h.deletions, C, P)
      /\ LogOk(n, A, D, cur, IdsIn(sc))
  BY DEF Fits, HistOk
<1>4. r.cursor = n2 /\ \E off : Slid(n, A, D, n2, A2, D2, cur, off, x, y)
  <2> HIDE DEF entries
  <2>1. LET q == PushAll(h, entries)
            l == entries[Len(entries)]
        IN  /\ IsHist(q) /\ IsSeq(q.stack) /\ q.cursor = Len(q.stack)
            /\ \A i \in 1..Len(q.stack) : EntryOk(q.stack[i], q.deletions, C, P)
            /\ \E off : Slid(Len(h.stack), Adds(h), Dels(h), Len(q.stack), Adds(q), Dels(q),
                             h.cursor, off, AddIds(l), DelIds(l, h.deletions))
    BY <1>1, <1>2, <1>3, PushSlides
  <2> QED BY <1>1, <2>1
<1>5. \A i \in 1..cur : X \cap D[i] = {}
  BY DEF NotDeleted
<1>6. X \cap y = {}
  OBVIOUS
<1> HIDE DEF r, n, n2, A, D, A2, D2, cur, x, y
<1>7. PICK off : Slid(n, A, D, n2, A2, D2, cur, off, x, y)
  BY <1>4
<1> DEFINE S == IdsIn(sc)
<1>8. LogOk(n, A, D, cur, S)
  BY <1>3
<1> HIDE DEF S
<1>9. /\ n2 \in 1..n2 /\ n2 > cur - off
      /\ \A i \in 1..n2 : i <= cur - off \/ i = n2 \/ (A2[i] = {} /\ D2[i] = {})
      /\ \A i \in 1..n2 : i <= cur - off =>
            /\ i + off \in 1..cur /\ i + off \in 1..n
            /\ A2[i] = A[i + off] /\ D2[i] = D[i + off]
            /\ i # n2
  BY <1>7, <1>8, SlidIndex
<1>10. D2[n2] = y
  BY <1>7 DEF Slid
<1>11. \A i \in 1..n2 : X \cap D2[i] = {}
  BY <1>5, <1>6, <1>9, <1>10
<1> QED
  BY <1>4, <1>11 DEF NotDeleted, Push, r, n2, D2

\* What the tracker takes for new objects of collection c.
NewItems(c, items, C, P) ==
  /\ \/ c = "cars" /\ items \in Seq(C)
     \/ c = "parts" /\ items \in Seq(P)
  /\ Distinct(items)

\* Ids that may come in now: new ones or those an undone toast deletion frees.
Fresh(h, sc, X, own, strict) ==
  /\ NotDeleted(h, X)
  /\ strict => /\ \A x \in X : ~KnownIn(h, sc, x)
               /\ \A p \in Parts : p \in X => own[p] \in IdsIn(sc)

\* Recording additions to one collection.
LEMMA PushAddedFits ==
  ASSUME NEW C, NEW P, NEW own, NEW strict \in BOOLEAN, NEW h, NEW sc, Fits(h, sc, C, P, own, strict),
         NEW c, NEW items, NewItems(c, items, C, P), Fresh(h, sc, IdsOf(items), own, strict),
         NEW t, SceneOk(t, C, P), IdsIn(t) = IdsIn(sc) \cup IdsOf(items),
         NEW X, NotDeleted(h, X)
  PROVE /\ Fits(PushAdded(h, c, items), t, C, P, own, strict)
        /\ NotDeleted(PushAdded(h, c, items), X)
<1>1. CASE items = <<>>
  <2>1. IdsOf(items) = {}
    BY <1>1, EmptySet
  <2>2. IdsIn(t) = IdsIn(sc)
    BY <2>1
  <2>3. Fits(h, t, C, P, own, strict)
    BY <2>2, SameIdsFit
  <2> QED BY <1>1, <2>3 DEF PushAdded
<1>2. CASE items # <<>>
  <2> DEFINE e == Entry([kind |-> "remove", coll |-> c, ids |-> IdsOf(items)],
                        [kind |-> "restore", coll |-> c, items |-> items])
  <2>1. /\ e.undo.kind = "remove" /\ e.redo.kind = "restore" /\ e.undo.coll = c /\ e.redo.coll = c
        /\ e.undo.ids = IdsOf(items) /\ e.redo.items = items /\ e.snap = 0
    BY DEF Entry
  <2>2. PushAdded(h, c, items) = Push(h, e)
    BY <1>2 DEF PushAdded
  <2> HIDE DEF e
  <2>3. EntryOk(e, h.deletions, C, P)
    BY <2>1 DEF NewItems, EntryOk, AddEntry
  <2>4. AddIds(e) = IdsOf(items) /\ DelIds(e, h.deletions) = {}
    BY <2>1 DEF AddIds, DelIds
  <2>5. NextEntry(h, sc, e, own, strict)
    BY <2>4 DEF NextEntry, Fresh, NotDeleted
  <2>6. IdsIn(t) = (IdsIn(sc) \cup AddIds(e)) \ DelIds(e, h.deletions)
    BY <2>4
  <2>7. Fits(Push(h, e), t, C, P, own, strict)
    BY <2>3, <2>5, <2>6, PushOne
  <2>8. X \cap DelIds(e, h.deletions) = {}
    BY <2>4
  <2>9. NotDeleted(Push(h, e), X)
    BY <2>3, <2>8, PushNotDeleted
  <2> QED BY <2>2, <2>7, <2>9
<1> QED
  BY <1>1, <1>2

\* What appeared between two scenes.
LEMMA AddedSet ==
  ASSUME NEW S, NEW s \in Seq(S), NEW t \in Seq(S), Distinct(t)
  PROVE /\ Added(s, t) \in Seq(S) /\ Distinct(Added(s, t))
        /\ ToSet(Added(s, t)) = {x \in ToSet(t) : x.id \notin IdsOf(s)}
        /\ IdsOf(Added(s, t)) = IdsOf(t) \ IdsOf(s)
        /\ IdsOf(t) \subseteq IdsOf(s) => Added(s, t) = <<>>
<1> DEFINE a == Added(s, t)
<1>1. /\ a \in Seq(S) /\ Distinct(a)
      /\ ToSet(a) = {x \in ToSet(t) : x.id \notin IdsOf(s)}
  BY WithoutSet DEF Added
<1> HIDE DEF a
<1>2. IdsOf(a) = {x.id : x \in ToSet(a)} /\ IdsOf(t) = {x.id : x \in ToSet(t)}
  BY IdsOfSet
<1>3. IdsOf(a) = IdsOf(t) \ IdsOf(s)
  BY <1>1, <1>2
<1>4. ASSUME IdsOf(t) \subseteq IdsOf(s) PROVE a = <<>>
  <2>1. ToSet(a) = {}
    BY <1>1, <1>2, <1>4
  <2> QED BY <1>1, <2>1, NoElements
<1> QED
  BY <1>1, <1>3, <1>4 DEF a

\* The tracker records the objects that have come.
LEMMA TrackAddedFits ==
  ASSUME NEW C, NEW P, NEW own, Kinds(C, P, own), NEW strict \in BOOLEAN,
         NEW h, NEW sc, Fits(h, sc, C, P, own, strict),
         NEW t, SceneOk(t, C, P), IdsOf(sc.cars) \subseteq IdsOf(t.cars), IdsOf(sc.parts) \subseteq IdsOf(t.parts),
         Fresh(h, sc, IdsIn(t) \ IdsIn(sc), own, strict),
         strict => IdsOf(t.cars) \subseteq IdsOf(sc.cars) \/ IdsOf(t.parts) \subseteq IdsOf(sc.parts)
  PROVE Fits(TrackAdded(h, sc, t), t, C, P, own, strict)
<1> DEFINE a == Added(sc.cars, t.cars)
           b == Added(sc.parts, t.parts)
           u == [cars |-> t.cars, parts |-> sc.parts]
           g == PushAdded(h, "cars", a)
<1>0. SceneOk(sc, C, P)
  BY FitsScene
<1>1. sc.cars \in Seq(C) /\ sc.parts \in Seq(P) /\ Distinct(sc.cars) /\ Distinct(sc.parts)
      /\ t.cars \in Seq(C) /\ t.parts \in Seq(P) /\ Distinct(t.cars) /\ Distinct(t.parts)
  BY <1>0, SceneFacts
<1>2. a \in Seq(C) /\ Distinct(a) /\ IdsOf(a) = IdsOf(t.cars) \ IdsOf(sc.cars)
      /\ (IdsOf(t.cars) \subseteq IdsOf(sc.cars) => a = <<>>)
  BY <1>1, AddedSet
<1>3. b \in Seq(P) /\ Distinct(b) /\ IdsOf(b) = IdsOf(t.parts) \ IdsOf(sc.parts)
      /\ (IdsOf(t.parts) \subseteq IdsOf(sc.parts) => b = <<>>)
  BY <1>1, AddedSet
<1>4. IdsOf(t.cars) \subseteq Cars /\ IdsOf(t.parts) \subseteq Parts /\ IdsOf(sc.cars) \subseteq Cars /\ IdsOf(sc.parts) \subseteq Parts
  <2>1. \A x \in C : x.id \in Cars
    BY KindFacts
  <2>2. \A x \in P : x.id \in Parts
    BY KindFacts
  <2> QED BY <1>1, <2>1, <2>2 DEF IdsOf
<1>5. /\ IdsOf(a) \subseteq IdsIn(t) \ IdsIn(sc)
      /\ IdsOf(b) \subseteq IdsIn(t) \ IdsIn(sc)
      /\ IdsOf(a) \cap Parts = {}
  BY <1>2, <1>3, <1>4, IdAssumption DEF IdsIn
<1>6. SceneOk(u, C, P) /\ u.cars = t.cars /\ u.parts = sc.parts
  BY <1>1, TwoColls
<1>7. IdsIn(u) = IdsIn(sc) \cup IdsOf(a) /\ IdsIn(t) = IdsIn(u) \cup IdsOf(b)
  BY <1>2, <1>3, <1>6 DEF IdsIn
<1>8. TrackAdded(h, sc, t) = PushAdded(g, "parts", b)
  BY DEF TrackAdded
<1> HIDE DEF a, b, u, g
<1>9. NewItems("cars", a, C, P) /\ NewItems("parts", b, C, P)
  BY <1>2, <1>3 DEF NewItems
<1>10. NotDeleted(h, IdsOf(a)) /\ NotDeleted(h, IdsOf(b))
  BY <1>5 DEF Fresh, NotDeleted
<1>11. Fresh(h, sc, IdsOf(a), own, strict)
  BY <1>5, <1>10 DEF Fresh
<1>12. Fits(g, u, C, P, own, strict) /\ NotDeleted(g, IdsOf(b))
  <2> DEFINE X == IdsOf(b)
  <2>1. NotDeleted(h, X)
    BY <1>10
  <2> HIDE DEF X
  <2>2. Fits(PushAdded(h, "cars", a), u, C, P, own, strict) /\ NotDeleted(PushAdded(h, "cars", a), X)
    BY <1>6, <1>7, <1>9, <1>11, <2>1, PushAddedFits
  <2> QED BY <2>2 DEF g, X
<1>13. Fresh(g, u, IdsOf(b), own, strict)
  <2>1. CASE ~strict
    BY <1>12, <2>1 DEF Fresh
  <2>2. CASE strict /\ b = <<>>
    <3>1. IdsOf(b) = {}
      BY <2>2, EmptySet
    <3> QED BY <1>12, <3>1 DEF Fresh
  <2>3. CASE strict /\ a = <<>>
    <3>1. g = h
      BY <2>3 DEF g, PushAdded
    <3>2. IdsOf(a) = {}
      BY <2>3, EmptySet
    <3>3. IdsIn(u) = IdsIn(sc)
      BY <1>7, <3>2
    <3>4. \A x : KnownIn(h, u, x) <=> KnownIn(h, sc, x)
      BY <3>3 DEF KnownIn
    <3> QED BY <1>5, <1>10, <3>1, <3>3, <3>4 DEF Fresh
  <2> QED BY <1>2, <1>3, <2>1, <2>2, <2>3
<1>14. Fits(PushAdded(g, "parts", b), t, C, P, own, strict)
  <2> DEFINE X == IdsOf(b)
  <2>1. NotDeleted(g, X)
    BY <1>12
  <2> HIDE DEF X
  <2> QED BY <1>7, <1>9, <1>12, <1>13, <2>1, PushAddedFits
<1> QED
  BY <1>8, <1>14

\* An object is added at the end of its collection.
LEMMA AddFits ==
  ASSUME NEW C, NEW P, NEW own, Kinds(C, P, own), NEW strict \in BOOLEAN,
         NEW h, NEW sc, Fits(h, sc, C, P, own, strict),
         NEW item \in C \cup P, item.id \notin IdsIn(sc), Fresh(h, sc, {item.id}, own, strict)
  PROVE Fits(TrackAdded(h, sc, [sc EXCEPT ![CollOf(item)] = Append(@, item)]),
             [sc EXCEPT ![CollOf(item)] = Append(@, item)], C, P, own, strict)
<1> DEFINE t == [sc EXCEPT ![CollOf(item)] = Append(@, item)]
<1>0. SceneOk(sc, C, P)
  BY FitsScene
<1>1. sc.cars \in Seq(C) /\ sc.parts \in Seq(P) /\ Distinct(sc.cars) /\ Distinct(sc.parts)
      /\ sc["cars"] = sc.cars /\ sc["parts"] = sc.parts
      /\ IdsOf(sc.cars) = {x.id : x \in ToSet(sc.cars)} /\ IdsOf(sc.parts) = {x.id : x \in ToSet(sc.parts)}
  BY <1>0, SceneFacts, IdsOfSet
<1>2. \A x \in ToSet(sc.cars) \cup ToSet(sc.parts) : x.id # item.id
  BY <1>1 DEF IdsIn
<1>3. /\ SceneOk(t, C, P) /\ IdsOf(sc.cars) \subseteq IdsOf(t.cars) /\ IdsOf(sc.parts) \subseteq IdsOf(t.parts)
      /\ IdsIn(t) = IdsIn(sc) \cup {item.id}
      /\ t.cars = sc.cars \/ t.parts = sc.parts
  <2>1. CASE item \in C
    <3> DEFINE a == Append(sc.cars, item)
    <3>1. a \in Seq(C) /\ ToSet(a) = ToSet(sc.cars) \cup {item} /\ Distinct(a)
      <4>1. /\ a \in Seq(C) /\ ToSet(a) = ToSet(sc.cars) \cup {item}
            /\ (Distinct(sc.cars) /\ \A x \in ToSet(sc.cars) : x.id # item.id) => Distinct(a)
        <5> DEFINE q == sc.cars
        <5>1. q \in Seq(C)
          BY <1>1
        <5> HIDE DEF q
        <5>2. /\ Append(q, item) \in Seq(C) /\ ToSet(Append(q, item)) = ToSet(q) \cup {item}
              /\ (Distinct(q) /\ \A x \in ToSet(q) : x.id # item.id) => Distinct(Append(q, item))
          BY <2>1, <5>1, AppendSet
        <5> QED BY <5>2 DEF q
      <4> HIDE DEF a
      <4> QED BY <1>1, <1>2, <4>1
    <3>2. CollOf(item) = "cars"
      BY <2>1, KindFacts
    <3>3. t = Put(sc, "cars", a)
      BY <1>1, <3>2 DEF Put
    <3> HIDE DEF a, t
    <3>4. SceneOk(t, C, P) /\ t.cars = a /\ t.parts = sc.parts
      BY <1>0, <3>1, <3>3, SetCars
    <3>5. IdsOf(a) = IdsOf(sc.cars) \cup {item.id}
      <4>1. IdsOf(a) = {x.id : x \in ToSet(a)}
        BY IdsOfSet
      <4> QED BY <1>1, <3>1, <4>1
    <3> QED BY <3>4, <3>5 DEF IdsIn
  <2>2. CASE item \in P
    <3> DEFINE a == Append(sc.parts, item)
    <3>1. a \in Seq(P) /\ ToSet(a) = ToSet(sc.parts) \cup {item} /\ Distinct(a)
      <4>1. /\ a \in Seq(P) /\ ToSet(a) = ToSet(sc.parts) \cup {item}
            /\ (Distinct(sc.parts) /\ \A x \in ToSet(sc.parts) : x.id # item.id) => Distinct(a)
        <5> DEFINE q == sc.parts
        <5>1. q \in Seq(P)
          BY <1>1
        <5> HIDE DEF q
        <5>2. /\ Append(q, item) \in Seq(P) /\ ToSet(Append(q, item)) = ToSet(q) \cup {item}
              /\ (Distinct(q) /\ \A x \in ToSet(q) : x.id # item.id) => Distinct(Append(q, item))
          BY <2>2, <5>1, AppendSet
        <5> QED BY <5>2 DEF q
      <4> HIDE DEF a
      <4> QED BY <1>1, <1>2, <4>1
    <3>2. CollOf(item) = "parts"
      BY <2>2, KindFacts
    <3>3. t = Put(sc, "parts", a)
      BY <1>1, <3>2 DEF Put
    <3> HIDE DEF a, t
    <3>4. SceneOk(t, C, P) /\ t.parts = a /\ t.cars = sc.cars
      BY <1>0, <3>1, <3>3, SetParts
    <3>5. IdsOf(a) = IdsOf(sc.parts) \cup {item.id}
      <4>1. IdsOf(a) = {x.id : x \in ToSet(a)}
        BY IdsOfSet
      <4> QED BY <1>1, <3>1, <4>1
    <3> QED BY <3>4, <3>5 DEF IdsIn
  <2> QED BY <2>1, <2>2
<1> HIDE DEF t
<1>4. IdsIn(t) \ IdsIn(sc) = {item.id}
  BY <1>3
<1>5. Fresh(h, sc, IdsIn(t) \ IdsIn(sc), own, strict)
  BY <1>4
<1>6. strict => IdsOf(t.cars) \subseteq IdsOf(sc.cars) \/ IdsOf(t.parts) \subseteq IdsOf(sc.parts)
  BY <1>3
<1>7. Fits(TrackAdded(h, sc, t), t, C, P, own, strict)
  BY <1>3, <1>5, <1>6, TrackAddedFits
<1> QED
  BY <1>7 DEF t

-----------------------------------------------------------------------------
(* Toasts.                                                                 *)

\* A log without one of its entries.
Shortened(n, A, D, at, A2, D2) ==
  \A k \in 1..(n - 1) : A2[k] = A[IF k < at THEN k ELSE k + 1] /\ D2[k] = D[IF k < at THEN k ELSE k + 1]

\* A log without one of the entries that are done.
LEMMA LogForget ==
  ASSUME NEW n, NEW A, NEW D, NEW cur, NEW S, LogOk(n, A, D, cur, S), NEW at \in 1..cur,
         NEW A2, NEW D2, Shortened(n, A, D, at, A2, D2)
  PROVE /\ LogOk(n - 1, A2, D2, cur - 1, S)
        /\ \A k \in 1..(cur - 1) : D2[k] \cap D[at] = {}
        /\ D[at] \cap S = {}
<1> DEFINE old(k) == IF k < at THEN k ELSE k + 1
<1>1. n \in Nat /\ cur \in Nat /\ cur <= n /\ at \in 1..n /\ at <= cur
  BY DEF LogOk
<1>2. /\ n - 1 \in Nat /\ cur - 1 \in 0..(n - 1) /\ 1..(cur - 1) \subseteq 1..(n - 1)
      /\ \A k \in 1..(n - 1) : old(k) \in 1..n /\ (old(k) < at \/ at < old(k))
      /\ \A k, l \in 1..(n - 1) : k < l => old(k) < old(l)
      /\ \A k \in 1..(cur - 1) : old(k) \in 1..cur
  BY <1>1
<1>3. \A k \in 1..(n - 1) : A2[k] = A[old(k)] /\ D2[k] = D[old(k)]
  BY DEF Shortened
<1> HIDE DEF old
<1>4. /\ \A i \in 1..n : A[i] \cap D[i] = {}
      /\ \A i, j \in 1..n : i < j => D[i] \cap (A[j] \cup D[j]) = {}
      /\ \A i \in 1..cur : D[i] \cap S = {}
  BY DEF LogOk
<1>5. \A i \in 1..(n - 1) : A2[i] \cap D2[i] = {}
  BY <1>2, <1>3, <1>4
<1>6. \A i, j \in 1..(n - 1) : i < j => D2[i] \cap (A2[j] \cup D2[j]) = {}
  BY <1>2, <1>3, <1>4
<1>7. \A i \in 1..(cur - 1) : D2[i] \cap S = {}
  BY <1>2, <1>3, <1>4
<1>8. LogOk(n - 1, A2, D2, cur - 1, S)
  BY <1>2, <1>5, <1>6, <1>7 DEF LogOk
<1>9. ASSUME NEW k \in 1..(cur - 1) PROVE D2[k] \cap D[at] = {}
  <2>1. k \in 1..(n - 1) /\ old(k) \in 1..n /\ D2[k] = D[old(k)]
    BY <1>2, <1>3
  <2>2. CASE old(k) < at
    BY <1>1, <1>4, <2>1, <2>2
  <2>3. CASE at < old(k)
    BY <1>1, <1>4, <2>1, <2>3
  <2> QED BY <1>2, <2>1, <2>2, <2>3
<1> QED
  BY <1>4, <1>8, <1>9

\* The entry of a deletion that was not undone is forgotten.
LEMMA ForgetFits ==
  ASSUME NEW C, NEW P, NEW own, NEW strict, NEW h, NEW sc, Fits(h, sc, C, P, own, strict),
         NEW top \in Nat, SnapsOk(h, top), NEW snap, snap \in Snaps(h.stack), ~Undone(h, snap)
  PROVE /\ Fits(Forget(h, snap), sc, C, P, own, FALSE)
        /\ SnapOk(h.deletions[snap], C, P)
        /\ SnapIds(h.deletions[snap]) \cap IdsIn(sc) = {}
        /\ NotDeleted(Forget(h, snap), SnapIds(h.deletions[snap]))
<1> DEFINE r == Forget(h, snap)
           at == EntryOf(h, snap)
           n == Len(h.stack)
           A == Adds(h)
           D == Dels(h)
           S == IdsIn(sc)
           cur == h.cursor
           s == h.deletions[snap]
<1>1. /\ IsHist(h) /\ IsSeq(h.stack) /\ cur \in 0..n /\ n \in Nat /\ SceneOk(sc, C, P)
      /\ \A i \in 1..n : EntryOk(h.stack[i], h.deletions, C, P)
      /\ LogOk(n, A, D, cur, S)
  BY DEF Fits, HistOk, LogOk
<1>2. /\ at \in 1..n /\ h.stack[at].snap = snap /\ snap # 0
      /\ r = [stack |-> RemoveAt(h.stack, at),
              cursor |-> IF at <= h.cursor THEN h.cursor - 1 ELSE h.cursor,
              deletions |-> RestrictTo(h.deletions, DOMAIN h.deletions \ {snap})]
  BY <1>1, ForgetIs
<1>3. DOMAIN h.stack = 1..n
  BY <1>1 DEF IsSeq
<1>4. at \in 1..cur /\ at <= h.cursor
  <2>1. ~(at > h.cursor)
    BY <1>2, <1>3 DEF Undone
  <2> QED BY <1>1, <1>2, <2>1
<1>5. /\ r.stack \in Seq(ToSet(h.stack)) /\ Len(r.stack) = n - 1
      /\ \A k \in 1..(n - 1) : r.stack[k] = IF k < at THEN h.stack[k] ELSE h.stack[k + 1]
  <2> DEFINE q == h.stack
             i == at
             X == ToSet(h.stack)
  <2>1. q \in Seq(X) /\ i \in DOMAIN q /\ r.stack = RemoveAt(q, i) /\ Len(q) = n
    BY <1>1, <1>2, <1>3 DEF IsSeq
  <2> HIDE DEF q, i, X, n, r
  <2>2. /\ RemoveAt(q, i) \in Seq(X) /\ Len(RemoveAt(q, i)) = Len(q) - 1
        /\ \A k \in 1..(Len(q) - 1) : RemoveAt(q, i)[k] = IF k < i THEN q[k] ELSE q[k + 1]
    BY <2>1, RemoveAtSet
  <2>3. r.stack \in Seq(X) /\ Len(r.stack) = n - 1
        /\ \A k \in 1..(n - 1) : r.stack[k] = IF k < i THEN q[k] ELSE q[k + 1]
    BY <2>1, <2>2
  <2> QED BY <2>3 DEF q, i, X
<1>6. /\ IsHist(r) /\ IsSeq(r.stack) /\ r.cursor = cur - 1
      /\ r.deletions = RestrictTo(h.deletions, DOMAIN h.deletions \ {snap})
  BY <1>2, <1>4, <1>5, SeqIsSeq DEF IsHist
<1>7. DeleteEntry(h.stack[at], h.deletions, C, P)
  <2>1. EntryOk(h.stack[at], h.deletions, C, P) /\ h.stack[at].snap # 0
    BY <1>1, <1>2
  <2> QED BY <2>1 DEF EntryOk, AddEntry, PatchEntry, CutEntry, ValsEntry
<1>8. SnapOk(s, C, P) /\ D[at] = SnapIds(s)
  BY <1>2, <1>7 DEF DeleteEntry, Dels, DelIds, SnapIds
<1> DEFINE old(k) == IF k < at THEN k ELSE k + 1
<1>9. \A k \in 1..(n - 1) : old(k) \in 1..n /\ old(k) # at /\ r.stack[k] = h.stack[old(k)]
  BY <1>1, <1>2, <1>5
<1>9a. \A k : old(k) = IF k < at THEN k ELSE k + 1
  OBVIOUS
<1> HIDE DEF r, at, n, A, D, S, cur, s, old
<1>10. ASSUME NEW k \in 1..(n - 1)
       PROVE /\ EntryOk(r.stack[k], r.deletions, C, P)
             /\ DelIds(r.stack[k], r.deletions) = DelIds(h.stack[old(k)], h.deletions)
  <2>1. \A i, j \in 1..n : h.stack[i].snap = h.stack[j].snap /\ h.stack[i].snap # 0 => i = j
    BY DEF SnapsOk, n
  <2>2. r.stack[k].snap # snap
    BY <1>2, <1>9, <2>1
  <2>3. SameSnap(r.stack[k], h.deletions, r.deletions)
    BY <1>6, <2>2 DEF SameSnap, RestrictTo
  <2>4. EntryOk(r.stack[k], h.deletions, C, P)
    BY <1>1, <1>9
  <2> QED BY <1>9, <2>3, <2>4, SameEntry
<1>11. ASSUME NEW k \in 1..(n - 1) PROVE Adds(r)[k] = A[old(k)] /\ Dels(r)[k] = D[old(k)]
  BY <1>5, <1>9, <1>10 DEF Adds, Dels, A, D, n
<1> DEFINE A2 == Adds(r)
           D2 == Dels(r)
<1>12. Shortened(n, A, D, at, A2, D2)
  BY <1>9a, <1>11 DEF Shortened
<1> HIDE DEF A2, D2
<1>13. /\ LogOk(n - 1, A2, D2, cur - 1, S)
       /\ \A k \in 1..(cur - 1) : D2[k] \cap D[at] = {}
       /\ D[at] \cap S = {}
  BY <1>1, <1>4, <1>12, LogForget
<1>14. HistOk(r, sc, C, P)
  <2>1. r.cursor \in 0..Len(r.stack)
    BY <1>5, <1>6, <1>13 DEF LogOk
  <2>2. \A i \in 1..Len(r.stack) : EntryOk(r.stack[i], r.deletions, C, P)
    BY <1>5, <1>10
  <2>3. LogOk(Len(r.stack), Adds(r), Dels(r), r.cursor, IdsIn(sc))
    BY <1>5, <1>6, <1>13 DEF A2, D2, S
  <2> QED BY <1>1, <1>6, <2>1, <2>2, <2>3 DEF HistOk
<1>15. NotDeleted(r, SnapIds(s))
  BY <1>6, <1>8, <1>13 DEF NotDeleted, D2
<1> QED
  BY <1>8, <1>13, <1>14, <1>15 DEF Fits, r, s, S

\* The toast of a deletion brings the objects back.
LEMMA RestoreFits ==
  ASSUME NEW C, NEW P, NEW own, Kinds(C, P, own), NEW strict,
         NEW h, NEW sc, Fits(h, sc, C, P, own, strict),
         NEW top \in Nat, SnapsOk(h, top), NEW snap, snap \in Snaps(h.stack), ~Undone(h, snap)
  PROVE LET t == RestoreSnapshot(sc, h.deletions[snap]) IN
        Fits(TrackAdded(Forget(h, snap), sc, t), t, C, P, own, FALSE)
<1> DEFINE s == h.deletions[snap]
           t == RestoreSnapshot(sc, s)
           g == Forget(h, snap)
<1>1. /\ Fits(g, sc, C, P, own, FALSE)
      /\ SnapOk(s, C, P)
      /\ SnapIds(s) \cap IdsIn(sc) = {}
      /\ NotDeleted(g, SnapIds(s))
  BY ForgetFits
<1>2. SceneOk(sc, C, P)
  BY FitsScene
<1> HIDE DEF s, g
<1>3. /\ SceneOk(t, C, P)
      /\ CarsOf(t) = CarsOf(sc) \cup ({s.item} \cap C)
      /\ PartsOf(t) = PartsOf(sc) \cup ({s.item} \cap P) \cup ToSet(s.parts)
      /\ IdsIn(t) = IdsIn(sc) \cup SnapIds(s)
  BY <1>1, <1>2, UnsnapScene
<1> HIDE DEF t
<1>4. \A q : IdsOf(q) = {x.id : x \in ToSet(q)}
  BY IdsOfSet
<1>5. IdsOf(sc.cars) \subseteq IdsOf(t.cars) /\ IdsOf(sc.parts) \subseteq IdsOf(t.parts)
  BY <1>3, <1>4 DEF CarsOf, PartsOf
<1>6. IdsIn(t) \ IdsIn(sc) = SnapIds(s)
  BY <1>1, <1>3
<1>7. Fresh(g, sc, IdsIn(t) \ IdsIn(sc), own, FALSE)
  BY <1>1, <1>6 DEF Fresh
<1>8. Fits(TrackAdded(g, sc, t), t, C, P, own, FALSE)
  BY <1>1, <1>3, <1>5, <1>7, TrackAddedFits
<1> QED
  BY <1>8 DEF t, s, g

-----------------------------------------------------------------------------
(* Deletions.                                                              *)

\* Snapshots that the entries do not refer to do not matter.
LEMMA MoreSnaps ==
  ASSUME NEW C, NEW P, NEW own, NEW strict, NEW h, NEW sc, Fits(h, sc, C, P, own, strict),
         NEW r, IsHist(r), r.stack = h.stack, r.cursor = h.cursor,
         \A i \in 1..Len(h.stack) : SameSnap(h.stack[i], h.deletions, r.deletions)
  PROVE Fits(r, sc, C, P, own, strict)
<1>1. \A i \in 1..Len(h.stack) : EntryOk(h.stack[i], h.deletions, C, P)
  BY DEF Fits, HistOk
<1>2. \A i \in 1..Len(h.stack) :
        /\ EntryOk(h.stack[i], r.deletions, C, P)
        /\ DelIds(h.stack[i], r.deletions) = DelIds(h.stack[i], h.deletions)
  BY <1>1, SameEntry
<1>3. Adds(r) = Adds(h)
  BY DEF Adds
<1>4. Dels(r) = Dels(h)
  BY <1>2 DEF Dels
<1>5. HistOk(r, sc, C, P)
  BY <1>2, <1>3, <1>4 DEF Fits, HistOk
<1>6. strict => OrderOk(r, sc, own)
  BY <1>3, <1>4 DEF Fits, OrderOk
<1> QED
  BY <1>5, <1>6 DEF Fits

\* The snapshot taken of an object of the scene.
LEMMA SnapshotOk ==
  ASSUME NEW C, NEW P, NEW own, Kinds(C, P, own), NEW sc, SceneOk(sc, C, P), NEW id, Present(sc, id)
  PROVE /\ SnapOk(Snapshot(sc, id), C, P)
        /\ Snapshot(sc, id).item.id = id
        /\ SnapIds(Snapshot(sc, id)) \subseteq IdsIn(sc)
        /\ \A p \in Parts : p \in IdsIn(sc) /\ own[p] \in SnapIds(Snapshot(sc, id)) => p \in SnapIds(Snapshot(sc, id))
<1> DEFINE s == Snapshot(sc, id)
           item == TheItem(sc, id)
           parts == OwnedBy(sc.parts, {id})
           at == IndexIn(sc[CollOf(item)], id)
<1>1. sc.cars \in Seq(C) /\ sc.parts \in Seq(P) /\ Distinct(sc.cars) /\ Distinct(sc.parts)
      /\ sc["cars"] = sc.cars /\ sc["parts"] = sc.parts
      /\ CarsOf(sc) \subseteq C /\ PartsOf(sc) \subseteq P
  BY SceneFacts DEF CarsOf, PartsOf
<1>2. item \in CarsOf(sc) \cup PartsOf(sc) /\ item.id = id
  BY ItemsOfScene
<1>3. parts \in Seq(P) /\ Distinct(parts) /\ ToSet(parts) = {x \in PartsOf(sc) : x.owner \in {id}}
  <2>1. parts \in Seq(P) /\ ToSet(parts) = {x \in ToSet(sc.parts) : x.owner \in {id}}
        /\ (Distinct(sc.parts) => Distinct(parts))
    BY <1>1, OwnedBySet
  <2> HIDE DEF parts
  <2> QED BY <1>1, <2>1 DEF PartsOf
<1>4. s = [item |-> item, at |-> at, parts |-> parts]
  BY DEF Snapshot
<1>5. at \in Nat \ {0}
  <2>1. CASE item \in CarsOf(sc)
    <3>1. CollOf(item) = "cars"
      BY <1>1, <2>1, KindFacts
    <3>2. \E i \in DOMAIN sc.cars : sc.cars[i].id = id
      BY <1>2, <2>1 DEF CarsOf, ToSet
    <3>3. at \in DOMAIN sc.cars
      BY <1>1, <3>1, <3>2 DEF IndexIn
    <3> QED BY <1>1, <3>3
  <2>2. CASE item \in PartsOf(sc)
    <3>1. CollOf(item) = "parts"
      BY <1>1, <2>2, KindFacts
    <3>2. \E i \in DOMAIN sc.parts : sc.parts[i].id = id
      BY <1>2, <2>2 DEF PartsOf, ToSet
    <3>3. at \in DOMAIN sc.parts
      BY <1>1, <3>1, <3>2 DEF IndexIn
    <3> QED BY <1>1, <3>3
  <2> QED BY <1>2, <2>1, <2>2
<1> HIDE DEF s, item, parts, at
<1>6. s.item = item /\ s.at = at /\ s.parts = parts
  BY <1>4
<1>7. SnapOk(s, C, P)
  BY <1>1, <1>2, <1>3, <1>5, <1>6 DEF SnapOk
<1>8. SnapIds(s) = {id} \cup {x.id : x \in ToSet(parts)}
  BY <1>2, <1>6, IdsOfSet DEF SnapIds
<1>9. IdsIn(sc) = {x.id : x \in CarsOf(sc) \cup PartsOf(sc)}
  BY IdsInOf
<1>10. SnapIds(s) \subseteq IdsIn(sc)
  BY <1>2, <1>3, <1>8, <1>9
<1>11. ASSUME NEW p \in Parts, p \in IdsIn(sc), own[p] \in SnapIds(s) PROVE p \in SnapIds(s)
  <2>1. PICK x \in CarsOf(sc) \cup PartsOf(sc) : x.id = p
    BY <1>9, <1>11
  <2>2. x \in PartsOf(sc) /\ x.owner = own[p] /\ x.owner \in Cars
    BY <1>1, <2>1, KindFacts
  <2>3. \A y \in ToSet(parts) : y.id \notin Cars
    BY <1>1, <1>3, KindFacts
  <2>4. own[p] = id
    BY <1>8, <1>11, <2>2, <2>3
  <2> QED BY <1>3, <1>8, <2>1, <2>2, <2>4
<1> QED
  BY <1>2, <1>6, <1>7, <1>10, <1>11 DEF s

\* r is the history h with one more snapshot, and e the entry that refers to it.
WithSnap(h, r, snap, s) ==
  /\ IsHist(r) /\ r.stack = h.stack /\ r.cursor = h.cursor
  /\ snap # 0 /\ snap \in DOMAIN r.deletions /\ r.deletions[snap] = s
  /\ \A i \in 1..Len(h.stack) : SameSnap(h.stack[i], h.deletions, r.deletions)
\* The entry of a deletion by key.
DeletionOf(e, snap, id) ==
  e.undo = [kind |-> "unsnap", snap |-> snap] /\ e.redo = [kind |-> "delete", id |-> id] /\ e.snap = snap

\* The Delete key: the history with the snapshot and the entry, the scene without the object.
LEMMA DeleteFits ==
  ASSUME NEW C, NEW P, NEW own, Kinds(C, P, own), NEW strict \in BOOLEAN,
         NEW h, NEW sc, Fits(h, sc, C, P, own, strict), NEW id, Present(sc, id),
         NEW r, NEW snap, WithSnap(h, r, snap, Snapshot(sc, id)), NEW e, DeletionOf(e, snap, id)
  PROVE Fits(Push(r, e), RemoveItems(sc, {id}), C, P, own, strict)
<1> DEFINE s == Snapshot(sc, id)
           t == RemoveItems(sc, {id})
<1>0. SceneOk(sc, C, P)
  BY FitsScene
<1>1. Fits(r, sc, C, P, own, strict)
  BY MoreSnaps DEF WithSnap
<1>2. /\ SnapOk(s, C, P) /\ s.item.id = id /\ SnapIds(s) \subseteq IdsIn(sc)
      /\ \A p \in Parts : p \in IdsIn(sc) /\ own[p] \in SnapIds(s) => p \in SnapIds(s)
  BY <1>0, SnapshotOk
<1>3. r.deletions[e.snap] = s /\ e.undo.kind = "unsnap" /\ e.undo.snap = snap /\ e.redo.kind = "delete" /\ e.redo.id = id
      /\ e.snap = snap /\ snap # 0 /\ snap \in DOMAIN r.deletions
  BY DEF WithSnap, DeletionOf
<1> HIDE DEF s
<1>4. EntryOk(e, r.deletions, C, P)
  BY <1>2, <1>3 DEF EntryOk, DeleteEntry
<1>5. AddIds(e) = {} /\ DelIds(e, r.deletions) = SnapIds(s)
  BY <1>3 DEF AddIds, DelIds, SnapIds
<1>6. Apply(e.redo, sc, r.deletions) = t
  BY <1>3 DEF Apply
<1> HIDE DEF t
<1>7. /\ SceneOk(t, C, P)
      /\ IdsIn(t) = (IdsIn(sc) \cup AddIds(e)) \ DelIds(e, r.deletions)
  <2>1. \A p \in Parts : p \in IdsIn(sc) /\ own[p] \in DelIds(e, r.deletions) => p \in DelIds(e, r.deletions)
    BY <1>2, <1>5
  <2>2. /\ SceneOk(Apply(e.redo, sc, r.deletions), C, P)
        /\ (\A p \in Parts : p \in IdsIn(sc) /\ own[p] \in DelIds(e, r.deletions) => p \in DelIds(e, r.deletions))
             => IdsIn(Apply(e.redo, sc, r.deletions)) = (IdsIn(sc) \cup AddIds(e)) \ DelIds(e, r.deletions)
    BY <1>0, <1>4, RedoKeeps
  <2> QED BY <1>6, <2>1, <2>2
<1>8. NextEntry(r, sc, e, own, strict)
  BY <1>2, <1>5 DEF NextEntry
<1>9. Fits(Push(r, e), t, C, P, own, strict)
  BY <1>1, <1>4, <1>7, <1>8, PushOne
<1> QED
  BY <1>9 DEF t

\* The objects a deletion of selected ones finds.
LEMMA RemovedSet ==
  ASSUME NEW S, NEW s \in Seq(S), Distinct(s), NEW ids
  PROVE /\ RemovedOk(Removed(s, ids), S)
        /\ ItemsOf(Removed(s, ids)) = {x \in ToSet(s) : x.id \in ids \/ x.owner \in ids}
<1> DEFINE indexed == [i \in DOMAIN s |-> [item |-> s[i], at |-> i]]
           I == {i \in DOMAIN s : s[i].id \in ids \/ s[i].owner \in ids}
           r == Filter(indexed, I)
<1>1. DOMAIN s = 1..Len(s) /\ Len(s) \in Nat /\ \A i \in DOMAIN s : s[i] \in S
  OBVIOUS
<1>2. indexed \in Seq(RemovedFrom(S)) /\ DOMAIN indexed = DOMAIN s
  BY <1>1 DEF RemovedFrom
<1>3. \A i \in DOMAIN s : indexed[i].item = s[i]
  OBVIOUS
<1>4. I \subseteq DOMAIN indexed
  BY <1>2
<1>4a. I = {i \in DOMAIN s : s[i].id \in ids \/ s[i].owner \in ids}
  OBVIOUS
<1>4b. r = Removed(s, ids)
  BY DEF Removed
<1> HIDE DEF indexed, I
<1>5. /\ r \in Seq(RemovedFrom(S))
      /\ \E m \in [1..Len(r) -> I] :
           /\ \A i, j \in 1..Len(r) : m[i] = m[j] => i = j
           /\ \A x \in I : \E i \in 1..Len(r) : m[i] = x
           /\ \A i \in 1..Len(r) : r[i] = indexed[m[i]]
  BY <1>2, <1>4, FilterKeeps
<1> HIDE DEF r
<1>6. PICK m \in [1..Len(r) -> I] :
           /\ \A i, j \in 1..Len(r) : m[i] = m[j] => i = j
           /\ \A x \in I : \E i \in 1..Len(r) : m[i] = x
           /\ \A i \in 1..Len(r) : r[i] = indexed[m[i]]
  BY <1>5
<1>7. DOMAIN r = 1..Len(r)
  BY <1>5
<1>8. \A i \in DOMAIN r : m[i] \in I /\ m[i] \in DOMAIN s /\ r[i].item = s[m[i]]
  BY <1>3, <1>4a, <1>6, <1>7
<1>9. \A i, j \in DOMAIN r : r[i].item.id = r[j].item.id => i = j
  BY <1>6, <1>7, <1>8 DEF Distinct
<1>10. ItemsOf(r) = {s[i] : i \in I}
  BY <1>6, <1>7, <1>8 DEF ItemsOf
<1>11. {s[i] : i \in I} = {x \in ToSet(s) : x.id \in ids \/ x.owner \in ids}
  BY <1>4a DEF ToSet
<1> QED
  BY <1>4b, <1>5, <1>9, <1>10, <1>11 DEF RemovedOk

\* The ids of removed objects.
LEMMA RemovedIdsOf ==
  ASSUME NEW a
  PROVE RemovedIds(a) = {x.id : x \in ItemsOf(a)} /\ RemovedIds(a) = {r.item.id : r \in ToSet(a)}
BY DEF RemovedIds, ItemsOf, ToSet

\* An entry that takes objects out, recorded when its step is done.
LEMMA PushTaken ==
  ASSUME NEW C, NEW P, NEW own, Kinds(C, P, own), NEW strict \in BOOLEAN,
         NEW h, NEW sc, Fits(h, sc, C, P, own, strict),
         NEW e, EntryOk(e, h.deletions, C, P), AddIds(e) = {}, NEW Y, DelIds(e, h.deletions) = Y,
         Y \subseteq IdsIn(sc), \A p \in Parts : p \in IdsIn(sc) /\ own[p] \in Y => p \in Y
  PROVE Fits(Push(h, e), Apply(e.redo, sc, h.deletions), C, P, own, strict)
<1> DEFINE t == Apply(e.redo, sc, h.deletions)
<1>0. SceneOk(sc, C, P)
  BY FitsScene
<1>1. \A p \in Parts : p \in IdsIn(sc) /\ own[p] \in DelIds(e, h.deletions) => p \in DelIds(e, h.deletions)
  OBVIOUS
<1>2. SceneOk(t, C, P) /\ IdsIn(t) = (IdsIn(sc) \cup AddIds(e)) \ DelIds(e, h.deletions)
  BY <1>0, <1>1, RedoKeeps
<1> HIDE DEF t
<1>3. NextEntry(h, sc, e, own, strict)
  BY DEF NextEntry
<1>4. Fits(Push(h, e), t, C, P, own, strict)
  BY <1>2, <1>3, PushOne
<1> QED
  BY <1>4 DEF t

\* The entry e of a deletion of the objects of ids.
CutOf(e, sc, ids, gone) ==
  /\ gone = {r.item.id : r \in ToSet(Removed(sc.cars, ids)) \cup ToSet(Removed(sc.parts, ids))}
  /\ e.undo.kind = "splice" /\ e.undo.removed["cars"] = Removed(sc.cars, ids)
  /\ e.undo.removed["parts"] = Removed(sc.parts, ids)
  /\ e.redo.kind = "cut" /\ e.redo.ids = gone /\ e.snap = 0

\* Delete selected.
LEMMA CutFits ==
  ASSUME NEW C, NEW P, NEW own, Kinds(C, P, own), NEW strict \in BOOLEAN,
         NEW h, NEW sc, Fits(h, sc, C, P, own, strict), NEW ids, ids \subseteq IdsIn(sc),
         NEW gone, NEW e, CutOf(e, sc, ids, gone)
  PROVE Fits(Push(h, e), Cut(sc, gone), C, P, own, strict)
<1> DEFINE rc == Removed(sc.cars, ids)
           rp == Removed(sc.parts, ids)
           t == Cut(sc, gone)
<1>0. SceneOk(sc, C, P)
  BY FitsScene
<1>1. sc.cars \in Seq(C) /\ sc.parts \in Seq(P) /\ Distinct(sc.cars) /\ Distinct(sc.parts)
      /\ sc["cars"] = sc.cars /\ sc["parts"] = sc.parts
      /\ CarsOf(sc) \subseteq C /\ PartsOf(sc) \subseteq P
      /\ IdsIn(sc) = {x.id : x \in CarsOf(sc) \cup PartsOf(sc)}
  BY <1>0, SceneFacts DEF CarsOf, PartsOf
<1>3. /\ RemovedOk(rc, C) /\ ItemsOf(rc) = {x \in CarsOf(sc) : x.id \in ids \/ x.owner \in ids}
      /\ RemovedOk(rp, P) /\ ItemsOf(rp) = {x \in PartsOf(sc) : x.id \in ids \/ x.owner \in ids}
  <2>1. RemovedOk(Removed(sc.cars, ids), C)
        /\ ItemsOf(Removed(sc.cars, ids)) = {x \in ToSet(sc.cars) : x.id \in ids \/ x.owner \in ids}
    BY <1>1, RemovedSet
  <2>2. RemovedOk(Removed(sc.parts, ids), P)
        /\ ItemsOf(Removed(sc.parts, ids)) = {x \in ToSet(sc.parts) : x.id \in ids \/ x.owner \in ids}
    BY <1>1, RemovedSet
  <2> QED BY <2>1, <2>2 DEF CarsOf, PartsOf
<1>5. RemovedIds(rc) = {x.id : x \in ItemsOf(rc)} /\ RemovedIds(rp) = {x.id : x \in ItemsOf(rp)}
  BY RemovedIdsOf
<1>4. gone = RemovedIds(rc) \cup RemovedIds(rp)
  <2>1. RemovedIds(rc) = {r.item.id : r \in ToSet(rc)} /\ RemovedIds(rp) = {r.item.id : r \in ToSet(rp)}
    BY RemovedIdsOf
  <2>2. gone = {r.item.id : r \in ToSet(rc) \cup ToSet(rp)}
    BY DEF CutOf
  <2> HIDE DEF rc, rp
  <2> QED BY <2>1, <2>2
<1>6. e.undo.kind = "splice" /\ e.undo.removed["cars"] = rc /\ e.undo.removed["parts"] = rp
      /\ e.redo.kind = "cut" /\ e.redo.ids = gone /\ e.snap = 0
  BY DEF CutOf
<1> HIDE DEF rc, rp
<1>7. \A i \in ids : i # NoOne /\ i \in Cars \cup Parts
  BY <1>1, KindFacts, IdAssumption
<1>8. EntryOk(e, h.deletions, C, P)
  BY <1>3, <1>4, <1>6 DEF EntryOk, CutEntry
<1>9. AddIds(e) = {} /\ DelIds(e, h.deletions) = gone
  BY <1>6 DEF AddIds, DelIds
<1>10. gone \subseteq IdsIn(sc)
  BY <1>1, <1>3, <1>4, <1>5
<1>11. ASSUME NEW p \in Parts, p \in IdsIn(sc), own[p] \in gone PROVE p \in gone
  <2>1. PICK x \in CarsOf(sc) \cup PartsOf(sc) : x.id = p
    BY <1>1, <1>11
  <2>2. x \in PartsOf(sc) /\ x.owner = own[p] /\ x.owner \in Cars
    BY <1>1, <2>1, KindFacts
  <2>3. PICK y \in ItemsOf(rc) \cup ItemsOf(rp) : y.id = own[p]
    BY <1>4, <1>5, <1>11
  <2>4. y \in ItemsOf(rc)
    BY <1>1, <1>3, <2>2, <2>3, KindFacts
  <2>5. y.owner = NoOne
    BY <1>1, <1>3, <2>4, KindFacts
  <2>6. own[p] \in ids
    BY <1>3, <1>7, <2>3, <2>4, <2>5
  <2>7. x \in ItemsOf(rp)
    BY <1>3, <2>2, <2>6
  <2> QED BY <1>4, <1>5, <2>1, <2>7
<1>12. Apply(e.redo, sc, h.deletions) = t
  BY <1>6 DEF Apply, Cut
<1>13. Fits(Push(h, e), Apply(e.redo, sc, h.deletions), C, P, own, strict)
  BY <1>8, <1>9, <1>10, <1>11, PushTaken
<1> QED
  BY <1>12, <1>13

\* A field of the selected objects.
LEMMA ValsFits ==
  ASSUME NEW C, NEW P, NEW own, Kinds(C, P, own), NEW strict \in BOOLEAN,
         NEW h, NEW sc, Fits(h, sc, C, P, own, strict),
         NEW old, NEW new, \A i \in DOMAIN old : old[i] \in Vals, \A i \in DOMAIN new : new[i] \in Vals,
         NEW e, e.undo = [kind |-> "vals", vals |-> old], e.redo = [kind |-> "vals", vals |-> new], e.snap = 0
  PROVE Fits(Push(h, e), Revalued(sc, new), C, P, own, strict)
<1> DEFINE t == Revalued(sc, new)
<1>0. SceneOk(sc, C, P)
  BY FitsScene
<1>1. e.undo.kind = "vals" /\ e.redo.kind = "vals" /\ e.undo.vals = old /\ e.redo.vals = new
  OBVIOUS
<1>2. EntryOk(e, h.deletions, C, P)
  BY <1>1 DEF EntryOk, ValsEntry
<1>3. AddIds(e) = {} /\ DelIds(e, h.deletions) = {}
  BY <1>1 DEF AddIds, DelIds
<1>4. SceneOk(t, C, P) /\ IdsIn(t) = IdsIn(sc)
  BY <1>0, ValsScene
<1> HIDE DEF t
<1>5. IdsIn(t) = (IdsIn(sc) \cup AddIds(e)) \ DelIds(e, h.deletions)
  BY <1>3, <1>4
<1>6. NextEntry(h, sc, e, own, strict)
  BY <1>3 DEF NextEntry
<1>7. Fits(Push(h, e), t, C, P, own, strict)
  BY <1>2, <1>4, <1>5, <1>6, PushOne
<1> QED
  BY <1>7 DEF t

\* Where the history orders the scene, a part has its car.
LEMMA NoOrphanFits ==
  ASSUME NEW C, NEW P, NEW own, Kinds(C, P, own), NEW strict, NEW h, NEW sc, Fits(h, sc, C, P, own, strict), strict
  PROVE \A x \in PartsOf(sc) : x.owner = own[x.id] /\ x.owner \in IdsIn(sc)
<1> DEFINE n == Len(h.stack)
           A == Adds(h)
           D == Dels(h)
           S == IdsIn(sc)
           cur == h.cursor
<1>1. /\ SceneOk(sc, C, P) /\ LogOk(n, A, D, cur, S)
      /\ Replayed(n, A, D, cur, S) /\ OwnersFirst(n, A, D, S, Parts, own)
  BY DEF Fits, HistOk, OrderOk
<1>2. \A x \in PartsOf(sc) : x.id \in S /\ x \in P
  BY <1>1, IdsInOf, SceneFacts DEF PartsOf
<1> HIDE DEF n, A, D, S, cur
<1>3. \A x \in PartsOf(sc) : x.id \in Parts /\ x.owner = own[x.id]
  BY <1>2, KindFacts
<1>4. \A x \in PartsOf(sc) : own[x.id] \in S
  BY <1>1, <1>2, <1>3, NoOrphanInLog
<1> QED
  BY <1>3, <1>4 DEF S

-----------------------------------------------------------------------------
(* The inductive invariant.                                                *)

\* A drag remembers the object as it was.
DragOk(d, C, P) ==
  \/ d = NoDrag
  \/ d \in [id : Cars \cup Parts, before : C \cup P, attached : BOOLEAN] /\ d.before.id = d.id

\* The history fits the scene; what the tracker, a drag and a toast remember.
EditOk(C, P, own) ==
  /\ Fits(hist, scene, C, P, own, ~restored)
  /\ pending \in Seq(C \cup P)
  /\ DragOk(drag, C, P)
  /\ toast.snap # 0 => toast.snap \in DOMAIN hist.deletions

\* The history fits the scene for some assignment of owners: inductive.
EditInv ==
  /\ used \subseteq Cars \cup Parts
  /\ restored \in BOOLEAN
  /\ \E own : EditOk(CarItems(used), PartItems(used, own), own)

\* An empty history fits any scene without parts.
LEMMA EmptyFits ==
  ASSUME NEW C, NEW P, NEW own, NEW strict, NEW sc, SceneOk(sc, C, P), \A x \in IdsIn(sc) : x \notin Parts
  PROVE Fits(EmptyHist, sc, C, P, own, strict)
<1> DEFINE h == EmptyHist
           A == Adds(h)
           D == Dels(h)
           S == IdsIn(sc)
<1>1. h.stack = <<>> /\ h.cursor = 0 /\ IsHist(h) /\ Len(h.stack) = 0 /\ IsSeq(h.stack)
  BY EmptyIsSeq DEF EmptyHist, IsHist
<1>2. \A i \in 1..0 : FALSE
  OBVIOUS
<1> HIDE DEF h, A, D
<1>3. LogOk(0, A, D, 0, S)
  BY <1>2 DEF LogOk
<1>4. Replayed(0, A, D, 0, S)
  BY <1>2 DEF Replayed, Known, Done
<1>5. OwnersFirst(0, A, D, S, Parts, own)
  BY <1>2 DEF OwnersFirst, Known
<1>6. HistOk(h, sc, C, P)
  BY <1>1, <1>2, <1>3 DEF HistOk, A, D
<1>7. OrderOk(h, sc, own)
  BY <1>1, <1>4, <1>5 DEF OrderOk, A, D
<1> QED
  BY <1>6, <1>7 DEF Fits, h

\* It holds at the start.
LEMMA EditInit == Init => EditInv
<1> SUFFICES ASSUME Init PROVE EditInv
  OBVIOUS
<1> DEFINE own == [p \in Parts |-> NoOne]
           C == CarItems(used)
           P == PartItems(used, own)
<1>1. SceneOk(scene, C, P) /\ IdsIn(scene) = {}
  <2>1. scene.cars = <<>> /\ scene.parts = <<>> /\ scene = [cars |-> <<>>, parts |-> <<>>]
    BY DEF Init, EmptyScene
  <2> HIDE DEF C, P
  <2>2. SceneOk(scene, C, P)
    BY <2>1, EmptySet, TwoColls
  <2> QED BY <2>1, <2>2, EmptySet DEF IdsIn
<1>2. hist = EmptyHist /\ pending = <<>> /\ drag = NoDrag /\ toast.snap = 0 /\ used = {} /\ restored = FALSE
  BY DEF Init, NoToast
<1> HIDE DEF C, P, own
<1>3. Fits(hist, scene, C, P, own, ~restored)
  BY <1>1, <1>2, EmptyFits
<1>4. EditOk(C, P, own)
  BY <1>2, <1>3, EmptySet DEF EditOk, DragOk
<1> QED
  BY <1>2, <1>4 DEF EditInv, C, P

\* With another id given out.
LEMMA UsedGrows ==
  ASSUME NEW U, NEW V, U \subseteq V, NEW own, NEW own2, \A p \in U : own2[p] = own[p]
  PROVE CarItems(U) \subseteq CarItems(V) /\ PartItems(U, own) \subseteq PartItems(V, own2)
BY DEF CarItems, PartItems

\* Adding an object keeps it.
LEMMA AddStep ==
  ASSUME EditInv, NEW item, Add(item), item.id \in Cars \cup Parts,
         NEW own, EditOk(CarItems(used), PartItems(used, own), own),
         \/ item \in [id : Cars, owner : {NoOne}, val : Vals]
         \/ /\ item \in [id : Parts, owner : Cars \cap used, val : Vals]
            /\ restored \/ item.owner \in IdsIn(scene)
  PROVE EditInv'
<1> DEFINE id == item.id
           V == used \cup {id}
           own2 == [p \in used \cup Parts |-> IF p = id THEN item.owner ELSE own[p]]
           C == CarItems(used)
           P == PartItems(used, own)
           C2 == CarItems(V)
           P2 == PartItems(V, own2)
           t == [scene EXCEPT ![CollOf(item)] = Append(@, item)]
           h == TrackAdded(hist, scene, t)
<1>1. /\ id \notin used /\ scene' = t /\ hist' = h /\ used' = V /\ UNCHANGED <<pending, drag, restored>>
      /\ toast' = IF StillValid(h, toast) THEN toast ELSE NoToast
  BY DEF Add, SetHist
<1>2. used \subseteq Cars \cup Parts /\ restored \in BOOLEAN
  BY DEF EditInv
<1>3. \A p \in used : own2[p] = own[p]
  BY <1>1
<1>4. C \subseteq C2 /\ P \subseteq P2
  BY <1>3, UsedGrows
<1>5. item \in C2 \cup P2
  <2>1. own2[id] = item.owner \/ id \notin Parts
    OBVIOUS
  <2>2. id \in V /\ used \subseteq V
    OBVIOUS
  <2> HIDE DEF V, own2
  <2>3. CASE item \in [id : Cars, owner : {NoOne}, val : Vals]
    BY <2>2, <2>3 DEF CarItems
  <2>4. CASE item \in [id : Parts, owner : Cars \cap used, val : Vals]
    <3>1. item \in [id : Parts \cap V, owner : Cars \cap V, val : Vals]
      BY <2>2, <2>4
    <3>2. item.owner = own2[item.id]
      BY <2>1, <2>4
    <3> QED BY <3>1, <3>2 DEF PartItems
  <2> QED BY <2>3, <2>4
<1>6. /\ Fits(hist, scene, C, P, own, ~restored) /\ pending \in Seq(C \cup P)
      /\ DragOk(drag, C, P)
      /\ toast.snap # 0 => toast.snap \in DOMAIN hist.deletions
  BY DEF EditOk
<1>7. \A x : KnownIn(hist, scene, x) => x \in used
  BY <1>6, KnownUsed DEF Fits
<1>8. \A p \in Parts : KnownIn(hist, scene, p) => own2[p] = own[p]
  BY <1>3, <1>7
<1>9. Kinds(C2, P2, own2)
  BY ItemKinds
<1>10. \A p \in Parts : p \in {id} => restored \/ own2[p] \in IdsIn(scene)
  BY IdAssumption
<1>11. drag' = drag /\ pending' = pending /\ restored' = restored
  BY <1>1
<1> HIDE DEF C, P, C2, P2, V, own2, id
<1>12. Fits(hist, scene, C2, P2, own2, ~restored)
  BY <1>4, <1>6, <1>8, FitsGrow
<1>13. ~KnownIn(hist, scene, id)
  BY <1>1, <1>7
<1>14. Fresh(hist, scene, {id}, own2, ~restored)
  <2>1. hist.cursor \in 0..Len(hist.stack) /\ Len(hist.stack) \in Nat
    BY <1>12 DEF Fits, HistOk, IsSeq
  <2>2. NotDeleted(hist, {id})
    <3> SUFFICES ASSUME NEW i \in 1..hist.cursor PROVE id \notin Dels(hist)[i]
      BY DEF NotDeleted
    <3>1. i \in 1..Len(hist.stack)
      BY <2>1
    <3> QED BY <1>13, <3>1 DEF KnownIn, Known
  <2> QED BY <1>10, <1>13, <2>2 DEF Fresh
<1>15. id \notin IdsIn(scene)
  BY <1>13 DEF KnownIn, Known
<1>16. Fits(h, t, C2, P2, own2, ~restored)
  BY <1>2, <1>5, <1>9, <1>12, <1>14, <1>15, AddFits DEF id
<1> HIDE DEF h, t
<1>17. pending \in Seq(C2 \cup P2)
  <2>1. C \cup P \subseteq C2 \cup P2
    BY <1>4
  <2> QED BY <1>6, <2>1, SeqMonotonic
<1>18. DragOk(drag, C2, P2)
  BY <1>4, <1>6 DEF DragOk
<1>19. toast'.snap # 0 => toast'.snap \in DOMAIN hist'.deletions
  BY <1>1 DEF StillValid, NoToast
<1>20. PICK o : o = own2
  OBVIOUS
<1>21. EditOk(CarItems(used), PartItems(used, o), o)'
  <2>1. CarItems(used') = C2 /\ PartItems(used', o) = P2
    BY <1>1, <1>20 DEF C2, P2
  <2>2. Fits(hist', scene', CarItems(used'), PartItems(used', o), o, ~restored')
    BY <1>1, <1>11, <1>16, <1>20, <2>1
  <2>3. pending' \in Seq(CarItems(used') \cup PartItems(used', o))
    BY <1>11, <1>17, <2>1
  <2>4. DragOk(drag', CarItems(used'), PartItems(used', o))
    BY <1>11, <1>18, <2>1
  <2> QED BY <1>19, <2>2, <2>3, <2>4 DEF EditOk
<1>22. used' \subseteq Cars \cup Parts /\ restored' \in BOOLEAN
  BY <1>1, <1>2, <1>11 DEF V, id
<1> QED
  BY <1>21, <1>22 DEF EditInv

\* Every step keeps it, as long as no toast outlives its deletion.
LEMMA EditStep ==
  ASSUME SnapInv, EditInv, [Next]_vars, ~LateToasts
  PROVE EditInv'
<1>0. PICK own : EditOk(CarItems(used), PartItems(used, own), own)
  BY DEF EditInv
<1> DEFINE C == CarItems(used)
           P == PartItems(used, own)
           strict == ~restored
<1>1. Kinds(C, P, own)
  BY ItemKinds
<1>2. /\ Fits(hist, scene, C, P, own, strict) /\ pending \in Seq(C \cup P) /\ DragOk(drag, C, P)
      /\ toast.snap # 0 => toast.snap \in DOMAIN hist.deletions
  BY <1>0 DEF EditOk
<1>3. used \subseteq Cars \cup Parts /\ restored \in BOOLEAN /\ strict \in BOOLEAN /\ ops \in Nat /\ SnapsOk(hist, ops)
  BY DEF EditInv, SnapInv
<1>4. ASSUME used' = used, restored' \in BOOLEAN, Fits(hist', scene', C, P, own, ~restored'),
             pending' \in Seq(C \cup P), DragOk(drag', C, P),
             toast'.snap # 0 => toast'.snap \in DOMAIN hist'.deletions
      PROVE EditInv'
  <2>1. C = CarItems(used') /\ P = PartItems(used', own)
    BY <1>4
  <2>2. EditOk(CarItems(used), PartItems(used, own), own)'
    BY <1>4, <2>1 DEF EditOk
  <2> QED BY <1>3, <1>4, <2>2 DEF EditInv
<1>5. SceneOk(scene, C, P)
  BY <1>2, FitsScene
<1>6. /\ \A x \in C : x \in [id : Cars \cap used, owner : {NoOne}, val : Vals]
      /\ \A x \in P : x \in [id : Parts \cap used, owner : Cars \cap used, val : Vals] /\ x.owner = own[x.id]
      /\ \A x \in C \cup P, v \in Vals : [x EXCEPT !.val = v] \in C \cup P /\ [x EXCEPT !.val = v].id = x.id
  BY DEF CarItems, PartItems
<1>7. /\ Items(scene) \subseteq C \cup P
      /\ \A id : Present(scene, id) <=> id \in IdsIn(scene)
      /\ \A id : Present(scene, id) => TheItem(scene, id) \in C \cup P /\ TheItem(scene, id).id = id
      /\ SceneIds = IdsIn(scene)
      /\ Items(scene) = CarsOf(scene) \cup PartsOf(scene)
  <2>1. /\ Items(scene) = CarsOf(scene) \cup PartsOf(scene) /\ Items(scene) \subseteq C \cup P
        /\ \A id : Present(scene, id) <=> id \in IdsIn(scene)
        /\ \A id : Present(scene, id) => TheItem(scene, id) \in Items(scene) /\ TheItem(scene, id).id = id
    BY <1>5, ItemsOfScene
  <2>2. SceneIds = IdsIn(scene)
    BY <2>1, IdsInOf DEF SceneIds
  <2> HIDE DEF C, P
  <2> QED BY <2>1, <2>2
<1>8. \A id \in IdsIn(scene) : id \in used /\ id \in Cars \cup Parts
  <2>1. \A x \in C \cup P : x.id \in used /\ x.id \in Cars \cup Parts
    BY <1>6
  <2> HIDE DEF C, P
  <2> QED BY <1>7, <2>1, IdsInOf
<1> DEFINE f == Flushed(hist, scene)
<1>9. Fits(f, scene, C, P, own, strict)
  <2> HIDE DEF C, P, strict
  <2> QED BY <1>2, <1>3, FlushedFits
<1>10. <<>> \in Seq(C \cup P) /\ DragOk(NoDrag, C, P)
  BY EmptySet DEF DragOk
<1>11. DragOk(Detached, C, P)
  <2> HIDE DEF C, P
  <2>1. CASE Resting
    BY <1>10, <2>1 DEF Detached
  <2>2. CASE ~Resting
    <3>1. drag \in [id : Cars \cup Parts, before : C \cup P, attached : BOOLEAN] /\ drag.before.id = drag.id
      BY <1>2, <2>2 DEF Resting, DragOk
    <3>2. Detached = [drag EXCEPT !.attached = FALSE]
      BY <2>2 DEF Detached
    <3> QED BY <3>1, <3>2 DEF DragOk
  <2> QED BY <2>1, <2>2
<1>12. NoToast.snap = 0
  BY DEF NoToast
<1> HIDE DEF C, P, strict, f
<1>A1. ASSUME NEW id \in Cars, AddCar(id) PROVE EditInv'
  <2> DEFINE item == [id |-> id, owner |-> NoOne, val |-> Default]
  <2>1. Add(item) /\ item.id \in Cars \cup Parts /\ item \in [id : Cars, owner : {NoOne}, val : Vals]
    BY <1>A1, BoundAssumption DEF AddCar
  <2> HIDE DEF item
  <2> QED BY <1>0, <2>1, AddStep
<1>A2. ASSUME NEW id \in Parts, NEW car \in Cars, AddPart(id, car) PROVE EditInv'
  <2> DEFINE item == [id |-> id, owner |-> car, val |-> Default]
  <2>1. Present(scene, car) /\ Add(item)
    BY <1>A2 DEF AddPart
  <2>2. car \in IdsIn(scene) /\ car \in Cars \cap used
    BY <1>7, <1>8, <2>1
  <2>3. item.id \in Cars \cup Parts /\ item \in [id : Parts, owner : Cars \cap used, val : Vals] /\ item.owner \in IdsIn(scene)
    BY <2>2, BoundAssumption
  <2> HIDE DEF item
  <2> QED BY <1>0, <2>1, <2>3, AddStep
<1>A3. ASSUME NEW id \in Cars \cup Parts, NEW original \in SceneIds, Duplicate(id, original) PROVE EditInv'
  <2> DEFINE x == TheItem(scene, original)
             item == [x EXCEPT !.id = id]
  <2>1. Present(scene, original) /\ Add(item) /\ (id \in Cars <=> original \in Cars)
    BY <1>A3 DEF Duplicate
  <2>2. x \in C \cup P /\ x.id = original /\ x \in Items(scene)
    BY <1>7, <2>1, <1>5, ItemsOfScene
  <2>3. CASE x \in C
    <3>1. x \in [id : Cars, owner : {NoOne}, val : Vals] /\ original \in Cars
      BY <1>6, <2>2, <2>3
    <3>2. item \in [id : Cars, owner : {NoOne}, val : Vals] /\ item.id \in Cars \cup Parts
      <4> HIDE DEF x
      <4> QED BY <2>1, <3>1
    <3> HIDE DEF item
    <3> QED BY <1>0, <2>1, <3>2, AddStep
  <2>4. CASE x \in P
    <3>1. x \in [id : Parts, owner : Cars \cap used, val : Vals] /\ original \notin Cars
      BY <1>6, <2>2, <2>4, IdAssumption
    <3>2. item \in [id : Parts, owner : Cars \cap used, val : Vals] /\ item.owner = x.owner /\ item.id \in Cars \cup Parts
      <4> HIDE DEF x
      <4> QED BY <2>1, <3>1
    <3>3. restored \/ x.owner \in IdsIn(scene)
      <4>1. x \in PartsOf(scene)
        <5>1. x \notin CarsOf(scene)
          BY <1>1, <1>5, <2>4, SceneFacts, KindFacts DEF CarsOf
        <5> QED BY <1>7, <2>2, <5>1
      <4>2. strict => x.owner \in IdsIn(scene)
        BY <1>1, <1>2, <4>1, NoOrphanFits
      <4> QED BY <4>2 DEF strict
    <3>4. restored \/ item.owner \in IdsIn(scene)
      BY <3>2, <3>3
    <3> HIDE DEF item, x
    <3> QED BY <1>0, <2>1, <3>2, <3>4, AddStep
  <2> QED BY <2>2, <2>3, <2>4
<1>A4. ASSUME NEW id \in SceneIds, NEW v \in Vals, Edit(id, v) PROVE EditInv'
  <2> DEFINE x == TheItem(scene, id)
             y == [x EXCEPT !.val = v]
  <2>1. Present(scene, id) /\ scene' = PatchScene(scene, y) /\ pending' = Remember(x)
        /\ UNCHANGED <<hist, drag, toast, used, restored>>
    BY <1>A4 DEF Edit
  <2>2. x \in C \cup P /\ y \in C \cup P
    BY <1>6, <1>7, <2>1
  <2> HIDE DEF x, y
  <2>3. SceneOk(scene', C, P) /\ IdsIn(scene') = IdsIn(scene)
    BY <1>1, <1>5, <2>1, <2>2, PatchScenes
  <2>4. Fits(hist, scene', C, P, own, strict)
    BY <1>2, <2>3, SameIdsFit
  <2>5. Append(pending, x) \in Seq(C \cup P)
    BY <1>2, <2>2
  <2>6. pending' \in Seq(C \cup P)
    BY <1>2, <2>1, <2>5 DEF Remember
  <2> QED BY <1>2, <1>3, <1>4, <2>1, <2>4, <2>6 DEF strict
<1>A5. ASSUME NEW i \in DOMAIN pending, EditSettles(i) PROVE EditInv'
  <2>1. /\ hist' = Record(hist, scene, pending[i]) /\ pending' = RemoveAt(pending, i)
        /\ UNCHANGED <<scene, drag, used, restored>>
        /\ toast'.snap # 0 => toast'.snap \in DOMAIN hist'.deletions
    BY <1>A5 DEF EditSettles, SetHist, StillValid, NoToast
  <2>2. pending[i] \in C \cup P
    BY <1>2
  <2>3. Fits(hist', scene, C, P, own, strict)
    BY <1>2, <1>3, <2>1, <2>2, RecordFits
  <2>4. pending' \in Seq(C \cup P)
    BY <1>2, <2>1, RemoveAtSet
  <2> QED BY <1>2, <1>3, <1>4, <2>1, <2>3, <2>4 DEF strict
<1>A6. ASSUME NEW id \in SceneIds, DragStart(id) PROVE EditInv'
  <2> DEFINE x == TheItem(scene, id)
  <2>1. Present(scene, id) /\ drag' = [id |-> id, before |-> x, attached |-> TRUE]
        /\ UNCHANGED <<scene, hist, pending, toast, used, restored>>
    BY <1>A6 DEF DragStart
  <2>2. x \in C \cup P /\ x.id = id /\ id \in Cars \cup Parts
    BY <1>7, <1>8, <2>1
  <2> HIDE DEF x
  <2>3. DragOk(drag', C, P)
    BY <2>1, <2>2 DEF DragOk
  <2> QED BY <1>2, <1>3, <1>4, <2>1, <2>3 DEF strict
<1>A7. ASSUME NEW v \in Vals, DragMove(v) PROVE EditInv'
  <2> DEFINE x == TheItem(scene, drag.id)
             y == [x EXCEPT !.val = v]
  <2>1. Present(scene, drag.id) /\ scene' = PatchScene(scene, y)
        /\ UNCHANGED <<hist, pending, drag, toast, used, restored>>
    BY <1>A7 DEF DragMove
  <2>2. y \in C \cup P
    BY <1>6, <1>7, <2>1
  <2> HIDE DEF x, y
  <2>3. SceneOk(scene', C, P) /\ IdsIn(scene') = IdsIn(scene)
    BY <1>1, <1>5, <2>1, <2>2, PatchScenes
  <2>4. Fits(hist, scene', C, P, own, strict)
    BY <1>2, <2>3, SameIdsFit
  <2> QED BY <1>2, <1>3, <1>4, <2>1, <2>4 DEF strict
<1>A8. CASE DragEnd
  <2>1. /\ ~Resting /\ hist' = Record(hist, scene, drag.before) /\ drag' = NoDrag
        /\ UNCHANGED <<scene, pending, used, restored>>
        /\ toast'.snap # 0 => toast'.snap \in DOMAIN hist'.deletions
    BY <1>A8 DEF DragEnd, RecordMove, SetHist, StillValid, NoToast
  <2>2. drag.before \in C \cup P
    BY <1>2, <2>1 DEF DragOk, Resting
  <2>3. Fits(hist', scene, C, P, own, strict)
    BY <1>2, <1>3, <2>1, <2>2, RecordFits
  <2> QED BY <1>2, <1>3, <1>4, <1>10, <2>1, <2>3 DEF strict
<1>A9. ASSUME NEW id \in SceneIds, Delete(id) PROVE EditInv'
  <2> DEFINE snap == ops + 1
             e == [undo |-> [kind |-> "unsnap", snap |-> snap],
                   redo |-> [kind |-> "delete", id |-> id],
                   snap |-> snap, entry |-> 0]
             r == [hist EXCEPT !.deletions =
                 [n \in DOMAIN @ \cup {snap} |->
                    IF n = snap THEN Snapshot(scene, id) ELSE @[n]]]
  <2>1. /\ Present(scene, id) /\ hist' = Push(r, e) /\ scene' = RemoveItems(scene, {id}) /\ drag' = Detached
        /\ UNCHANGED <<pending, used, restored>>
        /\ toast'.snap # 0 => toast'.snap \in DOMAIN hist'.deletions
    BY <1>A9 DEF Delete, SetHist, StillValid, NoToast
  <2>2. /\ IsHist(r) /\ r.stack = hist.stack /\ r.cursor = hist.cursor
        /\ r.deletions = [n \in DOMAIN hist.deletions \cup {snap} |->
                            IF n = snap THEN Snapshot(scene, id) ELSE hist.deletions[n]]
    BY <1>3 DEF SnapsOk, IsHist
  <2>3. \A i \in 1..Len(hist.stack) : hist.stack[i].snap # snap
    BY <1>3 DEF SnapsOk
  <2>4. e.undo = [kind |-> "unsnap", snap |-> snap] /\ e.redo = [kind |-> "delete", id |-> id] /\ e.snap = snap
        /\ snap # 0
    BY <1>3
  <2> HIDE DEF r, e, snap
  <2>5. snap \in DOMAIN r.deletions /\ r.deletions[snap] = Snapshot(scene, id)
    BY <2>2
  <2>6. \A i \in 1..Len(hist.stack) : SameSnap(hist.stack[i], hist.deletions, r.deletions)
    BY <2>2, <2>3 DEF SameSnap
  <2>7. Fits(Push(r, e), RemoveItems(scene, {id}), C, P, own, strict)
    <3>1. WithSnap(hist, r, snap, Snapshot(scene, id)) /\ DeletionOf(e, snap, id)
      BY <2>2, <2>4, <2>5, <2>6 DEF WithSnap, DeletionOf
    <3> QED BY <1>1, <1>2, <1>3, <2>1, <3>1, DeleteFits
  <2> QED BY <1>2, <1>3, <1>4, <1>11, <2>1, <2>7 DEF strict
<1>A10. ASSUME NEW ids \in (SUBSET SceneIds) \ {{}}, DeleteSelected(ids) PROVE EditInv'
  <2> DEFINE removed == [c \in Colls |-> Removed(scene[c], ids)]
             gone == {r.item.id : r \in ToSet(removed["cars"]) \cup ToSet(removed["parts"])}
             cut == [kind |-> "cut", ids |-> gone]
             e == [undo |-> [kind |-> "splice", removed |-> removed],
                   redo |-> cut, snap |-> 0, entry |-> ops + 1]
  <2>1. /\ hist' = Push(f, e) /\ scene' = Apply(cut, scene, <<>>) /\ pending' = <<>>
        /\ UNCHANGED <<drag, used, restored>>
        /\ toast'.snap # 0 => toast'.snap \in DOMAIN hist'.deletions
    BY <1>A10 DEF DeleteSelected, SetHist, StillValid, NoToast, f
  <2>2. scene' = Cut(scene, gone)
    BY <2>1 DEF Apply, Cut
  <2>3. e.undo = [kind |-> "splice", removed |-> removed] /\ e.redo = [kind |-> "cut", ids |-> gone] /\ e.snap = 0
    OBVIOUS
  <2>4. ids \subseteq IdsIn(scene)
    BY <1>7
  <2> HIDE DEF e
  <2>5. Fits(Push(f, e), Cut(scene, gone), C, P, own, strict)
    <3>1. /\ removed["cars"] = Removed(scene.cars, ids) /\ removed["parts"] = Removed(scene.parts, ids)
      BY <1>5, SceneFacts DEF Colls
    <3>2. gone = {r.item.id : r \in ToSet(removed["cars"]) \cup ToSet(removed["parts"])}
      OBVIOUS
    <3>3. e.undo.kind = "splice" /\ e.undo.removed = removed /\ e.redo.kind = "cut" /\ e.redo.ids = gone
      BY <2>3
    <3> HIDE DEF removed, gone
    <3>4. CutOf(e, scene, ids, gone)
      BY <2>3, <3>1, <3>2, <3>3 DEF CutOf
    <3> QED BY <1>1, <1>3, <1>9, <2>4, <3>4, CutFits
  <2> QED BY <1>2, <1>3, <1>4, <1>10, <2>1, <2>2, <2>5 DEF strict
<1>A11. ASSUME NEW ids \in (SUBSET SceneIds) \ {{}}, NEW v \in Vals, EditSelected(ids, v) PROVE EditInv'
  <2> DEFINE changed == {x \in Items(scene) : x.id \in ids /\ x.val # v}
             changedIds == {x.id : x \in changed}
             new == [id \in changedIds |-> v]
             old == [id \in changedIds |-> TheItem(scene, id).val]
             redo == [kind |-> "vals", vals |-> new]
             undo == [kind |-> "vals", vals |-> old]
             e == Entry(undo, redo)
  <2>1. /\ hist' = Push(f, e) /\ scene' = Apply(redo, scene, <<>>) /\ pending' = <<>>
        /\ UNCHANGED <<drag, used, restored>>
        /\ toast'.snap # 0 => toast'.snap \in DOMAIN hist'.deletions
    BY <1>A11 DEF EditSelected, SetHist, StillValid, NoToast, f
  <2>2. scene' = Revalued(scene, new)
    BY <2>1 DEF Apply, Revalued
  <2>3. e.undo = undo /\ e.redo = redo /\ e.snap = 0
    BY DEF Entry
  <2>4. \A i \in DOMAIN new : new[i] \in Vals
    OBVIOUS
  <2>5. \A i \in DOMAIN old : old[i] \in Vals
    <3>1. \A id : Present(scene, id) => TheItem(scene, id).val \in Vals
      BY <1>6, <1>7
    <3>2. \A id \in changedIds : Present(scene, id)
      BY DEF Present
    <3> QED BY <3>1, <3>2
  <2> HIDE DEF e, new, old
  <2>6. Fits(Push(f, e), Revalued(scene, new), C, P, own, strict)
    BY <1>1, <1>3, <1>9, <2>3, <2>4, <2>5, ValsFits
  <2> QED BY <1>2, <1>3, <1>4, <1>10, <2>1, <2>2, <2>6 DEF strict
<1>A12. CASE Undo
  <2>1. /\ f.cursor > 0 /\ scene' = Apply(f.stack[f.cursor].undo, scene, f.deletions)
        /\ hist' = [f EXCEPT !.cursor = f.cursor - 1] /\ pending' = <<>> /\ drag' = Detached
        /\ UNCHANGED <<used, restored>>
        /\ toast'.snap # 0 => toast'.snap \in DOMAIN hist'.deletions
    BY <1>A12 DEF Undo, UndoTop, SetHist, StillValid, NoToast, f
  <2>2. Fits(hist', scene', C, P, own, strict)
    BY <1>1, <1>3, <1>9, <2>1, UndoFits
  <2> QED BY <1>2, <1>3, <1>4, <1>10, <1>11, <2>1, <2>2 DEF strict
<1>A13. CASE Redo
  <2>1. /\ f.cursor < Len(f.stack) /\ scene' = Apply(f.stack[f.cursor + 1].redo, scene, f.deletions)
        /\ hist' = [f EXCEPT !.cursor = f.cursor + 1] /\ pending' = <<>> /\ drag' = Detached
        /\ UNCHANGED <<used, restored>>
        /\ toast'.snap # 0 => toast'.snap \in DOMAIN hist'.deletions
    BY <1>A13 DEF Redo, RedoNext, SetHist, StillValid, NoToast, f
  <2>2. Fits(hist', scene', C, P, own, strict)
    BY <1>1, <1>3, <1>9, <2>1, RedoFits
  <2> QED BY <1>2, <1>3, <1>4, <1>10, <1>11, <2>1, <2>2 DEF strict
<1>A14. CASE ToastUndo
  <2>1. /\ hist.cursor > 0 /\ scene' = Apply(hist.stack[hist.cursor].undo, scene, hist.deletions)
        /\ hist' = [hist EXCEPT !.cursor = hist.cursor - 1]
        /\ UNCHANGED <<pending, drag, used, restored>>
        /\ toast'.snap # 0 => toast'.snap \in DOMAIN hist'.deletions
    BY <1>A14 DEF ToastUndo, UndoTop, SetHist, StillValid, NoToast
  <2>2. Fits(hist', scene', C, P, own, strict)
    BY <1>1, <1>2, <1>3, <2>1, UndoFits
  <2> QED BY <1>2, <1>3, <1>4, <2>1, <2>2 DEF strict
<1>A15. CASE ToastRestore
  <2> DEFINE snap == toast.snap
             t == RestoreSnapshot(scene, hist.deletions[snap])
  <2>1. /\ snap # 0 /\ ~Undone(hist, snap) /\ scene' = t /\ hist' = TrackAdded(Forget(hist, snap), scene, t)
        /\ restored' = TRUE /\ UNCHANGED <<pending, drag, used>>
        /\ toast'.snap # 0 => toast'.snap \in DOMAIN hist'.deletions
    BY <1>A15 DEF ToastRestore, SetHist, StillValid, NoToast
  <2>2. snap \in Snaps(hist.stack)
    BY <1>2, <1>3, <2>1 DEF SnapsOk
  <2> HIDE DEF snap
  <2>3. Fits(TrackAdded(Forget(hist, snap), scene, t), t, C, P, own, FALSE)
    BY <1>1, <1>2, <1>3, <2>1, <2>2, RestoreFits
  <2> HIDE DEF t
  <2>4. Fits(hist', scene', C, P, own, ~restored')
    BY <2>1, <2>3
  <2> QED BY <1>2, <1>3, <1>4, <2>1, <2>4
<1>A16. CASE ToastCloses
  BY <1>2, <1>3, <1>4, <1>12, <1>A16 DEF ToastCloses, strict
<1>A17. ASSUME NEW new \in Contents, Load(new) PROVE EditInv'
  <2> DEFINE V == used \cup IdsOf(new)
             C2 == CarItems(V)
             P2 == PartItems(V, own)
  <2>1. /\ scene' = [cars |-> new, parts |-> <<>>] /\ hist' = EmptyHist /\ used' = V /\ restored' = FALSE
        /\ UNCHANGED <<pending, drag>>
        /\ toast'.snap # 0 => toast'.snap \in DOMAIN hist'.deletions
    BY <1>A17 DEF Load, SetHist, StillValid, NoToast
  <2>2. new \in Seq([id : Cars, owner : {NoOne}, val : Vals]) /\ Distinct(new)
    <3>1. CASE new = <<>>
      BY <3>1, EmptySet
    <3>2. ASSUME NEW id \in Cars, new = <<[id |-> id, owner |-> NoOne, val |-> Default]>> PROVE <2>2!1 /\ <2>2!2
      <4>1. [id |-> id, owner |-> NoOne, val |-> Default] \in [id : Cars, owner : {NoOne}, val : Vals]
        BY BoundAssumption
      <4> QED BY <3>2, <4>1, OneSet
    <3> QED BY <3>1, <3>2 DEF Contents
  <2>3. IdsOf(new) \subseteq Cars /\ \A i \in DOMAIN new : new[i] \in [id : Cars, owner : {NoOne}, val : Vals]
    <3> DEFINE K == [id : Cars, owner : {NoOne}, val : Vals]
    <3>0. new \in Seq(K)
      BY <2>2
    <3> HIDE DEF K
    <3>1. \A i \in DOMAIN new : new[i] \in K
      BY <3>0
    <3> USE DEF K
    <3> QED BY <3>1 DEF IdsOf
  <2>4. new \in Seq(C2)
    <3>1. \A i \in DOMAIN new : new[i] \in C2
      <4> SUFFICES ASSUME NEW i \in DOMAIN new PROVE new[i] \in C2
        OBVIOUS
      <4>1. new[i].id \in V
        BY DEF IdsOf
      <4> QED BY <2>3, <4>1 DEF CarItems
    <3> HIDE DEF C2
    <3> QED BY <2>2, <3>1
  <2>5. C \subseteq C2 /\ P \subseteq P2
    BY UsedGrows DEF C, P
  <2> HIDE DEF C2, P2
  <2>6. SceneOk(scene', C2, P2) /\ IdsIn(scene') = IdsOf(new)
    <3>1. <<>> \in Seq(P2) /\ Distinct(<<>>) /\ IdsOf(<<>>) = {}
      BY EmptySet
    <3>2. SceneOk([cars |-> new, parts |-> <<>>], C2, P2)
      BY <2>2, <2>4, <3>1, TwoColls
    <3> QED BY <2>1, <3>1, <3>2 DEF IdsIn
  <2>7. \A x \in IdsIn(scene') : x \notin Parts
    BY <2>3, <2>6, IdAssumption
  <2>8. Fits(hist', scene', C2, P2, own, ~restored')
    BY <2>1, <2>6, <2>7, EmptyFits
  <2>9. pending \in Seq(C2 \cup P2)
    <3>1. C \cup P \subseteq C2 \cup P2
      BY <2>5
    <3> QED BY <1>2, <3>1, SeqMonotonic
  <2>10. DragOk(drag, C2, P2)
    BY <1>2, <2>5 DEF DragOk
  <2>11. EditOk(CarItems(used), PartItems(used, own), own)'
    <3>1. CarItems(used') = C2 /\ PartItems(used', own) = P2
      BY <2>1 DEF C2, P2
    <3> QED BY <2>1, <2>8, <2>9, <2>10, <3>1 DEF EditOk
  <2> QED BY <1>3, <2>1, <2>3, <2>11 DEF EditInv
<1>A18. CASE UNCHANGED vars
  BY <1>2, <1>3, <1>4, <1>A18 DEF vars, strict
<1> QED
  BY <1>A1, <1>A2, <1>A3, <1>A4, <1>A5, <1>A6, <1>A7, <1>A8, <1>A9, <1>A10, <1>A11, <1>A12, <1>A13,
     <1>A14, <1>A15, <1>A16, <1>A17, <1>A18 DEF Next

\* No two objects have one id, unless the toast of an undone deletion is used.
THEOREM IdsStayUnique == ~LateToasts => (Spec => []UniqueIds)
<1> SUFFICES ASSUME ~LateToasts PROVE Spec => []UniqueIds
  OBVIOUS
<1>1. Init => SnapInv /\ EditInv
  BY SnapInit, EditInit
<1>2. (SnapInv /\ EditInv) /\ [Next]_vars => (SnapInv /\ EditInv)'
  BY SnapStep, EditStep
<1>3. EditInv => UniqueIds
  BY SceneFacts DEF EditInv, EditOk, Fits, HistOk, UniqueIds, Colls, Distinct
<1> QED
  BY <1>1, <1>2, <1>3, PTL DEF Spec

\* A part has its car, unless a toast has brought objects back.
THEOREM PartsHaveTheirCar == ~LateToasts => (Spec => []NoOrphans)
<1> SUFFICES ASSUME ~LateToasts PROVE Spec => []NoOrphans
  OBVIOUS
<1>1. Init => SnapInv /\ EditInv
  BY SnapInit, EditInit
<1>2. (SnapInv /\ EditInv) /\ [Next]_vars => (SnapInv /\ EditInv)'
  BY SnapStep, EditStep
<1>3. EditInv => NoOrphans
  <2> SUFFICES ASSUME EditInv, ~restored, NEW x \in PartsOf(scene) PROVE Present(scene, x.owner)
    BY DEF NoOrphans, PartsOf
  <2>1. PICK own : EditOk(CarItems(used), PartItems(used, own), own)
    BY DEF EditInv
  <2> DEFINE C == CarItems(used)
             P == PartItems(used, own)
  <2>2. Kinds(C, P, own) /\ Fits(hist, scene, C, P, own, ~restored)
    BY <2>1, ItemKinds DEF EditOk
  <2> HIDE DEF C, P
  <2>3. x.owner \in IdsIn(scene) /\ SceneOk(scene, C, P)
    BY <2>2, NoOrphanFits, FitsScene
  <2> QED BY <2>3, ItemsOfScene
<1> QED
  BY <1>1, <1>2, <1>3, PTL DEF Spec

-----------------------------------------------------------------------------
(* Undoing and redoing what was just recorded.                             *)

\* Two scenes hold the same objects, in whichever order.
SameObjects(s, t) == CarsOf(s) = CarsOf(t) /\ PartsOf(s) = PartsOf(t)

\* Then each collection does.
LEMMA SameInColls ==
  ASSUME NEW s, NEW t, SameObjects(s, t)
  PROVE \A c \in Colls : ToSet(s[c]) = ToSet(t[c])
BY DEF SameObjects, Colls, CarsOf, PartsOf

\* An object of a scene is found by its id.
LEMMA FoundById ==
  ASSUME NEW C, NEW P, NEW own, Kinds(C, P, own), NEW sc, SceneOk(sc, C, P)
  PROVE /\ \A x \in CarsOf(sc), y \in CarsOf(sc) : x.id = y.id => x = y
        /\ \A x \in PartsOf(sc), y \in PartsOf(sc) : x.id = y.id => x = y
        /\ \A x \in CarsOf(sc), y \in PartsOf(sc) : x.id # y.id
        /\ \A x \in Items(sc) : Present(sc, x.id) /\ TheItem(sc, x.id) = x
<1>1. Distinct(sc.cars) /\ Distinct(sc.parts) /\ CarsOf(sc) \subseteq C /\ PartsOf(sc) \subseteq P
  BY SceneFacts DEF CarsOf, PartsOf
<1>2. \A x \in CarsOf(sc), y \in CarsOf(sc) : x.id = y.id => x = y
  BY <1>1 DEF Distinct, CarsOf, ToSet
<1>3. \A x \in PartsOf(sc), y \in PartsOf(sc) : x.id = y.id => x = y
  BY <1>1 DEF Distinct, PartsOf, ToSet
<1>4. \A x \in CarsOf(sc), y \in PartsOf(sc) : x.id # y.id
  BY <1>1, KindFacts
<1>5. ASSUME NEW x \in Items(sc) PROVE Present(sc, x.id) /\ TheItem(sc, x.id) = x
  <2>1. Present(sc, x.id)
    BY DEF Present
  <2>2. TheItem(sc, x.id) \in Items(sc) /\ TheItem(sc, x.id).id = x.id
    BY <2>1, ItemsOfScene
  <2>3. Items(sc) = CarsOf(sc) \cup PartsOf(sc)
    BY ItemsOfScene
  <2> QED BY <1>2, <1>3, <1>4, <2>1, <2>2, <2>3
<1> QED
  BY <1>2, <1>3, <1>4, <1>5

\* Patching an object to what it is.
LEMMA PatchAgain ==
  ASSUME NEW C, NEW P, NEW own, Kinds(C, P, own), NEW sc, SceneOk(sc, C, P), NEW item \in Items(sc)
  PROVE SameObjects(PatchScene(sc, item), sc)
<1>1. Items(sc) = CarsOf(sc) \cup PartsOf(sc) /\ Items(sc) \subseteq C \cup P
  BY ItemsOfScene
<1>2. /\ CarsOf(PatchScene(sc, item)) = Replaced(CarsOf(sc), item)
      /\ PartsOf(PatchScene(sc, item)) = Replaced(PartsOf(sc), item)
  BY <1>1, PatchScenes
<1>3. \A x \in CarsOf(sc) \cup PartsOf(sc) : x.id = item.id => x = item
  BY <1>1, FoundById
<1>4. Replaced(CarsOf(sc), item) = CarsOf(sc) /\ Replaced(PartsOf(sc), item) = PartsOf(sc)
  BY <1>3 DEF Replaced
<1> QED
  BY <1>2, <1>4 DEF SameObjects

\* Removing an object that is gone.
LEMMA RemoveAgain ==
  ASSUME NEW C, NEW P, NEW sc, SceneOk(sc, C, P), NEW ids
  PROVE SameObjects(RemoveItems(RemoveItems(sc, ids), ids), RemoveItems(sc, ids))
<1> DEFINE t == RemoveItems(sc, ids)
<1>1. /\ SceneOk(t, C, P)
      /\ CarsOf(t) = {x \in CarsOf(sc) : x.id \notin ids}
      /\ PartsOf(t) = {x \in PartsOf(sc) : x.id \notin ids /\ x.owner \notin ids}
  BY RemoveScene
<1> HIDE DEF t
<1>2. /\ CarsOf(RemoveItems(t, ids)) = {x \in CarsOf(t) : x.id \notin ids}
      /\ PartsOf(RemoveItems(t, ids)) = {x \in PartsOf(t) : x.id \notin ids /\ x.owner \notin ids}
  BY <1>1, RemoveScene
<1>3. SameObjects(RemoveItems(t, ids), t)
  BY <1>1, <1>2 DEF SameObjects
<1> QED
  BY <1>3 DEF t

\* Cutting objects that are gone.
LEMMA CutAgain ==
  ASSUME NEW C, NEW P, NEW sc, SceneOk(sc, C, P), NEW ids
  PROVE SameObjects(Cut(Cut(sc, ids), ids), Cut(sc, ids))
<1> DEFINE t == Cut(sc, ids)
<1>1. /\ SceneOk(t, C, P)
      /\ CarsOf(t) = {x \in CarsOf(sc) : x.id \notin ids}
      /\ PartsOf(t) = {x \in PartsOf(sc) : x.id \notin ids}
  BY CutScene
<1> HIDE DEF t
<1>2. /\ CarsOf(Cut(t, ids)) = {x \in CarsOf(t) : x.id \notin ids}
      /\ PartsOf(Cut(t, ids)) = {x \in PartsOf(t) : x.id \notin ids}
  BY <1>1, CutScene
<1>3. SameObjects(Cut(t, ids), t)
  BY <1>1, <1>2 DEF SameObjects
<1> QED
  BY <1>3 DEF t

\* Objects keep their ids when their contents change.
LEMMA ValOf ==
  ASSUME NEW S, ValClosed(S), NEW x \in S, NEW v
  PROVE /\ [x EXCEPT !.val = v].id = x.id
        /\ [x EXCEPT !.val = v].val = v
        /\ [x EXCEPT !.val = x.val] = x
        /\ \A w : [[x EXCEPT !.val = v] EXCEPT !.val = w] = [x EXCEPT !.val = w]
<1>1. x = [id |-> x.id, owner |-> x.owner, val |-> x.val]
  BY DEF ValClosed
<1> QED
  BY <1>1

\* Giving objects the contents they have.
LEMMA WithValsAgain ==
  ASSUME NEW S, ValClosed(S), NEW T \in SUBSET S, NEW vals
  PROVE WithVals(WithVals(T, vals), vals) = WithVals(T, vals)
<1> DEFINE f(x) == IF x.id \in DOMAIN vals THEN [x EXCEPT !.val = vals[x.id]] ELSE x
<1>1. ASSUME NEW x \in T PROVE f(f(x)) = f(x)
  <2>1. CASE x.id \in DOMAIN vals
    <3> DEFINE v == vals[x.id]
               y == [x EXCEPT !.val = v]
    <3>1. y.id = x.id /\ \A w : [y EXCEPT !.val = w] = [x EXCEPT !.val = w]
      BY ValOf
    <3>2. f(x) = y
      BY <2>1
    <3>3. f(y) = [y EXCEPT !.val = vals[y.id]]
      <4> HIDE DEF y
      <4> QED BY <2>1, <3>1
    <3>4. f(y) = y
      <4>1. [y EXCEPT !.val = v] = y
        BY <3>1
      <4> HIDE DEF y, f
      <4> QED BY <3>1, <3>3, <4>1
    <3> HIDE DEF y, f
    <3> QED BY <3>2, <3>4
  <2>2. CASE x.id \notin DOMAIN vals
    BY <2>2
  <2> QED BY <2>1, <2>2
<1>2. WithVals(T, vals) = {f(x) : x \in T}
  BY DEF WithVals
<1>3. WithVals({f(x) : x \in T}, vals) = {f(y) : y \in {f(x) : x \in T}}
  BY DEF WithVals
<1> HIDE DEF f
<1> QED
  BY <1>1, <1>2, <1>3

\* Changing the contents of objects once more.
LEMMA ValsAgain ==
  ASSUME NEW C, NEW P, NEW own, Kinds(C, P, own), NEW sc, SceneOk(sc, C, P),
         NEW vals, \A i \in DOMAIN vals : vals[i] \in Vals
  PROVE SameObjects(Revalued(Revalued(sc, vals), vals), Revalued(sc, vals))
<1> DEFINE t == Revalued(sc, vals)
<1>1. SceneOk(t, C, P) /\ CarsOf(t) = WithVals(CarsOf(sc), vals) /\ PartsOf(t) = WithVals(PartsOf(sc), vals)
  BY ValsScene
<1> HIDE DEF t
<1>2. CarsOf(Revalued(t, vals)) = WithVals(CarsOf(t), vals) /\ PartsOf(Revalued(t, vals)) = WithVals(PartsOf(t), vals)
  BY <1>1, ValsScene
<1>3. CarsOf(sc) \subseteq C /\ PartsOf(sc) \subseteq P /\ ValClosed(C) /\ ValClosed(P)
  BY SceneFacts, KindFacts DEF CarsOf, PartsOf
<1>4. WithVals(WithVals(CarsOf(sc), vals), vals) = WithVals(CarsOf(sc), vals)
  BY <1>3, WithValsAgain
<1>5. WithVals(WithVals(PartsOf(sc), vals), vals) = WithVals(PartsOf(sc), vals)
  BY <1>3, WithValsAgain
<1>6. SameObjects(Revalued(t, vals), t)
  BY <1>1, <1>2, <1>4, <1>5 DEF SameObjects
<1> QED
  BY <1>6 DEF t

\* Restoring objects that are there.
LEMMA GiveAgain ==
  ASSUME NEW C, NEW P, NEW sc, SceneOk(sc, C, P), NEW coll, NEW items, Distinct(items),
         \/ coll = "cars" /\ items \in Seq(C) /\ IdsOf(items) \subseteq IdsOf(sc.cars)
         \/ coll = "parts" /\ items \in Seq(P) /\ IdsOf(items) \subseteq IdsOf(sc.parts)
  PROVE SameObjects(Given(sc, coll, items), sc)
<1>1. /\ CarsOf(Given(sc, coll, items)) = IF coll = "cars"
           THEN CarsOf(sc) \cup {x \in ToSet(items) : x.id \notin IdsOf(sc.cars)} ELSE CarsOf(sc)
      /\ PartsOf(Given(sc, coll, items)) = IF coll = "cars" THEN PartsOf(sc)
           ELSE PartsOf(sc) \cup {x \in ToSet(items) : x.id \notin IdsOf(sc.parts)}
  BY GiveScene
<1>2. IdsOf(items) = {x.id : x \in ToSet(items)}
  BY IdsOfSet
<1>3. CASE coll = "cars"
  <2>1. {x \in ToSet(items) : x.id \notin IdsOf(sc.cars)} = {}
    BY <1>2, <1>3
  <2> QED BY <1>1, <1>3, <2>1 DEF SameObjects
<1>4. CASE coll = "parts"
  <2>1. {x \in ToSet(items) : x.id \notin IdsOf(sc.parts)} = {}
    BY <1>2, <1>4
  <2> QED BY <1>1, <1>4, <2>1 DEF SameObjects
<1> QED
  BY <1>3, <1>4

\* Taking added objects out again.
LEMMA TakeBack ==
  ASSUME NEW C, NEW P, NEW own, Kinds(C, P, own), NEW sc, SceneOk(sc, C, P), NEW t, SceneOk(t, C, P), NEW coll, NEW items,
         \/ /\ coll = "cars" /\ items \in Seq(C) /\ PartsOf(t) = PartsOf(sc)
            /\ ToSet(items) = {x \in CarsOf(t) : x.id \notin IdsOf(sc.cars)} /\ CarsOf(sc) \subseteq CarsOf(t)
         \/ /\ coll = "parts" /\ items \in Seq(P) /\ CarsOf(t) = CarsOf(sc)
            /\ ToSet(items) = {x \in PartsOf(t) : x.id \notin IdsOf(sc.parts)} /\ PartsOf(sc) \subseteq PartsOf(t)
  PROVE SameObjects(Taken(t, coll, IdsOf(items)), sc)
<1> DEFINE u == Taken(t, coll, IdsOf(items))
<1>1. /\ CarsOf(u) = {x \in CarsOf(t) : x.id \notin IdsOf(items)}
      /\ PartsOf(u) = {x \in PartsOf(t) : x.id \notin IdsOf(items)}
  BY TakeScene
<1> HIDE DEF u
<1>2. /\ IdsOf(items) = {x.id : x \in ToSet(items)}
      /\ IdsOf(sc.cars) = {x.id : x \in CarsOf(sc)}
      /\ IdsOf(sc.parts) = {x.id : x \in PartsOf(sc)}
  BY IdsOfSet DEF CarsOf, PartsOf
<1>3. /\ \A x \in CarsOf(t), y \in CarsOf(t) : x.id = y.id => x = y
      /\ \A x \in PartsOf(t), y \in PartsOf(t) : x.id = y.id => x = y
      /\ \A x \in CarsOf(t), y \in PartsOf(t) : x.id # y.id
  BY FoundById
<1>4. CASE /\ coll = "cars" /\ PartsOf(t) = PartsOf(sc)
           /\ ToSet(items) = {x \in CarsOf(t) : x.id \notin IdsOf(sc.cars)} /\ CarsOf(sc) \subseteq CarsOf(t)
  <2>1. \A x \in CarsOf(t) : x.id \notin IdsOf(items) <=> x \in CarsOf(sc)
    BY <1>2, <1>3, <1>4
  <2>2. \A x \in PartsOf(t) : x.id \notin IdsOf(items)
    BY <1>2, <1>3, <1>4
  <2>3. CarsOf(u) = CarsOf(sc)
    BY <1>1, <1>4, <2>1
  <2>4. PartsOf(u) = PartsOf(t)
    BY <1>1, <2>2
  <2> QED BY <1>4, <2>3, <2>4 DEF SameObjects, u
<1>5. CASE /\ coll = "parts" /\ CarsOf(t) = CarsOf(sc)
           /\ ToSet(items) = {x \in PartsOf(t) : x.id \notin IdsOf(sc.parts)} /\ PartsOf(sc) \subseteq PartsOf(t)
  <2>1. \A x \in PartsOf(t) : x.id \notin IdsOf(items) <=> x \in PartsOf(sc)
    BY <1>2, <1>3, <1>5
  <2>2. \A x \in CarsOf(t) : x.id \notin IdsOf(items)
    BY <1>2, <1>3, <1>5
  <2>3. PartsOf(u) = PartsOf(sc)
    BY <1>1, <1>5, <2>1
  <2>4. CarsOf(u) = CarsOf(t)
    BY <1>1, <2>2
  <2> QED BY <1>5, <2>3, <2>4 DEF SameObjects, u
<1> QED
  BY <1>4, <1>5

\* A snapshot brings back what its deletion took.
LEMMA UnsnapBack ==
  ASSUME NEW C, NEW P, NEW own, Kinds(C, P, own), NEW sc, SceneOk(sc, C, P), NEW id, Present(sc, id)
  PROVE SameObjects(RestoreSnapshot(RemoveItems(sc, {id}), Snapshot(sc, id)), sc)
<1> DEFINE s == Snapshot(sc, id)
           t == RemoveItems(sc, {id})
           item == TheItem(sc, id)
<1>1. SnapOk(s, C, P)
  BY SnapshotOk
<1>2. item \in CarsOf(sc) \cup PartsOf(sc) /\ item.id = id
  BY ItemsOfScene
<1>3. s.item = item /\ s.parts = OwnedBy(sc.parts, {id})
  BY DEF Snapshot
<1>4. CarsOf(sc) \subseteq C /\ PartsOf(sc) \subseteq P /\ sc.parts \in Seq(P)
  BY SceneFacts DEF CarsOf, PartsOf
<1>5. ToSet(s.parts) = {x \in PartsOf(sc) : x.owner \in {id}}
  BY <1>3, <1>4, OwnedBySet DEF PartsOf
<1>6. /\ SceneOk(t, C, P)
      /\ CarsOf(t) = {x \in CarsOf(sc) : x.id \notin {id}}
      /\ PartsOf(t) = {x \in PartsOf(sc) : x.id \notin {id} /\ x.owner \notin {id}}
  BY RemoveScene
<1> HIDE DEF s, t, item
<1>7. \A x \in CarsOf(sc) \cup PartsOf(sc) : x.id = id => x = item
  BY <1>2, FoundById
<1>8. SnapIds(s) = {id} \cup {x.id : x \in ToSet(s.parts)}
  BY <1>2, <1>3, IdsOfSet DEF SnapIds
<1>9. ASSUME NEW i \in SnapIds(s), i \in IdsIn(t) PROVE FALSE
  <2>1. PICK x \in CarsOf(t) \cup PartsOf(t) : x.id = i
    BY <1>9, IdsInOf
  <2>2. x \in CarsOf(sc) \cup PartsOf(sc) /\ i # id
    BY <1>6, <2>1
  <2>3. PICK y \in ToSet(s.parts) : y.id = i
    BY <1>8, <2>2
  <2>4. y \in PartsOf(sc) /\ y.owner = id
    BY <1>5, <2>3
  <2>5. x = y
    BY <2>1, <2>2, <2>3, <2>4, FoundById
  <2>6. x \in PartsOf(t)
    BY <1>4, <1>6, <2>1, <2>4, <2>5, KindFacts
  <2> QED BY <1>6, <2>4, <2>5, <2>6
<1>10. SnapIds(s) \cap IdsIn(t) = {}
  BY <1>9
<1> DEFINE u == RestoreSnapshot(t, s)
<1>11. /\ CarsOf(u) = CarsOf(t) \cup ({s.item} \cap C)
       /\ PartsOf(u) = PartsOf(t) \cup ({s.item} \cap P) \cup ToSet(s.parts)
  BY <1>1, <1>6, <1>10, UnsnapScene
<1> HIDE DEF u
<1>12. item \in C => item \in CarsOf(sc) /\ item \notin P
  BY <1>2, <1>4, KindFacts
<1>13. item \in P => item \in PartsOf(sc) /\ item \notin C
  BY <1>2, <1>4, KindFacts
<1>14. CarsOf(u) = CarsOf(sc)
  BY <1>2, <1>3, <1>4, <1>6, <1>7, <1>11, <1>12
<1>15. PartsOf(u) = PartsOf(sc)
  <2>1. \A x \in PartsOf(u) : x \in PartsOf(sc)
    BY <1>3, <1>5, <1>6, <1>11, <1>13
  <2>2. ASSUME NEW x \in PartsOf(sc) PROVE x \in PartsOf(u)
    <3>1. CASE x.id = id
      BY <1>3, <1>4, <1>7, <1>11, <2>2, <3>1
    <3>2. CASE x.owner = id
      BY <1>5, <1>11, <3>2
    <3>3. CASE x.id # id /\ x.owner # id
      BY <1>6, <1>11, <3>3
    <3> QED BY <3>1, <3>2, <3>3
  <2> QED BY <2>1, <2>2
<1> QED
  BY <1>14, <1>15 DEF SameObjects, u, t, s

\* A batch brings back what its deletion took.
LEMMA SpliceBack ==
  ASSUME NEW C, NEW P, NEW own, Kinds(C, P, own), NEW sc, SceneOk(sc, C, P), NEW ids, NEW gone, NEW e, CutOf(e, sc, ids, gone)
  PROVE SameObjects(Respliced(Cut(sc, gone), e.undo.removed), sc)
<1> DEFINE removed == e.undo.removed
           rc == Removed(sc.cars, ids)
           rp == Removed(sc.parts, ids)
           t == Cut(sc, gone)
           u == Respliced(t, removed)
<1>1. sc.cars \in Seq(C) /\ sc.parts \in Seq(P) /\ Distinct(sc.cars) /\ Distinct(sc.parts)
  BY SceneFacts
<1>2. RemovedOk(rc, C) /\ ItemsOf(rc) = {x \in CarsOf(sc) : x.id \in ids \/ x.owner \in ids}
  BY <1>1, RemovedSet DEF CarsOf
<1>3. RemovedOk(rp, P) /\ ItemsOf(rp) = {x \in PartsOf(sc) : x.id \in ids \/ x.owner \in ids}
  BY <1>1, RemovedSet DEF PartsOf
<1>4. removed["cars"] = rc /\ removed["parts"] = rp
  BY DEF CutOf
<1>5. gone = {x.id : x \in ItemsOf(rc)} \cup {x.id : x \in ItemsOf(rp)}
  <2>1. RemovedIds(rc) = {x.id : x \in ItemsOf(rc)} /\ RemovedIds(rc) = {r.item.id : r \in ToSet(rc)}
        /\ RemovedIds(rp) = {x.id : x \in ItemsOf(rp)} /\ RemovedIds(rp) = {r.item.id : r \in ToSet(rp)}
    BY RemovedIdsOf
  <2>2. gone = {r.item.id : r \in ToSet(rc) \cup ToSet(rp)}
    BY DEF CutOf
  <2> HIDE DEF rc, rp
  <2>3. gone = RemovedIds(rc) \cup RemovedIds(rp)
    BY <2>1, <2>2
  <2> QED BY <2>1, <2>3
<1>6. /\ SceneOk(t, C, P)
      /\ CarsOf(t) = {x \in CarsOf(sc) : x.id \notin gone}
      /\ PartsOf(t) = {x \in PartsOf(sc) : x.id \notin gone}
  BY CutScene
<1> HIDE DEF rc, rp, t, removed
<1>7. RemovedOk(removed["cars"], C) /\ RemovedOk(removed["parts"], P)
  BY <1>2, <1>3, <1>4
<1>8. /\ CarsOf(u) = CarsOf(t) \cup {x \in ItemsOf(rc) : x.id \notin IdsOf(t.cars)}
      /\ PartsOf(u) = PartsOf(t) \cup {x \in ItemsOf(rp) : x.id \notin IdsOf(t.parts)}
  BY <1>4, <1>6, <1>7, SpliceScene
<1>9. IdsOf(t.cars) = {x.id : x \in CarsOf(t)} /\ IdsOf(t.parts) = {x.id : x \in PartsOf(t)}
  BY IdsOfSet DEF CarsOf, PartsOf
<1> HIDE DEF u
<1>10. /\ \A x \in CarsOf(sc), y \in CarsOf(sc) : x.id = y.id => x = y
       /\ \A x \in PartsOf(sc), y \in PartsOf(sc) : x.id = y.id => x = y
       /\ \A x \in CarsOf(sc), y \in PartsOf(sc) : x.id # y.id
  BY FoundById
<1>11. \A x \in CarsOf(sc) : x.id \in gone <=> x \in ItemsOf(rc)
  BY <1>2, <1>3, <1>5, <1>10
<1>12. \A x \in PartsOf(sc) : x.id \in gone <=> x \in ItemsOf(rp)
  BY <1>2, <1>3, <1>5, <1>10
<1>13. \A x \in ItemsOf(rc) : x \in CarsOf(sc) /\ x.id \notin IdsOf(t.cars)
  BY <1>2, <1>5, <1>6, <1>9
<1>14. \A x \in ItemsOf(rp) : x \in PartsOf(sc) /\ x.id \notin IdsOf(t.parts)
  BY <1>3, <1>5, <1>6, <1>9
<1>15. CarsOf(u) = CarsOf(sc)
  BY <1>6, <1>8, <1>11, <1>13
<1>16. PartsOf(u) = PartsOf(sc)
  BY <1>6, <1>8, <1>12, <1>14
<1> QED
  BY <1>15, <1>16 DEF SameObjects, u, t, removed

\* Old contents come back where new ones were given.
LEMMA WithValsBack ==
  ASSUME NEW S, ValClosed(S), NEW T \in SUBSET S, NEW new, NEW old, DOMAIN old = DOMAIN new,
         \A x \in T : x.id \in DOMAIN new => old[x.id] = x.val
  PROVE WithVals(WithVals(T, new), old) = T
<1> DEFINE f(x) == IF x.id \in DOMAIN new THEN [x EXCEPT !.val = new[x.id]] ELSE x
           g(x) == IF x.id \in DOMAIN old THEN [x EXCEPT !.val = old[x.id]] ELSE x
<1>1. ASSUME NEW x \in T PROVE g(f(x)) = x
  <2>1. CASE x.id \in DOMAIN new
    <3> DEFINE y == [x EXCEPT !.val = new[x.id]]
    <3>1. y.id = x.id /\ (\A w : [y EXCEPT !.val = w] = [x EXCEPT !.val = w]) /\ [x EXCEPT !.val = x.val] = x
      BY ValOf
    <3>2. f(x) = y
      BY <2>1
    <3> HIDE DEF y
    <3>3. g(y) = [y EXCEPT !.val = old[y.id]]
      BY <2>1, <3>1
    <3>4. old[y.id] = x.val
      BY <2>1, <3>1
    <3>5. [y EXCEPT !.val = x.val] = x
      BY <3>1
    <3> HIDE DEF f, g
    <3> QED BY <3>2, <3>3, <3>4, <3>5
  <2>2. CASE x.id \notin DOMAIN new
    BY <2>2
  <2> QED BY <2>1, <2>2
<1>2. WithVals(T, new) = {f(x) : x \in T}
  BY DEF WithVals
<1>3. WithVals({f(x) : x \in T}, old) = {g(y) : y \in {f(x) : x \in T}}
  BY DEF WithVals
<1> HIDE DEF f, g
<1>4. {g(y) : y \in {f(x) : x \in T}} = T
  <2>1. \A y \in {f(x) : x \in T} : g(y) \in T
    BY <1>1
  <2>2. \A x \in T : f(x) \in {f(z) : z \in T} /\ g(f(x)) = x
    BY <1>1
  <2> QED BY <2>1, <2>2
<1> QED
  BY <1>2, <1>3, <1>4

\* The old contents of several objects.
LEMMA ValsBack ==
  ASSUME NEW C, NEW P, NEW own, Kinds(C, P, own), NEW sc, SceneOk(sc, C, P),
         NEW new, \A i \in DOMAIN new : new[i] \in Vals, NEW old, \A i \in DOMAIN old : old[i] \in Vals,
         DOMAIN old = DOMAIN new, \A x \in Items(sc) : x.id \in DOMAIN new => old[x.id] = x.val
  PROVE SameObjects(Revalued(Revalued(sc, new), old), sc)
<1> DEFINE t == Revalued(sc, new)
<1>1. SceneOk(t, C, P) /\ CarsOf(t) = WithVals(CarsOf(sc), new) /\ PartsOf(t) = WithVals(PartsOf(sc), new)
  BY ValsScene
<1> HIDE DEF t
<1>2. CarsOf(Revalued(t, old)) = WithVals(CarsOf(t), old) /\ PartsOf(Revalued(t, old)) = WithVals(PartsOf(t), old)
  BY <1>1, ValsScene
<1>3. CarsOf(sc) \subseteq C /\ PartsOf(sc) \subseteq P /\ ValClosed(C) /\ ValClosed(P)
      /\ Items(sc) = CarsOf(sc) \cup PartsOf(sc)
  BY SceneFacts, KindFacts, ItemsOfScene DEF CarsOf, PartsOf
<1>4. WithVals(WithVals(CarsOf(sc), new), old) = CarsOf(sc)
  BY <1>3, WithValsBack
<1>5. WithVals(WithVals(PartsOf(sc), new), old) = PartsOf(sc)
  BY <1>3, WithValsBack
<1>6. SameObjects(Revalued(t, old), sc)
  BY <1>1, <1>2, <1>4, <1>5 DEF SameObjects
<1> QED
  BY <1>6 DEF t

-----------------------------------------------------------------------------
(* The newest entries of the stack.                                        *)

\* A history that can be pushed to.
StackOk(h) == IsSeq(h.stack) /\ h.cursor \in 0..Len(h.stack)

\* The newest entry of g is e.
Newest(g, e) ==
  /\ StackOk(g) /\ g.cursor = Len(g.stack) /\ g.cursor > 0 /\ g.stack # <<>>
  /\ g.stack[g.cursor] = e /\ Last(g.stack) = e

\* Pushing makes the entry the newest one.
LEMMA PushedLast ==
  ASSUME NEW h, StackOk(h), NEW entries, IsSeq(entries), entries # <<>>
  PROVE /\ Newest(PushAll(h, entries), entries[Len(entries)])
        /\ Len(entries) = 1 /\ MaxHistory # 1 /\ h.cursor > 0 =>
             /\ PushAll(h, entries).cursor > 1
             /\ PushAll(h, entries).stack[PushAll(h, entries).cursor - 1] = h.stack[h.cursor]
        /\ \A s \in DOMAIN h.deletions : s # 0 /\ s = entries[Len(entries)].snap =>
             s \in DOMAIN PushAll(h, entries).deletions /\ PushAll(h, entries).deletions[s] = h.deletions[s]
<1> DEFINE r == PushAll(h, entries)
           S == ToSet(h.stack) \cup ToSet(entries)
           n == h.cursor + Len(entries)
           m == n - Over(n)
           e == entries[Len(entries)]
<1>1. h.stack \in Seq(S) /\ entries \in Seq(S) /\ h.cursor \in 0..Len(h.stack) /\ Len(h.stack) \in Nat
  BY SameSet DEF StackOk, IsSeq
<1>2. Pushed(S, h, entries, r)
  BY <1>1, PushAllKeeps
<1>3. Len(entries) \in Nat /\ Len(entries) >= 1 /\ h.cursor \in Nat /\ MaxHistory \in Nat /\ MaxHistory >= 1
  <2>1. Len(entries) \in Nat /\ Len(entries) # 0
    BY <1>1
  <2> QED BY <1>1, <2>1, BoundAssumption
<1> HIDE DEF S, r
<1>4. /\ IsHist(r) /\ r.stack \in Seq(S)
      /\ n \in Nat /\ Over(n) \in 0..(n - 1)
      /\ Len(r.stack) = m /\ r.cursor = m
      /\ \A i \in 1..m :
           r.stack[i] = IF i + Over(n) <= h.cursor THEN h.stack[i + Over(n)]
                        ELSE entries[(i + Over(n)) - h.cursor]
      /\ r.deletions = RestrictTo(h.deletions, DOMAIN h.deletions \ (Snaps(h.stack) \ Snaps(r.stack)))
  BY <1>2 DEF Pushed
<1>5. m \in 1..m /\ m + Over(n) = n /\ ~(n <= h.cursor) /\ n - h.cursor = Len(entries) /\ m > 0 /\ m \in Nat
  <2>1. ~(n <= h.cursor) /\ n - h.cursor = Len(entries)
    BY <1>3
  <2>2. n \in Nat /\ Over(n) \in 0..(n - 1)
    BY <1>4
  <2> HIDE DEF n
  <2>3. m \in Nat /\ m > 0 /\ m + Over(n) = n /\ m \in 1..m
    BY <2>2
  <2> QED BY <2>1, <2>3
<1>6. r.stack[m] = e
  <2> HIDE DEF m, n
  <2>1. r.stack[m] = entries[n - h.cursor]
    BY <1>4, <1>5
  <2> QED BY <1>5, <2>1
<1>7. StackOk(r) /\ r.stack # <<>> /\ r.cursor = m /\ Len(r.stack) = m
  <2> HIDE DEF m
  <2>1. IsSeq(r.stack)
    BY <1>4, SeqIsSeq
  <2>2. Len(r.stack) > 0
    BY <1>4, <1>5
  <2> QED BY <1>4, <1>5, <2>1, <2>2 DEF StackOk
<1>8. Newest(r, e)
  <2> HIDE DEF m, e
  <2> QED BY <1>5, <1>6, <1>7 DEF Newest, Last
<1>9. ASSUME Len(entries) = 1, MaxHistory # 1, h.cursor > 0
      PROVE r.cursor > 1 /\ r.stack[r.cursor - 1] = h.stack[h.cursor]
  <2>1. n = h.cursor + 1 /\ n > 1
    BY <1>3, <1>9
  <2>2. m > 1
    BY <1>3, <1>9, <2>1 DEF Over
  <2>3. m - 1 \in 1..m /\ (m - 1) + Over(n) = h.cursor
    <3>1. n \in Nat /\ Over(n) \in Nat /\ n - 1 = h.cursor
      BY <1>3, <1>4, <2>1
    <3> HIDE DEF n
    <3> QED BY <1>5, <2>2, <3>1
  <2> HIDE DEF m, n
  <2>4. r.stack[m - 1] = h.stack[h.cursor]
    BY <1>3, <1>4, <2>3
  <2> QED BY <1>7, <2>2, <2>4
<1>10. ASSUME NEW s \in DOMAIN h.deletions, s # 0, s = e.snap
       PROVE s \in DOMAIN r.deletions /\ r.deletions[s] = h.deletions[s]
  <2> HIDE DEF m, e
  <2>1. m \in DOMAIN r.stack
    BY <1>4, <1>5
  <2>2. s \in Snaps(r.stack)
    BY <1>6, <1>10, <2>1 DEF Snaps
  <2> QED BY <1>4, <1>10, <2>2 DEF RestrictTo
<1> QED
  BY <1>8, <1>9, <1>10 DEF r, e

\* Pushing one entry.
LEMMA PushedOne ==
  ASSUME NEW h, StackOk(h), NEW e
  PROVE /\ Newest(Push(h, e), e)
        /\ MaxHistory # 1 /\ h.cursor > 0 =>
             Push(h, e).cursor > 1 /\ Push(h, e).stack[Push(h, e).cursor - 1] = h.stack[h.cursor]
        /\ \A s \in DOMAIN h.deletions : s # 0 /\ s = e.snap =>
             s \in DOMAIN Push(h, e).deletions /\ Push(h, e).deletions[s] = h.deletions[s]
<1> DEFINE entries == <<e>>
<1>1. Len(entries) = 1 /\ entries # <<>> /\ entries[Len(entries)] = e
  OBVIOUS
<1>2. IsSeq(entries)
  BY OneSet, SeqIsSeq
<1>3. Push(h, e) = PushAll(h, entries)
  BY DEF Push
<1> HIDE DEF entries
<1> QED
  BY <1>1, <1>2, <1>3, PushedLast

-----------------------------------------------------------------------------
\* f holds the scenes after the newest entries were undone, one by one.
IsUndone(f, h, sc, k) ==
  f = [n \in 0..k |-> IF n = 0 THEN sc ELSE Apply(h.stack[h.cursor + 1 - n].undo, f[n - 1], h.deletions)]

\* The scene after no undo, one, two, ...
LEMMA UndoNewestIs ==
  ASSUME NEW h, h.cursor \in Nat, NEW sc
  PROVE /\ UndoNewest(h, sc)[0] = sc
        /\ \A n \in 1..h.cursor :
             UndoNewest(h, sc)[n] = Apply(h.stack[h.cursor + 1 - n].undo, UndoNewest(h, sc)[n - 1], h.deletions)
<1> DEFINE op(n) == h.stack[h.cursor + 1 - n].undo
           del == h.deletions
           c == h.cursor
           Is(f, k) == f = [n \in 0..k |-> IF n = 0 THEN sc ELSE Apply(op(n), f[n - 1], del)]
           G == {k \in 0..c : \E f : Is(f, k)}
<1>0. \A f, k : Is(f, k) <=> IsUndone(f, h, sc, k)
  BY DEF IsUndone
<1>00. c \in Nat
  OBVIOUS
<1>1. 0 \in G
  <2> HIDE DEF op
  <2> DEFINE f == [n \in 0..0 |-> sc]
  <2>1. f = [n \in 0..0 |-> IF n = 0 THEN sc ELSE Apply(op(n), f[n - 1], del)]
    <3> HIDE DEF del
    <3> QED OBVIOUS
  <2>2. Is(f, 0)
    BY <2>1
  <2> HIDE DEF Is
  <2> QED BY <1>00, <2>2
<1>2. ASSUME NEW k \in 1..c, k - 1 \in G PROVE k \in G
  <2>1. PICK f : Is(f, k - 1)
    BY <1>2
  <2> DEFINE h2 == [n \in 0..k |-> IF n = k THEN Apply(op(k), f[k - 1], del) ELSE f[n]]
  <2> HIDE DEF op, del, c
  <2>2. \A n \in 0..(k - 1) : f[n] = IF n = 0 THEN sc ELSE Apply(op(n), f[n - 1], del)
    BY <2>1
  <2>3. ASSUME NEW n \in 0..k PROVE h2[n] = IF n = 0 THEN sc ELSE Apply(op(n), h2[n - 1], del)
    <3>1. k \in Nat /\ k >= 1
      BY <1>00
    <3>2. CASE n = k
      <4>1. h2[n - 1] = f[k - 1]
        BY <3>1, <3>2
      <4> QED BY <3>1, <3>2, <4>1
    <3>3. CASE n # k
      <4>1. n \in 0..(k - 1) /\ h2[n] = f[n]
        BY <3>1, <3>3
      <4>2. n # 0 => h2[n - 1] = f[n - 1]
        BY <3>1, <3>3
      <4> QED BY <2>2, <4>1, <4>2
    <3> QED BY <3>2, <3>3
  <2>4. h2 = [n \in 0..k |-> h2[n]]
    OBVIOUS
  <2> HIDE DEF h2
  <2>5. Is(h2, k)
    BY <2>3, <2>4
  <2> HIDE DEF Is
  <2>6. k \in 0..c
    BY <1>00
  <2> QED BY <2>5, <2>6
<1>3. c \in G
  <2> HIDE DEF G, c
  <2> QED BY <1>00, <1>1, <1>2, UpTo
<1>4. PICK f : IsUndone(f, h, sc, c)
  BY <1>0, <1>3
<1>5. UndoNewest(h, sc) = CHOOSE g : IsUndone(g, h, sc, c)
  BY DEF UndoNewest, IsUndone
<1>6. IsUndone(UndoNewest(h, sc), h, sc, c)
  BY <1>4, <1>5
<1> DEFINE u == UndoNewest(h, sc)
<1>7. u = [n \in 0..c |-> IF n = 0 THEN sc ELSE Apply(op(n), u[n - 1], del)]
  BY <1>6 DEF IsUndone
<1> HIDE DEF u, op, c, del
<1>8. u[0] = sc /\ \A n \in 1..c : u[n] = Apply(op(n), u[n - 1], del)
  BY <1>00, <1>7
<1> QED
  BY <1>8 DEF u, op, c, del

-----------------------------------------------------------------------------
\* Doing the newest entry again changes nothing.
Redoes(g, t) == SameObjects(Apply(Last(g.stack).redo, t, g.deletions), t)

\* Undoing some of the newest entries leads from scene t back to s.
BackTo(g, t, s) == \E n \in 1..g.cursor : SameObjects(UndoNewest(g, t)[n], s)

\* A step from scene s to t that left the history g is recorded.
WellRecorded(g, s, t) ==
  StackOk(g) /\ g.cursor = Len(g.stack) /\ Redoes(g, t) /\ (MaxHistory # 1 => BackTo(g, t, s))

\* One undo leads back.
LEMMA OneBack ==
  ASSUME NEW g, NEW e, Newest(g, e), NEW s, NEW t, SameObjects(Apply(e.undo, t, g.deletions), s)
  PROVE BackTo(g, t, s)
<1>1. g.cursor \in Nat /\ g.cursor > 0 /\ g.stack[g.cursor] = e
  BY DEF Newest, StackOk, IsSeq
<1>2. 1 \in 1..g.cursor /\ g.cursor + 1 - 1 = g.cursor /\ 1 - 1 = 0
  BY <1>1
<1>3. UndoNewest(g, t)[0] = t /\ UndoNewest(g, t)[1] = Apply(g.stack[g.cursor + 1 - 1].undo, UndoNewest(g, t)[1 - 1], g.deletions)
  BY <1>1, <1>2, UndoNewestIs
<1>4. UndoNewest(g, t)[1] = Apply(e.undo, t, g.deletions)
  BY <1>1, <1>2, <1>3
<1> QED
  BY <1>2, <1>4 DEF BackTo

\* Two undos lead back.
LEMMA TwoBack ==
  ASSUME NEW g, NEW e, Newest(g, e), g.cursor > 1, NEW d, g.stack[g.cursor - 1] = d,
         NEW s, NEW t, SameObjects(Apply(d.undo, Apply(e.undo, t, g.deletions), g.deletions), s)
  PROVE BackTo(g, t, s)
<1>1. g.cursor \in Nat /\ g.cursor > 0 /\ g.stack[g.cursor] = e
  BY DEF Newest, StackOk, IsSeq
<1>2. 1 \in 1..g.cursor /\ g.cursor + 1 - 1 = g.cursor /\ 1 - 1 = 0
      /\ 2 \in 1..g.cursor /\ g.cursor + 1 - 2 = g.cursor - 1 /\ 2 - 1 = 1
  BY <1>1
<1>3. /\ UndoNewest(g, t)[0] = t
      /\ UndoNewest(g, t)[1] = Apply(g.stack[g.cursor + 1 - 1].undo, UndoNewest(g, t)[1 - 1], g.deletions)
      /\ UndoNewest(g, t)[2] = Apply(g.stack[g.cursor + 1 - 2].undo, UndoNewest(g, t)[2 - 1], g.deletions)
  BY <1>1, <1>2, UndoNewestIs
<1>4. UndoNewest(g, t)[1] = Apply(e.undo, t, g.deletions)
  BY <1>1, <1>2, <1>3
<1>5. UndoNewest(g, t)[2] = Apply(d.undo, Apply(e.undo, t, g.deletions), g.deletions)
  BY <1>2, <1>3, <1>4
<1> QED
  BY <1>2, <1>5 DEF BackTo

\* A step recorded as one entry.
LEMMA OneRecorded ==
  ASSUME NEW h, StackOk(h), NEW e, NEW s, NEW t,
         SameObjects(Apply(e.redo, t, Push(h, e).deletions), t),
         SameObjects(Apply(e.undo, t, Push(h, e).deletions), s)
  PROVE WellRecorded(Push(h, e), s, t)
<1> DEFINE g == Push(h, e)
<1>1. Newest(g, e)
  BY PushedOne
<1> HIDE DEF g
<1>2. Redoes(g, t)
  BY <1>1 DEF Newest, Redoes, g
<1>3. BackTo(g, t, s)
  BY <1>1, OneBack DEF g
<1> QED
  BY <1>1, <1>2, <1>3 DEF Newest, WellRecorded, g

\* What the tracker pushes for the objects that came into a collection.
AdditionOf(c, items) ==
  Entry([kind |-> "remove", coll |-> c, ids |-> IdsOf(items)], [kind |-> "restore", coll |-> c, items |-> items])

\* An addition done again and undone.
LEMMA AdditionOps ==
  ASSUME NEW c, NEW items, NEW sc, NEW del
  PROVE /\ Apply(AdditionOf(c, items).undo, sc, del) = Taken(sc, c, IdsOf(items))
        /\ Apply(AdditionOf(c, items).redo, sc, del) = Given(sc, c, items)
<1> DEFINE e == AdditionOf(c, items)
<1>1. /\ e.undo.kind = "remove" /\ e.undo.coll = c /\ e.undo.ids = IdsOf(items)
      /\ e.redo.kind = "restore" /\ e.redo.coll = c /\ e.redo.items = items
  BY DEF AdditionOf, Entry
<1> HIDE DEF e
<1>2. Apply(e.undo, sc, del) = Taken(sc, c, IdsOf(items)) /\ Apply(e.redo, sc, del) = Given(sc, c, items)
  BY <1>1, ApplyIs
<1> QED
  BY <1>2 DEF e

\* Additions are recorded, one entry for each collection.
LEMMA AddedRecorded ==
  ASSUME NEW C, NEW P, NEW own, Kinds(C, P, own), NEW h, StackOk(h),
         NEW s, SceneOk(s, C, P), NEW t, SceneOk(t, C, P),
         CarsOf(s) \subseteq CarsOf(t), PartsOf(s) \subseteq PartsOf(t), ~SameObjects(s, t)
  PROVE WellRecorded(TrackAdded(h, s, t), s, t)
<1> DEFINE a == Added(s.cars, t.cars)
           b == Added(s.parts, t.parts)
           d == AdditionOf("cars", a)
           e == AdditionOf("parts", b)
<1>1. s.cars \in Seq(C) /\ s.parts \in Seq(P) /\ t.cars \in Seq(C) /\ t.parts \in Seq(P)
      /\ Distinct(t.cars) /\ Distinct(t.parts)
  BY SceneFacts
<1>2. /\ a \in Seq(C) /\ Distinct(a) /\ ToSet(a) = {x \in CarsOf(t) : x.id \notin IdsOf(s.cars)}
      /\ IdsOf(a) = IdsOf(t.cars) \ IdsOf(s.cars)
  BY <1>1, AddedSet DEF CarsOf
<1>3. /\ b \in Seq(P) /\ Distinct(b) /\ ToSet(b) = {x \in PartsOf(t) : x.id \notin IdsOf(s.parts)}
      /\ IdsOf(b) = IdsOf(t.parts) \ IdsOf(s.parts)
  BY <1>1, AddedSet DEF PartsOf
<1>4. /\ IdsOf(s.cars) = {x.id : x \in CarsOf(s)} /\ IdsOf(s.parts) = {x.id : x \in PartsOf(s)}
  BY IdsOfSet DEF CarsOf, PartsOf
<1>5. /\ \A x \in CarsOf(t), y \in CarsOf(t) : x.id = y.id => x = y
      /\ \A x \in PartsOf(t), y \in PartsOf(t) : x.id = y.id => x = y
  BY FoundById
<1>6. TrackAdded(h, s, t) = PushAdded(PushAdded(h, "cars", a), "parts", b)
  BY DEF TrackAdded
<1>7. /\ PushAdded(h, "cars", a) = IF a = <<>> THEN h ELSE Push(h, d)
      /\ \A g : PushAdded(g, "parts", b) = IF b = <<>> THEN g ELSE Push(g, e)
  BY DEF PushAdded, AdditionOf
<1> HIDE DEF a, b
<1>8. a = <<>> => CarsOf(t) = CarsOf(s)
  <2> SUFFICES ASSUME a = <<>> PROVE CarsOf(t) \subseteq CarsOf(s)
    OBVIOUS
  <2>1. ToSet(a) = {}
    BY EmptySet
  <2> QED BY <1>2, <1>4, <1>5, <2>1
<1>9. b = <<>> => PartsOf(t) = PartsOf(s)
  <2> SUFFICES ASSUME b = <<>> PROVE PartsOf(t) \subseteq PartsOf(s)
    OBVIOUS
  <2>1. ToSet(b) = {}
    BY EmptySet
  <2> QED BY <1>3, <1>4, <1>5, <2>1
<1>10. ~(a = <<>> /\ b = <<>>)
  BY <1>8, <1>9 DEF SameObjects
<1>11. SameObjects(Given(t, "cars", a), t)
  <2>1. IdsOf(a) \subseteq IdsOf(t.cars)
    BY <1>2
  <2> QED BY <1>2, <2>1, GiveAgain
<1>12. SameObjects(Given(t, "parts", b), t)
  <2>1. IdsOf(b) \subseteq IdsOf(t.parts)
    BY <1>3
  <2> QED BY <1>3, <2>1, GiveAgain
<1>13. \A sc, del : /\ Apply(d.undo, sc, del) = Taken(sc, "cars", IdsOf(a))
                    /\ Apply(d.redo, sc, del) = Given(sc, "cars", a)
                    /\ Apply(e.undo, sc, del) = Taken(sc, "parts", IdsOf(b))
                    /\ Apply(e.redo, sc, del) = Given(sc, "parts", b)
  BY AdditionOps
<1> HIDE DEF d, e
<1>14. CASE a # <<>> /\ b = <<>>
  <2>1. TrackAdded(h, s, t) = Push(h, d)
    BY <1>6, <1>7, <1>14
  <2>2. SameObjects(Taken(t, "cars", IdsOf(a)), s)
    BY <1>2, <1>9, <1>14, TakeBack
  <2>3. SameObjects(Apply(d.redo, t, Push(h, d).deletions), t) /\ SameObjects(Apply(d.undo, t, Push(h, d).deletions), s)
    BY <1>11, <1>13, <2>2
  <2> QED BY <2>1, <2>3, OneRecorded
<1>15. CASE a = <<>> /\ b # <<>>
  <2>1. TrackAdded(h, s, t) = Push(h, e)
    BY <1>6, <1>7, <1>15
  <2>2. SameObjects(Taken(t, "parts", IdsOf(b)), s)
    BY <1>3, <1>8, <1>15, TakeBack
  <2>3. SameObjects(Apply(e.redo, t, Push(h, e).deletions), t) /\ SameObjects(Apply(e.undo, t, Push(h, e).deletions), s)
    BY <1>12, <1>13, <2>2
  <2> QED BY <2>1, <2>3, OneRecorded
<1>16. CASE a # <<>> /\ b # <<>>
  <2> DEFINE g == Push(h, d)
             r == Push(g, e)
             u == Taken(t, "parts", IdsOf(b))
             v == [cars |-> t.cars, parts |-> s.parts]
  <2>1. TrackAdded(h, s, t) = r
    BY <1>6, <1>7, <1>16
  <2>2. Newest(g, d)
    BY PushedOne
  <2>3. StackOk(g) /\ g.cursor > 0 /\ g.stack[g.cursor] = d
    BY <2>2 DEF Newest
  <2> HIDE DEF g
  <2>4. Newest(r, e) /\ (MaxHistory # 1 => r.cursor > 1 /\ r.stack[r.cursor - 1] = d)
    BY <2>3, PushedOne
  <2> HIDE DEF r
  <2>5. Redoes(r, t)
    BY <1>12, <1>13, <2>4 DEF Newest, Redoes
  <2>6. SceneOk(v, C, P) /\ v.cars = t.cars /\ v.parts = s.parts
    BY <1>1, SceneFacts, TwoColls
  <2>7. CarsOf(v) = CarsOf(t) /\ PartsOf(v) = PartsOf(s)
    BY <2>6 DEF CarsOf, PartsOf
  <2> HIDE DEF v
  <2>8. SameObjects(u, v)
    BY <1>3, <2>6, <2>7, TakeBack
  <2>9. SceneOk(u, C, P)
    BY <1>3, TakeScene
  <2> HIDE DEF u
  <2>10. CarsOf(u) = CarsOf(t) /\ PartsOf(u) = PartsOf(s)
    BY <2>7, <2>8 DEF SameObjects
  <2>11. SameObjects(Taken(u, "cars", IdsOf(a)), s)
    BY <1>2, <2>9, <2>10, TakeBack
  <2>12. \A del : Apply(d.undo, Apply(e.undo, t, del), del) = Taken(u, "cars", IdsOf(a))
    BY <1>13 DEF u
  <2>13. MaxHistory # 1 => BackTo(r, t, s)
    BY <2>4, <2>11, <2>12, TwoBack
  <2> QED BY <2>1, <2>4, <2>5, <2>13 DEF Newest, WellRecorded
<1> QED
  BY <1>10, <1>14, <1>15, <1>16

-----------------------------------------------------------------------------
(* A redo after an undo.                                                   *)

\* Sequences with the same distinct ids are of one length.
LEMMA SameLength ==
  ASSUME NEW S, NEW s \in Seq(S), NEW t \in Seq(S), Distinct(s), Distinct(t), IdsOf(s) = IdsOf(t)
  PROVE Len(s) = Len(t)
<1>1. ASSUME NEW q \in Seq(S), Distinct(q) PROVE Cardinality(IdsOf(q)) = Len(q)
  <2> DEFINE f == [i \in 1..Len(q) |-> q[i].id]
  <2>1. DOMAIN q = 1..Len(q) /\ Len(q) \in Nat
    OBVIOUS
  <2>2. f \in [1..Len(q) -> IdsOf(q)] /\ \A i \in IdsOf(q) : \E k \in 1..Len(q) : f[k] = i
    BY <2>1 DEF IdsOf
  <2>3. \A i, j \in 1..Len(q) : f[i] = f[j] => i = j
    BY <1>1, <2>1 DEF Distinct
  <2> HIDE DEF f
  <2>4. f \in Bijection(1..Len(q), IdsOf(q))
    BY <2>2, <2>3 DEF Bijection, Injection, Surjection, IsInjective
  <2>5. ExistsBijection(1..Len(q), IdsOf(q))
    BY <2>4 DEF ExistsBijection
  <2> QED BY <2>1, <2>5, FS_CountingElements
<1>2. Cardinality(IdsOf(s)) = Len(s) /\ Cardinality(IdsOf(t)) = Len(t)
  BY <1>1
<1> QED
  BY <1>2

\* Scenes with the same ids have them in the same collections.
LEMMA SameIdsIn ==
  ASSUME NEW C, NEW P, NEW own, Kinds(C, P, own), NEW s, SceneOk(s, C, P), NEW t, SceneOk(t, C, P), IdsIn(s) = IdsIn(t)
  PROVE SameIds(s, t)
<1>1. /\ s.cars \in Seq(C) /\ s.parts \in Seq(P) /\ Distinct(s.cars) /\ Distinct(s.parts)
      /\ t.cars \in Seq(C) /\ t.parts \in Seq(P) /\ Distinct(t.cars) /\ Distinct(t.parts)
      /\ s["cars"] = s.cars /\ s["parts"] = s.parts /\ t["cars"] = t.cars /\ t["parts"] = t.parts
  BY SceneFacts
<1>2. \A q \in Seq(C) : IdsOf(q) \subseteq Cars
  BY KindFacts DEF IdsOf
<1>3. \A q \in Seq(P) : IdsOf(q) \subseteq Parts
  BY KindFacts DEF IdsOf
<1>4. IdsOf(s.cars) = IdsOf(t.cars) /\ IdsOf(s.parts) = IdsOf(t.parts)
  BY <1>1, <1>2, <1>3, IdAssumption DEF IdsIn
<1>5. Len(s.cars) = Len(t.cars)
  BY <1>1, <1>4, SameLength
<1>6. Len(s.parts) = Len(t.parts)
  BY <1>1, <1>4, SameLength
<1> QED
  BY <1>1, <1>4, <1>5, <1>6 DEF SameIds, Colls

\* Doing the next entry gives the scene the ids the entry says.
RedoSays(h, sc, C, P) ==
  LET e == h.stack[h.cursor + 1]
      t == Apply(e.redo, sc, h.deletions)
  IN  SceneOk(t, C, P) /\ IdsIn(t) = (IdsIn(sc) \cup AddIds(e)) \ DelIds(e, h.deletions)

\* It does while owners are removed first.
LEMMA RedoIds ==
  ASSUME NEW C, NEW P, NEW own, Kinds(C, P, own), NEW h, NEW sc, Fits(h, sc, C, P, own, TRUE), h.cursor < Len(h.stack)
  PROVE RedoSays(h, sc, C, P)
<1> DEFINE e == h.stack[h.cursor + 1]
           n == Len(h.stack)
           A == Adds(h)
           D == Dels(h)
           S == IdsIn(sc)
           cur == h.cursor
           q == cur + 1
<1>1. /\ SceneOk(sc, C, P)
      /\ \A i \in 1..n : EntryOk(h.stack[i], h.deletions, C, P)
      /\ LogOk(n, A, D, cur, S)
      /\ Replayed(n, A, D, cur, S) /\ OwnersFirst(n, A, D, S, Parts, own)
  BY DEF Fits, HistOk, OrderOk
<1>2. q \in 1..n /\ n \in Nat /\ cur < n /\ cur \in Nat /\ q = cur + 1
  BY <1>1 DEF LogOk
<1>3. D[q] = DelIds(e, h.deletions) /\ EntryOk(e, h.deletions, C, P)
  BY <1>1, <1>2 DEF Dels
<1> HIDE DEF n, A, D, S, cur
<1>4. ASSUME NEW p \in Parts, p \in S, own[p] \in D[q] PROVE p \in D[q]
  <2>1. Known(n, A, D, S, p) /\ Done(n, A, D, cur, p)
    BY <1>1, <1>4 DEF Replayed, Known
  <2>2. PICK m \in 1..n : m <= q /\ p \in D[m]
    BY <1>1, <1>2, <1>4, <2>1 DEF OwnersFirst
  <2>3. m > cur
    BY <2>1, <2>2 DEF Done
  <2>4. m = q
    BY <1>2, <2>2, <2>3
  <2> QED BY <2>2, <2>4
<1> HIDE DEF q
<1>5. \A p \in Parts : p \in IdsIn(sc) /\ own[p] \in DelIds(e, h.deletions) => p \in DelIds(e, h.deletions)
  BY <1>3, <1>4 DEF S
<1> QED
  BY <1>1, <1>3, <1>5, RedoKeeps DEF RedoSays

\* What an undo takes or brings, the redo after it puts right.
LEMMA UndoRedo ==
  ASSUME NEW C, NEW P, NEW own, Kinds(C, P, own), NEW h, NEW sc, Fits(h, sc, C, P, own, TRUE), h.cursor > 0
  PROVE LET e == h.stack[h.cursor]
        IN  SameIds(Apply(e.redo, Apply(e.undo, sc, h.deletions), h.deletions), sc)
<1> DEFINE e == h.stack[h.cursor]
           t == Apply(e.undo, sc, h.deletions)
           r == [h EXCEPT !.cursor = h.cursor - 1]
           u == Apply(e.redo, t, h.deletions)
           n == Len(h.stack)
           A == Adds(h)
           D == Dels(h)
           S == IdsIn(sc)
           cur == h.cursor
<1>1. /\ IsHist(h) /\ SceneOk(sc, C, P)
      /\ \A i \in 1..n : EntryOk(h.stack[i], h.deletions, C, P)
      /\ LogOk(n, A, D, cur, S) /\ Replayed(n, A, D, cur, S)
  BY DEF Fits, HistOk, OrderOk
<1>2. cur \in 1..n /\ n \in Nat /\ cur \in 1..cur /\ cur > 0
  BY <1>1 DEF LogOk
<1>3. A[cur] = AddIds(e) /\ D[cur] = DelIds(e, h.deletions) /\ EntryOk(e, h.deletions, C, P)
  BY <1>1, <1>2 DEF Adds, Dels
<1>4. Fits(r, t, C, P, own, TRUE)
  <2>1. TRUE \in BOOLEAN
    OBVIOUS
  <2> QED BY <2>1, UndoFits
<1>5. r.stack = h.stack /\ r.deletions = h.deletions /\ r.cursor = cur - 1 /\ r.cursor + 1 = cur /\ r.cursor < Len(r.stack)
  BY <1>1, <1>2 DEF IsHist
<1>6. e = r.stack[r.cursor + 1]
  BY <1>5
<1> HIDE DEF r, e, t, n, A, D, S, cur
<1>7. SceneOk(Apply(e.redo, t, r.deletions), C, P)
      /\ IdsIn(Apply(e.redo, t, r.deletions)) = (IdsIn(t) \cup AddIds(e)) \ DelIds(e, r.deletions)
  <2>1. r.cursor < Len(r.stack)
    BY <1>5
  <2>2. RedoSays(r, t, C, P)
    <3> HIDE DEF u
    <3> QED BY <1>4, <2>1, RedoIds
  <2> QED BY <1>6, <2>2 DEF RedoSays
<1>8. SceneOk(u, C, P) /\ IdsIn(u) = (IdsIn(t) \cup A[cur]) \ D[cur]
  BY <1>3, <1>5, <1>7
<1>9. D[cur] \cap S = {}
  BY <1>1, <1>2 DEF LogOk
<1>10. IdsIn(t) = (S \ A[cur]) \cup D[cur]
  BY <1>1, <1>3, <1>9, UndoKeeps DEF t, S
<1>11. A[cur] \subseteq S
  <2> SUFFICES ASSUME NEW x \in A[cur] PROVE x \in S
    OBVIOUS
  <2>1. Known(n, A, D, S, x)
    BY <1>2 DEF Known
  <2>2. \A j \in 1..n : x \in A[j] => j = cur
    BY <1>1, <1>2 DEF Replayed
  <2>3. \A k \in 1..n : x \in D[k] => k > cur
    BY <1>1, <1>2 DEF LogOk
  <2>4. Done(n, A, D, cur, x)
    BY <1>2, <2>2, <2>3 DEF Done
  <2> QED BY <1>1, <2>1, <2>4 DEF Replayed
<1>12. IdsIn(u) = S
  BY <1>8, <1>9, <1>10, <1>11
<1> HIDE DEF u
<1>13. SameIds(u, sc)
  BY <1>1, <1>8, <1>12, SameIdsIn DEF S
<1> QED
  BY <1>13 DEF u, t, e

-----------------------------------------------------------------------------
(* Every step of the editor, from history h and scene s to g and t.        *)

\* The history tells what a step has done and what an undo takes back.
Faithful(h, s, g, t, strict) ==
  /\ (g.stack # h.stack /\ g.stack # <<>> /\ g.cursor = Len(g.stack)) =>
       Redoes(g, t) /\ ((MaxHistory # 1 /\ t # s) => BackTo(g, t, s))
  /\ (strict /\ g.cursor < Len(g.stack) /\ (g.cursor < h.cursor \/ g.stack # h.stack) /\ ~SameIds(t, s)) =>
       SameIds(Apply(g.stack[g.cursor + 1].redo, t, g.deletions), s)

\* A step that is well recorded.
LEMMA RecordedFaithful ==
  ASSUME NEW h, NEW s, NEW g, NEW t, WellRecorded(g, s, t), NEW strict
  PROVE Faithful(h, s, g, t, strict)
<1>1. Len(g.stack) \in Nat /\ g.cursor = Len(g.stack) /\ Redoes(g, t) /\ (MaxHistory # 1 => BackTo(g, t, s))
  BY DEF WellRecorded, StackOk, IsSeq
<1>2. ~(g.cursor < Len(g.stack))
  BY <1>1
<1> QED
  BY <1>1, <1>2 DEF Faithful

\* A step that leaves the entries and does not undo.
LEMMA SameStackFaithful ==
  ASSUME NEW h, NEW s, NEW g, NEW t, g.stack = h.stack, h.cursor \in Nat, g.cursor \in Nat, g.cursor >= h.cursor, NEW strict
  PROVE Faithful(h, s, g, t, strict)
BY DEF Faithful

\* A step that records an edit made before.
LEMMA RecordFaithful ==
  ASSUME NEW C, NEW P, NEW own, Kinds(C, P, own), NEW h, StackOk(h), NEW s, SceneOk(s, C, P), NEW before, NEW strict
  PROVE Faithful(h, s, Record(h, s, before), s, strict)
<1> DEFINE item == TheItem(s, before.id)
           e == EditEntry(s, before)
           g == Push(h, e)
<1>1. CASE Changed(s, before)
  <2>1. item \in Items(s)
    BY <1>1, ItemsOfScene DEF Changed
  <2>2. SameObjects(PatchScene(s, item), s)
    BY <2>1, PatchAgain
  <2>3. e.redo.kind = "patch" /\ e.redo.item = item
    BY DEF EditEntry, Entry, PatchOp
  <2>4. Newest(g, e)
    BY PushedOne
  <2>5. g = Record(h, s, before)
    BY <1>1 DEF Record
  <2> HIDE DEF item, e, g
  <2>6. Apply(e.redo, s, g.deletions) = PatchScene(s, item)
    BY <2>3, ApplyIs
  <2>7. Redoes(g, s) /\ g.cursor = Len(g.stack) /\ Len(g.stack) \in Nat
    BY <2>2, <2>4, <2>6 DEF Redoes, Newest, StackOk, IsSeq
  <2>8. ~(g.cursor < Len(g.stack))
    BY <2>7
  <2>9. Faithful(h, s, g, s, strict)
    BY <2>7, <2>8 DEF Faithful
  <2> QED BY <2>5, <2>9
<1>2. CASE ~Changed(s, before)
  <2>1. Record(h, s, before) = h /\ h.cursor \in Nat
    BY <1>2 DEF Record, StackOk, IsSeq
  <2> QED BY <2>1, SameStackFaithful
<1> QED
  BY <1>1, <1>2

\* A deletion by key.
LEMMA DeleteRecorded ==
  ASSUME NEW C, NEW P, NEW own, Kinds(C, P, own), NEW h, StackOk(h), NEW s, SceneOk(s, C, P), NEW id, Present(s, id),
         NEW r, NEW snap, WithSnap(h, r, snap, Snapshot(s, id)), NEW e, DeletionOf(e, snap, id)
  PROVE WellRecorded(Push(r, e), s, RemoveItems(s, {id}))
<1> DEFINE t == RemoveItems(s, {id})
           g == Push(r, e)
           w == Snapshot(s, id)
<1>1. SameObjects(RemoveItems(t, {id}), t)
  BY RemoveAgain
<1>2. SameObjects(RestoreSnapshot(t, w), s)
  BY UnsnapBack
<1>3. StackOk(r) /\ snap # 0 /\ snap \in DOMAIN r.deletions /\ r.deletions[snap] = w
  BY DEF WithSnap, StackOk
<1>4. e.undo.kind = "unsnap" /\ e.undo.snap = snap /\ e.redo.kind = "delete" /\ e.redo.id = id /\ e.snap = snap
  BY DEF DeletionOf
<1>5. snap \in DOMAIN g.deletions /\ g.deletions[snap] = r.deletions[snap]
  BY <1>3, <1>4, PushedOne
<1> HIDE DEF t, g, w
<1>6. Apply(e.redo, t, g.deletions) = RemoveItems(t, {id})
  BY <1>4, ApplyIs
<1>7. Apply(e.undo, t, g.deletions) = RestoreSnapshot(t, w)
  <2>1. e.undo.snap \in DOMAIN g.deletions /\ g.deletions[e.undo.snap] = w
    BY <1>3, <1>4, <1>5
  <2>2. Apply(e.undo, t, g.deletions) = RestoreSnapshot(t, g.deletions[e.undo.snap])
    BY <1>4, <2>1, ApplyIs
  <2> QED BY <2>1, <2>2
<1>8. WellRecorded(g, s, t)
  BY <1>1, <1>2, <1>3, <1>6, <1>7, OneRecorded DEF g
<1> QED
  BY <1>8 DEF g, t

\* A deletion of selected objects.
LEMMA CutRecorded ==
  ASSUME NEW C, NEW P, NEW own, Kinds(C, P, own), NEW h, StackOk(h), NEW s, SceneOk(s, C, P),
         NEW ids, NEW gone, NEW e, CutOf(e, s, ids, gone)
  PROVE WellRecorded(Push(h, e), s, Cut(s, gone))
<1> DEFINE t == Cut(s, gone)
           removed == e.undo.removed
<1>1. SameObjects(Cut(t, gone), t)
  BY CutAgain
<1>2. SameObjects(Respliced(t, removed), s)
  BY SpliceBack
<1>3. e.undo.kind = "splice" /\ e.redo.kind = "cut" /\ e.redo.ids = gone
  BY DEF CutOf
<1> HIDE DEF t
<1>4. \A del : Apply(e.redo, t, del) = Cut(t, gone) /\ Apply(e.undo, t, del) = Respliced(t, removed)
  BY <1>3, ApplyIs
<1>5. WellRecorded(Push(h, e), s, t)
  BY <1>1, <1>2, <1>4, OneRecorded
<1> QED
  BY <1>5 DEF t

\* A change of several objects.
LEMMA ValsRecorded ==
  ASSUME NEW C, NEW P, NEW own, Kinds(C, P, own), NEW h, StackOk(h), NEW s, SceneOk(s, C, P),
         NEW new, \A i \in DOMAIN new : new[i] \in Vals, NEW old, \A i \in DOMAIN old : old[i] \in Vals,
         DOMAIN old = DOMAIN new, \A x \in Items(s) : x.id \in DOMAIN new => old[x.id] = x.val,
         NEW e, e.undo = [kind |-> "vals", vals |-> old], e.redo = [kind |-> "vals", vals |-> new]
  PROVE WellRecorded(Push(h, e), s, Revalued(s, new))
<1> DEFINE t == Revalued(s, new)
<1>1. SameObjects(Revalued(t, new), t)
  BY ValsAgain
<1>2. SameObjects(Revalued(t, old), s)
  BY ValsBack
<1>3. e.undo.kind = "vals" /\ e.undo.vals = old /\ e.redo.kind = "vals" /\ e.redo.vals = new
  OBVIOUS
<1> HIDE DEF t
<1>4. \A del : Apply(e.redo, t, del) = Revalued(t, new) /\ Apply(e.undo, t, del) = Revalued(t, old)
  BY <1>3, ApplyIs
<1>5. WellRecorded(Push(h, e), s, t)
  BY <1>1, <1>2, <1>4, OneRecorded
<1> QED
  BY <1>5 DEF t

\* The toast of a deletion: the objects come back as additions.
LEMMA RestoreRecorded ==
  ASSUME NEW C, NEW P, NEW own, Kinds(C, P, own), NEW strict,
         NEW h, NEW s, Fits(h, s, C, P, own, strict),
         NEW top \in Nat, SnapsOk(h, top), NEW snap, snap \in Snaps(h.stack), ~Undone(h, snap)
  PROVE LET t == RestoreSnapshot(s, h.deletions[snap]) IN
        WellRecorded(TrackAdded(Forget(h, snap), s, t), s, t)
<1> DEFINE w == h.deletions[snap]
           t == RestoreSnapshot(s, w)
           g == Forget(h, snap)
<1>1. Fits(g, s, C, P, own, FALSE) /\ SnapOk(w, C, P) /\ SnapIds(w) \cap IdsIn(s) = {}
  BY ForgetFits
<1>2. SceneOk(s, C, P)
  BY FitsScene
<1> HIDE DEF w, g
<1>3. /\ SceneOk(t, C, P)
      /\ CarsOf(t) = CarsOf(s) \cup ({w.item} \cap C)
      /\ PartsOf(t) = PartsOf(s) \cup ({w.item} \cap P) \cup ToSet(w.parts)
      /\ IdsIn(t) = IdsIn(s) \cup SnapIds(w)
  BY <1>1, <1>2, UnsnapScene
<1> HIDE DEF t
<1>4. StackOk(g)
  BY <1>1 DEF Fits, HistOk, StackOk
<1>5. w.item.id \in SnapIds(w)
  BY DEF SnapIds
<1>6. ~SameObjects(s, t)
  <2>1. IdsIn(s) # IdsIn(t)
    BY <1>1, <1>3, <1>5
  <2>2. IdsIn(s) = {x.id : x \in CarsOf(s) \cup PartsOf(s)} /\ IdsIn(t) = {x.id : x \in CarsOf(t) \cup PartsOf(t)}
    BY IdsInOf
  <2> QED BY <2>1, <2>2 DEF SameObjects
<1>7. WellRecorded(TrackAdded(g, s, t), s, t)
  BY <1>2, <1>3, <1>4, <1>6, AddedRecorded
<1> QED
  BY <1>7 DEF t, w, g

\* An undo.
LEMMA UndoFaithful ==
  ASSUME NEW C, NEW P, NEW own, Kinds(C, P, own), NEW strict \in BOOLEAN,
         NEW h, NEW s, Fits(h, s, C, P, own, strict), h.cursor > 0, NEW h0
  PROVE Faithful(h0, s, [h EXCEPT !.cursor = h.cursor - 1], Apply(h.stack[h.cursor].undo, s, h.deletions), strict)
<1> DEFINE g == [h EXCEPT !.cursor = h.cursor - 1]
           e == h.stack[h.cursor]
           t == Apply(e.undo, s, h.deletions)
<1>1. IsHist(h) /\ IsSeq(h.stack) /\ h.cursor \in 0..Len(h.stack)
  BY DEF Fits, HistOk
<1>2. Len(h.stack) \in Nat /\ h.cursor \in Nat /\ h.cursor <= Len(h.stack)
  BY <1>1 DEF IsSeq
<1>3. g.stack = h.stack /\ g.deletions = h.deletions /\ g.cursor = h.cursor - 1 /\ g.cursor + 1 = h.cursor
  BY <1>1, <1>2 DEF IsHist
<1>4. g.cursor # Len(g.stack)
  BY <1>2, <1>3
<1>5. e = g.stack[g.cursor + 1]
  BY <1>3
<1> HIDE DEF g
<1>6. strict => SameIds(Apply(e.redo, t, g.deletions), s)
  <2> SUFFICES ASSUME strict = TRUE PROVE SameIds(Apply(e.redo, t, g.deletions), s)
    OBVIOUS
  <2>1. Fits(h, s, C, P, own, TRUE)
    OBVIOUS
  <2> QED BY <1>3, <2>1, UndoRedo
<1> HIDE DEF t, e
<1>7. Faithful(h0, s, g, t, strict)
  BY <1>4, <1>5, <1>6 DEF Faithful
<1> QED
  BY <1>7 DEF g, t, e

\* What is flushed is recorded; when there is nothing, nothing changes.
LEMMA FlushedTop ==
  ASSUME IsSeq(pending), NEW h, StackOk(h), NEW sc
  PROVE StackOk(Flushed(h, sc)) /\ (Flushed(h, sc) = h \/ Flushed(h, sc).cursor = Len(Flushed(h, sc).stack))
<1> DEFINE d == Edits(sc)
           entries == [i \in DOMAIN d |-> EditEntry(sc, d[i])]
<1>1. Flushed(h, sc) = PushAll(h, entries)
  BY FlushedIs
<1>2. CASE entries = <<>>
  BY <1>1, <1>2 DEF PushAll
<1>3. CASE entries # <<>>
  <2>1. d \in Seq(ToSet(pending))
    BY EditsSet DEF IsSeq
  <2> HIDE DEF d
  <2>2. entries \in Seq({EditEntry(sc, d[i]) : i \in DOMAIN d})
    BY <2>1
  <2>3. IsSeq(entries)
    BY <2>2, SeqIsSeq
  <2> HIDE DEF entries
  <2>4. Newest(PushAll(h, entries), entries[Len(entries)])
    BY <1>3, <2>3, PushedLast
  <2> QED BY <1>1, <2>4 DEF Newest
<1> QED
  BY <1>2, <1>3

\* A scene that another one contains has the same kinds of objects.
LEMMA SubScene ==
  ASSUME NEW C, NEW P, NEW s, SceneOk(s, C, P), NEW C2, NEW P2, NEW t, SceneOk(t, C2, P2),
         CarsOf(s) \subseteq CarsOf(t), PartsOf(s) \subseteq PartsOf(t)
  PROVE SceneOk(s, C2, P2)
<1>1. s.cars \in Seq(C) /\ s.parts \in Seq(P) /\ Distinct(s.cars) /\ Distinct(s.parts)
  BY SceneFacts
<1>2. s = [cars |-> s.cars, parts |-> s.parts]
  BY DEF SceneOk
<1>3. CarsOf(s) \subseteq C2 /\ PartsOf(s) \subseteq P2
  BY SceneFacts DEF CarsOf, PartsOf
<1>4. s.cars \in Seq(C2)
  <2>1. \A i \in DOMAIN s.cars : s.cars[i] \in C2
    BY <1>3 DEF CarsOf, ToSet
  <2> QED BY <1>1, <2>1
<1>5. s.parts \in Seq(P2)
  <2>1. \A i \in DOMAIN s.parts : s.parts[i] \in P2
    BY <1>3 DEF PartsOf, ToSet
  <2> QED BY <1>1, <2>1
<1>6. SceneOk([cars |-> s.cars, parts |-> s.parts], C2, P2)
  BY <1>1, <1>4, <1>5, TwoColls
<1> QED
  BY <1>2, <1>6

\* A new object.
LEMMA AddFaithful ==
  ASSUME NEW C, NEW P, SceneOk(scene, C, P), IdsIn(scene) \subseteq used, StackOk(hist), NEW item, Add(item),
         NEW C2, NEW P2, NEW own2, Kinds(C2, P2, own2), SceneOk(scene', C2, P2), NEW strict
  PROVE Faithful(hist, scene, hist', scene', strict)
<1> DEFINE t == [scene EXCEPT ![CollOf(item)] = Append(@, item)]
<1>1. scene' = t /\ hist' = TrackAdded(hist, scene, t) /\ item.id \notin used
  BY DEF Add, SetHist
<1>2. scene.cars \in Seq(C) /\ scene.parts \in Seq(P) /\ scene \in [cars : Seq(C), parts : Seq(P)]
  BY SceneFacts DEF SceneOk
<1>3. /\ Append(scene.cars, item) \in Seq(C \cup {item}) /\ ToSet(Append(scene.cars, item)) = CarsOf(scene) \cup {item}
      /\ Append(scene.parts, item) \in Seq(P \cup {item}) /\ ToSet(Append(scene.parts, item)) = PartsOf(scene) \cup {item}
  <2>1. scene.cars \in Seq(C \cup {item}) /\ scene.parts \in Seq(P \cup {item})
    BY <1>2, SeqMonotonic
  <2> QED BY <2>1, AppendSet DEF CarsOf, PartsOf
<1>4. \/ t.cars = Append(scene.cars, item) /\ t.parts = scene.parts
      \/ t.cars = scene.cars /\ t.parts = Append(scene.parts, item)
  BY <1>2 DEF CollOf
<1> HIDE DEF t
<1>5. \/ CarsOf(t) = CarsOf(scene) \cup {item} /\ PartsOf(t) = PartsOf(scene)
      \/ CarsOf(t) = CarsOf(scene) /\ PartsOf(t) = PartsOf(scene) \cup {item}
  BY <1>3, <1>4 DEF CarsOf, PartsOf
<1>6. item \notin CarsOf(scene) \cup PartsOf(scene)
  BY <1>1, IdsInOf
<1>7. CarsOf(scene) \subseteq CarsOf(t) /\ PartsOf(scene) \subseteq PartsOf(t) /\ ~SameObjects(scene, t)
  BY <1>5, <1>6 DEF SameObjects
<1>8. SceneOk(t, C2, P2)
  BY <1>1
<1>9. SceneOk(scene, C2, P2)
  BY <1>7, <1>8, SubScene
<1>10. WellRecorded(TrackAdded(hist, scene, t), scene, t)
  BY <1>7, <1>8, <1>9, AddedRecorded
<1> QED
  BY <1>1, <1>10, RecordedFaithful

\* Every step of the editor, as long as no toast outlives its deletion.
LEMMA HistoryStep ==
  ASSUME SnapInv, EditInv, Next, ~LateToasts
  PROVE Faithful(hist, scene, hist', scene', ~restored)
<1>0. PICK own : EditOk(CarItems(used), PartItems(used, own), own)
  BY DEF EditInv
<1>00. PICK own2 : EditOk(CarItems(used), PartItems(used, own2), own2)'
  <2>1. EditInv'
    BY EditStep
  <2> QED BY <2>1 DEF EditInv
<1> DEFINE C == CarItems(used)
           P == PartItems(used, own)
           C2 == CarItems(used')
           P2 == PartItems(used', own2)
           strict == ~restored
           f == Flushed(hist, scene)
           G == Faithful(hist, scene, hist', scene', strict)
<1>1. Kinds(C, P, own) /\ Kinds(C2, P2, own2)
  BY ItemKinds
<1>2. /\ Fits(hist, scene, C, P, own, strict) /\ pending \in Seq(C \cup P)
      /\ toast.snap # 0 => toast.snap \in DOMAIN hist.deletions
  BY <1>0 DEF EditOk
<1>3. strict \in BOOLEAN /\ ops \in Nat /\ SnapsOk(hist, ops) /\ IsSeq(pending)
  BY DEF EditInv, SnapInv
<1>4. SceneOk(scene', C2, P2)
  <2>1. Fits(hist', scene', C2, P2, own2, ~restored')
    BY <1>00 DEF EditOk
  <2> HIDE DEF C2, P2
  <2> QED BY <2>1, FitsScene
<1>5. SceneOk(scene, C, P) /\ StackOk(hist) /\ hist.cursor \in Nat /\ IsHist(hist)
  BY <1>2, FitsScene DEF Fits, HistOk, StackOk, IsSeq
<1>6. /\ \A x \in C \cup P : x.id \in used /\ x.val \in Vals
      /\ CarsOf(scene) \subseteq C /\ PartsOf(scene) \subseteq P /\ Items(scene) = CarsOf(scene) \cup PartsOf(scene)
  <2>1. \A x \in C \cup P : x.id \in used /\ x.val \in Vals
    BY DEF CarItems, PartItems
  <2> HIDE DEF C, P
  <2> QED BY <1>5, <2>1, SceneFacts, ItemsOfScene DEF CarsOf, PartsOf
<1> HIDE DEF C, P, C2, P2
<1>7. IdsIn(scene) \subseteq used
  BY <1>6, IdsInOf
<1>8. Fits(f, scene, C, P, own, strict)
  <2> HIDE DEF strict
  <2> QED BY <1>2, <1>3, FlushedFits
<1>9. StackOk(f) /\ (f = hist \/ f.cursor = Len(f.stack)) /\ IsHist(f)
  BY <1>3, <1>5, <1>8, FlushedTop DEF Fits, HistOk
<1> HIDE DEF strict, f, G
<1>10. ASSUME NEW item, Add(item) PROVE G
  BY <1>1, <1>4, <1>5, <1>7, <1>10, AddFaithful DEF G
<1>11. ASSUME hist' = hist PROVE G
  BY <1>5, <1>11, SameStackFaithful DEF G
<1>A1. ASSUME NEW id \in Cars, AddCar(id) PROVE G
  BY <1>10, <1>A1 DEF AddCar
<1>A2. ASSUME NEW id \in Parts, NEW car \in Cars, AddPart(id, car) PROVE G
  BY <1>10, <1>A2 DEF AddPart
<1>A3. ASSUME NEW id \in Cars \cup Parts, NEW original \in SceneIds, Duplicate(id, original)
       PROVE G
  BY <1>10, <1>A3 DEF Duplicate
<1>A4. ASSUME NEW id \in SceneIds, NEW v \in Vals, Edit(id, v) PROVE G
  BY <1>11, <1>A4 DEF Edit
<1>A5. ASSUME NEW i \in DOMAIN pending, EditSettles(i) PROVE G
  <2>1. hist' = Record(hist, scene, pending[i]) /\ scene' = scene
    BY <1>A5 DEF EditSettles, SetHist
  <2> QED BY <1>1, <1>5, <2>1, RecordFaithful DEF G
<1>A6. ASSUME NEW id \in SceneIds, DragStart(id) PROVE G
  BY <1>11, <1>A6 DEF DragStart
<1>A7. ASSUME NEW v \in Vals, DragMove(v) PROVE G
  BY <1>11, <1>A7 DEF DragMove
<1>A8. ASSUME DragEnd PROVE G
  <2>1. hist' = Record(hist, scene, drag.before) /\ scene' = scene
    BY <1>A8 DEF DragEnd, RecordMove, SetHist
  <2> QED BY <1>1, <1>5, <2>1, RecordFaithful DEF G
<1>A9. ASSUME NEW id \in SceneIds, Delete(id) PROVE G
  <2> DEFINE snap == ops + 1
             e == [undo |-> [kind |-> "unsnap", snap |-> snap],
                   redo |-> [kind |-> "delete", id |-> id],
                   snap |-> snap, entry |-> 0]
             r == [hist EXCEPT !.deletions =
                 [n \in DOMAIN @ \cup {snap} |->
                    IF n = snap THEN Snapshot(scene, id) ELSE @[n]]]
  <2>1. Present(scene, id) /\ hist' = Push(r, e) /\ scene' = RemoveItems(scene, {id})
    BY <1>A9 DEF Delete, SetHist
  <2>2. /\ IsHist(r) /\ r.stack = hist.stack /\ r.cursor = hist.cursor
        /\ r.deletions = [n \in DOMAIN hist.deletions \cup {snap} |->
                            IF n = snap THEN Snapshot(scene, id) ELSE hist.deletions[n]]
    BY <1>5 DEF IsHist
  <2>3. \A i \in 1..Len(hist.stack) : hist.stack[i].snap # snap
    BY <1>3 DEF SnapsOk
  <2>4. DeletionOf(e, snap, id) /\ snap # 0
    BY <1>3 DEF DeletionOf
  <2> HIDE DEF r, e, snap
  <2>5. snap \in DOMAIN r.deletions /\ r.deletions[snap] = Snapshot(scene, id)
    BY <2>2
  <2>6. \A i \in 1..Len(hist.stack) : SameSnap(hist.stack[i], hist.deletions, r.deletions)
    BY <2>2, <2>3 DEF SameSnap
  <2>7. WithSnap(hist, r, snap, Snapshot(scene, id))
    BY <2>2, <2>4, <2>5, <2>6 DEF WithSnap
  <2>8. WellRecorded(Push(r, e), scene, RemoveItems(scene, {id}))
    BY <1>1, <1>5, <2>1, <2>4, <2>7, DeleteRecorded
  <2> QED BY <2>1, <2>8, RecordedFaithful DEF G
<1>A10. ASSUME NEW ids \in (SUBSET SceneIds) \ {{}}, DeleteSelected(ids) PROVE G
  <2> DEFINE removed == [c \in Colls |-> Removed(scene[c], ids)]
             gone == {r.item.id : r \in ToSet(removed["cars"]) \cup ToSet(removed["parts"])}
             cut == [kind |-> "cut", ids |-> gone]
             e == [undo |-> [kind |-> "splice", removed |-> removed],
                   redo |-> cut, snap |-> 0, entry |-> ops + 1]
  <2>1. hist' = Push(f, e) /\ scene' = Apply(cut, scene, <<>>)
    BY <1>A10 DEF DeleteSelected, SetHist, f
  <2>2. scene' = Cut(scene, gone)
    BY <2>1 DEF Apply, Cut
  <2>3. e.undo.kind = "splice" /\ e.undo.removed = removed /\ e.redo.kind = "cut" /\ e.redo.ids = gone /\ e.snap = 0
    OBVIOUS
  <2>4. /\ removed["cars"] = Removed(scene.cars, ids) /\ removed["parts"] = Removed(scene.parts, ids)
    BY <1>5, SceneFacts DEF Colls
  <2>5. gone = {r.item.id : r \in ToSet(removed["cars"]) \cup ToSet(removed["parts"])}
    OBVIOUS
  <2> HIDE DEF e, removed, gone
  <2>6. CutOf(e, scene, ids, gone)
    BY <2>3, <2>4, <2>5 DEF CutOf
  <2>7. WellRecorded(Push(f, e), scene, Cut(scene, gone))
    BY <1>1, <1>5, <1>9, <2>6, CutRecorded
  <2> QED BY <2>1, <2>2, <2>7, RecordedFaithful DEF G
<1>A11. ASSUME NEW ids \in (SUBSET SceneIds) \ {{}}, NEW v \in Vals, EditSelected(ids, v)
        PROVE G
  <2> DEFINE changed == {x \in Items(scene) : x.id \in ids /\ x.val # v}
             changedIds == {x.id : x \in changed}
             new == [id \in changedIds |-> v]
             old == [id \in changedIds |-> TheItem(scene, id).val]
             redo == [kind |-> "vals", vals |-> new]
             undo == [kind |-> "vals", vals |-> old]
             e == Entry(undo, redo)
  <2>1. hist' = Push(f, e) /\ scene' = Apply(redo, scene, <<>>)
    BY <1>A11 DEF EditSelected, SetHist, f
  <2>2. scene' = Revalued(scene, new)
    BY <2>1 DEF Apply, Revalued
  <2>3. e.undo = undo /\ e.redo = redo
    BY DEF Entry
  <2>4. \A i \in DOMAIN new : new[i] \in Vals
    OBVIOUS
  <2>5. \A x \in Items(scene) : TheItem(scene, x.id) = x /\ x.val \in Vals
    BY <1>1, <1>5, <1>6, FoundById
  <2>6. DOMAIN old = DOMAIN new /\ DOMAIN new = changedIds
    OBVIOUS
  <2>7. \A x \in Items(scene) : x.id \in changedIds => old[x.id] = x.val
    BY <2>5
  <2>8. \A i \in changedIds : old[i] \in Vals
    BY <2>5
  <2> HIDE DEF e, new, old, changedIds
  <2>9. WellRecorded(Push(f, e), scene, Revalued(scene, new))
    BY <1>1, <1>5, <1>9, <2>3, <2>4, <2>6, <2>7, <2>8, ValsRecorded
  <2> QED BY <2>1, <2>2, <2>9, RecordedFaithful DEF G
<1>A12. ASSUME Undo PROVE G
  <2>1. /\ f.cursor > 0 /\ scene' = Apply(f.stack[f.cursor].undo, scene, f.deletions)
        /\ hist' = [f EXCEPT !.cursor = f.cursor - 1]
    BY <1>A12 DEF Undo, UndoTop, SetHist, f
  <2>2. Faithful(hist, scene, [f EXCEPT !.cursor = f.cursor - 1], Apply(f.stack[f.cursor].undo, scene, f.deletions), strict)
    BY <1>1, <1>3, <1>8, <2>1, UndoFaithful
  <2> QED BY <2>1, <2>2 DEF G
<1>A13. ASSUME Redo PROVE G
  <2>1. f.cursor < Len(f.stack) /\ hist' = [f EXCEPT !.cursor = f.cursor + 1]
    BY <1>A13 DEF Redo, RedoNext, SetHist, f
  <2>2. f = hist
    BY <1>9, <2>1 DEF StackOk, IsSeq
  <2>3. hist'.stack = hist.stack /\ hist'.cursor = hist.cursor + 1
    BY <1>5, <2>1, <2>2 DEF IsHist
  <2>4. hist'.cursor \in Nat /\ hist'.cursor >= hist.cursor
    BY <1>5, <2>3
  <2> QED BY <1>5, <2>3, <2>4, SameStackFaithful DEF G
<1>A14. ASSUME ToastUndo PROVE G
  <2>1. /\ hist.cursor > 0 /\ scene' = Apply(hist.stack[hist.cursor].undo, scene, hist.deletions)
        /\ hist' = [hist EXCEPT !.cursor = hist.cursor - 1]
    BY <1>A14 DEF ToastUndo, UndoTop, SetHist
  <2>2. Faithful(hist, scene, [hist EXCEPT !.cursor = hist.cursor - 1], Apply(hist.stack[hist.cursor].undo, scene, hist.deletions), strict)
    BY <1>1, <1>2, <1>3, <2>1, UndoFaithful
  <2> QED BY <2>1, <2>2 DEF G
<1>A15. ASSUME ToastRestore PROVE G
  <2> DEFINE snap == toast.snap
             t == RestoreSnapshot(scene, hist.deletions[snap])
  <2>1. snap # 0 /\ ~Undone(hist, snap) /\ scene' = t /\ hist' = TrackAdded(Forget(hist, snap), scene, t)
    BY <1>A15 DEF ToastRestore, SetHist
  <2>2. snap \in Snaps(hist.stack)
    BY <1>2, <1>3, <2>1 DEF SnapsOk
  <2> HIDE DEF snap
  <2>3. WellRecorded(TrackAdded(Forget(hist, snap), scene, t), scene, t)
    BY <1>1, <1>2, <1>3, <2>1, <2>2, RestoreRecorded
  <2> HIDE DEF t
  <2> QED BY <2>1, <2>3, RecordedFaithful DEF G
<1>A16. ASSUME ToastCloses PROVE G
  BY <1>11, <1>A16 DEF ToastCloses
<1>A17. ASSUME NEW new \in Contents, Load(new) PROVE G
  <2>1. hist' = EmptyHist
    BY <1>A17 DEF Load, SetHist
  <2>2. hist'.stack = <<>> /\ hist'.cursor = Len(hist'.stack) /\ Len(hist'.stack) = 0
    BY <2>1 DEF EmptyHist
  <2> QED BY <2>2 DEF Faithful, G
<1>12. G
  BY <1>A1, <1>A2, <1>A3, <1>A4, <1>A5, <1>A6, <1>A7, <1>A8, <1>A9, <1>A10, <1>A11, <1>A12, <1>A13,
     <1>A14, <1>A15, <1>A16, <1>A17 DEF Next
<1> QED
  BY <1>12 DEF strict, G

\* Both invariants hold in every state.
LEMMA HistoryAlways ==
  ~LateToasts => (Spec => [](SnapInv /\ EditInv))
<1> SUFFICES ASSUME ~LateToasts PROVE Spec => [](SnapInv /\ EditInv)
  OBVIOUS
<1>1. Init => SnapInv /\ EditInv
  BY SnapInit, EditInit
<1>2. (SnapInv /\ EditInv) /\ [Next]_vars => (SnapInv /\ EditInv)'
  BY SnapStep, EditStep
<1> QED
  BY <1>1, <1>2, PTL DEF Spec

\* Doing again what was just recorded, pushHistoryEntry's redo, changes
\* nothing.
THEOREM EntriesKeepTheirScene == ~LateToasts => (Spec => EntriesMatchTheScene)
<1> SUFFICES ASSUME ~LateToasts PROVE Spec => EntriesMatchTheScene
  OBVIOUS
<1> DEFINE Act == (hist'.stack # hist.stack /\ hist'.stack # <<>> /\ hist'.cursor = Len(hist'.stack)) =>
       \A c \in Colls :
         ToSet(Apply(Last(hist'.stack).redo, scene', hist'.deletions)[c]) = ToSet(scene'[c])
<1>1. (SnapInv /\ EditInv) /\ [Next]_vars => [Act]_vars
  <2> SUFFICES ASSUME SnapInv, EditInv, Next, hist'.stack # hist.stack, hist'.stack # <<>>,
                      hist'.cursor = Len(hist'.stack)
               PROVE \A c \in Colls :
                       ToSet(Apply(Last(hist'.stack).redo, scene', hist'.deletions)[c]) = ToSet(scene'[c])
    OBVIOUS
  <2>1. Redoes(hist', scene')
    BY HistoryStep DEF Faithful
  <2> QED BY <2>1, SameInColls DEF Redoes
<1> QED
  BY <1>1, HistoryAlways, PTL DEF Spec, EntriesMatchTheScene

\* Undo takes back what a step has recorded, contents included: each action of
\* the slices, the tracker's commits, deletions and the toast of a deletion.
THEOREM RecordedStepsGoBack == ~LateToasts /\ MaxHistory # 1 => (Spec => StepsCanBeUndone)
<1> SUFFICES ASSUME ~LateToasts, MaxHistory # 1 PROVE Spec => StepsCanBeUndone
  OBVIOUS
<1> DEFINE Act == Recorded => \E n \in 1..hist'.cursor :
       \A c \in Colls : ToSet(UndoNewest(hist', scene')[n][c]) = ToSet(scene[c])
<1>1. (SnapInv /\ EditInv) /\ [Next]_vars => [Act]_vars
  <2> SUFFICES ASSUME SnapInv, EditInv, Next, Recorded
               PROVE \E n \in 1..hist'.cursor :
                       \A c \in Colls : ToSet(UndoNewest(hist', scene')[n][c]) = ToSet(scene[c])
    OBVIOUS
  <2>1. BackTo(hist', scene', scene)
    BY HistoryStep DEF Faithful, Recorded
  <2>2. PICK n \in 1..hist'.cursor : SameObjects(UndoNewest(hist', scene')[n], scene)
    BY <2>1 DEF BackTo
  <2>3. \A c \in Colls : ToSet(UndoNewest(hist', scene')[n][c]) = ToSet(scene[c])
    BY <2>2, SameInColls
  <2> QED BY <2>3
<1> QED
  BY <1>1, HistoryAlways, PTL DEF Spec, StepsCanBeUndone

\* The redo after an undo puts the objects right, unless a toast has recorded
\* some of them a second time.
THEOREM RedoRepairs == ~LateToasts => (Spec => UndoneStepsComeBack)
<1> SUFFICES ASSUME ~LateToasts PROVE Spec => UndoneStepsComeBack
  OBVIOUS
<1> DEFINE Act == Undid /\ ~restored =>
       SameIds(Apply(hist'.stack[hist'.cursor + 1].redo, scene', hist'.deletions), scene)
<1>1. (SnapInv /\ EditInv) /\ [Next]_vars => [Act]_vars
  <2> SUFFICES ASSUME SnapInv, EditInv, Next, Undid, ~restored
               PROVE SameIds(Apply(hist'.stack[hist'.cursor + 1].redo, scene', hist'.deletions), scene)
    OBVIOUS
  <2>1. Faithful(hist, scene, hist', scene', ~restored)
    BY HistoryStep
  <2> QED BY <2>1 DEF Faithful, Undid
<1> QED
  BY <1>1, HistoryAlways, PTL DEF Spec, UndoneStepsComeBack

=============================================================================
