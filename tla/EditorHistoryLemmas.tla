------------------------- MODULE EditorHistoryLemmas -------------------------
(***************************************************************************)
(* What the updates of EditorHistory do to the collections and to the      *)
(* history, for sequences of any length: the elements and the ids after a  *)
(* filter, a splice or a patch, the entries and snapshots after a push, and *)
(* a log of additions and removals under undo and redo.                    *)
(***************************************************************************)
EXTENDS EditorHistory, Integers, SequenceTheorems, FiniteSetTheorems,
        WellFoundedInduction, TLAPS

-----------------------------------------------------------------------------
(* Recursion over the natural numbers, and filters.                        *)

\* The order of the natural numbers, for definitions that recurse over them.
LEMMA LessWellFounded ==
  IsWellFoundedOn({ss \in Nat \X Nat : ss[1] < ss[2]}, Nat)
BY NatLessThanWellFounded DEF OpToRel

\* A set of natural numbers that is not empty has a smallest element.
LEMMA NatMin ==
  ASSUME NEW T \in SUBSET Nat, T # {}
  PROVE \E n \in T : \A m \in T : n <= m
<1> DEFINE Less == {ss \in Nat \X Nat : ss[1] < ss[2]}
<1>1. IsWellFoundedOn(Less, Nat)
  BY LessWellFounded
<1>2. \A x, y \in Nat : <<y, x>> \in Less <=> y < x
  OBVIOUS
<1> HIDE DEF Less
<1>3. \E x \in T : \A y \in T : ~ (<<y, x>> \in Less)
  BY <1>1, WFMin
<1>4. \A n, m \in Nat : ~ (m < n) => n <= m
  OBVIOUS
<1> QED
  BY <1>2, <1>3, <1>4

\* Induction up to n, over the set of the numbers that have the property.
LEMMA UpTo ==
  ASSUME NEW n \in Nat, NEW P, 0 \in P, \A k \in 1..n : k - 1 \in P => k \in P
  PROVE \A k \in 0..n : k \in P
<1> SUFFICES ASSUME NEW j \in 0..n, j \notin P PROVE FALSE
  OBVIOUS
<1> DEFINE Bad == {k \in 0..n : k \notin P}
<1>1. PICK k \in Bad : \A m \in Bad : k <= m
  <2>1. Bad \in SUBSET Nat /\ Bad # {}
    OBVIOUS
  <2> HIDE DEF Bad
  <2> QED BY <2>1, NatMin
<1>2. k \in 1..n /\ k - 1 \in 0..n /\ ~ (k <= k - 1)
  OBVIOUS
<1>3. k - 1 \in P
  BY <1>1, <1>2
<1> QED
  BY <1>2, <1>3

\* f starts at first and goes on by the steps of g.
Follows(f, n, X, first, g) ==
  /\ f \in [0..n -> X]
  /\ f[0] = first
  /\ \A k \in 1..n : f[k] = g[k][f[k - 1]]

\* A function given by its first value and the step to each next one exists.
LEMMA StepsExist ==
  ASSUME NEW n \in Nat, NEW X, NEW first \in X, NEW g \in [1..n -> [X -> X]]
  PROVE \E f : Follows(f, n, X, first, g)
<1> DEFINE Good(k) == \E f \in [0..k -> X] : f[0] = first /\ \A i \in 1..k : f[i] = g[i][f[i - 1]]
<1> DEFINE P == {k \in 0..n : Good(k)}
<1>1. 0 \in P
  <2>1. [i \in 0..0 |-> first] \in [0..0 -> X] /\ [i \in 0..0 |-> first][0] = first
    OBVIOUS
  <2>2. \A i \in 1..0 : FALSE
    OBVIOUS
  <2>3. Good(0)
    BY <2>1, <2>2
  <2> QED BY <2>3
<1>2. ASSUME NEW k \in 1..n, k - 1 \in P PROVE k \in P
  <2>1. PICK f \in [0..(k - 1) -> X] :
          f[0] = first /\ \A i \in 1..(k - 1) : f[i] = g[i][f[i - 1]]
    BY <1>2
  <2> DEFINE h == [i \in 0..k |-> IF i = k THEN g[k][f[k - 1]] ELSE f[i]]
  <2>2. k - 1 \in 0..(k - 1) /\ \A i \in 0..k : i # k => i \in 0..(k - 1)
    OBVIOUS
  <2>3. f[k - 1] \in X /\ g[k] \in [X -> X]
    BY <2>2
  <2>4. h \in [0..k -> X]
    BY <2>2, <2>3
  <2>5. h[0] = first
    BY <2>1
  <2>6. ASSUME NEW i \in 1..k PROVE h[i] = g[i][h[i - 1]]
    <3>1. i - 1 \in 0..k /\ i - 1 # k /\ i \in 0..k
      OBVIOUS
    <3>2. h[i - 1] = f[i - 1]
      BY <3>1
    <3>3. CASE i = k
      BY <3>1, <3>2, <3>3
    <3>4. CASE i # k
      BY <2>1, <3>1, <3>2, <3>4
    <3> QED BY <3>3, <3>4
  <2>7. Good(k)
    BY <2>4, <2>5, <2>6
  <2> HIDE DEF Good
  <2> QED BY <2>7
<1> HIDE DEF P
<1>3. \A k \in 0..n : k \in P
  BY <1>1, <1>2, UpTo
<1>4. n \in P
  BY <1>3
<1>5. PICK f \in [0..n -> X] : f[0] = first /\ \A i \in 1..n : f[i] = g[i][f[i - 1]]
  BY <1>4 DEF P
<1> QED
  BY <1>5 DEF Follows


\* f is what the filter's recursion builds, for every beginning of s.
IsFiltered(f, s, I) ==
  f = [n \in 0..Len(s) |->
         IF n = 0 THEN <<>> ELSE IF n \in I THEN Append(f[n - 1], s[n]) ELSE f[n - 1]]

\* The recursive function of a filter is defined by its equation.
LEMMA FilteredIs ==
  ASSUME NEW s, NEW I, \E f : IsFiltered(f, s, I)
  PROVE IsFiltered(Filtered(s, I), s, I)
BY DEF Filtered, IsFiltered

\* What Filtered keeps of every beginning of a sequence.
LEMMA FilteredSteps ==
  ASSUME NEW S, NEW s \in Seq(S), NEW I
  PROVE /\ Filtered(s, I)[0] = <<>>
        /\ \A k \in 1..Len(s) :
             Filtered(s, I)[k] = IF k \in I THEN Append(Filtered(s, I)[k - 1], s[k])
                                 ELSE Filtered(s, I)[k - 1]
<1> DEFINE n == Len(s)
           X == Seq(S)
           g == [k \in 1..n |-> [b \in X |-> IF k \in I THEN Append(b, s[k]) ELSE b]]
<1>1. n \in Nat /\ <<>> \in X /\ \A k \in 1..n : s[k] \in S
  OBVIOUS
<1>2. g \in [1..n -> [X -> X]]
  BY <1>1
<1>3. PICK f \in [0..n -> X] : f[0] = <<>> /\ \A k \in 1..n : f[k] = g[k][f[k - 1]]
  <2> HIDE DEF n, X, g
  <2>1. PICK f : Follows(f, n, X, <<>>, g)
    BY <1>1, <1>2, StepsExist
  <2> QED BY <2>1 DEF Follows
<1>4. \A k \in 1..n : k - 1 \in 0..n
  BY <1>1
<1>5. \A k \in 1..n : f[k] = IF k \in I THEN Append(f[k - 1], s[k]) ELSE f[k - 1]
  BY <1>3, <1>4
<1>6. \A k \in 0..n : k # 0 => k \in 1..n
  BY <1>1
<1>7. \A k \in 0..n : f[k] =
        IF k = 0 THEN <<>> ELSE IF k \in I THEN Append(f[k - 1], s[k]) ELSE f[k - 1]
  BY <1>3, <1>5, <1>6
<1>8. IsFiltered(f, s, I)
  BY <1>3, <1>7 DEF IsFiltered
<1>9. IsFiltered(Filtered(s, I), s, I)
  BY <1>8, FilteredIs
<1> DEFINE F == Filtered(s, I)
<1> HIDE DEF F
<1>10. \A k \in 0..n : F[k] =
        IF k = 0 THEN <<>> ELSE IF k \in I THEN Append(F[k - 1], s[k]) ELSE F[k - 1]
  BY <1>9 DEF IsFiltered, F
<1>11. F[0] = <<>> /\ \A k \in 1..n : F[k] = IF k \in I THEN Append(F[k - 1], s[k]) ELSE F[k - 1]
  <2>1. 0 \in 0..n /\ \A k \in 1..n : k \in 0..n /\ k # 0
    BY <1>1
  <2> HIDE DEF n
  <2> QED BY <1>10, <2>1
<1> QED
  BY <1>11 DEF F

\* The elements that filter() keeps are those at the indices of I, each once.
LEMMA FilterKeeps ==
  ASSUME NEW S, NEW s \in Seq(S), NEW I \in SUBSET DOMAIN s
  PROVE /\ Filter(s, I) \in Seq(S)
        /\ \E m \in [1..Len(Filter(s, I)) -> I] :
             /\ \A i, j \in 1..Len(Filter(s, I)) : m[i] = m[j] => i = j
             /\ \A x \in I : \E i \in 1..Len(Filter(s, I)) : m[i] = x
             /\ \A i \in 1..Len(Filter(s, I)) : Filter(s, I)[i] = s[m[i]]
<1> DEFINE n == Len(s)
           F == Filtered(s, I)
           Good(r, k) ==
             /\ r \in Seq(S)
             /\ \E m \in [1..Len(r) -> I \cap 1..k] :
                  /\ \A i, j \in 1..Len(r) : m[i] = m[j] => i = j
                  /\ \A x \in I \cap 1..k : \E i \in 1..Len(r) : m[i] = x
                  /\ \A i \in 1..Len(r) : r[i] = s[m[i]]
           P == {k \in 0..n : Good(F[k], k)}
<1>1. n \in Nat /\ \A k \in 1..n : s[k] \in S
  OBVIOUS
<1>2. F[0] = <<>> /\ \A k \in 1..n : F[k] = IF k \in I THEN Append(F[k - 1], s[k]) ELSE F[k - 1]
  BY FilteredSteps
<1> HIDE DEF n, F
<1>3. Good(<<>>, 0)
  <2>1. [i \in 1..0 |-> 0] \in [1..0 -> I \cap 1..0]
    OBVIOUS
  <2>2. Len(<<>>) = 0 /\ <<>> \in Seq(S) /\ \A i \in 1..0 : FALSE
    OBVIOUS
  <2> DEFINE m == [i \in 1..0 |-> 0]
  <2>3. /\ m \in [1..Len(<<>>) -> I \cap 1..0]
        /\ \A i, j \in 1..Len(<<>>) : m[i] = m[j] => i = j
        /\ \A x \in I \cap 1..0 : \E i \in 1..Len(<<>>) : m[i] = x
        /\ \A i \in 1..Len(<<>>) : <<>>[i] = s[m[i]]
    BY <2>1, <2>2
  <2> HIDE DEF m
  <2> QED BY <2>2, <2>3
<1>4. 0 \in P
  <2> HIDE DEF Good
  <2> QED BY <1>1, <1>2, <1>3
<1>5. ASSUME NEW k \in 1..n, NEW b, Good(b, k - 1)
      PROVE Good(IF k \in I THEN Append(b, s[k]) ELSE b, k)
  <2>1. CASE k \notin I
    <3>1. I \cap 1..k = I \cap 1..(k - 1)
      BY <2>1, <1>1
    <3> QED BY <1>5, <2>1, <3>1
  <2>2. CASE k \in I
    <3> DEFINE r == Append(b, s[k])
    <3>1. PICK m \in [1..Len(b) -> I \cap 1..(k - 1)] :
                  /\ \A i, j \in 1..Len(b) : m[i] = m[j] => i = j
                  /\ \A x \in I \cap 1..(k - 1) : \E i \in 1..Len(b) : m[i] = x
                  /\ \A i \in 1..Len(b) : b[i] = s[m[i]]
      BY <1>5
    <3>2. b \in Seq(S) /\ r \in Seq(S) /\ Len(r) = Len(b) + 1 /\ r[Len(b) + 1] = s[k]
          /\ \A i \in 1..Len(b) : r[i] = b[i]
      BY <1>5, <1>1
    <3>3. Len(b) \in Nat /\ k \in Nat
      BY <3>2, <1>1
    <3> DEFINE w == [i \in 1..Len(b) + 1 |-> IF i = Len(b) + 1 THEN k ELSE m[i]]
    <3>4. \A i \in 1..Len(b) : m[i] \in I \cap 1..(k - 1)
      BY <3>1
    <3>5. w \in [1..Len(r) -> I \cap 1..k]
      BY <2>2, <3>2, <3>3, <3>4
    <3>6. \A i, j \in 1..Len(r) : w[i] = w[j] => i = j
      BY <3>1, <3>2, <3>3, <3>4
    <3>7. ASSUME NEW x \in I \cap 1..k PROVE \E i \in 1..Len(r) : w[i] = x
      <4>1. CASE x = k
        <5>1. Len(b) + 1 \in 1..Len(r) /\ w[Len(b) + 1] = x
          BY <3>2, <3>3, <4>1
        <5> QED BY <5>1
      <4>2. CASE x # k
        <5>1. x \in I \cap 1..(k - 1)
          BY <3>3, <4>2
        <5>2. PICK i \in 1..Len(b) : m[i] = x
          BY <3>1, <5>1
        <5>3. i \in 1..Len(r) /\ w[i] = x
          BY <3>2, <3>3, <5>2
        <5> QED BY <5>3
      <4> QED BY <4>1, <4>2
    <3>8. \A i \in 1..Len(r) : r[i] = s[w[i]]
      BY <3>1, <3>2, <3>3
    <3>9. Good(r, k)
      <4> HIDE DEF r, w
      <4> QED BY <3>2, <3>5, <3>6, <3>7, <3>8
    <3> QED BY <2>2, <3>9
  <2> QED BY <2>1, <2>2
<1>6. \A k \in 1..n : k - 1 \in P => k \in P
  <2> HIDE DEF Good
  <2> QED BY <1>1, <1>2, <1>5
<1>7. \A k \in 0..n : k \in P
  <2> HIDE DEF P
  <2> QED BY <1>1, <1>4, <1>6, UpTo
<1>8. Good(F[n], n)
  <2> HIDE DEF Good
  <2> QED BY <1>1, <1>7
<1>9. I \cap 1..n = I
  BY DEF n
<1>10. Filter(s, I) = F[n]
  BY DEF Filter, F, n
<1> QED
  BY <1>8, <1>9, <1>10

-----------------------------------------------------------------------------
(* The objects of a collection after each change.                          *)

\* No two elements of the sequence have one id.
Distinct(s) == \A i, j \in DOMAIN s : s[i].id = s[j].id => i = j

\* The ids of a sequence are those of its elements.
LEMMA IdsOfSet ==
  ASSUME NEW s
  PROVE IdsOf(s) = {x.id : x \in ToSet(s)}
BY DEF IdsOf, ToSet

\* A filter keeps the elements at the chosen indices, and distinct ids.
LEMMA FilterSet ==
  ASSUME NEW S, NEW s \in Seq(S), NEW I \in SUBSET DOMAIN s
  PROVE /\ Filter(s, I) \in Seq(S)
        /\ ToSet(Filter(s, I)) = {s[i] : i \in I}
        /\ Distinct(s) => Distinct(Filter(s, I))
<1> DEFINE r == Filter(s, I)
<1>1. r \in Seq(S)
  BY FilterKeeps
<1>2. PICK m \in [1..Len(r) -> I] :
             /\ \A i, j \in 1..Len(r) : m[i] = m[j] => i = j
             /\ \A x \in I : \E i \in 1..Len(r) : m[i] = x
             /\ \A i \in 1..Len(r) : r[i] = s[m[i]]
  BY FilterKeeps
<1> HIDE DEF r
<1>3. DOMAIN r = 1..Len(r) /\ \A i \in 1..Len(r) : m[i] \in I
  BY <1>1, <1>2
<1>4. ToSet(r) = {s[i] : i \in I}
  BY <1>2, <1>3 DEF ToSet
<1>5. Distinct(s) => Distinct(r)
  BY <1>2, <1>3 DEF Distinct
<1> QED
  BY <1>1, <1>4, <1>5 DEF r

\* Without() removes the objects with the given ids and no others.
LEMMA WithoutSet ==
  ASSUME NEW S, NEW s \in Seq(S), NEW ids
  PROVE /\ Without(s, ids) \in Seq(S)
        /\ ToSet(Without(s, ids)) = {x \in ToSet(s) : x.id \notin ids}
        /\ Distinct(s) => Distinct(Without(s, ids))
<1> DEFINE I == {i \in DOMAIN s : s[i].id \notin ids}
<1>1. I \in SUBSET DOMAIN s
  OBVIOUS
<1>2. {s[i] : i \in I} = {x \in ToSet(s) : x.id \notin ids}
  BY DEF ToSet
<1> HIDE DEF I
<1>3. /\ Filter(s, I) \in Seq(S)
      /\ ToSet(Filter(s, I)) = {s[i] : i \in I}
      /\ Distinct(s) => Distinct(Filter(s, I))
  BY <1>1, FilterSet
<1> QED
  BY <1>2, <1>3 DEF Without, I

\* OwnedBy() keeps the objects of the given owners.
LEMMA OwnedBySet ==
  ASSUME NEW S, NEW s \in Seq(S), NEW ids
  PROVE /\ OwnedBy(s, ids) \in Seq(S)
        /\ ToSet(OwnedBy(s, ids)) = {x \in ToSet(s) : x.owner \in ids}
        /\ Distinct(s) => Distinct(OwnedBy(s, ids))
<1> DEFINE I == {i \in DOMAIN s : s[i].owner \in ids}
<1>1. I \in SUBSET DOMAIN s
  OBVIOUS
<1>2. {s[i] : i \in I} = {x \in ToSet(s) : x.owner \in ids}
  BY DEF ToSet
<1> HIDE DEF I
<1>3. /\ Filter(s, I) \in Seq(S)
      /\ ToSet(Filter(s, I)) = {s[i] : i \in I}
      /\ Distinct(s) => Distinct(Filter(s, I))
  BY <1>1, FilterSet
<1> QED
  BY <1>2, <1>3 DEF OwnedBy, I

\* NotOwnedBy() keeps the objects of other owners.
LEMMA NotOwnedBySet ==
  ASSUME NEW S, NEW s \in Seq(S), NEW ids
  PROVE /\ NotOwnedBy(s, ids) \in Seq(S)
        /\ ToSet(NotOwnedBy(s, ids)) = {x \in ToSet(s) : x.owner \notin ids}
        /\ Distinct(s) => Distinct(NotOwnedBy(s, ids))
<1> DEFINE I == {i \in DOMAIN s : s[i].owner \notin ids}
<1>1. I \in SUBSET DOMAIN s
  OBVIOUS
<1>2. {s[i] : i \in I} = {x \in ToSet(s) : x.owner \notin ids}
  BY DEF ToSet
<1> HIDE DEF I
<1>3. /\ Filter(s, I) \in Seq(S)
      /\ ToSet(Filter(s, I)) = {s[i] : i \in I}
      /\ Distinct(s) => Distinct(Filter(s, I))
  BY <1>1, FilterSet
<1> QED
  BY <1>2, <1>3 DEF NotOwnedBy, I

\* Sequences with different ids can be joined.
LEMMA ConcatSet ==
  ASSUME NEW S, NEW s \in Seq(S), NEW t \in Seq(S)
  PROVE /\ s \o t \in Seq(S)
        /\ ToSet(s \o t) = ToSet(s) \cup ToSet(t)
        /\ (Distinct(s) /\ Distinct(t) /\ \A x \in ToSet(s), y \in ToSet(t) : x.id # y.id)
              => Distinct(s \o t)
<1> DEFINE r == s \o t
<1>1. r \in Seq(S) /\ Len(r) = Len(s) + Len(t) /\ DOMAIN r = 1..Len(r)
      /\ DOMAIN s = 1..Len(s) /\ DOMAIN t = 1..Len(t) /\ Len(s) \in Nat /\ Len(t) \in Nat
  OBVIOUS
<1>2. \A i \in 1..Len(r) : r[i] = IF i <= Len(s) THEN s[i] ELSE t[i - Len(s)]
  BY <1>1
<1> HIDE DEF r
<1>3. \A i \in 1..Len(r) : (i <= Len(s) => i \in 1..Len(s)) /\ (~(i <= Len(s)) => i - Len(s) \in 1..Len(t))
  BY <1>1
<1>4. ToSet(r) \subseteq ToSet(s) \cup ToSet(t)
  BY <1>1, <1>2, <1>3 DEF ToSet
<1>5. ToSet(s) \subseteq ToSet(r)
  BY <1>1, <1>2 DEF ToSet
<1>6. ASSUME NEW j \in 1..Len(t) PROVE t[j] \in ToSet(r)
  <2>1. j + Len(s) \in 1..Len(r) /\ ~(j + Len(s) <= Len(s)) /\ (j + Len(s)) - Len(s) = j
    BY <1>1
  <2> QED BY <1>1, <1>2, <2>1 DEF ToSet
<1>7. ToSet(t) \subseteq ToSet(r)
  BY <1>1, <1>6 DEF ToSet
<1>8. ASSUME Distinct(s), Distinct(t), \A x \in ToSet(s), y \in ToSet(t) : x.id # y.id
      PROVE Distinct(r)
  <2> SUFFICES ASSUME NEW i \in 1..Len(r), NEW j \in 1..Len(r), r[i].id = r[j].id PROVE i = j
    BY <1>1 DEF Distinct
  <2>1. \A a \in 1..Len(s), b \in 1..Len(t) : s[a].id # t[b].id
    BY <1>1, <1>8 DEF ToSet
  <2>2. i \in Nat /\ j \in Nat
    BY <1>1
  <2>3. CASE i <= Len(s) /\ j <= Len(s)
    <3>1. r[i] = s[i] /\ r[j] = s[j] /\ i \in DOMAIN s /\ j \in DOMAIN s
      BY <1>1, <1>2, <1>3, <2>3
    <3> QED BY <1>8, <3>1 DEF Distinct
  <2>4. CASE i <= Len(s) /\ ~(j <= Len(s))
    BY <1>2, <1>3, <2>1, <2>4
  <2>5. CASE ~(i <= Len(s)) /\ j <= Len(s)
    BY <1>2, <1>3, <2>1, <2>5
  <2>6. CASE ~(i <= Len(s)) /\ ~(j <= Len(s))
    <3>1. r[i] = t[i - Len(s)] /\ r[j] = t[j - Len(s)] /\ i - Len(s) \in DOMAIN t /\ j - Len(s) \in DOMAIN t
      BY <1>1, <1>2, <1>3, <2>6
    <3>2. i - Len(s) = j - Len(s)
      BY <1>8, <3>1 DEF Distinct
    <3> QED BY <1>1, <2>2, <3>2
  <2> QED BY <2>3, <2>4, <2>5, <2>6
<1> QED
  BY <1>1, <1>4, <1>5, <1>7, <1>8 DEF r

\* A sequence of one object.
LEMMA OneSet ==
  ASSUME NEW S, NEW e \in S
  PROVE <<e>> \in Seq(S) /\ ToSet(<<e>>) = {e} /\ Distinct(<<e>>) /\ Len(<<e>>) = 1 /\ <<e>> # <<>>
BY DEF ToSet, Distinct

\* The empty sequence.
LEMMA EmptySet ==
  ASSUME NEW S
  PROVE <<>> \in Seq(S) /\ ToSet(<<>>) = {} /\ Distinct(<<>>) /\ IdsOf(<<>>) = {}
BY DEF ToSet, Distinct, IdsOf

\* A sequence without elements is empty.
LEMMA NoElements ==
  ASSUME NEW S, NEW s \in Seq(S)
  PROVE s = <<>> <=> ToSet(s) = {}
BY DEF ToSet

\* Appending is joining with a sequence of one.
LEMMA ConcatOne ==
  ASSUME NEW S, NEW s \in Seq(S), NEW e \in S
  PROVE /\ s \o <<e>> \in Seq(S)
        /\ ToSet(s \o <<e>>) = ToSet(s) \cup {e}
        /\ (Distinct(s) /\ \A x \in ToSet(s) : x.id # e.id) => Distinct(s \o <<e>>)
<1> DEFINE t == <<e>>
<1>1. t \in Seq(S) /\ ToSet(t) = {e} /\ Distinct(t)
  BY OneSet
<1> HIDE DEF t
<1>2. /\ s \o t \in Seq(S)
      /\ ToSet(s \o t) = ToSet(s) \cup ToSet(t)
      /\ (Distinct(s) /\ Distinct(t) /\ \A x \in ToSet(s), y \in ToSet(t) : x.id # y.id)
            => Distinct(s \o t)
  BY <1>1, ConcatSet
<1>3. /\ s \o t \in Seq(S)
      /\ ToSet(s \o t) = ToSet(s) \cup {e}
      /\ (Distinct(s) /\ \A x \in ToSet(s) : x.id # e.id) => Distinct(s \o t)
  BY <1>1, <1>2
<1> QED
  BY <1>3 DEF t

\* An object with a new id can be appended.
LEMMA AppendSet ==
  ASSUME NEW S, NEW s \in Seq(S), NEW e \in S
  PROVE /\ Append(s, e) \in Seq(S)
        /\ ToSet(Append(s, e)) = ToSet(s) \cup {e}
        /\ (Distinct(s) /\ \A x \in ToSet(s) : x.id # e.id) => Distinct(Append(s, e))
<1>1. Append(s, e) = s \o <<e>>
  BY AppendIsConcat
<1> QED
  BY <1>1, ConcatOne

\* An object with a new id can be inserted anywhere.
LEMMA InsertSet ==
  ASSUME NEW S, NEW s \in Seq(S), NEW e \in S, NEW i \in 1..(Len(s) + 1)
  PROVE /\ InsertAt(s, i, e) \in Seq(S)
        /\ ToSet(InsertAt(s, i, e)) = ToSet(s) \cup {e}
        /\ (Distinct(s) /\ \A x \in ToSet(s) : x.id # e.id) => Distinct(InsertAt(s, i, e))
<1> DEFINE a == SubSeq(s, 1, i - 1)
           b == SubSeq(s, i, Len(s))
<1>1. Len(s) \in Nat /\ i \in Nat /\ i >= 1 /\ i <= Len(s) + 1 /\ DOMAIN s = 1..Len(s)
  OBVIOUS
<1>2. /\ a \in Seq(S) /\ Len(a) = i - 1 /\ DOMAIN a = 1..(i - 1)
      /\ \A k \in 1..(i - 1) : a[k] = s[k]
  BY <1>1
<1>3. /\ b \in Seq(S) /\ Len(b) = Len(s) - i + 1 /\ DOMAIN b = 1..(Len(s) - i + 1)
      /\ \A k \in 1..(Len(s) - i + 1) : b[k] = s[i + k - 1]
  BY <1>1
<1>4. InsertAt(s, i, e) = (a \o <<e>>) \o b
  BY DEF InsertAt
<1> HIDE DEF a, b
<1>5. ToSet(s) = ToSet(a) \cup ToSet(b)
  <2>1. \A k \in 1..(i - 1) : k \in 1..Len(s)
    BY <1>1
  <2>2. \A k \in 1..(Len(s) - i + 1) : i + k - 1 \in 1..Len(s)
    BY <1>1
  <2>3. ASSUME NEW k \in 1..Len(s) PROVE s[k] \in ToSet(a) \cup ToSet(b)
    <3>1. CASE k < i
      <4>1. k \in 1..(i - 1)
        BY <1>1, <3>1
      <4> QED BY <1>2, <4>1 DEF ToSet
    <3>2. CASE ~(k < i)
      <4>1. k - i + 1 \in 1..(Len(s) - i + 1) /\ i + (k - i + 1) - 1 = k
        BY <1>1, <3>2
      <4> QED BY <1>3, <4>1 DEF ToSet
    <3> QED BY <3>1, <3>2
  <2>4. ToSet(a) \subseteq ToSet(s)
    BY <1>1, <1>2, <2>1 DEF ToSet
  <2>5. \A k \in DOMAIN b : b[k] \in ToSet(s)
    BY <1>1, <1>3, <2>2 DEF ToSet
  <2>6. ToSet(b) \subseteq ToSet(s)
    BY <2>5 DEF ToSet
  <2> QED BY <1>1, <2>3, <2>4, <2>6 DEF ToSet
<1>6. /\ a \o <<e>> \in Seq(S) /\ ToSet(a \o <<e>>) = ToSet(a) \cup {e}
      /\ (Distinct(a) /\ \A x \in ToSet(a) : x.id # e.id) => Distinct(a \o <<e>>)
  BY <1>2, ConcatOne
<1>7. ASSUME Distinct(s) PROVE Distinct(a) /\ Distinct(b) /\ \A x \in ToSet(a), y \in ToSet(b) : x.id # y.id
  <2>1. \A k, l \in 1..Len(s) : s[k].id = s[l].id => k = l
    BY <1>1, <1>7 DEF Distinct
  <2>2. Distinct(a)
    <3>1. \A k \in 1..(i - 1) : k \in 1..Len(s)
      BY <1>1
    <3> QED BY <1>2, <2>1, <3>1 DEF Distinct
  <2>3. Distinct(b)
    <3>1. \A k \in 1..(Len(s) - i + 1) : i + k - 1 \in 1..Len(s)
      BY <1>1
    <3>2. \A k, l \in 1..(Len(s) - i + 1) : i + k - 1 = i + l - 1 => k = l
      BY <1>1
    <3> SUFFICES ASSUME NEW k \in 1..(Len(s) - i + 1), NEW l \in 1..(Len(s) - i + 1), b[k].id = b[l].id
                 PROVE k = l
      BY <1>3 DEF Distinct
    <3>3. b[k] = s[i + k - 1] /\ b[l] = s[i + l - 1]
      BY <1>3
    <3>4. i + k - 1 = i + l - 1
      BY <2>1, <3>1, <3>3
    <3> QED BY <3>2, <3>4
  <2>4. ASSUME NEW k \in 1..(i - 1), NEW l \in 1..(Len(s) - i + 1) PROVE a[k].id # b[l].id
    <3>1. k \in 1..Len(s) /\ i + l - 1 \in 1..Len(s) /\ k # i + l - 1
      BY <1>1
    <3> QED BY <1>2, <1>3, <2>1, <3>1
  <2> QED BY <1>2, <1>3, <2>2, <2>3, <2>4 DEF ToSet
<1>8. /\ (a \o <<e>>) \o b \in Seq(S)
      /\ ToSet((a \o <<e>>) \o b) = ToSet(a \o <<e>>) \cup ToSet(b)
      /\ (Distinct(a \o <<e>>) /\ Distinct(b) /\ \A x \in ToSet(a \o <<e>>), y \in ToSet(b) : x.id # y.id)
           => Distinct((a \o <<e>>) \o b)
  BY <1>3, <1>6, ConcatSet
<1> QED
  BY <1>4, <1>5, <1>6, <1>7, <1>8

\* splice() with a new id keeps the others and the distinct ids.
LEMMA SpliceInSet ==
  ASSUME NEW S, NEW s \in Seq(S), NEW e \in S, NEW at \in Nat \ {0}
  PROVE /\ SpliceIn(s, at, e) \in Seq(S)
        /\ ToSet(SpliceIn(s, at, e)) = ToSet(s) \cup {e}
        /\ (Distinct(s) /\ \A x \in ToSet(s) : x.id # e.id) => Distinct(SpliceIn(s, at, e))
<1> DEFINE i == IF at > Len(s) THEN Len(s) + 1 ELSE at
<1>1. i \in 1..(Len(s) + 1)
  OBVIOUS
<1>2. SpliceIn(s, at, e) = InsertAt(s, i, e)
  BY DEF SpliceIn
<1> HIDE DEF i
<1> QED
  BY <1>1, <1>2, InsertSet

\* AppendMissing() adds the objects whose ids are not there.
LEMMA AppendMissingSet ==
  ASSUME NEW S, NEW s \in Seq(S), NEW t \in Seq(S)
  PROVE /\ AppendMissing(s, t) \in Seq(S)
        /\ ToSet(AppendMissing(s, t)) = ToSet(s) \cup {x \in ToSet(t) : x.id \notin IdsOf(s)}
        /\ (Distinct(s) /\ Distinct(t)) => Distinct(AppendMissing(s, t))
<1> DEFINE w == Without(t, IdsOf(s))
<1>1. /\ w \in Seq(S)
      /\ ToSet(w) = {x \in ToSet(t) : x.id \notin IdsOf(s)}
      /\ Distinct(t) => Distinct(w)
  BY WithoutSet
<1>2. AppendMissing(s, t) = s \o w
  BY DEF AppendMissing
<1> HIDE DEF w
<1>3. /\ s \o w \in Seq(S)
      /\ ToSet(s \o w) = ToSet(s) \cup ToSet(w)
      /\ (Distinct(s) /\ Distinct(w) /\ \A x \in ToSet(s), y \in ToSet(w) : x.id # y.id)
            => Distinct(s \o w)
  BY <1>1, ConcatSet
<1>4. \A x \in ToSet(s), y \in ToSet(w) : x.id # y.id
  BY <1>1, IdsOfSet
<1> QED
  BY <1>1, <1>2, <1>3, <1>4

\* RemoveAt() drops one element.
LEMMA RemoveAtSet ==
  ASSUME NEW S, NEW s \in Seq(S), NEW i \in DOMAIN s
  PROVE /\ RemoveAt(s, i) \in Seq(S)
        /\ Len(RemoveAt(s, i)) = Len(s) - 1
        /\ \A k \in 1..(Len(s) - 1) : RemoveAt(s, i)[k] = IF k < i THEN s[k] ELSE s[k + 1]
        /\ ToSet(RemoveAt(s, i)) \subseteq ToSet(s)
<1> DEFINE a == SubSeq(s, 1, i - 1)
           b == SubSeq(s, i + 1, Len(s))
           r == RemoveAt(s, i)
<1>1. Len(s) \in Nat /\ i \in Nat /\ i >= 1 /\ i <= Len(s) /\ DOMAIN s = 1..Len(s)
      /\ \A k \in 1..Len(s) : s[k] \in S
  OBVIOUS
<1>2. a \in Seq(S) /\ Len(a) = i - 1 /\ \A k \in 1..(i - 1) : a[k] = s[k]
  BY <1>1
<1>3. b \in Seq(S) /\ Len(b) = Len(s) - i /\ \A k \in 1..(Len(s) - i) : b[k] = s[i + k]
  BY <1>1
<1>4. r = a \o b
  BY DEF RemoveAt
<1> HIDE DEF a, b
<1>5. r \in Seq(S) /\ Len(r) = Len(s) - 1
  <2>1. a \o b \in Seq(S) /\ Len(a \o b) = Len(a) + Len(b)
    BY <1>2, <1>3, ConcatProperties
  <2> QED BY <1>1, <1>2, <1>3, <1>4, <2>1
<1>6. \A k \in 1..(Len(s) - 1) : r[k] = IF k <= i - 1 THEN a[k] ELSE b[k - (i - 1)]
  BY <1>1, <1>2, <1>3, <1>4
<1> HIDE DEF r
<1>7. ASSUME NEW k \in 1..(Len(s) - 1) PROVE r[k] = IF k < i THEN s[k] ELSE s[k + 1]
  <2>1. CASE k < i
    <3>1. k \in 1..(i - 1) /\ k <= i - 1
      BY <1>1, <2>1
    <3> QED BY <1>2, <1>6, <2>1, <3>1
  <2>2. CASE ~(k < i)
    <3>1. ~(k <= i - 1) /\ k - (i - 1) \in 1..(Len(s) - i) /\ i + (k - (i - 1)) = k + 1
      BY <1>1, <2>2
    <3> QED BY <1>3, <1>6, <2>2, <3>1
  <2> QED BY <2>1, <2>2
<1>8. ToSet(r) \subseteq ToSet(s)
  <2>1. DOMAIN r = 1..(Len(s) - 1)
    BY <1>5
  <2>2. \A k \in 1..(Len(s) - 1) : k \in DOMAIN s /\ k + 1 \in DOMAIN s
    BY <1>1
  <2>3. \A k \in DOMAIN r : r[k] \in ToSet(s)
    BY <1>7, <2>1, <2>2 DEF ToSet
  <2> QED BY <2>3 DEF ToSet
<1> QED
  BY <1>5, <1>7, <1>8 DEF r

\* The objects after one of them was patched.
Replaced(S, item) == {IF x.id = item.id THEN item ELSE x : x \in S}

\* A patch replaces the object with that id and keeps the ids.
LEMMA PatchedSet ==
  ASSUME NEW S, NEW s \in Seq(S), NEW e \in S
  PROVE /\ Patched(s, e) \in Seq(S)
        /\ ToSet(Patched(s, e)) = Replaced(ToSet(s), e)
        /\ IdsOf(Patched(s, e)) = IdsOf(s)
        /\ Distinct(s) => Distinct(Patched(s, e))
<1>1. DOMAIN s = 1..Len(s) /\ Len(s) \in Nat /\ \A i \in 1..Len(s) : s[i] \in S
  OBVIOUS
<1>2. Patched(s, e) \in Seq(S)
  BY <1>1 DEF Patched
<1>3. \A i \in DOMAIN s : Patched(s, e)[i] = IF s[i].id = e.id THEN e ELSE s[i]
  BY DEF Patched
<1>4. DOMAIN Patched(s, e) = DOMAIN s
  BY DEF Patched
<1>5. \A i \in DOMAIN s : Patched(s, e)[i].id = s[i].id
  BY <1>3
<1>6. ToSet(Patched(s, e)) = Replaced(ToSet(s), e)
  BY <1>3, <1>4 DEF ToSet, Replaced
<1>7. IdsOf(Patched(s, e)) = IdsOf(s)
  BY <1>4, <1>5 DEF IdsOf
<1>8. Distinct(s) => Distinct(Patched(s, e))
  BY <1>4, <1>5 DEF Distinct
<1> QED
  BY <1>2, <1>6, <1>7, <1>8

\* The objects after some of them got new contents.
WithVals(S, vals) == {IF x.id \in DOMAIN vals THEN [x EXCEPT !.val = vals[x.id]] ELSE x : x \in S}

\* Objects whose contents may change.
ValClosed(S) ==
  \A x \in S : /\ x = [id |-> x.id, owner |-> x.owner, val |-> x.val]
              /\ \A v \in Vals : [x EXCEPT !.val = v] \in S

\* PatchVals() changes contents and keeps the ids.
LEMMA PatchValsSet ==
  ASSUME NEW S, ValClosed(S), NEW s \in Seq(S),
         NEW vals, \A i \in DOMAIN vals : vals[i] \in Vals
  PROVE /\ PatchVals(s, vals) \in Seq(S)
        /\ ToSet(PatchVals(s, vals)) = WithVals(ToSet(s), vals)
        /\ IdsOf(PatchVals(s, vals)) = IdsOf(s)
        /\ Distinct(s) => Distinct(PatchVals(s, vals))
<1>1. DOMAIN s = 1..Len(s) /\ Len(s) \in Nat /\ \A i \in 1..Len(s) : s[i] \in S
  OBVIOUS
<1>2. \A i \in DOMAIN s : PatchVals(s, vals)[i] =
         IF s[i].id \in DOMAIN vals THEN [s[i] EXCEPT !.val = vals[s[i].id]] ELSE s[i]
  BY DEF PatchVals
<1>3. \A i \in DOMAIN s : PatchVals(s, vals)[i] \in S /\ PatchVals(s, vals)[i].id = s[i].id
  <2> TAKE i \in DOMAIN s
  <2>1. s[i] \in S
    BY <1>1
  <2>0. \A v \in Vals : [s[i] EXCEPT !.val = v] \in S /\ [s[i] EXCEPT !.val = v].id = s[i].id
    <3> DEFINE x == s[i]
    <3>1. x = [id |-> x.id, owner |-> x.owner, val |-> x.val] /\ \A v \in Vals : [x EXCEPT !.val = v] \in S
      BY <2>1 DEF ValClosed
    <3>2. \A v \in Vals : [x EXCEPT !.val = v].id = x.id
      BY <3>1
    <3> QED BY <3>1, <3>2
  <2>2. CASE s[i].id \in DOMAIN vals
    BY <1>2, <2>0, <2>2
  <2>3. CASE s[i].id \notin DOMAIN vals
    BY <1>2, <2>1, <2>3
  <2> QED BY <2>2, <2>3
<1>4. DOMAIN PatchVals(s, vals) = 1..Len(s)
  BY <1>1 DEF PatchVals
<1>5. PatchVals(s, vals) \in Seq(S)
  <2>1. PatchVals(s, vals) = [i \in 1..Len(s) |-> PatchVals(s, vals)[i]]
    BY <1>4 DEF PatchVals
  <2> QED BY <1>1, <1>3, <2>1
<1>6. ToSet(PatchVals(s, vals)) = WithVals(ToSet(s), vals)
  BY <1>1, <1>2, <1>4 DEF ToSet, WithVals
<1>7. IdsOf(PatchVals(s, vals)) = IdsOf(s)
  BY <1>1, <1>3, <1>4 DEF IdsOf
<1>8. Distinct(s) => Distinct(PatchVals(s, vals))
  BY <1>1, <1>3, <1>4 DEF Distinct
<1> QED
  BY <1>5, <1>6, <1>7, <1>8

-----------------------------------------------------------------------------
\* f is what the loop over a batch builds, object by object.
IsSpliced(f, s, removed) ==
  f = [n \in 0..Len(removed) |->
         IF n = 0 THEN s
         ELSE IF removed[n].item.id \in IdsOf(f[n - 1]) THEN f[n - 1]
              ELSE SpliceIn(f[n - 1], removed[n].at, removed[n].item)]

\* The recursive function of that loop is defined by its equation.
LEMMA SplicedIs ==
  ASSUME NEW s, NEW removed, \E f : IsSpliced(f, s, removed)
  PROVE IsSpliced(Spliced(s, removed), s, removed)
BY DEF Spliced, IsSpliced

\* A removed object with the index it had.
RemovedFrom(S) == [item : S, at : Nat \ {0}]

\* Every step of the loop keeps distinct ids, and the ids grow by its object's.
LEMMA SplicedSteps ==
  ASSUME NEW S, NEW s \in Seq(S), NEW removed \in Seq(RemovedFrom(S))
  PROVE /\ Spliced(s, removed)[0] = s
        /\ \A k \in 1..Len(removed) :
             Spliced(s, removed)[k] =
               IF removed[k].item.id \in IdsOf(Spliced(s, removed)[k - 1])
               THEN Spliced(s, removed)[k - 1]
               ELSE SpliceIn(Spliced(s, removed)[k - 1], removed[k].at, removed[k].item)
<1> DEFINE n == Len(removed)
           X == Seq(S)
           Step(b, k) == IF removed[k].item.id \in IdsOf(b) THEN b
                         ELSE SpliceIn(b, removed[k].at, removed[k].item)
           g == [k \in 1..n |-> [b \in X |-> Step(b, k)]]
<1>1. n \in Nat /\ s \in X /\ \A k \in 1..n : removed[k] \in RemovedFrom(S)
  OBVIOUS
<1>2. \A k \in 1..n, b \in X : Step(b, k) \in X
  BY <1>1, SpliceInSet DEF RemovedFrom
<1> HIDE DEF Step
<1>3. g \in [1..n -> [X -> X]]
  BY <1>1, <1>2
<1>4. PICK f \in [0..n -> X] : f[0] = s /\ \A k \in 1..n : f[k] = g[k][f[k - 1]]
  <2> HIDE DEF n, X, g
  <2>1. PICK f : Follows(f, n, X, s, g)
    BY <1>1, <1>3, StepsExist
  <2> QED BY <2>1 DEF Follows
<1>5. \A k \in 1..n : k - 1 \in 0..n
  BY <1>1
<1>6. \A k \in 1..n : f[k] = Step(f[k - 1], k)
  BY <1>4, <1>5
<1>7. \A k \in 0..n : k # 0 => k \in 1..n
  BY <1>1
<1>8. \A k \in 0..n : f[k] = IF k = 0 THEN s ELSE Step(f[k - 1], k)
  BY <1>4, <1>6, <1>7
<1>9. IsSpliced(f, s, removed)
  BY <1>4, <1>8 DEF IsSpliced, Step
<1>10. IsSpliced(Spliced(s, removed), s, removed)
  BY <1>9, SplicedIs
<1> DEFINE F == Spliced(s, removed)
<1> HIDE DEF F
<1>11. \A k \in 0..n : F[k] = IF k = 0 THEN s ELSE Step(F[k - 1], k)
  BY <1>10 DEF IsSpliced, F, Step
<1>12. F[0] = s /\ \A k \in 1..n : F[k] = Step(F[k - 1], k)
  <2>1. 0 \in 0..n /\ \A k \in 1..n : k \in 0..n /\ k # 0
    BY <1>1
  <2> HIDE DEF n
  <2> QED BY <1>11, <2>1
<1> QED
  BY <1>12 DEF F, Step

\* Undoing the deletion of a selection: every object is there once.
LEMMA SpliceMissingSet ==
  ASSUME NEW S, NEW s \in Seq(S), NEW removed \in Seq(RemovedFrom(S)),
         \A i, j \in DOMAIN removed : removed[i].item.id = removed[j].item.id => i = j
  PROVE /\ SpliceMissing(s, removed) \in Seq(S)
        /\ ToSet(SpliceMissing(s, removed)) =
             ToSet(s) \cup {x \in {removed[i].item : i \in DOMAIN removed} : x.id \notin IdsOf(s)}
        /\ Distinct(s) => Distinct(SpliceMissing(s, removed))
<1> DEFINE n == Len(removed)
           F == Spliced(s, removed)
           Back(k) == {removed[i].item : i \in {j \in 1..k : removed[j].item.id \notin IdsOf(s)}}
           Good(b, k) == /\ b \in Seq(S)
                         /\ ToSet(b) = ToSet(s) \cup Back(k)
                         /\ Distinct(s) => Distinct(b)
           P == {k \in 0..n : Good(F[k], k)}
<1>1. n \in Nat /\ DOMAIN removed = 1..n /\ \A k \in 1..n : removed[k] \in RemovedFrom(S)
  OBVIOUS
<1>2. /\ F[0] = s
      /\ \A k \in 1..n : F[k] = IF removed[k].item.id \in IdsOf(F[k - 1]) THEN F[k - 1]
                                ELSE SpliceIn(F[k - 1], removed[k].at, removed[k].item)
  BY SplicedSteps
<1> HIDE DEF n, F
<1>3. Good(s, 0)
  <2>1. Back(0) = {}
    OBVIOUS
  <2> HIDE DEF Back
  <2> QED BY <2>1
<1>4. 0 \in P
  <2> HIDE DEF Good
  <2> QED BY <1>1, <1>2, <1>3
<1>5. ASSUME NEW k \in 1..n, NEW b, Good(b, k - 1)
      PROVE Good(IF removed[k].item.id \in IdsOf(b) THEN b
                 ELSE SpliceIn(b, removed[k].at, removed[k].item), k)
  <2> DEFINE r == removed[k]
  <2>1. r.item \in S /\ r.at \in Nat \ {0}
    BY <1>1 DEF RemovedFrom
  <2>2. \A j \in 1..k : j # k => j \in 1..(k - 1)
    BY <1>1
  <2>3. \A j \in 1..(k - 1) : j \in 1..k /\ j \in DOMAIN removed /\ j # k
    BY <1>1
  <2>4. k \in 1..k /\ k \in DOMAIN removed
    BY <1>1
  <2>5. r.item.id \in IdsOf(b) <=> r.item.id \in IdsOf(s)
    <3>1. \A x \in Back(k - 1) : x.id # r.item.id
      BY <2>3, <2>4
    <3> HIDE DEF Back, r
    <3>2. IdsOf(b) = IdsOf(s) \cup {x.id : x \in Back(k - 1)}
      BY <1>5, IdsOfSet
    <3> QED BY <3>1, <3>2
  <2>6. CASE r.item.id \in IdsOf(s)
    <3>1. Back(k) = Back(k - 1)
      BY <2>2, <2>3, <2>6
    <3> HIDE DEF Back
    <3> QED BY <1>5, <2>5, <2>6, <3>1
  <2>7. CASE r.item.id \notin IdsOf(s)
    <3>1. Back(k) = Back(k - 1) \cup {r.item}
      BY <2>2, <2>3, <2>4, <2>7
    <3> HIDE DEF Back, r
    <3>2. r.item.id \notin IdsOf(b)
      BY <2>5, <2>7
    <3>3. \A x \in ToSet(b) : x.id # r.item.id
      BY <3>2, IdsOfSet
    <3>4. /\ SpliceIn(b, r.at, r.item) \in Seq(S)
          /\ ToSet(SpliceIn(b, r.at, r.item)) = ToSet(b) \cup {r.item}
          /\ (Distinct(b) /\ \A x \in ToSet(b) : x.id # r.item.id) => Distinct(SpliceIn(b, r.at, r.item))
      BY <1>5, <2>1, SpliceInSet
    <3>5. Good(SpliceIn(b, r.at, r.item), k)
      BY <1>5, <3>1, <3>3, <3>4
    <3> QED BY <3>2, <3>5 DEF r
  <2> QED BY <2>6, <2>7
<1>6. \A k \in 1..n : k - 1 \in P => k \in P
  <2>1. \A k \in 1..n : k \in 0..n /\ k - 1 \in 0..n
    BY <1>1
  <2> HIDE DEF Good
  <2> QED BY <1>2, <1>5, <2>1
<1>7. \A k \in 0..n : k \in P
  <2> HIDE DEF P
  <2> QED BY <1>1, <1>4, <1>6, UpTo
<1>8. Good(F[n], n)
  <2> HIDE DEF Good
  <2> QED BY <1>1, <1>7
<1>9. Back(n) = {x \in {removed[i].item : i \in DOMAIN removed} : x.id \notin IdsOf(s)}
  BY <1>1
<1>10. SpliceMissing(s, removed) = F[n]
  BY DEF SpliceMissing, F, n
<1> QED
  BY <1>8, <1>9, <1>10

-----------------------------------------------------------------------------
(* Pushing entries.                                                        *)

\* How many of n entries go so that MaxHistory stay.
Over(n) == IF n > MaxHistory THEN n - MaxHistory ELSE 0

\* A record with the three fields of the slice.
IsHist(h) == h = [stack |-> h.stack, cursor |-> h.cursor, deletions |-> h.deletions]

\* r is the history h after a push of entries.
Pushed(S, h, entries, r) ==
  LET n == h.cursor + Len(entries) IN
  /\ IsHist(r) /\ r.stack \in Seq(S)
  /\ n \in Nat /\ Over(n) \in 0..(n - 1)
  /\ Len(r.stack) = n - Over(n) /\ r.cursor = n - Over(n)
  /\ \A i \in 1..(n - Over(n)) :
       r.stack[i] = IF i + Over(n) <= h.cursor THEN h.stack[i + Over(n)]
                    ELSE entries[(i + Over(n)) - h.cursor]
  /\ r.deletions = RestrictTo(h.deletions, DOMAIN h.deletions \ (Snaps(h.stack) \ Snaps(r.stack)))

\* What is on the stack after a push.
LEMMA PushAllKeeps ==
  ASSUME NEW S, NEW h, h.stack \in Seq(S), h.cursor \in 0..Len(h.stack),
         NEW entries \in Seq(S), entries # <<>>
  PROVE Pushed(S, h, entries, PushAll(h, entries))
<1> DEFINE n == h.cursor + Len(entries)
           r == PushAll(h, entries)
           a == SubSeq(h.stack, 1, h.cursor)
           b == a \o entries
           first == IF Len(b) > MaxHistory THEN Len(b) - MaxHistory + 1 ELSE 1
<1>1. /\ Len(entries) \in Nat \ {0} /\ Len(h.stack) \in Nat /\ h.cursor \in Nat /\ h.cursor <= Len(h.stack)
      /\ MaxHistory \in Nat \ {0}
  BY BoundAssumption
<1>2. a \in Seq(S) /\ Len(a) = h.cursor /\ \A i \in 1..h.cursor : a[i] = h.stack[i]
  <2>1. \A i \in 1..h.cursor : h.stack[i] \in S
    BY <1>1
  <2>2. h.cursor \in Int /\ 1 \in Int /\ h.cursor - 1 + 1 = h.cursor /\ \A i \in Int : 1 + i - 1 = i
        /\ (1 <= h.cursor \/ h.cursor = 0)
    BY <1>1
  <2>3. /\ a \in Seq(S)
        /\ Len(a) = IF 1 <= h.cursor THEN h.cursor - 1 + 1 ELSE 0
        /\ \A i \in 1..(h.cursor - 1 + 1) : a[i] = h.stack[1 + i - 1]
    BY <2>1, <2>2, SubSeqProperties
  <2>4. \A i \in 1..h.cursor : i \in Int
    OBVIOUS
  <2> HIDE DEF a
  <2> QED BY <2>2, <2>3, <2>4
<1> HIDE DEF a
<1>3. /\ b \in Seq(S) /\ Len(b) = n
      /\ \A i \in 1..n : b[i] = IF i <= h.cursor THEN a[i] ELSE entries[i - h.cursor]
  <2>1. /\ a \o entries \in Seq(S) /\ Len(a \o entries) = Len(a) + Len(entries)
        /\ \A i \in 1..(Len(a) + Len(entries)) :
             (a \o entries)[i] = IF i <= Len(a) THEN a[i] ELSE entries[i - Len(a)]
    BY <1>2, ConcatProperties
  <2> QED BY <1>2, <2>1
<1> HIDE DEF b
<1>0. n \in Nat /\ n >= 1
  BY <1>1
<1> HIDE DEF n
<1>4. n \in Nat /\ n >= 1 /\ Over(n) \in Nat /\ Over(n) <= n - 1 /\ first = Over(n) + 1
      /\ Over(n) \in 0..(n - 1) /\ first \in 1..n /\ n - first + 1 = n - Over(n)
  <2>1. MaxHistory \in Nat /\ MaxHistory >= 1
    BY <1>1
  <2>2. CASE n > MaxHistory
    <3>1. Over(n) = n - MaxHistory /\ first = n - MaxHistory + 1
      BY <1>3, <2>2 DEF Over
    <3> HIDE DEF first
    <3> QED BY <1>0, <2>1, <2>2, <3>1
  <2>3. CASE ~(n > MaxHistory)
    <3>1. Over(n) = 0 /\ first = 1
      BY <1>3, <2>3 DEF Over
    <3> HIDE DEF first
    <3> QED BY <1>0, <3>1
  <2> QED BY <2>2, <2>3
<1> DEFINE kept == LastEntries(b)
<1>5. kept = SubSeq(b, first, n)
  BY <1>3 DEF LastEntries
<1> HIDE DEF first
<1>6. /\ kept \in Seq(S) /\ Len(kept) = n - Over(n)
      /\ \A i \in 1..(n - Over(n)) : kept[i] = b[Over(n) + i]
  <2>1. \A i \in first..n : b[i] \in S
    BY <1>3, <1>4
  <2>2. /\ SubSeq(b, first, n) \in Seq(S)
        /\ Len(SubSeq(b, first, n)) = IF first <= n THEN n - first + 1 ELSE 0
        /\ \A i \in 1..(n - first + 1) : SubSeq(b, first, n)[i] = b[first + i - 1]
    BY <1>4, <2>1, SubSeqProperties
  <2>3. \A i \in 1..(n - Over(n)) : first + i - 1 = Over(n) + i
    BY <1>4
  <2> HIDE DEF kept
  <2> DEFINE t == SubSeq(b, first, n)
  <2>4. t \in Seq(S) /\ Len(t) = n - Over(n)
    BY <1>4, <2>2
  <2>5. \A i \in 1..(n - first + 1) : t[i] = b[first + i - 1]
    BY <2>2
  <2> HIDE DEF t
  <2>6. \A i \in 1..(n - Over(n)) : t[i] = b[Over(n) + i]
    BY <1>4, <2>3, <2>5
  <2> QED BY <1>5, <2>4, <2>6 DEF t
<1>7. r = [stack |-> kept, cursor |-> Len(kept),
           deletions |-> RestrictTo(h.deletions, DOMAIN h.deletions \ (Snaps(h.stack) \ Snaps(kept)))]
  BY DEF PushAll, b, a
<1> HIDE DEF kept, r
<1>8. /\ r.stack = kept /\ r.cursor = n - Over(n)
      /\ r.deletions = RestrictTo(h.deletions, DOMAIN h.deletions \ (Snaps(h.stack) \ Snaps(r.stack)))
      /\ IsHist(r)
  BY <1>6, <1>7 DEF IsHist
<1>9. ASSUME NEW i \in 1..(n - Over(n))
      PROVE r.stack[i] = IF i + Over(n) <= h.cursor THEN h.stack[i + Over(n)]
                         ELSE entries[(i + Over(n)) - h.cursor]
  <2>1. i + Over(n) \in 1..n /\ Over(n) + i = i + Over(n)
    BY <1>4
  <2>2. r.stack[i] = b[i + Over(n)]
    BY <1>6, <1>8, <2>1
  <2>3. b[i + Over(n)] = IF i + Over(n) <= h.cursor THEN a[i + Over(n)] ELSE entries[(i + Over(n)) - h.cursor]
    BY <1>3, <2>1
  <2>4. i + Over(n) <= h.cursor => i + Over(n) \in 1..h.cursor
    BY <1>1, <2>1
  <2> QED BY <1>2, <2>2, <2>3, <2>4
<1> QED
  BY <1>4, <1>6, <1>8, <1>9 DEF r, n, Pushed

-----------------------------------------------------------------------------
(* Snapshots and the entries that name them.                               *)

\* A sequence, whatever its elements are.
IsSeq(s) == s \in Seq(ToSet(s))

\* A sequence over some set is a sequence of its own elements.
LEMMA SeqIsSeq ==
  ASSUME NEW S, NEW s \in Seq(S)
  PROVE IsSeq(s)
<1>1. s \in [1..Len(s) -> S] /\ Len(s) \in Nat
  OBVIOUS
<1>2. \A i \in 1..Len(s) : s[i] \in ToSet(s)
  BY <1>1 DEF ToSet
<1>3. s = [i \in 1..Len(s) |-> s[i]]
  BY <1>1
<1> QED
  BY <1>1, <1>2, <1>3 DEF IsSeq

\* A set that holds the elements of both sequences.
LEMMA SameSet ==
  ASSUME NEW s, NEW t, IsSeq(s), IsSeq(t)
  PROVE s \in Seq(ToSet(s) \cup ToSet(t)) /\ t \in Seq(ToSet(s) \cup ToSet(t))
<1>1. ToSet(s) \subseteq ToSet(s) \cup ToSet(t) /\ ToSet(t) \subseteq ToSet(s) \cup ToSet(t)
  OBVIOUS
<1> QED
  BY <1>1, SeqMonotonic DEF IsSeq

-----------------------------------------------------------------------------
(* Every deletion on the stack has its snapshot, and no other is kept.     *)

\* The snapshots kept are those the entries name, each by one entry, and none
\* is named by an operation to come.
SnapsOk(h, top) ==
  /\ IsHist(h)
  /\ IsSeq(h.stack)
  /\ h.cursor \in 0..Len(h.stack)
  /\ \A i \in 1..Len(h.stack) : h.stack[i].snap \in 0..top
  /\ \A i, j \in 1..Len(h.stack) : h.stack[i].snap = h.stack[j].snap /\ h.stack[i].snap # 0 => i = j
  /\ Snaps(h.stack) = DOMAIN h.deletions

\* The snapshot of the newest entry: none, or a new one.
NewSnap(snap, top, next) == snap = 0 \/ (snap = next /\ next = top + 1)

\* A push of entries of which at most the last one has a snapshot, a new one.
LEMMA PushKeepsSnaps ==
  ASSUME NEW h, NEW entries, NEW top \in Nat, NEW next \in {top, top + 1},
         IsHist(h), IsSeq(h.stack), h.cursor \in 0..Len(h.stack),
         \A i \in 1..Len(h.stack) : h.stack[i].snap \in 0..top,
         \A i, j \in 1..Len(h.stack) : h.stack[i].snap = h.stack[j].snap /\ h.stack[i].snap # 0 => i = j,
         IsSeq(entries), entries # <<>>,
         \A i \in 1..Len(entries) : i # Len(entries) => entries[i].snap = 0,
         NewSnap(entries[Len(entries)].snap, top, next),
         DOMAIN h.deletions = Snaps(h.stack) \cup ({entries[Len(entries)].snap} \ {0})
  PROVE SnapsOk(PushAll(h, entries), next)
<1> DEFINE S == ToSet(h.stack) \cup ToSet(entries)
           r == PushAll(h, entries)
           n == h.cursor + Len(entries)
           l == entries[Len(entries)].snap
<1>1. h.stack \in Seq(S) /\ entries \in Seq(S)
  BY SameSet
<1> HIDE DEF S
<1>2. /\ IsHist(r) /\ r.stack \in Seq(S)
      /\ n \in Nat /\ Over(n) \in 0..(n - 1)
      /\ Len(r.stack) = n - Over(n) /\ r.cursor = n - Over(n)
      /\ \A i \in 1..(n - Over(n)) :
           r.stack[i] = IF i + Over(n) <= h.cursor THEN h.stack[i + Over(n)]
                        ELSE entries[(i + Over(n)) - h.cursor]
      /\ r.deletions = RestrictTo(h.deletions, DOMAIN h.deletions \ (Snaps(h.stack) \ Snaps(r.stack)))
  <2>1. Pushed(S, h, entries, PushAll(h, entries))
    BY <1>1, PushAllKeeps
  <2> HIDE DEF n
  <2> QED BY <2>1 DEF Pushed, n
<1>3. Len(entries) \in Nat \ {0} /\ Len(h.stack) \in Nat /\ h.cursor \in Nat /\ h.cursor <= Len(h.stack)
      /\ DOMAIN h.stack = 1..Len(h.stack) /\ DOMAIN r.stack = 1..Len(r.stack)
  BY <1>1, <1>2
<1>3a. n = h.cursor + Len(entries) /\ Over(n) \in Nat /\ Over(n) < n /\ n \in Nat
  BY <1>2
<1> HIDE DEF r, n
<1> DEFINE Old(i) == i + Over(n) <= h.cursor
<1>3b. \A i \in 1..(n - Over(n)) :
        /\ i + Over(n) <= h.cursor => i + Over(n) \in 1..Len(h.stack)
        /\ ~(i + Over(n) <= h.cursor) => (i + Over(n)) - h.cursor \in 1..Len(entries)
        /\ (i + Over(n)) - h.cursor = Len(entries) <=> i = n - Over(n)
        /\ (n - Over(n)) + Over(n) = n /\ ~(n <= h.cursor)
  <2> DEFINE c == h.cursor
             k == Len(entries)
             m == Len(h.stack)
             o == Over(n)
  <2>1. c \in Nat /\ m \in Nat /\ c <= m /\ k \in Nat \ {0} /\ n = c + k /\ o \in Nat /\ o < n
    BY <1>3, <1>3a
  <2> HIDE DEF c, k, m, o
  <2>2. \A i \in 1..(n - o) :
          /\ i + o <= c => i + o \in 1..m
          /\ ~(i + o <= c) => (i + o) - c \in 1..k
          /\ (i + o) - c = k <=> i = n - o
          /\ (n - o) + o = n /\ ~(n <= c)
    BY <2>1
  <2> QED BY <2>2 DEF c, k, m, o
<1>4. ASSUME NEW i \in 1..(n - Over(n))
      PROVE /\ Old(i) => i + Over(n) \in 1..Len(h.stack) /\ r.stack[i].snap = h.stack[i + Over(n)].snap
            /\ ~Old(i) => r.stack[i].snap = (IF i = n - Over(n) THEN l ELSE 0)
            /\ Old(n - Over(n)) = FALSE
  <2>1. CASE Old(i)
    <3>1. i + Over(n) \in 1..Len(h.stack)
      BY <1>3b, <2>1
    <3>2. n - Over(n) + Over(n) = n /\ ~(n <= h.cursor)
      BY <1>3b
    <3>3. r.stack[i] = h.stack[i + Over(n)]
      BY <1>2, <2>1
    <3> QED BY <2>1, <3>1, <3>2, <3>3
  <2>2. CASE ~Old(i)
    <3>1. (i + Over(n)) - h.cursor \in 1..Len(entries)
      BY <1>3b, <2>2
    <3>2. (i + Over(n)) - h.cursor = Len(entries) <=> i = n - Over(n)
      BY <1>3b
    <3>3. n - Over(n) + Over(n) = n /\ ~(n <= h.cursor)
      BY <1>3b
    <3>4. r.stack[i] = entries[(i + Over(n)) - h.cursor]
      BY <1>2, <2>2
    <3>5. r.stack[i].snap = IF i = n - Over(n) THEN l ELSE 0
      BY <3>1, <3>2, <3>4
    <3> QED BY <2>2, <3>3, <3>5
  <2> QED BY <2>1, <2>2
<1>5. \A i, j \in 1..(n - Over(n)) : i + Over(n) = j + Over(n) => i = j
  BY <1>2
<1>6. r.stack[n - Over(n)].snap = l /\ n - Over(n) \in 1..(n - Over(n))
  <2>1. n - Over(n) \in 1..(n - Over(n))
    BY <1>2
  <2> QED BY <1>4, <2>1
<1> HIDE DEF Old
<1>7. l \in {0, top + 1} /\ top + 1 \notin 0..top /\ 0..top \subseteq 0..next /\ 0 \in 0..next
      /\ l \in 0..next
  BY DEF NewSnap
<1> HIDE DEF l
<1>7a. \A i \in 1..(n - Over(n)) : Old(i) => r.stack[i].snap \in 0..top
  BY <1>4
<1>7b. \A i \in 1..(n - Over(n)) : ~Old(i) => r.stack[i].snap \in {0, top + 1}
  BY <1>4, <1>7
<1>8. \A i \in 1..(n - Over(n)) : r.stack[i].snap \in 0..next
  BY <1>4, <1>7
<1>9. ASSUME NEW i \in 1..(n - Over(n)), NEW j \in 1..(n - Over(n)),
             r.stack[i].snap = r.stack[j].snap, r.stack[i].snap # 0
      PROVE i = j
  <2>1. CASE Old(i) /\ Old(j)
    BY <1>4, <1>5, <1>9, <2>1
  <2>2. CASE Old(i) /\ ~Old(j)
    BY <1>7, <1>7a, <1>7b, <1>9, <2>2
  <2>3. CASE ~Old(i) /\ Old(j)
    BY <1>7, <1>7a, <1>7b, <1>9, <2>3
  <2>4. CASE ~Old(i) /\ ~Old(j)
    BY <1>4, <1>9, <2>4
  <2> QED BY <2>1, <2>2, <2>3, <2>4
<1>10. Snaps(r.stack) \subseteq Snaps(h.stack) \cup ({l} \ {0})
  <2> SUFFICES ASSUME NEW x \in Snaps(r.stack) PROVE x \in Snaps(h.stack) \cup ({l} \ {0})
    OBVIOUS
  <2>0. PICK i \in 1..(n - Over(n)) : x = r.stack[i].snap /\ x # 0
    BY <1>2, <1>3 DEF Snaps
  <2>1. CASE Old(i)
    BY <1>3, <1>4, <2>0, <2>1 DEF Snaps
  <2>2. CASE ~Old(i)
    BY <1>4, <2>0, <2>2
  <2> QED BY <2>1, <2>2
<1>11. {l} \ {0} \subseteq Snaps(r.stack)
  BY <1>2, <1>3, <1>6 DEF Snaps
<1>12. DOMAIN r.deletions = DOMAIN h.deletions \ (Snaps(h.stack) \ Snaps(r.stack))
  BY <1>2 DEF RestrictTo
<1>13. Snaps(r.stack) = DOMAIN r.deletions
  BY <1>10, <1>11, <1>12 DEF l
<1>14. IsSeq(r.stack) /\ r.cursor \in 0..Len(r.stack)
  BY <1>2, SeqIsSeq
<1> QED
  BY <1>2, <1>8, <1>9, <1>13, <1>14 DEF SnapsOk, r

\* A push of entries without a snapshot.
LEMMA PushPlainSnaps ==
  ASSUME NEW h, NEW entries, NEW top \in Nat, SnapsOk(h, top), IsSeq(entries),
         \A i \in 1..Len(entries) : entries[i].snap = 0
  PROVE SnapsOk(PushAll(h, entries), top)
<1>1. CASE entries = <<>>
  BY <1>1 DEF PushAll
<1>2. CASE entries # <<>>
  <2>1. Len(entries) \in 1..Len(entries)
    BY <1>2 DEF IsSeq
  <2>2. entries[Len(entries)].snap = 0
    BY <2>1
  <2>3. DOMAIN h.deletions = Snaps(h.stack) \cup ({0} \ {0})
    BY DEF SnapsOk
  <2>4. NewSnap(0, top, top) /\ top \in {top, top + 1}
    BY DEF NewSnap
  <2>5. /\ IsHist(h) /\ IsSeq(h.stack) /\ h.cursor \in 0..Len(h.stack)
        /\ \A i \in 1..Len(h.stack) : h.stack[i].snap \in 0..top
        /\ \A i, j \in 1..Len(h.stack) : h.stack[i].snap = h.stack[j].snap /\ h.stack[i].snap # 0 => i = j
    BY DEF SnapsOk
  <2>6. \A i \in 1..Len(entries) : i # Len(entries) => entries[i].snap = 0
    OBVIOUS
  <2> QED BY <1>2, <2>2, <2>3, <2>4, <2>5, <2>6, PushKeepsSnaps
<1> QED
  BY <1>1, <1>2

\* One push with the snapshot of this step, or with none.
LEMMA PushOneSnaps ==
  ASSUME NEW h, NEW e, NEW top \in Nat, SnapsOk(h, top), e.snap = 0
  PROVE SnapsOk(Push(h, e), top)
<1>1. IsSeq(<<e>>)
  BY OneSet, SeqIsSeq
<1>2. \A i \in 1..Len(<<e>>) : <<e>>[i].snap = 0
  OBVIOUS
<1> QED
  BY <1>1, <1>2, PushPlainSnaps DEF Push

\* A recorded edit names no snapshot.
LEMMA RecordSnaps ==
  ASSUME NEW h, NEW sc, NEW before, NEW top \in Nat, SnapsOk(h, top)
  PROVE SnapsOk(Record(h, sc, before), top)
<1>1. EditEntry(sc, before).snap = 0
  BY DEF EditEntry, Entry
<1> QED
  BY <1>1, PushOneSnaps DEF Record

\* The pending edits that a flush records.
Edits(sc) ==
  LET inColl(c) == Filter(pending, {i \in DOMAIN pending :
                                     CollOf(pending[i]) = c /\ Changed(sc, pending[i])})
  IN  inColl("cars") \o inColl("parts")

\* Flushing pushes the edits that changed something.
LEMMA FlushedIs ==
  ASSUME NEW h, NEW sc
  PROVE Flushed(h, sc) = PushAll(h, [i \in DOMAIN Edits(sc) |-> EditEntry(sc, Edits(sc)[i])])
BY DEF Flushed, Edits

\* The entries of the pending edits.
LEMMA EditsSet ==
  ASSUME NEW S, pending \in Seq(S), NEW sc
  PROVE /\ Edits(sc) \in Seq(S)
        /\ ToSet(Edits(sc)) \subseteq {x \in ToSet(pending) : Changed(sc, x)}
<1> DEFINE I(c) == {i \in DOMAIN pending : CollOf(pending[i]) = c /\ Changed(sc, pending[i])}
           a == Filter(pending, I("cars"))
           b == Filter(pending, I("parts"))
<1>1. a \in Seq(S) /\ ToSet(a) = {pending[i] : i \in I("cars")}
  BY FilterSet
<1>2. b \in Seq(S) /\ ToSet(b) = {pending[i] : i \in I("parts")}
  BY FilterSet
<1>3. Edits(sc) = a \o b
  BY DEF Edits
<1>4. ToSet(a) \subseteq {x \in ToSet(pending) : Changed(sc, x)}
      /\ ToSet(b) \subseteq {x \in ToSet(pending) : Changed(sc, x)}
  BY <1>1, <1>2 DEF ToSet
<1> HIDE DEF a, b
<1>5. a \o b \in Seq(S) /\ ToSet(a \o b) = ToSet(a) \cup ToSet(b)
  BY <1>1, <1>2, ConcatSet
<1> QED
  BY <1>3, <1>4, <1>5

\* Flushing keeps the snapshots in step.
LEMMA FlushedSnaps ==
  ASSUME NEW h, NEW sc, NEW top \in Nat, SnapsOk(h, top), IsSeq(pending)
  PROVE SnapsOk(Flushed(h, sc), top)
<1> DEFINE d == Edits(sc)
           t == [i \in DOMAIN d |-> EditEntry(sc, d[i])]
<1>1. d \in Seq(ToSet(pending))
  BY EditsSet DEF IsSeq
<1> HIDE DEF d
<1>2. DOMAIN d = 1..Len(d) /\ Len(d) \in Nat
  BY <1>1
<1>3. t \in Seq({EditEntry(sc, d[i]) : i \in DOMAIN d}) /\ Len(t) = Len(d)
  BY <1>2
<1>4. IsSeq(t)
  BY <1>3, SeqIsSeq
<1>5. \A i \in 1..Len(t) : t[i].snap = 0
  BY <1>2, <1>3 DEF EditEntry, Entry
<1> HIDE DEF t
<1>6. SnapsOk(PushAll(h, t), top)
  BY <1>4, <1>5, PushPlainSnaps
<1> QED
  BY <1>6, FlushedIs DEF t, d

\* So does recording the objects that appeared.
LEMMA TrackAddedSnaps ==
  ASSUME NEW h, NEW s, NEW t, NEW top \in Nat, SnapsOk(h, top)
  PROVE SnapsOk(TrackAdded(h, s, t), top)
<1>1. ASSUME NEW g, NEW c, NEW added, SnapsOk(g, top) PROVE SnapsOk(PushAdded(g, c, added), top)
  <2> DEFINE e == Entry([kind |-> "remove", coll |-> c, ids |-> IdsOf(added)],
                        [kind |-> "restore", coll |-> c, items |-> added])
  <2>1. e.snap = 0
    BY DEF Entry
  <2> HIDE DEF e
  <2>2. SnapsOk(Push(g, e), top)
    BY <1>1, <2>1, PushOneSnaps
  <2> QED BY <1>1, <2>2 DEF PushAdded, e
<1> QED
  BY <1>1 DEF TrackAdded

\* A later operation may use a later name.
LEMMA SnapsGrow ==
  ASSUME NEW h, NEW top \in Nat, SnapsOk(h, top)
  PROVE SnapsOk(h, top + 1)
<1>1. 0..top \subseteq 0..(top + 1)
  OBVIOUS
<1> QED
  BY <1>1 DEF SnapsOk

\* Undo and redo move the cursor only.
LEMMA CursorSnaps ==
  ASSUME NEW h, NEW top \in Nat, SnapsOk(h, top), NEW k \in 0..Len(h.stack)
  PROVE SnapsOk([h EXCEPT !.cursor = k], top)
<1> DEFINE r == [h EXCEPT !.cursor = k]
<1>1. r.stack = h.stack /\ r.cursor = k /\ r.deletions = h.deletions /\ IsHist(r)
  BY DEF SnapsOk, IsHist
<1> HIDE DEF r
<1>2. SnapsOk(r, top)
  BY <1>1 DEF SnapsOk
<1> QED BY <1>2 DEF r

-----------------------------------------------------------------------------
(* A log of n entries, the first cur of them done: entry i brings in the   *)
(* ids A[i] or takes out the ids D[i]; the ids S are there now.            *)


\* An id taken out by an entry is in no later one, and is not there while that
\* entry is done.
LogOk(n, A, D, cur, S) ==
  /\ n \in Nat /\ cur \in 0..n
  /\ \A i \in 1..n : A[i] \cap D[i] = {}
  /\ \A i, j \in 1..n : i < j => D[i] \cap (A[j] \cup D[j]) = {}
  /\ \A i \in 1..cur : D[i] \cap S = {}

\* An id of the scene or of some entry.
Known(n, A, D, S, x) == x \in S \/ \E i \in 1..n : x \in A[i] \cup D[i]

\* Entries done and undone put the id in the scene.
Done(n, A, D, cur, x) ==
  /\ \A j \in 1..n : x \in A[j] => j <= cur
  /\ \A k \in 1..n : x \in D[k] => k > cur

\* The scene is what the entries that are done make of it.
Replayed(n, A, D, cur, S) ==
  /\ \A i, j \in 1..n : i # j => A[i] \cap A[j] = {}
  /\ \A x : Known(n, A, D, S, x) => (x \in S <=> Done(n, A, D, cur, x))

\* The owner of a part comes before it and goes no earlier.
OwnersFirst(n, A, D, S, P, own) ==
  \A p \in P : Known(n, A, D, S, p) =>
    /\ Known(n, A, D, S, own[p])
    /\ \A j \in 1..n : own[p] \in A[j] => \E m \in 1..n : m > j /\ p \in A[m]
    /\ \A k \in 1..n : own[p] \in D[k] => \E m \in 1..n : m <= k /\ p \in D[m]

\* So a part that is there has its owner there.
LEMMA NoOrphanInLog ==
  ASSUME NEW n, NEW A, NEW D, NEW cur, NEW S, NEW P, NEW own,
         LogOk(n, A, D, cur, S), Replayed(n, A, D, cur, S), OwnersFirst(n, A, D, S, P, own),
         NEW p \in P, p \in S
  PROVE own[p] \in S
<1>1. Known(n, A, D, S, p) /\ Done(n, A, D, cur, p)
  BY DEF Replayed, Known
<1>2. /\ Known(n, A, D, S, own[p])
      /\ \A j \in 1..n : own[p] \in A[j] => \E m \in 1..n : m > j /\ p \in A[m]
      /\ \A k \in 1..n : own[p] \in D[k] => \E m \in 1..n : m <= k /\ p \in D[m]
  BY <1>1 DEF OwnersFirst
<1>3. n \in Nat /\ cur \in Nat
  BY DEF LogOk
<1>4. Done(n, A, D, cur, own[p])
  <2>1. ASSUME NEW j \in 1..n, own[p] \in A[j] PROVE j <= cur
    <3>1. PICK m \in 1..n : m > j /\ p \in A[m]
      BY <1>2, <2>1
    <3>2. m <= cur
      BY <1>1, <3>1 DEF Done
    <3> QED BY <1>3, <3>1, <3>2
  <2>2. ASSUME NEW k \in 1..n, own[p] \in D[k] PROVE k > cur
    <3>1. PICK m \in 1..n : m <= k /\ p \in D[m]
      BY <1>2, <2>2
    <3>2. m > cur
      BY <1>1, <3>1 DEF Done
    <3> QED BY <1>3, <3>1, <3>2
  <2> QED BY <2>1, <2>2 DEF Done
<1> QED
  BY <1>2, <1>4 DEF Replayed

\* Undoing the entry at the cursor.
LEMMA LogUndo ==
  ASSUME NEW n, NEW A, NEW D, NEW cur, NEW S, LogOk(n, A, D, cur, S), cur > 0
  PROVE LogOk(n, A, D, cur - 1, (S \ A[cur]) \cup D[cur])
<1>1. n \in Nat /\ cur \in 1..n /\ cur - 1 \in 0..n /\ \A i \in 1..(cur - 1) : i \in 1..n /\ i < cur /\ i \in 1..cur
  BY DEF LogOk
<1>2. \A i \in 1..(cur - 1) : D[i] \cap ((S \ A[cur]) \cup D[cur]) = {}
  BY <1>1 DEF LogOk
<1> QED
  BY <1>1, <1>2 DEF LogOk

\* Doing the entry after the cursor again.
LEMMA LogRedo ==
  ASSUME NEW n, NEW A, NEW D, NEW cur, NEW S, LogOk(n, A, D, cur, S), cur < n,
         NEW T, T \subseteq S \cup A[cur + 1], T \cap D[cur + 1] = {}
  PROVE LogOk(n, A, D, cur + 1, T)
<1>1. n \in Nat /\ cur + 1 \in 1..n /\ cur + 1 \in 0..n
  BY DEF LogOk
<1>2. ASSUME NEW i \in 1..(cur + 1) PROVE D[i] \cap T = {}
  <2>1. CASE i = cur + 1
    BY <2>1
  <2>2. CASE i # cur + 1
    <3>1. i \in 1..cur /\ i \in 1..n /\ i < cur + 1
      BY <1>1, <2>2 DEF LogOk
    <3> QED BY <1>1, <3>1 DEF LogOk
  <2> QED BY <2>1, <2>2
<1> QED
  BY <1>1, <1>2 DEF LogOk

\* An undo leaves the scene as the entries still done make it.
LEMMA ReplayUndo ==
  ASSUME NEW n, NEW A, NEW D, NEW cur, NEW S, LogOk(n, A, D, cur, S), cur > 0,
         Replayed(n, A, D, cur, S)
  PROVE /\ Replayed(n, A, D, cur - 1, (S \ A[cur]) \cup D[cur])
        /\ \A x : Known(n, A, D, (S \ A[cur]) \cup D[cur], x) <=> Known(n, A, D, S, x)
<1> DEFINE T == (S \ A[cur]) \cup D[cur]
<1>1. n \in Nat /\ cur \in 1..n
  BY DEF LogOk
<1>2. \A x : Known(n, A, D, T, x) <=> Known(n, A, D, S, x)
  BY <1>1 DEF Known
<1>3. ASSUME NEW x, Known(n, A, D, S, x) PROVE x \in T <=> Done(n, A, D, cur - 1, x)
  <2>1. x \in S <=> Done(n, A, D, cur, x)
    BY <1>3 DEF Replayed
  <2>2. CASE x \in D[cur]
    <3>1. \A k \in 1..n : x \in D[k] => k = cur
      BY <1>1, <2>2 DEF LogOk
    <3>2. \A j \in 1..n : x \in A[j] => j < cur
      BY <1>1, <2>2 DEF LogOk
    <3>3. Done(n, A, D, cur - 1, x)
      BY <1>1, <3>1, <3>2 DEF Done
    <3> QED BY <2>2, <3>3
  <2>3. CASE x \in A[cur] /\ x \notin D[cur]
    <3>1. ~Done(n, A, D, cur - 1, x)
      BY <1>1, <2>3 DEF Done
    <3> QED BY <2>3, <3>1
  <2>4. CASE x \notin A[cur] /\ x \notin D[cur]
    <3>1. Done(n, A, D, cur - 1, x) <=> Done(n, A, D, cur, x)
      BY <1>1, <2>4 DEF Done
    <3> QED BY <2>1, <2>4, <3>1
  <2> QED BY <2>2, <2>3, <2>4
<1> HIDE DEF T
<1>4. Replayed(n, A, D, cur - 1, T)
  BY <1>2, <1>3 DEF Replayed
<1> QED
  BY <1>2, <1>4 DEF T

\* So does a redo.
LEMMA ReplayRedo ==
  ASSUME NEW n, NEW A, NEW D, NEW cur, NEW S, LogOk(n, A, D, cur, S), cur < n,
         Replayed(n, A, D, cur, S)
  PROVE /\ Replayed(n, A, D, cur + 1, (S \cup A[cur + 1]) \ D[cur + 1])
        /\ \A x : Known(n, A, D, (S \cup A[cur + 1]) \ D[cur + 1], x) <=> Known(n, A, D, S, x)
<1> DEFINE T == (S \cup A[cur + 1]) \ D[cur + 1]
<1>1. n \in Nat /\ cur \in Nat /\ cur + 1 \in 1..n
  BY DEF LogOk
<1>2. \A x : Known(n, A, D, T, x) <=> Known(n, A, D, S, x)
  BY <1>1 DEF Known
<1>3. ASSUME NEW x, Known(n, A, D, S, x) PROVE x \in T <=> Done(n, A, D, cur + 1, x)
  <2>1. x \in S <=> Done(n, A, D, cur, x)
    BY <1>3 DEF Replayed
  <2>2. CASE x \in A[cur + 1]
    <3>1. \A j \in 1..n : x \in A[j] => j = cur + 1
      BY <1>1, <2>2 DEF Replayed
    <3>2. \A k \in 1..n : x \in D[k] => k > cur + 1
      BY <1>1, <2>2 DEF LogOk
    <3>3. Done(n, A, D, cur + 1, x)
      BY <1>1, <3>1, <3>2 DEF Done
    <3>4. x \notin D[cur + 1]
      BY <1>1, <2>2 DEF LogOk
    <3> QED BY <2>2, <3>3, <3>4
  <2>3. CASE x \in D[cur + 1]
    <3>1. ~Done(n, A, D, cur + 1, x)
      BY <1>1, <2>3 DEF Done
    <3> QED BY <2>3, <3>1
  <2>4. CASE x \notin A[cur + 1] /\ x \notin D[cur + 1]
    <3>1. Done(n, A, D, cur + 1, x) <=> Done(n, A, D, cur, x)
      BY <1>1, <2>4 DEF Done
    <3> QED BY <2>1, <2>4, <3>1
  <2> QED BY <2>2, <2>3, <2>4
<1> HIDE DEF T
<1>4. Replayed(n, A, D, cur + 1, T)
  BY <1>2, <1>3 DEF Replayed
<1> QED
  BY <1>2, <1>4 DEF T

\* OwnersFirst depends on the scene only through what is known.
LEMMA SameKnown ==
  ASSUME NEW n, NEW A, NEW D, NEW S, NEW T, NEW P, NEW own, OwnersFirst(n, A, D, S, P, own),
         \A x : Known(n, A, D, T, x) <=> Known(n, A, D, S, x)
  PROVE OwnersFirst(n, A, D, T, P, own)
BY DEF OwnersFirst

-----------------------------------------------------------------------------
\* Entries that were done, but for the oldest `off` of them, then new ones of
\* which only the last one has ids: X to bring in or Y to take out.
Slid(n, A, D, n2, A2, D2, cur, off, X, Y) ==
  LET m == cur - off IN
  /\ off \in 0..cur /\ n2 \in Nat /\ n2 > m
  /\ \A i \in 1..m : A2[i] = A[i + off] /\ D2[i] = D[i + off]
  /\ \A i \in (m + 1)..n2 : i # n2 => A2[i] = {} /\ D2[i] = {}
  /\ A2[n2] = X /\ D2[n2] = Y

\* Where an entry of the old log is in the new one.
LEMMA SlidIndex ==
  ASSUME NEW n, NEW A, NEW D, NEW cur, NEW S, LogOk(n, A, D, cur, S),
         NEW n2, NEW A2, NEW D2, NEW off, NEW X, NEW Y,
         Slid(n, A, D, n2, A2, D2, cur, off, X, Y)
  PROVE /\ n2 \in 1..n2 /\ n2 > cur - off
        /\ \A i \in 1..n2 : i <= cur - off \/ i = n2 \/ (A2[i] = {} /\ D2[i] = {})
        /\ \A i \in 1..n2 : i <= cur - off =>
              /\ i + off \in 1..cur /\ i + off \in 1..n
              /\ A2[i] = A[i + off] /\ D2[i] = D[i + off]
              /\ i # n2
<1>1. n \in Nat /\ cur \in Nat /\ cur <= n /\ off \in Nat /\ off <= cur /\ n2 \in Nat /\ n2 > cur - off
  BY DEF LogOk, Slid
<1>2. n2 \in 1..n2
  BY <1>1
<1>3. ASSUME NEW i \in 1..n2, ~(i <= cur - off), i # n2 PROVE A2[i] = {} /\ D2[i] = {}
  <2>1. i \in (cur - off + 1)..n2
    BY <1>1, <1>3
  <2> QED BY <1>3, <2>1 DEF Slid
<1>4. ASSUME NEW i \in 1..n2, i <= cur - off
      PROVE /\ i + off \in 1..cur /\ i + off \in 1..n
            /\ A2[i] = A[i + off] /\ D2[i] = D[i + off] /\ i # n2
  <2>1. i \in 1..(cur - off) /\ i + off \in 1..cur /\ i + off \in 1..n /\ i # n2
    BY <1>1, <1>4
  <2> QED BY <2>1 DEF Slid
<1> QED
  BY <1>1, <1>2, <1>3, <1>4

\* Pushing an entry with ids X in or Y out keeps the discipline of the log.
LEMMA LogPush ==
  ASSUME NEW n, NEW A, NEW D, NEW cur, NEW S, LogOk(n, A, D, cur, S),
         NEW n2, NEW A2, NEW D2, NEW off, NEW X, NEW Y,
         Slid(n, A, D, n2, A2, D2, cur, off, X, Y),
         X = {} \/ Y = {}, Y \subseteq S, \A i \in 1..cur : X \cap D[i] = {}
  PROVE LogOk(n2, A2, D2, n2, (S \cup X) \ Y)
<1> DEFINE m == cur - off
<1>1. n \in Nat /\ cur \in Nat /\ cur <= n /\ off \in Nat /\ n2 \in Nat
  BY DEF LogOk, Slid
<1>2. /\ n2 \in 1..n2 /\ n2 > m
      /\ \A i \in 1..n2 : i <= m \/ i = n2 \/ (A2[i] = {} /\ D2[i] = {})
      /\ \A i \in 1..n2 : i <= m =>
            /\ i + off \in 1..cur /\ i + off \in 1..n
            /\ A2[i] = A[i + off] /\ D2[i] = D[i + off]
            /\ i # n2
  BY SlidIndex
<1>2a. A2[n2] = X /\ D2[n2] = Y
  BY DEF Slid
<1>3. m \in Int
  BY <1>1
<1> HIDE DEF m
<1>4. ASSUME NEW i \in 1..n2 PROVE A2[i] \cap D2[i] = {}
  <2>1. CASE i <= m
    BY <1>2, <2>1 DEF LogOk
  <2>2. CASE i = n2
    BY <1>2, <1>2a, <2>2
  <2> QED BY <1>2, <2>1, <2>2
<1>5. ASSUME NEW i \in 1..n2, NEW j \in 1..n2, i < j PROVE D2[i] \cap (A2[j] \cup D2[j]) = {}
  <2>1. CASE D2[i] = {} \/ (A2[j] = {} /\ D2[j] = {})
    BY <2>1
  <2>2. CASE i = n2
    BY <1>1, <1>5, <2>2
  <2>3. CASE i <= m /\ j <= m
    <3>1. i + off \in 1..n /\ j + off \in 1..n /\ i + off < j + off
      BY <1>1, <1>2, <1>5, <2>3
    <3> QED BY <1>2, <2>3, <3>1 DEF LogOk
  <2>4. CASE i <= m /\ j = n2
    BY <1>2, <1>2a, <2>4 DEF LogOk
  <2> QED BY <1>2, <2>1, <2>2, <2>3, <2>4
<1>6. ASSUME NEW i \in 1..n2 PROVE D2[i] \cap ((S \cup X) \ Y) = {}
  <2>1. CASE i <= m
    BY <1>2, <2>1 DEF LogOk
  <2>2. CASE i = n2
    BY <1>2, <1>2a, <2>2
  <2> QED BY <1>2, <2>1, <2>2
<1>7. n2 \in 0..n2
  BY <1>1
<1> QED
  BY <1>1, <1>4, <1>5, <1>6, <1>7 DEF LogOk

\* Pushing keeps the scene what the log makes of it, owners first.
LEMMA ReplayPush ==
  ASSUME NEW n, NEW A, NEW D, NEW cur, NEW S, LogOk(n, A, D, cur, S),
         NEW n2, NEW A2, NEW D2, NEW off, NEW X, NEW Y,
         Slid(n, A, D, n2, A2, D2, cur, off, X, Y),
         X = {} \/ Y = {}, Y \subseteq S, \A x \in X : ~Known(n, A, D, S, x),
         NEW P, NEW own, Replayed(n, A, D, cur, S), OwnersFirst(n, A, D, S, P, own),
         \A p \in P : (p \in X => own[p] \in S) /\ (p \in S /\ own[p] \in Y => p \in Y)
  PROVE /\ Replayed(n2, A2, D2, n2, (S \cup X) \ Y)
        /\ OwnersFirst(n2, A2, D2, (S \cup X) \ Y, P, own)
<1> DEFINE m == cur - off
           T == (S \cup X) \ Y
<1>1. n \in Nat /\ cur \in Nat /\ cur <= n /\ off \in Nat /\ n2 \in Nat /\ off <= cur
  BY DEF LogOk, Slid
<1>2. /\ n2 \in 1..n2 /\ n2 > m
      /\ \A i \in 1..n2 : i <= m \/ i = n2 \/ (A2[i] = {} /\ D2[i] = {})
      /\ \A i \in 1..n2 : i <= m =>
            /\ i + off \in 1..cur /\ i + off \in 1..n
            /\ A2[i] = A[i + off] /\ D2[i] = D[i + off]
            /\ i # n2
  BY SlidIndex
<1>2a. A2[n2] = X /\ D2[n2] = Y
  BY DEF Slid
<1>3. ASSUME NEW k \in 1..n, k <= cur, k > off
      PROVE k - off \in 1..n2 /\ k - off <= m /\ A2[k - off] = A[k] /\ D2[k - off] = D[k]
            /\ \A i \in 1..n2 : (i + off < k => i < k - off) /\ (k <= i + off => k - off <= i)
  <2>1. k - off \in 1..n2 /\ k - off <= m /\ (k - off) + off = k
    BY <1>1, <1>2, <1>3
  <2>2. \A i \in 1..n2 : (i + off < k => i < k - off) /\ (k <= i + off => k - off <= i)
    BY <1>1
  <2>3. A2[k - off] = A[(k - off) + off] /\ D2[k - off] = D[(k - off) + off]
    BY <1>2, <2>1
  <2> QED BY <2>1, <2>2, <2>3
<1>4. m \in Int
  BY <1>1
<1> HIDE DEF m
<1>5. \A i, j \in 1..n : i # j => A[i] \cap A[j] = {}
  BY DEF Replayed
<1>6. \A i, j \in 1..n : i < j => D[i] \cap A[j] = {} /\ D[i] \cap D[j] = {}
  BY DEF LogOk
<1>7. \A x \in X : x \notin S /\ \A i \in 1..n : x \notin A[i] /\ x \notin D[i]
  BY DEF Known
<1>8. \A x : Known(n2, A2, D2, T, x) /\ x \notin X => Known(n, A, D, S, x)
  <2> SUFFICES ASSUME NEW x, Known(n2, A2, D2, T, x), x \notin X PROVE Known(n, A, D, S, x)
    OBVIOUS
  <2>1. CASE x \in T
    BY <2>1 DEF Known
  <2>2. CASE x \notin T
    <3>1. PICK i \in 1..n2 : x \in A2[i] \cup D2[i]
      BY <2>2 DEF Known
    <3>2. CASE i <= m
      BY <1>2, <3>1, <3>2 DEF Known
    <3>3. CASE i = n2
      BY <1>2a, <3>1, <3>3 DEF Known
    <3> QED BY <1>2, <3>1, <3>2, <3>3
  <2> QED BY <2>1, <2>2
\* What is known after the push and was not brought in: its last deletion
\* before the push is still on the stack.
<1>9. ASSUME NEW x, Known(n2, A2, D2, T, x), x \notin X, x \notin S
      PROVE \E k \in 1..n : k > off /\ k <= cur /\ x \in D[k]
  <2>1. x \notin T
    BY <1>9
  <2>2. PICK i \in 1..n2 : x \in A2[i] \cup D2[i]
    BY <1>9, <2>1 DEF Known
  <2>3. i <= m
    BY <1>2, <1>2a, <1>9, <2>2
  <2>4. i + off \in 1..n /\ i + off <= cur /\ i + off > off /\ x \in A[i + off] \cup D[i + off]
    BY <1>1, <1>2, <2>2, <2>3
  <2>5. CASE x \in D[i + off]
    BY <2>4, <2>5
  <2>6. CASE x \in A[i + off]
    <3>1. ~Done(n, A, D, cur, x)
      BY <1>8, <1>9 DEF Replayed
    <3>2. \A j \in 1..n : x \in A[j] => j <= cur
      BY <1>5, <2>4, <2>6
    <3>3. PICK k \in 1..n : x \in D[k] /\ ~(k > cur)
      BY <3>1, <3>2 DEF Done
    <3>4. ~(k < i + off)
      BY <1>6, <2>4, <2>6, <3>3
    <3>5. k > off /\ k <= cur
      BY <1>1, <2>4, <3>3, <3>4
    <3> QED BY <3>3, <3>5
  <2> QED BY <2>4, <2>5, <2>6
<1>10. \A i, j \in 1..n2 : i # j => A2[i] \cap A2[j] = {}
  <2> SUFFICES ASSUME NEW i \in 1..n2, NEW j \in 1..n2, i # j, NEW x, x \in A2[i], x \in A2[j] PROVE FALSE
    OBVIOUS
  <2>1. CASE i <= m /\ j <= m
    <3>1. i + off \in 1..n /\ j + off \in 1..n /\ i + off # j + off
      BY <1>1, <1>2, <2>1
    <3> QED BY <1>2, <1>5, <2>1, <3>1
  <2>2. CASE i <= m /\ j = n2
    BY <1>2, <1>2a, <1>7, <2>2
  <2>3. CASE j <= m /\ i = n2
    BY <1>2, <1>2a, <1>7, <2>3
  <2> QED BY <1>2, <2>1, <2>2, <2>3
<1>11. ASSUME NEW x PROVE Done(n2, A2, D2, n2, x) <=> \A k \in 1..n2 : x \notin D2[k]
  BY <1>1 DEF Done
<1>12. ASSUME NEW x, Known(n2, A2, D2, T, x) PROVE x \in T <=> Done(n2, A2, D2, n2, x)
  <2>1. CASE x \in X
    <3>1. \A k \in 1..n2 : x \notin D2[k]
      <4> TAKE k \in 1..n2
      <4>1. CASE k <= m
        BY <1>2, <1>7, <2>1, <4>1
      <4>2. CASE k = n2
        BY <1>2a, <2>1, <4>2
      <4> QED BY <1>2, <4>1, <4>2
    <3> QED BY <1>11, <2>1, <3>1
  <2>2. CASE x \in Y
    BY <1>2, <1>2a, <1>11, <2>2
  <2>3. CASE x \notin X /\ x \notin Y
    <3>1. x \in T <=> x \in S
      BY <2>3
    <3>2. ASSUME x \in S, NEW k \in 1..n2, x \in D2[k] PROVE FALSE
      <4>1. k <= m
        BY <1>2, <1>2a, <2>3, <3>2
      <4>2. k + off \in 1..cur /\ x \in D[k + off]
        BY <1>2, <3>2, <4>1
      <4> QED BY <3>2, <4>2 DEF LogOk
    <3>3. ASSUME x \notin S PROVE \E k \in 1..n2 : x \in D2[k]
      <4>1. PICK k \in 1..n : k > off /\ k <= cur /\ x \in D[k]
        BY <1>9, <1>12, <2>3, <3>3
      <4> QED BY <1>3, <4>1
    <3> QED BY <1>11, <3>1, <3>2, <3>3
  <2> QED BY <2>1, <2>2, <2>3
<1>13. ASSUME NEW p \in P, Known(n2, A2, D2, T, p)
       PROVE /\ Known(n2, A2, D2, T, own[p])
             /\ \A j \in 1..n2 : own[p] \in A2[j] => \E i \in 1..n2 : i > j /\ p \in A2[i]
             /\ \A k \in 1..n2 : own[p] \in D2[k] => \E i \in 1..n2 : i <= k /\ p \in D2[i]
  <2> DEFINE c == own[p]
  <2>1. CASE p \in X
    <3>1. c \in S /\ c \notin X /\ Y = {} /\ c \in T
      BY <1>7, <2>1
    <3>2. ASSUME NEW j \in 1..n2, c \in A2[j] PROVE \E i \in 1..n2 : i > j /\ p \in A2[i]
      <4>1. j # n2
        BY <1>2a, <3>1, <3>2
      <4>2. n2 > j
        BY <1>1, <4>1
      <4> QED BY <1>2, <1>2a, <2>1, <4>2
    <3>3. ASSUME NEW k \in 1..n2, c \in D2[k] PROVE FALSE
      <4>1. k <= m
        BY <1>2, <1>2a, <3>1, <3>3
      <4>2. k + off \in 1..cur /\ c \in D[k + off]
        BY <1>2, <3>3, <4>1
      <4> QED BY <3>1, <4>2 DEF LogOk
    <3> QED BY <3>1, <3>2, <3>3 DEF Known
  <2>2. CASE p \notin X
    <3>1. Known(n, A, D, S, p)
      BY <1>8, <1>13, <2>2
    <3>2. /\ Known(n, A, D, S, c)
          /\ \A j \in 1..n : c \in A[j] => \E i \in 1..n : i > j /\ p \in A[i]
          /\ \A k \in 1..n : c \in D[k] => \E i \in 1..n : i <= k /\ p \in D[i]
      BY <3>1 DEF OwnersFirst
    <3>3. c \notin X
      BY <3>2
    <3>4. p \in S => c \in S
      BY NoOrphanInLog
    <3>5. p \notin S => \E q \in 1..n : q > off /\ q <= cur /\ p \in D[q]
      BY <1>9, <1>13, <2>2
    <3>6. c \in S => Known(n2, A2, D2, T, c)
      <4> SUFFICES ASSUME c \in S PROVE Known(n2, A2, D2, T, c)
        OBVIOUS
      <4>1. CASE c \in Y
        BY <1>2, <1>2a, <4>1 DEF Known
      <4>2. CASE c \notin Y
        BY <4>2 DEF Known
      <4> QED BY <4>1, <4>2
    <3>7. Known(n2, A2, D2, T, c)
      <4>1. CASE p \in S
        BY <3>4, <3>6, <4>1
      <4>2. CASE p \notin S /\ c \notin S
        <5>1. PICK q \in 1..n : q > off /\ q <= cur /\ p \in D[q]
          BY <3>5, <4>2
        <5>2. ~Done(n, A, D, cur, c)
          BY <3>2, <4>2 DEF Replayed
        <5>3. \A j \in 1..n : c \in A[j] => j <= cur
          <6> SUFFICES ASSUME NEW j \in 1..n, c \in A[j], ~(j <= cur) PROVE FALSE
            OBVIOUS
          <6>1. PICK i \in 1..n : i > j /\ p \in A[i]
            BY <3>2
          <6>2. q < i
            BY <1>1, <5>1, <6>1
          <6> QED BY <1>6, <5>1, <6>1, <6>2
        <5>4. PICK k \in 1..n : c \in D[k] /\ ~(k > cur)
          BY <5>2, <5>3 DEF Done
        <5>5. PICK i \in 1..n : i <= k /\ p \in D[i]
          BY <3>2, <5>4
        <5>6. ~(i < q) /\ ~(q < i)
          BY <1>6, <5>1, <5>5
        <5>7. k > off /\ k <= cur
          BY <1>1, <5>1, <5>4, <5>5, <5>6
        <5> QED BY <1>3, <5>4, <5>7 DEF Known
      <4> QED BY <3>6, <4>1, <4>2
    <3>8. ASSUME NEW j \in 1..n2, c \in A2[j] PROVE \E i \in 1..n2 : i > j /\ p \in A2[i]
      <4>1. j <= m
        BY <1>2, <1>2a, <3>3, <3>8
      <4>2. j + off \in 1..n /\ c \in A[j + off]
        BY <1>2, <3>8, <4>1
      <4>3. PICK i \in 1..n : i > j + off /\ p \in A[i]
        BY <3>2, <4>2
      <4>4. i <= cur
        <5>1. CASE p \in S
          <6>1. Done(n, A, D, cur, p)
            BY <3>1, <5>1 DEF Replayed
          <6> QED BY <4>3, <6>1 DEF Done
        <5>2. CASE p \notin S
          <6>1. PICK q \in 1..n : q > off /\ q <= cur /\ p \in D[q]
            BY <3>5, <5>2
          <6>2. ~(q < i)
            BY <1>6, <4>3, <6>1
          <6> QED BY <1>1, <6>1, <6>2
        <5> QED BY <5>1, <5>2
      <4>5. i > off
        BY <1>1, <4>3
      <4>6. i - off \in 1..n2 /\ A2[i - off] = A[i] /\ j < i - off
        BY <1>3, <4>3, <4>4, <4>5
      <4>7. i - off > j
        BY <1>1, <4>6
      <4> QED BY <4>3, <4>6, <4>7
    <3>9. ASSUME NEW k \in 1..n2, c \in D2[k] PROVE \E i \in 1..n2 : i <= k /\ p \in D2[i]
      <4>1. CASE k = n2
        <5>1. CASE p \in S
          BY <1>2, <1>2a, <3>9, <4>1, <5>1
        <5>2. CASE p \notin S
          <6>1. PICK q \in 1..n : q > off /\ q <= cur /\ p \in D[q]
            BY <3>5, <5>2
          <6>2. q - off \in 1..n2 /\ D2[q - off] = D[q]
            BY <1>3, <6>1
          <6>3. q - off <= n2
            BY <6>2
          <6> QED BY <4>1, <6>1, <6>2, <6>3
        <5> QED BY <5>1, <5>2
      <4>2. CASE k <= m
        <5>1. k + off \in 1..n /\ k + off <= cur /\ c \in D[k + off]
          BY <1>2, <3>9, <4>2
        <5>2. PICK i \in 1..n : i <= k + off /\ p \in D[i]
          BY <3>2, <5>1
        <5>3. i \in 1..cur
          BY <1>1, <5>1, <5>2
        <5>4. p \notin S
          BY <5>2, <5>3 DEF LogOk
        <5>5. PICK q \in 1..n : q > off /\ q <= cur /\ p \in D[q]
          BY <3>5, <5>4
        <5>6. ~(i < q) /\ ~(q < i)
          BY <1>6, <5>2, <5>5
        <5>7. i > off /\ i <= cur
          BY <1>1, <5>3, <5>5, <5>6
        <5>8. i - off \in 1..n2 /\ D2[i - off] = D[i] /\ i - off <= k
          BY <1>3, <5>2, <5>7
        <5> QED BY <5>2, <5>8
      <4> QED BY <1>2, <3>9, <4>1, <4>2
    <3> QED BY <3>7, <3>8, <3>9
  <2> QED BY <2>1, <2>2
<1> HIDE DEF T
<1>14. Replayed(n2, A2, D2, n2, T)
  BY <1>10, <1>12 DEF Replayed
<1>15. OwnersFirst(n2, A2, D2, T, P, own)
  BY <1>13 DEF OwnersFirst
<1> QED
  BY <1>14, <1>15 DEF T

-----------------------------------------------------------------------------
(* Scenes, entries, and what undo and redo make of a scene.                *)

\* The objects that can be around: ids given out, and the owner of each part.
CarItems(U) == [id : Cars \cap U, owner : {NoOne}, val : Vals]
\* A part names a car that was given out, the same one for ever.
PartItems(U, own) == {x \in [id : Parts \cap U, owner : Cars \cap U, val : Vals] : x.owner = own[x.id]}

\* The collections hold possible objects with distinct ids.
SceneOk(sc, C, P) ==
  /\ sc \in [cars : Seq(C), parts : Seq(P)]
  /\ Distinct(sc.cars) /\ Distinct(sc.parts)

\* The ids of the scene.
IdsIn(sc) == IdsOf(sc.cars) \cup IdsOf(sc.parts)

\* A snapshot: an object, its index, and the parts of it if it is a car.
SnapOk(s, C, P) ==
  /\ s.item \in C \cup P /\ s.at \in Nat \ {0}
  /\ s.parts \in Seq(P) /\ Distinct(s.parts)
  /\ \A x \in ToSet(s.parts) : x.owner = s.item.id

\* An entry of objects that were added.
AddEntry(e, C, P) ==
  /\ e.undo.kind = "remove" /\ e.redo.kind = "restore"
  /\ e.undo.coll = e.redo.coll /\ e.undo.ids = IdsOf(e.redo.items)
  /\ \/ e.redo.coll = "cars" /\ e.redo.items \in Seq(C)
     \/ e.redo.coll = "parts" /\ e.redo.items \in Seq(P)
  /\ Distinct(e.redo.items)
  /\ e.snap = 0

\* An entry of an object that was edited or moved.
PatchEntry(e, C, P) ==
  /\ e.undo.kind = "patch" /\ e.redo.kind = "patch"
  /\ e.undo.item \in C \cup P /\ e.redo.item \in C \cup P
  /\ e.undo.item.id = e.redo.item.id
  /\ e.snap = 0

\* An entry of a deletion by key.
DeleteEntry(e, del, C, P) ==
  /\ e.undo.kind = "unsnap" /\ e.redo.kind = "delete"
  /\ e.undo.snap = e.snap /\ e.snap # 0 /\ e.snap \in DOMAIN del
  /\ SnapOk(del[e.snap], C, P)
  /\ e.redo.id = del[e.snap].item.id

\* The ids of a batch of removed objects.
RemovedIds(removed) == {removed[i].item.id : i \in DOMAIN removed}
\* A batch of removed objects with distinct ids.
RemovedOk(removed, S) ==
  /\ removed \in Seq(RemovedFrom(S))
  /\ \A i, j \in DOMAIN removed : removed[i].item.id = removed[j].item.id => i = j

\* An entry of a deletion of selected objects.
CutEntry(e, C, P) ==
  /\ e.undo.kind = "splice" /\ e.redo.kind = "cut"
  /\ RemovedOk(e.undo.removed["cars"], C) /\ RemovedOk(e.undo.removed["parts"], P)
  /\ e.redo.ids = RemovedIds(e.undo.removed["cars"]) \cup RemovedIds(e.undo.removed["parts"])
  /\ e.snap = 0

\* An entry of an edit of selected objects.
ValsEntry(e) ==
  /\ e.undo.kind = "vals" /\ e.redo.kind = "vals"
  /\ \A i \in DOMAIN e.undo.vals : e.undo.vals[i] \in Vals
  /\ \A i \in DOMAIN e.redo.vals : e.redo.vals[i] \in Vals
  /\ e.snap = 0

\* The entries the editor makes.
EntryOk(e, del, C, P) ==
  \/ AddEntry(e, C, P)
  \/ PatchEntry(e, C, P)
  \/ DeleteEntry(e, del, C, P)
  \/ CutEntry(e, C, P)
  \/ ValsEntry(e)

\* The ids an entry brings into the scene and those it takes out.
AddIds(e) == IF e.undo.kind = "remove" THEN e.undo.ids ELSE {}
\* The ids an entry takes out.
DelIds(e, del) ==
  IF e.undo.kind = "unsnap" THEN {del[e.snap].item.id} \cup IdsOf(del[e.snap].parts)
  ELSE IF e.undo.kind = "splice" THEN e.redo.ids ELSE {}

\* What the lemmas need of the two sets of objects.
Kinds(C, P, own) ==
  /\ C \subseteq [id : Cars, owner : {NoOne}, val : Vals]
  /\ P \subseteq {x \in [id : Parts, owner : Cars, val : Vals] : x.owner = own[x.id]}
  /\ \A x \in C, v \in Vals : [x EXCEPT !.val = v] \in C
  /\ \A x \in P, v \in Vals : [x EXCEPT !.val = v] \in P

\* Cars and parts are told apart by their ids and owners.
LEMMA ItemKinds ==
  ASSUME NEW U, NEW own
  PROVE Kinds(CarItems(U), PartItems(U, own), own)
BY DEF Kinds, CarItems, PartItems

\* Which collection an object belongs to.
LEMMA KindFacts ==
  ASSUME NEW C, NEW P, NEW own, Kinds(C, P, own)
  PROVE /\ \A x \in C : x.id \in Cars /\ x.owner = NoOne /\ CollOf(x) = "cars" /\ x.id \notin Parts
        /\ \A x \in P : x.id \in Parts /\ x.owner \in Cars /\ x.owner = own[x.id] /\ CollOf(x) = "parts"
                        /\ x.id \notin Cars /\ x.owner # NoOne
        /\ \A x \in C, y \in P : x.id # y.id
        /\ ValClosed(C) /\ ValClosed(P)
BY IdAssumption DEF Kinds, CollOf, ValClosed

\* What a possible scene is made of.
LEMMA SceneFacts ==
  ASSUME NEW C, NEW P, NEW sc, SceneOk(sc, C, P)
  PROVE /\ sc.cars \in Seq(C) /\ sc.parts \in Seq(P) /\ Distinct(sc.cars) /\ Distinct(sc.parts)
        /\ sc["cars"] = sc.cars /\ sc["parts"] = sc.parts
        /\ ToSet(sc.cars) \subseteq C /\ ToSet(sc.parts) \subseteq P
        /\ IdsIn(sc) = {x.id : x \in ToSet(sc.cars) \cup ToSet(sc.parts)}
<1>1. sc.cars \in Seq(C) /\ sc.parts \in Seq(P)
  BY DEF SceneOk
<1>2. ToSet(sc.cars) \subseteq C /\ ToSet(sc.parts) \subseteq P
  BY <1>1 DEF ToSet
<1>3. IdsIn(sc) = {x.id : x \in ToSet(sc.cars) \cup ToSet(sc.parts)}
  BY IdsOfSet DEF IdsIn
<1> QED
  BY <1>1, <1>2, <1>3 DEF SceneOk

\* A scene put together from two collections.
LEMMA TwoColls ==
  ASSUME NEW C, NEW P, NEW a \in Seq(C), NEW b \in Seq(P), Distinct(a), Distinct(b)
  PROVE SceneOk([cars |-> a, parts |-> b], C, P)
BY DEF SceneOk

\* A scene with one collection replaced.
Put(sc, c, a) == [sc EXCEPT ![c] = a]

\* Replacing the cars.
LEMMA SetCars ==
  ASSUME NEW C, NEW P, NEW sc, SceneOk(sc, C, P), NEW a \in Seq(C), Distinct(a)
  PROVE /\ SceneOk(Put(sc, "cars", a), C, P)
        /\ Put(sc, "cars", a).cars = a
        /\ Put(sc, "cars", a).parts = sc.parts
<1> DEFINE t == [sc EXCEPT !["cars"] = a]
<1>1. sc \in [cars : Seq(C), parts : Seq(P)] /\ Distinct(sc.cars) /\ Distinct(sc.parts)
  BY DEF SceneOk
<1>2. t \in [cars : Seq(C), parts : Seq(P)] /\ t.cars = a /\ t.parts = sc.parts
  BY <1>1
<1> HIDE DEF t
<1>3. SceneOk(t, C, P) /\ t.cars = a /\ t.parts = sc.parts
  BY <1>1, <1>2 DEF SceneOk
<1> QED
  BY <1>3 DEF t, Put

\* Replacing the parts.
LEMMA SetParts ==
  ASSUME NEW C, NEW P, NEW sc, SceneOk(sc, C, P), NEW a \in Seq(P), Distinct(a)
  PROVE /\ SceneOk(Put(sc, "parts", a), C, P)
        /\ Put(sc, "parts", a).parts = a
        /\ Put(sc, "parts", a).cars = sc.cars
<1> DEFINE t == [sc EXCEPT !["parts"] = a]
<1>1. sc \in [cars : Seq(C), parts : Seq(P)] /\ Distinct(sc.cars) /\ Distinct(sc.parts)
  BY DEF SceneOk
<1>2. t \in [cars : Seq(C), parts : Seq(P)] /\ t.parts = a /\ t.cars = sc.cars
  BY <1>1
<1> HIDE DEF t
<1>3. SceneOk(t, C, P) /\ t.parts = a /\ t.cars = sc.cars
  BY <1>1, <1>2 DEF SceneOk
<1> QED
  BY <1>3 DEF t, Put

-----------------------------------------------------------------------------
(* What each operation of the history does to the objects of a scene.      *)

\* The objects of scene t: those of s that stay, changed, and those of N.
CarsOf(sc) == ToSet(sc.cars)
\* The set of the parts.
PartsOf(sc) == ToSet(sc.parts)

\* The results of the updates that entries make, one operator each.
Taken(sc, coll, ids) == [sc EXCEPT ![coll] = Without(@, ids)]
\* Objects put back unless they are there.
Given(sc, coll, items) == [sc EXCEPT ![coll] = AppendMissing(@, items)]
\* Selected objects removed.
Cut(sc, ids) == [c \in Colls |-> Without(sc[c], ids)]
\* Selected objects put back at their places.
Respliced(sc, removed) == [c \in Colls |-> SpliceMissing(sc[c], removed[c])]
\* Contents of several objects changed.
Revalued(sc, vals) == [c \in Colls |-> PatchVals(sc[c], vals)]

\* Removing selected objects.
LEMMA CutScene ==
  ASSUME NEW C, NEW P, NEW sc, SceneOk(sc, C, P), NEW ids
  PROVE /\ SceneOk(Cut(sc, ids), C, P)
        /\ CarsOf(Cut(sc, ids)) = {x \in CarsOf(sc) : x.id \notin ids}
        /\ PartsOf(Cut(sc, ids)) = {x \in PartsOf(sc) : x.id \notin ids}
<1> DEFINE t == Cut(sc, ids)
           a == Without(sc.cars, ids)
           b == Without(sc.parts, ids)
<1>1. sc.cars \in Seq(C) /\ sc.parts \in Seq(P) /\ Distinct(sc.cars) /\ Distinct(sc.parts)
      /\ sc["cars"] = sc.cars /\ sc["parts"] = sc.parts
  BY SceneFacts
<1>2. a \in Seq(C) /\ Distinct(a) /\ ToSet(a) = {x \in CarsOf(sc) : x.id \notin ids}
  BY <1>1, WithoutSet DEF CarsOf
<1>3. b \in Seq(P) /\ Distinct(b) /\ ToSet(b) = {x \in PartsOf(sc) : x.id \notin ids}
  BY <1>1, WithoutSet DEF PartsOf
<1>4. t = [cars |-> a, parts |-> b]
  BY <1>1 DEF Colls, Cut
<1> HIDE DEF a, b, t
<1>5. SceneOk(t, C, P) /\ t.cars = a /\ t.parts = b
  BY <1>2, <1>3, <1>4, TwoColls
<1> QED
  BY <1>2, <1>3, <1>5 DEF CarsOf, PartsOf, t

\* Removing an object with its parts.
LEMMA RemoveScene ==
  ASSUME NEW C, NEW P, NEW sc, SceneOk(sc, C, P), NEW ids
  PROVE /\ SceneOk(RemoveItems(sc, ids), C, P)
        /\ CarsOf(RemoveItems(sc, ids)) = {x \in CarsOf(sc) : x.id \notin ids}
        /\ PartsOf(RemoveItems(sc, ids)) = {x \in PartsOf(sc) : x.id \notin ids /\ x.owner \notin ids}
<1> DEFINE t == RemoveItems(sc, ids)
           a == Without(sc.cars, ids)
           b == Without(sc.parts, ids)
           d == NotOwnedBy(b, ids)
<1>1. sc.cars \in Seq(C) /\ sc.parts \in Seq(P) /\ Distinct(sc.cars) /\ Distinct(sc.parts)
  BY SceneFacts
<1>2. a \in Seq(C) /\ Distinct(a) /\ ToSet(a) = {x \in CarsOf(sc) : x.id \notin ids}
  BY <1>1, WithoutSet DEF CarsOf
<1>3. b \in Seq(P) /\ Distinct(b) /\ ToSet(b) = {x \in PartsOf(sc) : x.id \notin ids}
  BY <1>1, WithoutSet DEF PartsOf
<1>4. t = [cars |-> a, parts |-> d]
  BY DEF RemoveItems
<1> HIDE DEF a, b, t
<1>5. d \in Seq(P) /\ Distinct(d) /\ ToSet(d) = {x \in ToSet(b) : x.owner \notin ids}
  BY <1>3, NotOwnedBySet
<1> HIDE DEF d
<1>6. SceneOk(t, C, P) /\ t.cars = a /\ t.parts = d
  BY <1>2, <1>4, <1>5, TwoColls
<1> QED
  BY <1>2, <1>3, <1>5, <1>6 DEF CarsOf, PartsOf, t

\* Patching an object.
LEMMA PatchScenes ==
  ASSUME NEW C, NEW P, NEW own, Kinds(C, P, own), NEW sc, SceneOk(sc, C, P), NEW item \in C \cup P
  PROVE /\ SceneOk(PatchScene(sc, item), C, P)
        /\ CarsOf(PatchScene(sc, item)) = Replaced(CarsOf(sc), item)
        /\ PartsOf(PatchScene(sc, item)) = Replaced(PartsOf(sc), item)
        /\ IdsIn(PatchScene(sc, item)) = IdsIn(sc)
<1>1. sc.cars \in Seq(C) /\ sc.parts \in Seq(P) /\ Distinct(sc.cars) /\ Distinct(sc.parts)
      /\ sc["cars"] = sc.cars /\ sc["parts"] = sc.parts
      /\ CarsOf(sc) \subseteq C /\ PartsOf(sc) \subseteq P
  BY SceneFacts DEF CarsOf, PartsOf
<1>2. CASE item \in C
  <2> DEFINE a == Patched(sc.cars, item)
             t == PatchScene(sc, item)
  <2>1. a \in Seq(C) /\ Distinct(a) /\ ToSet(a) = Replaced(CarsOf(sc), item) /\ IdsOf(a) = IdsOf(sc.cars)
    <3>1. /\ a \in Seq(C) /\ (Distinct(sc.cars) => Distinct(a)) /\ IdsOf(a) = IdsOf(sc.cars)
          /\ ToSet(a) = Replaced(ToSet(sc.cars), item)
      BY <1>1, <1>2, PatchedSet
    <3> HIDE DEF a
    <3> QED BY <1>1, <3>1 DEF CarsOf
  <2>2. CollOf(item) = "cars" /\ \A x \in PartsOf(sc) : x.id # item.id
    BY <1>1, <1>2, KindFacts
  <2>3. t = Put(sc, "cars", a)
    BY <1>1, <2>2 DEF PatchScene, Put
  <2> HIDE DEF a, t
  <2>4. SceneOk(t, C, P) /\ t.cars = a /\ t.parts = sc.parts
    BY <2>1, <2>3, SetCars
  <2>5. PartsOf(sc) = Replaced(PartsOf(sc), item)
    BY <2>2 DEF Replaced
  <2> QED BY <2>1, <2>4, <2>5 DEF CarsOf, PartsOf, t, IdsIn
<1>3. CASE item \in P
  <2> DEFINE a == Patched(sc.parts, item)
             t == PatchScene(sc, item)
  <2>1. a \in Seq(P) /\ Distinct(a) /\ ToSet(a) = Replaced(PartsOf(sc), item) /\ IdsOf(a) = IdsOf(sc.parts)
    <3>1. /\ a \in Seq(P) /\ (Distinct(sc.parts) => Distinct(a)) /\ IdsOf(a) = IdsOf(sc.parts)
          /\ ToSet(a) = Replaced(ToSet(sc.parts), item)
      BY <1>1, <1>3, PatchedSet
    <3> HIDE DEF a
    <3> QED BY <1>1, <3>1 DEF PartsOf
  <2>2. CollOf(item) = "parts" /\ \A x \in CarsOf(sc) : x.id # item.id
    BY <1>1, <1>3, KindFacts
  <2>3. t = Put(sc, "parts", a)
    BY <1>1, <2>2 DEF PatchScene, Put
  <2> HIDE DEF a, t
  <2>4. SceneOk(t, C, P) /\ t.parts = a /\ t.cars = sc.cars
    BY <2>1, <2>3, SetParts
  <2>5. CarsOf(sc) = Replaced(CarsOf(sc), item)
    BY <2>2 DEF Replaced
  <2> QED BY <2>1, <2>4, <2>5 DEF CarsOf, PartsOf, t, IdsIn
<1> QED
  BY <1>2, <1>3

\* Changing contents.
LEMMA ValsScene ==
  ASSUME NEW C, NEW P, NEW own, Kinds(C, P, own), NEW sc, SceneOk(sc, C, P),
         NEW vals, \A i \in DOMAIN vals : vals[i] \in Vals
  PROVE /\ SceneOk(Revalued(sc, vals), C, P)
        /\ CarsOf(Revalued(sc, vals)) = WithVals(CarsOf(sc), vals)
        /\ PartsOf(Revalued(sc, vals)) = WithVals(PartsOf(sc), vals)
        /\ IdsIn(Revalued(sc, vals)) = IdsIn(sc)
<1> DEFINE t == Revalued(sc, vals)
           a == PatchVals(sc.cars, vals)
           b == PatchVals(sc.parts, vals)
<1>1. sc.cars \in Seq(C) /\ sc.parts \in Seq(P) /\ Distinct(sc.cars) /\ Distinct(sc.parts)
      /\ sc["cars"] = sc.cars /\ sc["parts"] = sc.parts
  BY SceneFacts
<1>2. ValClosed(C) /\ ValClosed(P)
  BY KindFacts
<1>3. a \in Seq(C) /\ Distinct(a) /\ ToSet(a) = WithVals(CarsOf(sc), vals) /\ IdsOf(a) = IdsOf(sc.cars)
  <2>1. /\ a \in Seq(C) /\ (Distinct(sc.cars) => Distinct(a)) /\ IdsOf(a) = IdsOf(sc.cars)
        /\ ToSet(a) = WithVals(ToSet(sc.cars), vals)
    BY <1>1, <1>2, PatchValsSet
  <2> HIDE DEF a
  <2> QED BY <1>1, <2>1 DEF CarsOf
<1>4. b \in Seq(P) /\ Distinct(b) /\ ToSet(b) = WithVals(PartsOf(sc), vals) /\ IdsOf(b) = IdsOf(sc.parts)
  <2>1. /\ b \in Seq(P) /\ (Distinct(sc.parts) => Distinct(b)) /\ IdsOf(b) = IdsOf(sc.parts)
        /\ ToSet(b) = WithVals(ToSet(sc.parts), vals)
    BY <1>1, <1>2, PatchValsSet
  <2> HIDE DEF b
  <2> QED BY <1>1, <2>1 DEF PartsOf
<1>5. t = [cars |-> a, parts |-> b]
  BY <1>1 DEF Colls, Revalued
<1> HIDE DEF a, b, t
<1>6. SceneOk(t, C, P) /\ t.cars = a /\ t.parts = b
  BY <1>3, <1>4, <1>5, TwoColls
<1> QED
  BY <1>3, <1>4, <1>6 DEF CarsOf, PartsOf, IdsIn, t

\* Removing from one collection.
LEMMA TakeScene ==
  ASSUME NEW C, NEW P, NEW own, Kinds(C, P, own), NEW sc, SceneOk(sc, C, P), NEW coll, NEW items,
         \/ coll = "cars" /\ items \in Seq(C)
         \/ coll = "parts" /\ items \in Seq(P)
  PROVE /\ SceneOk(Taken(sc, coll, IdsOf(items)), C, P)
        /\ CarsOf(Taken(sc, coll, IdsOf(items))) = {x \in CarsOf(sc) : x.id \notin IdsOf(items)}
        /\ PartsOf(Taken(sc, coll, IdsOf(items))) = {x \in PartsOf(sc) : x.id \notin IdsOf(items)}
<1> DEFINE ids == IdsOf(items)
           t == Taken(sc, coll, IdsOf(items))
<1>1. sc.cars \in Seq(C) /\ sc.parts \in Seq(P) /\ Distinct(sc.cars) /\ Distinct(sc.parts)
      /\ sc["cars"] = sc.cars /\ sc["parts"] = sc.parts
      /\ CarsOf(sc) \subseteq C /\ PartsOf(sc) \subseteq P
  BY SceneFacts DEF CarsOf, PartsOf
<1>2. CASE coll = "cars" /\ items \in Seq(C)
  <2> DEFINE a == Without(sc.cars, ids)
  <2>1. a \in Seq(C) /\ Distinct(a) /\ ToSet(a) = {x \in CarsOf(sc) : x.id \notin ids}
    BY <1>1, WithoutSet DEF CarsOf
  <2>2. \A i \in ids : \E x \in C : x.id = i
    BY <1>2 DEF IdsOf
  <2>3. \A x \in PartsOf(sc) : x.id \notin ids
    BY <1>1, <2>2, KindFacts
  <2>4. t = Put(sc, "cars", a)
    BY <1>1, <1>2 DEF Put, Taken, Given
  <2> HIDE DEF a, ids, t
  <2>5. SceneOk(t, C, P) /\ t.cars = a /\ t.parts = sc.parts
    BY <2>1, <2>4, SetCars
  <2>6. SceneOk(t, C, P) /\ CarsOf(t) = {x \in CarsOf(sc) : x.id \notin ids}
        /\ PartsOf(t) = {x \in PartsOf(sc) : x.id \notin ids}
    BY <2>1, <2>3, <2>5 DEF CarsOf, PartsOf
  <2> QED BY <2>6 DEF t, ids
<1>3. CASE coll = "parts" /\ items \in Seq(P)
  <2> DEFINE a == Without(sc.parts, ids)
  <2>1. a \in Seq(P) /\ Distinct(a) /\ ToSet(a) = {x \in PartsOf(sc) : x.id \notin ids}
    BY <1>1, WithoutSet DEF PartsOf
  <2>2. \A i \in ids : \E x \in P : x.id = i
    BY <1>3 DEF IdsOf
  <2>3. \A x \in CarsOf(sc) : x.id \notin ids
    BY <1>1, <2>2, KindFacts
  <2>4. t = Put(sc, "parts", a)
    BY <1>1, <1>3 DEF Put, Taken, Given
  <2> HIDE DEF a, ids, t
  <2>5. SceneOk(t, C, P) /\ t.parts = a /\ t.cars = sc.cars
    BY <2>1, <2>4, SetParts
  <2>6. SceneOk(t, C, P) /\ CarsOf(t) = {x \in CarsOf(sc) : x.id \notin ids}
        /\ PartsOf(t) = {x \in PartsOf(sc) : x.id \notin ids}
    BY <2>1, <2>3, <2>5 DEF CarsOf, PartsOf
  <2> QED BY <2>6 DEF t, ids
<1> QED
  BY <1>2, <1>3

\* Putting back into one collection.
LEMMA GiveScene ==
  ASSUME NEW C, NEW P, NEW sc, SceneOk(sc, C, P), NEW coll, NEW items, Distinct(items),
         \/ coll = "cars" /\ items \in Seq(C)
         \/ coll = "parts" /\ items \in Seq(P)
  PROVE /\ SceneOk(Given(sc, coll, items), C, P)
        /\ CarsOf(Given(sc, coll, items)) = IF coll = "cars"
             THEN CarsOf(sc) \cup {x \in ToSet(items) : x.id \notin IdsOf(sc.cars)} ELSE CarsOf(sc)
        /\ PartsOf(Given(sc, coll, items)) = IF coll = "cars" THEN PartsOf(sc)
             ELSE PartsOf(sc) \cup {x \in ToSet(items) : x.id \notin IdsOf(sc.parts)}
        /\ IdsIn(Given(sc, coll, items)) = IdsIn(sc) \cup IdsOf(items)
<1> DEFINE t == Given(sc, coll, items)
<1>1. sc.cars \in Seq(C) /\ sc.parts \in Seq(P) /\ Distinct(sc.cars) /\ Distinct(sc.parts)
      /\ sc["cars"] = sc.cars /\ sc["parts"] = sc.parts
  BY SceneFacts
<1>0. /\ IdsOf(items) = {x.id : x \in ToSet(items)}
      /\ IdsIn(sc) = IdsOf(sc.cars) \cup IdsOf(sc.parts)
      /\ \A s : IdsOf(s) = {x.id : x \in ToSet(s)}
  BY IdsOfSet DEF IdsIn
<1>2. CASE coll = "cars" /\ items \in Seq(C)
  <2> DEFINE a == AppendMissing(sc.cars, items)
  <2>1. a \in Seq(C) /\ Distinct(a)
        /\ ToSet(a) = CarsOf(sc) \cup {x \in ToSet(items) : x.id \notin IdsOf(sc.cars)}
    BY <1>1, <1>2, AppendMissingSet DEF CarsOf
  <2>4. t = Put(sc, "cars", a)
    BY <1>1, <1>2 DEF Put, Taken, Given
  <2> HIDE DEF a, t
  <2>5. SceneOk(t, C, P) /\ t.cars = a /\ t.parts = sc.parts
    BY <2>1, <2>4, SetCars
  <2>6. IdsOf(a) = IdsOf(sc.cars) \cup IdsOf(items)
    BY <1>0, <2>1 DEF CarsOf
  <2>7. IdsIn(t) = IdsIn(sc) \cup IdsOf(items)
    BY <2>5, <2>6 DEF IdsIn
  <2>8. CarsOf(t) = CarsOf(sc) \cup {x \in ToSet(items) : x.id \notin IdsOf(sc.cars)}
        /\ PartsOf(t) = PartsOf(sc)
    BY <2>1, <2>5 DEF CarsOf, PartsOf
  <2>9. SceneOk(t, C, P)
    BY <2>5
  <2> QED BY <1>2, <2>7, <2>8, <2>9 DEF t
<1>3. CASE coll = "parts" /\ items \in Seq(P)
  <2> DEFINE a == AppendMissing(sc.parts, items)
  <2>1. a \in Seq(P) /\ Distinct(a)
        /\ ToSet(a) = PartsOf(sc) \cup {x \in ToSet(items) : x.id \notin IdsOf(sc.parts)}
    BY <1>1, <1>3, AppendMissingSet DEF PartsOf
  <2>4. t = Put(sc, "parts", a)
    BY <1>1, <1>3 DEF Put, Taken, Given
  <2> HIDE DEF a, t
  <2>5. SceneOk(t, C, P) /\ t.parts = a /\ t.cars = sc.cars
    BY <2>1, <2>4, SetParts
  <2>6. IdsOf(a) = IdsOf(sc.parts) \cup IdsOf(items)
    BY <1>0, <2>1 DEF PartsOf
  <2>7. IdsIn(t) = IdsIn(sc) \cup IdsOf(items)
    BY <2>5, <2>6 DEF IdsIn
  <2>8. PartsOf(t) = PartsOf(sc) \cup {x \in ToSet(items) : x.id \notin IdsOf(sc.parts)}
        /\ CarsOf(t) = CarsOf(sc)
    BY <2>1, <2>5 DEF CarsOf, PartsOf
  <2>9. SceneOk(t, C, P)
    BY <2>5
  <2> QED BY <1>3, <2>7, <2>8, <2>9 DEF t
<1> QED
  BY <1>2, <1>3

\* The objects of a batch.
ItemsOf(removed) == {removed[i].item : i \in DOMAIN removed}

\* Putting a batch back.
LEMMA SpliceScene ==
  ASSUME NEW C, NEW P, NEW sc, SceneOk(sc, C, P), NEW removed,
         RemovedOk(removed["cars"], C), RemovedOk(removed["parts"], P)
  PROVE /\ SceneOk(Respliced(sc, removed), C, P)
        /\ CarsOf(Respliced(sc, removed)) = CarsOf(sc) \cup {x \in ItemsOf(removed["cars"]) : x.id \notin IdsOf(sc.cars)}
        /\ PartsOf(Respliced(sc, removed)) = PartsOf(sc) \cup {x \in ItemsOf(removed["parts"]) : x.id \notin IdsOf(sc.parts)}
        /\ IdsIn(Respliced(sc, removed)) = IdsIn(sc) \cup RemovedIds(removed["cars"]) \cup RemovedIds(removed["parts"])
<1> DEFINE t == Respliced(sc, removed)
           rc == removed["cars"]
           rp == removed["parts"]
           a == SpliceMissing(sc.cars, rc)
           b == SpliceMissing(sc.parts, rp)
<1>1. sc.cars \in Seq(C) /\ sc.parts \in Seq(P) /\ Distinct(sc.cars) /\ Distinct(sc.parts)
      /\ sc["cars"] = sc.cars /\ sc["parts"] = sc.parts
  BY SceneFacts
<1>2. a \in Seq(C) /\ Distinct(a)
      /\ ToSet(a) = CarsOf(sc) \cup {x \in ItemsOf(rc) : x.id \notin IdsOf(sc.cars)}
  <2>1. rc \in Seq(RemovedFrom(C))
        /\ \A i, j \in DOMAIN rc : rc[i].item.id = rc[j].item.id => i = j
    BY DEF RemovedOk
  <2> HIDE DEF rc
  <2>2. /\ a \in Seq(C)
        /\ ToSet(a) = ToSet(sc.cars) \cup {x \in {rc[i].item : i \in DOMAIN rc} : x.id \notin IdsOf(sc.cars)}
        /\ Distinct(sc.cars) => Distinct(a)
    BY <1>1, <2>1, SpliceMissingSet
  <2> HIDE DEF a
  <2> QED BY <1>1, <2>2 DEF CarsOf, ItemsOf
<1>3. b \in Seq(P) /\ Distinct(b)
      /\ ToSet(b) = PartsOf(sc) \cup {x \in ItemsOf(rp) : x.id \notin IdsOf(sc.parts)}
  <2>1. rp \in Seq(RemovedFrom(P))
        /\ \A i, j \in DOMAIN rp : rp[i].item.id = rp[j].item.id => i = j
    BY DEF RemovedOk
  <2> HIDE DEF rp
  <2>2. /\ b \in Seq(P)
        /\ ToSet(b) = ToSet(sc.parts) \cup {x \in {rp[i].item : i \in DOMAIN rp} : x.id \notin IdsOf(sc.parts)}
        /\ Distinct(sc.parts) => Distinct(b)
    BY <1>1, <2>1, SpliceMissingSet
  <2> HIDE DEF b
  <2> QED BY <1>1, <2>2 DEF PartsOf, ItemsOf
<1>4. t = [cars |-> a, parts |-> b]
  BY <1>1 DEF Colls, Respliced
<1>5. RemovedIds(rc) = {x.id : x \in ItemsOf(rc)} /\ RemovedIds(rp) = {x.id : x \in ItemsOf(rp)}
  BY DEF RemovedIds, ItemsOf
<1>6. \A s : IdsOf(s) = {x.id : x \in ToSet(s)}
  BY IdsOfSet
<1> HIDE DEF a, b, t, rc, rp
<1>7. SceneOk(t, C, P) /\ t.cars = a /\ t.parts = b
  BY <1>2, <1>3, <1>4, TwoColls
<1>8. IdsOf(a) = IdsOf(sc.cars) \cup RemovedIds(rc)
  BY <1>2, <1>5, <1>6 DEF CarsOf
<1>9. IdsOf(b) = IdsOf(sc.parts) \cup RemovedIds(rp)
  BY <1>3, <1>5, <1>6 DEF PartsOf
<1>10. IdsIn(t) = IdsIn(sc) \cup RemovedIds(rc) \cup RemovedIds(rp)
  BY <1>7, <1>8, <1>9 DEF IdsIn
<1> QED
  BY <1>2, <1>3, <1>7, <1>10 DEF CarsOf, PartsOf, t, rc, rp

\* The ids a snapshot brings back.
SnapIds(s) == {s.item.id} \cup IdsOf(s.parts)

\* Restoring a snapshot none of whose objects is there.
LEMMA UnsnapScene ==
  ASSUME NEW C, NEW P, NEW own, Kinds(C, P, own), NEW sc, SceneOk(sc, C, P),
         NEW s, SnapOk(s, C, P), SnapIds(s) \cap IdsIn(sc) = {}
  PROVE /\ SceneOk(RestoreSnapshot(sc, s), C, P)
        /\ CarsOf(RestoreSnapshot(sc, s)) = CarsOf(sc) \cup ({s.item} \cap C)
        /\ PartsOf(RestoreSnapshot(sc, s)) = PartsOf(sc) \cup ({s.item} \cap P) \cup ToSet(s.parts)
        /\ IdsIn(RestoreSnapshot(sc, s)) = IdsIn(sc) \cup SnapIds(s)
<1> DEFINE t == RestoreSnapshot(sc, s)
<1>1. sc.cars \in Seq(C) /\ sc.parts \in Seq(P) /\ Distinct(sc.cars) /\ Distinct(sc.parts)
      /\ sc["cars"] = sc.cars /\ sc["parts"] = sc.parts
      /\ CarsOf(sc) \subseteq C /\ PartsOf(sc) \subseteq P
  BY SceneFacts DEF CarsOf, PartsOf
<1>2. s.item \in C \cup P /\ s.at \in Nat \ {0} /\ s.parts \in Seq(P) /\ Distinct(s.parts)
      /\ \A x \in ToSet(s.parts) : x.owner = s.item.id
  BY DEF SnapOk
<1>3. \A q : IdsOf(q) = {x.id : x \in ToSet(q)}
  BY IdsOfSet
<1>4. /\ \A x \in CarsOf(sc) \cup PartsOf(sc) : x.id \in IdsIn(sc)
      /\ \A x \in ToSet(s.parts) : x.id \in SnapIds(s)
      /\ s.item.id \in SnapIds(s)
  BY <1>3 DEF IdsIn, CarsOf, PartsOf, SnapIds
<1>5. ToSet(s.parts) \subseteq P
  BY <1>2 DEF ToSet
<1>6. CASE s.item \in C
  <2> DEFINE a == SpliceIn(sc.cars, s.at, s.item)
             b == sc.parts \o s.parts
  <2>1. a \in Seq(C) /\ ToSet(a) = CarsOf(sc) \cup {s.item} /\ Distinct(a)
    <3>1. \A x \in ToSet(sc.cars) : x.id # s.item.id
      BY <1>4 DEF CarsOf
    <3>2. /\ a \in Seq(C) /\ ToSet(a) = ToSet(sc.cars) \cup {s.item}
          /\ (Distinct(sc.cars) /\ \A x \in ToSet(sc.cars) : x.id # s.item.id) => Distinct(a)
      <4> DEFINE u == sc.cars
                 e == s.item
                 at == s.at
      <4>1. u \in Seq(C) /\ e \in C /\ at \in Nat \ {0}
        BY <1>1, <1>2, <1>6
      <4> HIDE DEF u, e, at
      <4>2. /\ SpliceIn(u, at, e) \in Seq(C) /\ ToSet(SpliceIn(u, at, e)) = ToSet(u) \cup {e}
            /\ (Distinct(u) /\ \A x \in ToSet(u) : x.id # e.id) => Distinct(SpliceIn(u, at, e))
        BY <4>1, SpliceInSet
      <4> QED BY <4>2 DEF u, e, at
    <3> HIDE DEF a
    <3> QED BY <1>1, <3>1, <3>2 DEF CarsOf
  <2>2. b \in Seq(P) /\ ToSet(b) = PartsOf(sc) \cup ToSet(s.parts) /\ Distinct(b)
    <3>1. \A x \in ToSet(sc.parts), y \in ToSet(s.parts) : x.id # y.id
      BY <1>4 DEF PartsOf
    <3> QED BY <1>1, <1>2, <3>1, ConcatSet DEF PartsOf
  <2>3. CollOf(s.item) = "cars" /\ s.item \notin P
    BY <1>6, KindFacts
  <2>4. t = [cars |-> a, parts |-> b]
    BY <2>3 DEF RestoreSnapshot
  <2> HIDE DEF a, b, t
  <2>5. SceneOk(t, C, P) /\ t.cars = a /\ t.parts = b
    BY <2>1, <2>2, <2>4, TwoColls
  <2>6. IdsOf(a) = IdsOf(sc.cars) \cup {s.item.id} /\ IdsOf(b) = IdsOf(sc.parts) \cup IdsOf(s.parts)
    BY <1>3, <2>1, <2>2 DEF CarsOf, PartsOf
  <2>7. IdsIn(t) = IdsIn(sc) \cup SnapIds(s)
    BY <2>5, <2>6 DEF IdsIn, SnapIds
  <2>8. {s.item} \cap C = {s.item} /\ {s.item} \cap P = {}
    BY <1>6, <2>3
  <2> QED BY <2>1, <2>2, <2>5, <2>7, <2>8 DEF CarsOf, PartsOf, t
<1>7. CASE s.item \in P
  <2> DEFINE b == SpliceIn(sc.parts, s.at, s.item)
  <2>1. b \in Seq(P) /\ ToSet(b) = PartsOf(sc) \cup {s.item} /\ Distinct(b)
    <3>1. \A x \in ToSet(sc.parts) : x.id # s.item.id
      BY <1>4 DEF PartsOf
    <3>2. /\ b \in Seq(P) /\ ToSet(b) = ToSet(sc.parts) \cup {s.item}
          /\ (Distinct(sc.parts) /\ \A x \in ToSet(sc.parts) : x.id # s.item.id) => Distinct(b)
      <4> DEFINE u == sc.parts
                 e == s.item
                 at == s.at
      <4>1. u \in Seq(P) /\ e \in P /\ at \in Nat \ {0}
        BY <1>1, <1>2, <1>7
      <4> HIDE DEF u, e, at
      <4>2. /\ SpliceIn(u, at, e) \in Seq(P) /\ ToSet(SpliceIn(u, at, e)) = ToSet(u) \cup {e}
            /\ (Distinct(u) /\ \A x \in ToSet(u) : x.id # e.id) => Distinct(SpliceIn(u, at, e))
        BY <4>1, SpliceInSet
      <4> QED BY <4>2 DEF u, e, at
    <3> HIDE DEF b
    <3> QED BY <1>1, <3>1, <3>2 DEF PartsOf
  <2>2. ToSet(s.parts) = {}
    <3>1. \A x \in P : x.owner # s.item.id
      BY <1>7, KindFacts
    <3> QED BY <1>2, <1>5, <3>1
  <2>3. CollOf(s.item) # "cars" /\ s.item \notin C
    BY <1>7, KindFacts
  <2>4. t = Put(sc, "parts", b)
    BY <1>1, <2>3 DEF RestoreSnapshot, Put
  <2> HIDE DEF b, t
  <2>5. SceneOk(t, C, P) /\ t.parts = b /\ t.cars = sc.cars
    BY <2>1, <2>4, SetParts
  <2>6. IdsOf(b) = IdsOf(sc.parts) \cup {s.item.id} /\ IdsOf(s.parts) = {}
    BY <1>3, <2>1, <2>2 DEF PartsOf
  <2>7. IdsIn(t) = IdsIn(sc) \cup SnapIds(s)
    BY <2>5, <2>6 DEF IdsIn, SnapIds
  <2>8. {s.item} \cap P = {s.item} /\ {s.item} \cap C = {}
    BY <1>7, <2>3
  <2> QED BY <2>1, <2>2, <2>5, <2>7, <2>8 DEF CarsOf, PartsOf, t
<1> QED
  BY <1>2, <1>6, <1>7

\* The operation of each kind.
LEMMA ApplyIs ==
  ASSUME NEW op, NEW sc, NEW del
  PROVE /\ op.kind = "remove" => Apply(op, sc, del) = Taken(sc, op.coll, op.ids)
        /\ op.kind = "restore" => Apply(op, sc, del) = Given(sc, op.coll, op.items)
        /\ op.kind = "patch" => Apply(op, sc, del) = PatchScene(sc, op.item)
        /\ op.kind = "unsnap" /\ op.snap \in DOMAIN del
             => Apply(op, sc, del) = RestoreSnapshot(sc, del[op.snap])
        /\ op.kind = "delete" => Apply(op, sc, del) = RemoveItems(sc, {op.id})
        /\ op.kind = "cut" => Apply(op, sc, del) = Cut(sc, op.ids)
        /\ op.kind = "splice" => Apply(op, sc, del) = Respliced(sc, op.removed)
        /\ op.kind = "vals" => Apply(op, sc, del) = Revalued(sc, op.vals)
BY DEF Apply, Taken, Given, Cut, Respliced, Revalued

\* An id of the scene is the id of an object.
LEMMA IdsInOf ==
  ASSUME NEW sc
  PROVE IdsIn(sc) = {x.id : x \in CarsOf(sc) \cup PartsOf(sc)}
BY IdsOfSet DEF IdsIn, CarsOf, PartsOf

\* Undoing an entry takes out what it brought in and brings back what it took.
LEMMA UndoKeeps ==
  ASSUME NEW C, NEW P, NEW own, Kinds(C, P, own), NEW sc, SceneOk(sc, C, P),
         NEW e, NEW del, EntryOk(e, del, C, P), DelIds(e, del) \cap IdsIn(sc) = {}
  PROVE /\ SceneOk(Apply(e.undo, sc, del), C, P)
        /\ IdsIn(Apply(e.undo, sc, del)) = (IdsIn(sc) \ AddIds(e)) \cup DelIds(e, del)
<1> DEFINE t == Apply(e.undo, sc, del)
<1>1. CASE AddEntry(e, C, P)
  <2>1. /\ e.undo.kind = "remove" /\ e.undo.coll = e.redo.coll /\ e.undo.ids = IdsOf(e.redo.items)
        /\ \/ e.redo.coll = "cars" /\ e.redo.items \in Seq(C)
           \/ e.redo.coll = "parts" /\ e.redo.items \in Seq(P)
    BY <1>1 DEF AddEntry
  <2>2. AddIds(e) = IdsOf(e.redo.items) /\ DelIds(e, del) = {}
    BY <2>1 DEF AddIds, DelIds
  <2>3. t = Taken(sc, e.redo.coll, IdsOf(e.redo.items))
    BY <2>1, ApplyIs
  <2> HIDE DEF t
  <2> DEFINE coll == e.redo.coll
             items == e.redo.items
  <2>1a. \/ coll = "cars" /\ items \in Seq(C)
         \/ coll = "parts" /\ items \in Seq(P)
    BY <2>1
  <2>3a. t = Taken(sc, coll, IdsOf(items))
    BY <2>3
  <2> HIDE DEF coll, items
  <2>4. /\ SceneOk(t, C, P)
        /\ CarsOf(t) = {x \in CarsOf(sc) : x.id \notin IdsOf(items)}
        /\ PartsOf(t) = {x \in PartsOf(sc) : x.id \notin IdsOf(items)}
    BY <2>1a, <2>3a, TakeScene
  <2>5. IdsIn(t) = IdsIn(sc) \ IdsOf(items)
    BY <2>4, IdsInOf
  <2> QED BY <2>2, <2>4, <2>5 DEF t, items
<1>2. CASE PatchEntry(e, C, P)
  <2>1. e.undo.kind = "patch" /\ e.undo.item \in C \cup P
    BY <1>2 DEF PatchEntry
  <2>2. AddIds(e) = {} /\ DelIds(e, del) = {}
    BY <2>1 DEF AddIds, DelIds
  <2>3. t = PatchScene(sc, e.undo.item)
    BY <2>1, ApplyIs
  <2> HIDE DEF t
  <2>4. SceneOk(t, C, P) /\ IdsIn(t) = IdsIn(sc)
    BY <2>1, <2>3, PatchScenes
  <2> QED BY <2>2, <2>4 DEF t
<1>3. CASE DeleteEntry(e, del, C, P)
  <2>1. e.undo.kind = "unsnap" /\ e.undo.snap = e.snap /\ e.snap \in DOMAIN del /\ SnapOk(del[e.snap], C, P)
    BY <1>3 DEF DeleteEntry
  <2> DEFINE s == del[e.snap]
  <2>2. AddIds(e) = {} /\ DelIds(e, del) = SnapIds(s)
    BY <2>1 DEF AddIds, DelIds, SnapIds
  <2>3. t = RestoreSnapshot(sc, s)
    <3>1. t = RestoreSnapshot(sc, del[e.undo.snap])
      BY <2>1 DEF Apply
    <3> QED BY <2>1, <3>1
  <2>3a. SnapOk(s, C, P)
    BY <2>1
  <2> HIDE DEF t, s
  <2>4. SceneOk(t, C, P) /\ IdsIn(t) = IdsIn(sc) \cup SnapIds(s)
    BY <2>2, <2>3, <2>3a, UnsnapScene
  <2> QED BY <2>2, <2>4 DEF t
<1>4. CASE CutEntry(e, C, P)
  <2> DEFINE removed == e.undo.removed
  <2>1. /\ e.undo.kind = "splice"
        /\ RemovedOk(removed["cars"], C) /\ RemovedOk(removed["parts"], P)
        /\ e.redo.ids = RemovedIds(removed["cars"]) \cup RemovedIds(removed["parts"])
    BY <1>4 DEF CutEntry
  <2>2. AddIds(e) = {} /\ DelIds(e, del) = e.redo.ids
    BY <2>1 DEF AddIds, DelIds
  <2>3. t = Respliced(sc, removed)
    BY <2>1, ApplyIs
  <2> HIDE DEF t, removed
  <2>4. SceneOk(t, C, P) /\ IdsIn(t) = IdsIn(sc) \cup RemovedIds(removed["cars"]) \cup RemovedIds(removed["parts"])
    BY <2>1, <2>3, SpliceScene
  <2> QED BY <2>1, <2>2, <2>4 DEF t
<1>5. CASE ValsEntry(e)
  <2> DEFINE vals == e.undo.vals
  <2>1. e.undo.kind = "vals" /\ \A i \in DOMAIN vals : vals[i] \in Vals
    BY <1>5 DEF ValsEntry
  <2>2. AddIds(e) = {} /\ DelIds(e, del) = {}
    BY <2>1 DEF AddIds, DelIds
  <2>3. t = Revalued(sc, vals)
    BY <2>1, ApplyIs
  <2> HIDE DEF t, vals
  <2>4. SceneOk(t, C, P) /\ IdsIn(t) = IdsIn(sc)
    BY <2>1, <2>3, ValsScene
  <2> QED BY <2>2, <2>4 DEF t
<1> QED
  BY <1>1, <1>2, <1>3, <1>4, <1>5 DEF EntryOk

\* Redoing an entry, whatever has become of the scene.
LEMMA RedoKeeps ==
  ASSUME NEW C, NEW P, NEW own, Kinds(C, P, own), NEW sc, SceneOk(sc, C, P),
         NEW e, NEW del, EntryOk(e, del, C, P)
  PROVE /\ SceneOk(Apply(e.redo, sc, del), C, P)
        /\ IdsIn(Apply(e.redo, sc, del)) \subseteq IdsIn(sc) \cup AddIds(e)
        /\ IdsIn(Apply(e.redo, sc, del)) \cap DelIds(e, del) = {}
        /\ (\A p \in Parts : p \in IdsIn(sc) /\ own[p] \in DelIds(e, del) => p \in DelIds(e, del))
             => IdsIn(Apply(e.redo, sc, del)) = (IdsIn(sc) \cup AddIds(e)) \ DelIds(e, del)
<1> DEFINE t == Apply(e.redo, sc, del)
<1>0. SUFFICES
        /\ SceneOk(t, C, P)
        /\ IdsIn(t) \subseteq IdsIn(sc) \cup AddIds(e)
        /\ IdsIn(t) \cap DelIds(e, del) = {}
        /\ (\A p \in Parts : p \in IdsIn(sc) /\ own[p] \in DelIds(e, del) => p \in DelIds(e, del))
             => IdsIn(t) = (IdsIn(sc) \cup AddIds(e)) \ DelIds(e, del)
  OBVIOUS
<1>1. CASE AddEntry(e, C, P)
  <2> DEFINE coll == e.redo.coll
             items == e.redo.items
  <2>1. /\ e.undo.kind = "remove" /\ e.redo.kind = "restore" /\ e.undo.ids = IdsOf(items)
        /\ \/ coll = "cars" /\ items \in Seq(C)
           \/ coll = "parts" /\ items \in Seq(P)
        /\ Distinct(items)
    BY <1>1 DEF AddEntry
  <2>2. AddIds(e) = IdsOf(items) /\ DelIds(e, del) = {}
    BY <2>1 DEF AddIds, DelIds
  <2>3. t = Given(sc, coll, items)
    BY <2>1, ApplyIs
  <2> HIDE DEF t, coll, items
  <2>4. SceneOk(t, C, P) /\ IdsIn(t) = IdsIn(sc) \cup IdsOf(items)
    BY <2>1, <2>3, GiveScene
  <2> QED BY <2>2, <2>4
<1>2. CASE PatchEntry(e, C, P)
  <2>1. e.undo.kind = "patch" /\ e.redo.kind = "patch" /\ e.redo.item \in C \cup P
    BY <1>2 DEF PatchEntry
  <2>2. AddIds(e) = {} /\ DelIds(e, del) = {}
    BY <2>1 DEF AddIds, DelIds
  <2>3. t = PatchScene(sc, e.redo.item)
    BY <2>1, ApplyIs
  <2> HIDE DEF t
  <2>4. SceneOk(t, C, P) /\ IdsIn(t) = IdsIn(sc)
    BY <2>1, <2>3, PatchScenes
  <2> QED BY <2>2, <2>4
<1>3. CASE DeleteEntry(e, del, C, P)
  <2> DEFINE s == del[e.snap]
             ids == {s.item.id}
  <2>1. e.undo.kind = "unsnap" /\ e.redo.kind = "delete" /\ e.redo.id = s.item.id /\ SnapOk(s, C, P)
    BY <1>3 DEF DeleteEntry
  <2>2. AddIds(e) = {} /\ DelIds(e, del) = SnapIds(s)
    BY <2>1 DEF AddIds, DelIds, SnapIds
  <2>3. t = RemoveItems(sc, ids)
    BY <2>1, ApplyIs
  <2> HIDE DEF t, s
  <2>4. /\ SceneOk(t, C, P)
        /\ CarsOf(t) = {x \in CarsOf(sc) : x.id \notin ids}
        /\ PartsOf(t) = {x \in PartsOf(sc) : x.id \notin ids /\ x.owner \notin ids}
    BY <2>3, RemoveScene
  <2>5. CarsOf(sc) \subseteq C /\ PartsOf(sc) \subseteq P
    BY SceneFacts DEF CarsOf, PartsOf
  <2>6. IdsIn(sc) = {x.id : x \in CarsOf(sc) \cup PartsOf(sc)} /\ IdsIn(t) = {x.id : x \in CarsOf(t) \cup PartsOf(t)}
        /\ IdsOf(s.parts) = {x.id : x \in ToSet(s.parts)}
    BY IdsInOf, IdsOfSet
  <2>7. ToSet(s.parts) \subseteq P /\ \A x \in ToSet(s.parts) : x.owner = s.item.id
    BY <2>1 DEF SnapOk, ToSet
  <2>8. IdsIn(t) \subseteq IdsIn(sc)
    BY <2>4, <2>6
  <2>9. ASSUME NEW x \in CarsOf(t) \cup PartsOf(t) PROVE x.id \notin SnapIds(s)
    <3>1. x.id # s.item.id
      BY <2>4
    <3>2. ASSUME NEW y \in ToSet(s.parts), y.id = x.id PROVE FALSE
      <4>1. y \in P /\ x \in C \cup P /\ (x \in PartsOf(t) => x \in P) /\ (x \in CarsOf(t) => x \in C)
        BY <2>4, <2>5, <2>7
      <4>2. x \in PartsOf(t) /\ x \in P
        BY <3>2, <4>1, KindFacts
      <4>3. x.owner = own[x.id] /\ y.owner = own[y.id]
        BY <4>1, <4>2, KindFacts
      <4> QED BY <2>4, <2>7, <3>2, <4>2, <4>3
    <3> QED BY <2>6, <3>1, <3>2 DEF SnapIds
  <2>10. IdsIn(t) \cap SnapIds(s) = {}
    BY <2>6, <2>9
  <2>11. ASSUME \A p \in Parts : p \in IdsIn(sc) /\ own[p] \in SnapIds(s) => p \in SnapIds(s)
         PROVE IdsIn(sc) \ SnapIds(s) \subseteq IdsIn(t)
    <3> SUFFICES ASSUME NEW x \in CarsOf(sc) \cup PartsOf(sc), x.id \notin SnapIds(s)
                 PROVE x \in CarsOf(t) \cup PartsOf(t)
      BY <2>6
    <3>1. x.id \notin ids /\ s.item.id \in SnapIds(s)
      BY DEF SnapIds
    <3>2. CASE x \in CarsOf(sc)
      BY <2>4, <3>1, <3>2
    <3>3. CASE x \in PartsOf(sc)
      <4>1. x.id \in Parts /\ x.owner = own[x.id] /\ x.id \in IdsIn(sc)
        BY <2>5, <2>6, <3>3, KindFacts
      <4>2. x.owner # s.item.id
        BY <2>11, <3>1, <4>1
      <4> QED BY <2>4, <3>1, <3>3, <4>2
    <3> QED BY <3>2, <3>3
  <2> HIDE DEF ids
  <2>12. (\A p \in Parts : p \in IdsIn(sc) /\ own[p] \in SnapIds(s) => p \in SnapIds(s))
            => IdsIn(t) = (IdsIn(sc) \cup {}) \ SnapIds(s)
    BY <2>8, <2>10, <2>11
  <2> QED BY <2>2, <2>4, <2>8, <2>10, <2>12
<1>4. CASE CutEntry(e, C, P)
  <2> DEFINE ids == e.redo.ids
  <2>1. e.undo.kind = "splice" /\ e.redo.kind = "cut"
    BY <1>4 DEF CutEntry
  <2>2. AddIds(e) = {} /\ DelIds(e, del) = ids
    BY <2>1 DEF AddIds, DelIds
  <2>3. t = Cut(sc, ids)
    BY <2>1, ApplyIs
  <2> HIDE DEF t, ids
  <2>4. /\ SceneOk(t, C, P)
        /\ CarsOf(t) = {x \in CarsOf(sc) : x.id \notin ids}
        /\ PartsOf(t) = {x \in PartsOf(sc) : x.id \notin ids}
    BY <2>1, <2>3, CutScene
  <2>5. IdsIn(t) = IdsIn(sc) \ ids
    BY <2>4, IdsInOf
  <2> QED BY <2>2, <2>4, <2>5
<1>5. CASE ValsEntry(e)
  <2> DEFINE vals == e.redo.vals
  <2>1. e.undo.kind = "vals" /\ e.redo.kind = "vals" /\ \A i \in DOMAIN vals : vals[i] \in Vals
    BY <1>5 DEF ValsEntry
  <2>2. AddIds(e) = {} /\ DelIds(e, del) = {}
    BY <2>1 DEF AddIds, DelIds
  <2>3. t = Revalued(sc, vals)
    BY <2>1, ApplyIs
  <2> HIDE DEF t, vals
  <2>4. SceneOk(t, C, P) /\ IdsIn(t) = IdsIn(sc)
    BY <2>1, <2>3, ValsScene
  <2> QED BY <2>2, <2>4
<1> QED
  BY <1>1, <1>2, <1>3, <1>4, <1>5 DEF EntryOk
=============================================================================
