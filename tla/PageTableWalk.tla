--------------------------- MODULE PageTableWalk ----------------------------
(***************************************************************************)
(* Proofs about the page tables, part 2: the walk of arch_map_page().  It  *)
(* leads to the one entry that translates the page, and leaves every other *)
(* translation alone.                                                      *)
(***************************************************************************)
EXTENDS PageTableTrees

\* The way from a top-level table to a page.
Follow(T, t, i) == IF t # NULL /\ T[t][i].present THEN T[t][i].address ELSE NULL
Pml3(T, s, v) == Follow(T, s, index_of(v, 4))
Pml2(T, s, v) == Follow(T, Pml3(T, s, v), index_of(v, 3))
Pml1(T, s, v) == Follow(T, Pml2(T, s, v), index_of(v, 2))

EntryAt(T, t, i) ==
  IF t # NULL /\ T[t][i].present
  THEN [frame |-> T[t][i].address, readwrite |-> T[t][i].readwrite,
        supervisor |-> T[t][i].supervisor]
  ELSE Unmapped

\* The entry at its end, without the access of the entries on the way.
Leaf(T, s, v) == EntryAt(T, Pml1(T, s, v), index_of(v, 1))

\* The translation with tables T.
TranslateIn(T, s, v) ==
  LET e4 == T[s][index_of(v, 4)]
      e3 == T[e4.address][index_of(v, 3)]
      e2 == T[e3.address][index_of(v, 2)]
      e1 == T[e2.address][index_of(v, 1)]
  IN IF ~e4.present THEN Unmapped
     ELSE IF ~e3.present THEN Unmapped
     ELSE IF ~e2.present THEN Unmapped
     ELSE IF ~e1.present THEN Unmapped
     ELSE [frame      |-> e1.address,
           readwrite  |-> \A e \in {e4, e3, e2, e1} : e.readwrite,
           supervisor |-> \A e \in {e4, e3, e2, e1} : e.supervisor]

AtLevel(n, lv, l) == {NULL} \cup {t \in 1 .. n : lv[t] = l}

\* Four returns with the same answer.
LEMMA NestedIf ==
  ASSUME NEW a, NEW b, NEW c, NEW d, NEW x, NEW y
  PROVE  (IF ~a THEN y ELSE IF ~b THEN y ELSE IF ~c THEN y ELSE IF ~d THEN y ELSE x)
           = IF a /\ b /\ c /\ d THEN x ELSE y
  OBVIOUS

LEMMA FollowLevel ==
  ASSUME NEW T, NEW n, NEW lv, Trees(T, n, lv), NEW l \in 2 .. 4,
         NEW t \in AtLevel(n, lv, l), NEW i \in Index
  PROVE  Follow(T, t, i) \in AtLevel(n, lv, l - 1)
  <1>1. CASE t # NULL /\ T[t][i].present
    <2>1. t \in 1 .. n /\ lv[t] = l /\ lv[t] # 1
      BY <1>1 DEF AtLevel
    <2>2. T[t][i].address \in 1 .. n /\ lv[T[t][i].address] = l - 1
      BY <1>1, <2>1 DEF Trees, Linked
    <2> QED BY <1>1, <2>2 DEF Follow, AtLevel
  <1>2. CASE ~(t # NULL /\ T[t][i].present)
    BY <1>2 DEF Follow, AtLevel
  <1> QED BY <1>1, <1>2

LEMMA WayLevels ==
  ASSUME PageTableAssumption, NEW T, NEW n, NEW lv, Trees(T, n, lv),
         NEW s \in 1 .. n, lv[s] = 4, NEW v \in Pages
  PROVE  /\ s \in AtLevel(n, lv, 4) /\ s # NULL
         /\ Pml3(T, s, v) \in AtLevel(n, lv, 3)
         /\ Pml2(T, s, v) \in AtLevel(n, lv, 2)
         /\ Pml1(T, s, v) \in AtLevel(n, lv, 1)
  <1>1. /\ index_of(v, 4) \in Index /\ index_of(v, 3) \in Index
        /\ index_of(v, 2) \in Index /\ index_of(v, 1) \in Index
    BY HalfOfPage
  <1>2. s \in AtLevel(n, lv, 4) /\ s # NULL
    BY DEF AtLevel, NULL, Trees
  <1>3. Pml3(T, s, v) \in AtLevel(n, lv, 4 - 1)
    BY <1>1, <1>2, FollowLevel DEF Pml3
  <1>4. Pml2(T, s, v) \in AtLevel(n, lv, 3 - 1)
    <2>1. Pml3(T, s, v) \in AtLevel(n, lv, 3)
      BY <1>3
    <2> QED BY <1>1, <2>1, FollowLevel DEF Pml2
  <1>5. Pml1(T, s, v) \in AtLevel(n, lv, 2 - 1)
    <2>1. Pml2(T, s, v) \in AtLevel(n, lv, 2)
      BY <1>4
    <2> QED BY <1>1, <2>1, FollowLevel DEF Pml1
  <1> QED BY <1>2, <1>3, <1>4, <1>5

\* With trees that open towards the top, the processor grants what the last
\* entry says.
LEMMA TranslateIsLeaf ==
  ASSUME PageTableAssumption, NEW T, NEW n, NEW lv, Trees(T, n, lv), Open(T, n, lv),
         NEW s \in 1 .. n, lv[s] = 4, NEW v \in Pages
  PROVE  TranslateIn(T, s, v) = Leaf(T, s, v)
  <1> DEFINE i4 == index_of(v, 4)
             i3 == index_of(v, 3)
             i2 == index_of(v, 2)
             i1 == index_of(v, 1)
             e4 == T[s][i4]
             e3 == T[e4.address][i3]
             e2 == T[e3.address][i2]
             e1 == T[e2.address][i1]
  <1>1. i4 \in Index /\ i3 \in Index /\ i2 \in Index /\ i1 \in Index
    BY HalfOfPage
  <1>2. s # NULL /\ NULL \notin 1 .. n
    BY DEF NULL, Trees
  <1> HIDE DEF i4, i3, i2, i1
  <1>a. \A t \in 1 .. n, i \in Index :
          lv[t] # 1 /\ T[t][i].present
            => T[t][i].address \in 1 .. n /\ lv[T[t][i].address] = lv[t] - 1
    BY DEF Trees, Linked
  <1>b. \A t \in 1 .. n, i, j \in Index :
          lv[t] # 1 /\ T[t][i].present /\ T[T[t][i].address][j].present
            => Allows(T[t][i], T[T[t][i].address][j])
    BY DEF Open
  <1>3. e4.present => e4.address \in 1 .. n /\ lv[e4.address] = 3
    BY <1>1, <1>a
  <1>4. e4.present /\ e3.present =>
          /\ e3.address \in 1 .. n /\ lv[e3.address] = 2
          /\ Allows(e4, e3)
    <2>1. e4.present /\ e3.present => e3.address \in 1 .. n /\ lv[e3.address] = 3 - 1
      <3> HIDE DEF e4
      <3> QED BY <1>1, <1>3, <1>a
    <2>2. e4.present /\ e3.present => Allows(e4, e3)
      <3>1. s \in 1 .. n /\ lv[s] # 1
        OBVIOUS
      <3> QED BY Zenon, <1>1, <1>b, <3>1
    <2>3. 3 - 1 = 2
      OBVIOUS
    <2> QED BY Zenon, <2>1, <2>2, <2>3
  <1>5. e4.present /\ e3.present /\ e2.present =>
          /\ e2.address \in 1 .. n /\ lv[e2.address] = 1
          /\ Allows(e3, e2)
    <2>1. e4.present /\ e3.present /\ e2.present =>
            e2.address \in 1 .. n /\ lv[e2.address] = 2 - 1
      <3> HIDE DEF e3, e4
      <3> QED BY <1>1, <1>4, <1>a
    <2>2. e4.present /\ e3.present /\ e2.present => Allows(e3, e2)
      <3> HIDE DEF e4
      <3> QED BY <1>1, <1>3, <1>b
    <2> HIDE DEF e4, e3, e2
    <2> QED BY <2>1, <2>2
  <1>6. e4.present /\ e3.present /\ e2.present /\ e1.present => Allows(e2, e1)
    <2> HIDE DEF e3, e4
    <2> QED BY SMTT(30), <1>1, <1>4, <1>b
  <1>7. e4.present /\ e3.present /\ e2.present => e1 \in Ptes
    <2>1. \A t \in 1 .. n : t \in Tables
      BY DEF Trees, Tables, PageTableAssumption
    <2> QED BY Zenon, <1>1, <1>5, <2>1 DEF Trees
  <1>8. Pml3(T, s, v) = IF e4.present THEN e4.address ELSE NULL
    BY Zenon, <1>2 DEF Pml3, Follow, i4
  <1>9. Pml2(T, s, v) = IF e4.present /\ e3.present THEN e3.address ELSE NULL
    BY SMTT(30), <1>2, <1>3, <1>8 DEF Pml2, Follow, i3
  <1>10. Pml1(T, s, v) = IF e4.present /\ e3.present /\ e2.present THEN e2.address ELSE NULL
    BY Zenon, <1>2, <1>4, <1>9 DEF Pml1, Follow, i2
  <1>11. Leaf(T, s, v) =
           IF e4.present /\ e3.present /\ e2.present /\ e1.present
           THEN [frame |-> e1.address, readwrite |-> e1.readwrite, supervisor |-> e1.supervisor]
           ELSE Unmapped
    BY Zenon, <1>2, <1>5, <1>10 DEF Leaf, EntryAt, i1
  <1>12. TranslateIn(T, s, v) =
           IF e4.present /\ e3.present /\ e2.present /\ e1.present
           THEN [frame |-> e1.address,
                 readwrite |-> \A e \in {e4, e3, e2, e1} : e.readwrite,
                 supervisor |-> \A e \in {e4, e3, e2, e1} : e.supervisor]
           ELSE Unmapped
    BY Zenon, NestedIf DEF TranslateIn, i4, i3, i2, i1
  <1> HIDE DEF e4, e3, e2, e1
  <1>13. ASSUME e4.present, e3.present, e2.present, e1.present
         PROVE  /\ (\A e \in {e4, e3, e2, e1} : e.readwrite) = e1.readwrite
                /\ (\A e \in {e4, e3, e2, e1} : e.supervisor) = e1.supervisor
    <2>1. e1.readwrite \in BOOLEAN /\ e1.supervisor \in BOOLEAN
      BY <1>7, <1>13 DEF Ptes
    <2>2. /\ (e1.readwrite => e2.readwrite /\ e3.readwrite /\ e4.readwrite)
          /\ (e1.supervisor => e2.supervisor /\ e3.supervisor /\ e4.supervisor)
      BY Zenon, <1>4, <1>5, <1>6, <1>13 DEF Allows
    <2>3. /\ (\A e \in {e4, e3, e2, e1} : e.readwrite) <=> e1.readwrite
          /\ (\A e \in {e4, e3, e2, e1} : e.supervisor) <=> e1.supervisor
      BY Zenon, <2>2
    <2> QED BY Zenon, <2>1, <2>3
  <1> QED BY Zenon, <1>11, <1>12, <1>13

\* A step of a walk leads no page anywhere else: where it links a new table,
\* pages had no translation, and the table is empty.
Apart(m, r, p, q) == q = p \/ (p = NULL /\ q \in m.used + 1 .. r.used)

LEMMA FollowKept ==
  ASSUME NEW m, NEW r, NEW i, NEW flags, Kept(m, r, i, flags), m.used \in Nat,
         NEW p \in {NULL} \cup 1 .. m.used, NEW q, Apart(m, r, p, q), NEW j \in Index
  PROVE  /\ Apart(m, r, Follow(m.tables, p, j), Follow(r.tables, q, j))
         /\ p # m.at => EntryAt(m.tables, p, j) = EntryAt(r.tables, q, j)
  <1>1. CASE q = p /\ p = NULL
    BY <1>1 DEF Follow, Apart, EntryAt
  <1>2. CASE q = p /\ p # NULL
    <2>1. p \in 1 .. m.used
      BY Zenon, <1>2
    <2>2. CASE p # m.at \/ j # i
      BY Zenon, <1>2, <2>1, <2>2 DEF Kept, Follow, EntryAt, Apart
    <2>3. CASE p = m.at /\ j = i
      BY <1>2, <2>3 DEF Kept, Follow, Apart
    <2> QED BY <2>2, <2>3
  <1>3. CASE p = NULL /\ q \in m.used + 1 .. r.used
    <2>1. ~r.tables[q][j].present
      BY <1>3 DEF Kept
    <2> QED BY <1>3, <2>1 DEF Follow, Apart, EntryAt
  <1> QED BY <1>1, <1>2, <1>3 DEF Apart

LEMMA WayKept ==
  ASSUME PageTableAssumption, NEW m, NEW r, NEW lv, NEW i, NEW flags,
         Walking(m, lv, i, flags), Kept(m, r, i, flags),
         NEW s \in 1 .. m.used, lv[s] = 4, NEW v \in Pages
  PROVE  /\ Apart(m, r, Pml3(m.tables, s, v), Pml3(r.tables, s, v))
         /\ Apart(m, r, Pml2(m.tables, s, v), Pml2(r.tables, s, v))
         /\ Apart(m, r, Pml1(m.tables, s, v), Pml1(r.tables, s, v))
         /\ Leaf(r.tables, s, v) = Leaf(m.tables, s, v)
  <1> DEFINE T == m.tables
             U == r.tables
  <1>1. /\ index_of(v, 4) \in Index /\ index_of(v, 3) \in Index
        /\ index_of(v, 2) \in Index /\ index_of(v, 1) \in Index
    BY HalfOfPage
  <1>2. m.used \in Nat /\ Trees(T, m.used, lv) /\ lv[m.at] # 1 /\ m.at \in 1 .. m.used
    BY DEF Walking, Trees, PageTableAssumption
  <1>3. /\ Pml3(T, s, v) \in {NULL} \cup 1 .. m.used
        /\ Pml2(T, s, v) \in {NULL} \cup 1 .. m.used
        /\ Pml1(T, s, v) \in {NULL} \cup 1 .. m.used
        /\ Pml1(T, s, v) # m.at
    <2>1. /\ Pml3(T, s, v) \in AtLevel(m.used, lv, 3)
          /\ Pml2(T, s, v) \in AtLevel(m.used, lv, 2)
          /\ Pml1(T, s, v) \in AtLevel(m.used, lv, 1)
      BY <1>2, WayLevels
    <2>2. NULL # m.at
      BY <1>2 DEF NULL
    <2> QED BY <1>2, <2>1, <2>2 DEF AtLevel
  <1> HIDE DEF T, U
  <1>4. Apart(m, r, Pml3(T, s, v), Pml3(U, s, v))
    <2>1. Apart(m, r, s, s)
      BY DEF Apart
    <2> QED BY <1>1, <1>2, <2>1, FollowKept DEF Pml3, T, U
  <1>5. Apart(m, r, Pml2(T, s, v), Pml2(U, s, v))
    BY <1>1, <1>2, <1>3, <1>4, FollowKept DEF Pml2, T, U
  <1>6. Apart(m, r, Pml1(T, s, v), Pml1(U, s, v))
    BY <1>1, <1>2, <1>3, <1>5, FollowKept DEF Pml1, T, U
  <1>7. EntryAt(T, Pml1(T, s, v), index_of(v, 1)) = EntryAt(U, Pml1(U, s, v), index_of(v, 1))
    BY <1>1, <1>2, <1>3, <1>6, FollowKept DEF T, U
  <1>8. Leaf(U, s, v) = Leaf(T, s, v)
    BY <1>7 DEF Leaf
  <1> QED BY <1>4, <1>5, <1>6, <1>8 DEF T, U

\* Two ways that end at one table are one way, unless other page maps share it.
LEMMA FollowUnique ==
  ASSUME NEW T, NEW n, NEW lv, Trees(T, n, lv), NEW l \in 2 .. 4,
         NEW t \in AtLevel(n, lv, l), NEW u \in AtLevel(n, lv, l),
         NEW i \in Index, NEW j \in Index,
         Follow(T, t, i) = Follow(T, u, j), Follow(T, t, i) # NULL
  PROVE  /\ t # NULL /\ i = j
         /\ t = u \/ (l = 4 /\ i \in KernelHalf)
  <1>1. t # NULL /\ T[t][i].present /\ u # NULL /\ T[u][j].present
    BY DEF Follow
  <1>2. t \in 1 .. n /\ u \in 1 .. n /\ lv[t] = l /\ lv[u] = l /\ l # 1
    BY <1>1 DEF AtLevel
  <1>3. T[t][i].address = T[u][j].address
    BY <1>1 DEF Follow
  <1> QED BY <1>1, <1>2, <1>3 DEF Trees, Unshared

LEMMA WayUnique ==
  ASSUME PageTableAssumption, NEW T, NEW n, NEW lv, Trees(T, n, lv),
         NEW s \in 1 .. n, lv[s] = 4, NEW t \in 1 .. n, lv[t] = 4,
         NEW v \in Pages, NEW w \in Pages,
         Pml1(T, s, v) = Pml1(T, t, w), Pml1(T, s, v) # NULL,
         index_of(v, 1) = index_of(w, 1), Sole(n, lv, s, index_of(v, 4))
  PROVE  s = t /\ v = w
  <1>1. /\ \A k \in 1 .. 4 : index_of(v, k) \in Index
        /\ \A k \in 1 .. 4 : index_of(w, k) \in Index
    BY HalfOfPage
  <1>2. /\ s \in AtLevel(n, lv, 4) /\ Pml3(T, s, v) \in AtLevel(n, lv, 3)
        /\ Pml2(T, s, v) \in AtLevel(n, lv, 2)
    BY WayLevels
  <1>3. /\ t \in AtLevel(n, lv, 4) /\ Pml3(T, t, w) \in AtLevel(n, lv, 3)
        /\ Pml2(T, t, w) \in AtLevel(n, lv, 2)
    BY WayLevels
  <1>4. /\ index_of(v, 2) = index_of(w, 2)
        /\ Pml2(T, s, v) = Pml2(T, t, w) /\ Pml2(T, s, v) # NULL
    <2>1. index_of(v, 2) \in Index /\ index_of(w, 2) \in Index
      BY <1>1
    <2>2. /\ Follow(T, Pml2(T, s, v), index_of(v, 2)) = Follow(T, Pml2(T, t, w), index_of(w, 2))
          /\ Follow(T, Pml2(T, s, v), index_of(v, 2)) # NULL
      BY DEF Pml1
    <2>3. /\ Pml2(T, s, v) # NULL /\ index_of(v, 2) = index_of(w, 2)
          /\ Pml2(T, s, v) = Pml2(T, t, w) \/ (2 = 4 /\ index_of(v, 2) \in KernelHalf)
      <3> DEFINE a == Pml2(T, s, v)
                 b == Pml2(T, t, w)
                 i == index_of(v, 2)
                 j == index_of(w, 2)
      <3>1. PICK l \in 2 .. 4 : l = 2
        OBVIOUS
      <3>2. /\ a \in AtLevel(n, lv, l) /\ b \in AtLevel(n, lv, l)
            /\ i \in Index /\ j \in Index
            /\ Follow(T, a, i) = Follow(T, b, j) /\ Follow(T, a, i) # NULL
        BY <1>2, <1>3, <2>1, <2>2, <3>1
      <3> HIDE DEF a, b, i, j
      <3>3. /\ a # NULL /\ i = j
            /\ a = b \/ (l = 4 /\ i \in KernelHalf)
        BY <3>2, FollowUnique
      <3> QED BY <3>1, <3>3 DEF a, b, i, j
    <2> QED BY ONLY <2>3
  <1>5. /\ index_of(v, 3) = index_of(w, 3)
        /\ Pml3(T, s, v) = Pml3(T, t, w) /\ Pml3(T, s, v) # NULL
    <2>1. index_of(v, 3) \in Index /\ index_of(w, 3) \in Index
      BY <1>1
    <2>2. /\ Follow(T, Pml3(T, s, v), index_of(v, 3)) = Follow(T, Pml3(T, t, w), index_of(w, 3))
          /\ Follow(T, Pml3(T, s, v), index_of(v, 3)) # NULL
      BY <1>4 DEF Pml2
    <2>3. /\ Pml3(T, s, v) # NULL /\ index_of(v, 3) = index_of(w, 3)
          /\ Pml3(T, s, v) = Pml3(T, t, w) \/ (3 = 4 /\ index_of(v, 3) \in KernelHalf)
      <3> DEFINE a == Pml3(T, s, v)
                 b == Pml3(T, t, w)
                 i == index_of(v, 3)
                 j == index_of(w, 3)
      <3>1. PICK l \in 2 .. 4 : l = 3
        OBVIOUS
      <3>2. /\ a \in AtLevel(n, lv, l) /\ b \in AtLevel(n, lv, l)
            /\ i \in Index /\ j \in Index
            /\ Follow(T, a, i) = Follow(T, b, j) /\ Follow(T, a, i) # NULL
        BY <1>2, <1>3, <2>1, <2>2, <3>1
      <3> HIDE DEF a, b, i, j
      <3>3. /\ a # NULL /\ i = j
            /\ a = b \/ (l = 4 /\ i \in KernelHalf)
        BY <3>2, FollowUnique
      <3> QED BY <3>1, <3>3 DEF a, b, i, j
    <2> QED BY ONLY <2>3
  <1>6. /\ index_of(v, 4) = index_of(w, 4)
        /\ s = t \/ index_of(v, 4) \in KernelHalf
    <2>1. index_of(v, 4) \in Index /\ index_of(w, 4) \in Index
      BY <1>1
    <2> QED BY <1>2, <1>3, <1>5, <2>1, FollowUnique DEF Pml3
  <1>7. s = t
    BY <1>6 DEF Sole
  <1> QED BY <1>4, <1>5, <1>6, <1>7, SamePage
-----------------------------------------------------------------------------
\* The walk of arch_map_page(), from the tables T0 with levels lv0.

\* The table that the way to a page has reached at level l.
Reached(T, s, v, l) ==
  IF l = 4 THEN s ELSE IF l = 3 THEN Pml3(T, s, v)
  ELSE IF l = 2 THEN Pml2(T, s, v) ELSE Pml1(T, s, v)

\* What the walk has left alone: the other entries of top-level tables, and
\* where every page leads.
LeftAlone(T0, n0, lv0, T, n, lv, pml4, v, flags) ==
  /\ n0 <= n
  /\ \A u \in 1 .. n0 : lv[u] = lv0[u]
  /\ \A u \in n0 + 1 .. n : lv[u] # 4
  /\ \A u \in 1 .. n0, j \in Index :
       lv0[u] = 4 /\ (u # pml4 \/ j # index_of(v, 4)) => T[u][j] = T0[u][j]
  /\ ~flags.supervisor =>
       (T[pml4][index_of(v, 4)].present /\ T[pml4][index_of(v, 4)].supervisor
         => T0[pml4][index_of(v, 4)].present /\ T0[pml4][index_of(v, 4)].supervisor)

SameLeaves(T0, n0, lv0, T) ==
  \A s \in 1 .. n0, w \in Pages : lv0[s] = 4 => Leaf(T, s, w) = Leaf(T0, s, w)

WalkState(T0, n0, lv0, m, lv, pml4, v, flags, l) ==
  /\ m \in Memories /\ Trees(m.tables, m.used, lv) /\ Open(m.tables, m.used, lv)
  /\ LeftAlone(T0, n0, lv0, m.tables, m.used, lv, pml4, v, flags)
  /\ SameLeaves(T0, n0, lv0, m.tables)
  /\ Sole(m.used, lv, pml4, index_of(v, 4))
  /\ m.ok => /\ m.at \in 1 .. m.used /\ lv[m.at] = l
             /\ Above(m.tables, m.used, lv, m.at, flags)
             /\ Reached(m.tables, pml4, v, l) = m.at

LEMMA ReachedNext ==
  ASSUME NEW T, NEW s, NEW v, NEW l \in 2 .. 4
  PROVE  Reached(T, s, v, l - 1) = Follow(T, Reached(T, s, v, l), index_of(v, l))
  <1>1. CASE l = 4
    BY <1>1 DEF Reached, Pml3
  <1>2. CASE l = 3
    BY <1>2 DEF Reached, Pml2
  <1>3. CASE l = 2
    BY <1>3 DEF Reached, Pml1
  <1> QED BY <1>1, <1>2, <1>3

LEMMA WalkStep ==
  ASSUME PageTableAssumption, NEW T0, NEW n0 \in Nat, NEW lv0, NEW m, NEW lv,
         NEW pml4 \in 1 .. n0, lv0[pml4] = 4, NEW v \in Pages, NEW flags \in Flags,
         NEW l \in 2 .. 4, WalkState(T0, n0, lv0, m, lv, pml4, v, flags, l)
  PROVE  LET r == vmm_pml_advance(m, index_of(v, l), flags)
         IN \E lv2 \in Levels : WalkState(T0, n0, lv0, r, lv2, pml4, v, flags, l - 1)
  <1> DEFINE i == index_of(v, l)
             r == vmm_pml_advance(m, i, flags)
             top == index_of(v, 4)
  <1>1. CASE ~m.ok
    <2>1. r = m
      BY Zenon, <1>1 DEF vmm_pml_advance
    <2>2. WalkState(T0, n0, lv0, m, lv, pml4, v, flags, l - 1) /\ lv \in Levels
      BY <1>1 DEF WalkState, Trees
    <2> QED BY <2>1, <2>2
  <1>2. CASE m.ok
    <2>1. /\ m \in Memories /\ Trees(m.tables, m.used, lv) /\ Open(m.tables, m.used, lv)
          /\ LeftAlone(T0, n0, lv0, m.tables, m.used, lv, pml4, v, flags)
          /\ SameLeaves(T0, n0, lv0, m.tables)
          /\ Sole(m.used, lv, pml4, top)
          /\ m.at \in 1 .. m.used /\ lv[m.at] = l
          /\ Above(m.tables, m.used, lv, m.at, flags)
          /\ Reached(m.tables, pml4, v, l) = m.at
      BY <1>2 DEF WalkState
    <2>2. /\ m.used \in Nat /\ n0 <= m.used /\ pml4 \in 1 .. m.used /\ lv[pml4] = 4
          /\ i \in Index /\ top \in Index /\ lv[m.at] # 1 /\ m.at # NULL
          /\ \A u \in 1 .. n0 : u \in 1 .. m.used
      <3>1. i \in Index /\ top \in Index
        BY HalfOfPage
      <3>2. m.used \in Nat /\ n0 <= m.used /\ lv[pml4] = lv0[pml4]
        BY <2>1 DEF Memories, LeftAlone, PageTableAssumption
      <3> QED BY <2>1, <3>1, <3>2 DEF NULL
    <2>3. l = 4 => m.at = pml4 /\ i = top
      BY <2>1 DEF Reached
    <2> HIDE DEF i, top
    <2>4. Walking(m, lv, i, flags)
      BY <1>2, <2>1, <2>2, <2>3 DEF Walking, Sole
    <2>5. PICK lv2 \in Levels :
            /\ r \in Memories
            /\ Trees(r.tables, r.used, lv2) /\ Open(r.tables, r.used, lv2)
            /\ Kept(m, r, i, flags) /\ Arrived(m, r, lv2, i, flags) /\ Extends(lv2, lv, m, r)
      BY <2>4, AdvanceSound
    <2> HIDE DEF r
    <2>6. /\ r.used \in Nat /\ m.used <= r.used
          /\ \A u \in 1 .. m.used : lv2[u] = lv[u]
          /\ \A u \in m.used + 1 .. r.used : lv2[u] # 4
      <3>1. r.used \in Nat /\ m.used <= r.used
        BY <2>5 DEF Memories, Kept, PageTableAssumption
      <3>2. l - 1 # 4
        OBVIOUS
      <3> QED BY Zenon, <2>1, <2>5, <3>1, <3>2 DEF Extends
    <2>7. LeftAlone(T0, n0, lv0, r.tables, r.used, lv2, pml4, v, flags)
      <3>1. n0 <= r.used
        BY <2>2, <2>6
      <3>2. \A u \in 1 .. n0 : lv2[u] = lv0[u]
        BY <2>1, <2>2, <2>6 DEF LeftAlone
      <3>3. \A u \in n0 + 1 .. r.used : lv2[u] # 4
        <4> TAKE u \in n0 + 1 .. r.used
        <4>1. CASE u \in n0 + 1 .. m.used
          <5>1. u \in 1 .. m.used
            BY <4>1
          <5> QED BY <2>1, <2>6, <4>1, <5>1 DEF LeftAlone
        <4>2. CASE u \in m.used + 1 .. r.used
          BY Zenon, <2>6, <4>2
        <4> QED BY <2>2, <2>6, <4>1, <4>2
      <3>4. \A u \in 1 .. n0, j \in Index :
              lv0[u] = 4 /\ (u # pml4 \/ j # top) => r.tables[u][j] = T0[u][j]
        <4> SUFFICES ASSUME NEW u \in 1 .. n0, NEW j \in Index,
                            lv0[u] = 4, u # pml4 \/ j # top
                     PROVE  r.tables[u][j] = T0[u][j]
          BY Zenon
        <4>1. m.tables[u][j] = T0[u][j] /\ lv[u] = 4 /\ u \in 1 .. m.used
          BY Zenon, <2>1, <2>2 DEF LeftAlone, top
        <4>2. u # m.at \/ j # i
          BY Zenon, <2>1, <2>3, <4>1
        <4> QED BY Zenon, <2>5, <4>1, <4>2 DEF Kept
      <3>5. ~flags.supervisor =>
              (r.tables[pml4][top].present /\ r.tables[pml4][top].supervisor
                => T0[pml4][top].present /\ T0[pml4][top].supervisor)
        <4>1. ~flags.supervisor =>
                (m.tables[pml4][top].present /\ m.tables[pml4][top].supervisor
                  => T0[pml4][top].present /\ T0[pml4][top].supervisor)
          BY Zenon, <2>1 DEF LeftAlone, top
        <4>2. CASE l = 4
          BY Zenon, <2>3, <2>5, <4>1, <4>2 DEF Kept
        <4>3. CASE l # 4
          <5>1. pml4 # m.at
            BY Zenon, <2>1, <2>2, <4>3
          <5>2. r.tables[pml4][top] = m.tables[pml4][top]
            BY Zenon, <2>2, <2>5, <5>1 DEF Kept
          <5> QED BY <4>1, <5>2
        <4> QED BY Zenon, <4>2, <4>3
      <3> QED BY <3>1, <3>2, <3>3, <3>4, <3>5 DEF LeftAlone, top
    <2>8. SameLeaves(T0, n0, lv0, r.tables)
      <3> SUFFICES ASSUME NEW s \in 1 .. n0, NEW w \in Pages, lv0[s] = 4
                   PROVE  Leaf(r.tables, s, w) = Leaf(T0, s, w)
        BY Zenon DEF SameLeaves
      <3>1. s \in 1 .. m.used /\ lv[s] = 4
        BY SMTT(30), <2>1, <2>2 DEF LeftAlone
      <3>2. Leaf(r.tables, s, w) = Leaf(m.tables, s, w)
        BY Zenon, <2>4, <2>5, <3>1, WayKept
      <3> QED BY <2>1, <3>2 DEF SameLeaves
    <2>9. Sole(r.used, lv2, pml4, top)
      <3>1. \A u \in 1 .. r.used : lv2[u] = 4 => u \in 1 .. m.used /\ lv[u] = 4
        <4> TAKE u \in 1 .. r.used
        <4>1. u \in 1 .. m.used \/ u \in m.used + 1 .. r.used
          BY <2>2, <2>6
        <4> QED BY <2>6, <4>1
      <3> QED BY <2>1, <2>2, <3>1 DEF Sole
    <2>10. ASSUME r.ok
           PROVE  /\ r.at \in 1 .. r.used /\ lv2[r.at] = l - 1
                  /\ Above(r.tables, r.used, lv2, r.at, flags)
                  /\ Reached(r.tables, pml4, v, l - 1) = r.at
      <3>1. /\ r.at \in 1 .. r.used /\ lv2[r.at] = lv2[m.at] - 1
            /\ r.tables[m.at][i].present /\ r.tables[m.at][i].address = r.at
            /\ Above(r.tables, r.used, lv2, r.at, flags)
        BY SMTT(30), <2>5, <2>10 DEF Arrived
      <3>2. Reached(r.tables, pml4, v, l) = m.at
        <4>1. /\ Apart(m, r, Pml3(m.tables, pml4, v), Pml3(r.tables, pml4, v))
              /\ Apart(m, r, Pml2(m.tables, pml4, v), Pml2(r.tables, pml4, v))
              /\ Apart(m, r, Pml1(m.tables, pml4, v), Pml1(r.tables, pml4, v))
          BY Zenon, <2>2, <2>4, <2>5, WayKept
        <4>2. Reached(m.tables, pml4, v, l) = m.at /\ m.at # NULL
          BY <2>1, <2>2 DEF NULL
        <4>3. CASE l = 4
          BY Zenon, <4>2, <4>3 DEF Reached
        <4>4. CASE l = 3
          <5>1. \A T : Reached(T, pml4, v, l) = Pml3(T, pml4, v)
            BY <4>4 DEF Reached
          <5> QED BY Zenon, <4>1, <4>2, <5>1 DEF Apart
        <4>5. CASE l = 2
          <5>1. \A T : Reached(T, pml4, v, l) = Pml2(T, pml4, v)
            BY <4>5 DEF Reached
          <5> QED BY Zenon, <4>1, <4>2, <5>1 DEF Apart
        <4>6. l = 4 \/ l = 3 \/ l = 2
          BY <2>2
        <4> QED BY Zenon, <4>3, <4>4, <4>5, <4>6
      <3>3. Reached(r.tables, pml4, v, l - 1) = r.at
        BY <2>2, <3>1, <3>2, ReachedNext DEF Follow, i
      <3> QED BY Zenon, <2>1, <2>6, <3>1, <3>3
    <2>11. WalkState(T0, n0, lv0, r, lv2, pml4, v, flags, l - 1)
      BY <2>5, <2>7, <2>8, <2>9, <2>10 DEF WalkState, top
    <2> QED BY <2>11 DEF r, i
  <1> QED BY <1>1, <1>2 DEF WalkState, Memories

LEMMA StartOfWalk ==
  ASSUME PageTableAssumption, tables \in Contents, used \in 0 .. MaxTables,
         NEW pml4 \in 0 .. MaxTables
  PROVE  LET m == [Memory EXCEPT !.at = pml4]
         IN  m \in Memories /\ m.tables = tables /\ m.used = used /\ m.at = pml4 /\ m.ok
  <1> DEFINE m == [Memory EXCEPT !.at = pml4]
  <1>1. NULL \in 0 .. MaxTables
    BY DEF NULL, PageTableAssumption
  <1>2. Memory \in Memories
    BY <1>1 DEF Memory, Memories
  <1>3. m \in Memories
    BY <1>2 DEF Memories
  <1>4. m.tables = tables /\ m.used = used /\ m.at = pml4
    BY DEF Memory
  <1>5. m.ok
    BY DEF Memory
  <1> QED BY <1>3, <1>4, <1>5

LEMMA WalkSound ==
  ASSUME PageTableAssumption, NEW lv, Trees(tables, used, lv), Open(tables, used, lv),
         NEW pml4 \in 1 .. used, lv[pml4] = 4, NEW v \in Pages, NEW flags \in Flags,
         Sole(used, lv, pml4, index_of(v, 4))
  PROVE  \E lv2 \in Levels :
           WalkState(tables, used, lv, WalkDown(pml4, v, flags), lv2, pml4, v, flags, 1)
  <1> DEFINE St(m, lv2, l) == WalkState(tables, used, lv, m, lv2, pml4, v, flags, l)
             m4 == [Memory EXCEPT !.at = pml4]
             m3 == vmm_pml_advance(m4, index_of(v, 4), flags)
             m2 == vmm_pml_advance(m3, index_of(v, 3), flags)
             m1 == vmm_pml_advance(m2, index_of(v, 2), flags)
  <1>1. /\ tables \in Contents /\ used \in 0 .. MaxTables /\ used \in Nat /\ lv \in Levels
        /\ MaxTables \in Nat /\ pml4 \in 0 .. MaxTables /\ 1 .. used \subseteq Tables
    BY DEF Trees, Contents, PageTableAssumption, Tables
  <1>3. m4.tables = tables /\ m4.used = used /\ m4.at = pml4 /\ m4.ok /\ m4 \in Memories
    BY <1>1, StartOfWalk
  <1> HIDE DEF m4
  <1>4. St(m4, lv, 4)
    <2>1. LeftAlone(tables, used, lv, tables, used, lv, pml4, v, flags)
      <3>1. used + 1 .. used = {}
        BY <1>1
      <3> QED BY <1>1, <3>1 DEF LeftAlone
    <2>2. SameLeaves(tables, used, lv, tables)
      BY DEF SameLeaves
    <2>3. Above(tables, used, lv, pml4, flags)
      <3> SUFFICES ASSUME NEW u \in 1 .. used, NEW j \in Index, lv[u] # 1,
                          tables[u][j].present, tables[u][j].address = pml4
                   PROVE  FALSE
        BY DEF Above
      <3>1. lv[pml4] = lv[u] - 1 /\ lv[u] \in 1 .. 4
        BY <1>1 DEF Trees, Linked, Levels
      <3> QED BY <3>1
    <2> QED BY <1>3, <2>1, <2>2, <2>3 DEF WalkState, Reached
  <1> HIDE DEF St
  <1>5. \A m, lv1, l : lv1 \in Levels /\ l \in 2 .. 4 /\ St(m, lv1, l) =>
          \E lv2 \in Levels : St(vmm_pml_advance(m, index_of(v, l), flags), lv2, l - 1)
    BY <1>1, WalkStep DEF St
  <1>6. PICK lv3 \in Levels : St(m3, lv3, 3)
    BY <1>1, <1>4, <1>5
  <1> HIDE DEF m3
  <1>7. PICK lv2 \in Levels : St(m2, lv2, 2)
    BY <1>5, <1>6
  <1> HIDE DEF m2
  <1>8. PICK lv1 \in Levels : St(m1, lv1, 1)
    BY <1>5, <1>7
  <1>9. WalkDown(pml4, v, flags) = m1
    BY DEF WalkDown, m4, m3, m2
  <1> QED BY <1>8, <1>9 DEF St

\* The first n tables of U are those of T but for one entry.
Written(U, T, n, t, i, e) ==
  \A u \in 1 .. n, j \in Index : U[u][j] = IF u = t /\ j = i THEN e ELSE T[u][j]

\* The last entry: the tables stay trees, and no page but the one that is
\* mapped, in no space but this one, leads anywhere else.
LEMMA WriteSound ==
  ASSUME PageTableAssumption, NEW T, NEW n, NEW lv, Trees(T, n, lv), Open(T, n, lv),
         NEW t \in 1 .. n, lv[t] = 1, NEW i \in Index, NEW flags \in Flags,
         NEW paddr \in PageFrames, Above(T, n, lv, t, flags), NEW U
  PROVE  U = [T EXCEPT ![t][i] = paging_create_entry(paddr, flags)] =>
           /\ Trees(U, n, lv) /\ Open(U, n, lv)
           /\ Written(U, T, n, t, i, paging_create_entry(paddr, flags))
  <1> DEFINE link == paging_create_entry(paddr, flags)
  <1> SUFFICES ASSUME U = [T EXCEPT ![t][i] = link]
               PROVE  /\ Trees(U, n, lv) /\ Open(U, n, lv)
                      /\ Written(U, T, n, t, i, link)
    OBVIOUS
  <1>1. link \in Ptes /\ link.present /\ link.address = paddr /\ Allows(flags, link)
    BY PteTypes
  <1>2. T \in Contents /\ n \in 0 .. MaxTables /\ lv \in Levels /\ 1 .. n \subseteq Tables
    BY DEF Trees, Contents, PageTableAssumption, Tables
  <1> HIDE DEF link
  <1>3. U \in Contents /\ Assigned(U, T, t, i, link)
    BY Zenon, <1>1, <1>2, AssignedFacts
  <1>4. \A u \in 1 .. n, j \in Index : U[u][j] = IF u = t /\ j = i THEN link ELSE T[u][j]
    BY <1>2, <1>3 DEF Assigned
  <1>5. \A u \in 1 .. n, j \in Index : lv[u] # 1 => U[u][j] = T[u][j]
    BY <1>4
  <1>6. Linked(U, n, lv)
    BY <1>1, <1>4 DEF Trees, Linked
  <1>7. Unshared(U, n, lv)
    BY <1>5 DEF Trees, Unshared
  <1>8. Open(U, n, lv)
    <2> SUFFICES ASSUME NEW u \in 1 .. n, NEW k \in Index, NEW j \in Index,
                        lv[u] # 1, U[u][k].present, U[U[u][k].address][j].present
                 PROVE  Allows(U[u][k], U[U[u][k].address][j])
      BY Zenon DEF Open
    <2> DEFINE c == T[u][k].address
    <2>1. U[u][k] = T[u][k] /\ T[u][k].present /\ c \in 1 .. n
      <3>1. U[u][k] = T[u][k]
        BY ONLY <1>5, u \in 1 .. n, k \in Index, lv[u] # 1
      <3>2. c \in 1 .. n
        BY ONLY <3>1, u \in 1 .. n, k \in Index, lv[u] # 1, Trees(T, n, lv), U[u][k].present
           DEF Trees, Linked
      <3> QED BY Zenon, <3>1, <3>2
    <2>0. U[U[u][k].address][j] = U[c][j] /\ U[c][j].present
      BY Zenon, <2>1
    <2>2. CASE c = t /\ j = i
      <3>1. Allows(T[u][k], flags)
        BY Zenon, <2>1, <2>2 DEF Above
      <3>2. U[c][j] = link
        <4> HIDE DEF c
        <4> QED BY ONLY SMTT(30), <1>4, <2>1, <2>2, j \in Index
      <3> QED BY Zenon, <1>1, <2>0, <2>1, <3>1, <3>2, AllowsFacts
    <2>3. CASE ~(c = t /\ j = i)
      <3>1. U[c][j] = T[c][j]
        <4> HIDE DEF c
        <4> QED BY ONLY <1>4, <2>1, <2>3, j \in Index
      <3> QED BY Zenon, <2>0, <2>1, <3>1 DEF Open
    <2> QED BY Zenon, <2>2, <2>3
  <1>9. Written(U, T, n, t, i, link)
    BY <1>4 DEF Written
  <1> QED BY <1>2, <1>3, <1>6, <1>7, <1>8, <1>9 DEF Trees, Contents

LEMMA LeafWritten ==
  ASSUME PageTableAssumption, NEW T, NEW n, NEW lv, Trees(T, n, lv),
         NEW pml4 \in 1 .. n, lv[pml4] = 4, NEW v \in Pages, NEW flags \in Flags,
         Sole(n, lv, pml4, index_of(v, 4)),
         NEW t \in 1 .. n, lv[t] = 1, Pml1(T, pml4, v) = t, NEW paddr \in PageFrames,
         NEW U, Written(U, T, n, t, index_of(v, 1), paging_create_entry(paddr, flags)),
         NEW s \in 1 .. n, lv[s] = 4, NEW w \in Pages
  PROVE  Leaf(U, s, w) =
           IF s = pml4 /\ w = v
           THEN [frame |-> paddr, readwrite |-> flags.readwrite, supervisor |-> flags.supervisor]
           ELSE Leaf(T, s, w)
  <1> DEFINE link == paging_create_entry(paddr, flags)
  <1>1. /\ index_of(w, 4) \in Index /\ index_of(w, 3) \in Index
        /\ index_of(w, 2) \in Index /\ index_of(w, 1) \in Index
        /\ index_of(v, 1) \in Index
    BY HalfOfPage
  <1>2. /\ s \in AtLevel(n, lv, 4)
        /\ Pml3(T, s, w) \in AtLevel(n, lv, 3)
        /\ Pml2(T, s, w) \in AtLevel(n, lv, 2)
        /\ Pml1(T, s, w) \in AtLevel(n, lv, 1)
    BY Zenon, WayLevels
  <1>3. \A l \in 2 .. 4 : \A p \in AtLevel(n, lv, l), j \in Index :
          Follow(U, p, j) = Follow(T, p, j)
    BY DEF AtLevel, Follow, Written
  <1>a. 4 \in 2 .. 4 /\ 3 \in 2 .. 4 /\ 2 \in 2 .. 4
    OBVIOUS
  <1>4. Pml3(U, s, w) = Pml3(T, s, w)
    BY ONLY <1>a, <1>1, <1>2, <1>3 DEF Pml3
  <1>5. Pml2(U, s, w) = Pml2(T, s, w)
    BY ONLY Zenon, <1>a, <1>1, <1>2, <1>3, <1>4 DEF Pml2
  <1>6. Pml1(U, s, w) = Pml1(T, s, w)
    BY ONLY Zenon, <1>a, <1>1, <1>2, <1>3, <1>5 DEF Pml1
  <1>7. t # NULL
    BY DEF NULL, Trees
  <1>8. CASE s = pml4 /\ w = v
    <2>1. U[t][index_of(v, 1)] = link
      BY Zenon, <1>1 DEF Written
    <2>2. /\ link.present /\ link.address = paddr /\ link.readwrite = flags.readwrite
          /\ link.supervisor = flags.supervisor
      BY DEF paging_create_entry, Pte
    <2> QED BY Zenon, <1>6, <1>7, <1>8, <2>1, <2>2 DEF Leaf, EntryAt
  <1>9. CASE ~(s = pml4 /\ w = v)
    <2>1. Pml1(T, s, w) # t \/ index_of(w, 1) # index_of(v, 1)
      BY <1>7, <1>9, WayUnique
    <2>2. Pml1(T, s, w) # NULL => Pml1(T, s, w) \in 1 .. n
      BY SMTT(30), <1>2 DEF AtLevel
    <2>3. EntryAt(U, Pml1(T, s, w), index_of(w, 1)) = EntryAt(T, Pml1(T, s, w), index_of(w, 1))
      BY ZenonT(60), <1>1, <2>1, <2>2 DEF EntryAt, Written
    <2> QED BY <1>6, <1>9, <2>3 DEF Leaf
  <1> QED BY <1>8, <1>9

\* A step that leaves the top-level tables alone.
LEMMA LeftAloneToo ==
  ASSUME NEW T0, NEW n0, NEW lv0, NEW T, NEW n \in Nat, NEW lv, NEW pml4 \in 1 .. n0, NEW v,
         NEW flags, n0 \in Nat, index_of(v, 4) \in Index, lv0[pml4] = 4,
         LeftAlone(T0, n0, lv0, T, n, lv, pml4, v, flags),
         NEW U, \A u \in 1 .. n, j \in Index : lv[u] # 1 => U[u][j] = T[u][j]
  PROVE  LeftAlone(T0, n0, lv0, U, n, lv, pml4, v, flags)
  <1>1. \A u \in 1 .. n0 : u \in 1 .. n /\ lv[u] = lv0[u]
    BY DEF LeftAlone
  <1>2. \A u \in 1 .. n0, j \in Index : lv0[u] = 4 => U[u][j] = T[u][j]
    BY <1>1
  <1>3. U[pml4][index_of(v, 4)] = T[pml4][index_of(v, 4)]
    BY Zenon, <1>2
  <1> QED BY <1>2, <1>3 DEF LeftAlone

\* The effect of arch_map_page().
Mapped(pml4, v, paddr, flags, lv) ==
  /\ tlb' = IF tlb.page = v THEN NoTranslation ELSE tlb
  /\ request' = Request(pml4, v, [frame |-> paddr, readwrite |-> flags.readwrite,
                                  supervisor |-> flags.supervisor])
  /\ phase' = phase
  /\ \A s \in 1 .. used, w \in Pages : lv[s] = 4 =>
       Leaf(tables', s, w) = IF s = pml4 /\ w = v
                             THEN [frame |-> paddr, readwrite |-> flags.readwrite,
                                   supervisor |-> flags.supervisor]
                             ELSE Leaf(tables, s, w)
OutOfTables(lv) ==
  /\ phase' = "halted" /\ tlb' = tlb /\ request' = request
  /\ SameLeaves(tables, used, lv, tables')

LEMMA MapSound ==
  ASSUME PageTableAssumption, NEW lv, Trees(tables, used, lv), Open(tables, used, lv),
         NEW pml4 \in 1 .. used, lv[pml4] = 4, NEW v \in Pages, NEW flags \in Flags,
         Sole(used, lv, pml4, index_of(v, 4)), NEW paddr \in PageFrames,
         arch_map_page(pml4, v, paddr, flags)
  PROVE  \E lv2 \in Levels :
           /\ Trees(tables', used', lv2) /\ Open(tables', used', lv2)
           /\ LeftAlone(tables, used, lv, tables', used', lv2, pml4, v, flags)
           /\ Mapped(pml4, v, paddr, flags, lv) \/ OutOfTables(lv)
  <1> DEFINE r == WalkDown(pml4, v, flags)
             i1 == index_of(v, 1)
  <1>1. PICK lv2 \in Levels : WalkState(tables, used, lv, r, lv2, pml4, v, flags, 1)
    BY SMTT(30), WalkSound
  <1>2. /\ used' = r.used
        /\ IF r.ok
           THEN /\ tables' = [r.tables EXCEPT ![r.at][i1] = paging_create_entry(paddr, flags)]
                /\ invlpg(v)
                /\ request' = Request(pml4, v, [frame |-> paddr, readwrite |-> flags.readwrite,
                                                supervisor |-> flags.supervisor])
                /\ UNCHANGED phase
           ELSE /\ tables' = r.tables /\ phase' = "halted" /\ UNCHANGED <<tlb, request>>
    BY Zenon DEF arch_map_page
  <1> HIDE DEF r, i1
  <1>3. /\ r \in Memories /\ Trees(r.tables, r.used, lv2) /\ Open(r.tables, r.used, lv2)
        /\ LeftAlone(tables, used, lv, r.tables, r.used, lv2, pml4, v, flags)
        /\ SameLeaves(tables, used, lv, r.tables)
        /\ Sole(r.used, lv2, pml4, index_of(v, 4))
    BY SMTT(30), <1>1 DEF WalkState
  <1>4. /\ used \in Nat /\ r.used \in Nat /\ i1 \in Index /\ index_of(v, 4) \in Index
        /\ \A u \in 1 .. used : u \in 1 .. r.used /\ lv2[u] = lv[u]
    <2>1. used \in Nat /\ r.used \in Nat
      BY <1>3 DEF Trees, Memories, PageTableAssumption
    <2>2. i1 \in Index /\ index_of(v, 4) \in Index
      BY HalfOfPage DEF i1
    <2>3. used <= r.used /\ \A u \in 1 .. used : lv2[u] = lv[u]
      BY Zenon, <1>3 DEF LeftAlone
    <2>4. \A u \in 1 .. used : u \in 1 .. r.used
      BY <2>1, <2>3
    <2> QED BY Zenon, <2>1, <2>2, <2>3, <2>4
  <1>5. CASE ~r.ok
    <2>1. OutOfTables(lv)
      BY Zenon, <1>2, <1>3, <1>5 DEF OutOfTables
    <2> QED BY Zenon, <1>2, <1>3, <1>5, <2>1
  <1>6. CASE r.ok
    <2>1. /\ r.at \in 1 .. r.used /\ lv2[r.at] = 1
          /\ Above(r.tables, r.used, lv2, r.at, flags)
          /\ Pml1(r.tables, pml4, v) = r.at
      <3>1. Reached(r.tables, pml4, v, 1) = Pml1(r.tables, pml4, v)
        BY DEF Reached
      <3> QED BY Zenon, <1>1, <1>6, <3>1 DEF WalkState
    <2>2. /\ Trees(tables', used', lv2) /\ Open(tables', used', lv2)
          /\ Written(tables', r.tables, r.used, r.at, i1, paging_create_entry(paddr, flags))
      BY SMTT(30), <1>2, <1>3, <1>4, <1>6, <2>1, WriteSound
    <2>3. LeftAlone(tables, used, lv, tables', used', lv2, pml4, v, flags)
      <3>1. \A u \in 1 .. r.used, j \in Index : lv2[u] # 1 => tables'[u][j] = r.tables[u][j]
        BY Zenon, <2>1, <2>2 DEF Written
      <3> QED BY Zenon, <1>2, <1>3, <1>4, <3>1, LeftAloneToo
    <2>4. Mapped(pml4, v, paddr, flags, lv)
      <3>1. ASSUME NEW s \in 1 .. used, NEW w \in Pages, lv[s] = 4
            PROVE  Leaf(tables', s, w) =
                     IF s = pml4 /\ w = v
                     THEN [frame |-> paddr, readwrite |-> flags.readwrite,
                           supervisor |-> flags.supervisor]
                     ELSE Leaf(tables, s, w)
        <4>1. s \in 1 .. r.used /\ lv2[s] = 4 /\ pml4 \in 1 .. r.used /\ lv2[pml4] = 4
          BY Zenon, <1>4, <3>1
        <4>2. Leaf(tables', s, w) =
                IF s = pml4 /\ w = v
                THEN [frame |-> paddr, readwrite |-> flags.readwrite,
                      supervisor |-> flags.supervisor]
                ELSE Leaf(r.tables, s, w)
          BY <1>3, <2>1, <2>2, <4>1, LeafWritten DEF i1
        <4>3. Leaf(r.tables, s, w) = Leaf(tables, s, w)
          BY <1>3, <3>1 DEF SameLeaves
        <4> QED BY <4>2, <4>3
      <3> QED BY Zenon, <1>2, <1>6, <3>1 DEF Mapped, invlpg
    <2> QED BY SMTT(30), <2>2, <2>3, <2>4
  <1> QED BY <1>3, <1>5, <1>6 DEF Memories
=============================================================================
