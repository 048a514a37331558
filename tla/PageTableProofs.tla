-------------------------- MODULE PageTableProofs ---------------------------
(***************************************************************************)
(* Proofs about the page tables, part 3: the invariant, the cached page    *)
(* map, the kernel's half, and that the tables implement address spaces.   *)
(* For any number of spaces and any order of the calls.                    *)
(***************************************************************************)
EXTENDS PageTableWalk

\* The translation, now and after a step.
LEMMA TranslateHere ==
  /\ \A s, v : arch_translate(s, v) = TranslateIn(tables, s, v)
  /\ \A s, v : arch_translate(s, v)' = TranslateIn(tables', s, v)
  BY DEF arch_translate, TranslateIn

LEMMA CacheNext ==
  CacheCoherent' = (tlb' # NoTranslation =>
                      cr3' # NULL /\ tlb'.entry = TranslateIn(tables', cr3', tlb'.page))
  BY DEF CacheCoherent, arch_translate, TranslateIn

\* A step that changes neither the tables nor what is loaded keeps the cached
\* translation what the tables say.
LEMMA CacheKept ==
  ASSUME CachedPage, CacheCoherent, UNCHANGED <<tables, cr3, tlb>>
  PROVE  CachedPage' /\ CacheCoherent'
  <1>1. CachedPage'
    BY Zenon DEF CachedPage
  <1>2. tlb # NoTranslation => cr3 # NULL /\ tlb.entry = TranslateIn(tables, cr3, tlb.page)
    BY Zenon, TranslateHere DEF CacheCoherent
  <1>3. tlb' # NoTranslation =>
          cr3' # NULL /\ tlb'.entry = TranslateIn(tables', cr3', tlb'.page)
    BY Zenon, <1>2
  <1> QED BY Zenon, <1>1, <1>3, CacheNext

LEMMA LayoutFacts ==
  ASSUME PageTableAssumption, TypeOK, NEW lv, Layout(lv)
  PROVE  /\ used \in Nat
         /\ \A s \in PageMaps \cup {cr3} : s # NULL =>
              /\ s \in 1 .. used /\ lv[s] = 4
              /\ \A v \in Pages : arch_translate(s, v) = Leaf(tables, s, v)
  <1>1. used \in Nat
    BY DEF TypeOK, PageTableAssumption
  <1>2. ASSUME NEW s \in PageMaps \cup {cr3}, s # NULL
        PROVE  s \in 1 .. used /\ lv[s] = 4
    BY <1>1, <1>2 DEF Layout, PageMaps, TypeOK, NULL
  <1>3. ASSUME NEW s \in 1 .. used, lv[s] = 4, NEW v \in Pages
        PROVE  arch_translate(s, v) = Leaf(tables, s, v)
    BY <1>3, TranslateHere, TranslateIsLeaf DEF Layout
  <1> QED BY <1>1, <1>2, <1>3

\* Where arch_map_page() is called: in the only page map, for a page of the
\* kernel, or in a new space, for a page of the other half.
Callable(pml4, v, flags) ==
  /\ pml4 \in PageMaps /\ flags \in Flags
  /\ \/ v \in UserPages
     \/ /\ v \in KernelPages /\ phase \in {"paging", "platform"}
        /\ pml4 = kernel_pagemap /\ ~flags.supervisor

LEMMA CallableSole ==
  ASSUME PageTableAssumption, NEW lv, Layout(lv), NEW pml4, NEW v, NEW flags,
         Callable(pml4, v, flags)
  PROVE  Sole(used, lv, pml4, index_of(v, 4))
  <1>1. CASE v \in UserPages
    <2>1. index_of(v, 4) \notin KernelHalf
      BY <1>1, HalfOfPage
    <2> QED BY <2>1 DEF Sole
  <1>2. CASE phase \in {"paging", "platform"} /\ pml4 = kernel_pagemap
    BY <1>2 DEF Layout, OneMap, Sole
  <1> QED BY <1>1, <1>2 DEF Callable

\* The kernel's half after a mapping.
LEMMA HalfKept ==
  ASSUME PageTableAssumption, NEW lv, NEW lv2, TypeOK, Control, Layout(lv),
         NEW pml4, NEW v, NEW flags, Callable(pml4, v, flags), used' \in Nat,
         LeftAlone(tables, used, lv, tables', used', lv2, pml4, v, flags)
  PROVE  /\ SharedHalf(tables', used', lv2, kernel_pagemap)
         /\ phase \in {"paging", "platform"} => OneMap(used', lv2)
  <1> DEFINE top == index_of(v, 4)
  <1>1. \A u \in 1 .. used' : lv2[u] = 4 => u \in 1 .. used /\ lv[u] = 4
    <2> TAKE u \in 1 .. used'
    <2>1. u \in 1 .. used \/ u \in used + 1 .. used'
      BY DEF TypeOK, PageTableAssumption
    <2> QED BY <2>1 DEF LeftAlone
  <1>2. phase \in {"paging", "platform"} => OneMap(used', lv2)
    BY <1>1 DEF Layout, OneMap
  <1>3. v \in Pages /\ pml4 # NULL
    BY DEF Callable, Pages, PageMaps
  <1>4. pml4 \in 1 .. used /\ lv[pml4] = 4
    BY <1>3, LayoutFacts DEF Callable
  <1>5. KernelHalf \subseteq Index
    BY HalfOfPage
  <1>6. kernel_pagemap \in 1 .. used /\ lv[kernel_pagemap] = 4
    <2>1. kernel_pagemap # NULL
      BY <1>4 DEF Control
    <2> QED BY <2>1, LayoutFacts DEF PageMaps
  <1>7. SharedHalf(tables', used', lv2, kernel_pagemap)
    <2> SUFFICES ASSUME NEW u \in 1 .. used', NEW i \in KernelHalf, lv2[u] = 4
                 PROVE  /\ tables'[u][i] = tables'[kernel_pagemap][i]
                        /\ tables'[u][i].present => ~tables'[u][i].supervisor
      BY DEF SharedHalf
    <2>1. u \in 1 .. used /\ lv[u] = 4 /\ i \in Index
      BY <1>1, <1>5
    <2>2. /\ tables[u][i] = tables[kernel_pagemap][i]
          /\ tables[u][i].present => ~tables[u][i].supervisor
      BY <2>1 DEF Layout, SharedHalf
    <2>3. CASE v \in UserPages
      <3>1. i # top
        BY <2>3, HalfOfPage
      <3>2. /\ tables'[u][i] = tables[u][i]
            /\ tables'[kernel_pagemap][i] = tables[kernel_pagemap][i]
        BY <1>6, <2>1, <3>1 DEF LeftAlone
      <3> QED BY <2>2, <3>2
    <2>4. CASE /\ phase \in {"paging", "platform"} /\ pml4 = kernel_pagemap
               /\ ~flags.supervisor
      <3>1. u = kernel_pagemap
        BY <2>1, <2>4 DEF Layout, OneMap
      <3>2. CASE i = top
        BY <2>2, <2>4, <3>1, <3>2 DEF LeftAlone
      <3>3. CASE i # top
        <4>1. tables'[u][i] = tables[u][i]
          BY <2>1, <3>3 DEF LeftAlone
        <4> QED BY <2>2, <3>1, <4>1
      <3> QED BY <3>2, <3>3
    <2> QED BY <2>3, <2>4 DEF Callable
  <1> QED BY <1>2, <1>7

\* A call of arch_map_page() keeps the invariant, and maps the page as asked
\* in this space and no other, or changes no mapping when it stops the kernel.
LEMMA MapPreserves ==
  ASSUME PageTableAssumption, IInv, NEW pml4, NEW v, NEW paddr \in PageFrames, NEW flags,
         Callable(pml4, v, flags), arch_map_page(pml4, v, paddr, flags),
         UNCHANGED <<kernel_pagemap, building, spaces, cr3, created>>,
         maps' \in 0 .. MaxMaps + 1
  PROVE  /\ IInv'
         /\ \/ /\ request' = Request(pml4, v, [frame |-> paddr, readwrite |-> flags.readwrite,
                                                supervisor |-> flags.supervisor])
               /\ \A s \in PageMaps, w \in Pages :
                    arch_translate(s, w)' =
                      IF s = pml4 /\ w = v
                      THEN [frame |-> paddr, readwrite |-> flags.readwrite,
                            supervisor |-> flags.supervisor]
                      ELSE arch_translate(s, w)
            \/ /\ request' = request
               /\ \A s \in PageMaps, w \in Pages : arch_translate(s, w)' = arch_translate(s, w)
  <1>1. PICK lv \in Levels : Layout(lv)
    BY DEF IInv
  <1>2. TypeOK /\ Control /\ CachedPage /\ CacheCoherent
    BY DEF IInv
  <1>3. v \in Pages /\ pml4 # NULL /\ flags \in Flags /\ pml4 \in PageMaps
    BY DEF Callable, Pages, PageMaps
  <1>4. /\ used \in Nat /\ pml4 \in 1 .. used /\ lv[pml4] = 4
        /\ \A s \in PageMaps \cup {cr3} : s # NULL =>
             /\ s \in 1 .. used /\ lv[s] = 4
             /\ \A w \in Pages : arch_translate(s, w) = Leaf(tables, s, w)
    BY <1>1, <1>2, <1>3, LayoutFacts
  <1>5. Trees(tables, used, lv) /\ Open(tables, used, lv) /\ Sole(used, lv, pml4, index_of(v, 4))
    BY <1>1, CallableSole DEF Layout
  <1>6. PICK lv2 \in Levels :
          /\ Trees(tables', used', lv2) /\ Open(tables', used', lv2)
          /\ LeftAlone(tables, used, lv, tables', used', lv2, pml4, v, flags)
          /\ Mapped(pml4, v, paddr, flags, lv) \/ OutOfTables(lv)
    BY <1>3, <1>4, <1>5, MapSound
  <1>7. /\ used' \in 0 .. MaxTables /\ used' \in Nat /\ used <= used'
        /\ \A u \in 1 .. used : u \in 1 .. used' /\ lv2[u] = lv[u]
    <2>1. used' \in 0 .. MaxTables /\ used' \in Nat
      BY <1>6 DEF Trees, PageTableAssumption
    <2>2. used <= used' /\ \A u \in 1 .. used : lv2[u] = lv[u]
      BY <1>6 DEF LeftAlone
    <2> QED BY <1>4, <2>1, <2>2
  <1>8. PageMaps' = PageMaps /\ cr3' = cr3 /\ kernel_pagemap' = kernel_pagemap
    BY DEF PageMaps
  <1>9. /\ SharedHalf(tables', used', lv2, kernel_pagemap)
        /\ phase \in {"paging", "platform"} => OneMap(used', lv2)
    BY Zenon, <1>1, <1>2, <1>6, <1>7, HalfKept
  <1>10. phase' \in {phase, "halted"} /\ phase # "boot"
    <2>1. phase # "boot"
      BY <1>2, <1>4 DEF Control, TypeOK, NULL
    <2> QED BY <1>6, <2>1 DEF Mapped, OutOfTables
  <1>11. TypeOK'
    <2>1. tables' \in [Tables -> [Index -> Ptes]]
      BY <1>6 DEF Trees
    <2>2. kernel_pagemap' \in 0 .. used' /\ building' \in 0 .. used' /\ cr3' \in 0 .. used'
      BY <1>2, <1>4, <1>7, <1>8 DEF TypeOK
    <2>3. spaces' \subseteq 1 .. used'
      BY <1>2, <1>7 DEF TypeOK
    <2>4. phase' \in {"boot", "paging", "platform", "run", "halted"} /\ created' \in 0 .. MaxSpaces
      BY <1>2, <1>10 DEF TypeOK
    <2> QED BY <1>7, <2>1, <2>2, <2>3, <2>4 DEF TypeOK, Ptes
  <1>12. Control'
    <2>1. kernel_pagemap # NULL
      BY <1>2, <1>4 DEF Control
    <2> QED BY <1>2, <1>8, <1>10, <2>1 DEF Control
  <1>13. Layout(lv2)'
    <2>1. \A s \in PageMaps \cup {cr3} : s # NULL => lv2[s] = 4
      BY <1>4, <1>7
    <2>2. phase' \in {"paging", "platform"} => OneMap(used', lv2)
      BY <1>9, <1>10
    <2> QED BY <1>6, <1>8, <1>9, <2>1, <2>2 DEF Layout, OneMap
  <1>14. \A s \in PageMaps \cup {cr3}, w \in Pages : s # NULL =>
           arch_translate(s, w)' = Leaf(tables', s, w)
    <2> SUFFICES ASSUME NEW s \in PageMaps \cup {cr3}, NEW w \in Pages, s # NULL
                 PROVE  TranslateIn(tables', s, w) = Leaf(tables', s, w)
      BY TranslateHere
    <2>1. s \in 1 .. used' /\ lv2[s] = 4
      BY <1>4, <1>7
    <2> QED BY <1>6, <2>1, TranslateIsLeaf
  <1>15. CachedPage' /\ CacheCoherent'
    <2>1. tlb' \in {tlb, NoTranslation} /\ (tlb' # NoTranslation /\ tlb.page = v => OutOfTables(lv))
      BY <1>6 DEF Mapped, OutOfTables
    <2>2. CachedPage'
      BY <1>2, <2>1 DEF CachedPage
    <2>3. ASSUME tlb' # NoTranslation
          PROVE  cr3' # NULL /\ tlb'.entry = TranslateIn(tables', cr3', tlb'.page)
      <3>1. tlb' = tlb /\ tlb # NoTranslation
        BY <2>1, <2>3
      <3>2. cr3 # NULL /\ tlb.entry = arch_translate(cr3, tlb.page) /\ tlb.page \in Pages
        BY <1>2, <3>1 DEF CacheCoherent, CachedPage
      <3>3. Leaf(tables', cr3, tlb.page) = Leaf(tables, cr3, tlb.page)
        <4>1. cr3 \in 1 .. used /\ lv[cr3] = 4
          BY <1>4, <3>2
        <4>2. CASE OutOfTables(lv)
          BY <3>2, <4>1, <4>2 DEF OutOfTables, SameLeaves
        <4>3. CASE Mapped(pml4, v, paddr, flags, lv) /\ tlb.page # v
          BY <3>2, <4>1, <4>3 DEF Mapped
        <4> QED BY <1>6, <2>1, <2>3, <4>2, <4>3
      <3>4. arch_translate(cr3, tlb.page) = TranslateIn(tables', cr3, tlb.page)
        <4>1. arch_translate(cr3, tlb.page) = Leaf(tables, cr3, tlb.page)
          BY <1>4, <3>2
        <4>2. TranslateIn(tables', cr3, tlb.page) = Leaf(tables', cr3, tlb.page)
          <5>1. cr3 \in 1 .. used' /\ lv2[cr3] = 4
            BY <1>4, <1>7, <3>2
          <5> QED BY <1>6, <3>2, <5>1, TranslateIsLeaf
        <4> QED BY <3>3, <4>1, <4>2
      <3> QED BY <1>8, <3>1, <3>2, <3>4
    <2> QED BY Zenon, <2>2, <2>3, CacheNext
  <1>16. IInv'
    BY <1>11, <1>12, <1>13, <1>15 DEF IInv
  <1>17. ASSUME NEW s \in PageMaps, NEW w \in Pages
         PROVE  /\ arch_translate(s, w)' = Leaf(tables', s, w)
                /\ arch_translate(s, w) = Leaf(tables, s, w)
                /\ s \in 1 .. used /\ lv[s] = 4
    BY <1>4, <1>14 DEF PageMaps
  <1>18. CASE Mapped(pml4, v, paddr, flags, lv)
    <2>1. request' = Request(pml4, v, [frame |-> paddr, readwrite |-> flags.readwrite,
                                       supervisor |-> flags.supervisor])
      BY <1>18 DEF Mapped
    <2>2. ASSUME NEW s \in PageMaps, NEW w \in Pages
          PROVE  arch_translate(s, w)' =
                   IF s = pml4 /\ w = v
                   THEN [frame |-> paddr, readwrite |-> flags.readwrite,
                         supervisor |-> flags.supervisor]
                   ELSE arch_translate(s, w)
      BY <1>17, <1>18 DEF Mapped
    <2> QED BY <1>16, <2>1, <2>2
  <1>19. CASE OutOfTables(lv)
    <2>1. request' = request
      BY <1>19 DEF OutOfTables
    <2>2. ASSUME NEW s \in PageMaps, NEW w \in Pages
          PROVE  arch_translate(s, w)' = arch_translate(s, w)
      BY <1>17, <1>19 DEF OutOfTables, SameLeaves
    <2> QED BY <1>16, <2>1, <2>2
  <1> QED BY <1>6, <1>18, <1>19
-----------------------------------------------------------------------------
\* What four entries on the way to a page grant.
Walked(e4, e3, e2, e1) ==
  IF ~e4.present THEN Unmapped
  ELSE IF ~e3.present THEN Unmapped
  ELSE IF ~e2.present THEN Unmapped
  ELSE IF ~e1.present THEN Unmapped
  ELSE [frame      |-> e1.address,
        readwrite  |-> \A e \in {e4, e3, e2, e1} : e.readwrite,
        supervisor |-> \A e \in {e4, e3, e2, e1} : e.supervisor]

\* Tables U that agree with T on the tables in use translate alike through top
\* tables with the same first entry.
LEMMA SameFirstEntry ==
  ASSUME PageTableAssumption, NEW T, NEW n, NEW lv, Trees(T, n, lv), NEW U,
         \A u \in 1 .. n : U[u] = T[u],
         NEW s \in 1 .. n, lv[s] = 4, NEW t, NEW v \in Pages,
         U[t][index_of(v, 4)] = T[s][index_of(v, 4)]
  PROVE  TranslateIn(U, t, v) = TranslateIn(T, s, v)
  <1> DEFINE e4 == T[s][index_of(v, 4)]
             e3 == T[e4.address][index_of(v, 3)]
             e2 == T[e3.address][index_of(v, 2)]
             f4 == U[t][index_of(v, 4)]
             f3 == U[f4.address][index_of(v, 3)]
             f2 == U[f3.address][index_of(v, 2)]
  <1>1. n \in Nat /\ \A l \in 1 .. 4 : index_of(v, l) \in Index
    BY HalfOfPage DEF Trees, PageTableAssumption
  <1>2. e4.present => e4.address \in 1 .. n /\ lv[e4.address] = 3
    BY <1>1 DEF Trees, Linked
  <1>3. e4.present => f3 = e3
    BY SMTT(30), <1>2
  <1>4. e4.present /\ e3.present => e3.address \in 1 .. n /\ lv[e3.address] = 2
    <2>1. \A u \in 1 .. n, i \in Index : lv[u] = 3 /\ T[u][i].present =>
            T[u][i].address \in 1 .. n /\ lv[T[u][i].address] = 2
      BY DEF Trees, Linked
    <2>2. index_of(v, 3) \in Index
      BY <1>1
    <2> QED BY Zenon, <1>2, <2>1, <2>2
  <1>5. e4.present /\ e3.present => f2 = e2
    BY Zenon, <1>3, <1>4
  <1>6. e4.present /\ e3.present /\ e2.present => e2.address \in 1 .. n
    <2>1. \A u \in 1 .. n, i \in Index :
            lv[u] = 2 /\ T[u][i].present => T[u][i].address \in 1 .. n
      BY DEF Trees, Linked
    <2>2. index_of(v, 2) \in Index
      BY SMTT(30), <1>1
    <2> HIDE DEF e4, e3, f4, f3, f2
    <2> QED BY <1>4, <2>1, <2>2
  <1> DEFINE e1 == T[e2.address][index_of(v, 1)]
             f1 == U[f2.address][index_of(v, 1)]
  <1>7. e4.present /\ e3.present /\ e2.present => f1 = e1
    BY Zenon, <1>5, <1>6
  <1>8. TranslateIn(T, s, v) = Walked(e4, e3, e2, e1)
    BY Zenon DEF TranslateIn, Walked
  <1>9. TranslateIn(U, t, v) = Walked(f4, f3, f2, f1)
    BY Zenon DEF TranslateIn, Walked
  <1>f4. f4 = e4
    BY Zenon
  <1> HIDE DEF e4, e3, e2, e1, f4, f3, f2, f1
  <1>10. Walked(f4, f3, f2, f1) = Walked(e4, e3, e2, e1)
    <2>1. CASE ~e4.present
      BY Zenon, <1>f4, <2>1 DEF Walked
    <2>2. CASE e4.present /\ ~e3.present
      BY Zenon, <1>3, <1>f4, <2>2 DEF Walked
    <2>3. CASE e4.present /\ e3.present /\ ~e2.present
      BY Zenon, <1>3, <1>5, <1>f4, <2>3 DEF Walked
    <2>4. CASE e4.present /\ e3.present /\ e2.present
      BY Zenon, <1>3, <1>5, <1>7, <1>f4, <2>4
    <2> QED BY Zenon, <2>1, <2>2, <2>3, <2>4
  <1> QED BY Zenon, <1>8, <1>9, <1>10

\* arch_init_paging() keeps the invariant, and nothing is mapped yet.
LEMMA InitPagingPreserves ==
  ASSUME PageTableAssumption, IInv, arch_init_paging
  PROVE  /\ IInv' /\ PageMaps = {}
         /\ \A s \in PageMaps', v \in Pages : arch_translate(s, v)' = Unmapped
  <1>1. TypeOK /\ Control /\ CachedPage /\ CacheCoherent
    BY DEF IInv
  <1>2. /\ kernel_pagemap = 0 /\ used = 0 /\ cr3 = 0 /\ building = 0 /\ spaces = {}
        /\ UNCHANGED <<building, spaces, cr3, tlb, request, created, maps>>
    BY <1>1 DEF Control, arch_init_paging, NULL
  <1>3. tlb = NoTranslation
    BY <1>1, <1>2 DEF CacheCoherent, NULL
  <1>4. CASE MaxTables = 0
    <2>1. /\ tables' = tables /\ used' = 0 /\ kernel_pagemap' = 0 /\ phase' = "halted"
      BY <1>2, <1>4 DEF arch_init_paging, arch_alloc_page, Memory
    <2>2. TypeOK' /\ Control'
      BY <1>1, <1>2, <2>1 DEF TypeOK, Control, NULL
    <2>3. PageMaps' = {} /\ PageMaps = {}
      BY <1>2, <2>1 DEF PageMaps, NULL
    <2>4. PICK lv \in Levels : Layout(lv)
      BY Zenon DEF IInv
    <2>5. Layout(lv)'
      BY <1>2, <2>1, <2>3, <2>4 DEF Layout, Trees, Linked, Unshared, Open, SharedHalf, NULL
    <2>6. CachedPage' /\ CacheCoherent'
      BY <1>2, <1>3 DEF CachedPage, CacheCoherent
    <2> QED BY <2>2, <2>3, <2>5, <2>6 DEF IInv
  <1>5. CASE MaxTables # 0
    <2> DEFINE lv == [t \in Tables |-> 4]
    <2>1. /\ tables' = [tables EXCEPT ![1] = Zeroed] /\ used' = 1 /\ kernel_pagemap' = 1
          /\ phase' = "paging"
      BY <1>2, <1>5 DEF arch_init_paging, arch_alloc_page, Memory
    <2>2. 1 \in Tables /\ tables \in [Tables -> [Index -> Ptes]]
      BY <1>1, <1>5 DEF Tables, PageTableAssumption, TypeOK, Ptes
    <2>3. /\ Zeroed \in [Index -> Ptes] /\ \A i \in Index : ~Zeroed[i].present
          /\ tables' \in [Tables -> [Index -> Ptes]] /\ tables'[1] = Zeroed
      <3>1. Zeroed \in [Index -> Ptes] /\ \A i \in Index : ~Zeroed[i].present
        BY DEF Zeroed, Pte, Ptes, NULL, PageTableAssumption
      <3> QED BY <2>1, <2>2, <3>1
    <2>4. TypeOK' /\ Control'
      BY <1>1, <1>2, <1>5, <2>1, <2>3 DEF TypeOK, Control, NULL, Ptes, PageTableAssumption
    <2>5. PageMaps' = {1} /\ PageMaps = {}
      BY <1>2, <2>1 DEF PageMaps, NULL
    <2>6. lv \in Levels /\ lv[1] = 4
      BY <2>2 DEF Levels
    <2>7. Trees(tables', 1, lv) /\ Open(tables', 1, lv)
      BY <1>5, <2>3, <2>6 DEF Trees, Linked, Unshared, Open, PageTableAssumption
    <2>8. SharedHalf(tables', 1, lv, 1)
      <3>1. KernelHalf \subseteq Index
        BY DEF KernelHalf, Index, PageTableAssumption
      <3> QED BY <2>3, <3>1 DEF SharedHalf
    <2>9. Layout(lv)'
      BY <1>2, <2>1, <2>5, <2>6, <2>7, <2>8 DEF Layout, OneMap, NULL
    <2>10. CachedPage' /\ CacheCoherent'
      BY SMTT(30), <1>2, <1>3 DEF CachedPage, CacheCoherent
    <2>11. ASSUME NEW s \in PageMaps', NEW v \in Pages
           PROVE  arch_translate(s, v)' = Unmapped
      <3>1. s = 1 /\ ~tables'[1][index_of(v, 4)].present
        BY <2>3, <2>5, HalfOfPage
      <3> QED BY Zenon, <3>1, TranslateHere DEF TranslateIn
    <2> QED BY <2>4, <2>5, <2>6, <2>9, <2>10, <2>11 DEF IInv
  <1> QED BY <1>4, <1>5

\* create_execution_space() keeps the invariant; the new space has the kernel's
\* half and nothing else, and the others are as they were.
LEMMA CreatePreserves ==
  ASSUME PageTableAssumption, IInv, create_execution_space
  PROVE  /\ IInv'
         /\ kernel_pagemap \in PageMaps
         /\ \A s \in PageMaps, v \in Pages : arch_translate(s, v)' = arch_translate(s, v)
         /\ \E n \in Tables \ PageMaps :
              /\ PageMaps' = PageMaps \cup {n}
              /\ \A v \in Pages : arch_translate(n, v)' =
                   IF v \in KernelPages THEN arch_translate(kernel_pagemap, v) ELSE Unmapped
  <1>0. PICK n : n = used + 1
    OBVIOUS
  <1> DEFINE k == kernel_pagemap
  <1>1. TypeOK /\ Control /\ CachedPage /\ CacheCoherent
    BY DEF IInv
  <1>2. PICK lv \in Levels : Layout(lv)
    BY DEF IInv
  <1>3. /\ phase = "run" /\ building = NULL /\ used # MaxTables
        /\ UNCHANGED <<kernel_pagemap, phase, spaces, cr3, tlb, request>>
        /\ created' = created + 1 /\ created < MaxSpaces /\ maps' = 0
        /\ used' = n /\ building' = n
    BY <1>0 DEF create_execution_space, arch_alloc_page, Memory
  <1>4. tables' = [t \in Tables |->
                    IF t # n THEN [tables EXCEPT ![n] = Zeroed][t]
                    ELSE [i \in Index |-> IF i \in KernelHalf THEN tables[k][i]
                                         ELSE [tables EXCEPT ![n] = Zeroed][t][i]]]
    BY <1>0 DEF create_execution_space, arch_alloc_page, Memory, arch_copy_kernel_mappings
  <1>5. /\ used \in Nat /\ n \in Nat /\ n \in Tables /\ n \notin 1 .. used /\ n # 0
        /\ 1 .. n = (1 .. used) \cup {n} /\ n <= MaxTables
    BY <1>0, <1>1, <1>3 DEF TypeOK, PageTableAssumption, Tables
  <1>6. tables \in [Tables -> [Index -> Ptes]] /\ k \in 1 .. used /\ lv[k] = 4 /\ k # NULL
    <2>1. k # NULL
      BY <1>1, <1>3 DEF Control
    <2> QED BY <1>1, <1>2, <2>1, LayoutFacts DEF PageMaps, TypeOK, Ptes
  <1>7. /\ \A u \in 1 .. used : tables'[u] = tables[u]
        /\ \A i \in KernelHalf : tables'[n][i] = tables[k][i]
        /\ \A i \in Index \ KernelHalf : ~tables'[n][i].present
        /\ tables' \in [Tables -> [Index -> Ptes]]
    <2>1. /\ Zeroed \in [Index -> Ptes] /\ \A i \in Index : ~Zeroed[i].present
      BY DEF Zeroed, Pte, Ptes, NULL, PageTableAssumption
    <2> DEFINE Z == [tables EXCEPT ![n] = Zeroed]
    <2>2. /\ Z \in [Tables -> [Index -> Ptes]] /\ Z[n] = Zeroed
          /\ \A u \in Tables : u # n => Z[u] = tables[u]
      BY <1>5, <1>6, <2>1
    <2>3. tables' = [t \in Tables |-> IF t # n THEN Z[t]
                      ELSE [i \in Index |-> IF i \in KernelHalf THEN tables[k][i] ELSE Z[t][i]]]
      BY <1>4
    <2>4. \A u \in 1 .. used : u \in Tables /\ u # n
      BY <1>5 DEF Tables, PageTableAssumption
    <2>5. KernelHalf \subseteq Index /\ k \in Tables
      BY <1>6, <2>4, HalfOfPage
    <2> HIDE DEF Z
    <2>6. \A u \in 1 .. used : tables'[u] = tables[u]
      BY <2>2, <2>3, <2>4
    <2>7. tables'[n] = [i \in Index |-> IF i \in KernelHalf THEN tables[k][i] ELSE Zeroed[i]]
      BY <1>5, <2>2, <2>3
    <2>8. tables' \in [Tables -> [Index -> Ptes]]
      BY <1>6, <2>1, <2>2, <2>3, <2>5
    <2> QED BY <2>1, <2>5, <2>6, <2>7, <2>8
  <1>level. PICK lv2 : lv2 = [lv EXCEPT ![n] = 4]
    BY Zenon
  <1>8. lv2 \in Levels /\ lv2[n] = 4 /\ \A u \in 1 .. used : lv2[u] = lv[u]
    <2>1. \A u \in 1 .. used : u \in Tables /\ u # n
      BY <1>5 DEF Tables, PageTableAssumption
    <2> QED BY <1>5, <1>level, <2>1 DEF Levels
  <1>9. /\ Trees(tables, used, lv) /\ Open(tables, used, lv)
        /\ SharedHalf(tables, used, lv, k)
    BY <1>2 DEF Layout
  <1>10. KernelHalf \subseteq Index
    BY HalfOfPage
  <1> HIDE DEF k
  <1>11. \A i \in Index : tables'[n][i].present => i \in KernelHalf /\ tables'[n][i] = tables[k][i]
    BY <1>7
  <1> DEFINE Origin(x, y, m) == /\ tables'[x][m] = tables[y][m] /\ lv2[x] = lv[y]
                                /\ (x = y \/ (lv2[x] = 4 /\ m \in KernelHalf))
  <1>origin. ASSUME NEW t \in 1 .. n, NEW i \in Index, tables'[t][i].present
          PROVE  \E u \in 1 .. used : Origin(t, u, i)
    <2>1. t \in 1 .. used \/ t = n
      BY Zenon, <1>5
    <2>2. CASE t \in 1 .. used
      <3>1. Origin(t, t, i)
        BY Zenon, <1>7, <1>8, <2>2
      <3> QED BY Zenon, <2>2, <3>1
    <2>3. CASE t = n
      <3>1. Origin(t, k, i)
        BY Zenon, <1>6, <1>8, <1>11, <1>origin, <2>3
      <3>2. k \in 1 .. used
        BY Zenon, <1>6
      <3> QED BY Zenon, <3>1, <3>2
    <2> QED BY Zenon, <2>1, <2>2, <2>3
  <1>12. Linked(tables', n, lv2)
    <2> SUFFICES ASSUME NEW t \in 1 .. n, NEW i \in Index, tables'[t][i].present
                 PROVE  IF lv2[t] = 1 THEN tables'[t][i].address \in PageFrames
                        ELSE /\ tables'[t][i].address \in 1 .. n
                             /\ lv2[tables'[t][i].address] = lv2[t] - 1
      BY DEF Linked
    <2>1. PICK u \in 1 .. used : tables'[t][i] = tables[u][i] /\ lv2[t] = lv[u]
      BY Zenon, <1>origin
    <2>2. IF lv[u] = 1 THEN tables[u][i].address \in PageFrames
          ELSE tables[u][i].address \in 1 .. used /\ lv[tables[u][i].address] = lv[u] - 1
      BY Zenon, <1>9, <2>1 DEF Trees, Linked
    <2> QED BY Zenon, <1>5, <1>8, <2>1, <2>2
  <1>13. Unshared(tables', n, lv2)
    <2> SUFFICES ASSUME NEW t \in 1 .. n, NEW u \in 1 .. n, NEW i \in Index, NEW j \in Index,
                        lv2[t] # 1, lv2[u] # 1, tables'[t][i].present, tables'[u][j].present,
                        tables'[t][i].address = tables'[u][j].address
                 PROVE  i = j /\ (t = u \/ (lv2[t] = 4 /\ lv2[u] = 4 /\ i \in KernelHalf))
      BY DEF Unshared
    <2>1. PICK t0 \in 1 .. used : Origin(t, t0, i)
      BY Zenon, <1>origin
    <2>2. PICK u0 \in 1 .. used : Origin(u, u0, j)
      BY Zenon, <1>origin
    <2>3. i = j /\ (t0 = u0 \/ (lv[t0] = 4 /\ lv[u0] = 4 /\ i \in KernelHalf))
      BY <1>9, <2>1, <2>2 DEF Trees, Unshared
    <2> QED BY <2>1, <2>2, <2>3
  <1>14. Trees(tables', n, lv2)
    BY <1>5, <1>7, <1>8, <1>12, <1>13 DEF Trees
  <1>15. Open(tables', n, lv2)
    <2> SUFFICES ASSUME NEW t \in 1 .. n, NEW i \in Index, NEW j \in Index, lv2[t] # 1,
                        tables'[t][i].present, tables'[tables'[t][i].address][j].present
                 PROVE  Allows(tables'[t][i], tables'[tables'[t][i].address][j])
      BY DEF Open
    <2>1. PICK u \in 1 .. used : tables'[t][i] = tables[u][i] /\ lv2[t] = lv[u]
      BY Zenon, <1>origin
    <2>2. tables[u][i].address \in 1 .. used
      BY Zenon, <1>9, <2>1 DEF Trees, Linked
    <2>3. tables'[tables'[t][i].address][j] = tables[tables[u][i].address][j]
      BY <1>7, <2>1, <2>2
    <2> QED BY Zenon, <1>9, <2>1, <2>3 DEF Open
  <1>16. SharedHalf(tables', n, lv2, k)
    <2> SUFFICES ASSUME NEW t \in 1 .. n, NEW i \in KernelHalf, lv2[t] = 4
                 PROVE  /\ tables'[t][i] = tables'[k][i]
                        /\ tables'[t][i].present => ~tables'[t][i].supervisor
      BY DEF SharedHalf
    <2>1. PICK u \in 1 .. used : tables'[t][i] = tables[u][i] /\ lv[u] = 4
      BY Zenon, <1>5, <1>6, <1>7, <1>8
    <2> QED BY <1>6, <1>7, <1>9, <2>1 DEF SharedHalf
  <1>17. /\ PageMaps' = PageMaps \cup {n} /\ k \in PageMaps
         /\ \A s \in PageMaps \cup {cr3} : s # NULL => s \in 1 .. used /\ lv[s] = 4
    <2>1. \A s \in PageMaps \cup {cr3} : s # NULL => s \in 1 .. used /\ lv[s] = 4
      BY <1>1, <1>2, LayoutFacts
    <2> QED BY <1>3, <1>5, <1>6, <2>1 DEF PageMaps, NULL, k
  <1>18. n \in Tables \ PageMaps
    BY <1>5, <1>17 DEF PageMaps
  <1>19. Layout(lv2)'
    <2>1. \A s \in PageMaps' \cup {cr3'} : s # NULL => lv2[s] = 4
      BY <1>3, <1>8, <1>17
    <2> QED BY <1>3, <1>14, <1>15, <1>16, <2>1 DEF Layout, k
  <1>20. TypeOK'
    <2>1. /\ used' \in 0 .. MaxTables /\ kernel_pagemap' \in 0 .. used'
          /\ building' \in 0 .. used' /\ spaces' \subseteq 1 .. used' /\ cr3' \in 0 .. used'
      BY <1>1, <1>3, <1>5 DEF TypeOK
    <2>2. created' \in 0 .. MaxSpaces /\ maps' \in 0 .. MaxMaps + 1 /\ phase' = "run"
      BY <1>1, <1>3 DEF TypeOK, PageTableAssumption
    <2> QED BY <1>7, <2>1, <2>2 DEF TypeOK, Ptes
  <1>21. Control'
    <2>1. n \notin spaces \cup {kernel_pagemap}
      BY Zenon, <1>1, <1>5, <1>6 DEF TypeOK, k
    <2> QED BY <1>1, <1>3, <1>6, <2>1 DEF Control, k
  <1>22. ASSUME NEW s \in 1 .. used, lv[s] = 4, NEW v \in Pages
         PROVE  TranslateIn(tables', s, v) = TranslateIn(tables, s, v)
    <2>1. tables'[s][index_of(v, 4)] = tables[s][index_of(v, 4)]
      BY <1>7
    <2> QED BY <1>7, <1>9, <1>22, <2>1, SameFirstEntry
  <1>23. CachedPage' /\ CacheCoherent'
    <2>1. CachedPage'
      BY <1>1, <1>3 DEF CachedPage
    <2>2. ASSUME tlb # NoTranslation
          PROVE  cr3 # NULL /\ tlb.entry = TranslateIn(tables', cr3, tlb.page)
      <3>1. cr3 # NULL /\ tlb.page \in Pages /\ tlb.entry = TranslateIn(tables, cr3, tlb.page)
        BY <1>1, <2>2, TranslateHere DEF CacheCoherent, CachedPage
      <3>2. cr3 \in 1 .. used /\ lv[cr3] = 4
        BY <1>17, <3>1
      <3> QED BY <1>22, <3>1, <3>2
    <2> QED BY Zenon, <1>3, <2>1, <2>2, CacheNext
  <1>24. IInv'
    BY <1>8, <1>19, <1>20, <1>21, <1>23 DEF IInv
  <1>25. ASSUME NEW s \in PageMaps, NEW v \in Pages
         PROVE  arch_translate(s, v)' = arch_translate(s, v)
    <2>1. s \in 1 .. used /\ lv[s] = 4
      BY <1>17 DEF PageMaps
    <2> QED BY <1>22, <2>1, TranslateHere
  <1>26. ASSUME NEW v \in Pages
         PROVE  TranslateIn(tables', n, v) =
                  IF v \in KernelPages THEN arch_translate(k, v) ELSE Unmapped
    <2>1. CASE v \in KernelPages
      <3>1. tables'[n][index_of(v, 4)] = tables[k][index_of(v, 4)]
        BY Zenon, <1>7, <2>1, HalfOfPage
      <3>2. TranslateIn(tables', n, v) = TranslateIn(tables, k, v)
        BY SMTT(30), <1>6, <1>7, <1>9, <3>1, SameFirstEntry
      <3> QED BY <2>1, <3>2, TranslateHere
    <2>2. CASE v \notin KernelPages
      <3>1. ~tables'[n][index_of(v, 4)].present
        BY <1>7, <2>2, HalfOfPage DEF Pages
      <3> QED BY Zenon, <2>2, <3>1 DEF TranslateIn
    <2> QED BY <2>1, <2>2
  <1>27. \A v \in Pages : arch_translate(n, v)' = TranslateIn(tables', n, v)
    BY TranslateHere
  <1> QED BY <1>17, <1>18, <1>24, <1>25, <1>26, <1>27 DEF k

\* A step that writes no table keeps the trees.
LEMMA TablesKept ==
  ASSUME PageTableAssumption, NEW lv \in Levels, Layout(lv),
         UNCHANGED <<tables, used, kernel_pagemap>>,
         PageMaps' \subseteq PageMaps, cr3' \in PageMaps \cup {cr3},
         phase' \in {"paging", "platform"} => phase \in {"paging", "platform"}
  PROVE  Layout(lv)'
  <1>1. /\ Trees(tables', used', lv) /\ Open(tables', used', lv)
        /\ SharedHalf(tables', used', lv, kernel_pagemap')
    BY DEF Layout
  <1>2. \A s \in PageMaps' \cup {cr3'} : s # NULL => lv[s] = 4
    BY DEF Layout
  <1>3. phase' \in {"paging", "platform"} => OneMap(used, lv)'
    BY DEF Layout, OneMap
  <1> QED BY <1>1, <1>2, <1>3 DEF Layout

\* The steps that write no table: switches of page maps, the end of boot and of a
\* creation, and the processor's accesses.
QuietStep ==
  \/ arch_switch_to_kernel_pagemap
  \/ EnterKernMain
  \/ FinishSpace
  \/ \E s \in Tables : arch_switch_pagemap(s)
  \/ \E v \in Pages : Access(v)
  \/ UNCHANGED vars

LEMMA QuietPreserves ==
  ASSUME PageTableAssumption, IInv, QuietStep
  PROVE  IInv'
  <1>1. TypeOK /\ Control /\ CachedPage /\ CacheCoherent
    BY DEF IInv
  <1>2. PICK lv \in Levels : Layout(lv)
    BY DEF IInv
  <1>3. TypeOK
    BY <1>1
  <1>4. \A T, e, c, p : Translation(p, e).page = p /\ Translation(p, e).entry = e
    BY DEF Translation
  <1>5. CASE arch_switch_to_kernel_pagemap
    <2>1. /\ UNCHANGED <<tables, used, kernel_pagemap, building, spaces, request, created, maps>>
          /\ phase = "paging" /\ phase' = "platform" /\ cr3' = kernel_pagemap
          /\ tlb' = NoTranslation
      BY <1>5 DEF arch_switch_to_kernel_pagemap, wrcr3
    <2>2. TypeOK' /\ Control'
      BY <1>1, <2>1 DEF TypeOK, Control
    <2>3. PageMaps' = PageMaps /\ kernel_pagemap \in PageMaps
      BY <1>1, <2>1 DEF PageMaps, Control
    <2>4. Layout(lv)'
      BY <1>2, <2>1, <2>3, TablesKept
    <2> QED BY <2>1, <2>2, <2>4 DEF IInv, CachedPage, CacheCoherent
  <1>6. CASE EnterKernMain
    <2>1. /\ UNCHANGED <<tables, used, kernel_pagemap, building, spaces, cr3, tlb, created, maps>>
          /\ phase = "platform" /\ phase' = "run"
      BY Zenon, <1>6 DEF EnterKernMain
    <2>2. TypeOK' /\ Control' /\ PageMaps' = PageMaps
      BY <1>1, <2>1 DEF TypeOK, Control, PageMaps
    <2>3. Layout(lv)'
      BY SMTT(30), <1>2, <2>1, <2>2, TablesKept
    <2>4. CachedPage' /\ CacheCoherent'
      BY Zenon, <1>1, <2>1, CacheKept
    <2> QED BY <2>2, <2>3, <2>4 DEF IInv
  <1>7. CASE FinishSpace
    <2>1. /\ UNCHANGED <<tables, used, kernel_pagemap, phase, cr3, tlb, created, maps>>
          /\ phase = "run" /\ building # NULL /\ building' = NULL
          /\ spaces' \in {spaces, spaces \cup {building}}
      BY <1>7 DEF FinishSpace
    <2>2. building \in 1 .. used
      BY <1>1, <2>1 DEF TypeOK, NULL, PageTableAssumption
    <2>3. TypeOK' /\ Control'
      BY <1>1, <2>1, <2>2 DEF TypeOK, Control, NULL
    <2>4. PageMaps' \subseteq PageMaps
      BY <2>1 DEF PageMaps
    <2>5. Layout(lv)'
      BY <1>2, <2>1, <2>4, TablesKept
    <2>6. CachedPage' /\ CacheCoherent'
      BY Zenon, <1>1, <2>1, CacheKept
    <2> QED BY <2>3, <2>5, <2>6 DEF IInv
  <1>8. CASE \E s \in Tables : arch_switch_pagemap(s)
    <2>1. PICK s \in Tables : arch_switch_pagemap(s)
      BY <1>8
    <2>2. /\ UNCHANGED <<tables, used, kernel_pagemap, phase, building, spaces, created, maps>>
          /\ phase = "run" /\ s \in spaces /\ cr3' = s /\ tlb' = NoTranslation
      BY <2>1 DEF arch_switch_pagemap, wrcr3
    <2>3. s \in 1 .. used /\ s # NULL
      BY <1>1, <2>2 DEF TypeOK, NULL
    <2>4. TypeOK' /\ Control' /\ PageMaps' = PageMaps /\ s \in PageMaps
      <3>1. s \in 0 .. used
        BY <2>3
      <3> QED BY <1>1, <2>2, <2>3, <3>1 DEF TypeOK, Control, PageMaps
    <2>5. Layout(lv)'
      BY <1>2, <2>2, <2>4, TablesKept
    <2> QED BY <2>2, <2>4, <2>5 DEF IInv, CachedPage, CacheCoherent
  <1>9. CASE \E v \in Pages : Access(v)
    <2>1. PICK v \in Pages : Access(v)
      BY <1>9
    <2>2. /\ UNCHANGED <<tables, used, kernel_pagemap, phase, building, spaces, cr3, created, maps>>
          /\ cr3 # NULL /\ tlb' = Translation(v, arch_translate(cr3, v))
      BY Zenon, <2>1 DEF Access
    <2>3. TypeOK' /\ Control' /\ PageMaps' = PageMaps
      BY <1>1, <2>2 DEF TypeOK, Control, PageMaps
    <2>4. Layout(lv)'
      BY <1>2, <2>2, <2>3, TablesKept
    <2>5. tlb'.page = v /\ tlb'.entry = arch_translate(cr3, v)
      BY <1>4, <2>2
    <2>6. CachedPage'
      BY <2>5 DEF CachedPage
    <2>7. CacheCoherent'
      BY Zenon, <2>2, <2>5, TranslateHere, CacheNext
    <2> QED BY <2>3, <2>4, <2>6, <2>7 DEF IInv
  <1>10. CASE UNCHANGED vars
    <2>1. TypeOK' /\ Control' /\ PageMaps' = PageMaps
      BY <1>1, <1>10 DEF vars, TypeOK, Control, PageMaps
    <2>2. Layout(lv)'
      BY <1>2, <1>10, <2>1, TablesKept DEF vars
    <2>3. CachedPage' /\ CacheCoherent'
      BY Zenon, <1>1, <1>10, CacheKept DEF vars
    <2> QED BY <2>1, <2>2, <2>3 DEF IInv
  <1> QED BY <1>5, <1>6, <1>7, <1>8, <1>9, <1>10 DEF QuietStep
-----------------------------------------------------------------------------
\* The three places that call arch_map_page(): each has a page map in existence.
MapStep ==
  \/ \E v \in KernelPages, paddr \in PageFrames,
        flags \in {MAP_READONLY, MAP_KERN} : MapKernelPage(v, paddr, flags)
  \/ \E v \in KernelPages, paddr \in PageFrames : MapDevice(v, paddr)
  \/ \E v \in UserPages, paddr \in PageFrames,
        flags \in {MAP_USER_RW, MAP_USER_RO} : MapUserPage(v, paddr, flags)

MapCall(pml4, v, paddr, flags) ==
  /\ Callable(pml4, v, flags) /\ arch_map_page(pml4, v, paddr, flags)
  /\ UNCHANGED <<kernel_pagemap, building, spaces, cr3, created>>
  /\ maps' \in 0 .. MaxMaps + 1

LEMMA MapCalls ==
  ASSUME PageTableAssumption, IInv, MapStep
  PROVE  \E pml4 \in PageMaps, v \in Pages, paddr \in PageFrames, flags \in Flags :
           MapCall(pml4, v, paddr, flags)
  <1>1. TypeOK /\ Control
    BY DEF IInv
  <1>2. /\ MAP_READONLY \in Flags /\ ~MAP_READONLY.supervisor
        /\ MAP_KERN \in Flags /\ ~MAP_KERN.supervisor
        /\ MAP_USER_RW \in Flags /\ MAP_USER_RO \in Flags
    BY DEF MAP_READONLY, MAP_KERN, MAP_USER_RW, MAP_USER_RO, Flags
  <1>3. phase \in {"paging", "platform"} => kernel_pagemap \in PageMaps
    BY <1>1 DEF Control, PageMaps
  <1>4. (maps < MaxMaps \/ maps <= MaxMaps) /\ maps' = maps + 1 => maps' \in 0 .. MaxMaps + 1
    BY <1>1 DEF TypeOK, PageTableAssumption
  <1>5. CASE \E v \in KernelPages, paddr \in PageFrames,
               flags \in {MAP_READONLY, MAP_KERN} : MapKernelPage(v, paddr, flags)
    <2>1. PICK v \in KernelPages, paddr \in PageFrames, flags \in {MAP_READONLY, MAP_KERN} :
            MapKernelPage(v, paddr, flags)
      BY <1>5
    <2>2. MapCall(kernel_pagemap, v, paddr, flags)
      BY <1>2, <1>3, <1>4, <2>1 DEF MapKernelPage, MapCall, Callable
    <2>3. kernel_pagemap \in PageMaps /\ v \in Pages /\ flags \in Flags
      BY <1>2, <1>3, <2>1 DEF MapKernelPage, Pages
    <2> QED BY <2>2, <2>3
  <1>6. CASE \E v \in KernelPages, paddr \in PageFrames : MapDevice(v, paddr)
    <2>1. PICK v \in KernelPages, paddr \in PageFrames : MapDevice(v, paddr)
      BY <1>6
    <2>2. cr3 = kernel_pagemap
      BY <1>1, <2>1 DEF Control, MapDevice
    <2>3. MapCall(kernel_pagemap, v, paddr, MAP_KERN)
      BY <1>2, <1>3, <1>4, <2>1, <2>2 DEF MapDevice, MapCall, Callable
    <2>4. kernel_pagemap \in PageMaps /\ v \in Pages
      BY <1>3, <2>1 DEF MapDevice, Pages
    <2> QED BY <1>2, <2>3, <2>4
  <1>7. CASE \E v \in UserPages, paddr \in PageFrames,
               flags \in {MAP_USER_RW, MAP_USER_RO} : MapUserPage(v, paddr, flags)
    <2>1. PICK v \in UserPages, paddr \in PageFrames, flags \in {MAP_USER_RW, MAP_USER_RO} :
            MapUserPage(v, paddr, flags)
      BY <1>7
    <2>2. building \in PageMaps /\ v \in Pages /\ flags \in Flags
      BY <1>2, <2>1 DEF MapUserPage, Pages, PageMaps
    <2>3. MapCall(building, v, paddr, flags)
      BY <1>4, <2>1, <2>2 DEF MapUserPage, MapCall, Callable
    <2> QED BY <2>2, <2>3
  <1> QED BY <1>5, <1>6, <1>7 DEF MapStep

LEMMA StepCases ==
  ASSUME [Next]_vars
  PROVE  arch_init_paging \/ MapStep \/ create_execution_space \/ QuietStep
  BY DEF Next, MapStep, QuietStep

LEMMA InitIInv ==
  ASSUME PageTableAssumption, Init
  PROVE  IInv
  <1>1. TypeOK /\ Control
    <2>1. Garbage \in [Index -> [present : BOOLEAN, readwrite : BOOLEAN, supervisor : BOOLEAN,
                                 address : (0 .. MaxTables) \cup PageFrames]] \/ MaxTables = 0
      BY DEF Garbage, Pte, PageTableAssumption
    <2>2. MaxTables = 0 => Tables = {}
      BY DEF Tables
    <2> QED BY <2>1, <2>2 DEF Init, TypeOK, Control, NULL, PageTableAssumption
  <1>2. CachedPage /\ CacheCoherent
    BY DEF Init, CachedPage, CacheCoherent
  <1> DEFINE lv == [t \in Tables |-> 4]
  <1>3. lv \in Levels
    BY DEF Levels
  <1>4. PageMaps = {} /\ used = 0 /\ cr3 = NULL /\ phase = "boot"
    BY DEF Init, PageMaps, NULL
  <1>5. tables \in [Tables -> [Index -> Ptes]]
    BY Zenon, <1>1 DEF TypeOK, Ptes
  <1>6. Layout(lv)
    BY <1>3, <1>4, <1>5 DEF Layout, Trees, Linked, Unshared, Open, SharedHalf, PageTableAssumption
  <1> QED BY Zenon, <1>1, <1>2, <1>3, <1>6 DEF IInv

LEMMA StepIInv ==
  ASSUME PageTableAssumption, IInv, [Next]_vars
  PROVE  IInv'
  <1>1. CASE arch_init_paging
    BY <1>1, InitPagingPreserves
  <1>2. CASE MapStep
    <2>1. PICK pml4 \in PageMaps, v \in Pages, paddr \in PageFrames, flags \in Flags :
            MapCall(pml4, v, paddr, flags)
      BY <1>2, MapCalls
    <2> QED BY Zenon, <2>1, MapPreserves DEF MapCall
  <1>3. CASE create_execution_space
    BY <1>3, CreatePreserves
  <1>4. CASE QuietStep
    BY <1>4, QuietPreserves
  <1> QED BY <1>1, <1>2, <1>3, <1>4, StepCases

\* In every reachable state the tables in use form four-level trees under the page
\* maps, shared in the kernel's half only, with every entry open for what is
\* behind it: vmm_pml_advance(), arch_map_page(), create_execution_space().
THEOREM PageTableInvariant ==
  ASSUME PageTableAssumption
  PROVE  Spec => []IInv
  <1>1. Init => IInv
    BY InitIInv
  <1>2. IInv /\ [Next]_vars => IInv'
    BY StepIInv
  <1> QED BY <1>1, <1>2, PTL DEF Spec

\* Whatever the processor has cached is what the tables in use say: no mapping of
\* a page goes without invlpg(), no switch of page maps keeps a translation.
THEOREM CacheIsCoherent ==
  ASSUME PageTableAssumption
  PROVE  Spec => []CacheCoherent
  <1>1. IInv => CacheCoherent
    BY DEF IInv
  <1> QED BY <1>1, PageTableInvariant, PTL

LEMMA HalfIsKept ==
  ASSUME PageTableAssumption, IInv
  PROVE  KernelHalfKept
  <1>1. PICK lv \in Levels : Layout(lv)
    BY DEF IInv
  <1>2. TypeOK /\ Control
    BY DEF IInv
  <1>3. ASSUME NEW s \in PageMaps, NEW v \in KernelPages
        PROVE  /\ arch_translate(s, v) = arch_translate(kernel_pagemap, v)
               /\ arch_translate(s, v) # Unmapped => ~arch_translate(s, v).supervisor
    <2>1. s \in 1 .. used /\ lv[s] = 4 /\ v \in Pages
      BY <1>1, <1>2, LayoutFacts DEF PageMaps, Pages
    <2>2. kernel_pagemap \in 1 .. used /\ lv[kernel_pagemap] = 4
      <3>1. kernel_pagemap # NULL
        BY <1>2, <2>1 DEF Control
      <3> QED BY <1>1, <1>2, <3>1, LayoutFacts DEF PageMaps
    <2>3. /\ tables[s][index_of(v, 4)] = tables[kernel_pagemap][index_of(v, 4)]
          /\ tables[s][index_of(v, 4)].present => ~tables[s][index_of(v, 4)].supervisor
      BY Zenon, <1>1, <2>1, HalfOfPage DEF Layout, SharedHalf
    <2>4. TranslateIn(tables, s, v) = TranslateIn(tables, kernel_pagemap, v)
      BY SMTT(30), <1>1, <2>1, <2>2, <2>3, SameFirstEntry DEF Layout
    <2>5. TranslateIn(tables, s, v) # Unmapped => ~TranslateIn(tables, s, v).supervisor
      BY Zenon, <2>3 DEF TranslateIn
    <2> QED BY <2>4, <2>5, TranslateHere
  <1> QED BY <1>2, <1>3 DEF KernelHalfKept, KernelHalfShared, KernelHalfProtected

\* Every space has the kernel's half exactly as the kernel's page map has it, and
\* no page of it is open to user mode: arch_copy_kernel_mappings().
THEOREM KernelHalfIsKept ==
  ASSUME PageTableAssumption
  PROVE  Spec => []KernelHalfKept
  <1>1. IInv => KernelHalfKept
    BY HalfIsKept
  <1> QED BY <1>1, PageTableInvariant, PTL
-----------------------------------------------------------------------------
LEMMA PageMapsAreTables ==
  ASSUME PageTableAssumption, TypeOK
  PROVE  PageMaps \subseteq Tables
  BY DEF PageMaps, TypeOK, Tables, NULL, PageTableAssumption

LEMMA SameMapping ==
  ASSUME PageMaps' = PageMaps,
         \A s \in PageMaps, v \in Pages : arch_translate(s, v)' = arch_translate(s, v)
  PROVE  Mapping' = Mapping
  BY DEF Mapping

\* A table of tables that differs in one place, or in one row.
TwoLevel(M) == M = [s \in Tables |-> [v \in Pages |-> M[s][v]]]

LEMMA OnePlace ==
  ASSUME NEW M, NEW N, TwoLevel(M), TwoLevel(N), NEW s \in Tables, NEW v \in Pages, NEW x,
         \A t \in Tables, w \in Pages : N[t][w] = IF t = s /\ w = v THEN x ELSE M[t][w]
  PROVE  N = [M EXCEPT ![s][v] = x]
  <1>1. /\ N = [t \in Tables |-> N[t]] /\ \A t \in Tables : N[t] = [w \in Pages |-> N[t][w]]
    BY DEF TwoLevel
  <1>2. /\ M = [t \in Tables |-> M[t]] /\ \A t \in Tables : M[t] = [w \in Pages |-> M[t][w]]
    BY DEF TwoLevel
  <1>3. N[s] = [M[s] EXCEPT ![v] = x]
    BY <1>1, <1>2
  <1>4. \A t \in Tables : t # s => N[t] = M[t]
    <2> SUFFICES ASSUME NEW t \in Tables, t # s PROVE N[t] = M[t]
      OBVIOUS
    <2>1. \A w \in Pages : N[t][w] = M[t][w]
      OBVIOUS
    <2> QED BY <1>1, <1>2, <2>1
  <1> QED BY Zenon, <1>1, <1>2, <1>3, <1>4

LEMMA OneRow ==
  ASSUME NEW M, NEW N, TwoLevel(M), TwoLevel(N), NEW s \in Tables, NEW R,
         R = [v \in Pages |-> R[v]],
         \A t \in Tables, w \in Pages : N[t][w] = IF t = s THEN R[w] ELSE M[t][w]
  PROVE  N = [M EXCEPT ![s] = R]
  <1>1. /\ N = [t \in Tables |-> N[t]] /\ \A t \in Tables : N[t] = [w \in Pages |-> N[t][w]]
    BY DEF TwoLevel
  <1>2. /\ M = [t \in Tables |-> M[t]] /\ \A t \in Tables : M[t] = [w \in Pages |-> M[t][w]]
    BY DEF TwoLevel
  <1>3. N[s] = R
    BY <1>1
  <1>4. \A t \in Tables : t # s => N[t] = M[t]
    <2> SUFFICES ASSUME NEW t \in Tables, t # s PROVE N[t] = M[t]
      OBVIOUS
    <2>1. \A w \in Pages : N[t][w] = M[t][w]
      OBVIOUS
    <2> QED BY <1>1, <1>2, <2>1
  <1> QED BY <1>1, <1>2, <1>3, <1>4

LEMMA MappingTwoLevel == TwoLevel(Mapping) /\ TwoLevel(Mapping')
  <1>1. TwoLevel(Mapping)
    BY DEF TwoLevel, Mapping
  <1>2. TwoLevel(Mapping')
    BY DEF TwoLevel, Mapping
  <1> QED BY <1>1, <1>2

LEMMA MapIsMap ==
  ASSUME PageTableAssumption, IInv, MapStep
  PROVE  A!Map \/ UNCHANGED <<Mapping, request>>
  <1>1. PICK pml4 \in PageMaps, v \in Pages, paddr \in PageFrames, flags \in Flags :
          MapCall(pml4, v, paddr, flags)
    BY MapCalls
  <1>2. PICK asked : asked = [frame |-> paddr, readwrite |-> flags.readwrite,
                              supervisor |-> flags.supervisor]
    BY Zenon
  <1>3. \/ /\ request' = Request(pml4, v, asked)
           /\ \A s \in PageMaps, w \in Pages :
                arch_translate(s, w)' = IF s = pml4 /\ w = v THEN asked ELSE arch_translate(s, w)
        \/ /\ request' = request
           /\ \A s \in PageMaps, w \in Pages : arch_translate(s, w)' = arch_translate(s, w)
    BY <1>1, <1>2, MapPreserves DEF MapCall
  <1>4. PageMaps' = PageMaps
    BY <1>1 DEF MapCall, PageMaps
  <1>5. pml4 \in Tables
    BY PageMapsAreTables DEF IInv
  <1>6. CASE /\ request' = Request(pml4, v, asked)
             /\ \A s \in PageMaps, w \in Pages :
                  arch_translate(s, w)' = IF s = pml4 /\ w = v THEN asked ELSE arch_translate(s, w)
    <2>1. request'.space = pml4 /\ request'.page = v /\ request'.entry = asked
      BY <1>6 DEF Request
    <2>2. asked \in Mappings
      BY <1>2 DEF Mappings, Flags
    <2>3. Mapping' = [Mapping EXCEPT ![pml4][v] = asked]
      <3>1. Mapping' = [s \in Tables |-> [w \in Pages |->
                          IF s = pml4 /\ w = v THEN asked
                          ELSE IF s \in PageMaps THEN arch_translate(s, w) ELSE Unmapped]]
        BY <1>4, <1>6 DEF Mapping
      <3>2. \A s \in Tables, w \in Pages :
              Mapping'[s][w] = IF s = pml4 /\ w = v THEN asked ELSE Mapping[s][w]
        BY <3>1 DEF Mapping
      <3> QED BY <1>5, <3>2, OnePlace, MappingTwoLevel
    <2> QED BY <2>1, <2>2, <2>3 DEF A!Map
  <1>7. CASE /\ request' = request
             /\ \A s \in PageMaps, w \in Pages : arch_translate(s, w)' = arch_translate(s, w)
    BY <1>4, <1>7, SameMapping
  <1> QED BY <1>3, <1>6, <1>7

LEMMA CreateIsShare ==
  ASSUME PageTableAssumption, IInv, create_execution_space
  PROVE  \E kernel, s \in Tables : A!Share(kernel, s)
  <1>1. PICK n \in Tables \ PageMaps :
          /\ PageMaps' = PageMaps \cup {n}
          /\ \A v \in Pages : arch_translate(n, v)' =
               IF v \in KernelPages THEN arch_translate(kernel_pagemap, v) ELSE Unmapped
    BY CreatePreserves
  <1>2. /\ kernel_pagemap \in PageMaps
        /\ \A s \in PageMaps, v \in Pages : arch_translate(s, v)' = arch_translate(s, v)
    BY CreatePreserves
  <1>3. PageMaps \subseteq Tables
    BY PageMapsAreTables DEF IInv
  <1>4. PICK k \in PageMaps : k = kernel_pagemap
    BY <1>2
  <1>5. request' = request
    BY DEF create_execution_space
  <1>6. Mapping[n] = [v \in Pages |-> Unmapped]
    BY <1>1 DEF Mapping
  <1>7. Mapping' = [Mapping EXCEPT ![n] =
                      [v \in Pages |-> IF v \in KernelPages THEN Mapping[k][v] ELSE Unmapped]]
    <2>1. Mapping' = [s \in Tables |-> [v \in Pages |->
             IF s = n THEN IF v \in KernelPages THEN arch_translate(k, v) ELSE Unmapped
             ELSE IF s \in PageMaps THEN arch_translate(s, v) ELSE Unmapped]]
      BY <1>1, <1>2, <1>4 DEF Mapping
    <2>2. \A v \in Pages : Mapping[k][v] = arch_translate(k, v)
      BY <1>3, <1>4 DEF Mapping
    <2>3. PICK R : R = [v \in Pages |-> IF v \in KernelPages THEN Mapping[k][v] ELSE Unmapped]
      BY Zenon
    <2>4. R = [v \in Pages |-> R[v]]
      BY <2>3
    <2>5. \A s \in Tables, v \in Pages :
            Mapping'[s][v] = IF s = n THEN R[v] ELSE Mapping[s][v]
      <3>1. \A v \in Pages :
              R[v] = IF v \in KernelPages THEN arch_translate(k, v) ELSE Unmapped
        BY <2>2, <2>3
      <3> QED BY <2>1, <3>1 DEF Mapping
    <2> QED BY <2>3, <2>4, <2>5, OneRow, MappingTwoLevel
  <1>8. A!Share(k, n)
    BY <1>5, <1>6, <1>7 DEF A!Share
  <1> QED BY <1>1, <1>3, <1>4, <1>8

LEMMA QuietIsQuiet ==
  ASSUME PageTableAssumption, IInv, QuietStep
  PROVE  (\E s \in Tables : A!Drop(s)) \/ UNCHANGED <<Mapping, request>>
  <1>1. UNCHANGED <<tables, request, kernel_pagemap>>
    BY DEF QuietStep, arch_switch_to_kernel_pagemap, EnterKernMain, FinishSpace,
           arch_switch_pagemap, Access, vars
  <1>2. \A s, v : arch_translate(s, v)' = arch_translate(s, v)
    BY Zenon, <1>1, TranslateHere
  <1>3. CASE PageMaps' = PageMaps
    BY <1>1, <1>2, <1>3, SameMapping
  <1>4. CASE FinishSpace /\ spaces' = spaces
    <2>1. building \in PageMaps /\ building \notin spaces \cup {kernel_pagemap}
      BY <1>4 DEF FinishSpace, PageMaps, IInv, Control
    <2>2. PICK b \in Tables : b = building
      BY <2>1, PageMapsAreTables DEF IInv
    <2>3. PageMaps' = PageMaps \ {b}
      BY <1>1, <1>4, <2>1, <2>2 DEF FinishSpace, PageMaps
    <2>4. Mapping' = [Mapping EXCEPT ![b] = [v \in Pages |-> Unmapped]]
      <3>1. Mapping' = [s \in Tables |-> [v \in Pages |->
               IF s \in PageMaps \ {b} THEN arch_translate(s, v) ELSE Unmapped]]
        BY <1>2, <2>3 DEF Mapping
      <3> QED BY Zenon, <2>2, <3>1 DEF Mapping
    <2> QED BY Zenon, <1>1, <2>2, <2>4 DEF A!Drop
  <1>5. CASE FinishSpace /\ spaces' = spaces \cup {building}
    <2>1. PageMaps' = PageMaps
      BY Zenon, <1>1, <1>5 DEF FinishSpace, PageMaps
    <2> QED BY <1>3, <2>1
  <1>6. CASE ~FinishSpace
    <2>1. UNCHANGED <<building, spaces>>
      BY <1>6 DEF QuietStep, arch_switch_to_kernel_pagemap, EnterKernMain, FinishSpace,
                  arch_switch_pagemap, Access, vars
    <2>2. PageMaps' = PageMaps
      BY <1>1, <2>1 DEF PageMaps
    <2> QED BY <1>3, <2>2
  <1> QED BY Zenon, <1>4, <1>5, <1>6 DEF FinishSpace

\* The page tables implement flat address spaces: arch_map_page() gives a page of
\* one space the frame and exactly the access asked for, whatever was mapped
\* through the same tables before, and changes no other page of any space; a
\* mapping that runs out of tables half-way changes none.
THEOREM TablesAreAddressSpaces ==
  ASSUME PageTableAssumption
  PROVE  Spec => ImplementsAddressSpace
  <1>1. Init => A!Init
    BY DEF Init, A!Init, Mapping, PageMaps, NULL, Request
  <1>2. IInv /\ [Next]_vars => [A!Next]_<<Mapping, request>>
    <2> SUFFICES ASSUME IInv, [Next]_vars
                 PROVE  A!Next \/ UNCHANGED <<Mapping, request>>
      OBVIOUS
    <2>1. CASE arch_init_paging
      <3>1. request' = request
        BY <2>1 DEF arch_init_paging
      <3>2. /\ PageMaps = {}
            /\ \A s \in PageMaps', v \in Pages : arch_translate(s, v)' = Unmapped
        BY <2>1, InitPagingPreserves
      <3>3. Mapping' = Mapping
        BY <3>2 DEF Mapping
      <3> QED BY <3>1, <3>3
    <2>2. CASE MapStep
      BY <2>2, MapIsMap DEF A!Next
    <2>3. CASE create_execution_space
      BY <2>3, CreateIsShare DEF A!Next
    <2>4. CASE QuietStep
      BY <2>4, QuietIsQuiet DEF A!Next
    <2> QED BY <2>1, <2>2, <2>3, <2>4, StepCases
  <1> QED BY <1>1, <1>2, PageTableInvariant, PTL DEF Spec, ImplementsAddressSpace
=============================================================================
