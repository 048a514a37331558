--------------------------- MODULE PageTableTrees ---------------------------
(***************************************************************************)
(* Proofs about the page tables, part 1: the trees that the tables form,   *)
(* and one step of the walk of arch_map_page() in them.  For tables of any *)
(* even number of entries, any pages of the two halves and any memory.     *)
(*                                                                         *)
(* A page table's level is not written down anywhere: that the tables form *)
(* trees of four levels is what the invariant says of them, for some       *)
(* assignment of levels lv.                                                *)
(***************************************************************************)
EXTENDS PageTable, TLAPS

Ptes == [present : BOOLEAN, readwrite : BOOLEAN, supervisor : BOOLEAN,
         address : (0 .. MaxTables) \cup PageFrames]
Flags == [readwrite : BOOLEAN, supervisor : BOOLEAN]
Levels == [Tables -> 1 .. 4]

\* Tables T, of which the first n are in use, form trees: an entry of a last
\* table leads to a page, an entry of another to a table of the next level, ...
Linked(T, n, lv) ==
  \A t \in 1 .. n, i \in Index :
    T[t][i].present =>
      IF lv[t] = 1 THEN T[t][i].address \in PageFrames
      ELSE T[t][i].address \in 1 .. n /\ lv[T[t][i].address] = lv[t] - 1

\* ... and two entries lead to the same table only if they are the same entry
\* of two top-level tables, in the kernel's half.
Unshared(T, n, lv) ==
  \A t, u \in 1 .. n, i, j \in Index :
    /\ lv[t] # 1 /\ lv[u] # 1 /\ T[t][i].present /\ T[u][j].present
    /\ T[t][i].address = T[u][j].address
    => i = j /\ (t = u \/ (lv[t] = 4 /\ lv[u] = 4 /\ i \in KernelHalf))

Trees(T, n, lv) ==
  /\ T \in [Tables -> [Index -> Ptes]] /\ n \in 0 .. MaxTables /\ lv \in Levels
  /\ Linked(T, n, lv) /\ Unshared(T, n, lv)

\* An entry allows what d allows.
Allows(e, d) == (d.readwrite => e.readwrite) /\ (d.supervisor => e.supervisor)

\* An entry on the way allows what the entries behind it allow.
Open(T, n, lv) ==
  \A t \in 1 .. n, i, j \in Index :
    lv[t] # 1 /\ T[t][i].present /\ T[T[t][i].address][j].present
      => Allows(T[t][i], T[T[t][i].address][j])

\* The top-level tables agree on the kernel's half, which is closed to user
\* mode from the top.
SharedHalf(T, n, lv, kernel) ==
  \A t \in 1 .. n, i \in KernelHalf :
    lv[t] = 4 => T[t][i] = T[kernel][i] /\ (T[t][i].present => ~T[t][i].supervisor)

\* Up to the end of boot there is one top-level table.
OneMap(n, lv) == \A t \in 1 .. n : lv[t] = 4 => t = kernel_pagemap

Layout(lv) ==
  /\ Trees(tables, used, lv) /\ Open(tables, used, lv)
  /\ SharedHalf(tables, used, lv, kernel_pagemap)
  /\ \A s \in PageMaps \cup {cr3} : s # NULL => lv[s] = 4
  /\ phase \in {"paging", "platform"} => OneMap(used, lv)

\* The order of boot, and which page maps there are when.
Control ==
  /\ kernel_pagemap = NULL => used = 0 /\ phase \in {"boot", "halted"}
  /\ phase = "boot" => kernel_pagemap = NULL
  /\ phase \in {"boot", "paging"} => cr3 = NULL
  /\ phase = "platform" => cr3 = kernel_pagemap
  /\ phase \in {"boot", "paging", "platform"} => building = NULL /\ spaces = {}
  /\ building # NULL => building \notin spaces \cup {kernel_pagemap}

CachedPage == tlb # NoTranslation => tlb.page \in Pages

IInv ==
  /\ TypeOK /\ Control /\ CachedPage /\ CacheCoherent
  /\ \E lv \in Levels : Layout(lv)
-----------------------------------------------------------------------------
\* The numbers of a page: its four indices determine it, and the first says
\* in which half it is.
LEMMA DivFacts ==
  \A n \in Nat, p \in Nat \ {0} :
    /\ n \div p \in Nat /\ (n % p) \in 0 .. p - 1
    /\ n = (n \div p) * p + (n % p)
  OBVIOUS

LEMMA DivUnique ==
  \A n \in Int, k \in Int, p \in Nat \ {0} :
    k * p <= n /\ n < k * p + p => n \div p = k
  OBVIOUS

LEMMA DivBelow ==
  \A n \in Nat, k \in Nat, p \in Nat \ {0} : n < k * p => n \div p < k
  <1> SUFFICES ASSUME NEW n \in Nat, NEW k \in Nat, NEW p \in Nat \ {0}, n < k * p
               PROVE  n \div p < k
    OBVIOUS
  <1> DEFINE q == n \div p
  <1>1. q \in Nat /\ q * p <= n
    BY DivFacts
  <1> HIDE DEF q
  <1>2. q < k
    <2> SUFFICES ASSUME q >= k PROVE FALSE
      BY <1>1
    <2>1. q * p >= k * p
      BY <1>1
    <2>2. q * p \in Int /\ k * p \in Int
      BY <1>1
    <2> QED BY <1>1, <2>1, <2>2
  <1> QED BY <1>2 DEF q

LEMMA DivAbove ==
  \A n \in Nat, k \in Nat, p \in Nat \ {0} : n >= k * p => n \div p >= k
  <1> SUFFICES ASSUME NEW n \in Nat, NEW k \in Nat, NEW p \in Nat \ {0}, n >= k * p
               PROVE  n \div p >= k
    OBVIOUS
  <1> DEFINE q == n \div p
  <1>1. q \in Nat /\ n < q * p + p
    BY DivFacts
  <1> HIDE DEF q
  <1>2. q >= k
    <2> SUFFICES ASSUME q + 1 <= k PROVE FALSE
      BY <1>1
    <2>1. (q + 1) * p <= k * p
      BY <1>1
    <2>2. q * p \in Int /\ k * p \in Int /\ (q + 1) * p = q * p + p
      BY <1>1
    <2> QED BY <1>1, <2>1, <2>2
  <1> QED BY <1>2 DEF q

\* Dividing twice is dividing by the product.
LEMMA DivTwice ==
  \A n \in Nat, p, q \in Nat \ {0} : n \div (p * q) = (n \div p) \div q
  <1> SUFFICES ASSUME NEW n \in Nat, NEW p \in Nat \ {0}, NEW q \in Nat \ {0}
               PROVE  n \div (p * q) = (n \div p) \div q
    OBVIOUS
  <1> DEFINE a == n \div p
             b == a \div q
             r == n % p
             s == a % q
  <1>1. a \in Nat /\ r \in 0 .. p - 1 /\ n = a * p + r
    BY Zenon, DivFacts
  <1>2. b \in Nat /\ s \in 0 .. q - 1 /\ a = b * q + s
    <2> HIDE DEF a
    <2> QED BY Zenon, <1>1, DivFacts
  <1> HIDE DEF a, b, r, s
  <1>3. p * q \in Nat \ {0}
    OBVIOUS
  <1>4. n = b * (p * q) + (s * p + r)
    BY <1>1, <1>2
  <1>5. s * p \in Nat /\ s * p + p <= p * q
    <2>1. s + 1 <= q /\ s \in Nat
      BY <1>2
    <2>2. (s + 1) * p <= q * p
      BY <2>1
    <2> QED BY <2>1, <2>2
  <1>6. n \div (p * q) = b
    <2> DEFINE m == p * q
               x == s * p
    <2>1. m \in Nat \ {0} /\ x \in Nat /\ x + p <= m /\ n = b * m + (x + r)
      BY <1>3, <1>4, <1>5
    <2> HIDE DEF m, x
    <2>2. b * m <= n /\ n < b * m + m
      BY <1>1, <1>2, <2>1
    <2>3. n \div m = b
      BY <1>2, <2>1, <2>2, DivUnique
    <2> QED BY <2>3 DEF m
  <1> QED BY <1>6 DEF a, b

LEMMA SmallMod == \A n \in Nat, p \in Nat \ {0} : n < p => (n % p) = n
  OBVIOUS

LEMMA IndexFacts ==
  ASSUME PageTableAssumption, NEW v \in Nat
  PROVE  /\ index_of(v, 1) = v % ENTRIES
         /\ index_of(v, 2) = (v \div ENTRIES) % ENTRIES
         /\ index_of(v, 3) = ((v \div ENTRIES) \div ENTRIES) % ENTRIES
         /\ index_of(v, 4) = (((v \div ENTRIES) \div ENTRIES) \div ENTRIES) % ENTRIES
         /\ \A k \in 1 .. 4 : index_of(v, k) \in Index
  <1>1. ENTRIES \in Nat \ {0}
    BY DEF PageTableAssumption
  <1> DEFINE a == v \div ENTRIES
             b == a \div ENTRIES
             c == b \div ENTRIES
  <1>2. a \in Nat
    BY <1>1, DivFacts
  <1>3. b \in Nat
    <2> HIDE DEF a
    <2> QED BY <1>1, <1>2, DivFacts
  <1>4. c \in Nat
    <2> HIDE DEF b
    <2> QED BY <1>1, <1>3, DivFacts
  <1>5. v \div (ENTRIES * ENTRIES) = b
    BY <1>1, DivTwice
  <1>6. v \div (ENTRIES * ENTRIES * ENTRIES) = c
    <2> DEFINE sq == ENTRIES * ENTRIES
    <2>1. sq \in Nat \ {0}
      BY <1>1
    <2>2. v \div (sq * ENTRIES) = (v \div sq) \div ENTRIES
      <3> HIDE DEF sq
      <3> QED BY Zenon, <1>1, <2>1, DivTwice
    <2> QED BY <1>5, <2>2
  <1>7. /\ index_of(v, 1) = v % ENTRIES
        /\ index_of(v, 2) = a % ENTRIES
        /\ index_of(v, 3) = b % ENTRIES
        /\ index_of(v, 4) = c % ENTRIES
    <2> HIDE DEF a, b, c
    <2>1. index_of(v, 1) = v % ENTRIES
      BY DEF index_of
    <2>2. index_of(v, 2) = a % ENTRIES
      BY DEF index_of, a
    <2>3. index_of(v, 3) = b % ENTRIES
      BY <1>5 DEF index_of
    <2>4. index_of(v, 4) = c % ENTRIES
      BY <1>6 DEF index_of
    <2> QED BY <2>1, <2>2, <2>3, <2>4
  <1>8. \A k \in 1 .. 4 : index_of(v, k) \in Index
    <2> HIDE DEF a, b, c
    <2>1. /\ (v % ENTRIES) \in Index /\ (a % ENTRIES) \in Index
          /\ (b % ENTRIES) \in Index /\ (c % ENTRIES) \in Index
      BY <1>1, <1>2, <1>3, <1>4, DivFacts DEF Index
    <2>2. \A k \in 1 .. 4 : k = 1 \/ k = 2 \/ k = 3 \/ k = 4
      OBVIOUS
    <2> QED BY <1>7, <2>1, <2>2
  <1> QED BY <1>7, <1>8

\* The top index of a page is its number divided by the pages of a top-level
\* entry.
LEMMA TopIndex ==
  ASSUME PageTableAssumption, NEW v \in Pages
  PROVE  /\ v \in Nat
         /\ index_of(v, 4) = ((v \div ENTRIES) \div ENTRIES) \div ENTRIES
         /\ v \in UserPages => index_of(v, 4) < ENTRIES \div 2
         /\ v \in KernelPages => index_of(v, 4) >= ENTRIES \div 2
  <1> DEFINE h == ENTRIES \div 2
             cube == ENTRIES * ENTRIES * ENTRIES
             top == v \div cube
  <1>1. ENTRIES \in Nat \ {0} /\ h \in Nat /\ h <= ENTRIES
    BY DEF PageTableAssumption
  <1>2. cube \in Nat \ {0}
    BY <1>1
  <1>3. h * ENTRIES * ENTRIES * ENTRIES = h * cube
    <2> HIDE DEF h
    <2> QED BY <1>1
  <1>4. ENTRIES * ENTRIES * ENTRIES * ENTRIES = ENTRIES * cube
    BY <1>1
  <1>5. h * cube \in Nat /\ h * cube <= ENTRIES * cube
    <2> HIDE DEF h, cube
    <2> QED BY <1>1, <1>2
  <1>6. /\ v \in UserPages => v \in 0 .. h * cube - 1
        /\ v \in KernelPages => v \in h * cube .. ENTRIES * cube - 1
    BY Zenon, <1>3, <1>4 DEF PageTableAssumption
  <1> HIDE DEF cube
  <1>7. v \in Nat /\ v < ENTRIES * cube
    <2> DEFINE x == h * cube
               y == ENTRIES * cube
    <2>1. x \in Nat /\ x <= y /\ y \in Int
      BY <1>1, <1>2, <1>5
    <2> HIDE DEF x, y
    <2>2. /\ v \in UserPages => v \in 0 .. x - 1
          /\ v \in KernelPages => v \in x .. y - 1
      BY <1>6 DEF x, y
    <2>3. v \in Nat /\ v < y
      BY <2>1, <2>2 DEF Pages
    <2> QED BY <2>3 DEF y
  <1>8. top \in Nat /\ top < ENTRIES
    BY Zenon, <1>1, <1>2, <1>7, DivBelow, DivFacts
  <1>9. top = ((v \div ENTRIES) \div ENTRIES) \div ENTRIES
    <2> DEFINE sq == ENTRIES * ENTRIES
    <2>1. sq \in Nat \ {0}
      BY <1>1
    <2>2. v \div (sq * ENTRIES) = (v \div sq) \div ENTRIES
      <3> HIDE DEF sq
      <3> QED BY Zenon, <1>1, <1>7, <2>1, DivTwice
    <2>3. v \div sq = (v \div ENTRIES) \div ENTRIES
      BY Zenon, <1>1, <1>7, DivTwice
    <2> QED BY <2>2, <2>3 DEF cube
  <1>10. index_of(v, 4) = top
    <2>1. index_of(v, 4) = top % ENTRIES
      BY <1>7, <1>9, IndexFacts
    <2> HIDE DEF top
    <2> QED BY <1>1, <1>8, <2>1, SmallMod
  <1>11. ASSUME v \in UserPages PROVE top < h
    <2> HIDE DEF h
    <2>1. v < h * cube
      BY <1>1, <1>2, <1>6, <1>7, <1>11
    <2> QED BY <1>1, <1>2, <1>7, <2>1, DivBelow
  <1>12. ASSUME v \in KernelPages PROVE top >= h
    <2> HIDE DEF h
    <2>1. v >= h * cube
      BY <1>1, <1>2, <1>6, <1>7, <1>12
    <2> QED BY <1>1, <1>2, <1>7, <2>1, DivAbove
  <1> QED BY <1>7, <1>9, <1>10, <1>11, <1>12

\* Which half a page is in.
LEMMA HalfOfPage ==
  ASSUME PageTableAssumption
  PROVE  /\ \A v \in UserPages : index_of(v, 4) \in Index \ KernelHalf
         /\ \A v \in KernelPages : index_of(v, 4) \in KernelHalf
         /\ \A v \in Pages : v \in Nat /\ \A k \in 1 .. 4 : index_of(v, k) \in Index
         /\ KernelHalf \subseteq Index
  <1>1. ENTRIES \in Nat /\ ENTRIES \div 2 \in Nat
    BY DEF PageTableAssumption
  <1>2. \A v \in Pages : v \in Nat /\ \A k \in 1 .. 4 : index_of(v, k) \in Index
    BY TopIndex, IndexFacts
  <1>3. \A v \in Pages : index_of(v, 4) \in Index
    BY <1>2
  <1>4. ASSUME NEW v \in UserPages PROVE index_of(v, 4) \in Index \ KernelHalf
    <2>1. v \in Pages
      BY DEF Pages
    <2>2. index_of(v, 4) < ENTRIES \div 2
      BY <2>1, TopIndex
    <2>3. index_of(v, 4) \in Index
      BY <1>3, <2>1
    <2> HIDE DEF index_of
    <2> QED BY <1>1, <2>2, <2>3 DEF KernelHalf, Index
  <1>5. ASSUME NEW v \in KernelPages PROVE index_of(v, 4) \in KernelHalf
    <2>1. v \in Pages
      BY DEF Pages
    <2>2. index_of(v, 4) >= ENTRIES \div 2
      BY <2>1, TopIndex
    <2>3. index_of(v, 4) \in Index
      BY <1>3, <2>1
    <2> QED BY <1>1, <2>2, <2>3 DEF KernelHalf, Index
  <1>6. KernelHalf \subseteq Index
    BY <1>1 DEF KernelHalf, Index
  <1> QED BY <1>2, <1>4, <1>5, <1>6

\* A page is determined by its indices.
LEMMA SamePage ==
  ASSUME PageTableAssumption, NEW v \in Pages, NEW w \in Pages,
         index_of(v, 1) = index_of(w, 1), index_of(v, 2) = index_of(w, 2),
         index_of(v, 3) = index_of(w, 3), index_of(v, 4) = index_of(w, 4)
  PROVE  v = w
  <1>1. ENTRIES \in Nat \ {0} /\ v \in Nat /\ w \in Nat
    BY TopIndex DEF PageTableAssumption
  <1> DEFINE a(x) == x \div ENTRIES
             m(x) == x % ENTRIES
  <1>2. \A x \in Nat : a(x) \in Nat /\ x = a(x) * ENTRIES + m(x)
    BY Zenon, <1>1, DivFacts
  <1>3. /\ m(v) = m(w) /\ m(a(v)) = m(a(w)) /\ m(a(a(v))) = m(a(a(w)))
        /\ a(a(a(v))) = a(a(a(w)))
    BY Zenon, <1>1, IndexFacts, TopIndex
  <1> HIDE DEF a, m
  <1>4. a(v) \in Nat /\ a(w) \in Nat /\ a(a(v)) \in Nat /\ a(a(w)) \in Nat
    BY <1>1, <1>2
  <1>5. a(a(v)) = a(a(w))
    BY <1>2, <1>3, <1>4
  <1>6. a(v) = a(w)
    BY <1>2, <1>3, <1>4, <1>5
  <1> QED BY <1>1, <1>2, <1>3, <1>6
-----------------------------------------------------------------------------
\* One step of the walk.  Memories are what vmm_pml_advance() works on.
Contents == [Tables -> [Index -> Ptes]]
Memories == [tables : Contents, used : 0 .. MaxTables, at : 0 .. MaxTables, ok : BOOLEAN]

\* Tables U are T but for entry i of table t, which is e.
Assigned(U, T, t, i, e) ==
  \A u \in Tables, j \in Index : U[u][j] = IF u = t /\ j = i THEN e ELSE T[u][j]

LEMMA AssignedFacts ==
  ASSUME NEW T \in Contents, NEW t \in Tables, NEW i \in Index, NEW e \in Ptes
  PROVE  /\ [T EXCEPT ![t][i] = e] \in Contents
         /\ Assigned([T EXCEPT ![t][i] = e], T, t, i, e)
  BY DEF Contents, Assigned

LEMMA PteTypes ==
  ASSUME PageTableAssumption, NEW flags \in Flags
  PROVE  /\ \A a \in (0 .. MaxTables) \cup PageFrames :
              /\ paging_create_entry(a, flags) \in Ptes
              /\ paging_create_entry(a, flags).present
              /\ paging_create_entry(a, flags).address = a
              /\ Allows(paging_create_entry(a, flags), flags)
              /\ Allows(flags, paging_create_entry(a, flags))
         /\ \A e \in Ptes :
              /\ Widened(e, flags) \in Ptes
              /\ Widened(e, flags).present = e.present
              /\ Widened(e, flags).address = e.address
              /\ Allows(Widened(e, flags), flags) /\ Allows(Widened(e, flags), e)
         /\ Zeroed \in [Index -> Ptes]
         /\ \A i \in Index : ~Zeroed[i].present
  <1>1. ASSUME NEW a \in (0 .. MaxTables) \cup PageFrames
        PROVE  /\ paging_create_entry(a, flags) \in Ptes
               /\ paging_create_entry(a, flags).present
               /\ paging_create_entry(a, flags).address = a
               /\ Allows(paging_create_entry(a, flags), flags)
               /\ Allows(flags, paging_create_entry(a, flags))
    BY DEF paging_create_entry, Pte, Ptes, Flags, Allows
  <1>2. ASSUME NEW e \in Ptes
        PROVE  /\ Widened(e, flags) \in Ptes
               /\ Widened(e, flags).present = e.present
               /\ Widened(e, flags).address = e.address
               /\ Allows(Widened(e, flags), flags) /\ Allows(Widened(e, flags), e)
    BY Zenon DEF Widened, Ptes, Flags, Allows
  <1>3. /\ Zeroed \in [Index -> Ptes]
        /\ \A i \in Index : ~Zeroed[i].present
    BY DEF Zeroed, Pte, Ptes, NULL, PageTableAssumption
  <1> QED BY <1>1, <1>2, <1>3

\* The three outcomes of a step: an entry is widened, a new table is linked,
\* or there is no memory for one.
Passed(m, r, i, flags) ==
  /\ m.tables[m.at][i].present
  /\ Assigned(r.tables, m.tables, m.at, i, Widened(m.tables[m.at][i], flags))
  /\ r.used = m.used /\ r.ok /\ r.at = m.tables[m.at][i].address
Grown(m, r, i, flags) ==
  /\ ~m.tables[m.at][i].present
  /\ m.used < MaxTables /\ r.used = m.used + 1 /\ r.ok /\ r.at = r.used
  /\ \A u \in Tables, j \in Index :
       r.tables[u][j] = IF u = m.at /\ j = i THEN paging_create_entry(r.used, flags)
                        ELSE IF u = r.used THEN Zeroed[j] ELSE m.tables[u][j]
Exhausted(m, r) ==
  r.tables = m.tables /\ r.used = m.used /\ r.at = m.at /\ ~r.ok

IsMemory(r) == r = [tables |-> r.tables, used |-> r.used, at |-> r.at, ok |-> r.ok]

LEMMA AdvanceCases ==
  ASSUME PageTableAssumption, NEW m \in Memories, m.ok,
         m.at \in 1 .. m.used, NEW i \in Index, NEW flags \in Flags
  PROVE  LET r == vmm_pml_advance(m, i, flags)
         IN  /\ r.tables \in Contents /\ IsMemory(r) /\ r.ok \in BOOLEAN
             /\ Passed(m, r, i, flags) \/ Grown(m, r, i, flags) \/ Exhausted(m, r)
  <1> DEFINE pte == m.tables[m.at][i]
             r == vmm_pml_advance(m, i, flags)
  <1>1. /\ m.tables \in Contents /\ m.at \in Tables /\ pte \in Ptes
        /\ m.used \in 0 .. MaxTables /\ MaxTables \in Nat
    BY DEF Memories, Contents, Tables, PageTableAssumption
  <1>2. CASE pte.present
    <2>1. r = [m EXCEPT !.tables[m.at][i] = Widened(pte, flags), !.at = pte.address]
      BY <1>2 DEF vmm_pml_advance
    <2>2. /\ r.tables = [m.tables EXCEPT ![m.at][i] = Widened(pte, flags)]
          /\ r.used = m.used /\ r.ok = m.ok /\ r.at = pte.address
          /\ IsMemory(r) /\ r.ok \in BOOLEAN
      BY Zenon, <2>1 DEF Memories, IsMemory
    <2>3. Widened(pte, flags) \in Ptes
      BY <1>1, PteTypes
    <2>4. r.tables \in Contents /\ Assigned(r.tables, m.tables, m.at, i, Widened(pte, flags))
      BY <1>1, <2>2, <2>3, AssignedFacts
    <2> QED BY <1>2, <2>2, <2>4 DEF Passed
  <1>3. CASE ~pte.present /\ m.used = MaxTables
    <2>1. arch_alloc_page(m) = [m EXCEPT !.ok = FALSE]
      BY <1>3 DEF arch_alloc_page
    <2>2. r = [m EXCEPT !.ok = FALSE]
      BY Zenon, <1>3, <2>1 DEF vmm_pml_advance, Memories
    <2> QED BY Zenon, <1>1, <2>2 DEF Memories, Exhausted, IsMemory
  <1>4. CASE ~pte.present /\ m.used # MaxTables
    <2> DEFINE n == m.used + 1
               next == arch_alloc_page(m)
               link == paging_create_entry(n, flags)
    <2>1. n \in Tables /\ n \in 0 .. MaxTables
      BY <1>1, <1>4 DEF Tables
    <2>2. next = [m EXCEPT !.used = n, !.tables[n] = Zeroed]
      BY <1>4 DEF arch_alloc_page
    <2>3. /\ next.used = n /\ next.at = m.at /\ next.ok = m.ok
          /\ next.tables = [m.tables EXCEPT ![n] = Zeroed]
          /\ next \in Memories
      <3>1. [m.tables EXCEPT ![n] = Zeroed] \in Contents
        BY <1>1, <2>1, PteTypes DEF Contents
      <3> QED BY Zenon, <1>1, <2>1, <2>2, <3>1 DEF Memories
    <2>4. r = [next EXCEPT !.tables[m.at][i] = paging_create_entry(next.used, flags),
                           !.at = next.used]
      BY <1>4, <2>3 DEF vmm_pml_advance
    <2>5. /\ r.tables = [next.tables EXCEPT ![m.at][i] = link]
          /\ r.used = n /\ r.ok = m.ok /\ r.at = n
          /\ IsMemory(r) /\ r.ok \in BOOLEAN
      <3> HIDE DEF next, link
      <3>1. paging_create_entry(next.used, flags) = link
        BY <2>3 DEF link
      <3> QED BY Zenon, <2>3, <2>4, <3>1 DEF Memories, IsMemory
    <2>6. link \in Ptes /\ next.tables \in Contents
      BY <2>1, <2>3, PteTypes DEF Memories
    <2>7. r.tables \in Contents /\ Assigned(r.tables, next.tables, m.at, i, link)
      BY <1>1, <2>5, <2>6, AssignedFacts
    <2>8. \A u \in Tables, j \in Index :
            next.tables[u][j] = IF u = n THEN Zeroed[j] ELSE m.tables[u][j]
      BY <1>1, <2>1, <2>3 DEF Contents
    <2>9. \A u \in Tables, j \in Index :
            r.tables[u][j] = IF u = m.at /\ j = i THEN link
                             ELSE IF u = n THEN Zeroed[j] ELSE m.tables[u][j]
      BY <2>7, <2>8 DEF Assigned
    <2> QED BY <1>1, <1>4, <2>5, <2>7, <2>9 DEF Grown
  <1> QED BY <1>2, <1>3, <1>4

\* The entries that lead to table t allow what flags allows.
Above(T, n, lv, t, flags) ==
  \A u \in 1 .. n, j \in Index :
    lv[u] # 1 /\ T[u][j].present /\ T[u][j].address = t => Allows(T[u][j], flags)

\* Entry i of table t is not one that other top-level tables have as well.
Sole(n, lv, t, i) ==
  lv[t] = 4 /\ i \in KernelHalf => \A u \in 1 .. n : lv[u] = 4 => u = t

\* What a step changes: entry i of table m.at gains access or a new, empty
\* table; every other entry stays.
Kept(m, r, i, flags) ==
  /\ m.used <= r.used
  /\ \A u \in 1 .. m.used, j \in Index :
       u # m.at \/ j # i => r.tables[u][j] = m.tables[u][j]
  /\ \A u \in m.used + 1 .. r.used, j \in Index : ~r.tables[u][j].present
  /\ m.tables[m.at][i].present =>
       /\ r.tables[m.at][i].present
       /\ r.tables[m.at][i].address = m.tables[m.at][i].address
  /\ ~m.tables[m.at][i].present /\ r.tables[m.at][i].present =>
       r.tables[m.at][i].address \in m.used + 1 .. r.used
  /\ ~flags.supervisor =>
       (r.tables[m.at][i].present /\ r.tables[m.at][i].supervisor
         => m.tables[m.at][i].present /\ m.tables[m.at][i].supervisor)

\* ... and where it ends.
Arrived(m, r, lv, i, flags) ==
  r.ok =>
    /\ r.at \in 1 .. r.used /\ lv[r.at] = lv[m.at] - 1
    /\ r.tables[m.at][i].present /\ r.tables[m.at][i].address = r.at
    /\ Above(r.tables, r.used, lv, r.at, flags)

\* New tables are of the next level.
Extends(lv2, lv, m, r) ==
  /\ \A u \in 1 .. m.used : lv2[u] = lv[u]
  /\ \A u \in m.used + 1 .. r.used : lv2[u] = lv[m.at] - 1

Walking(m, lv, i, flags) ==
  /\ m \in Memories /\ m.ok /\ m.at \in 1 .. m.used /\ i \in Index /\ flags \in Flags
  /\ Trees(m.tables, m.used, lv) /\ Open(m.tables, m.used, lv)
  /\ lv[m.at] # 1 /\ Above(m.tables, m.used, lv, m.at, flags) /\ Sole(m.used, lv, m.at, i)

LEMMA AllowsFacts ==
  ASSUME NEW p, NEW e, NEW d, NEW f
  PROVE  /\ Allows(p, e) /\ Allows(e, d) => Allows(p, d)
         /\ Allows(p, e) /\ Allows(p, f) => Allows(p, Widened(e, f)) \/ e \notin Ptes
  <1>1. Allows(p, e) /\ Allows(e, d) => Allows(p, d)
    BY DEF Allows
  <1>2. ASSUME e \in Ptes, Allows(p, e), Allows(p, f) PROVE Allows(p, Widened(e, f))
    <2>1. /\ Widened(e, f).readwrite = (e.readwrite \/ f.readwrite)
          /\ Widened(e, f).supervisor = (e.supervisor \/ f.supervisor)
      BY <1>2 DEF Widened, Ptes
    <2> QED BY Zenon, <1>2, <2>1 DEF Allows
  <1> QED BY <1>1, <1>2

LEMMA PassedSound ==
  ASSUME PageTableAssumption, NEW m, NEW lv, NEW i, NEW flags, NEW r,
         Walking(m, lv, i, flags), Passed(m, r, i, flags), r.tables \in Contents
  PROVE  /\ Trees(r.tables, r.used, lv) /\ Open(r.tables, r.used, lv)
         /\ Kept(m, r, i, flags) /\ Arrived(m, r, lv, i, flags) /\ Extends(lv, lv, m, r)
  <1> DEFINE T == m.tables
             U == r.tables
             n == m.used
             e == T[m.at][i]
             w == Widened(e, flags)
  <1>1. /\ m \in Memories /\ m.at \in 1 .. n /\ i \in Index /\ flags \in Flags
        /\ T \in Contents /\ n \in 0 .. MaxTables /\ MaxTables \in Nat /\ lv \in Levels
        /\ 1 .. n \subseteq Tables
    BY DEF Walking, Memories, Tables, Trees, PageTableAssumption
  <1>2. e \in Ptes /\ e.present /\ r.used = n /\ r.ok /\ r.at = e.address
    BY <1>1 DEF Passed, Contents
  <1>3. /\ w \in Ptes /\ w.present = e.present /\ w.address = e.address
        /\ Allows(w, flags) /\ Allows(w, e)
    BY Zenon, <1>1, <1>2, PteTypes
  <1>4. \A u \in 1 .. n, j \in Index : U[u][j] = IF u = m.at /\ j = i THEN w ELSE T[u][j]
    BY <1>1 DEF Passed, Assigned
  <1>5. U[m.at][i] = w
    BY <1>1, <1>4
  <1>6. Trees(T, n, lv) /\ Open(T, n, lv) /\ lv[m.at] # 1
    BY DEF Walking
  <1> HIDE DEF T, U, n, e, w
  <1>7. \A u \in 1 .. n, j \in Index :
          U[u][j].present = T[u][j].present /\ U[u][j].address = T[u][j].address
    BY <1>3, <1>4 DEF e
  <1>8. Trees(U, n, lv)
    <2>1. U \in [Tables -> [Index -> Ptes]]
      BY DEF Contents, U
    <2>2. Linked(U, n, lv)
      BY <1>6, <1>7 DEF Trees, Linked
    <2>3. Unshared(U, n, lv)
      BY <1>6, <1>7 DEF Trees, Unshared
    <2> QED BY <1>1, <2>1, <2>2, <2>3 DEF Trees
  <1>9. Open(U, n, lv)
    <2> SUFFICES ASSUME NEW t \in 1 .. n, NEW k \in Index, NEW j \in Index,
                        lv[t] # 1, U[t][k].present, U[U[t][k].address][j].present
                 PROVE  Allows(U[t][k], U[U[t][k].address][j])
      BY DEF Open
    <2> DEFINE c == T[t][k].address
    <2>1. U[t][k].address = c /\ T[t][k].present
      BY Zenon, <1>7
    <2>2. c \in 1 .. n /\ lv[c] = lv[t] - 1 /\ lv[t] \in 1 .. 4
      BY Zenon, <1>1, <1>6, <2>1 DEF Trees, Linked, Levels, Tables
    <2>3. T[c][j].present /\ Allows(T[t][k], T[c][j])
      BY <1>6, <1>7, <2>1, <2>2 DEF Open
    <2>4. CASE t = m.at /\ k = i
      <3>1. c # m.at
        BY <2>2, <2>4
      <3>2. U[c][j] = T[c][j] /\ U[t][k] = w /\ T[t][k] = e
        BY <1>4, <1>5, <2>2, <2>4, <3>1 DEF e
      <3> QED BY <1>3, <2>1, <2>3, <3>2, AllowsFacts
    <2>5. CASE ~(t = m.at /\ k = i) /\ c = m.at /\ j = i
      <3>1. U[t][k] = T[t][k] /\ U[c][j] = w /\ T[c][j] = e
        BY <1>4, <1>5, <2>5 DEF e
      <3>2. Allows(T[t][k], flags)
        BY Zenon, <2>1, <2>5 DEF Walking, Above, T, n
      <3> QED BY <1>2, <2>1, <2>3, <3>1, <3>2, AllowsFacts DEF w
    <2>6. CASE ~(t = m.at /\ k = i) /\ ~(c = m.at /\ j = i)
      <3>1. U[t][k] = T[t][k] /\ U[c][j] = T[c][j]
        BY Zenon, <1>4, <2>2, <2>6
      <3> QED BY <2>1, <2>3, <3>1
    <2> QED BY <2>4, <2>5, <2>6
  <1>10. Kept(m, r, i, flags)
    <2>1. /\ m.used <= r.used
          /\ \A u \in 1 .. n, j \in Index : u # m.at \/ j # i => U[u][j] = T[u][j]
      BY <1>1, <1>2, <1>4 DEF n
    <2>2. m.used + 1 .. r.used = {}
      BY <1>1, <1>2 DEF n
    <2>3. U[m.at][i].present /\ U[m.at][i].address = e.address
      BY Zenon, <1>2, <1>3, <1>5
    <2>4. ~flags.supervisor /\ U[m.at][i].supervisor => e.supervisor
      <3>1. w.supervisor = (e.supervisor \/ flags.supervisor)
        BY <1>2 DEF w, Widened, Ptes
      <3> QED BY Zenon, <1>5, <3>1
    <2> QED BY <1>2, <2>1, <2>2, <2>3, <2>4 DEF Kept, T, U, n, e
  <1>11. Arrived(m, r, lv, i, flags)
    <2>1. e.address \in 1 .. n /\ lv[e.address] = lv[m.at] - 1
      BY <1>1, <1>2, <1>6 DEF Trees, Linked, e
    <2>2. Above(U, n, lv, e.address, flags)
      <3> SUFFICES ASSUME NEW u \in 1 .. n, NEW j \in Index,
                          lv[u] # 1, U[u][j].present, U[u][j].address = e.address
                   PROVE  Allows(U[u][j], flags)
        BY DEF Above
      <3>1. T[u][j].present /\ T[u][j].address = e.address
        BY <1>7
      <3>2. j = i /\ (u = m.at \/ (lv[u] = 4 /\ lv[m.at] = 4 /\ i \in KernelHalf))
        BY <1>1, <1>2, <1>6, <3>1 DEF Trees, Unshared, e
      <3>3. u = m.at
        BY <3>2 DEF Walking, Sole, n
      <3> QED BY <1>3, <1>5, <3>2, <3>3
    <2> QED BY Zenon, <1>2, <1>3, <1>5, <2>1, <2>2 DEF Arrived, U
  <1>12. Extends(lv, lv, m, r)
    <2>1. m.used + 1 .. r.used = {}
      BY <1>1, <1>2 DEF n
    <2> QED BY <2>1 DEF Extends
  <1> QED BY <1>2, <1>8, <1>9, <1>10, <1>11, <1>12 DEF T, U, n

LEMMA GrownSound ==
  ASSUME PageTableAssumption, NEW m, NEW lv, NEW i, NEW flags, NEW r,
         Walking(m, lv, i, flags), Grown(m, r, i, flags), r.tables \in Contents
  PROVE  \E lv2 \in Levels :
           /\ Trees(r.tables, r.used, lv2) /\ Open(r.tables, r.used, lv2)
           /\ Kept(m, r, i, flags) /\ Arrived(m, r, lv2, i, flags) /\ Extends(lv2, lv, m, r)
  <1> DEFINE T == m.tables
             U == r.tables
             n == m.used
             new == n + 1
             link == paging_create_entry(new, flags)
             lv2 == [lv EXCEPT ![new] = lv[m.at] - 1]
  <1>1. /\ m \in Memories /\ m.at \in 1 .. n /\ i \in Index /\ flags \in Flags
        /\ T \in Contents /\ n \in 0 .. MaxTables /\ MaxTables \in Nat /\ lv \in Levels
        /\ 1 .. n \subseteq Tables
    BY DEF Walking, Memories, Tables, Trees, PageTableAssumption
  <1>2. /\ ~T[m.at][i].present /\ r.used = new /\ r.ok /\ r.at = new /\ new \in Tables
        /\ 1 .. new \subseteq Tables
    BY <1>1 DEF Grown, Tables
  <1>3. /\ link \in Ptes /\ link.present /\ link.address = new
        /\ Allows(link, flags) /\ Allows(flags, link)
        /\ link.supervisor = flags.supervisor
    <2>1. new \in (0 .. MaxTables) \cup PageFrames
      BY <1>2 DEF Tables
    <2>2. link.supervisor = flags.supervisor
      BY DEF paging_create_entry, Pte
    <2> QED BY <1>1, <2>1, <2>2, PteTypes
  <1>4. \A u \in 1 .. n, j \in Index : U[u][j] = IF u = m.at /\ j = i THEN link ELSE T[u][j]
    <2>1. \A u \in 1 .. n : u # new /\ u \in Tables
      BY <1>1
    <2> QED BY <1>2, <2>1 DEF Grown
  <1>5. \A j \in Index : ~U[new][j].present
    <2>1. new # m.at
      BY <1>1
    <2>2. \A j \in Index : U[new][j] = Zeroed[j]
      BY <1>2, <2>1 DEF Grown
    <2> QED BY <1>1, <2>2, PteTypes
  <1>6. Trees(T, n, lv) /\ Open(T, n, lv) /\ lv[m.at] # 1
    BY DEF Walking
  <1>7. /\ lv2 \in Levels /\ lv2[new] = lv[m.at] - 1
        /\ \A u \in 1 .. n : lv2[u] = lv[u] /\ u # new /\ u \in 1 .. new /\ lv[u] \in 1 .. 4
    <2>1. lv[m.at] - 1 \in 1 .. 4
      BY <1>1, <1>6 DEF Levels, Tables
    <2> QED BY <1>1, <1>2, <2>1 DEF Levels
  <1>8. U[m.at][i] = link
    BY <1>1, <1>4
  <1>9. \A u \in 1 .. new : u \in 1 .. n \/ u = new
    BY <1>1
  <1> HIDE DEF T, U, n, new, link, lv2
  <1>10. Trees(U, new, lv2)
    <2>1. U \in [Tables -> [Index -> Ptes]] /\ new \in 0 .. MaxTables
      BY <1>2 DEF Contents, U, Tables
    <2>2. \A u \in 1 .. new, j \in Index : U[u][j].present =>
            /\ u \in 1 .. n /\ lv2[u] = lv[u]
            /\ \/ u = m.at /\ j = i /\ U[u][j].address = new
               \/ T[u][j].present /\ U[u][j] = T[u][j]
      BY <1>3, <1>4, <1>5, <1>7, <1>9
    <2>3. \A u \in 1 .. n, j \in Index : T[u][j].present =>
            IF lv[u] = 1 THEN T[u][j].address \in PageFrames
            ELSE /\ T[u][j].address \in 1 .. n /\ T[u][j].address # new
                 /\ lv2[T[u][j].address] = lv[u] - 1
      BY <1>6, <1>7 DEF Trees, Linked
    <2>4. Linked(U, new, lv2)
      <3> SUFFICES ASSUME NEW u \in 1 .. new, NEW j \in Index, U[u][j].present
                   PROVE  IF lv2[u] = 1 THEN U[u][j].address \in PageFrames
                          ELSE /\ U[u][j].address \in 1 .. new
                               /\ lv2[U[u][j].address] = lv2[u] - 1
        BY DEF Linked
      <3>1. CASE u = m.at /\ j = i /\ U[u][j].address = new
        <4>1. lv2[u] = lv[m.at] /\ lv2[u] # 1
          BY <1>6, <2>2, <3>1
        <4>2. new \in 1 .. new
          BY <1>2 DEF Tables
        <4> QED BY <1>7, <3>1, <4>1, <4>2
      <3>2. CASE T[u][j].present /\ U[u][j] = T[u][j]
        BY <1>7, <2>2, <2>3, <3>2
      <3> QED BY <2>2, <3>1, <3>2
    <2>5. Unshared(U, new, lv2)
      <3> SUFFICES ASSUME NEW t \in 1 .. new, NEW u \in 1 .. new,
                          NEW k \in Index, NEW j \in Index,
                          lv2[t] # 1, lv2[u] # 1, U[t][k].present, U[u][j].present,
                          U[t][k].address = U[u][j].address
                   PROVE  k = j /\ (t = u \/ (lv2[t] = 4 /\ lv2[u] = 4 /\ k \in KernelHalf))
        BY DEF Unshared
      <3>1. CASE t = m.at /\ k = i /\ U[t][k].address = new
        BY <2>2, <2>3, <3>1
      <3>2. CASE u = m.at /\ j = i /\ U[u][j].address = new
        BY <2>2, <2>3, <3>2
      <3>3. CASE /\ T[t][k].present /\ U[t][k] = T[t][k]
                 /\ T[u][j].present /\ U[u][j] = T[u][j]
        BY <1>6, <2>2, <3>3 DEF Trees, Unshared
      <3> QED BY <2>2, <3>1, <3>2, <3>3
    <2> QED BY <1>7, <2>1, <2>4, <2>5 DEF Trees
  <1>11. Open(U, new, lv2)
    <2> SUFFICES ASSUME NEW t \in 1 .. new, NEW k \in Index, NEW j \in Index,
                        lv2[t] # 1, U[t][k].present, U[U[t][k].address][j].present
                 PROVE  Allows(U[t][k], U[U[t][k].address][j])
      BY DEF Open
    <2> DEFINE c == U[t][k].address
    <2>1. t \in 1 .. n /\ lv[t] # 1 /\ c # new
      BY <1>5, <1>7, <1>9
    <2>2. U[t][k] = T[t][k]
      BY <1>3, <1>4, <2>1
    <2>3. T[t][k].present /\ c = T[t][k].address /\ c \in 1 .. n
      BY <1>6, <2>1, <2>2 DEF Trees, Linked
    <2>4. CASE c = m.at /\ j = i
      <3>1. Allows(T[t][k], flags)
        BY Zenon, <2>1, <2>3, <2>4 DEF Walking, Above, T, n
      <3> QED BY SMTT(30), <1>3, <1>8, <2>2, <2>4, <3>1, AllowsFacts
    <2>5. CASE ~(c = m.at /\ j = i)
      <3>1. U[c][j] = T[c][j]
        BY SMTT(30), <1>4, <2>3, <2>5
      <3> QED BY Zenon, <1>6, <2>1, <2>2, <2>3, <3>1 DEF Open
    <2> QED BY <2>4, <2>5
  <1>12. Kept(m, r, i, flags)
    <2>1. m.used <= r.used /\ m.used + 1 .. r.used = {new}
      BY <1>1, <1>2 DEF n, new
    <2>2. \A u \in 1 .. n, j \in Index : u # m.at \/ j # i => U[u][j] = T[u][j]
      BY <1>4
    <2>3. \A u \in {new}, j \in Index : ~U[u][j].present
      BY <1>5
    <2>4. U[m.at][i].address \in {new}
      BY <1>3, <1>8
    <2>5. ~flags.supervisor => ~U[m.at][i].supervisor
      BY Zenon, <1>3, <1>8
    <2> QED BY Zenon, <1>2, <2>1, <2>2, <2>3, <2>4, <2>5 DEF Kept, T, U, n
  <1>13. Arrived(m, r, lv2, i, flags)
    <2>1. new \in 1 .. new /\ lv2[m.at] = lv[m.at]
      BY <1>1, <1>2, <1>7 DEF Tables
    <2>2. Above(U, new, lv2, new, flags)
      <3> SUFFICES ASSUME NEW u \in 1 .. new, NEW j \in Index,
                          lv2[u] # 1, U[u][j].present, U[u][j].address = new
                   PROVE  Allows(U[u][j], flags)
        BY DEF Above
      <3>1. u \in 1 .. n /\ lv[u] # 1
        BY <1>5, <1>7, <1>9
      <3>2. u = m.at /\ j = i
        <4> SUFFICES ASSUME ~(u = m.at /\ j = i) PROVE FALSE
          OBVIOUS
        <4>1. U[u][j] = T[u][j]
          BY <1>4, <3>1
        <4>2. T[u][j].address \in 1 .. n
          BY <1>6, <3>1, <4>1 DEF Trees, Linked
        <4> QED BY <1>7, <4>1, <4>2
      <3> QED BY <1>3, <1>8, <3>2
    <2> QED BY <1>2, <1>3, <1>7, <1>8, <2>1, <2>2 DEF Arrived, U
  <1>14. Extends(lv2, lv, m, r)
    <2>1. m.used + 1 .. r.used = {new}
      BY SMTT(30), <1>1, <1>2 DEF n, new
    <2> QED BY <1>7, <2>1 DEF Extends, n
  <1> QED BY <1>2, <1>7, <1>10, <1>11, <1>12, <1>13, <1>14 DEF U

LEMMA ExhaustedSound ==
  ASSUME PageTableAssumption, NEW m, NEW lv, NEW i, NEW flags, NEW r,
         Walking(m, lv, i, flags), Exhausted(m, r)
  PROVE  /\ Trees(r.tables, r.used, lv) /\ Open(r.tables, r.used, lv)
         /\ Kept(m, r, i, flags) /\ Arrived(m, r, lv, i, flags) /\ Extends(lv, lv, m, r)
  <1>1. m.used \in Nat /\ r.used = m.used /\ r.tables = m.tables /\ ~r.ok
    BY DEF Exhausted, Walking, Memories, PageTableAssumption
  <1>2. m.used + 1 .. r.used = {} /\ m.used <= r.used
    BY <1>1
  <1> QED BY Zenon, <1>1, <1>2 DEF Walking, Kept, Arrived, Extends

\* A step of the walk keeps the trees and the access, changes one entry, and
\* ends at a table of the next level or without memory.
LEMMA AdvanceSound ==
  ASSUME PageTableAssumption, NEW m, NEW lv, NEW i, NEW flags, Walking(m, lv, i, flags)
  PROVE  LET r == vmm_pml_advance(m, i, flags)
         IN  /\ r \in Memories
             /\ \E lv2 \in Levels :
                  /\ Trees(r.tables, r.used, lv2) /\ Open(r.tables, r.used, lv2)
                  /\ Kept(m, r, i, flags) /\ Arrived(m, r, lv2, i, flags)
                  /\ Extends(lv2, lv, m, r)
  <1> DEFINE r == vmm_pml_advance(m, i, flags)
  <1>1. /\ m \in Memories /\ m.ok /\ m.at \in 1 .. m.used /\ i \in Index /\ flags \in Flags
        /\ lv \in Levels
    BY DEF Walking, Trees
  <1>2. /\ r.tables \in Contents /\ IsMemory(r) /\ r.ok \in BOOLEAN
        /\ Passed(m, r, i, flags) \/ Grown(m, r, i, flags) \/ Exhausted(m, r)
    BY <1>1, AdvanceCases
  <1> HIDE DEF r
  <1>3. \E lv2 \in Levels :
          /\ Trees(r.tables, r.used, lv2) /\ Open(r.tables, r.used, lv2)
          /\ Kept(m, r, i, flags) /\ Arrived(m, r, lv2, i, flags)
          /\ Extends(lv2, lv, m, r)
    BY Zenon, <1>1, <1>2, PassedSound, GrownSound, ExhaustedSound
  <1>4. r.used \in 0 .. MaxTables /\ r.at \in 0 .. MaxTables
    <2>1. r.used \in 0 .. MaxTables /\ MaxTables \in Nat
      BY <1>3 DEF Trees, PageTableAssumption
    <2>2. CASE r.ok
      BY SMTT(30), <1>3, <2>1, <2>2 DEF Arrived
    <2>3. CASE ~r.ok
      BY <1>1, <1>2, <2>1, <2>3 DEF Passed, Grown, Exhausted, Memories
    <2> QED BY <2>1, <2>2, <2>3
  <1>5. r \in Memories
    BY <1>2, <1>4 DEF IsMemory, Memories
  <1> QED BY <1>3, <1>5 DEF r
=============================================================================
