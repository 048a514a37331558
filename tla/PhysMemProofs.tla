--------------------------- MODULE PhysMemProofs ----------------------------
(***************************************************************************)
(* Proofs about the physical memory allocator, for every memory map that   *)
(* is sorted and page-aligned, every page size and every size of request.  *)
(***************************************************************************)
EXTENDS PhysMem, WellFoundedInduction, TLAPS

\* A zone is what init_zone() made of its entry, and stays so.
ZonesFromMap ==
  /\ DOMAIN zone_list \subseteq DOMAIN mmap
  /\ zone_list = [z \in DOMAIN zone_list |-> ZoneOf(mmap[z])]
  /\ \A z \in DOMAIN zone_list : HasZone(mmap[z])

\* A block lies in the arena of its zone.
InArena ==
  \A b \in blocks :
    /\ b.zone \in DOMAIN zone_list /\ b.size \in Sizes
    /\ b = [zone |-> b.zone, at |-> b.at, size |-> b.size]
    /\ b.at \in Nat /\ b.at >= zone_list[b.zone].start
    /\ b.at + b.size <= zone_list[b.zone].start + zone_list[b.zone].len

\* The buddy allocator of a zone hands out blocks that do not overlap.
ApartInZone ==
  \A b, c \in blocks : b # c /\ b.zone = c.zone => ~Overlap(b.at, b.size, c.at, c.size)

Flags ==
  /\ pmm_lock \in BOOLEAN /\ oom \in BOOLEAN /\ cpu \in {"boot", "running", "spinning"}

\* Nothing is handed out before the zones are made.
NothingAtBoot == cpu = "boot" => blocks = {}

IInv ==
  /\ ZonesFromMap /\ InArena /\ ApartInZone
  /\ Flags /\ NothingAtBoot /\ AnswersUntilExhausted
-----------------------------------------------------------------------------
\* Facts about division.
LEMMA DivUnique ==
  \A n \in Int, k \in Int, p \in Nat \ {0} :
    k * p <= n /\ n < k * p + p => n \div p = k
  OBVIOUS

LEMMA DivTimes == \A n \in Int, p \in Nat \ {0} : (n \div p) * p <= n
  OBVIOUS

LEMMA Multiple == \A n \in Nat, p \in Nat \ {0} : n % p = 0 => \E k \in Nat : n = k * p
  OBVIOUS

LEMMA TwoPages ==
  \A k \in Nat, p \in Nat \ {0} : k * p # 0 /\ k * p # p => k * p >= 2 * p
  OBVIOUS

\* Blocks number k and later of a size start where k blocks end.
LEMMA BlockEnd ==
  \A k \in Nat, m \in Int, sz \in Nat \ {0} : k <= m - 1 => k * sz + sz <= m * sz
  OBVIOUS

\* A set of numbers that is not empty has a least one: the loops over
\* zone_list that stop at the first zone stop at some zone.
LEMMA Least == \A S \in SUBSET Nat : S # {} => \E x \in S : \A y \in S : x <= y
  <1> SUFFICES ASSUME NEW S \in SUBSET Nat, S # {}
               PROVE  \E x \in S : \A y \in S : x <= y
    OBVIOUS
  <1>1. PICK x \in S : \A y \in S : ~(<<y, x>> \in OpToRel(<, Nat))
    BY NatLessThanWellFounded, WFMin
  <1>2. \A y \in S : ~(<<y, x>> \in {ss \in Nat \X Nat : ss[1] < ss[2]})
    BY <1>1 DEF OpToRel
  <1>3. \A y \in S : ~(y < x)
    <2> TAKE y \in S
    <2>1. <<y, x>> \in Nat \X Nat /\ <<y, x>>[1] = y /\ <<y, x>>[2] = x
      OBVIOUS
    <2> QED BY ONLY <1>2, <2>1, y \in S, Zenon
  <1> HIDE <1>1, <1>2
  <1> QED BY ONLY <1>3, x \in S, S \in SUBSET Nat
-----------------------------------------------------------------------------
LEMMA EntryType ==
  ASSUME PhysMemAssumption, NEW i \in DOMAIN mmap
  PROVE  /\ i \in Nat
         /\ mmap[i] \in [base : Nat, length : Nat \ {0},
                         type : {"usable", "framebuffer", "other"}]
  <1> DEFINE Entries == [base : Nat, length : Nat \ {0},
                         type : {"usable", "framebuffer", "other"}]
  <1>1. mmap \in Seq(Entries)
    BY DEF PhysMemAssumption
  <1> HIDE DEF Entries
  <1>2. i \in Nat /\ mmap[i] \in Entries
    BY <1>1
  <1> QED BY <1>2 DEF Entries

\* The arena starts one page into its entry and ends one byte before the
\* entry does: ALIGN_UP() of an aligned address plus the descriptor's size
\* is the next page.
LEMMA ZoneBounds ==
  ASSUME PhysMemAssumption, NEW i \in DOMAIN mmap, HasZone(mmap[i])
  PROVE  /\ ZoneOf(mmap[i]) = [start |-> va(mmap[i].base) + PAGE_SIZE,
                               len |-> mmap[i].length - 1 - PAGE_SIZE]
         /\ mmap[i].length >= 2 * PAGE_SIZE
         /\ mmap[i].base \in Nat /\ mmap[i].length \in Nat
         /\ mmap[i].type = "usable"
  <1>1. /\ PAGE_SIZE \in Nat \ {0} /\ HHDM \in Nat /\ ZONE_SIZE \in 1 .. PAGE_SIZE
        /\ mmap[i] \in [base : Nat, length : Nat \ {0},
                         type : {"usable", "framebuffer", "other"}]
        /\ mmap[i].base % PAGE_SIZE = 0 /\ mmap[i].length % PAGE_SIZE = 0
        /\ HHDM % PAGE_SIZE = 0
    BY EntryType DEF PhysMemAssumption
  <1>2. PICK b \in Nat : mmap[i].base = b * PAGE_SIZE
    BY Zenon, <1>1, Multiple
  <1>3. PICK l \in Nat : mmap[i].length = l * PAGE_SIZE
    BY Zenon, <1>1, Multiple
  <1>4. PICK h \in Nat : HHDM = h * PAGE_SIZE
    BY Zenon, <1>1, Multiple
  <1>5. mmap[i].length >= 2 * PAGE_SIZE
    BY <1>1, <1>3, TwoPages DEF HasZone
  <1>6. ALIGN_UP(va(mmap[i].base) + ZONE_SIZE) = va(mmap[i].base) + PAGE_SIZE
    <2> DEFINE n == va(mmap[i].base) + ZONE_SIZE + PAGE_SIZE - 1
               k == b + h + 1
    <2>1. k * PAGE_SIZE = va(mmap[i].base) + PAGE_SIZE
      BY <1>1, <1>2, <1>4 DEF va
    <2>2. n \in Int /\ k \in Int /\ k * PAGE_SIZE <= n /\ n < k * PAGE_SIZE + PAGE_SIZE
      BY <1>1, <2>1 DEF va
    <2>3. n \div PAGE_SIZE = k
      BY ONLY <1>1, <2>2, DivUnique
    <2> QED BY <2>1, <2>3 DEF ALIGN_UP
  <1> QED BY <1>1, <1>5, <1>6 DEF ZoneOf, init_zone, HasZone

\* What a zone of zone_list is.
LEMMA ZoneFacts ==
  ASSUME PhysMemAssumption, ZonesFromMap, NEW z \in DOMAIN zone_list
  PROVE  /\ z \in DOMAIN mmap /\ z \in Nat
         /\ zone_list[z] \in [start : Nat, len : Nat]
         /\ zone_list[z].start = mmap[z].base + HHDM + PAGE_SIZE
         /\ zone_list[z].start + zone_list[z].len = mmap[z].base + HHDM + mmap[z].length - 1
         /\ mmap[z].base \in Nat /\ mmap[z].length \in Nat /\ mmap[z].type = "usable"
  <1>1. z \in DOMAIN mmap /\ HasZone(mmap[z]) /\ zone_list[z] = ZoneOf(mmap[z])
    BY DEF ZonesFromMap
  <1>2. PAGE_SIZE \in Nat \ {0} /\ HHDM \in Nat
    BY DEF PhysMemAssumption
  <1>3. /\ ZoneOf(mmap[z]) = [start |-> va(mmap[z].base) + PAGE_SIZE,
                              len |-> mmap[z].length - 1 - PAGE_SIZE]
        /\ mmap[z].length >= 2 * PAGE_SIZE
        /\ mmap[z].base \in Nat /\ mmap[z].length \in Nat
        /\ mmap[z].type = "usable"
    BY <1>1, ZoneBounds
  <1>4. z \in Nat
    BY <1>1, EntryType
  <1> QED BY <1>1, <1>2, <1>3, <1>4 DEF va

\* The arenas of two zones do not even touch.
LEMMA ArenasApart ==
  ASSUME PhysMemAssumption, ZonesFromMap,
         NEW y \in DOMAIN zone_list, NEW z \in DOMAIN zone_list, y # z
  PROVE  \/ zone_list[y].start + zone_list[y].len < zone_list[z].start
         \/ zone_list[z].start + zone_list[z].len < zone_list[y].start
  <1>1. y \in DOMAIN mmap /\ z \in DOMAIN mmap /\ y \in Nat /\ z \in Nat
    BY ZoneFacts
  <1>2. \/ mmap[y].base + mmap[y].length <= mmap[z].base
        \/ mmap[z].base + mmap[z].length <= mmap[y].base
    <2>1. y < z \/ z < y
      BY <1>1
    <2>2. \A i, j \in DOMAIN mmap : i < j => mmap[i].base + mmap[i].length <= mmap[j].base
      BY DEF PhysMemAssumption
    <2> QED BY <1>1, <2>1, <2>2
  <1>3. PAGE_SIZE \in Nat \ {0} /\ HHDM \in Nat
    BY DEF PhysMemAssumption
  <1>4. /\ zone_list[z].start = mmap[z].base + HHDM + PAGE_SIZE
        /\ zone_list[z].start + zone_list[z].len = mmap[z].base + HHDM + mmap[z].length - 1
        /\ mmap[z].base \in Nat /\ mmap[z].length \in Nat
    BY ZoneFacts
  <1>5. /\ zone_list[y].start = mmap[y].base + HHDM + PAGE_SIZE
        /\ zone_list[y].start + zone_list[y].len = mmap[y].base + HHDM + mmap[y].length - 1
        /\ mmap[y].base \in Nat /\ mmap[y].length \in Nat
    BY ZoneFacts
  <1> QED BY ONLY <1>2, <1>3, <1>4, <1>5

\* The zones that init_phys_allocator() makes are those of the memory map.
LEMMA InitPreserves ==
  ASSUME PhysMemAssumption, IInv, init_phys_allocator
  PROVE  IInv'
  <1>1. ZonesFromMap'
    BY DEF init_phys_allocator, ZonesFromMap
  <1>2. blocks' = {}
    BY DEF init_phys_allocator, IInv, NothingAtBoot
  <1>3. InArena' /\ ApartInZone'
    BY <1>2 DEF InArena, ApartInZone
  <1>4. Flags' /\ AnswersUntilExhausted'
    BY Zenon DEF init_phys_allocator, IInv, Flags, AnswersUntilExhausted
  <1>5. NothingAtBoot'
    BY <1>2 DEF NothingAtBoot
  <1> QED BY <1>1, <1>3, <1>4, <1>5 DEF IInv

\* A block that buddy_malloc() may return lies in the arena and overlaps no
\* other block of the zone.
LEMMA MallocSound ==
  ASSUME PhysMemAssumption, ZonesFromMap, NEW z \in DOMAIN zone_list, NEW sz \in Sizes,
         NEW block \in buddy_malloc(z, sz)
  PROVE  /\ block = [zone |-> z, at |-> block.at, size |-> sz]
         /\ block.at \in Nat /\ block.at >= zone_list[z].start
         /\ block.at + sz <= zone_list[z].start + zone_list[z].len
         /\ FreeAt(z, block.at, sz)
  <1>1. zone_list[z] \in [start : Nat, len : Nat]
    BY ZoneFacts
  <1>2. BUDDY_SIZE \in Nat /\ sz \in Nat \ {0}
    BY Zenon DEF PhysMemAssumption
  <1>3. ArenaSize(z) \in Int /\ ArenaSize(z) <= zone_list[z].len
    BY <1>1, <1>2 DEF ArenaSize
  <1>4. PICK k \in 0 .. (ArenaSize(z) \div sz) - 1 :
          /\ block = [zone |-> z, at |-> zone_list[z].start + k * sz, size |-> sz]
          /\ FreeAt(z, zone_list[z].start + k * sz, sz)
    BY DEF buddy_malloc
  <1>5. (ArenaSize(z) \div sz) * sz <= ArenaSize(z) /\ ArenaSize(z) \div sz \in Int
    BY <1>2, <1>3, DivTimes
  <1>6. k * sz + sz <= (ArenaSize(z) \div sz) * sz
    BY <1>2, <1>4, <1>5, BlockEnd
  <1>7. k * sz \in Nat /\ k * sz + sz <= zone_list[z].len
    BY <1>1, <1>2, <1>3, <1>5, <1>6
  <1> QED BY <1>1, <1>2, <1>4, <1>7

\* find_first_free_block() returns a block of one of the zones.
LEMMA FirstFree ==
  ASSUME PhysMemAssumption, ZonesFromMap, NEW sz \in Sizes,
         NEW block \in find_first_free_block(sz)
  PROVE  \E z \in DOMAIN zone_list : block \in buddy_malloc(z, sz)
  <1> DEFINE fits == {z \in DOMAIN zone_list :
                        zone_list[z].len >= sz /\ buddy_malloc(z, sz) # {}}
             first == CHOOSE z \in fits : \A y \in fits : z <= y
  <1>1. fits # {} /\ block \in buddy_malloc(first, sz)
    BY DEF find_first_free_block
  <1>2. fits \subseteq DOMAIN zone_list /\ fits \in SUBSET Nat
    BY ZoneFacts
  <1> HIDE DEF fits
  <1>3. \E z \in fits : \A y \in fits : z <= y
    BY <1>1, <1>2, Least
  <1>4. first \in fits
    BY <1>3
  <1> QED BY <1>1, <1>2, <1>4

\* A step that leaves the zones alone and only takes blocks away.
LEMMA FewerBlocks ==
  ASSUME IInv, zone_list' = zone_list, blocks' \subseteq blocks
  PROVE  ZonesFromMap' /\ InArena' /\ ApartInZone'
  <1>1. ZonesFromMap'
    BY DEF IInv, ZonesFromMap
  <1>2. InArena'
    BY DEF IInv, InArena
  <1>3. ApartInZone'
    BY DEF IInv, ApartInZone
  <1> QED BY <1>1, <1>2, <1>3

\* A call that spins changes no block, and spins because a call has failed.
LEMMA SpinPreserves ==
  ASSUME IInv, Spins, zone_list' = zone_list
  PROVE  IInv'
  <1>1. ZonesFromMap' /\ InArena' /\ ApartInZone'
    <2>1. blocks' = blocks
      BY DEF Spins
    <2> QED BY <2>1, FewerBlocks
  <1>2. Flags' /\ AnswersUntilExhausted' /\ NothingAtBoot'
    BY Zenon DEF Spins, IInv, Flags, AnswersUntilExhausted, NothingAtBoot
  <1> QED BY <1>1, <1>2 DEF IInv

LEMMA AllocPreserves ==
  ASSUME PhysMemAssumption, IInv, NEW sz \in Sizes, arch_alloc_page_sz(sz)
  PROVE  IInv'
  <1>1. cpu = "running" /\ zone_list' = zone_list
    BY DEF arch_alloc_page_sz
  <1>2. CASE Spins
    BY <1>1, <1>2, SpinPreserves
  <1>3. CASE /\ ~pmm_lock
             /\ \E block \in find_first_free_block(sz) : blocks' = blocks \cup {block}
             /\ UNCHANGED <<pmm_lock, cpu, oom>>
    <2>1. PICK block \in find_first_free_block(sz) : blocks' = blocks \cup {block}
      BY <1>3
    <2>2. PICK z \in DOMAIN zone_list : block \in buddy_malloc(z, sz)
      BY FirstFree DEF IInv
    <2>3. /\ block = [zone |-> z, at |-> block.at, size |-> sz]
          /\ block.at \in Nat /\ block.at >= zone_list[z].start
          /\ block.at + sz <= zone_list[z].start + zone_list[z].len
          /\ FreeAt(z, block.at, sz)
      BY <2>2, MallocSound DEF IInv
    <2>4. block.zone = z /\ block.size = sz
      BY <2>3
    <2>5. ZonesFromMap'
      BY <1>1 DEF IInv, ZonesFromMap
    <2>6. InArena'
      BY <1>1, <2>1, <2>3, <2>4 DEF IInv, InArena
    <2>7. ApartInZone'
      <3> SUFFICES ASSUME NEW b \in blocks', NEW c \in blocks', b # c, b.zone = c.zone
                   PROVE  ~Overlap(b.at, b.size, c.at, c.size)
        BY DEF ApartInZone, Overlap
      <3>1. CASE b \in blocks /\ c \in blocks
        BY <3>1 DEF IInv, ApartInZone
      <3>2. CASE b = block /\ c \in blocks
        BY <2>3, <2>4, <3>2 DEF FreeAt
      <3>3. CASE b \in blocks /\ c = block
        BY <2>3, <2>4, <3>3 DEF FreeAt, Overlap
      <3> QED BY <2>1, <3>1, <3>2, <3>3
    <2>8. Flags' /\ AnswersUntilExhausted' /\ NothingAtBoot'
      BY <1>1, <1>3, Zenon DEF IInv, Flags, AnswersUntilExhausted, NothingAtBoot
    <2> QED BY <2>5, <2>6, <2>7, <2>8 DEF IInv
  <1>4. CASE /\ oom' = TRUE /\ pmm_lock' = TRUE
             /\ UNCHANGED <<blocks, cpu>>
    <2>1. ZonesFromMap' /\ InArena' /\ ApartInZone'
      <3>1. blocks' \subseteq blocks
        BY <1>4
      <3> QED BY <1>1, <3>1, FewerBlocks
    <2>2. Flags' /\ AnswersUntilExhausted' /\ NothingAtBoot'
      BY <1>4, Zenon DEF IInv, Flags, AnswersUntilExhausted, NothingAtBoot
    <2> QED BY <2>1, <2>2 DEF IInv
  <1> QED BY Zenon, <1>2, <1>3, <1>4 DEF arch_alloc_page_sz

LEMMA FreePreserves ==
  ASSUME IInv, NEW block \in blocks, arch_free_page(block)
  PROVE  IInv'
  <1>1. cpu = "running" /\ zone_list' = zone_list
    BY DEF arch_free_page
  <1>2. CASE Spins
    BY <1>1, <1>2, SpinPreserves
  <1>3. CASE /\ blocks' \subseteq blocks
             /\ pmm_lock' = FALSE
             /\ UNCHANGED <<cpu, oom>>
    <2>1. ZonesFromMap' /\ InArena' /\ ApartInZone'
      BY <1>1, <1>3, FewerBlocks
    <2>2. Flags' /\ AnswersUntilExhausted' /\ NothingAtBoot'
      BY <1>1, <1>3, Zenon DEF IInv, Flags, AnswersUntilExhausted, NothingAtBoot
    <2> QED BY <2>1, <2>2 DEF IInv
  <1> QED BY Zenon, <1>2, <1>3 DEF arch_free_page, release_lock

\* The range of the region is given by its physical address, which lies below
\* the arena of every zone: arch_reserve_range() marks nothing.
LEMMA ReservesNothing ==
  ASSUME PhysMemAssumption, ZonesFromMap, NEW i \in DOMAIN mmap,
         arch_reserve_range(mmap[i].base, REGION)
  PROVE  blocks' = blocks
  <1>1. \A z \in DOMAIN zone_list : mmap[i].base < zone_list[z].start
    <2> TAKE z \in DOMAIN zone_list
    <2>1. /\ zone_list[z].start = mmap[z].base + HHDM + PAGE_SIZE
          /\ mmap[z].base \in Nat
      BY ZoneFacts
    <2>2. mmap[i].base \in Nat /\ mmap[i].length \in Nat
      BY EntryType
    <2>3. /\ mmap[i].base + mmap[i].length < HHDM
          /\ HHDM \in Nat /\ PAGE_SIZE \in Nat
      BY DEF PhysMemAssumption
    <2> QED BY ONLY <2>1, <2>2, <2>3
  <1>2. \A z \in DOMAIN zone_list : ~(mmap[i].base >= zone_list[z].start)
    <2> TAKE z \in DOMAIN zone_list
    <2>1. mmap[i].base \in Nat /\ zone_list[z].start \in Nat
      BY EntryType, ZoneFacts
    <2> QED BY <1>1, <2>1
  <1>3. \A z \in DOMAIN zone_list :
          buddy_toggle_range_reservation(z, mmap[i].base, REGION) = {}
    BY <1>2 DEF buddy_toggle_range_reservation
  <1> QED BY <1>3 DEF arch_reserve_range

LEMMA SetupPreserves ==
  ASSUME PhysMemAssumption, IInv, setup_init_task_capabilities
  PROVE  IInv'
  <1>1. cpu = "running" /\ zone_list' = zone_list
    BY DEF setup_init_task_capabilities
  <1>2. CASE Spins
    BY <1>1, <1>2, SpinPreserves
  <1>3. CASE \E i \in DOMAIN mmap :
               /\ arch_reserve_range(mmap[i].base, REGION)
               /\ pmm_lock' = FALSE
               /\ UNCHANGED <<cpu, oom>>
    <2>1. blocks' \subseteq blocks
      BY <1>3, ReservesNothing DEF IInv
    <2>2. ZonesFromMap' /\ InArena' /\ ApartInZone'
      BY <1>1, <2>1, FewerBlocks
    <2>3. Flags' /\ AnswersUntilExhausted' /\ NothingAtBoot'
      BY <1>1, <1>3, Zenon DEF IInv, Flags, AnswersUntilExhausted, NothingAtBoot
    <2> QED BY <2>2, <2>3 DEF IInv
  <1> QED BY Zenon, <1>2, <1>3 DEF setup_init_task_capabilities, release_lock

LEMMA StutterPreserves ==
  ASSUME IInv, UNCHANGED vars
  PROVE  IInv'
  <1>1. ZonesFromMap' /\ InArena' /\ ApartInZone'
    <2>1. zone_list' = zone_list /\ blocks' \subseteq blocks
      BY DEF vars
    <2> QED BY <2>1, FewerBlocks
  <1>2. Flags' /\ AnswersUntilExhausted' /\ NothingAtBoot'
    BY Zenon DEF vars, IInv, Flags, AnswersUntilExhausted, NothingAtBoot
  <1> QED BY <1>1, <1>2 DEF IInv
-----------------------------------------------------------------------------
\* The invariant of the allocator: the zones are those of the memory map, a
\* block handed out lies in its zone's arena and overlaps no other of the
\* zone, and the lock is only taken between calls once a call has failed.
THEOREM PhysMemInvariant ==
  ASSUME PhysMemAssumption
  PROVE  Spec => []IInv
  <1>1. Init => IInv
    <2> SUFFICES ASSUME Init PROVE IInv
      OBVIOUS
    <2>1. ZonesFromMap
      <3>1. zone_list = <<>> /\ DOMAIN zone_list = {}
        BY DEF Init
      <3> QED BY <3>1 DEF ZonesFromMap
    <2>2. InArena /\ ApartInZone /\ NothingAtBoot
      BY DEF Init, InArena, ApartInZone, NothingAtBoot
    <2>3. Flags /\ AnswersUntilExhausted
      BY Zenon DEF Init, Flags, AnswersUntilExhausted
    <2> QED BY <2>1, <2>2, <2>3 DEF IInv
  <1>2. IInv /\ [Next]_vars => IInv'
    BY InitPreserves, AllocPreserves, FreePreserves, SetupPreserves, StutterPreserves
       DEF Next
  <1> QED BY <1>1, <1>2, PTL DEF Spec

\* What the invariant says of a block in two zones: arch_alloc_page_sz()
\* never hands out overlapping memory, and arch_free_page() finds the zone.
LEMMA InvariantImpliesSound ==
  ASSUME PhysMemAssumption
  PROVE  IInv => PagesSound
  <1> SUFFICES ASSUME IInv PROVE PagesSound
    OBVIOUS
  <1>s. Sizes \subseteq Nat \ {0} /\ ZONE_SIZE \in 1 .. PAGE_SIZE
        /\ PAGE_SIZE \in Nat \ {0} /\ HHDM \in Nat
    BY DEF PhysMemAssumption
  <1>z. ZonesFromMap
    BY DEF IInv
  <1>b. \A b \in blocks :
          /\ b.zone \in DOMAIN zone_list /\ b.size \in Nat \ {0} /\ b.at \in Nat
          /\ b.at >= zone_list[b.zone].start
          /\ b.at + b.size <= zone_list[b.zone].start + zone_list[b.zone].len
    BY <1>s DEF IInv, InArena
  <1>1. TypeOK
    <2>1. zone_list \in [DOMAIN zone_list -> [start : Nat, len : Nat]]
      <3>1. \A z \in DOMAIN zone_list : zone_list[z] \in [start : Nat, len : Nat]
        BY <1>z, ZoneFacts
      <3>2. zone_list = [z \in DOMAIN zone_list |-> zone_list[z]]
        BY <1>z DEF ZonesFromMap
      <3> QED BY <3>1, <3>2
    <2>2. \A b \in blocks : b \in [zone : DOMAIN zone_list, at : Nat, size : Sizes]
      BY DEF IInv, InArena
    <2>3. DOMAIN zone_list \subseteq DOMAIN mmap
      BY <1>z DEF ZonesFromMap
    <2> QED BY <2>1, <2>2, <2>3 DEF TypeOK, IInv, Flags
  <1>2. BlocksDisjoint
    <2> SUFFICES ASSUME NEW b \in blocks
                 PROVE  /\ \A c \in blocks \ {b} : ~Overlap(b.at, b.size, c.at, c.size)
                        /\ \E i \in DOMAIN mmap :
                             /\ mmap[i].type = "usable"
                             /\ b.at >= va(mmap[i].base) + ZONE_SIZE
                             /\ b.at + b.size <= va(mmap[i].base) + mmap[i].length
      BY DEF BlocksDisjoint
    <2>1. ASSUME NEW c \in blocks \ {b} PROVE ~Overlap(b.at, b.size, c.at, c.size)
      <3>1. CASE b.zone = c.zone
        BY <3>1 DEF IInv, ApartInZone
      <3>2. CASE b.zone # c.zone
        <4>1. \/ zone_list[b.zone].start + zone_list[b.zone].len < zone_list[c.zone].start
              \/ zone_list[c.zone].start + zone_list[c.zone].len < zone_list[b.zone].start
          BY <1>b, <1>z, <3>2, ArenasApart
        <4>2. /\ zone_list[b.zone] \in [start : Nat, len : Nat]
              /\ zone_list[c.zone] \in [start : Nat, len : Nat]
          BY <1>b, <1>z, ZoneFacts
        <4> QED BY <1>b, <4>1, <4>2 DEF Overlap
      <3> QED BY <3>1, <3>2
    <2>2. \E i \in DOMAIN mmap :
            /\ mmap[i].type = "usable"
            /\ b.at >= va(mmap[i].base) + ZONE_SIZE
            /\ b.at + b.size <= va(mmap[i].base) + mmap[i].length
      <3> DEFINE z == b.zone
      <3>1. /\ z \in DOMAIN mmap /\ mmap[z].type = "usable"
            /\ zone_list[z].start = mmap[z].base + HHDM + PAGE_SIZE
            /\ zone_list[z].start + zone_list[z].len = mmap[z].base + HHDM + mmap[z].length - 1
            /\ mmap[z].base \in Nat /\ mmap[z].length \in Nat
        BY <1>b, <1>z, ZoneFacts
      <3>2. /\ b.at >= va(mmap[z].base) + ZONE_SIZE
            /\ b.at + b.size <= va(mmap[z].base) + mmap[z].length
        BY <1>s, <1>b, <3>1 DEF va
      <3> QED BY <3>1, <3>2
    <2> QED BY <2>1, <2>2
  <1>3. FreeFindsOwner
    <2> SUFFICES ASSUME NEW b \in blocks, NEW z \in DOMAIN zone_list
                 PROVE  InZone(z, b.at) <=> z = b.zone
      BY DEF FreeFindsOwner
    <2>1. /\ zone_list[z] \in [start : Nat, len : Nat]
          /\ zone_list[b.zone] \in [start : Nat, len : Nat]
      BY <1>b, <1>z, ZoneFacts
    <2>2. CASE z = b.zone
      BY <1>b, <2>1, <2>2 DEF InZone
    <2>3. CASE z # b.zone
      <3>1. \/ zone_list[b.zone].start + zone_list[b.zone].len < zone_list[z].start
            \/ zone_list[z].start + zone_list[z].len < zone_list[b.zone].start
        BY <1>b, <1>z, <2>3, ArenasApart
      <3> QED BY <1>b, <2>1, <2>3, <3>1 DEF InZone
    <2> QED BY <2>2, <2>3
  <1> QED BY <1>1, <1>2, <1>3 DEF PagesSound

\* The blocks that arch_alloc_page_sz() has handed out never overlap, lie in
\* usable memory behind the zone's descriptor, and arch_free_page() gives
\* each back to the zone it came from.
THEOREM PagesAreSound ==
  ASSUME PhysMemAssumption
  PROVE  Spec => []PagesSound
  <1>1. IInv => PagesSound
    BY InvariantImpliesSound
  <1> QED BY <1>1, PhysMemInvariant, PTL

\* The allocator answers until an allocation has failed.
THEOREM AnswersWhileMemoryLasts ==
  ASSUME PhysMemAssumption
  PROVE  Spec => []AnswersUntilExhausted
  <1>1. IInv => AnswersUntilExhausted
    BY DEF IInv
  <1> QED BY <1>1, PhysMemInvariant, PTL

\* The step of kern_main() that reserves the region of init's capability
\* leaves the allocator as it was.
ReservationHasNoEffect == reserved' # reserved => blocks' = blocks

\* arch_reserve_range() is called with a physical address and compared with
\* the higher-half addresses of the arenas: whatever the memory map, it marks
\* nothing, and the region stays free for arch_alloc_page_sz().
THEOREM RegionIsNotReserved ==
  ASSUME PhysMemAssumption
  PROVE  Spec => [][ReservationHasNoEffect]_vars
  <1>1. IInv /\ [Next]_vars => [ReservationHasNoEffect]_vars
    <2> SUFFICES ASSUME IInv, Next, reserved' # reserved PROVE blocks' = blocks
      BY DEF ReservationHasNoEffect
    <2>1. setup_init_task_capabilities
      BY DEF Next, init_phys_allocator, arch_alloc_page_sz, arch_free_page
    <2>2. PICK i \in DOMAIN mmap : arch_reserve_range(mmap[i].base, REGION)
      BY <2>1 DEF setup_init_task_capabilities
    <2> QED BY <2>2, ReservesNothing DEF IInv
  <1> QED BY <1>1, PhysMemInvariant, PTL DEF Spec
=============================================================================
