------------------------------ MODULE PhysMem ------------------------------
(***************************************************************************)
(* The physical memory allocator of x86: arch/x86/mm/phys.c.  Usable       *)
(* entries of the memory map become zones, each a descriptor page and an   *)
(* arena of a buddy allocator; allocation tries the zones in order.        *)
(*                                                                         *)
(* Addresses are in bytes with a small PAGE_SIZE; va() adds the offset of  *)
(* the higher-half map.  The calls run on one CPU with interrupts masked,  *)
(* so each is one step; a call that finds pmm_lock taken spins for ever.   *)
(* The buddy allocator is abstracted to the blocks it has handed out and   *)
(* returns any free block that is aligned to its size in the arena.        *)
(***************************************************************************)
EXTENDS Integers, Sequences

CONSTANTS
  PAGE_SIZE,
  HHDM,         \* offset of the higher-half map
  ZONE_SIZE,    \* size of a zone descriptor
  BUDDY_SIZE,   \* size of a buddy allocator's own data, at the end of its arena
  mmap,         \* the memory map: base, length and type of each entry
  Sizes,        \* sizes asked for, each a power of two
  REGION        \* size of the region that kern_main() reserves (16 MiB)

PhysMemAssumption ==
  /\ PAGE_SIZE \in Nat \ {0} /\ REGION \in Nat \ {0}
  /\ HHDM \in Nat /\ HHDM % PAGE_SIZE = 0
  /\ ZONE_SIZE \in 1 .. PAGE_SIZE /\ BUDDY_SIZE \in Nat
  /\ Sizes \subseteq Nat \ {0}
  /\ mmap \in Seq([base : Nat, length : Nat \ {0},
                   type : {"usable", "framebuffer", "other"}])
  /\ \A i \in DOMAIN mmap :
       /\ mmap[i].base % PAGE_SIZE = 0 /\ mmap[i].length % PAGE_SIZE = 0
       /\ mmap[i].base + mmap[i].length < HHDM
  /\ \A i, j \in DOMAIN mmap : i < j => mmap[i].base + mmap[i].length <= mmap[j].base

VARIABLES
  zone_list,    \* start and length of each zone, by the number of its entry
  blocks,       \* blocks handed out: zone, address and size
  pmm_lock,
  cpu,          \* "boot", "running" or "spinning"
  oom,          \* history: some allocation has returned NULL
  reserved      \* history: the range that kern_main() has reserved, in va()

vars == <<zone_list, blocks, pmm_lock, cpu, oom, reserved>>

va(paddr) == paddr + HHDM
ALIGN_UP(n) == ((n + PAGE_SIZE - 1) \div PAGE_SIZE) * PAGE_SIZE

Init ==
  /\ zone_list = <<>>
  /\ blocks = {}
  /\ pmm_lock = FALSE
  /\ cpu = "boot"
  /\ oom = FALSE
  /\ reserved = [base |-> 0, len |-> 0]
-----------------------------------------------------------------------------
\* Mutant: the arena starts where the descriptor does.
init_zone_OnDescriptor(base, len) == [start |-> base, len |-> len - PAGE_SIZE]

init_zone(base, len) ==
  [start |-> ALIGN_UP(base + ZONE_SIZE), len |-> len - PAGE_SIZE]

\* Entries of one page have no room for a zone.
HasZone(entry) == entry.type = "usable" /\ entry.length # PAGE_SIZE

ZoneOf(entry) == init_zone(va(entry.base), entry.length - 1)

init_phys_allocator ==
  /\ cpu = "boot"
  /\ zone_list' = [i \in {i \in DOMAIN mmap : HasZone(mmap[i])} |-> ZoneOf(mmap[i])]
  /\ cpu' = "running"
  /\ UNCHANGED <<blocks, pmm_lock, oom, reserved>>

\* The bytes of a block, of the arena that a zone's allocator hands out.
Overlap(a, m, b, n) == a < b + n /\ b < a + m
ArenaSize(z) == zone_list[z].len - BUDDY_SIZE

FreeAt(z, at, sz) ==
  \A b \in blocks : b.zone = z => ~Overlap(at, sz, b.at, b.size)

\* buddy_malloc(): a free block of the zone's arena.
buddy_malloc(z, sz) ==
  {[zone |-> z, at |-> zone_list[z].start + k * sz, size |-> sz] :
     k \in {k \in 0 .. (ArenaSize(z) \div sz) - 1 :
              FreeAt(z, zone_list[z].start + k * sz, sz)}}

\* find_first_free_block(): the first zone that has one.
find_first_free_block(sz) ==
  LET fits == {z \in DOMAIN zone_list :
                 zone_list[z].len >= sz /\ buddy_malloc(z, sz) # {}}
  IN IF fits = {} THEN {}
     ELSE buddy_malloc(CHOOSE z \in fits : \A y \in fits : z <= y, sz)

\* acquire_lock() of a lock that nobody will release.
Spins == pmm_lock /\ cpu' = "spinning" /\ UNCHANGED <<blocks, pmm_lock, oom>>

\* arch_alloc_page_sz(): a caller that gets NULL leaves the lock taken.
arch_alloc_page_sz(sz) ==
  /\ cpu = "running"
  /\ \/ Spins
     \/ /\ ~pmm_lock
        /\ \E block \in find_first_free_block(sz) : blocks' = blocks \cup {block}
        /\ UNCHANGED <<pmm_lock, cpu, oom>>
     \/ /\ ~pmm_lock
        /\ find_first_free_block(sz) = {}
        /\ oom' = TRUE
        /\ pmm_lock' = TRUE
        /\ UNCHANGED <<blocks, cpu>>
  /\ UNCHANGED <<zone_list, reserved>>

InZone(z, addr) ==
  addr >= zone_list[z].start /\ addr <= zone_list[z].start + zone_list[z].len

\* buddy_free(): the zone's allocator releases the block at the address.
buddy_free(z, addr) == {b \in blocks : b.zone = z /\ b.at = addr}

\* Mutant: the lock is kept.
release_lock_Never == pmm_lock' = TRUE

release_lock == pmm_lock' = FALSE

\* arch_free_page() of a block that was handed out.
arch_free_page(block) ==
  /\ cpu = "running"
  /\ block \in blocks
  /\ \/ Spins
     \/ /\ ~pmm_lock
        /\ LET zones == {z \in DOMAIN zone_list : InZone(z, block.at)}
               freed == IF zones = {} THEN {}
                        ELSE buddy_free(CHOOSE z \in zones :
                                          \A y \in zones : z <= y, block.at)
           IN blocks' = blocks \ freed
        /\ release_lock
        /\ UNCHANGED <<cpu, oom>>
  /\ UNCHANGED <<zone_list, reserved>>

\* buddy_toggle_range_reservation(): marks the range in the zone's allocator
\* if the range lies in the arena, and does nothing otherwise.
buddy_toggle_range_reservation(z, base, len) ==
  IF base >= zone_list[z].start /\ base + len <= zone_list[z].start + ArenaSize(z)
  THEN {[zone |-> z, at |-> base, size |-> len]} ELSE {}

\* arch_reserve_range(), in every zone that is long enough.
arch_reserve_range(base, len) ==
  blocks' = blocks \cup
    UNION {buddy_toggle_range_reservation(z, base, len) :
             z \in {z \in DOMAIN zone_list : zone_list[z].len >= len}}

\* Entries that init gets a capability for, and those with room for a region.
Granted(entry) ==
  entry.type \in {"usable", "framebuffer"} /\ entry.length # PAGE_SIZE
HasRegion(entry) == Granted(entry) /\ entry.length >= REGION

\* setup_init_task_capabilities() takes a region from the first entry that has
\* room for it, and reserves it by its physical base address.
setup_init_task_capabilities ==
  /\ cpu = "running" /\ reserved.len = 0
  /\ \E i \in DOMAIN mmap :
       /\ HasRegion(mmap[i])
       /\ \A j \in 1 .. i - 1 : ~HasRegion(mmap[j])
       /\ \/ Spins /\ UNCHANGED reserved
          \/ /\ ~pmm_lock
             /\ arch_reserve_range(mmap[i].base, REGION)
             /\ release_lock
             /\ reserved' = [base |-> va(mmap[i].base), len |-> REGION]
             /\ UNCHANGED <<cpu, oom>>
  /\ UNCHANGED zone_list

Next ==
  \/ init_phys_allocator
  \/ \E sz \in Sizes : arch_alloc_page_sz(sz)
  \/ \E block \in blocks : arch_free_page(block)
  \/ setup_init_task_capabilities

Spec == Init /\ [][Next]_vars
-----------------------------------------------------------------------------
TypeOK ==
  /\ DOMAIN zone_list \subseteq DOMAIN mmap
  /\ zone_list \in [DOMAIN zone_list -> [start : Nat, len : Nat]]
  /\ \A b \in blocks : b \in [zone : DOMAIN zone_list, at : Nat, size : Sizes]
  /\ pmm_lock \in BOOLEAN
  /\ cpu \in {"boot", "running", "spinning"}
  /\ oom \in BOOLEAN

\* A block that arch_alloc_page_sz() hands out overlaps no other, lies in one
\* usable entry of the memory map and leaves the descriptor of its zone alone.
BlocksDisjoint ==
  \A b \in blocks :
    /\ \A c \in blocks \ {b} : ~Overlap(b.at, b.size, c.at, c.size)
    /\ \E i \in DOMAIN mmap :
         /\ mmap[i].type = "usable"
         /\ b.at >= va(mmap[i].base) + ZONE_SIZE
         /\ b.at + b.size <= va(mmap[i].base) + mmap[i].length

\* The allocator answers every call until one allocation has failed: only
\* arch_alloc_page_sz() returning NULL leaves the lock taken.
AnswersUntilExhausted == pmm_lock \/ cpu = "spinning" => oom

\* arch_free_page() finds the zone a block came from, also where the zones of
\* two entries of the memory map meet.
FreeFindsOwner ==
  \A b \in blocks, z \in DOMAIN zone_list : InZone(z, b.at) <=> z = b.zone

\* What arch_alloc_page_sz() and arch_free_page() promise of the blocks.
PagesSound == TypeOK /\ BlocksDisjoint /\ FreeFindsOwner

\* What the reservation is for ("steal some memory for the allocatable region
\* capability"): the physical allocator hands out no block of the region once
\* it has been reserved.
RegionNotHandedOut ==
  [][reserved.len > 0 =>
       \A b \in blocks' \ blocks : ~Overlap(b.at, b.size, reserved.base, reserved.len)]_vars
=============================================================================
