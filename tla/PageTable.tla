----------------------------- MODULE PageTable -----------------------------
(***************************************************************************)
(* Virtual memory on x86: arch/x86/mm/virt.c over arch/x86/paging.         *)
(*                                                                         *)
(* Boot builds the kernel's page map, switches to it and maps the devices; *)
(* from then on address spaces are created one at a time (a system call    *)
(* runs with interrupts masked), each from an empty top-level table and a  *)
(* copy of its kernel half.  The loops that map ranges take one step per   *)
(* page.  A virtual page is its number; a table has ENTRIES entries (512), *)
(* and index_of() is the arithmetic of the code on page numbers.           *)
(*                                                                         *)
(* Page tables are never given back, so frames are named in the order      *)
(* arch_alloc_page() hands them out.  The frames that pages are mapped to  *)
(* are given by the callers.  What the processor does with the tables (the *)
(* walk and the translation cache) is external.                            *)
(***************************************************************************)
EXTENDS Integers

CONSTANTS
  ENTRIES,      \* entries of a table
  UserPages,    \* pages of the lower half that spaces map
  KernelPages,  \* pages of the upper half that boot maps
  PageFrames,   \* frames that pages are mapped to
  MaxTables,    \* tables there is memory for
  MaxSpaces,    \* bound: address spaces created after boot
  MaxMaps       \* bound: pages mapped in one space

PageTableAssumption ==
  /\ ENTRIES \in Nat /\ ENTRIES >= 2 /\ ENTRIES % 2 = 0
  /\ UserPages \subseteq 0 .. (ENTRIES \div 2) * ENTRIES * ENTRIES * ENTRIES - 1
  /\ KernelPages \subseteq (ENTRIES \div 2) * ENTRIES * ENTRIES * ENTRIES ..
                           ENTRIES * ENTRIES * ENTRIES * ENTRIES - 1
  /\ MaxTables \in Nat /\ MaxSpaces \in Nat /\ MaxMaps \in Nat
  /\ PageFrames \cap (0 .. MaxTables) = {}

VARIABLES
  tables,         \* contents of the frames that are or become page tables
  used,           \* frames 1 .. used have been handed out
  kernel_pagemap,
  phase,          \* "boot", "paging", "platform", "run" or "halted"
  building,       \* page map of the space that is being created, or NULL
  spaces,         \* page maps of the spaces that exist
  cr3,            \* page map in use, NULL before the kernel's is
  tlb,            \* the translation of one page that the processor has cached
  request,        \* history: the last page mapped
  created,        \* number of creations so far
  maps            \* pages mapped in the page map that is being built

vars == <<tables, used, kernel_pagemap, phase, building, spaces, cr3,
          tlb, request, created, maps>>

NULL == 0
Tables == 1 .. MaxTables
Index == 0 .. ENTRIES - 1
Pages == UserPages \cup KernelPages

\* What a walk of the tables yields: a frame and the access to it, or nothing.
Mappings == [frame : PageFrames, readwrite : BOOLEAN, supervisor : BOOLEAN]
Unmapped == [frame |-> NULL, readwrite |-> FALSE, supervisor |-> FALSE]

\* The translation cache: the entries are independent, so one is followed.
Translation(v, entry) == [page |-> v, entry |-> entry]
NoTranslation == Translation(-1, Unmapped)

Request(pml4, v, entry) == [space |-> pml4, page |-> v, entry |-> entry]

\* Access bits: the bit the code calls supervisor is set on user pages.
Pte(present, rw, super, address) ==
  [present |-> present, readwrite |-> rw, supervisor |-> super,
   address |-> address]
MAP_READONLY == [readwrite |-> FALSE, supervisor |-> FALSE]
MAP_KERN     == [readwrite |-> TRUE,  supervisor |-> FALSE]
MAP_USER_RW  == [readwrite |-> TRUE,  supervisor |-> TRUE]
MAP_USER_RO  == [readwrite |-> FALSE, supervisor |-> TRUE]

\* Every flag set of the kernel has the present bit.
paging_create_entry(address, flags) ==
  Pte(TRUE, flags.readwrite, flags.supervisor, address)

\* Contents of a frame: zeroed by arch_alloc_page(), and before that anything,
\* here an entry that points into another table.
Zeroed  == [i \in Index |-> Pte(FALSE, FALSE, FALSE, NULL)]
Garbage == [i \in Index |-> Pte(TRUE, TRUE, TRUE, 1)]

\* index_of(): 9 bits of the page number per level.
index_of(v, level) ==
  CASE level = 1 -> v % ENTRIES
    [] level = 2 -> (v \div ENTRIES) % ENTRIES
    [] level = 3 -> (v \div (ENTRIES * ENTRIES)) % ENTRIES
    [] level = 4 -> (v \div (ENTRIES * ENTRIES * ENTRIES)) % ENTRIES

Init ==
  /\ tables = [t \in Tables |-> Garbage]
  /\ used = 0
  /\ kernel_pagemap = NULL
  /\ phase = "boot"
  /\ building = NULL
  /\ spaces = {}
  /\ cr3 = NULL
  /\ tlb = NoTranslation
  /\ request = Request(NULL, -1, Unmapped)
  /\ created = 0
  /\ maps = 0
-----------------------------------------------------------------------------

\* arch_alloc_page() on the memory of a call: a zeroed frame, or none left.
arch_alloc_page(memory) ==
  IF memory.used = MaxTables THEN [memory EXCEPT !.ok = FALSE]
  ELSE [memory EXCEPT !.used = memory.used + 1,
                      !.tables[memory.used + 1] = Zeroed]

Memory == [tables |-> tables, used |-> used, at |-> NULL, ok |-> TRUE]

\* Mutant: the first mapping through a table decides.
Widened_Never(pte, flags) == pte

\* An entry on the way gains the access the new page needs.
Widened(pte, flags) ==
  [pte EXCEPT !.readwrite  = pte.readwrite \/ flags.readwrite,
              !.supervisor = pte.supervisor \/ flags.supervisor]

\* vmm_pml_advance(): the next table, made if there is none.
vmm_pml_advance(memory, i, flags) ==
  LET pte  == memory.tables[memory.at][i]
      next == arch_alloc_page(memory)
  IN IF ~memory.ok THEN memory
     ELSE IF pte.present
     THEN [memory EXCEPT !.tables[memory.at][i] = Widened(pte, flags),
                         !.at = pte.address]
     ELSE IF ~next.ok THEN next
     ELSE [next EXCEPT
             !.tables[memory.at][i] = paging_create_entry(next.used, flags),
             !.at = next.used]

\* Memory once arch_map_page() has reached the last table.
WalkDown(pml4, v, flags) ==
  LET pml4_ == [Memory EXCEPT !.at = pml4]
      pml3 == vmm_pml_advance(pml4_, index_of(v, 4), flags)
      pml2 == vmm_pml_advance(pml3, index_of(v, 3), flags)
  IN vmm_pml_advance(pml2, index_of(v, 2), flags)

\* Mutant: the cached translation of the page survives.
invlpg_Never(v) == UNCHANGED tlb

invlpg(v) == tlb' = IF tlb.page = v THEN NoTranslation ELSE tlb

\* arch_map_page(): a table that cannot be allocated is a panic, with the
\* tables above it already in place.
arch_map_page(pml4, v, paddr, flags) ==
  LET pml1 == WalkDown(pml4, v, flags)
  IN /\ used' = pml1.used
     /\ IF pml1.ok
        THEN /\ tables' = [pml1.tables EXCEPT
                  ![pml1.at][index_of(v, 1)] = paging_create_entry(paddr, flags)]
             /\ invlpg(v)
             /\ request' = Request(pml4, v, [frame      |-> paddr,
                                            readwrite  |-> flags.readwrite,
                                            supervisor |-> flags.supervisor])
             /\ UNCHANGED phase
        ELSE /\ tables' = pml1.tables
             /\ phase' = "halted"
             /\ UNCHANGED <<tlb, request>>
-----------------------------------------------------------------------------

\* wrcr3(): the processor forgets the translations it has cached.
wrcr3(pml4) == cr3' = pml4 /\ tlb' = NoTranslation

\* arch_init_paging(): an empty page map, ...
arch_init_paging ==
  /\ phase = "boot"
  /\ LET page == arch_alloc_page(Memory)
     IN /\ tables' = page.tables
        /\ used' = page.used
        /\ IF page.ok THEN kernel_pagemap' = page.used /\ phase' = "paging"
           ELSE phase' = "halted" /\ UNCHANGED kernel_pagemap
  /\ UNCHANGED <<building, spaces, cr3, tlb, request, created, maps>>

\* ... the physical memory and the kernel's image mapped into it, a page a
\* step, ...
MapKernelPage(v, paddr, flags) ==
  /\ phase = "paging"
  /\ maps < MaxMaps
  /\ maps' = maps + 1
  /\ arch_map_page(kernel_pagemap, v, paddr, flags)
  /\ UNCHANGED <<kernel_pagemap, building, spaces, cr3, created>>

\* ... and put to use.
arch_switch_to_kernel_pagemap ==
  /\ phase = "paging"
  /\ wrcr3(kernel_pagemap)
  /\ phase' = "platform"
  /\ UNCHANGED <<tables, used, kernel_pagemap, building, spaces, request,
                 created, maps>>

\* hpet_init() and lapic_init() map their registers in the page map in use,
\* over what arch_init_paging() may have mapped there.
MapDevice(v, paddr) ==
  /\ phase = "platform"
  /\ maps <= MaxMaps
  /\ maps' = maps + 1
  /\ arch_map_page(cr3, v, paddr, MAP_KERN)
  /\ UNCHANGED <<kernel_pagemap, building, spaces, cr3, created>>

\* platform_init() is over.
EnterKernMain ==
  /\ phase = "platform"
  /\ phase' = "run"
  /\ UNCHANGED <<tables, used, kernel_pagemap, building, spaces, cr3, tlb,
                 request, created, maps>>

\* Mutant: the copy starts one entry late.
KernelHalf_Late == ENTRIES \div 2 + 1 .. ENTRIES - 1

\* The entries arch_copy_kernel_mappings() copies (256 .. 511).
KernelHalf == ENTRIES \div 2 .. ENTRIES - 1

arch_copy_kernel_mappings(memory, pagemap) ==
  [t \in Tables |->
     IF t # pagemap THEN memory.tables[t]
     ELSE [i \in Index |-> IF i \in KernelHalf THEN tables[kernel_pagemap][i]
                           ELSE memory.tables[t][i]]]

\* create_execution_space(), up to the copy of the kernel half.  Without
\* memory for the top-level table it returns an error.
create_execution_space ==
  /\ phase = "run" /\ building = NULL
  /\ created < MaxSpaces
  /\ created' = created + 1
  /\ LET page == arch_alloc_page(Memory)
     IN /\ page.ok
        /\ used' = page.used
        /\ building' = page.used
        /\ tables' = arch_copy_kernel_mappings(page, page.used)
  /\ maps' = 0
  /\ UNCHANGED <<kernel_pagemap, phase, spaces, cr3, tlb, request>>

\* The pages of the new space: its stack, its arguments, its segments
\* (load_segment), the message region (ipc_assign_port) and, for init, the
\* ramdisk (kern_main).  A page may be mapped again.
MapUserPage(v, paddr, flags) ==
  /\ phase = "run" /\ building # NULL
  /\ maps < MaxMaps
  /\ maps' = maps + 1
  /\ arch_map_page(building, v, paddr, flags)
  /\ UNCHANGED <<kernel_pagemap, building, spaces, cr3, created>>

\* The space is complete and goes to the scheduler (sched_enqueue), or the
\* creation ends with an error after the page map was allocated.
FinishSpace ==
  /\ phase = "run" /\ building # NULL
  /\ spaces' \in {spaces, spaces \cup {building}}
  /\ building' = NULL
  /\ UNCHANGED <<tables, used, kernel_pagemap, phase, cr3, tlb, request,
                 created, maps>>

\* The scheduler enters a space.
arch_switch_pagemap(s) ==
  /\ phase = "run" /\ building = NULL
  /\ s \in spaces
  /\ wrcr3(s)
  /\ UNCHANGED <<tables, used, kernel_pagemap, phase, building, spaces,
                 request, created, maps>>
-----------------------------------------------------------------------------
\* The entry that the tables hold for page v under page map s, by the four
\* steps of arch_translate(), with the access the processor grants: what every
\* entry on the way allows.
arch_translate(s, v) ==
  LET e4 == tables[s][index_of(v, 4)]
      e3 == tables[e4.address][index_of(v, 3)]
      e2 == tables[e3.address][index_of(v, 2)]
      e1 == tables[e2.address][index_of(v, 1)]
  IN IF ~e4.present THEN Unmapped
     ELSE IF ~e3.present THEN Unmapped
     ELSE IF ~e2.present THEN Unmapped
     ELSE IF ~e1.present THEN Unmapped
     ELSE [frame      |-> e1.address,
           readwrite  |-> \A e \in {e4, e3, e2, e1} : e.readwrite,
           supervisor |-> \A e \in {e4, e3, e2, e1} : e.supervisor]

\* The processor uses a page, and may keep its translation.
Access(v) ==
  /\ phase \in {"platform", "run"}
  /\ cr3 # NULL
  /\ arch_translate(cr3, v) # Unmapped
  /\ tlb' = Translation(v, arch_translate(cr3, v))
  /\ UNCHANGED <<tables, used, kernel_pagemap, phase, building, spaces, cr3,
                 request, created, maps>>

Next ==
  \/ arch_init_paging
  \/ \E v \in KernelPages, paddr \in PageFrames,
        flags \in {MAP_READONLY, MAP_KERN} : MapKernelPage(v, paddr, flags)
  \/ arch_switch_to_kernel_pagemap
  \/ \E v \in KernelPages, paddr \in PageFrames : MapDevice(v, paddr)
  \/ EnterKernMain
  \/ create_execution_space
  \/ \E v \in UserPages, paddr \in PageFrames,
        flags \in {MAP_USER_RW, MAP_USER_RO} : MapUserPage(v, paddr, flags)
  \/ FinishSpace
  \/ \E s \in Tables : arch_switch_pagemap(s)
  \/ \E v \in Pages : Access(v)

Spec == Init /\ [][Next]_vars
-----------------------------------------------------------------------------
TypeOK ==
  /\ tables \in [Tables -> [Index -> [present : BOOLEAN, readwrite : BOOLEAN,
                                      supervisor : BOOLEAN,
                                      address : (0 .. MaxTables) \cup PageFrames]]]
  /\ used \in 0 .. MaxTables
  /\ kernel_pagemap \in 0 .. used
  /\ phase \in {"boot", "paging", "platform", "run", "halted"}
  /\ building \in 0 .. used
  /\ spaces \subseteq 1 .. used
  /\ cr3 \in 0 .. used
  /\ created \in 0 .. MaxSpaces
  /\ maps \in 0 .. MaxMaps + 1

\* The page maps in existence.
PageMaps == ({kernel_pagemap, building} \cup spaces) \ {NULL}

\* Everything the processor has cached is what the tables in use say now:
\* no mapping of a page in use goes without invlpg, and no switch of page maps
\* leaves a translation of the old one behind.
CacheCoherent ==
  tlb # NoTranslation => cr3 # NULL /\ tlb.entry = arch_translate(cr3, tlb.page)

\* Every space sees the kernel's half exactly as the kernel's page map has it.
KernelHalfShared ==
  \A s \in PageMaps, v \in KernelPages :
    arch_translate(s, v) = arch_translate(kernel_pagemap, v)

\* No page of the kernel's half is accessible in user mode, in any space,
\* although the entries on the way to user pages are widened.
KernelHalfProtected ==
  \A s \in PageMaps, v \in KernelPages :
    arch_translate(s, v) # Unmapped => ~arch_translate(s, v).supervisor

KernelHalfKept == TypeOK /\ KernelHalfShared /\ KernelHalfProtected

Mapping ==
  [s \in Tables |-> [v \in Pages |->
     IF s \in PageMaps THEN arch_translate(s, v) ELSE Unmapped]]

A == INSTANCE AddressSpace WITH Spaces <- Tables, mapping <- Mapping

\* The page tables implement flat address spaces: a page has the frame and
\* exactly the access of its last arch_map_page(), whatever was mapped before
\* through the same tables; no other page, and no other space, changes; a new
\* space starts with the kernel's half.
ImplementsAddressSpace == A!Init /\ [][A!Next]_<<Mapping, request>>
=============================================================================
