----------------------------- MODULE Capability -----------------------------
(***************************************************************************)
(* Capabilities and the creation of execution spaces: service/capability.c *)
(* and service/execution-space/create.c, as kern_main() and the system     *)
(* call that creates a process use them.                                   *)
(*                                                                         *)
(* The allocator in a capability's region is the one of Buddy, so blocks   *)
(* lie where buddy_malloc() puts them.  Addresses are in bytes with a      *)
(* small PAGE_SIZE; an argument is its length.  The kernel is not          *)
(* preempted, so each call is one step.                                    *)
(***************************************************************************)
EXTENDS Buddy

CONSTANTS
  PAGE_SIZE,
  HHDM,         \* offset of the higher-half map
  MiB16,        \* size of the region that init allocates from
  INT_BITS,     \* width of an int
  mmap,         \* the memory map: base, length and type of each entry
  Arguments,    \* argument vectors of init: the strings' lengths
  Sizes,        \* sizes asked of a capability's region
  MaxSpaces,    \* bound: calls that create an execution space
  MaxBlocks     \* bound: other blocks taken from the region at one time

BUDDY_ALLOC_ALIGN == 64
SIZEOF_POINTER == 8

CapabilityAssumption ==
  /\ PAGE_SIZE \in Nat \ {0} /\ PAGE_SIZE % BUDDY_ALLOC_ALIGN = 0
  /\ HHDM \in Nat /\ MiB16 \in Nat /\ INT_BITS \in Nat
  /\ \A i \in DOMAIN mmap : /\ mmap[i].base \in Nat /\ mmap[i].length \in Nat
                            /\ mmap[i].base % PAGE_SIZE = 0
                            /\ mmap[i].length % PAGE_SIZE = 0

VARIABLES
  entry,        \* the entry of the memory map that is looked at next
  caps,         \* the capabilities made so far
  pool,         \* the allocator of the allocatable region
  spaces,       \* the execution spaces created
  blocks,       \* other blocks taken from the region
  calls,        \* calls of create_execution_space() so far
  cpu           \* "boot", "running", "panic" or "fault"

vars == <<entry, caps, pool, spaces, blocks, calls, cpu>>

va(paddr) == paddr + HHDM
pa(vaddr) == vaddr - HHDM

Init ==
  /\ entry = 1 /\ caps = <<>> /\ pool = NoBuddy
  /\ spaces = <<>> /\ blocks = {} /\ calls = 0 /\ cpu = "boot"
-----------------------------------------------------------------------------

CAPABILITY_HAS_ACCESS(cap, access) == access \subseteq cap.type

capability_create(type, data) == [type |-> type] @@ data

\* A number passed as an int.
AsInt(n) ==
  LET low == n % 2 ^ INT_BITS
  IN  IF low >= 2 ^ (INT_BITS - 1) THEN low - 2 ^ INT_BITS ELSE low

capability_create_memory_region(region, sz, rw, type) ==
  capability_create((IF rw THEN {"CAP_WRITE"} ELSE {}) \cup {"CAP_READ", "CAP_MEMORY_REGION"},
                    [base |-> region, limit |-> AsInt(sz), region |-> type])

CAP_BAD == [type |-> {}, base |-> 0, limit |-> 0, region |-> "bad"]

\* The capability of the whole range; the allocator it names is Embedded().
capability_make_region_allocatable(cap) ==
  IF ~ CAPABILITY_HAS_ACCESS(cap, {"CAP_MEMORY_REGION"}) THEN CAP_BAD
  ELSE capability_create({"CAP_ALLOCATABLE_MEMORY_REGION", "CAP_READ", "CAP_WRITE"},
                         [base |-> cap.base, limit |-> cap.limit, region |-> "pool"])

Embedded(cap) == buddy_embed_alignment(va(cap.base), cap.limit, BUDDY_ALLOC_ALIGN)

\* capability_alloc_from(): with an Answer of the pool.
capability_alloc_from(b, cap, size) ==
  IF ~ CAPABILITY_HAS_ACCESS(cap, {"CAP_ALLOCATABLE_MEMORY_REGION"}) THEN Answer(b, NULL)
  ELSE buddy_malloc(b, size)

\* The system's spelling.
capablity_free_from(b, cap, ptr) ==
  IF ~ CAPABILITY_HAS_ACCESS(cap, {"CAP_ALLOCATABLE_MEMORY_REGION"}) THEN b
  ELSE buddy_free(b, ptr)
-----------------------------------------------------------------------------
Granted(e) == e.type \in {"usable", "framebuffer"} /\ e.length # PAGE_SIZE
HasRegion == \E i \in DOMAIN caps : caps[i].region = "pool"

\* What is left of the capability of an entry that the region is taken from.
Rest(cap) == [cap EXCEPT !.base = @ + MiB16, !.limit = @ - MiB16]

\* One round of the loop of setup_init_task_capabilities().
setup_init_task_capabilities ==
  /\ cpu = "boot" /\ entry <= Len(mmap)
  /\ entry' = entry + 1
  /\ LET e    == mmap[entry]
         kind == IF e.type = "usable" THEN "RAM" ELSE "FRAMEBUFFER"
         cap  == capability_create_memory_region(e.base, e.length, TRUE, kind)
         all  == capability_make_region_allocatable(cap)
     IN  \/ ~ Granted(e) /\ UNCHANGED <<caps, pool>>
         \/ /\ Granted(e) /\ (e.length < MiB16 \/ HasRegion)
            /\ caps' = Append(caps, cap) /\ pool' = pool
         \/ /\ Granted(e) /\ e.length >= MiB16 /\ ~ HasRegion
            /\ pool' = Embedded(all)
            /\ caps' = caps \o <<all, Rest(cap)>>
  /\ UNCHANGED <<spaces, blocks, calls, cpu>>

\* Mutant: the array of arguments has no room for its last, empty entry.
ArgvSize_NoNull(argc) == argc * SIZEOF_POINTER

ArgvSize(argc) == (argc + 1) * SIZEOF_POINTER

ArgLength(len) == len + 1

\* The strings are copied one after the other into blocks of their own; one
\* that gets no block is copied to NULL.
CopyArguments(b, cap, argv) ==
  FoldLeft(LAMBDA acc, len :
             LET copied(got) == [b |-> got.b, at |-> Append(acc.at, got.ret),
                                 fault |-> acc.fault \/ got.ret = NULL]
             IN  copied(capability_alloc_from(acc.b, cap, ArgLength(len))),
           [b |-> b, at |-> <<>>, fault |-> FALSE], argv)

\* The pages that arch_map_page() maps at their own physical address.
MappedPages(stack, argv_base) ==
  {pa(stack) \div PAGE_SIZE}
    \cup IF argv_base = NULL THEN {} ELSE {pa(argv_base) \div PAGE_SIZE}

Space(stack, argv_base, at, argv) ==
  [stack |-> stack, argv_base |-> argv_base, at |-> at, argv |-> argv,
   mapped |-> MappedPages(stack, argv_base)]

\* create_execution_space(): the pool afterwards, and the space or an error.
\* pagemap and elf tell whether arch_create_new_pagemap() and load_elf()
\* succeed.  An early return gives nothing back.
create_execution_space(argv, capabilities, pagemap, elf) ==
  LET Error(b) == [b |-> b, result |-> "error", space |-> <<>>]
      Loaded(stack, base, args) ==
        IF args.fault THEN [b |-> args.b, result |-> "fault", space |-> <<>>]
        ELSE IF ~ elf THEN Error(args.b)
        ELSE [b |-> args.b, result |-> "ok",
              space |-> <<Space(stack.ret, base.ret, args.at, argv)>>]
      WithArray(cap, stack, base) ==
        IF argv # <<>> /\ base.ret = NULL THEN Error(base.b)
        ELSE Loaded(stack, base, CopyArguments(base.b, cap, argv))
      WithStack(cap, stack) ==
        IF stack.ret = NULL THEN Error(stack.b)
        ELSE WithArray(cap, stack,
                       IF argv = <<>> THEN Answer(stack.b, NULL)
                       ELSE capability_alloc_from(stack.b, cap, ArgvSize(Len(argv))))
      pools == SelectSeq(capabilities,
                         LAMBDA c : "CAP_ALLOCATABLE_MEMORY_REGION" \in c.type)
  IN  IF ~ pagemap \/ pools = <<>> THEN Error(pool)
      ELSE WithStack(pools[1], capability_alloc_from(pool, pools[1], PAGE_SIZE))

\* The caller goes on with what was made, or with what an error means to it.
Created(made, on_error) ==
  /\ pool' = made.b
  /\ spaces' = spaces \o made.space
  /\ cpu' = CASE made.result = "ok" -> "running"
              [] made.result = "error" -> on_error
              [] made.result = "fault" -> "fault"

\* kern_main() creates init; an error is a panic.
CreateInit(argv, pagemap, elf) ==
  /\ cpu = "boot" /\ entry > Len(mmap)
  /\ Created(create_execution_space(argv, caps, pagemap, elf), "panic")
  /\ calls' = calls + 1
  /\ UNCHANGED <<entry, caps, blocks>>

\* A later process: with its own choice of what it is given.  The system call
\* passes no arguments and no capabilities.
CreateProcess(argv, given, pagemap, elf) ==
  /\ cpu = "running" /\ calls < MaxSpaces
  /\ Created(create_execution_space(argv, given, pagemap, elf), "running")
  /\ calls' = calls + 1
  /\ UNCHANGED <<entry, caps, blocks>>

\* The kernel takes a block from a capability, or gives one back.
AllocFrom(cap, size) ==
  /\ cpu = "running" /\ Cardinality(blocks) < MaxBlocks
  /\ LET Got(answer) ==
           /\ pool' = answer.b
           /\ blocks' = IF answer.ret = NULL THEN blocks
                        ELSE blocks \cup {[at |-> answer.ret, size |-> size, via |-> cap.region]}
     IN  Got(capability_alloc_from(pool, cap, size))
  /\ UNCHANGED <<entry, caps, spaces, calls, cpu>>

FreeFrom(cap, block) ==
  /\ cpu = "running" /\ block \in blocks
  /\ CAPABILITY_HAS_ACCESS(cap, {"CAP_ALLOCATABLE_MEMORY_REGION"})
  /\ pool' = capablity_free_from(pool, cap, block.at)
  /\ blocks' = blocks \ {block}
  /\ UNCHANGED <<entry, caps, spaces, calls, cpu>>

Halted == cpu \in {"panic", "fault"} /\ UNCHANGED vars

Next ==
  \/ setup_init_task_capabilities
  \/ \E argv \in Arguments, pagemap, elf \in BOOLEAN : CreateInit(argv, pagemap, elf)
  \/ \E pagemap, elf \in BOOLEAN : CreateProcess(<<>>, <<>>, pagemap, elf)
  \/ \E argv \in Arguments, elf \in BOOLEAN : CreateProcess(argv, caps, TRUE, elf)
  \/ \E i \in DOMAIN caps, size \in Sizes : AllocFrom(caps[i], size)
  \/ \E i \in DOMAIN caps, block \in blocks : FreeFrom(caps[i], block)
  \/ Halted

Spec == Init /\ [][Next]_vars
-----------------------------------------------------------------------------
Bytes(at, size) == [at |-> at, size |-> size]
Apart(x, y) == x.at + x.size <= y.at \/ y.at + y.size <= x.at

\* The memory an execution space uses: its stack, its array of arguments with
\* the empty entry, and every string with its last character.
UsedBy(s) ==
  <<Bytes(s.stack, PAGE_SIZE)>>
    \o (IF s.argv_base = NULL THEN <<>>
        ELSE <<Bytes(s.argv_base, (Len(s.argv) + 1) * SIZEOF_POINTER)>>)
    \o [i \in DOMAIN s.argv |-> Bytes(s.at[i], s.argv[i] + 1)]

InUse == FoldLeft(LAMBDA all, s : all \o UsedBy(s), SetToSeq(blocks), spaces)

PoolCap == CHOOSE c \in ToSet(caps) : c.region = "pool"

\* Stacks, argument arrays, strings and the other blocks never overlap, and
\* all lie in the region in front of its allocator's own data.
MemoryApart ==
  \A i \in DOMAIN InUse :
    /\ va(PoolCap.base) <= InUse[i].at
    /\ InUse[i].at + InUse[i].size <= pool.at
    /\ \A j \in DOMAIN InUse : i # j => Apart(InUse[i], InUse[j])

\* Init finds its arguments: every string lies in pages that its space maps,
\* although create_execution_space() maps only the page of the array.
InitReadsArguments ==
  spaces # <<>> =>
    \A i \in 2 .. Len(UsedBy(spaces[1])) :
      LET u == UsedBy(spaces[1])[i]
      IN  pa(u.at) \div PAGE_SIZE .. pa(u.at + u.size - 1) \div PAGE_SIZE
            \subseteq spaces[1].mapped

\* A block is only ever handed out through the capability of the allocatable
\* region: the right is checked before the allocator is looked at.
OnlyThroughRight == \A b \in blocks : b.via = "pool"

\* Each byte of memory that init is granted is in one region capability or in
\* the first bytes of the entry that the allocatable region is taken from.
GrantedOnce ==
  \A i, j \in DOMAIN caps :
    i # j /\ caps[i].region # "pool" /\ caps[j].region # "pool" =>
      Apart(Bytes(caps[i].base, caps[i].limit), Bytes(caps[j].base, caps[j].limit))

\* What kern_main() says: "Grant full memory access to init task".
FullAccess ==
  entry > Len(mmap) =>
    \A i \in DOMAIN mmap : Granted(mmap[i]) =>
      \E c \in ToSet(caps) :
        /\ c.region # "pool"
        /\ c.base + c.limit = mmap[i].base + mmap[i].length
        /\ c.base <= mmap[i].base + MiB16
=============================================================================
