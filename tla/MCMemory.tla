------------------------------ MODULE MCMemory ------------------------------
(***************************************************************************)
(* Every allocator of the kernel for TLC: pages (the specification this    *)
(* module extends), slab caches, the memory of capabilities, the heap and  *)
(* the buddy allocator.  Each behaviour exercises one of them; "part" says *)
(* which.                                                                  *)
(*                                                                         *)
(* "pages" has pages of four bytes and a memory map with a usable entry    *)
(* that is too short for the region, a reserved one, two usable entries    *)
(* that touch, one of a single page and the framebuffer.  "cache" makes    *)
(* two slab caches one after the other that may not grow, "grow" one that  *)
(* grows until the page allocator is empty.  "spaces" has pages of 1024    *)
(* bytes and an entry of one page, a hole, the entry that the region is    *)
(* taken from, the framebuffer and a second large entry.                   *)
(*                                                                         *)
(* "heap" has one pool and requests below, at and above the small-block    *)
(* boundary; the last is larger than any block.  "lists" has room for six  *)
(* blocks of the least size, so that lists of several blocks come about.   *)
(* "pools" has two pools, one of an odd length, next to memory that cannot *)
(* be a pool: too small, and not aligned.                                  *)
(*                                                                         *)
(* "api" has memory of three, six and eight slots of two bytes beside the  *)
(* buddy allocator, requests of each block size, a range that fills its    *)
(* last slot only in part and an array whose size wraps to two.  "resize"  *)
(* resizes the memory within one order of the tree and to a greater one.   *)
(* "embed" has slots of 128 bytes with the allocator at their end.         *)
(* "bytes" is the stored bitset of three bytes, with ranges at and beside  *)
(* their borders.  "math" runs n through all values up to 1500 and tries   *)
(* each function on n and beside the n-th power of two.                    *)
(***************************************************************************)
EXTENDS PhysMem

Entry(base, length, type) == [base |-> base, length |-> length, type |-> type]

PagesMmap ==
  << Entry(0, 12, "usable"), Entry(12, 4, "other"), Entry(16, 16, "usable"),
     Entry(32, 20, "usable"), Entry(60, 4, "usable"), Entry(64, 16, "framebuffer") >>

SpacesMmap ==
  << Entry(0, 1024, "usable"), Entry(1024, 2048, "other"), Entry(4096, 5120, "usable"),
     Entry(9216, 2048, "framebuffer"), Entry(11264, 5120, "usable") >>

\* init.elf and the address of the ramdisk; no arguments; seven short ones.
Arguments == {<<8, 18>>, <<>>, <<1, 1, 1, 1, 1, 1, 1, 63>>}

VARIABLES
  part,                                             \* what this behaviour is about
  mem, free_pages, slock, cache, held,              \* Slab
  made, frees, scpu,
  entry, caps, pool, spaces, taken, calls, ccpu,    \* Capability
  heap, pools, asked, res,                          \* Tlsf
  buddy, room, areas,                               \* BuddyOps
  bytes, set,                                       \* BuddyBytes
  n

slabVars == <<mem, free_pages, slock, cache, held, made, frees, scpu>>
capVars == <<entry, caps, pool, spaces, taken, calls, ccpu>>
heapVars == <<heap, pools, asked, res>>
opsVars == <<buddy, room, areas>>
bitVars == <<bytes, set>>
memoryVars == <<part, vars, slabVars, capVars, heapVars, opsVars, bitVars, n>>

Span(at, len) == [at |-> at, len |-> len]

Fixed == INSTANCE Slab WITH PAGE_SIZE <- 256, Pages <- {256, 512, 768},
                            Requests <- {<<0, 8>>, <<28, 0>>, <<25, 32>>, <<40, 8>>},
                            FlagSets <- {{"KMEM_NO_GROW"}, {"KMEM_NO_GROW", "KMEM_PANIC"}},
                            Scribbles <- {0, 16, 24}, MaxCaches <- 2, MaxFrees <- 4,
                            pmm_lock <- slock, cpu <- scpu
Growing == INSTANCE Slab WITH PAGE_SIZE <- 256, Pages <- {256, 512, 768, 1024},
                              Requests <- {<<24, 8>>, <<32, 0>>},
                              FlagSets <- {{}, {"KMEM_PANIC"}},
                              Scribbles <- {0, 16, 24}, MaxCaches <- 1, MaxFrees <- 4,
                              pmm_lock <- slock, cpu <- scpu
Cap == INSTANCE Capability WITH PAGE_SIZE <- 1024, HHDM <- 65536, MiB16 <- 2048,
                                INT_BITS <- 14, mmap <- SpacesMmap, Sizes <- {64, 700},
                                MaxSpaces <- 2, MaxBlocks <- 2, blocks <- taken, cpu <- ccpu

Heap == INSTANCE Tlsf WITH
  SlIndexCountLog2 <- 2, AlignSizeLog2 <- 3, FlIndexMax <- 11,
  Sizes <- {0, 1, 272, 4096}, ReallocSizes <- {0, 72, 400}, Aligns <- {8, 64},
  Pools <- {[at |-> 1024, len |-> 896]}, MaxHeld <- 2
Lists == INSTANCE Tlsf WITH
  SlIndexCountLog2 <- 5, AlignSizeLog2 <- 3, FlIndexMax <- 11,
  Sizes <- {24}, ReallocSizes <- {56}, Aligns <- {64},
  Pools <- {[at |-> 1024, len |-> 208]}, MaxHeld <- 6
Pools == INSTANCE Tlsf WITH
  SlIndexCountLog2 <- 5, AlignSizeLog2 <- 3, FlIndexMax <- 11,
  Sizes <- {24, 100, 260}, ReallocSizes <- {200}, Aligns <- {64},
  Pools <- {[at |-> 1024, len |-> 300], [at |-> 2048, len |-> 564],
            [at |-> 4096, len |-> 32], [at |-> 5001, len |-> 300]}, MaxHeld <- 2

Api == INSTANCE BuddyOps WITH
  Alignment <- 2, Standard <- {6, 13, 16}, Embedded <- {}, Sizes <- {0, 3, 8},
  Arrays <- {<<0, 5>>, <<2, 3>>, <<2, 2 ^ 29 + 1>>},
  Ranges <- {Span(0, 2), Span(4, 3), Span(8, 6)}, Resizes <- {}, MaxHeld <- 3, held <- areas
Resized == INSTANCE BuddyOps WITH
  Alignment <- 2, Standard <- {6, 8, 10, 12, 16}, Embedded <- {}, Sizes <- {2, 4},
  Arrays <- {}, Ranges <- {}, MaxHeld <- 3, held <- areas,
  Resizes <- {<<6, 8>>, <<6, 12>>, <<8, 10>>, <<8, 16>>, <<10, 14>>, <<14, 10>>,
              <<12, 16>>, <<16, 12>>}
Inside == INSTANCE BuddyOps WITH
  Alignment <- 128, Standard <- {}, Embedded <- {100, 250, 600, 700},
  Sizes <- {100, 200, 512}, Arrays <- {}, Ranges <- {}, MaxHeld <- 3, held <- areas,
  Resizes <- {<<600, 1200>>, <<700, 1100>>, <<1100, 1500>>}
Stored == INSTANCE BuddyBytes WITH Buckets <- 3, Edges <- {0, 3, 7, 8, 13, 15, 16, 23}

MaxN == 1500
MaxPower == 28
MaxOrder == 20

ASSUME PhysMemAssumption /\ Fixed!SlabAssumption /\ Growing!SlabAssumption
ASSUME Cap!CapabilityAssumption
ASSUME Heap!ShapeAssumption /\ Lists!ShapeAssumption /\ Pools!ShapeAssumption
ASSUME Api!BuddyAssumption /\ Resized!BuddyAssumption /\ Inside!BuddyAssumption
ASSUME Stored!BytesAssumption
-----------------------------------------------------------------------------
MemoryInit ==
  /\ part \in {"pages", "cache", "grow", "spaces", "heap", "lists", "pools",
               "api", "resize", "embed", "bytes", "math"}
  /\ Init /\ Cap!Init /\ Heap!Init /\ Api!Init /\ Stored!Init /\ n = 0
  /\ IF part = "grow" THEN Growing!Init ELSE Fixed!Init

StepOf(name, A, others) == part = name /\ A /\ UNCHANGED <<part, others>>

notPages == <<slabVars, capVars, heapVars, opsVars, bitVars, n>>
notSlab == <<vars, capVars, heapVars, opsVars, bitVars, n>>
notCap == <<vars, slabVars, heapVars, opsVars, bitVars, n>>
notHeap == <<vars, slabVars, capVars, opsVars, bitVars, n>>
notOps == <<vars, slabVars, capVars, heapVars, bitVars, n>>

MemoryNext ==
  \/ StepOf("pages", Next, notPages)
  \/ StepOf("cache", Fixed!Next, notSlab)
  \/ StepOf("grow", Growing!Next, notSlab)
  \/ StepOf("spaces", Cap!Next, notCap)
  \/ StepOf("heap", Heap!Next, notHeap)
  \/ StepOf("lists", Lists!Next, notHeap)
  \/ StepOf("pools", Pools!Next, notHeap)
  \/ StepOf("api", Api!Next, notOps)
  \/ StepOf("resize", Resized!Next, notOps)
  \/ StepOf("embed", Inside!Next, notOps)
  \/ StepOf("bytes", Stored!Next, <<vars, slabVars, capVars, heapVars, opsVars, n>>)
  \/ StepOf("math", n < MaxN /\ n' = n + 1,
            <<vars, slabVars, capVars, heapVars, opsVars, bitVars>>)

MemorySpec == MemoryInit /\ [][MemoryNext]_memoryVars
-----------------------------------------------------------------------------
\* Objects that kmem_cache_alloc() hands out are apart and on no free list,
\* every slab's count and list add up to its objects, and kmem_cache_destroy()
\* gives back all pages and never while an object is held.
CachesSound ==
  /\ [](part = "cache" => /\ Fixed!TypeOK /\ Fixed!HeldObjectsApart /\ Fixed!HeldNotFree
                          /\ Fixed!RefcountBalance /\ Fixed!DestroyReturnsPages)
  /\ [](part = "grow" => /\ Growing!TypeOK /\ Growing!HeldObjectsApart
                         /\ Growing!HeldNotFree /\ Growing!RefcountBalance)
  /\ [][part = "cache" => Fixed!NoDestroyWhileHeld]_slabVars
  /\ [][part = "grow" => Growing!NoDestroyWhileHeld]_slabVars

\* Stacks, arguments and other blocks that come from init's region never
\* overlap, init's space maps all of its arguments, no other capability hands
\* out memory, and init is granted every entry once.
SpacesApart ==
  part = "spaces" => /\ Cap!MemoryApart /\ Cap!InitReadsArguments /\ Cap!OnlyThroughRight
                     /\ Cap!GrantedOnce /\ Cap!FullAccess

\* After every call of alloc(), free(), realloc() and the rest the allocator's
\* own checks succeed, every block is found from its pool and every free one
\* from its list, and with no memory held each pool is one free block.  A caller
\* gets as much memory as it asked for, aligned as it asked for, and NULL only
\* if no free block has room for the request and the rounding of its class.
HeapWhole ==
  /\ part = "heap" => /\ Heap!TypeOK /\ Heap!ChecksPass /\ Heap!NothingLost
                      /\ Heap!AllMergedWhenIdle /\ Heap!LargeEnough
                      /\ Heap!AlignedAnswer /\ Heap!NullMeansNoRoom
  /\ part = "lists" => Lists!ChecksPass /\ Lists!NothingLost /\ Lists!AllMergedWhenIdle
  /\ part = "pools" => Pools!NothingLost

\* No call writes into memory that a caller holds before and after it: the
\* links kept inside free blocks never land in a block in use.
UserDataUntouched ==
  /\ [][part = "heap" => Heap!UserDataUntouched]_heapVars
  /\ [][part = "lists" => Lists!UserDataUntouched]_heapVars

\* After every allocation, resize, free and reservation the tree says of each
\* slot what the callers hold; the areas lie in the memory and clear of an
\* embedded allocator; NULL means that no block is free; a stray free, a free
\* with another size and a refused resize change nothing.
BuddySound ==
  /\ part = "api" =>
       /\ Api!TypeOK /\ Api!HeldInMemory /\ Api!TreeSummaries /\ Api!WalkReportsHeld
       /\ Api!NullMeansNoRoom /\ Api!FreeSizeExact /\ Api!StrayFreeHarmless
       /\ Api!SafeFreeKnowsSize /\ Api!CallocLargeEnough /\ Api!RefusedReallocKeeps
       /\ Api!ShrinkLosesNothing
  /\ part = "resize" => /\ Resized!HeldInMemory /\ Resized!TreeSummaries
                        /\ Resized!WalkReportsHeld /\ Resized!FreeSizeExact
  /\ part = "embed" => /\ Inside!HeldInMemory /\ Inside!EmbedFits /\ Inside!WalkReportsHeld
                       /\ Inside!FreeSizeExact /\ Inside!ResizedIsAllocator

\* The areas that callers of the heap hold, with pools that come and go, and those
\* that callers of the buddy allocator hold, whatever is resized or reserved in
\* between, are those of an allocator that only hands out memory nobody holds.
AllocatorsApart ==
  /\ part = "pools" => Pools!Areas!Init
  /\ part = "api" => Api!Memory!Init
  /\ [][part = "pools" => [Pools!Areas!Next]_(Pools!HeldAreas)]_heapVars
  /\ [][part = "api" => [Api!Memory!Next]_(Api!Areas)]_opsVars
  /\ [][part = "resize" => [Resized!Memory!Next]_(Resized!Areas)]_opsVars
  /\ [][part = "embed" => [Inside!Memory!Next]_(Inside!Areas)]_opsVars
-----------------------------------------------------------------------------
Samples == {n} \cup (IF n <= MaxPower THEN {2 ^ n - 1, 2 ^ n} ELSE {})

\* The number of bits, the least power of two that reaches a value, and the
\* root rounded down.
PowersExact ==
  \A v \in Samples :
    LET bits == Api!highest_bit_position(v)
        c    == Api!ceiling_power_of_two(v)
        r    == Api!integer_square_root(v)
    IN  /\ v < 2 ^ bits /\ (v > 0 => v >= 2 ^ (bits - 1))
        /\ v < 2 ^ MaxPower => /\ c >= v /\ (v > 1 => c < 2 * v)
                               /\ \E k \in 0 .. MaxPower : c = 2 ^ k
        /\ r * r <= v /\ v - r * r <= 2 * r

\* The table of the rows lies between the bitset and the end of the tree,
\* though the padding does not round up.
MemoTableFits ==
  n \in 1 .. MaxOrder =>
    LET table == Api!size_for_order_offset(n) * Api!SIZEOF_SIZE_T
    IN  /\ table >= Api!bitset_sizeof(Api!size_for_order(n, 0))
        /\ table + (n + 1) * Api!SIZEOF_SIZE_T <= Api!buddy_tree_sizeof(n) - Api!SIZEOF_TREE

\* The nodes of a tree fill the bitset without overlap or gap.
RowsTile ==
  n \in 1 .. 6 =>
    LET t == Api!buddy_tree_init(n)
        cells(pos) == LET i == Api!buddy_tree_internal_position_tree(t, pos)
                      IN  i.bitset_location .. i.bitset_location + i.local_offset - 1
    IN  /\ UNION {cells(pos) : pos \in Api!Nodes(t)} = 0 .. Api!size_for_order(n, 0) - 1
        /\ \A p, q \in Api!Nodes(t) : p # q => cells(p) \cap cells(q) = {}

\* buddy_embed() of n bytes leaves room for the allocator behind its offset.
EmbedOffsetFits ==
  LET check == Api!buddy_embed_offset(n, 64)
      b     == Api!buddy_embed_alignment(4096, n, 64)
  IN  b # Api!NoBuddy =>
        /\ check.offset % Api!ALIGNOF_BUDDY = 0
        /\ check.offset + Api!SIZEOF_BUDDY + Api!buddy_tree_sizeof(b.tree.order) <= n

\* Setting, clearing and counting ranges of bits byte by byte is what it is on a
\* set of positions, and the powers, roots, offsets and sizes that the allocator
\* computes are exact for every small value and around every power of two.
NumbersExact ==
  /\ part = "bytes" => Stored!TypeOK /\ Stored!BytesAreSet /\ Stored!CountsRange
  /\ part = "math" => PowersExact /\ MemoTableFits /\ RowsTile /\ EmbedOffsetFits
=============================================================================
