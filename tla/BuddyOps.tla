------------------------------ MODULE BuddyOps ------------------------------
(***************************************************************************)
(* Callers of one buddy allocator (mm/buddy.h): they create it beside its  *)
(* memory or embedded at the end of it, allocate, resize and free blocks,  *)
(* reserve ranges and resize the memory.  held is what they believe to     *)
(* hold: the address they got and the length they asked for.               *)
(***************************************************************************)
EXTENDS Buddy

CONSTANTS
  Alignment,
  Standard,     \* sizes for an allocator beside its memory
  Embedded,     \* sizes for an allocator at the end of its memory
  Sizes,        \* lengths asked for
  Arrays,       \* numbers and sizes of members asked for
  Ranges,       \* offsets and lengths of ranges that are reserved
  Resizes,      \* pairs: the memory now, the memory asked for
  MaxHeld       \* areas held at a time

VARIABLES
  buddy,        \* the allocator, or NoBuddy
  room,         \* the size that the memory was given with
  held          \* areas in use: address, length and kind

vars == <<buddy, room, held>>

At == 0
Main == 4096

BuddyAssumption ==
  /\ Alignment \in Nat \ {0} /\ Sizes \subseteq Nat /\ MaxHeld \in Nat
  /\ Standard \cup Embedded \subseteq Nat \ {0}
  /\ \A r \in Ranges : r.at \in Nat /\ r.len \in Nat \ {0}

Init == buddy = NoBuddy /\ room = 0 /\ held = {}

Exists == "tree" \in DOMAIN buddy
Area(at, len, kind) == [at |-> at, len |-> IF len = 0 THEN 1 ELSE len, kind |-> kind]
Blocks == {a \in held : a.kind = "block"}

Create ==
  /\ buddy = NoBuddy
  /\ \E size \in Standard : buddy' = buddy_init_alignment(At, Main, size, Alignment) /\ room' = size
  /\ UNCHANGED held

Embed ==
  /\ buddy = NoBuddy
  /\ \E size \in Embedded : buddy' = buddy_embed_alignment(Main, size, Alignment) /\ room' = size
  /\ UNCHANGED held

\* A caller that gets an address holds the area; one that gets NULL does not.
Gets(answer, len) ==
  /\ buddy' = answer.b
  /\ held' = IF answer.ret = NULL THEN held ELSE held \cup {Area(answer.ret, len, "block")}
  /\ UNCHANGED room

Malloc(len) == Exists /\ Cardinality(held) < MaxHeld /\ Gets(buddy_malloc(buddy, len), len)

Calloc(n, size) ==
  Exists /\ Cardinality(held) < MaxHeld /\ Gets(buddy_calloc(buddy, n, size), n * size)

\* A block is resized, or freed by asking for nothing; after NULL for any
\* other length the caller still holds it.
Resized(answer, a, len) ==
  /\ buddy' = answer.b
  /\ held' = IF answer.ret # NULL THEN (held \ {a}) \cup {Area(answer.ret, len, "block")}
             ELSE IF len = 0 THEN held \ {a} ELSE held
  /\ UNCHANGED room

Realloc(a, len) == Exists /\ Resized(buddy_realloc(buddy, a.at, len), a, len)
Reallocarray(a, n, size) == Exists /\ Resized(buddy_reallocarray(buddy, a.at, n, size), a, n * size)

Free(a) ==
  /\ Exists /\ buddy' = buddy_free(buddy, a.at) /\ held' = held \ {a}
  /\ UNCHANGED room

SafeFree(a) ==
  /\ Exists /\ buddy' = buddy_safe_free(buddy, a.at, a.len) /\ held' = held \ {a}
  /\ UNCHANGED room

\* The slots that an area keeps from others.
SlotSpan(a) == (a.at - Main) \div Alignment .. (a.at + a.len - 1 - Main) \div Alignment

\* The block that an address and a length stand for in the tree.
BlockSize(len) == size_for_depth(buddy, depth_for_size(buddy, len))
Taken == UNION {SlotSpan(IF a.kind = "block" THEN [a EXCEPT !.len = BlockSize(a.len)] ELSE a) : a \in held}

\* Marking a used position is a bug in the caller: a range is reserved when
\* none of it is in use.
ReserveRange(r) ==
  LET a == Area(Main + r.at, r.len, "reserved")
  IN /\ Exists /\ Cardinality(held) < MaxHeld
     /\ r.at + r.len <= buddy.memory_size /\ SlotSpan(a) \cap Taken = {}
     /\ buddy' = buddy_toggle_range_reservation(buddy, a.at, a.len, TRUE)
     /\ held' = held \cup {a}
     /\ UNCHANGED room

ReleaseRange(a) ==
  /\ Exists /\ buddy' = buddy_toggle_range_reservation(buddy, a.at, a.len, FALSE)
  /\ held' = held \ {a}
  /\ UNCHANGED room

\* A refused call leaves the allocator as it was.
Relocated(resized, new_size) ==
  IF resized = NoBuddy THEN UNCHANGED vars
  ELSE buddy' = resized /\ room' = new_size /\ UNCHANGED held

Resize(new_size) == Exists /\ Relocated(buddy_resize(buddy, new_size), new_size)

Next ==
  \/ Create
  \/ Embed
  \/ \E len \in Sizes : Malloc(len)
  \/ \E n \in Arrays : Calloc(n[1], n[2])
  \/ \E a \in Blocks, len \in Sizes : Realloc(a, len)
  \/ \E a \in Blocks, n \in Arrays : Reallocarray(a, n[1], n[2])
  \/ \E a \in Blocks : Free(a) \/ SafeFree(a)
  \/ \E r \in Ranges : ReserveRange(r)
  \/ \E a \in held \ Blocks : ReleaseRange(a)
  \/ \E pair \in Resizes : room = pair[1] /\ Resize(pair[2])

Spec == Init /\ [][Next]_vars
-----------------------------------------------------------------------------
TypeOK ==
  /\ Exists => /\ buddy.memory_size \in Nat /\ buddy.memory_size % Alignment = 0
               /\ buddy.tree.bits \subseteq Nat
  /\ room \in Nat
  /\ \A a \in held : a.at \in Nat /\ a.len \in Nat \ {0} /\ a.kind \in {"block", "reserved"}

\* buddy_malloc() and the other calls keep what every allocator promises: no
\* two areas in use share memory, whatever was resized or reserved between.
Areas == {[at |-> a.at, len |-> a.len] : a \in held}
Memory == INSTANCE Allocator WITH held <- Areas

\* Every area in use lies in the memory that the allocator manages, also after
\* buddy_resize(), and clear of the allocator's own data if that is embedded.
HeldInMemory ==
  Exists => \A a \in held :
    /\ a.at >= Main /\ a.at + a.len <= Main + buddy.memory_size
    /\ buddy.relative => a.at + a.len <= buddy.at

\* An embedded allocator with its tree and the memo table behind it ends where
\* its memory does, begins after the last slot and is found again by
\* buddy_get_embed_at().
EmbedFits ==
  Exists /\ buddy.relative =>
    /\ buddy.at + SIZEOF_BUDDY + buddy_tree_sizeof(buddy.tree.order) <= Main + room
    /\ Main + buddy.memory_size <= buddy.at
    /\ buddy_main(buddy) = Main
    /\ buddy_get_embed_at_alignment(Main, room, Alignment) = buddy.at

\* Every node with children holds the value that buddy_tree_check_invariant()
\* expects of it: one more than the lesser of its children, or all or nothing.
TreeSummaries ==
  Exists => \A pos \in Nodes(buddy.tree) :
    pos.depth < buddy.tree.order => buddy_tree_check_invariant(buddy.tree, pos)

\* buddy_walk() reports the blocks in use and the reserved slots, each once,
\* and nothing else: no block is forgotten by a resize, none stays behind.
WalkReportsHeld ==
  Exists => buddy_walk(buddy) =
    {[at |-> a.at, len |-> BlockSize(a.len)] : a \in Blocks} \cup
    {[at |-> Main + s * Alignment, len |-> Alignment] : s \in UNION {SlotSpan(a) : a \in held \ Blocks}}

\* buddy_malloc() returns NULL only if no block of the size is free anywhere:
\* the search never loses its way in the tree.
NullMeansNoRoom ==
  Exists => \A len \in Sizes :
    LET block == BlockSize(IF len = 0 THEN 1 ELSE len)
    IN buddy_malloc(buddy, len).ret = NULL =>
         \A k \in 0 .. buddy.memory_size \div block - 1 :
           SlotSpan(Area(Main + k * block, block, "block")) \cap Taken # {}

\* buddy_arena_free_size() is the memory that is not in use, buddy_is_full()
\* tells when there is none, and buddy_is_empty() is not wrong when it says
\* yes, if there is more than one slot; the fragmentation fits its byte.
FreeSizeExact ==
  Exists => LET slots == {s \in 0 .. buddy.memory_size \div Alignment - 1 : s \notin Taken}
            IN /\ buddy_arena_free_size(buddy) = Cardinality(slots) * Alignment
               /\ buddy_is_full(buddy) <=> slots = {}
               /\ buddy.memory_size > Alignment /\ buddy_is_empty(buddy) => held = {}
               /\ buddy_fragmentation(buddy) \in 0 .. 255

\* buddy_free() of an address of the memory at which no area starts changes
\* nothing: not of one inside a block, not of one that was freed before.
StrayFreeHarmless ==
  Exists => \A addr \in Main .. Main + buddy.memory_size + Alignment :
    LET reserved == UNION {SlotSpan(a) : a \in held \ Blocks}
    IN \/ (addr - Main) \div Alignment \in reserved
       \/ \E a \in Blocks : a.at = addr
       \/ buddy_free(buddy, addr) = buddy

\* buddy_safe_free() with the length that was asked for frees the block, and
\* with one of another block size does nothing.
SafeFreeKnowsSize ==
  Exists => \A a \in Blocks, len \in Sizes \ {0} :
    buddy_safe_free(buddy, a.at, len) =
      IF len <= buddy.memory_size /\ BlockSize(len) = BlockSize(a.len)
      THEN buddy_free(buddy, a.at) ELSE buddy

\* An answer of buddy_calloc() has room for all the members, also when their
\* product does not fit a size_t.
CallocLargeEnough ==
  Exists => \A n \in Arrays :
    buddy_calloc(buddy, n[1], n[2]).ret # NULL => n[1] * n[2] <= buddy.memory_size

\* buddy_realloc(): "If the new allocation cannot be satisfied NULL is returned
\* BUT the slot is preserved"; a block that stays in place keeps its node.
RefusedReallocKeeps ==
  Exists => \A a \in Blocks, len \in Sizes \ {0} :
    LET answer == buddy_realloc(buddy, a.at, len)
    IN answer.ret = NULL => answer.b = buddy

\* buddy_can_shrink() says yes only if the upper half is not in use.
ShrinkLosesNothing ==
  Exists => (buddy_can_shrink(buddy) =>
    \A a \in held : a.at + a.len <= Main + buddy.memory_size \div 2)

\* buddy_resize(): "Resizes the arena and metadata to a new size."
ResizedIsAllocator == buddy # NoBuddy => Exists
=============================================================================
