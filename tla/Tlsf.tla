-------------------------------- MODULE Tlsf --------------------------------
(***************************************************************************)
(* The kernel heap: the two-level segregated fit allocator of mm/tlsf.c.   *)
(*                                                                         *)
(* The heap is a record.  "blk" maps the user pointer of every physical    *)
(* block to its header: size, whether it and the block before it are free, *)
(* the link to the block before it, and the links of the free list.  The   *)
(* sentinel at the end of a pool has size 0.  "fl" and "sl" are the two    *)
(* bitmaps, as sets of indices, "head" the heads of the free lists that    *)
(* are not empty, "ok" whether every tlsf_assert so far held.  A header    *)
(* field that overlaps memory of the user is Null or "junk" while the user *)
(* owns it.  Sizes and addresses are in bytes.                             *)
(***************************************************************************)
EXTENDS Integers, FiniteSets, TLC

CONSTANTS SlIndexCountLog2, \* 5: second-level lists per first-level list
          AlignSizeLog2,    \* 3: sizes and addresses are multiples of 8
          FlIndexMax        \* 32: sizes are below 2^FlIndexMax

ShapeAssumption ==
  /\ SlIndexCountLog2 \in Nat /\ AlignSizeLog2 \in Nat /\ FlIndexMax \in Nat
  /\ FlIndexMax > SlIndexCountLog2 + AlignSizeLog2

Null == 0
NullBlock == -1 \* &control->block_null

AlignSize == 2 ^ AlignSizeLog2
SlIndexCount == 2 ^ SlIndexCountLog2
FlIndexShift == SlIndexCountLog2 + AlignSizeLog2
FlIndexCount == FlIndexMax - FlIndexShift + 1
SmallBlockSize == 2 ^ FlIndexShift

\* Four machine words of header, of which one is always the allocator's.
Word == AlignSize
HeaderSize == 4 * Word
block_header_overhead == Word
block_size_min == HeaderSize - Word
block_size_max == 2 ^ FlIndexMax

\* The index of the highest set bit.
tlsf_fls(n) == CHOOSE k \in 0 .. FlIndexMax + 1 : 2 ^ k =< n /\ n < 2 ^ (k + 1)

align_up(x, a) == ((x + a - 1) \div a) * a
align_down(x, a) == (x \div a) * a

adjust_request_size(size, align) ==
  LET aligned == align_up(size, align)
  IN  IF size # 0 /\ aligned < block_size_max
      THEN IF aligned > block_size_min THEN aligned ELSE block_size_min
      ELSE 0

\* The list a block of this size is kept on.
mapping_insert(size) ==
  IF size < SmallBlockSize
  THEN <<0, size \div (SmallBlockSize \div SlIndexCount)>>
  ELSE LET fl == tlsf_fls(size)
       IN  <<fl - (FlIndexShift - 1),
             (size \div 2 ^ (fl - SlIndexCountLog2)) - SlIndexCount>>

\* Mutant: the search does not round up to the next list.
mapping_search_NoRound(size) == mapping_insert(size)

\* The first list all of whose blocks are large enough.
mapping_search(size) ==
  mapping_insert(IF size >= SmallBlockSize
                 THEN size + 2 ^ (tlsf_fls(size) - SlIndexCountLog2) - 1
                 ELSE size)

-----------------------------------------------------------------------------
EmptyHeap == [fl |-> {}, sl |-> {}, head |-> <<>>, blk |-> <<>>, ok |-> TRUE]
Assert_(c, b) == [c EXCEPT !.ok = @ /\ b]

Drop(f, x) == [y \in DOMAIN f \ {x} |-> f[y]]
Head(c, i) == IF i \in DOMAIN c.head THEN c.head[i] ELSE NullBlock
SetHead(c, i, b) ==
  [c EXCEPT !.head = IF b = NullBlock THEN Drop(@, i) ELSE (i :> b) @@ @]

block_size(c, b) == c.blk[b].size
block_is_free(c, b) == c.blk[b].free
block_next(c, b) == b + c.blk[b].size + block_header_overhead

block_link_next(c, b) == [c EXCEPT !.blk[block_next(c, b)].prevPhys = b]

block_mark_as_free(c, b) ==
  [block_link_next(c, b) EXCEPT !.blk[block_next(c, b)].prev = "free",
                                !.blk[b].free = TRUE]

\* The user now owns the words the free-list links and the next block's link
\* back were kept in.
block_mark_as_used(c, b) ==
  [c EXCEPT !.blk = [@ EXCEPT
     ![block_next(c, b)].prev = "used", ![block_next(c, b)].prevPhys = Null,
     ![b].free = FALSE, ![b].nextFree = Null, ![b].prevFree = Null]]

remove_free_block(c, b, i) ==
  LET n  == c.blk[b].nextFree
      p  == c.blk[b].prevFree
      c1 == IF n = NullBlock THEN c ELSE [c EXCEPT !.blk[n].prevFree = p]
      c2 == IF p = NullBlock THEN c1 ELSE [c1 EXCEPT !.blk[p].nextFree = n]
      c3 == Assert_(c2, n # Null /\ p # Null)
  IN  IF Head(c, i) # b THEN c3
      ELSE IF n # NullBlock THEN SetHead(c3, i, n)
      ELSE [SetHead(c3, i, n) EXCEPT
              !.sl = @ \ {i},
              !.fl = IF \E j \in c.sl \ {i} : j[1] = i[1] THEN @ ELSE @ \ {i[1]}]

insert_free_block(c, b, i) ==
  LET current == Head(c, i)
      c1 == [c EXCEPT !.blk[b].nextFree = current, !.blk[b].prevFree = NullBlock]
      c2 == IF current = NullBlock THEN c1 ELSE [c1 EXCEPT !.blk[current].prevFree = b]
      c3 == Assert_(c2, b % AlignSize = 0)
  IN  [SetHead(c3, i, b) EXCEPT !.fl = @ \cup {i[1]}, !.sl = @ \cup {i}]

block_remove(c, b) == remove_free_block(c, b, mapping_insert(block_size(c, b)))
block_insert(c, b) == insert_free_block(c, b, mapping_insert(block_size(c, b)))

\* search_suitable_block(): the lists of the same first level from i on, then
\* the smallest list of the next first level that has one.
search_suitable_block(c, i) ==
  LET same == {j \in c.sl : j[1] = i[1] /\ j[2] >= i[2]}
      fls  == {f \in c.fl : f > i[1]}
      f    == CHOOSE g \in fls : \A h \in fls : g =< h
      from == IF same # {} THEN same ELSE {j \in c.sl : j[1] = f}
      at   == CHOOSE j \in from : \A k \in from : j[2] =< k[2]
  IN  IF same = {} /\ fls = {} THEN <<>> ELSE at

block_can_split(c, b, size) == block_size(c, b) >= HeaderSize + size

\* block_split(): the second part is a new free block; whatever the user wrote
\* there is the flag for the block before it until the caller sets it.
Remaining(b, size) == b + size + block_header_overhead
block_split(c, b, size) ==
  LET r    == Remaining(b, size)
      left == block_size(c, b) - (size + block_header_overhead)
      c1   == [c EXCEPT !.blk = (r :> [size |-> left, free |-> FALSE, prev |-> "junk",
                                       prevPhys |-> Null, nextFree |-> Null,
                                       prevFree |-> Null]) @@ [@ EXCEPT ![b].size = size]]
  IN  block_mark_as_free(Assert_(c1, r % AlignSize = 0 /\ left >= block_size_min), r)

\* block_absorb(): the header of the absorbed block is plain memory now.
block_absorb(c, b, n) ==
  LET c1 == [c EXCEPT !.blk = [Drop(@, n) EXCEPT
               ![b].size = @ + block_size(c, n) + block_header_overhead]]
  IN  block_link_next(Assert_(c1, block_size(c, b) # 0), b)

\* The heap and the block that results.
block_merge_prev(c, b) ==
  IF c.blk[b].prev = "free"
  THEN LET p  == c.blk[b].prevPhys
           c1 == Assert_(c, p \in DOMAIN c.blk /\ block_is_free(c, p))
       IN  [c |-> block_absorb(block_remove(c1, p), p, b), b |-> p]
  ELSE [c |-> c, b |-> b]

block_merge_next(c, b) ==
  LET n == block_next(c, b)
  IN  IF block_is_free(c, n) THEN block_absorb(block_remove(c, n), b, n) ELSE c

block_trim_free(c, b, size) ==
  LET r  == Remaining(b, size)
      c0 == Assert_(c, block_is_free(c, b))
      c1 == block_link_next(block_split(c0, b, size), b)
  IN  IF block_can_split(c, b, size)
      THEN block_insert([c1 EXCEPT !.blk[r].prev = "free"], r)
      ELSE c0

block_trim_used(c, b, size) ==
  LET r  == Remaining(b, size)
      c0 == Assert_(c, ~block_is_free(c, b))
      c1 == [block_split(c0, b, size) EXCEPT !.blk[r].prev = "used"]
  IN  IF block_can_split(c, b, size)
      THEN block_insert(block_merge_next(c1, r), r)
      ELSE c0

block_trim_free_leading(c, b, size) ==
  LET r  == Remaining(b, size - block_header_overhead)
      c1 == [block_split(c, b, size - block_header_overhead) EXCEPT !.blk[r].prev = "free"]
  IN  IF block_can_split(c, b, size)
      THEN [c |-> block_insert(block_link_next(c1, b), b), b |-> r]
      ELSE [c |-> c, b |-> b]

block_locate_free(c, size) ==
  LET i  == mapping_search(size)
      at == search_suitable_block(c, i)
      b  == Head(c, at)
  IN  IF size = 0 \/ i[1] >= FlIndexCount \/ at = <<>> THEN [c |-> c, b |-> Null]
      ELSE [c |-> remove_free_block(Assert_(c, block_size(c, b) >= size), b, at), b |-> b]

block_prepare_used(l, size) ==
  IF l.b = Null THEN [c |-> l.c, p |-> Null]
  ELSE [c |-> block_mark_as_used(block_trim_free(Assert_(l.c, size # 0), l.b, size), l.b),
        p |-> l.b]

-----------------------------------------------------------------------------
(* The interface. *)
tlsf_pool_overhead == 2 * block_header_overhead

\* The user pointer of the first block of the pool at address mem.
FirstBlock(mem) == mem + block_header_overhead

tlsf_add_pool(c, mem, bytes) ==
  LET size == align_down(bytes - tlsf_pool_overhead, AlignSize)
      b    == FirstBlock(mem)
      new  == [size |-> size, free |-> TRUE, prev |-> "used",
               prevPhys |-> Null, nextFree |-> Null, prevFree |-> Null]
      last == [size |-> 0, free |-> FALSE, prev |-> "free",
               prevPhys |-> b, nextFree |-> Null, prevFree |-> Null]
  IN  IF mem % AlignSize # 0 \/ size < block_size_min \/ size > block_size_max
      THEN [c |-> c, p |-> Null]
      ELSE [c |-> block_insert([c EXCEPT !.blk = (b :> new) @@
                      (b + size + block_header_overhead :> last) @@ @], b),
            p |-> mem]

tlsf_remove_pool(c, mem) ==
  LET b  == FirstBlock(mem)
      n  == block_next(c, b)
      c1 == Assert_(c, block_is_free(c, b) /\ ~block_is_free(c, n) /\ block_size(c, n) = 0)
      c2 == block_remove(c1, b)
  IN  [c2 EXCEPT !.blk = Drop(Drop(@, b), n)]

tlsf_malloc(c, size) ==
  LET adjust == adjust_request_size(size, AlignSize)
  IN  block_prepare_used(block_locate_free(c, adjust), adjust)

\* The aligned start within block b, past a gap that is a block of its own.
AlignedStart(b, align) ==
  LET aligned == align_up(b, align)
      gap     == aligned - b
      offset  == IF HeaderSize - gap > align THEN HeaderSize - gap ELSE align
  IN  IF gap # 0 /\ gap < HeaderSize THEN align_up(aligned + offset, align) ELSE aligned

tlsf_memalign(c, align, size) ==
  LET adjust  == adjust_request_size(size, AlignSize)
      withGap == adjust_request_size(adjust + align + HeaderSize, align)
      l       == block_locate_free(c, IF adjust # 0 /\ align > AlignSize
                                      THEN withGap ELSE adjust)
      gap     == AlignedStart(l.b, align) - l.b
  IN  block_prepare_used(
        IF l.b = Null \/ gap = 0 THEN l
        ELSE block_trim_free_leading(Assert_(l.c, gap >= HeaderSize), l.b, gap),
        adjust)

tlsf_free(c, p) ==
  LET c1 == block_mark_as_free(Assert_(c, ~block_is_free(c, p)), p)
      m  == block_merge_prev(c1, p)
  IN  IF p = Null THEN c ELSE block_insert(block_merge_next(m.c, m.b), m.b)

\* Mutant: a block that grew into the next one is not marked as used.
ReallocInPlace_Unmarked(c, p, adjust) ==
  block_trim_used(IF adjust > block_size(c, p) THEN block_merge_next(c, p) ELSE c, p, adjust)

ReallocInPlace(c, p, adjust) ==
  block_trim_used(IF adjust > block_size(c, p)
                  THEN block_mark_as_used(block_merge_next(c, p), p) ELSE c, p, adjust)

tlsf_realloc(c, p, size) ==
  LET next     == block_next(c, p)
      cursize  == block_size(c, p)
      combined == cursize + block_size(c, next) + block_header_overhead
      adjust   == adjust_request_size(size, AlignSize)
      c1       == Assert_(c, ~block_is_free(c, p))
      moved    == tlsf_malloc(c1, size)
  IN  IF p = Null THEN tlsf_malloc(c, size)
      ELSE IF size = 0 THEN [c |-> tlsf_free(c, p), p |-> Null]
      ELSE IF adjust > cursize /\ (~block_is_free(c, next) \/ adjust > combined)
      THEN IF moved.p = Null THEN moved
           ELSE [c |-> tlsf_free(moved.c, p), p |-> moved.p]
      ELSE [c |-> ReallocInPlace(c1, p, adjust), p |-> p]

-----------------------------------------------------------------------------
(* The allocator's own checks, which the kernel never calls. *)
ListWalk(c, i) ==
  LET w[n \in 0 .. Cardinality(DOMAIN c.blk)] ==
        IF n = 0 THEN Head(c, i)
        ELSE IF w[n - 1] = NullBlock THEN NullBlock ELSE c.blk[w[n - 1]].nextFree
  IN  {w[n] : n \in DOMAIN w} \ {NullBlock}

tlsf_check(c) ==
  \A i \in c.sl \cup DOMAIN c.head :
    /\ i \in c.sl => i[1] \in c.fl
    /\ (i \in c.sl) = (Head(c, i) # NullBlock)
    /\ \A b \in ListWalk(c, i) :
         /\ block_is_free(c, b)
         /\ c.blk[b].prev = "used"
         /\ ~block_is_free(c, block_next(c, b))
         /\ c.blk[block_next(c, b)].prev = "free"
         /\ block_size(c, b) >= block_size_min
         /\ mapping_insert(block_size(c, b)) = i

\* tlsf_check_pool() through tlsf_walk_pool() and integrity_walker().
PoolWalk(c, mem) ==
  LET w[n \in 0 .. Cardinality(DOMAIN c.blk)] ==
        IF n = 0 THEN FirstBlock(mem)
        ELSE IF block_size(c, w[n - 1]) = 0 THEN w[n - 1] ELSE block_next(c, w[n - 1])
  IN  {w[n] : n \in DOMAIN w}

tlsf_check_pool(c, mem) ==
  /\ c.blk[FirstBlock(mem)].prev = "used"
  /\ \A b \in PoolWalk(c, mem) :
       block_size(c, b) # 0 /\ block_size(c, block_next(c, b)) # 0 =>
         (c.blk[block_next(c, b)].prev = "free") = block_is_free(c, b)
-----------------------------------------------------------------------------
(***************************************************************************)
(* The heap in use: callers of mm/alloc.c allocate, with and without an    *)
(* alignment, resize and free in any order, and pools come and go.         *)
(* "asked" remembers, for each pointer a caller holds, the size it asked   *)
(* for; "res" is the answer of the last call.                              *)
(***************************************************************************)
CONSTANTS Sizes,        \* the sizes callers ask for
          ReallocSizes, \* the sizes they resize to
          Aligns,       \* the alignments they ask for
          Pools,        \* [at, len] of the memory that may become a pool
          MaxHeld       \* how many areas callers hold at a time

VARIABLES heap, pools, asked, res

vars == <<heap, pools, asked, res>>

Held == DOMAIN asked
Area(c, p) == [at |-> p, len |-> block_size(c, p)]

Init ==
  /\ heap = EmptyHeap
  /\ pools = {}
  /\ asked = <<>>
  /\ res = [op |-> "init"]

AddPool ==
  \E q \in Pools \ pools :
    LET r == tlsf_add_pool(heap, q.at, q.len)
    IN  /\ heap' = r.c
        /\ pools' = IF r.p = Null THEN pools ELSE pools \cup {q}
        /\ res' = [op |-> "add_pool", p |-> r.p]
        /\ UNCHANGED asked

\* Only a pool nobody holds memory of may go.
RemovePool ==
  \E q \in pools :
    /\ \A p \in Held : ~(q.at =< p /\ p < q.at + q.len)
    /\ heap' = tlsf_remove_pool(heap, q.at)
    /\ pools' = pools \ {q}
    /\ res' = [op |-> "remove_pool"]
    /\ UNCHANGED asked

Granted(r, size) == IF r.p = Null THEN asked ELSE (r.p :> size) @@ asked

\* alloc() and calloc(), which also clears what it got.
Alloc ==
  \E size \in Sizes :
    LET r == tlsf_malloc(heap, size)
    IN  /\ Cardinality(Held) < MaxHeld
        /\ heap' = r.c
        /\ asked' = Granted(r, size)
        /\ res' = [op |-> "alloc", size |-> size, p |-> r.p]
        /\ UNCHANGED pools

AllocAligned ==
  \E size \in Sizes, align \in Aligns :
    LET r == tlsf_memalign(heap, align, size)
    IN  /\ Cardinality(Held) < MaxHeld
        /\ heap' = r.c
        /\ asked' = Granted(r, size)
        /\ res' = [op |-> "alloc_aligned", align |-> align, p |-> r.p]
        /\ UNCHANGED pools

Free ==
  \E p \in Held \cup {Null} :
    /\ heap' = tlsf_free(heap, p)
    /\ asked' = Drop(asked, p)
    /\ res' = [op |-> "free"]
    /\ UNCHANGED pools

Realloc ==
  \E p \in Held \cup {Null}, size \in ReallocSizes :
    LET r == tlsf_realloc(heap, p, size)
    IN  /\ p = Null => Cardinality(Held) < MaxHeld
        /\ heap' = r.c
        /\ asked' = IF r.p = Null
                    THEN IF size = 0 THEN Drop(asked, p) ELSE asked
                    ELSE (r.p :> size) @@ Drop(asked, p)
        /\ res' = [op |-> "realloc", old |-> p, size |-> size, p |-> r.p]
        /\ UNCHANGED pools

Next == AddPool \/ RemovePool \/ Alloc \/ AllocAligned \/ Free \/ Realloc
Spec == Init /\ [][Next]_vars

-----------------------------------------------------------------------------
IsFree(b) == heap.blk[b].free
Sentinel(b) == heap.blk[b].size = 0

TypeOK ==
  /\ \A b \in DOMAIN heap.blk :
       /\ b % AlignSize = 0
       /\ heap.blk[b].size % AlignSize = 0
       /\ heap.blk[b].prev \in {"free", "used"}
       /\ IsFree(b) <=> heap.blk[b].nextFree # Null
  /\ \A i \in heap.sl : i[2] \in 0 .. SlIndexCount - 1
  /\ pools \subseteq Pools

\* No call ever trips one of the allocator's own assertions, and between calls
\* its two debugging checks, tlsf_check() and tlsf_check_pool(), succeed.
ChecksPass ==
  /\ heap.ok
  /\ tlsf_check(heap)
  /\ \A q \in pools : tlsf_check_pool(heap, q.at)

\* Walking a pool block by block meets every block of it and ends exactly at
\* the sentinel at the end of the pool, and every free block is found by the
\* search: it is on a list, and on one only.
NothingLost ==
  /\ DOMAIN heap.blk = UNION {PoolWalk(heap, q.at) : q \in pools}
  /\ \A q \in pools : Sentinel(q.at + align_down(q.len, AlignSize))
  /\ \A b \in DOMAIN heap.blk : IsFree(b) =>
       Cardinality({i \in heap.sl : b \in ListWalk(heap, i)}) = 1
  /\ Held = {b \in DOMAIN heap.blk : ~IsFree(b) /\ ~Sentinel(b)}

\* What a caller holds is as large as it last asked for, after every split,
\* merge and resize.
LargeEnough == \A p \in Held : heap.blk[p].size >= asked[p]

\* A pointer from alloc_aligned() has the alignment that was asked for.
AlignedAnswer ==
  res.op = "alloc_aligned" /\ res.p # Null => res.p % res.align = 0

\* The search is a good fit: alloc() answers NULL only when every free block is
\* smaller than the request plus the rounding of its size class.
NullMeansNoRoom ==
  res.op = "alloc" /\ res.p = Null /\ res.size # 0 =>
    \A b \in DOMAIN heap.blk : IsFree(b) =>
      LET adjust == adjust_request_size(res.size, AlignSize)
      IN  \/ res.size >= block_size_max - block_size_max \div SlIndexCount
          \/ heap.blk[b].size < adjust + adjust \div SlIndexCount + AlignSize

\* When the last area is given back every pool is a single free block again:
\* no sequence of calls leaves it in pieces.
AllMergedWhenIdle ==
  Held = {} => \A q \in pools :
    heap.blk[FirstBlock(q.at)].size = align_down(q.len - tlsf_pool_overhead, AlignSize)

\* What the allocator writes in a step: the word before a block holds its size
\* and flags, the one before that the link to the block before it, the first
\* two of the block itself the links of the free list.
Differs(b, f) == b \notin DOMAIN heap.blk \/ heap.blk[b][f] # heap'.blk[b][f]
LinkWord(b) == [prevPhys |-> b - 2 * Word, nextFree |-> b, prevFree |-> b + Word]
Written ==
  {b - Word : b \in {x \in DOMAIN heap'.blk : \E f \in {"size", "free", "prev"} : Differs(x, f)}}
    \cup UNION {{LinkWord(b)[f] : f \in {g \in {"prevPhys", "nextFree", "prevFree"} :
                                          heap'.blk[b][g] # Null /\ Differs(b, g)}}
               : b \in DOMAIN heap'.blk}

\* No call writes into memory that a caller holds before and after it: the links
\* kept inside free blocks never land in a block in use.
UserDataUntouched ==
  \A p \in Held \cap DOMAIN asked' :
    LET kept == IF heap.blk[p].size < heap'.blk[p].size
                THEN heap.blk[p].size ELSE heap'.blk[p].size
    IN  \A w \in Written : ~(p =< w /\ w < p + kept)

\* The areas callers hold behave like those of an allocator that only hands out
\* memory nobody holds.
HeldAreas == {Area(heap, p) : p \in Held}
Areas == INSTANCE Allocator WITH held <- HeldAreas
=============================================================================
