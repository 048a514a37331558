------------------------------- MODULE Buddy -------------------------------
(***************************************************************************)
(* The binary buddy allocator of mm/buddy.h, from its bits up.             *)
(*                                                                         *)
(* A bitset is the set of the positions that are set in it; module         *)
(* BuddyBytes shows that the operations on its bytes amount to this.       *)
(* Numbers stay below 2^30, so the first entry of the tables for a 64-bit  *)
(* size_t never applies.                                                   *)
(*                                                                         *)
(* A node of the allocation tree holds in unary how far below it the       *)
(* largest free node is: zero when all of it is free, its full length      *)
(* (local_offset) when none of it is.  The nodes lie row by row in one     *)
(* bitset.  size_for_order memoises where the rows start.                  *)
(*                                                                         *)
(* An allocator is a record with the fields of struct buddy, the address   *)
(* it lies at and its tree.  A function that changes it returns the new    *)
(* allocator, and what the caller gets as ret.  The memory it manages is   *)
(* padded to a power of two with virtual slots that stay allocated.        *)
(***************************************************************************)
EXTENDS Integers, FiniteSets, SequencesExt

CHAR_BIT == 8
SIZEOF_SIZE_T == 8

bitset_sizeof(elements) == (elements + CHAR_BIT - 1) \div CHAR_BIT

bitset_set(bitset, pos) == bitset \cup {pos}
bitset_clear(bitset, pos) == bitset \ {pos}
bitset_test(bitset, pos) == pos \in bitset
bitset_set_range(bitset, from_pos, to_pos) == bitset \cup from_pos .. to_pos
bitset_clear_range(bitset, from_pos, to_pos) == bitset \ (from_pos .. to_pos)
bitset_count_range(bitset, from_pos, to_pos) == Cardinality(bitset \cap from_pos .. to_pos)

\* The bits at `sources` are copied `by` places further; the order of the loops
\* reads each bit before it is overwritten.
CopyBits(bitset, sources, by) ==
  (bitset \ {p + by : p \in sources}) \cup {p + by : p \in bitset \cap sources}

\* The bits [from_pos, to_pos) move down; what is cleared after them is counted
\* from the start of the bitset.
bitset_shift_left(bitset, from_pos, to_pos, by) ==
  LET length == to_pos - from_pos
  IN bitset_clear_range(CopyBits(bitset, from_pos .. to_pos - 1, -by), length, length + by - 1)

\* The bits [from_pos, to_pos] move up; where they were is cleared.
bitset_shift_right(bitset, from_pos, to_pos, by) ==
  bitset_clear_range(CopyBits(bitset, from_pos .. to_pos, by), from_pos, from_pos + by - 1)
-----------------------------------------------------------------------------
two_to_the_power_of(order) == 2 ^ order

\* The tables all_set and count of highest_bit_position().
HalvingSteps == << <<65535, 16>>, <<255, 8>>, <<15, 4>>, <<7, 2>>, <<3, 1>>, <<1, 1>> >>

\* The number of the highest bit that is set, from 1; zero for zero.
highest_bit_position(value) ==
  LET step(s, e) == IF s[1] >= e[1] THEN <<s[1] \div 2 ^ e[2], s[2] + e[2]>> ELSE s
      result(s) == s[1] + s[2]
  IN result(FoldLeft(step, <<value, 0>>, HalvingSteps))

ceiling_power_of_two(value) ==
  LET v == IF value = 0 THEN 1 ELSE value
  IN two_to_the_power_of(highest_bit_position(v + v - 1) - 1)

\* The powers of four from 4^14 down; greater ones exceed every argument.
Cursors == [i \in 1 .. 15 |-> 4 ^ (15 - i)]

integer_square_root(op) ==
  LET step(s, cursor) ==
        IF s[1] >= s[2] + cursor THEN <<s[1] - (s[2] + cursor), (s[2] + 2 * cursor) \div 2>>
        ELSE <<s[1], s[2] \div 2>>
  IN FoldLeft(step, <<op, 0>>, SelectSeq(Cursors, LAMBDA c : c <= op))[2]
-----------------------------------------------------------------------------
(* The allocation tree. *)
SIZEOF_TREE == 24

Pos(index, depth) == [index |-> index, depth |-> depth]
INVALID_POS == Pos(0, 0)

\* Where the row with nodes of length `to` starts in a tree of the order.
size_for_order(order, to) ==
  MapThenSumSet(LAMBDA o : o * 2 ^ (order - o), (to + 1) .. order)

buddy_tree_root == Pos(1, 1)
buddy_tree_left_child(pos) == Pos(2 * pos.index, pos.depth + 1)
buddy_tree_right_child(pos) == Pos(2 * pos.index + 1, pos.depth + 1)
buddy_tree_parent(pos) == Pos(pos.index \div 2, pos.depth - 1)
buddy_tree_sibling(pos) ==
  Pos(IF pos.index % 2 = 0 THEN pos.index + 1 ELSE pos.index - 1, pos.depth)
buddy_tree_leftmost_child_internal(order) == Pos(two_to_the_power_of(order - 1), order)
buddy_tree_leftmost_child(t) == buddy_tree_leftmost_child_internal(t.order)
buddy_tree_valid(t, pos) == pos.index # 0 /\ pos.index < t.upper_pos_bound

\* The last node of a row has only ones in its index, and no right neighbour.
buddy_tree_right_adjacent(pos) ==
  IF ceiling_power_of_two(pos.index + 1) = pos.index + 1 THEN INVALID_POS
  ELSE Pos(pos.index + 1, pos.depth)

\* The place in its row: the index without its highest bit.
buddy_tree_index_internal(pos) ==
  IF (pos.index \div two_to_the_power_of(pos.depth - 1)) % 2 = 1
  THEN pos.index - two_to_the_power_of(pos.depth - 1) ELSE pos.index

Internal(total_offset, local_offset, pos) ==
  [local_offset |-> local_offset,
   bitset_location |-> total_offset + local_offset * buddy_tree_index_internal(pos)]

buddy_tree_internal_position_order(order, pos) ==
  LET local_offset == order - pos.depth + 1
  IN Internal(size_for_order(order, local_offset), local_offset, pos)

buddy_tree_internal_position_tree(t, pos) ==
  LET local_offset == t.order - pos.depth + 1
  IN Internal(t.size_for_order[local_offset], local_offset, pos)

\* The bytes of the bitset, with the padding the code adds.
PaddedBitset(order) ==
  LET size == bitset_sizeof(size_for_order(order, 0))
  IN size + (size % SIZEOF_SIZE_T)

buddy_tree_sizeof(order) == SIZEOF_TREE + PaddedBitset(order) + (order + 2) * SIZEOF_SIZE_T

\* The word after the bitset where the memo table starts.
size_for_order_offset(order) == PaddedBitset(order) \div SIZEOF_SIZE_T + 1

buddy_tree_populate_size_for_order(order) == [i \in 0 .. order |-> size_for_order(order, i)]

Tree(order, bits) ==
  [order |-> order, upper_pos_bound |-> two_to_the_power_of(order),
   size_for_order |-> buddy_tree_populate_size_for_order(order), bits |-> bits]

buddy_tree_init(order) == Tree(order, {})
-----------------------------------------------------------------------------
write_to_internal_position(bits, internal, value) ==
  LET cleared == bitset_clear_range(bits, internal.bitset_location,
                                    internal.bitset_location + internal.local_offset - 1)
  IN IF value = 0 THEN cleared
     ELSE bitset_set_range(cleared, internal.bitset_location,
                           internal.bitset_location + value - 1)

read_from_internal_position(bits, internal) ==
  IF ~bitset_test(bits, internal.bitset_location) THEN 0
  ELSE bitset_count_range(bits, internal.bitset_location,
                          internal.bitset_location + internal.local_offset - 1)

\* Is the value held at the position at least this one?
compare_with_internal_position(bits, internal, value) ==
  bitset_test(bits, internal.bitset_location + value - 1)

buddy_tree_status(t, pos) ==
  read_from_internal_position(t.bits, buddy_tree_internal_position_tree(t, pos))

\* Mutant: a node is as free as its fuller child.
ParentStatus_Greater(current, sibling) ==
  IF current = 0 /\ sibling = 0 THEN 0 ELSE (IF current <= sibling THEN sibling ELSE current) + 1

\* The value of a node from those of its children.
ParentStatus(current, sibling) ==
  IF current = 0 /\ sibling = 0 THEN 0 ELSE (IF current <= sibling THEN current ELSE sibling) + 1

\* Brings the nodes above pos up to date, as far as they change.
RECURSIVE update_parent_chain(_, _, _, _)
update_parent_chain(t, pos, internal, size_current) ==
  IF pos.index = 1 THEN t
  ELSE LET sibling == [internal EXCEPT !.bitset_location =
                         @ + internal.local_offset - 2 * internal.local_offset * (pos.index % 2)]
           parent == buddy_tree_parent(pos)
           at == buddy_tree_internal_position_tree(t, parent)
           target == ParentStatus(size_current, read_from_internal_position(t.bits, sibling))
       IN IF target = read_from_internal_position(t.bits, at) THEN t
          ELSE update_parent_chain([t EXCEPT !.bits = write_to_internal_position(@, at, target)],
                                   parent, at, target)

buddy_tree_mark(t, pos) ==
  LET internal == buddy_tree_internal_position_tree(t, pos)
      marked == [t EXCEPT !.bits = write_to_internal_position(@, internal, internal.local_offset)]
  IN update_parent_chain(marked, pos, internal, internal.local_offset)

buddy_tree_release(t, pos) ==
  LET internal == buddy_tree_internal_position_tree(t, pos)
      released == [t EXCEPT !.bits = write_to_internal_position(@, internal, 0)]
  IN IF read_from_internal_position(t.bits, internal) # internal.local_offset THEN t
     ELSE update_parent_chain(released, pos, internal, 0)

\* Mutant: the right child is never taken.
Descend_Left(t, pos, target_status) == buddy_tree_left_child(pos)

\* The child to search: the busier one that still has room at the depth.
Descend(t, pos, target_status) ==
  LET left == buddy_tree_left_child(pos)
      right == buddy_tree_sibling(left)
      left_internal == buddy_tree_internal_position_tree(t, left)
      right_internal == [left_internal EXCEPT !.bitset_location = @ + left_internal.local_offset]
      right_status == read_from_internal_position(t.bits, right_internal)
  IN IF compare_with_internal_position(t.bits, left_internal, target_status + 1) THEN right
     ELSE IF compare_with_internal_position(t.bits, right_internal, target_status + 1) THEN left
     ELSE IF right_status = 0 THEN left
     ELSE IF compare_with_internal_position(t.bits, left_internal, right_status) THEN left
     ELSE right

RECURSIVE FindFrom(_, _, _, _)
FindFrom(t, pos, target_depth, target_status) ==
  IF pos.depth = target_depth THEN pos
  ELSE FindFrom(t, Descend(t, pos, target_status - 1), target_depth, target_status - 1)

buddy_tree_find_free(t, target_depth) ==
  IF buddy_tree_status(t, buddy_tree_root) > target_depth - 1 THEN INVALID_POS
  ELSE FindFrom(t, buddy_tree_root, target_depth, target_depth - 1)
-----------------------------------------------------------------------------
\* The deepest nodes below pos, from the first to the last.
buddy_tree_interval(t, pos) ==
  LET width == 2 ^ (t.order - pos.depth)
  IN [from |-> Pos(pos.index * width, t.order), to |-> Pos(pos.index * width + width - 1, t.order)]

buddy_tree_interval_contains(outer, inner) ==
  /\ inner.from.index \in outer.from.index .. outer.to.index
  /\ inner.to.index \in outer.from.index .. outer.to.index

\* The first used node above pos, if there is one, tells: all of it is
\* allocated or the used part is elsewhere.
RECURSIVE FreeAbove(_, _)
FreeAbove(t, pos) ==
  IF ~buddy_tree_valid(t, pos) THEN TRUE
  ELSE LET internal == buddy_tree_internal_position_tree(t, pos)
           value == read_from_internal_position(t.bits, internal)
       IN IF value # 0 THEN value # internal.local_offset ELSE FreeAbove(t, buddy_tree_parent(pos))

buddy_tree_is_free(t, pos) ==
  buddy_tree_status(t, pos) = 0 /\ FreeAbove(t, buddy_tree_parent(pos))

buddy_tree_can_shrink(t) ==
  /\ buddy_tree_status(t, buddy_tree_right_child(buddy_tree_root)) = 0
  /\ buddy_tree_status(t, buddy_tree_root) # t.order

\* One row moves to its place in the tree of the next order, and the right
\* half of the new row is cleared.
GrowRow(order, bits, depth) ==
  LET current == buddy_tree_internal_position_order(order, Pos(2 ^ (depth - 1), depth))
      next == buddy_tree_internal_position_order(order + 1, Pos(2 ^ depth, depth + 1))
      node_count == two_to_the_power_of(depth - 1)
      shifted == bitset_shift_right(bits, current.bitset_location,
                   current.bitset_location + current.local_offset * node_count,
                   next.bitset_location - current.bitset_location)
      right == next.bitset_location + next.local_offset * node_count
  IN bitset_clear_range(shifted, right, right + next.local_offset * node_count - 1)

\* The last row moves first; then the root of the larger tree is set.
GrowOnce(t) ==
  LET bits == FoldRight(LAMBDA depth, b : GrowRow(t.order, b, depth),
                        [i \in 1 .. t.order |-> i], t.bits)
      grown == Tree(t.order + 1, bits)
      right == buddy_tree_right_child(buddy_tree_root)
  IN update_parent_chain(grown, right, buddy_tree_internal_position_tree(grown, right), 0)

RECURSIVE buddy_tree_grow(_, _)
buddy_tree_grow(t, order) == IF order > t.order THEN buddy_tree_grow(GrowOnce(t), order) ELSE t

\* The left half of a row moves to the row above in the smaller tree.
ShrinkRow(order, bits, depth) ==
  LET current == buddy_tree_internal_position_order(order, Pos(2 ^ (depth - 1), depth))
      next == buddy_tree_internal_position_order(order - 1, Pos(2 ^ (depth - 2), depth - 1))
      half == (current.local_offset * two_to_the_power_of(depth - 1)) \div 2
  IN bitset_shift_left(bits, current.bitset_location, current.bitset_location + half,
                       current.bitset_location - next.bitset_location)

ShrinkOnce(t) ==
  Tree(t.order - 1, FoldLeft(LAMBDA bits, i : ShrinkRow(t.order, bits, i + 1),
                             t.bits, [i \in 1 .. t.order - 1 |-> i]))

RECURSIVE buddy_tree_shrink(_, _)
buddy_tree_shrink(t, order) ==
  IF order < t.order /\ buddy_tree_can_shrink(t) THEN buddy_tree_shrink(ShrinkOnce(t), order) ELSE t

buddy_tree_resize(t, order) ==
  IF t.order < order THEN buddy_tree_grow(t, order) ELSE buddy_tree_shrink(t, order)
-----------------------------------------------------------------------------
buddy_tree_walk_state_root == [current_pos |-> buddy_tree_root, going_up |-> FALSE, walk_done |-> FALSE]

\* To the next node, children before neighbours; ascents are part of one call.
RECURSIVE buddy_tree_walk(_, _)
buddy_tree_walk(t, state) ==
  LET pos == state.current_pos
      next ==
        IF state.going_up
        THEN IF pos.index = 1 THEN [state EXCEPT !.walk_done = TRUE, !.going_up = FALSE]
             ELSE IF pos.index % 2 = 1 THEN [state EXCEPT !.current_pos = buddy_tree_parent(pos)]
             ELSE [state EXCEPT !.current_pos = buddy_tree_right_adjacent(pos), !.going_up = FALSE]
        ELSE IF buddy_tree_valid(t, buddy_tree_left_child(pos))
             THEN [state EXCEPT !.current_pos = buddy_tree_left_child(pos)]
             ELSE [state EXCEPT !.going_up = TRUE]
  IN IF next.going_up THEN buddy_tree_walk(t, next) ELSE next

\* The nodes that a walk from the root visits when it turns back at the nodes
\* of `stops`.
RECURSIVE VisitedFrom(_, _, _)
VisitedFrom(t, state, stops) ==
  LET turned == [state EXCEPT !.going_up = state.current_pos \in stops]
      next == buddy_tree_walk(t, turned)
  IN <<state.current_pos>> \o (IF next.walk_done THEN <<>> ELSE VisitedFrom(t, next, stops))
Visited(t, stops) == VisitedFrom(t, buddy_tree_walk_state_root, stops)

Nodes(t) == UNION {{Pos(i, d) : i \in 2 ^ (d - 1) .. 2 ^ d - 1} : d \in 1 .. t.order}
FullNodes(t) == {pos \in Nodes(t) : buddy_tree_status(t, pos) = t.order - pos.depth + 1}
FreeNodes(t) == {pos \in Nodes(t) : buddy_tree_status(t, pos) = 0}

\* Is the value of the node that of its children (for nodes that have them)?
buddy_tree_check_invariant(t, pos) ==
  LET internal == buddy_tree_internal_position_tree(t, pos)
      status == read_from_internal_position(t.bits, internal)
      left == buddy_tree_status(t, buddy_tree_left_child(pos))
      right == buddy_tree_status(t, buddy_tree_right_child(pos))
  IN IF left # 0 \/ right # 0 THEN status = (IF left <= right THEN left ELSE right) + 1
     ELSE status \in {0, internal.local_offset}

buddy_tree_fragmentation(t) ==
  LET free == SelectSeq(Visited(t, FullNodes(t) \cup FreeNodes(t)), LAMBDA pos : pos \in FreeNodes(t))
      size(pos) == two_to_the_power_of(t.order - pos.depth)
      sums(s, pos) == <<s[1] + size(pos), s[2] + size(pos) * size(pos)>>
      percent(root) == (root * root) \div 256
      result(total_free_size, quality) ==
        IF buddy_tree_status(t, buddy_tree_root) = 0 \/ total_free_size = 0 THEN 0
        ELSE 255 - (percent((integer_square_root(quality) * 256) \div total_free_size) % 256)
      both(s) == result(s[1], s[2])
  IN both(FoldLeft(sums, <<0, 0>>, free))
-----------------------------------------------------------------------------
(* The allocator. *)
NULL == -1
NoBuddy == [at |-> NULL]   \* a NULL pointer to an allocator
SIZEOF_BUDDY == 32
ALIGNOF_BUDDY == 8
SIZE_MAX == 2 ^ 30 - 1   \* the greatest size_t, scaled

is_valid_alignment(alignment) == ceiling_power_of_two(alignment) = alignment

buddy_tree_order_for_memory(memory_size, alignment) ==
  highest_bit_position(ceiling_power_of_two(memory_size \div alignment))

\* Zero stands for invalid.
buddy_sizeof_alignment(memory_size, alignment) ==
  IF ~is_valid_alignment(alignment) \/ memory_size < alignment THEN 0
  ELSE SIZEOF_BUDDY + buddy_tree_sizeof(buddy_tree_order_for_memory(memory_size, alignment))

buddy_main(b) == IF b.relative THEN b.at - b.arena ELSE b.arena

buddy_effective_memory_size(b) == ceiling_power_of_two(b.memory_size)
size_for_depth(b, depth) == ceiling_power_of_two(b.memory_size) \div 2 ^ (depth - 1)

buddy_virtual_slots(b) ==
  (buddy_effective_memory_size(b) - b.memory_size) \div b.alignment

address_for_position(b, pos) ==
  buddy_main(b) + size_for_depth(b, pos.depth) * buddy_tree_index_internal(pos)

\* The depth halves the memory until it is less than twice the size.
depth_for_size(b, requested_size) ==
  LET size == IF requested_size < b.alignment THEN b.alignment ELSE requested_size
      depth(ratio) == IF ratio = 0 THEN 1 ELSE highest_bit_position(ratio)
  IN depth(buddy_effective_memory_size(b) \div size)

deepest_position_for_offset(b, offset) ==
  LET pos == buddy_tree_leftmost_child(b.tree)
  IN Pos(pos.index + offset \div b.alignment, pos.depth)

\* The first used node on the way up from the deepest one.
RECURSIVE UsedAbove(_, _)
UsedAbove(t, pos) ==
  IF buddy_tree_status(t, pos) # 0 THEN pos
  ELSE LET parent == buddy_tree_parent(pos)
       IN IF buddy_tree_valid(t, parent) THEN UsedAbove(t, parent) ELSE INVALID_POS

position_for_address(b, addr) ==
  LET offset == addr - buddy_main(b)
      checked(pos) == IF pos = INVALID_POS THEN INVALID_POS
                      ELSE IF address_for_position(b, pos) # addr THEN INVALID_POS ELSE pos
  IN IF offset % b.alignment # 0 THEN INVALID_POS
     ELSE checked(UsedAbove(b.tree, deepest_position_for_offset(b, offset)))

Toggle(t, pos, state) == IF state THEN buddy_tree_mark(t, pos) ELSE buddy_tree_release(t, pos)

\* Toggles the last delta bytes below pos.
RECURSIVE ToggleTail(_, _, _, _, _)
ToggleTail(b, t, pos, delta, state) ==
  LET right == buddy_tree_right_child(pos)
      toggled(size) ==
        IF delta = size THEN Toggle(t, pos, state)
        ELSE IF delta <= size \div 2 THEN ToggleTail(b, t, right, delta, state)
        ELSE ToggleTail(b, Toggle(t, right, state), buddy_tree_left_child(pos), delta - size \div 2, state)
  IN toggled(size_for_depth(b, pos.depth))

buddy_toggle_virtual_slots(b, state) ==
  LET delta == buddy_effective_memory_size(b) - b.memory_size
  IN IF delta = 0 THEN b
     ELSE [b EXCEPT !.tree =
             ToggleTail(b, @, buddy_tree_right_child(buddy_tree_root), delta, state)]

\* The caller gives addresses that are not NULL and aligned to a word.
buddy_init_alignment(at, main, size, alignment) ==
  LET memory_size == size - (size % alignment)
  IN IF at = main \/ ~is_valid_alignment(alignment)
        \/ buddy_sizeof_alignment(memory_size, alignment) = 0 THEN NoBuddy
     ELSE buddy_toggle_virtual_slots(
            [at |-> at, arena |-> main, relative |-> FALSE, memory_size |-> memory_size,
             alignment |-> alignment,
             tree |-> buddy_tree_init(buddy_tree_order_for_memory(memory_size, alignment))], TRUE)

\* Where an allocator fits at the end of its own memory.
buddy_embed_offset(memory_size, alignment) ==
  LET fit(buddy_size) ==
        IF buddy_size >= memory_size THEN [can_fit |-> FALSE, offset |-> 0, buddy_size |-> 0]
        ELSE [can_fit |-> TRUE, offset |-> memory_size - buddy_size, buddy_size |-> buddy_size]
      padded(plain) ==
        IF plain >= memory_size THEN plain ELSE plain + ((memory_size - plain) % ALIGNOF_BUDDY)
  IN fit(padded(buddy_sizeof_alignment(memory_size, alignment)))

buddy_embed_alignment(main, memory_size, alignment) ==
  LET related(b, offset) ==
        IF b = NoBuddy THEN NoBuddy ELSE [b EXCEPT !.relative = TRUE, !.arena = offset]
      embedded(check) ==
        IF ~check.can_fit THEN NoBuddy
        ELSE related(buddy_init_alignment(main + check.offset, main, check.offset, alignment),
                     check.offset)
  IN IF ~is_valid_alignment(alignment) THEN NoBuddy
     ELSE embedded(buddy_embed_offset(memory_size, alignment))

buddy_get_embed_at_alignment(main, memory_size, alignment) ==
  LET place(check) == IF check.can_fit THEN main + check.offset ELSE NULL
  IN place(buddy_embed_offset(memory_size, alignment))
-----------------------------------------------------------------------------
\* The widest node above pos that still lies in the range.
RECURSIVE WidestIn(_, _, _)
WidestIn(t, range, pos) ==
  LET parent == buddy_tree_parent(pos)
  IN IF buddy_tree_interval_contains(range, buddy_tree_interval(t, parent))
     THEN WidestIn(t, range, parent) ELSE pos

RECURSIVE AllFreeFrom(_, _, _)
AllFreeFrom(t, range, pos) ==
  IF ~buddy_tree_valid(t, pos) \/ pos.index >= range.to.index THEN TRUE
  ELSE LET free(wide) ==
             /\ buddy_tree_is_free(t, wide)
             /\ AllFreeFrom(t, range, buddy_tree_right_adjacent(buddy_tree_interval(t, wide).to))
       IN free(WidestIn(t, range, pos))

\* Is nothing allocated from the offset on?
buddy_is_free(b, from) ==
  LET padding(slots) == (IF slots = 0 THEN 1 ELSE slots) * b.alignment
      to == buddy_effective_memory_size(b) - padding(buddy_virtual_slots(b))
      first == deepest_position_for_offset(b, from)
  IN AllFreeFrom(b.tree, [from |-> first, to |-> deepest_position_for_offset(b, to)], first)

buddy_can_shrink(b) == buddy_is_free(b, b.memory_size \div 2)
buddy_is_empty(b) == buddy_is_free(b, 0)
buddy_is_full(b) == buddy_tree_status(b.tree, buddy_tree_root) = b.tree.order

buddy_arena_free_size(b) ==
  FoldLeft(LAMBDA sum, pos : IF pos \in FreeNodes(b.tree)
                             THEN sum + size_for_depth(b, pos.depth) ELSE sum,
           0, Visited(b.tree, FullNodes(b.tree) \cup FreeNodes(b.tree)))

\* A full node with a free left child was allocated as a whole.
AllocatedWhole(t, pos) ==
  /\ pos \in FullNodes(t)
  /\ buddy_tree_valid(t, buddy_tree_left_child(pos))
       => buddy_tree_status(t, buddy_tree_left_child(pos)) = 0

\* The blocks given to the callback, when it never asks to stop: up to the
\* first that is not memory.
buddy_walk(b) ==
  LET slot(pos) == [at |-> address_for_position(b, pos), len |-> size_for_depth(b, pos.depth)]
      seen(whole) == SelectSeq(Visited(b.tree, whole), LAMBDA pos : pos \in whole)
      virtual(s) == s.at - buddy_main(b) + s.len > b.memory_size
      reported(slots) == {slots[i] : i \in {i \in DOMAIN slots : \A j \in 1 .. i : ~virtual(slots[j])}}
      slots(nodes) == [i \in DOMAIN nodes |-> slot(nodes[i])]
  IN reported(slots(seen({pos \in Nodes(b.tree) : AllocatedWhole(b.tree, pos)})))

buddy_fragmentation(b) == buddy_tree_fragmentation(b.tree)
-----------------------------------------------------------------------------
Answer(b, ret) == [b |-> b, ret |-> ret]

buddy_malloc(b, size) ==
  LET requested_size == IF size = 0 THEN 1 ELSE size
      take(pos) ==
        IF ~buddy_tree_valid(b.tree, pos) THEN Answer(b, NULL)
        ELSE Answer([b EXCEPT !.tree = buddy_tree_mark(@, pos)], address_for_position(b, pos))
  IN IF requested_size > b.memory_size THEN Answer(b, NULL)
     ELSE take(buddy_tree_find_free(b.tree, depth_for_size(b, requested_size)))

\* A product that wraps round is noticed by dividing it again.
Overflows(members_count, member_size) ==
  ((members_count * member_size) % (SIZE_MAX + 1)) \div members_count # member_size

buddy_calloc(b, members_count, member_size) ==
  LET some == members_count # 0 /\ member_size # 0
  IN IF some /\ Overflows(members_count, member_size) THEN Answer(b, NULL)
     ELSE buddy_malloc(b, IF some THEN (members_count * member_size) % (SIZE_MAX + 1) ELSE 1)

Outside(b, ptr) == ptr = NULL \/ ptr < buddy_main(b) \/ ptr >= buddy_main(b) + b.memory_size

buddy_free(b, ptr) ==
  LET freed(pos) == IF ~buddy_tree_valid(b.tree, pos) THEN b
                    ELSE [b EXCEPT !.tree = buddy_tree_release(@, pos)]
  IN IF Outside(b, ptr) THEN b ELSE freed(position_for_address(b, ptr))

\* The size is one that malloc would have given this block for.
SizeFits(b, size, pos) ==
  LET requested_size == IF size < b.alignment THEN b.alignment ELSE size
      fits(block) == requested_size <= block /\ requested_size > block \div 2
  IN fits(size_for_depth(b, pos.depth))

buddy_safe_free(b, ptr, size) ==
  LET freed(pos) == IF ~buddy_tree_valid(b.tree, pos) \/ ~SizeFits(b, size, pos) THEN b
                    ELSE [b EXCEPT !.tree = buddy_tree_release(@, pos)]
  IN IF Outside(b, ptr) THEN b ELSE freed(position_for_address(b, ptr))

\* The block keeps its place: after a failed search, or when the search finds
\* the same node again.
RestoreMark(t, origin) == buddy_tree_mark(t, origin)

\* The contents that the call moves to the new block are the callers'.
buddy_realloc(b, ptr, requested_size) ==
  LET placed(released, origin, new_pos) ==
        IF buddy_tree_valid(b.tree, new_pos) /\ origin.index # new_pos.index
        THEN Answer([b EXCEPT !.tree = buddy_tree_mark(released, new_pos)],
                    address_for_position(b, new_pos))
        ELSE Answer([b EXCEPT !.tree = RestoreMark(released, origin)],
                    IF buddy_tree_valid(b.tree, new_pos) THEN ptr ELSE NULL)
      searched(released, origin) ==
        placed(released, origin, buddy_tree_find_free(released, depth_for_size(b, requested_size)))
      moved(origin) == IF ~buddy_tree_valid(b.tree, origin) THEN Answer(b, NULL)
                       ELSE searched(buddy_tree_release(b.tree, origin), origin)
  IN IF ptr = NULL THEN buddy_malloc(b, requested_size)
     ELSE IF requested_size = 0 THEN Answer(buddy_free(b, ptr), NULL)
     ELSE IF requested_size > b.memory_size THEN Answer(b, NULL)
     ELSE moved(position_for_address(b, ptr))

buddy_reallocarray(b, ptr, members_count, member_size) ==
  LET some == members_count # 0 /\ member_size # 0
  IN IF some /\ Overflows(members_count, member_size) THEN Answer(b, NULL)
     ELSE buddy_realloc(b, ptr, IF some THEN members_count * member_size ELSE 0)

\* The slots of a range, each toggled at the deepest level.
SlotsOf(b, ptr, size) ==
  LET first == deepest_position_for_offset(b, ptr - buddy_main(b))
  IN [i \in 1 .. (size + b.alignment - 1) \div b.alignment |-> Pos(first.index + i - 1, first.depth)]

buddy_toggle_range_reservation(b, ptr, size, state) ==
  IF ptr = NULL \/ size = 0 \/ ptr < buddy_main(b)
     \/ ptr + size > buddy_main(b) + b.memory_size THEN b
  ELSE [b EXCEPT !.tree =
          FoldLeft(LAMBDA t, pos : Toggle(t, pos, state), @, SlotsOf(b, ptr, size))]

buddy_resize_standard(b, new_size) ==
  LET size == new_size - (new_size % b.alignment)
      tree == buddy_tree_resize(buddy_toggle_virtual_slots(b, FALSE).tree,
                                buddy_tree_order_for_memory(size, b.alignment))
  IN IF ~buddy_is_free(b, size) THEN NoBuddy
     ELSE buddy_toggle_virtual_slots([b EXCEPT !.tree = tree, !.memory_size = size], TRUE)

\* Does memmove() of mem.c bring every byte to its place?  It copies upwards
\* from the first byte on, and copies nothing downwards.
memmove_Arrives(from, to, len) == from = to \/ len = 0 \/ to - from >= len

\* The allocator moves to the end of the larger or smaller memory.  If its
\* bytes do not arrive, what lies there is no allocator.
buddy_resize_embedded(b, new_size) ==
  LET moved(resized, check, destination) ==
        IF resized = NoBuddy THEN NoBuddy
        ELSE IF ~memmove_Arrives(b.at, destination, check.buddy_size) THEN [at |-> destination]
        ELSE [resized EXCEPT !.at = destination, !.arena = check.offset]
      fitted(check) ==
        IF ~check.can_fit THEN NoBuddy
        ELSE moved(buddy_resize_standard(b, check.offset), check, buddy_main(b) + check.offset)
  IN fitted(buddy_embed_offset(new_size, b.alignment))

buddy_resize(b, new_size) ==
  IF new_size = b.memory_size THEN b
  ELSE IF b.relative THEN buddy_resize_embedded(b, new_size)
  ELSE buddy_resize_standard(b, new_size)
=============================================================================
