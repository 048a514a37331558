----------------------------- MODULE BuddyBytes -----------------------------
(***************************************************************************)
(* The bitset of the buddy allocator as it is stored: mm/buddy.h, the      *)
(* char-backed bitset.  A byte is the set of the bits that are set in it,  *)
(* a bitset a function from bucket numbers to bytes.  The operations run   *)
(* side by side with those of Buddy on one set of positions.               *)
(***************************************************************************)
EXTENDS Integers, FiniteSets, FiniteSetsExt

CONSTANTS
  Buckets,   \* bytes of the bitset
  Edges      \* positions at which ranges begin and end

BytesAssumption == Buckets \in Nat \ {0} /\ Edges \subseteq 0 .. 8 * Buckets - 1

Bits == INSTANCE Buddy

VARIABLES
  bytes,     \* the stored bitset
  set        \* the positions that should be set

CHAR_BIT == 8

\* The table of masks: the bits from..to of a byte, none if from > to.
bitset_char_mask(from, to) == from .. to

bitset_set(bitset, pos) ==
  [bitset EXCEPT ![pos \div CHAR_BIT] = @ \cup {pos % CHAR_BIT}]

bitset_clear(bitset, pos) ==
  [bitset EXCEPT ![pos \div CHAR_BIT] = @ \ {pos % CHAR_BIT}]

bitset_test(bitset, pos) == pos % CHAR_BIT \in bitset[pos \div CHAR_BIT]

\* The part of each bucket that a range covers: a mask where it begins and
\* where it ends, the whole byte between.
RangeMask(bucket, from_pos, to_pos) ==
  LET first == from_pos \div CHAR_BIT
      last == to_pos \div CHAR_BIT
      i == from_pos % CHAR_BIT
      j == to_pos % CHAR_BIT
  IN CASE bucket = first /\ bucket = last -> bitset_char_mask(i, j)
       [] bucket = first /\ bucket # last -> bitset_char_mask(i, 7)
       [] bucket = last /\ bucket # first -> bitset_char_mask(0, j)
       [] first < bucket /\ bucket < last -> 0 .. 7
       [] OTHER -> {}

bitset_clear_range(bitset, from_pos, to_pos) ==
  [b \in DOMAIN bitset |-> bitset[b] \ RangeMask(b, from_pos, to_pos)]

\* Mutant: only the first and the last bucket of a range are set.
bitset_set_range_Ends(bitset, from_pos, to_pos) ==
  [b \in DOMAIN bitset |->
     IF b \in {from_pos \div CHAR_BIT, to_pos \div CHAR_BIT}
     THEN bitset[b] \cup RangeMask(b, from_pos, to_pos) ELSE bitset[b]]

bitset_set_range(bitset, from_pos, to_pos) ==
  [b \in DOMAIN bitset |-> bitset[b] \cup RangeMask(b, from_pos, to_pos)]

popcount_byte(b) == Cardinality(b)

bitset_count_range(bitset, from_pos, to_pos) ==
  MapThenSumSet(LAMBDA b : popcount_byte(bitset[b] \cap RangeMask(b, from_pos, to_pos)),
                (from_pos \div CHAR_BIT) .. (to_pos \div CHAR_BIT))
-----------------------------------------------------------------------------
Init == bytes = [b \in 0 .. Buckets - 1 |-> {}] /\ set = {}

Set(pos) == bytes' = bitset_set(bytes, pos) /\ set' = Bits!bitset_set(set, pos)
Clear(pos) == bytes' = bitset_clear(bytes, pos) /\ set' = Bits!bitset_clear(set, pos)
SetRange(from, to) ==
  bytes' = bitset_set_range(bytes, from, to) /\ set' = Bits!bitset_set_range(set, from, to)
ClearRange(from, to) ==
  bytes' = bitset_clear_range(bytes, from, to) /\ set' = Bits!bitset_clear_range(set, from, to)

Next ==
  \/ \E pos \in Edges : Set(pos) \/ Clear(pos)
  \/ \E from, to \in Edges : from <= to /\ (SetRange(from, to) \/ ClearRange(from, to))

Spec == Init /\ [][Next]_<<bytes, set>>
-----------------------------------------------------------------------------
TypeOK == bytes \in [0 .. Buckets - 1 -> SUBSET (0 .. 7)] /\ set \subseteq 0 .. 8 * Buckets - 1

\* The bytes hold exactly the positions that were set, whether a range lies in
\* one byte, ends in the next or spans bytes between: bitset_test() sees them.
BytesAreSet == set = {pos \in 0 .. 8 * Buckets - 1 : bitset_test(bytes, pos)}

\* bitset_count_range() counts what is set in a range, its ends included.
CountsRange ==
  \A from, to \in Edges : from <= to =>
    bitset_count_range(bytes, from, to) = Bits!bitset_count_range(set, from, to)
=============================================================================
