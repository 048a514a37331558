-------------------------------- MODULE Vec --------------------------------
(***************************************************************************)
(* The vector of libs/moon-ds (cc.h), as it behaves on top of the kernel's *)
(* own memmove (libs/base/sources/mem.c).                                  *)
(*                                                                         *)
(* A vector is a record: "at" is its backing storage, a function from slot *)
(* numbers (counted from 0) to elements, and "size" the number of live     *)
(* elements.  Slots from "size" on still hold whatever was last written    *)
(* there: cc_vec_get is plain pointer arithmetic and reads them without a  *)
(* check, and several callers do.  Growing the storage is not modelled:    *)
(* the domain of "at" is the largest capacity the caller can reach.        *)
(***************************************************************************)
EXTENDS Integers

\* init(): no live elements; the storage holds "junk".
VecInit(cap, junk) == [at |-> [i \in 0 .. cap - 1 |-> junk], size |-> 0]

\* memmove(mem + dst, mem + src, n).  The branch for src >= dst starts its
\* loop at i = n and runs it while i > n, so it moves nothing.  The other one
\* copies forward: where the ranges overlap it reads cells it has already
\* written, and the first dst - src elements repeat.
memmove(mem, dst, src, n) ==
  IF src < dst
  THEN [k \in DOMAIN mem |->
          IF k \in dst .. dst + n - 1
          THEN mem[src + ((k - dst) % (dst - src))]
          ELSE mem[k]]
  ELSE mem

\* get(): the slot at an index, unchecked.
VecGet(v, i) == v.at[i]

\* push(): write the element after the last one, size + 1; there is no tail to
\* move.
VecPush(v, e) == [at |-> [v.at EXCEPT ![v.size] = e], size |-> v.size + 1]

\* Mutant: the size is not lowered.
VecErase_KeepsSize(v, i) ==
  [at |-> memmove(v.at, i, i + 1, v.size - 1 - i), size |-> v.size]

\* erase(): move the tail down over index i, size - 1.
VecErase(v, i) ==
  [at   |-> memmove(v.at, i, i + 1, v.size - 1 - i),
   size |-> v.size - 1]

\* The indices of the live elements.
VecLive(v) == 0 .. v.size - 1
=============================================================================
