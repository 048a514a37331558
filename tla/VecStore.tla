------------------------------ MODULE VecStore ------------------------------
(***************************************************************************)
(* The storage of the vectors of cc.h: growing, shrinking, resizing,       *)
(* copying and giving back, with allocations that fail.  A vector's handle *)
(* is the address of a block with the size, the capacity and the elements, *)
(* or that of a constant placeholder that all empty vectors share.         *)
(*                                                                         *)
(* Beside each vector stands what cc.h documents for the same calls, and   *)
(* the length of the prefix on which the two agree.                        *)
(***************************************************************************)
EXTENDS Vec, Sequences, FiniteSetsExt

CONSTANTS
  Vectors,    \* the vectors of the client
  Elements,   \* what they hold
  MaxSize     \* bound: elements of a vector

VARIABLES
  cntr,       \* the handle of each vector: a block, Placeholder or NULL
  heap,       \* the allocated blocks: [size, cap, at]
  doc, clean, \* see above
  failed      \* the last call reported a failed allocation

vars == <<cntr, heap, doc, clean, failed>>

NULL == 0
Placeholder == -1
Blocks == 1 .. Cardinality(Vectors) + 1
Junk == "junk"

cc_vec_is_placeholder(v) == cntr[v] = Placeholder
Hdr(v) == IF cc_vec_is_placeholder(v) THEN [size |-> 0, cap |-> 0, at |-> <<>>] ELSE heap[cntr[v]]
cc_vec_size(v) == Hdr(v).size
cc_vec_cap(v) == Hdr(v).cap

\* A block with room for n elements, which begins with those of h.
Sized(h, n) ==
  [size |-> h.size, cap |-> n, at |-> [i \in 0 .. n - 1 |-> IF i < h.cap THEN h.at[i] ELSE Junk]]

\* The heap without the block of a vector, unless it is the placeholder.
Without(v) == [b \in DOMAIN heap \ {cntr[v]} |-> heap[b]]
With(rest, b, h) == [c \in DOMAIN rest \cup {b} |-> IF c = b THEN h ELSE rest[c]]
\* realloc_() moves the block, or leaves it where it is.
Unused(v) == Blocks \ (DOMAIN heap \ {cntr[v]})

Init ==
  /\ cntr = [v \in Vectors |-> NULL] /\ heap = <<>>
  /\ doc = [v \in Vectors |-> <<>>] /\ clean = [v \in Vectors |-> 0] /\ failed = FALSE
-----------------------------------------------------------------------------
\* A vector's block is replaced by h, at its address or at another one.
Stored(v, h) ==
  \E b \in IF cc_vec_is_placeholder(v) \/ h.cap # cc_vec_cap(v)
           THEN {Min(Unused(v)), Max(Unused(v))} ELSE {cntr[v]} :
    /\ cntr' = [cntr EXCEPT ![v] = b]
    /\ heap' = With(Without(v), b, h)
    /\ failed' = FALSE

\* The allocation fails and the call leaves everything as it was.
Fail == failed' = TRUE /\ UNCHANGED <<cntr, heap, doc, clean>>

Nothing == failed' = FALSE /\ UNCHANGED <<cntr, heap, doc, clean>>

Documented(v, content, agree) ==
  doc' = [doc EXCEPT ![v] = content] /\ clean' = [clean EXCEPT ![v] = agree]

Alive(v) == cntr[v] # NULL

cc_init(v) ==
  /\ ~ Alive(v) /\ cntr' = [cntr EXCEPT ![v] = Placeholder]
  /\ failed' = FALSE /\ UNCHANGED <<heap, doc, clean>>

\* Exactly n elements, where a call for more elements doubles the capacity.
cc_vec_reserve(v, n) ==
  /\ Alive(v)
  /\ IF cc_vec_cap(v) >= n THEN Nothing
     ELSE Fail \/ (Stored(v, Sized(Hdr(v), n)) /\ UNCHANGED <<doc, clean>>)

NewCap(v, n) ==
  LET cap == IF cc_vec_cap(v) = 0 THEN 2 ELSE cc_vec_cap(v)
  IN  cap * Min({p \in {1, 2, 4, 8, 16} : cap * p >= cc_vec_size(v) + n})

\* memmove() smears what follows the first n elements that it moves.
cc_vec_insert_n(v, index, els) ==
  LET n == Len(els)
      h == Sized(Hdr(v), IF cc_vec_size(v) + n > cc_vec_cap(v) THEN NewCap(v, n) ELSE cc_vec_cap(v))
      moved == memmove(h.at, index + n, index, h.size - index)
  IN  /\ Alive(v) /\ index <= cc_vec_size(v) /\ cc_vec_size(v) + n <= MaxSize
      /\ IF n = 0 THEN Nothing
         ELSE \/ cc_vec_size(v) + n > cc_vec_cap(v) /\ Fail
              \/ /\ Stored(v, [size |-> h.size + n, cap |-> h.cap,
                               at |-> [i \in DOMAIN h.at |->
                                         IF i \in index .. index + n - 1
                                         THEN els[i - index + 1] ELSE moved[i]]])
                 /\ Documented(v, SubSeq(doc[v], 1, index) \o els
                                  \o SubSeq(doc[v], index + 1, Len(doc[v])),
                               IF clean[v] < index THEN clean[v]
                               ELSE index + n + Min({n, clean[v] - index}))
cc_vec_push_n(v, els) == cc_vec_insert_n(v, cc_vec_size(v), els)

\* The vector without n elements from index on; erasing nothing writes nothing.
Erased(v, index, n) ==
  LET h == Hdr(v)
  IN  IF n = 0 THEN Nothing
      ELSE /\ Stored(v, [h EXCEPT !.at = memmove(h.at, index, index + n, h.size - n - index),
                                  !.size = h.size - n])
           /\ Documented(v, SubSeq(doc[v], 1, index) \o SubSeq(doc[v], index + n + 1, Len(doc[v])),
                         Min({clean[v], index}))

cc_vec_erase_n(v, index, n) ==
  Alive(v) /\ index + n <= cc_vec_size(v) /\ Erased(v, index, n)

\* New elements are uninitialized.
cc_vec_resize(v, n) ==
  /\ Alive(v) /\ n <= MaxSize
  /\ CASE n <= cc_vec_size(v) -> Erased(v, n, cc_vec_size(v) - n)
       [] n > cc_vec_size(v) ->
            \/ cc_vec_cap(v) < n /\ Fail
            \/ LET h == Sized(Hdr(v), Max({n, cc_vec_cap(v)}))
               IN  /\ Stored(v, [h EXCEPT !.size = n])
                   /\ Documented(v, [i \in 1 .. n |-> IF i <= Len(doc[v]) THEN doc[v][i] ELSE Junk],
                                 clean[v])

\* A vector without elements gets the placeholder again.
cc_vec_shrink(v) ==
  /\ Alive(v)
  /\ CASE cc_vec_size(v) = cc_vec_cap(v) -> Nothing
       [] cc_vec_size(v) # cc_vec_cap(v) /\ cc_vec_size(v) = 0 ->
            /\ heap' = Without(v) /\ cntr' = [cntr EXCEPT ![v] = Placeholder]
            /\ failed' = FALSE /\ UNCHANGED <<doc, clean>>
       [] OTHER -> Fail \/ (Stored(v, Sized(Hdr(v), cc_vec_size(v))) /\ UNCHANGED <<doc, clean>>)

Copy(v, src) ==
  LET b == Min(Unused(v))
  IN  /\ cntr' = [cntr EXCEPT ![v] = b]
      /\ heap' = With(heap, b, Sized(Hdr(src), cc_vec_size(src)))

\* The copy's capacity is the size of the source; NULL if there is no memory.
cc_vec_init_clone(v, src) ==
  /\ ~ Alive(v) /\ Alive(src)
  /\ IF cc_vec_size(src) = 0
     THEN cntr' = [cntr EXCEPT ![v] = Placeholder] /\ failed' = FALSE /\ UNCHANGED <<heap, doc, clean>>
     ELSE \/ Fail
          \/ Copy(v, src) /\ failed' = FALSE /\ Documented(v, doc[src], clean[src])

cc_vec_clear(v) == Alive(v) /\ Erased(v, 0, cc_vec_size(v))

\* Mutant: only vectors with elements give their block back.
Freed_Filled(v) == IF cc_vec_size(v) = 0 THEN heap ELSE Without(v)

\* The block of a vector that has one, whatever is in it.
Freed(v) == IF cc_vec_is_placeholder(v) THEN heap ELSE Without(v)

\* cc_cleanup() makes the vector ready for use again; here it goes out of use.
cc_vec_cleanup(v) ==
  /\ Alive(v) /\ heap' = Freed(v) /\ cntr' = [cntr EXCEPT ![v] = NULL]
  /\ Documented(v, <<>>, 0) /\ failed' = FALSE

Next ==
  \E v \in Vectors :
    \/ cc_init(v) \/ cc_vec_shrink(v) \/ cc_vec_clear(v) \/ cc_vec_cleanup(v)
    \/ \E n \in 0 .. MaxSize : cc_vec_reserve(v, n) \/ cc_vec_resize(v, n)
    \/ \E index \in 0 .. MaxSize, k \in 0 .. MaxSize, e \in Elements :
         cc_vec_insert_n(v, index, [i \in 1 .. k |-> e])
    \/ \E e, f \in Elements : cc_vec_push_n(v, <<e, f>>)
    \/ \E index, n \in 0 .. MaxSize : cc_vec_erase_n(v, index, n)
    \/ \E src \in Vectors : cc_vec_init_clone(v, src)

\* The kernel's own use of its vectors: push() and erase(), no insertion.
KernelNext ==
  \E v \in Vectors :
    \/ cc_init(v)
    \/ \E e \in Elements : cc_vec_push_n(v, <<e>>)
    \/ \E index \in 0 .. MaxSize : cc_vec_erase_n(v, index, 1)

KernelSpec == Init /\ [][KernelNext]_vars
-----------------------------------------------------------------------------
\* The blocks are those of the vectors, one each: no call loses a block, frees
\* one that is in use or lets two vectors share one, failures included.
BlocksOwned ==
  /\ {cntr[v] : v \in Vectors} \ {NULL, Placeholder} = DOMAIN heap
  /\ \A v, w \in Vectors : cntr[v] = cntr[w] => v = w \/ cntr[v] \in {NULL, Placeholder}

\* The elements have room in the block, and no call left a block of capacity
\* zero behind, which would pass for the placeholder and never be freed.
RoomForAll ==
  \A b \in DOMAIN heap :
    heap[b].size <= heap[b].cap /\ DOMAIN heap[b].at = 0 .. heap[b].cap - 1 /\ heap[b].cap > 0

\* Every vector has the documented size, and below the lowest index where
\* elements were inserted or erased it has the documented elements, wherever
\* its block has been moved to.
StoreAgrees ==
  \A v \in Vectors :
    Alive(v) => /\ cc_vec_size(v) = Len(doc[v])
                /\ \A i \in 1 .. Min({clean[v], Len(doc[v])}) : Hdr(v).at[i - 1] = doc[v][i]

\* cc.h:344, "Erases the element at index i": after any pushes and erasures
\* the vector holds what that sentence says.
ErasesElementAtIndex ==
  \A v \in Vectors : Alive(v) => \A i \in 1 .. Len(doc[v]) : Hdr(v).at[i - 1] = doc[v][i]
=============================================================================
