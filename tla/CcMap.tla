------------------------------- MODULE CcMap --------------------------------
(***************************************************************************)
(* The hash map of libs/moon-ds (cc.h): open addressing with quadratic     *)
(* probing, where the keys of one home bucket form a chain that starts in  *)
(* that bucket and is linked by displacements kept in a metadata array.    *)
(*                                                                         *)
(* A map is a record: "size"; "cap" (0 for the placeholder); "meta", the   *)
(* metadata array with its four excess cells; "key" and "el", the buckets. *)
(* A key's hash is given by two constants: Low, of which the home bucket   *)
(* is the remainder, and Frag, the fragment kept in the metadata.          *)
(* "allocs" is the number of allocations that still succeed in a call.     *)
(* The set is the same code with keys for elements.                        *)
(***************************************************************************)
EXTENDS Integers, Sequences, TLC

CONSTANTS Key, El, Null,
          Low, Frag,        \* the hash of every key
          DispMask,         \* CC_MAP_DISPLACEMENT_MASK: the displacement limit
          LoadNum, LoadDen, \* the load factor, as a fraction
          MinBuckets,       \* CC_MAP_MIN_NONZERO_BUCKET_COUNT
          MaxCap            \* bound: the largest table memory can hold

HashAssumption == Low \in [Key -> Nat] /\ Frag \in [Key -> 0 .. 15]

\* A metadatum: hash fragment, in-home-bucket flag, displacement of the next.
Empty == [frag |-> 0, home |-> FALSE, disp |-> 0]
Stopper == [frag |-> 0, home |-> FALSE, disp |-> 1]

\* cc_quadratic()
cc_quadratic(d) == (d * d + d) \div 2

\* A table of the given capacity with nothing in it (memset and the iteration
\* stopper), and the placeholder, whose one metadatum is empty.
NewTable(cap) ==
  [size |-> 0, cap |-> cap,
   meta |-> [i \in 0 .. cap + 3 |-> IF i = cap THEN Stopper ELSE Empty],
   key  |-> [i \in 0 .. cap - 1 |-> Null],
   el   |-> [i \in 0 .. cap - 1 |-> Null]]
cc_map_placeholder ==
  [size |-> 0, cap |-> 0, meta |-> [i \in {0} |-> Empty],
   key |-> <<>>, el |-> <<>>]

\* & cap_mask, which is 0 for the placeholder.
Mask(m, i) == IF m.cap = 0 THEN 0 ELSE i % m.cap
Home(m, k) == Mask(m, Low[k])
NextInChain(m, home, b) == Mask(m, home + cc_quadratic(m.meta[b].disp))

\* n > cap * max_load
Overloaded(n, cap) == n * LoadDen > cap * LoadNum

RECURSIVE DoubleUntilFits(_, _)
DoubleUntilFits(n, cap) ==
  IF Overloaded(n, cap) THEN DoubleUntilFits(n, cap * 2) ELSE cap
cc_map_min_cap_for_n_els(n) == IF n = 0 THEN 0 ELSE DoubleUntilFits(n, MinBuckets)

\* cc_map_find_first_empty(): the first empty bucket along the probe sequence,
\* unless the displacement limit comes first.
RECURSIVE Probe(_, _, _)
Probe(m, home, d) ==
  LET b == Mask(m, home + cc_quadratic(d))
  IN  IF m.meta[b] = Empty THEN [ok |-> TRUE, bucket |-> b, disp |-> d]
      ELSE IF d + 1 = DispMask THEN [ok |-> FALSE, bucket |-> 0, disp |-> 0]
      ELSE Probe(m, home, d + 1)
cc_map_find_first_empty(m, home) == Probe(m, home, 1)

\* cc_map_find_insert_location_in_chain(): the last pair whose successor lies
\* farther out than d (the end of the chain is DispMask).
RECURSIVE InsertLocation(_, _, _, _)
InsertLocation(m, home, d, b) ==
  IF m.meta[b].disp > d THEN b ELSE InsertLocation(m, home, d, NextInChain(m, home, b))
cc_map_find_insert_location_in_chain(m, home, d) == InsertLocation(m, home, d, home)

\* The pair before bucket b in its chain.
RECURSIVE Before(_, _, _, _)
Before(m, home, b, prev) ==
  IF NextInChain(m, home, prev) = b THEN prev
  ELSE Before(m, home, b, NextInChain(m, home, prev))

\* Link the bucket "empty", at displacement d, into the chain of home.
Link(m, home, empty, d, frag) ==
  LET prev == cc_map_find_insert_location_in_chain(m, home, d)
  IN  [m EXCEPT !.meta = [@ EXCEPT
         ![empty] = [frag |-> frag, home |-> FALSE, disp |-> m.meta[prev].disp],
         ![prev].disp = d]]

\* cc_map_evict(): disconnect the pair in bucket b from its chain, find it a
\* place, move it there and link it again.  When there is no place the pair
\* stays disconnected.
cc_map_evict(m, b) ==
  LET home  == Home(m, m.key[b])
      cut   == [m EXCEPT !.meta[Before(m, home, b, home)].disp = m.meta[b].disp]
      copied(t, to) == [t EXCEPT !.key[to] = m.key[b], !.el[to] = m.el[b]]
      moved(t, spot) ==
        IF spot.ok
        THEN [ok |-> TRUE, m |-> Link(copied(t, spot.bucket), home, spot.bucket, spot.disp,
                                      m.meta[b].frag)]
        ELSE [ok |-> FALSE, m |-> t]
      found(t) == moved(t, cc_map_find_first_empty(t, home))
  IN  found(cut)

\* The bucket of the chain that holds the key, or -1: fragment first, then the
\* key itself.
RECURSIVE ChainSearch(_, _, _, _)
ChainSearch(m, home, k, b) ==
  IF m.meta[b].frag = Frag[k] /\ m.key[b] = k THEN b
  ELSE IF m.meta[b].disp = DispMask THEN -1
  ELSE ChainSearch(m, home, k, NextInChain(m, home, b))
cc_map_find(m, k) ==
  LET home == Home(m, k)
  IN  IF ~m.meta[home].home THEN -1 ELSE ChainSearch(m, home, k, home)

cc_map_get(m, k) == LET b == cc_map_find(m, k) IN IF b = -1 THEN Null ELSE m.el[b]

\* The part cc_map_insert_raw() and cc_map_reinsert() share: place a pair whose
\* key is not in the map.  The bucket is -1 when the displacement limit stops it.
Place(m, k, e) ==
  LET home == Home(m, k)
      Put(t, b) == [t EXCEPT !.key[b] = k, !.el[b] = e, !.size = @ + 1]
      atHome(ev) ==
        IF ev.ok
        THEN [m |-> [Put(ev.m, home) EXCEPT !.meta[home] =
                       [frag |-> Frag[k], home |-> TRUE, disp |-> DispMask]],
              bucket |-> home]
        ELSE [m |-> ev.m, bucket |-> -1]
      inChain(spot) ==
        IF spot.ok
        THEN [m |-> Link(Put(m, spot.bucket), home, spot.bucket, spot.disp, Frag[k]),
              bucket |-> spot.bucket]
        ELSE [m |-> m, bucket |-> -1]
  IN  IF m.meta[home].home THEN inChain(cc_map_find_first_empty(m, home))
      ELSE atHome(IF m.meta[home] = Empty THEN [ok |-> TRUE, m |-> m] ELSE cc_map_evict(m, home))

\* cc_map_insert_raw(): the load factor is checked before an empty or foreign
\* home bucket is taken, and after the chain was searched otherwise.
cc_map_insert_raw(m, k, e, replace) ==
  LET at(b) ==
        IF b # -1
        THEN [m |-> IF replace THEN [m EXCEPT !.el[b] = e] ELSE m, bucket |-> b]
        ELSE IF Overloaded(m.size + 1, m.cap) THEN [m |-> m, bucket |-> -1]
        ELSE Place(m, k, e)
  IN  at(cc_map_find(m, k))

\* Pairs of old from bucket i on, reinserted into new until one does not fit.
RECURSIVE Reinsert(_, _, _)
Reinsert(old, new, i) ==
  IF i = old.cap THEN new
  ELSE IF old.meta[i] = Empty THEN Reinsert(old, new, i + 1)
  ELSE LET goOn(p) == IF p.bucket = -1 THEN p.m ELSE Reinsert(old, p.m, i + 1)
       IN  goOn(Place(new, old.key[i], old.el[i]))

\* Mutant: a pair that does not fit is dropped instead of doubling again.
cc_map_make_rehash_NoRetry(m, cap, allocs) ==
  IF allocs = 0 \/ cap > MaxCap THEN [ok |-> FALSE, m |-> m, allocs |-> allocs]
  ELSE [ok |-> TRUE, m |-> Reinsert(m, NewTable(cap), 0), allocs |-> allocs - 1]

\* cc_map_make_rehash(): double the capacity until every pair fits.
RECURSIVE RehashLoop(_, _, _)
RehashLoop(m, cap, allocs) ==
  IF allocs = 0 \/ cap > MaxCap THEN [ok |-> FALSE, m |-> m, allocs |-> allocs]
  ELSE LET goOn(new) == IF new.size < m.size THEN RehashLoop(m, cap * 2, allocs - 1)
                        ELSE [ok |-> TRUE, m |-> new, allocs |-> allocs - 1]
       IN  goOn(Reinsert(m, NewTable(cap), 0))
cc_map_make_rehash(m, cap, allocs) == RehashLoop(m, cap, allocs)

\* cc_map_insert(): try, rehash into twice the space, try again.
RECURSIVE InsertLoop(_, _, _, _, _)
InsertLoop(m, k, e, replace, allocs) ==
  LET again(tried, g) == IF ~g.ok THEN [m |-> tried, res |-> Null]
                         ELSE InsertLoop(g.m, k, e, replace, g.allocs)
      goOn(r) ==
        IF r.bucket # -1 THEN [m |-> r.m, res |-> r.m.el[r.bucket]]
        ELSE again(r.m, cc_map_make_rehash(r.m, IF m.cap = 0 THEN MinBuckets ELSE m.cap * 2, allocs))
  IN  goOn(cc_map_insert_raw(m, k, e, replace))
cc_map_insert(m, k, e, replace, allocs) == InsertLoop(m, k, e, replace, allocs)

\* cc_map_leap_forward(): the first occupied bucket at or after b, four
\* metadata at a time; the stopper ends the scan at bucket "cap", which is the
\* end iterator.
RECURSIVE LeapForward(_, _)
LeapForward(m, b) ==
  LET hits == {i \in b .. b + 3 : m.meta[i] # Empty}
  IN  IF hits = {} THEN LeapForward(m, b + 4)
      ELSE CHOOSE i \in hits : \A j \in hits : i =< j
cc_map_first(m) == IF m.cap = 0 THEN 0 ELSE LeapForward(m, 0)

cc_map_next(m, b) == LeapForward(m, b + 1)

\* cc_map_leap_backward(): the last occupied bucket before b, or -1 (r_end).
RECURSIVE LeapBackward(_, _)
LeapBackward(m, b) ==
  LET low  == IF b < 4 THEN 0 ELSE b - 4
      hits == {i \in low .. b - 1 : m.meta[i] # Empty}
  IN  IF hits # {} THEN CHOOSE i \in hits : \A j \in hits : i >= j
      ELSE IF b < 4 THEN -1 ELSE LeapBackward(m, b - 4)
cc_map_last(m) == LeapBackward(m, m.cap)

\* The bucket ends a chain of several; cut it off.
CutTail(m, prev, b) ==
  [m EXCEPT !.meta = [@ EXCEPT ![prev].disp = DispMask, ![b] = Empty],
            !.key[b] = Null, !.el[b] = Null]

\* From bucket b on, the last pair of the chain and the one before it.
RECURSIVE ChainEnd(_, _, _)
ChainEnd(m, home, b) ==
  LET n == NextInChain(m, home, b)
  IN  IF m.meta[n].disp = DispMask THEN [prev |-> b, last |-> n] ELSE ChainEnd(m, home, n)

\* cc_map_erase_raw(): a pair alone in its chain is removed; the tail of a chain
\* is cut off; any other pair is overwritten by the tail, which is cut off.
\* "advance": a forward iteration standing on b must now step on.
cc_map_erase_raw(m, b) ==
  LET home == Home(m, m.key[b])
      end  == ChainEnd(m, home, b)
      s    == [m EXCEPT !.size = @ - 1]
      moved == [s EXCEPT !.key[b] = m.key[end.last], !.el[b] = m.el[end.last],
                         !.meta[b].frag = m.meta[end.last].frag]
  IN  IF m.meta[b].disp = DispMask
      THEN [m |-> IF m.meta[b].home
                  THEN [s EXCEPT !.meta[b] = Empty, !.key[b] = Null, !.el[b] = Null]
                  ELSE CutTail(s, Before(m, home, b, home), b),
            advance |-> TRUE]
      ELSE [m |-> CutTail(moved, end.prev, end.last), advance |-> end.last < b]

\* Mutant: the iterator always steps on.
cc_map_erase_itr_Steps(m, b) ==
  LET r == cc_map_erase_raw(m, b) IN [m |-> r.m, itr |-> cc_map_next(r.m, b)]

\* cc_map_erase_itr(): the map, and the iterator to go on with.
cc_map_erase_itr(m, b) ==
  LET r == cc_map_erase_raw(m, b)
  IN  [m |-> r.m, itr |-> IF r.advance THEN cc_map_next(r.m, b) ELSE b]

\* cc_map_reserve() and cc_map_shrink(): nothing, a rehash, or (shrinking an
\* empty map) the placeholder.
cc_map_reserve(m, n, allocs) ==
  LET cap == cc_map_min_cap_for_n_els(n)
  IN  IF m.cap >= cap THEN m ELSE cc_map_make_rehash(m, cap, allocs).m
cc_map_shrink(m, allocs) ==
  LET cap == cc_map_min_cap_for_n_els(m.size)
  IN  IF cap = m.cap THEN m
      ELSE IF cap = 0 THEN cc_map_placeholder
      ELSE cc_map_make_rehash(m, cap, allocs).m

\* cc_map_init_clone(): the same table, or the placeholder for an empty map.
cc_map_init_clone(m) == IF m.size = 0 THEN cc_map_placeholder ELSE m

\* cc_map_clear(): the destructor calls, as pairs of routine and object, in
\* terms of the routines passed for keys and elements.
DestructorCalls(m, key_dtor, el_dtor) ==
  UNION {{<<key_dtor, m.key[b]>>, <<el_dtor, m.el[b]>>} :
           b \in {i \in 0 .. m.cap - 1 : m.meta[i] # Empty}}
cc_map_clear(m, el_dtor, key_dtor) ==
  [m |-> IF m.size = 0 THEN m ELSE NewTable(m.cap),
   dtors |-> IF m.size = 0 THEN {} ELSE DestructorCalls(m, key_dtor, el_dtor)]

\* cc_map_cleanup(): clear is handed the two destructors in the other order.
cc_map_cleanup(m, el_dtor, key_dtor) == cc_map_clear(m, key_dtor, el_dtor)
=============================================================================
