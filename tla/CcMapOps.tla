------------------------------ MODULE CcMapOps ------------------------------
(***************************************************************************)
(* A program that owns one hash map and calls its operations in any order; *)
(* each call may run out of memory after a few allocations.                *)
(***************************************************************************)
EXTENDS CcMap, FiniteSets

CONSTANTS Budgets, \* the allocations a call can make before memory runs out
          Sizes    \* the arguments of reserve

VARIABLES map,  \* the map
          res,  \* the answer of the last call
          dtors \* the destructor calls of the last call

vars == <<map, res, dtors>>

Occupied(m) == {b \in 0 .. m.cap - 1 : m.meta[b] # Empty}
Contents(m) == [k \in {m.key[b] : b \in Occupied(m)} |->
                  m.el[CHOOSE b \in Occupied(m) : m.key[b] = k]]
\* What lookups see of the map.
Visible(m) == [k \in {j \in Key : cc_map_find(m, j) # -1} |-> cc_map_get(m, k)]
Destroyed(b) == {<<"key_dtor", map.key[b]>>, <<"el_dtor", map.el[b]>>}

Init == map = cc_map_placeholder /\ res = Null /\ dtors = {}

Insert(k, e, replace) ==
  \E allocs \in Budgets :
    LET Answers(r) == map' = r.m /\ res' = r.res
        b == cc_map_find(map, k)
    IN  /\ Answers(cc_map_insert(map, k, e, replace, allocs))
        /\ dtors' = IF b # -1 /\ replace THEN Destroyed(b) ELSE {}

Get(k) == res' = cc_map_get(map, k) /\ dtors' = {} /\ UNCHANGED map

\* cc_map_erase(): by key.
Erase(k) ==
  LET b == cc_map_find(map, k) IN
  /\ map' = IF b = -1 THEN map ELSE cc_map_erase_raw(map, b).m
  /\ res' = IF b = -1 THEN Null ELSE map.el[b]
  /\ dtors' = IF b = -1 THEN {} ELSE Destroyed(b)

\* cc_map_erase_itr(): by iterator.
EraseItr(b) ==
  /\ b \in Occupied(map)
  /\ map' = cc_map_erase_itr(map, b).m
  /\ res' = map.el[b]
  /\ dtors' = Destroyed(b)

Reserve(n) ==
  \E allocs \in Budgets :
    map' = cc_map_reserve(map, n, allocs) /\ res' = Null /\ dtors' = {}

Shrink ==
  \E allocs \in Budgets :
    map' = cc_map_shrink(map, allocs) /\ res' = Null /\ dtors' = {}

\* The source is given up for its clone.
Clone == map' = cc_map_init_clone(map) /\ res' = Null /\ dtors' = {}

Clear ==
  LET c == cc_map_clear(map, "el_dtor", "key_dtor")
  IN  map' = c.m /\ dtors' = c.dtors /\ res' = Null

\* cc_map_cleanup(), and cc_init() again.
Cleanup ==
  /\ dtors' = cc_map_cleanup(map, "el_dtor", "key_dtor").dtors
  /\ map' = cc_map_placeholder
  /\ res' = Null

Next ==
  \/ \E k \in Key, e \in El, replace \in BOOLEAN : Insert(k, e, replace)
  \/ \E k \in Key : Get(k) \/ Erase(k)
  \/ \E b \in 0 .. MaxCap - 1 : EraseItr(b)
  \/ \E n \in Sizes : Reserve(n)
  \/ Shrink \/ Clone \/ Clear \/ Cleanup

Spec == Init /\ [][Next]_vars

-----------------------------------------------------------------------------
TypeOK ==
  /\ map.cap \in {0} \cup {MinBuckets * c : c \in 1 .. MaxCap \div MinBuckets}
  /\ map.size = Cardinality(Occupied(map))
  /\ map.cap > 0 => \A b \in Occupied(map) :
       map.meta[b] \in [frag : 0 .. 15, home : BOOLEAN, disp : 0 .. DispMask]
  /\ res \in El \cup {Null}

\* The buckets of the chain that starts at b.
RECURSIVE Chain(_, _, _)
Chain(m, home, b) ==
  <<b>> \o (IF m.meta[b].disp = DispMask THEN <<>>
            ELSE Chain(m, home, NextInChain(m, home, b)))

\* Every pair can be reached: it is on the chain of its home bucket, the flag
\* marks exactly the pairs that start a chain, the fragment in the metadata is
\* the one of the key, and a chain is ordered by displacement.
ChainsComplete ==
  LET In(b) == {Chain(map, b, b)[i] : i \in 1 .. Len(Chain(map, b, b))}
  IN  \A b \in Occupied(map) :
        LET home == Home(map, map.key[b]) IN
        /\ map.meta[b].frag = Frag[map.key[b]]
        /\ map.meta[b].home <=> b = home
        /\ map.meta[home].home /\ b \in In(home)
        /\ map.meta[b].home => \A i \in 1 .. Len(Chain(map, b, b)) - 2 :
             LET c == Chain(map, b, b)
             IN  map.meta[c[i]].disp < map.meta[c[i + 1]].disp

\* Forward iteration visits every occupied bucket once and backward iteration
\* the same ones in reverse; neither reads past the four excess metadata.
RECURSIVE Forward(_, _)
Forward(m, b) == IF b >= m.cap THEN <<>> ELSE <<b>> \o Forward(m, cc_map_next(m, b))
RECURSIVE Backward(_, _)
Backward(m, b) == IF b = -1 THEN <<>> ELSE <<b>> \o Backward(m, LeapBackward(m, b))
IterationComplete ==
  LET up   == Forward(map, cc_map_first(map))
      down == Backward(map, cc_map_last(map))
  IN  /\ {up[i] : i \in 1 .. Len(up)} = Occupied(map)
      /\ \A i \in 1 .. Len(up) - 1 : up[i] < up[i + 1]
      /\ down = [i \in 1 .. Len(up) |-> up[Len(up) + 1 - i]]

\* A loop that erases the pairs of some keys through erase_itr, and steps over
\* the others: the keys it stands on, in order, and the map it leaves.
RECURSIVE Sweep(_, _, _, _)
Sweep(m, b, gone, seen) ==
  IF b >= m.cap THEN [m |-> m, seen |-> seen]
  ELSE LET k == m.key[b]
           r == cc_map_erase_itr(m, b)
       IN  IF k \in gone THEN Sweep(r.m, r.itr, gone, Append(seen, k))
           ELSE Sweep(m, cc_map_next(m, b), gone, Append(seen, k))

\* Such a loop meets every pair exactly once, although an erasure moves a pair
\* that may or may not have been met, and erases just those keys.
SweepVisitsOnce ==
  \A gone \in SUBSET DOMAIN Contents(map) :
    LET s == Sweep(map, cc_map_first(map), gone, <<>>)
    IN  /\ Len(s.seen) = map.size
        /\ {s.seen[i] : i \in 1 .. Len(s.seen)} = DOMAIN Contents(map)
        /\ DOMAIN Contents(s.m) = DOMAIN Contents(map) \ gone
        /\ Visible(s.m) = Contents(s.m)

\* The hash map is a dictionary.
Dict == INSTANCE Dictionary WITH dict <- Visible(map)

\* Every pair that leaves the map, or whose element is replaced, has its key and
\* its element passed to a destructor.
LeavesDestroyed ==
  LET old == Contents(map)
      new == Contents(map')
      left == {k \in DOMAIN old : k \notin DOMAIN new \/ new[k] # old[k]}
      objects == {d[2] : d \in dtors'}
  IN  left \cup {old[k] : k \in left} \subseteq objects
=============================================================================
