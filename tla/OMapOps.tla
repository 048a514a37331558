------------------------------ MODULE OMapOps ------------------------------
(***************************************************************************)
(* A program that owns one ordered map and calls its operations in any     *)
(* order; each call may run out of memory.  What the calls promise is      *)
(* Dictionary; what keeps them working is the shape of the tree.           *)
(***************************************************************************)
EXTENDS OMap, FiniteSets

CONSTANT MaxAllocs \* allocations one call may make before memory runs out

VARIABLES omap, \* the map
          res,  \* the answer of the last call
          itr   \* after erase_itr: the key erased and the iterator answered

vars == <<omap, res, itr>>
NoItr == [erased |-> Null, at |-> End(0)]

Live(t) == {n \in Key : t.key[n] # Null}
Contents(t) == [k \in {t.key[n] : n \in Live(t)} |->
                  t.el[CHOOSE n \in Live(t) : t.key[n] = k]]

Init == omap = cc_omap_placeholder /\ res = Null /\ itr = NoItr

Insert(k, e, replace) ==
  \E allocs \in 0 .. MaxAllocs :
    LET Answers(r) == omap' = r.t /\ res' = r.res /\ itr' = NoItr
    IN  Answers(cc_omap_insert(omap, k, e, replace, allocs))

Get(k) == res' = cc_omap_get(omap, k) /\ itr' = NoItr /\ UNCHANGED omap

\* cc_omap_erase(): nothing happens when the key is not there.
Erase(k) ==
  LET n == cc_omap_find(omap, k).node IN
  /\ omap' = IF n = Sentinel THEN omap ELSE cc_omap_erase_raw(omap, n)
  /\ res' = IF n = Sentinel THEN Null ELSE omap.el[n]
  /\ itr' = NoItr

\* cc_omap_erase_itr(): the next iterator is taken before the node goes.
EraseItr(n) ==
  /\ n \in Live(omap)
  /\ itr' = [erased |-> omap.key[n], at |-> cc_omap_iterate(omap, n, 1)]
  /\ res' = omap.el[n]
  /\ omap' = cc_omap_erase_raw(omap, n)

Clear == omap' = cc_omap_clear(omap).t /\ res' = Null /\ itr' = NoItr

\* cc_omap_cleanup(), and cc_init() again.
Cleanup == omap' = cc_omap_placeholder /\ res' = Null /\ itr' = NoItr

Next ==
  \/ \E k \in Key, e \in El, replace \in BOOLEAN : Insert(k, e, replace)
  \/ \E k \in Key : Get(k) \/ Erase(k) \/ EraseItr(k)
  \/ Clear
  \/ Cleanup

Spec == Init /\ [][Next]_vars

-----------------------------------------------------------------------------
TypeOK ==
  /\ omap.root \in Addr /\ omap.size \in 0 .. Cardinality(Key)
  /\ omap.red \in [Addr -> BOOLEAN] /\ omap.par \in [Addr -> Addr]
  /\ \A n \in Addr : omap.ch[n] \in [0 .. 1 -> Addr]
  /\ res \in El \cup {Null}

\* The keys of the tree in order, by walking it.
RECURSIVE InOrder(_, _)
InOrder(t, n) ==
  IF n = Sentinel THEN <<>>
  ELSE InOrder(t, t.ch[n][0]) \o <<t.key[n]>> \o InOrder(t, t.ch[n][1])

\* Black nodes on the way down the left edge.
RECURSIVE BlackHeight(_, _)
BlackHeight(t, n) ==
  IF n = Sentinel THEN 0
  ELSE BlackHeight(t, t.ch[n][0]) + Index(~t.red[n])

\* The tree is a red-black tree over exactly the nodes that are allocated: keys
\* ascend, every parent pointer is the inverse of a child pointer, no red node
\* has a red child, and both sides of a node have the same number of black
\* nodes.  Insertion and erasure repair it with rotations that pass through
\* states that are none of this (cc_omap_post_insert_fixup, _post_erase_fixup).
RedBlack ==
  LET t == omap
      keys == InOrder(t, t.root)
  IN  /\ Len(keys) = t.size /\ Cardinality(Live(t)) = t.size
      /\ \A i \in 1 .. Len(keys) - 1 : keys[i] < keys[i + 1]
      /\ t.root # Sentinel => t.par[t.root] = Sentinel /\ ~t.red[t.root]
      /\ \A n \in Live(t), d \in 0 .. 1 :
           LET c == t.ch[n][d] IN
           c # Sentinel => t.par[c] = n /\ ~(t.red[n] /\ t.red[c])
      /\ \A n \in Live(t) :
           BlackHeight(t, t.ch[n][0]) = BlackHeight(t, t.ch[n][1])

\* The shared sentinel is a constant object and no operation writes to it
\* (cc.h says erasure was changed so that it never does).
SentinelUntouched ==
  /\ ~omap.red[Sentinel] /\ omap.par[Sentinel] = Sentinel
  /\ \A d \in 0 .. 1 : omap.ch[Sentinel][d] = Sentinel

\* cc_omap_next from r_end visits every key once, ascending; cc_omap_prev from
\* end visits them descending.
RECURSIVE Visit(_, _, _)
Visit(t, i, dir) ==
  LET n == cc_omap_iterate(t, i, dir)
  IN  IF n = End(dir) THEN <<>> ELSE <<t.key[n]>> \o Visit(t, n, dir)
IterationOrdered ==
  LET keys == InOrder(omap, omap.root)
      up   == Visit(omap, End(0), 1)
      down == Visit(omap, End(1), 0)
  IN  /\ up = keys
      /\ down = [i \in 1 .. Len(keys) |-> keys[Len(keys) + 1 - i]]

\* The bounded searches find the nearest key on the wanted side.
BoundedSearchNearest ==
  \A k \in Key, dir \in 0 .. 1 :
    LET side == {j \in DOMAIN Contents(omap) : IF dir = 1 THEN j >= k ELSE j =< k}
        n    == cc_omap_bounded_first_or_last(omap, k, dir)
    IN  IF side = {} THEN n = End(dir)
        ELSE /\ n \in Live(omap) /\ omap.key[n] \in side
             /\ \A j \in side : IF dir = 1 THEN omap.key[n] =< j ELSE omap.key[n] >= j

\* The iterator erase_itr answers still points at the next key, although the
\* erasure may have moved that very node (it is the successor supplanted).
EraseItrAnswersNext ==
  itr.erased # Null =>
    LET above == {j \in DOMAIN Contents(omap) : j > itr.erased}
    IN  IF above = {} THEN itr.at = End(1)
        ELSE itr.at \in Live(omap) /\ omap.key[itr.at] \in above
             /\ \A j \in above : omap.key[itr.at] =< j

\* Clearing frees every node exactly once.
ClearFreesAll ==
  LET freed == cc_omap_clear(omap).freed
  IN  Len(freed) = Cardinality(Live(omap))
      /\ {freed[i] : i \in 1 .. Len(freed)} = Live(omap)

\* A clone is the same tree, or the allocation failed and every node already
\* copied was freed again.
CloneFaithful ==
  \A allocs \in 0 .. Cardinality(Key) + 2 :
    LET c == cc_omap_init_clone(omap, allocs)
    IN  IF c.ok
        THEN IF omap.size = 0 THEN c.t = cc_omap_placeholder ELSE c.t = omap
        ELSE {c.freed[i] : i \in 1 .. Len(c.freed)} = Live(c.t)
             /\ Len(c.freed) = Cardinality(Live(c.t))

\* The ordered map is a dictionary.
Dict == INSTANCE Dictionary WITH dict <- Contents(omap)
=============================================================================
