------------------------------ MODULE KeySets -------------------------------
(***************************************************************************)
(* The set and the ordered set of libs/moon-ds (cc.h).  Both reuse the map *)
(* code with the key in the place of the element and an element size of    *)
(* zero, and hand it one destructor instead of two.  The same calls are    *)
(* made on one of each, and the answers are kept side by side.             *)
(***************************************************************************)
EXTENDS Integers, Sequences, FiniteSets, TLC

CONSTANTS Key, Null, Low, Frag, DispMask, LoadNum, LoadDen, MinBuckets, MaxCap

Hash == INSTANCE CcMap WITH El <- Key
Tree == INSTANCE OMap WITH El <- Key

VARIABLES set,   \* the hash set, a CcMap table
          oset,  \* the ordered set, an OMap tree
          res,   \* the two answers of the last call
          dtors  \* the keys each of the two last passed to the destructor

vars == <<set, oset, res, dtors>>

\* Memory does not run out here (CcMapOps and OMapOps let it).
Ample == 9

Members == {set.key[b] : b \in {i \in 0 .. set.cap - 1 : set.meta[i] # Hash!Empty}}
OMembers == {oset.key[n] : n \in {i \in Key : oset.key[i] # Null}}

Init ==
  /\ set = Hash!cc_map_placeholder /\ oset = Tree!cc_omap_placeholder
  /\ res = <<Null, Null>> /\ dtors = <<{}, {}>>

\* cc_set_insert / cc_oset_insert: replacing destroys the old key.
Insert(k, replace) ==
  LET Answers(s, o) == set' = s.m /\ oset' = o.t /\ res' = <<s.res, o.res>>
  IN  /\ Answers(Hash!cc_map_insert(set, k, k, replace, Ample),
                 Tree!cc_omap_insert(oset, k, k, replace, Ample))
      /\ dtors' = << IF replace /\ Hash!cc_map_find(set, k) # -1 THEN {k} ELSE {},
                     IF replace /\ Tree!cc_omap_get(oset, k) # Null THEN {k} ELSE {} >>

\* cc_set_get / cc_oset_get
Get(k) ==
  /\ res' = <<Hash!cc_map_get(set, k), Tree!cc_omap_get(oset, k)>>
  /\ dtors' = <<{}, {}>>
  /\ UNCHANGED <<set, oset>>

\* cc_set_erase / cc_oset_erase; the _itr forms erase the same bucket or node.
Erase(k) ==
  LET b == Hash!cc_map_find(set, k)
      n == Tree!cc_omap_find(oset, k).node
  IN  /\ set' = IF b = -1 THEN set ELSE Hash!cc_map_erase_raw(set, b).m
      /\ oset' = IF n = Tree!Sentinel THEN oset ELSE Tree!cc_omap_erase_raw(oset, n)
      /\ res' = << IF b = -1 THEN Null ELSE set.el[b],
                   IF n = Tree!Sentinel THEN Null ELSE oset.el[n] >>
      /\ dtors' = << IF b = -1 THEN {} ELSE {set.key[b]},
                     IF n = Tree!Sentinel THEN {} ELSE {oset.key[n]} >>

\* The objects cc_map_clear destroys: with one routine and no other, only the
\* calls of that routine are made.
Calls(pairs) == {d[2] : d \in {c \in pairs : c[1] = "el_dtor"}}

\* The keys of the nodes cc_omap_clear frees.
TreeCalls == LET f == Tree!cc_omap_clear(oset).freed IN {oset.key[f[i]] : i \in 1 .. Len(f)}

\* cc_set_clear / cc_oset_clear: "el_dtor" in the element's place, none for keys.
Clear ==
  LET c == Hash!cc_map_clear(set, "el_dtor", "none")
  IN  /\ set' = c.m /\ oset' = Tree!cc_omap_clear(oset).t
      /\ res' = <<Null, Null>> /\ dtors' = <<Calls(c.dtors), TreeCalls>>

\* Mutant: the destructor is passed as the map passes its key's.
Cleanup_WrongPlace ==
  /\ dtors' = << Calls(Hash!cc_map_cleanup(set, "none", "none").dtors), TreeCalls >>
  /\ set' = Hash!cc_map_placeholder /\ oset' = Tree!cc_omap_placeholder
  /\ res' = <<Null, Null>>

\* cc_set_cleanup / cc_oset_cleanup, and cc_init() again.
Cleanup ==
  /\ dtors' = << Calls(Hash!cc_map_cleanup(set, "el_dtor", "none").dtors), TreeCalls >>
  /\ set' = Hash!cc_map_placeholder /\ oset' = Tree!cc_omap_placeholder
  /\ res' = <<Null, Null>>

\* cc_set_reserve, cc_set_shrink and the two init_clone.
Reshape ==
  /\ \/ set' = Hash!cc_map_reserve(set, Cardinality(Key), Ample) /\ UNCHANGED oset
     \/ set' = Hash!cc_map_shrink(set, Ample) /\ UNCHANGED oset
     \/ set' = Hash!cc_map_init_clone(set) /\ oset' = Tree!cc_omap_init_clone(oset, Ample).t
  /\ res' = <<Null, Null>> /\ dtors' = <<{}, {}>>

Next ==
  \/ \E k \in Key : Get(k) \/ Erase(k) \/ \E replace \in BOOLEAN : Insert(k, replace)
  \/ Clear \/ Cleanup \/ Reshape

Spec == Init /\ [][Next]_vars

-----------------------------------------------------------------------------
\* The two containers hold the same keys after any calls and give the same
\* answers, and the answer to a lookup is the key itself.
SetsAgree ==
  /\ Members = OMembers
  /\ res[1] = res[2]
  /\ \A k \in Key : Hash!cc_map_get(set, k) = IF k \in Members THEN k ELSE Null

\* A key that leaves is destroyed, once, by the one destructor, also through
\* the cleanup that swaps the two destructors of a map.
LeavesDestroyed ==
  /\ Members \ Members' \subseteq dtors'[1]
  /\ dtors'[1] = dtors'[2]
=============================================================================
