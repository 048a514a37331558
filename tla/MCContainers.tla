---------------------------- MODULE MCContainers ----------------------------
(***************************************************************************)
(* The containers of libs/moon-ds for TLC.  They do not interact, so each  *)
(* behaviour exercises one of them: "part" is chosen at the start and the  *)
(* others stay as they were initialised.                                   *)
(*                                                                         *)
(* "vector": one vector of up to three elements, which takes two rounds of *)
(* doubling.  "pair": two vectors copied from each other.  "tree": eight   *)
(* keys reach every case of the two fix-ups (an erasure repaired at two    *)
(* levels needs six nodes).  "omap" and "map": fewer keys and two elements *)
(* per key, for replacing them.  "table": keys 1, 2 and 3 share a home     *)
(* bucket in every table, 4 lives where their chain probes first, 5 joins  *)
(* them in a table of four buckets only; the smallest table has four       *)
(* buckets instead of eight so that five keys meet the load factor.        *)
(* "limit": the displacement limit is 3 (0x7FF in the code), so insertions *)
(* and evictions meet it.                                                  *)
(***************************************************************************)
EXTENDS Vec, Sequences, FiniteSetsExt, TLC

Key == 1 .. 5
Null == 0
Low == (1 :> 0 @@ 2 :> 0 @@ 3 :> 0 @@ 4 :> 1 @@ 5 :> 4)
SpreadLow == [Low EXCEPT ![3] = 8]
Frag == (1 :> 1 @@ 2 :> 1 @@ 3 :> 2 @@ 4 :> 1 @@ 5 :> 1)
FewKeys == {1, 2, 4}
FewLow == [k \in FewKeys |-> Low[k]]
FewFrag == [k \in FewKeys |-> Frag[k]]
DispMask == 15
LoadNum == 9
LoadDen == 10
MinBuckets == 4
MaxCap == 16
ScarceMemory == 0 .. 2
AmpleMemory == {9}
Sizes == {0, 3, 5}
MaxAllocs == 2
MaxNode == 4

VARIABLES
  part,                               \* the container this behaviour is about
  cntr, heap, vdoc, clean, failed,    \* VecStore
  omap, ores, itr,                    \* OMapOps
  map, mres, mdtors,                  \* CcMapOps
  set, oset, sres, sdtors,            \* KeySets
  prev, next, hdr, size, ldoc, ans    \* CcList

vecVars == <<cntr, heap, vdoc, clean, failed>>
omapVars == <<omap, ores, itr>>
mapVars == <<map, mres, mdtors>>
setVars == <<set, oset, sres, sdtors>>
listVars == <<prev, next, hdr, size, ldoc, ans>>
vars == <<part, vecVars, omapVars, mapVars, setVars, listVars>>

Vector == INSTANCE VecStore WITH Vectors <- {1}, Elements <- {"a", "b"}, MaxSize <- 3, doc <- vdoc
Pair == INSTANCE VecStore WITH Vectors <- {1, 2}, Elements <- {"a"}, MaxSize <- 2, doc <- vdoc
Tree == INSTANCE OMapOps WITH Key <- 1 .. 8, El <- {11}, res <- ores
OMapDict == INSTANCE OMapOps WITH Key <- 1 .. 4, El <- {11, 12}, res <- ores
Table == INSTANCE CcMapOps
           WITH El <- {11}, Budgets <- ScarceMemory, res <- mres, dtors <- mdtors
MapDict == INSTANCE CcMapOps
             WITH Key <- FewKeys, El <- {11, 12}, Low <- FewLow, Frag <- FewFrag,
                  Budgets <- ScarceMemory, res <- mres, dtors <- mdtors
Limit == INSTANCE CcMapOps
           WITH El <- {11}, Low <- SpreadLow, DispMask <- 3, MaxCap <- 32,
                Budgets <- AmpleMemory, res <- mres, dtors <- mdtors
Sets == INSTANCE KeySets WITH res <- sres, dtors <- sdtors
Lists == INSTANCE CcList WITH doc <- ldoc

ASSUME Table!HashAssumption /\ MapDict!HashAssumption /\ Limit!HashAssumption

\* The loop of mem.c from index i on: one element is copied per round.  Both
\* branches read and write the same array.
RECURSIVE CopyUp(_, _, _, _, _)
CopyUp(mem, dst, src, n, i) ==
  IF i < n
  THEN CopyUp([mem EXCEPT ![dst + i] = mem[src + i]], dst, src, n, i + 1)
  ELSE mem

RECURSIVE CopyDown(_, _, _, _, _)
CopyDown(mem, dst, src, n, i) ==
  IF i > n
  THEN CopyDown([mem EXCEPT ![dst + (n - i)] = mem[src - (n - i)]],
                dst, src, n, i - 1)
  ELSE mem

\* The closed form of memmove that the models use computes what the loops of
\* mem.c compute, for every array of four elements and every overlap in it.
ASSUME MemmoveIsTheLoop ==
  \A mem \in [0 .. 3 -> 1 .. 4], dst, src \in 0 .. 3 :
    \A n \in 0 .. 4 - Max({dst, src}) :
      memmove(mem, dst, src, n) =
        IF src < dst THEN CopyUp(mem, dst, src, n, 0)
                     ELSE CopyDown(mem, dst, src, n, n)
-----------------------------------------------------------------------------
Init ==
  /\ part \in {"vector", "pair", "tree", "omap", "table", "map", "limit", "sets", "lists"}
  /\ IF part = "pair" THEN Pair!Init ELSE Vector!Init
  /\ IF part = "omap" THEN OMapDict!Init ELSE Tree!Init
  /\ Table!Init /\ Sets!Init /\ Lists!Init

Next ==
  \/ /\ \/ part = "vector" /\ Vector!Next
        \/ part = "pair" /\ Pair!Next
     /\ UNCHANGED <<part, omapVars, mapVars, setVars, listVars>>
  \/ /\ \/ part = "tree" /\ Tree!Next
        \/ part = "omap" /\ OMapDict!Next
     /\ UNCHANGED <<part, vecVars, mapVars, setVars, listVars>>
  \/ /\ \/ part = "table" /\ Table!Next
        \/ part = "map" /\ MapDict!Next
        \/ part = "limit" /\ Limit!Next
     /\ UNCHANGED <<part, vecVars, omapVars, setVars, listVars>>
  \/ part = "sets" /\ Sets!Next /\ UNCHANGED <<part, vecVars, omapVars, mapVars, listVars>>
  \/ part = "lists" /\ Lists!Next /\ UNCHANGED <<part, vecVars, omapVars, mapVars, setVars>>

Spec == Init /\ [][Next]_vars
-----------------------------------------------------------------------------
\* Vectors (cc_vec_*), with allocations that fail or move the block: every block
\* belongs to one vector and none is lost, the elements have room, and below
\* the lowest index where elements were inserted or erased the content is the
\* documented one.
VectorsSound ==
  /\ part = "vector" => Vector!BlocksOwned /\ Vector!RoomForAll /\ Vector!StoreAgrees
  /\ part = "pair" => Pair!BlocksOwned /\ Pair!RoomForAll /\ Pair!StoreAgrees

\* The ordered map (cc_omap_*) is a red-black tree after any insertions and
\* erasures; iteration is ordered both ways, bounded searches find the nearest
\* key, erase_itr answers the next one, clear frees every node once, and a clone
\* is the same tree or has given all its nodes back.
TreeSound ==
  part = "tree" =>
    /\ Tree!RedBlack /\ Tree!SentinelUntouched
    /\ Tree!IterationOrdered /\ Tree!BoundedSearchNearest /\ Tree!EraseItrAnswersNext
    /\ Tree!ClearFreesAll /\ Tree!CloneFaithful

\* The ordered map is a dictionary, also when memory runs out, and no call moves
\* a pair from one node to another, so iterators stay valid.
OMapIsDictionary ==
  /\ part = "omap" => OMapDict!Dict!Init
  /\ [][/\ part = "omap" => [OMapDict!Dict!Next]_<<OMapDict!Contents(omap), ores>>
        /\ part = "tree" =>
             \A n \in Tree!Live(omap) : omap'.key[n] \in {omap.key[n], Null}]_omapVars

\* The hash map (cc_map_*): colliding keys, evictions, rehashes, erasures and
\* the displacement limit keep every pair on the chain of its home bucket, and
\* a loop that erases while it iterates meets every pair exactly once.
TableSound ==
  /\ part = "table" =>
       Table!TypeOK /\ Table!ChainsComplete /\ Table!IterationComplete /\ Table!SweepVisitsOnce
  /\ part = "limit" => Limit!ChainsComplete

\* The hash map is a dictionary, also when memory runs out, and at the limit;
\* a pair that leaves has its key and its element passed to a destructor.
MapIsDictionary ==
  /\ part \in {"map", "limit"} => MapDict!Dict!Init
  /\ [][/\ part = "map" => [MapDict!Dict!Next]_<<MapDict!Visible(map), mres>>
        /\ part = "limit" => [Limit!Dict!Next]_<<Limit!Visible(map), mres>>
        /\ part = "table" => Table!LeavesDestroyed]_mapVars

\* A set and an ordered set given the same calls hold the same keys and give the
\* same answers, and destroy a key that leaves with their one destructor.
SetsAgree ==
  /\ [](part = "sets" => Sets!SetsAgree)
  /\ [][part = "sets" => Sets!LeavesDestroyed]_setVars

\* Two lists that insert, erase, splice, clear, clone and clean up in any order
\* are the documented sequences both ways, and the constant placeholder they
\* share stays as it is.
ListsAgree ==
  part = "lists" => Lists!ListsAgree /\ Lists!EraseAnswersNext /\ Lists!PlaceholderStable
=============================================================================
