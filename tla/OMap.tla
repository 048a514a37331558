-------------------------------- MODULE OMap --------------------------------
(***************************************************************************)
(* The ordered map of libs/moon-ds (cc.h): a red-black tree with parent    *)
(* pointers, two child pointers indexed by direction, and one constant     *)
(* sentinel node shared by every map.                                      *)
(*                                                                         *)
(* A tree is a record: the header ("hdr" says whether one is allocated,    *)
(* "size", "root") and one function per node field.  Addresses are only    *)
(* compared, so the node of key k is given the address k; which node holds *)
(* which key afterwards is up to the code.  "allocs" is the number of      *)
(* allocations that still succeed in a call.  The ordered set is the same  *)
(* code with keys for elements.                                            *)
(***************************************************************************)
EXTENDS Integers, Sequences, TLC

CONSTANTS Key,  \* the keys, positive integers, and the node addresses
          El,   \* the elements
          Null  \* the null pointer

\* The address of the sentinel.
Sentinel == 0
Addr == Key \cup {Sentinel}

Other(dir) == 1 - dir
Index(b) == IF b THEN 1 ELSE 0

\* The placeholder: no header, and the sentinel for a root.
cc_omap_placeholder ==
  [hdr  |-> FALSE, size |-> 0, root |-> Sentinel,
   red  |-> [n \in Addr |-> FALSE],
   par  |-> [n \in Addr |-> Sentinel],
   ch   |-> [n \in Addr |-> [d \in 0 .. 1 |-> Sentinel]],
   key  |-> [n \in Addr |-> Null],
   el   |-> [n \in Addr |-> Null]]

\* free(node): the fields of a freed node carry no information.
FreeNode(t, n) ==
  [t EXCEPT !.red[n] = FALSE, !.par[n] = Sentinel, !.key[n] = Null,
            !.ch[n] = [d \in 0 .. 1 |-> Sentinel], !.el[n] = Null]

\* The outermost node below n in direction d.
RECURSIVE Outermost(_, _, _)
Outermost(t, n, d) ==
  IF t.ch[n][d] = Sentinel THEN n ELSE Outermost(t, t.ch[n][d], d)

\* End(dir): the end (1) and r_end (0) iterators, kept apart from the nodes.
End(dir) == -1 - dir

cc_omap_first_or_last(t, dir) ==
  IF t.root = Sentinel THEN End(dir) ELSE Outermost(t, t.root, Other(dir))

RECURSIVE Climb(_, _, _)
Climb(t, n, dir) ==
  LET p == t.par[n] IN
  IF p = Sentinel THEN End(dir)
  ELSE IF t.ch[p][Other(dir)] = n THEN p ELSE Climb(t, p, dir)

\* cc_omap_next (dir = 1) and cc_omap_prev (dir = 0).
cc_omap_iterate(t, itr, dir) ==
  IF itr = End(Other(dir)) THEN cc_omap_first_or_last(t, dir)
  ELSE IF t.ch[itr][dir] # Sentinel
       THEN Outermost(t, t.ch[itr][dir], Other(dir))
       ELSE Climb(t, itr, dir)

\* cc_omap_rotate(): assignments in the order of the code.
cc_omap_rotate(t, node, dir) ==
  LET child == t.ch[node][Other(dir)]
      inner == t.ch[child][dir]
      p     == t.par[node]
      par1  == IF inner # Sentinel THEN [t.par EXCEPT ![inner] = node] ELSE t.par
      par2  == IF child # Sentinel THEN [par1 EXCEPT ![child] = p] ELSE par1
      ch1   == [t.ch EXCEPT ![node][Other(dir)] = inner]
      ch2   == IF p # Sentinel
               THEN [ch1 EXCEPT ![p][Index(node = ch1[p][1])] = child] ELSE ch1
  IN  [t EXCEPT
         !.par  = IF node # Sentinel THEN [par2 EXCEPT ![node] = child] ELSE par2,
         !.ch   = [ch2 EXCEPT ![child][dir] = node],
         !.root = IF p # Sentinel THEN @ ELSE child]

\* One turn of the loop of cc_omap_post_insert_fixup(): the tree and the node
\* the loop goes on with.
InsertFixupTurn(t, node) ==
  LET p     == t.par[node]
      g     == t.par[p]
      dir   == Index(p = t.ch[g][0])
      uncle == t.ch[g][dir]
  IN  IF t.red[uncle]
      THEN [t |-> [t EXCEPT !.red[p] = FALSE, !.red[uncle] = FALSE, !.red[g] = TRUE],
            node |-> g]
      ELSE LET recolor(t1, p1, g1) == [t1 EXCEPT !.red[p1] = FALSE, !.red[g1] = TRUE]
               raise(t1, n1) ==
                 [t |-> cc_omap_rotate(recolor(t1, t1.par[n1], t1.par[t1.par[n1]]),
                                       t1.par[t1.par[n1]], dir),
                  node |-> n1]
           IN  IF node = t.ch[p][dir] THEN raise(cc_omap_rotate(t, p, Other(dir)), p)
               ELSE raise(t, node)

RECURSIVE InsertFixupLoop(_, _)
InsertFixupLoop(t, node) ==
  IF node # t.root /\ t.red[t.par[node]]
  THEN LET goOn(s) == InsertFixupLoop(s.t, s.node) IN goOn(InsertFixupTurn(t, node))
  ELSE t

cc_omap_post_insert_fixup(t, node) ==
  LET blacken(s) == [s EXCEPT !.red[s.root] = FALSE] IN blacken(InsertFixupLoop(t, node))

\* The descent all lookups share: the node with the key (or the sentinel), the
\* last node passed, and the side taken there.
RECURSIVE Descend(_, _, _, _, _)
Descend(t, k, node, parent, side) ==
  IF node = Sentinel \/ t.key[node] = k
  THEN [node |-> node, parent |-> parent, side |-> side]
  ELSE LET s == Index(k > t.key[node]) IN Descend(t, k, t.ch[node][s], node, s)

cc_omap_find(t, k) == Descend(t, k, t.root, Sentinel, 0)

\* Mutant: the answer is the node instead of its element.
cc_omap_get_Node(t, k) ==
  LET n == cc_omap_find(t, k).node IN IF n = Sentinel THEN Null ELSE n

\* cc_omap_get(): the element, or Null.
cc_omap_get(t, k) ==
  LET n == cc_omap_find(t, k).node IN IF n = Sentinel THEN Null ELSE t.el[n]

\* cc_omap_insert(): the new tree and the answer.  A placeholder first gets a
\* header, and keeps it if the node cannot be allocated.
cc_omap_insert(t, k, e, replace, allocs) ==
  LET h    == [t EXCEPT !.hdr = TRUE]
      at   == cc_omap_find(t, k)
      left == IF t.hdr THEN allocs ELSE allocs - 1
      new  == [h EXCEPT
                 !.par[k] = at.parent, !.ch[k] = [d \in 0 .. 1 |-> Sentinel],
                 !.red[k] = TRUE, !.key[k] = k, !.el[k] = e,
                 !.root = IF at.parent = Sentinel THEN k ELSE @]
      linked == IF at.parent # Sentinel
                THEN [new EXCEPT !.ch[at.parent][at.side] = k] ELSE new
  IN  IF left < 0 THEN [t |-> t, res |-> Null]
      ELSE IF at.node # Sentinel
      THEN [t   |-> IF replace THEN [h EXCEPT !.el[at.node] = e] ELSE h,
            res |-> IF replace THEN e ELSE t.el[at.node]]
      ELSE IF left = 0 THEN [t |-> h, res |-> Null]
      ELSE [t   |-> [cc_omap_post_insert_fixup(linked, k) EXCEPT !.size = @ + 1],
            res |-> e]

\* cc_omap_bounded_first_or_last(): the walk towards the key, remembering the
\* last node on the wanted side.
RECURSIVE BoundedWalk(_, _, _, _, _)
BoundedWalk(t, k, dir, node, result) ==
  IF node = Sentinel THEN result
  ELSE IF t.key[node] = k THEN node
  ELSE LET above == t.key[node] > k
       IN  BoundedWalk(t, k, dir, t.ch[node][Index(~above)],
                       IF above = (dir = 1) THEN node ELSE result)

cc_omap_bounded_first_or_last(t, k, dir) ==
  BoundedWalk(t, k, dir, t.root, End(dir))

\* One turn of cc_omap_post_erase_fixup(): node is one black short.
EraseFixupTurn(t, node, parent) ==
  LET dir  == Index(node = t.ch[parent][0])
      redSibling(sib) ==
        IF t.red[sib]
        THEN cc_omap_rotate([t EXCEPT !.red[sib] = FALSE, !.red[parent] = TRUE], parent, Other(dir))
        ELSE t
      blackFar(s, sib) ==
        IF ~s.red[s.ch[sib][dir]]
        THEN cc_omap_rotate([s EXCEPT !.red[s.ch[sib][Other(dir)]] = FALSE, !.red[sib] = TRUE],
                            sib, dir)
        ELSE s
      recolor(s, sib) == [s EXCEPT !.red = [@ EXCEPT ![sib] = s.red[parent], ![parent] = FALSE,
                                                     ![s.ch[sib][dir]] = FALSE]]
      lastTurn(s) == cc_omap_rotate(recolor(s, s.ch[parent][dir]), parent, Other(dir))
      done(s) == [t |-> s, node |-> s.root, parent |-> Sentinel]
      turn(s, sib) ==
        IF ~s.red[s.ch[sib][0]] /\ ~s.red[s.ch[sib][1]]
        THEN [t |-> [s EXCEPT !.red[sib] = TRUE], node |-> parent, parent |-> s.par[parent]]
        ELSE done(lastTurn(blackFar(s, sib)))
      turnBelow(s) == turn(s, s.ch[parent][dir])
  IN  turnBelow(redSibling(t.ch[parent][dir]))

RECURSIVE EraseFixupLoop(_, _, _)
EraseFixupLoop(t, node, parent) ==
  IF node # t.root /\ ~t.red[node]
  THEN LET goOn(s) == EraseFixupLoop(s.t, s.node, s.parent)
       IN  goOn(EraseFixupTurn(t, node, parent))
  ELSE IF node # Sentinel THEN [t EXCEPT !.red[node] = FALSE] ELSE t

cc_omap_post_erase_fixup(t, node, parent) == EraseFixupLoop(t, node, parent)

\* The node is unlinked from where it stands, or its in-order successor is.
Detach(t, d) ==
  LET child == t.ch[d][Index(t.ch[d][0] = Sentinel)]
      p     == t.par[d]
      t1    == IF child # Sentinel THEN [t EXCEPT !.par[child] = p] ELSE t
      t2    == IF p # Sentinel
               THEN [t1 EXCEPT !.ch[p][Index(d = t1.ch[p][1])] = child]
               ELSE [t1 EXCEPT !.root = child]
  IN  IF t.red[d] THEN t2 ELSE cc_omap_post_erase_fixup(t2, child, p)

\* The detached successor d takes the place of node.
Supplant(t, node, d) ==
  LET p  == t.par[node]
      t1 == [t EXCEPT !.par[d] = p, !.ch[d] = t.ch[node]]
      t2 == IF p # Sentinel
            THEN [t1 EXCEPT !.ch[p][Index(t1.ch[p][1] = node)] = d]
            ELSE [t1 EXCEPT !.root = d]
      Adopt(s, c) == IF c # Sentinel THEN [s EXCEPT !.par[c] = d] ELSE s
  IN  [Adopt(Adopt(t2, t.ch[node][0]), t.ch[node][1]) EXCEPT !.red[d] = t.red[node]]

\* Mutant: the successor's pair is copied into the node, as most red-black
\* trees do, and the successor is freed.
cc_omap_erase_raw_CopiesPair(t, node) ==
  LET d  == IF t.ch[node][0] = Sentinel \/ t.ch[node][1] = Sentinel
            THEN node ELSE Outermost(t, t.ch[node][1], 0)
      t1 == Detach(t, d)
      t2 == [t1 EXCEPT !.key[node] = t.key[d], !.el[node] = t.el[d], !.size = @ - 1]
  IN  FreeNode(t2, d)

cc_omap_erase_raw(t, node) ==
  LET d  == IF t.ch[node][0] = Sentinel \/ t.ch[node][1] = Sentinel
            THEN node ELSE Outermost(t, t.ch[node][1], 0)
      replace(s) == IF d # node THEN Supplant(s, node, d) ELSE s
  IN  [FreeNode(replace(Detach(t, d)), node) EXCEPT !.size = @ - 1]

\* The walk of cc_omap_clear(): down while there are children, each link cut on
\* the way, then free and up.  "freed" is the sequence of nodes freed.
RECURSIVE ClearWalk(_, _, _)
ClearWalk(t, node, freed) ==
  IF node = Sentinel THEN [t |-> t, freed |-> freed]
  ELSE IF t.ch[node][0] # Sentinel
  THEN ClearWalk([t EXCEPT !.ch[node][0] = Sentinel], t.ch[node][0], freed)
  ELSE IF t.ch[node][1] # Sentinel
  THEN ClearWalk([t EXCEPT !.ch[node][1] = Sentinel], t.ch[node][1], freed)
  ELSE ClearWalk(FreeNode(t, node), t.par[node], Append(freed, node))

cc_omap_clear(t) ==
  LET emptied(w) ==
        [t |-> IF t.hdr THEN [w.t EXCEPT !.size = 0, !.root = Sentinel] ELSE w.t,
         freed |-> w.freed]
  IN  emptied(ClearWalk(t, t.root, <<>>))

\* The loop of cc_omap_init_clone(): walk the source and the copy in step, one
\* new node per missing child, back up when both children are there.
RECURSIVE CloneWalk(_, _, _, _)
CloneWalk(src, new, node, allocs) ==
  LET missing == {d \in 0 .. 1 : src.ch[node][d] # Sentinel /\ new.ch[node][d] = Sentinel}
      dir == IF 0 \in missing THEN 0 ELSE 1
      c   == src.ch[node][dir]
  IN  IF node = Sentinel
      THEN [t |-> [new EXCEPT !.size = src.size], ok |-> TRUE, freed |-> <<>>]
      ELSE IF missing = {} THEN CloneWalk(src, new, src.par[node], allocs)
      ELSE IF allocs = 0
      THEN [t |-> new, ok |-> FALSE, freed |-> cc_omap_clear(new).freed]
      ELSE CloneWalk(src, [new EXCEPT !.ch[node][dir] = c, !.par[c] = node,
                                      !.red[c] = src.red[c], !.key[c] = src.key[c],
                                      !.el[c] = src.el[c]],
                     c, allocs - 1)

\* cc_omap_init_clone(): the copy (in memory of its own), whether it succeeded,
\* and the nodes freed again when it did not.
cc_omap_init_clone(src, allocs) ==
  LET r   == src.root
      new == [cc_omap_placeholder EXCEPT
                !.hdr = TRUE, !.root = r, !.key[r] = src.key[r], !.el[r] = src.el[r]]
  IN  IF src.size = 0
      THEN [t |-> cc_omap_placeholder, ok |-> TRUE, freed |-> <<>>]
      ELSE IF allocs < 2
      THEN [t |-> cc_omap_placeholder, ok |-> FALSE, freed |-> <<>>]
      ELSE CloneWalk(src, new, r, allocs - 2)
=============================================================================
