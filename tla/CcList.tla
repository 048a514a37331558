------------------------------- MODULE CcList -------------------------------
(***************************************************************************)
(* The doubly linked list of libs/moon-ds (cc.h): two lists of a program,  *)
(* the nodes they share a heap with, and the constant placeholder whose    *)
(* r_end and end are the end iterators of every list, with or without a    *)
(* header of its own.                                                      *)
(*                                                                         *)
(* An element is identified with the node that carries it.  "doc" is the   *)
(* content the API comments promise.  Splicing an element before itself is *)
(* left out: the API does not say what it means.                           *)
(***************************************************************************)
EXTENDS Integers, Sequences, SequencesExt

CONSTANT MaxNode \* bound: nodes 1 .. MaxNode, and one list header per list

List == 1 .. 2
Node == 1 .. MaxNode
Null == 0
\* The placeholder's two ends, and those of the header of list l.
PREnd == -1
PEnd == -2
HREnd(l) == -1 - 2 * l
HEnd(l) == -2 - 2 * l
Ends == {PREnd, PEnd} \cup {HREnd(l) : l \in List} \cup {HEnd(l) : l \in List}
Addr == Node \cup Ends

VARIABLES
  prev, next, \* the links of every node header
  hdr,        \* which lists have an allocated header
  size,       \* cc_list_size
  doc,        \* documented content: a sequence of nodes
  ans         \* the answer of the last erase: the iterator, and the list

vars == <<prev, next, hdr, size, doc, ans>>
NoAns == [list |-> Null, at |-> Null, want |-> Null]

Init ==
  /\ prev = [a \in Addr |-> IF a \in {PREnd, PEnd} THEN PREnd ELSE Null]
  /\ next = [a \in Addr |-> IF a \in {PREnd, PEnd} THEN PEnd ELSE Null]
  /\ hdr = [l \in List |-> FALSE]
  /\ size = [l \in List |-> 0]
  /\ doc = [l \in List |-> <<>>]
  /\ ans = NoAns

\* The r_end and end the handle of list l points at.
REndOf(h, l) == IF h[l] THEN HREnd(l) ELSE PREnd
EndOf(h, l) == IF h[l] THEN HEnd(l) ELSE PEnd

\* cc_list_r_end, cc_list_end: through the header to the placeholder.
cc_list_r_end(s, l) == s.prev[REndOf(s.hdr, l)]
cc_list_end(s, l) == s.next[EndOf(s.hdr, l)]

\* cc_list_next and cc_list_prev: into the header at one end, out of it at the
\* other.
cc_list_next(s, l, i) ==
  LET n == IF i = cc_list_r_end(s, l) THEN s.next[REndOf(s.hdr, l)] ELSE s.next[i]
  IN  IF n = EndOf(s.hdr, l) THEN s.next[n] ELSE n
cc_list_prev(s, l, i) ==
  LET n == IF i = cc_list_end(s, l) THEN s.prev[EndOf(s.hdr, l)] ELSE s.prev[i]
  IN  IF n = REndOf(s.hdr, l) THEN s.prev[n] ELSE n
cc_list_first(s, l) == cc_list_next(s, l, REndOf(s.hdr, l))
cc_list_last(s, l) == cc_list_prev(s, l, EndOf(s.hdr, l))

\* The memory the operations work on.
Heap == [prev |-> prev, next |-> next, hdr |-> hdr, size |-> size]
Becomes(s) == prev' = s.prev /\ next' = s.next /\ hdr' = s.hdr /\ size' = s.size

\* cc_list_alloc_hdr()
cc_list_alloc_hdr(s, l) ==
  [s EXCEPT !.next[HREnd(l)] = HEnd(l), !.prev[HEnd(l)] = HREnd(l),
            !.prev[HREnd(l)] = PREnd, !.next[HEnd(l)] = PEnd,
            !.hdr[l] = TRUE, !.size[l] = 0]
WithHeader(s, l) == IF s.hdr[l] THEN s ELSE cc_list_alloc_hdr(s, l)

\* Mutant: the new node's predecessor is not told.
cc_list_attach_HalfLinked(s, l, itr, n) ==
  LET at == IF itr = cc_list_r_end(s, l) THEN HREnd(l)
            ELSE IF itr = cc_list_end(s, l) THEN HEnd(l) ELSE itr
  IN  [s EXCEPT !.next[n] = at, !.prev[n] = s.prev[at], !.prev[at] = n]

\* cc_list_attach(): before itr; end iterators become the header's own.
cc_list_attach(s, l, itr, n) ==
  LET at == IF itr = cc_list_r_end(s, l) THEN HREnd(l)
            ELSE IF itr = cc_list_end(s, l) THEN HEnd(l) ELSE itr
      s1 == [s EXCEPT !.next[n] = at, !.prev[n] = s.prev[at]]
      s2 == [s1 EXCEPT !.prev[at] = n]
  IN  [s2 EXCEPT !.next[s2.prev[n]] = n]

Unlink(s, n) ==
  LET s1 == [s EXCEPT !.next[s.prev[n]] = s.next[n]]
  IN  [s1 EXCEPT !.prev[s1.next[n]] = s1.prev[n]]
FreeNode(s, n) == [s EXCEPT !.next[n] = Null, !.prev[n] = Null]

Used(s) == {n \in Node : s.next[n] # Null}
FirstFree(s) == CHOOSE n \in Node \ Used(s) : \A m \in Node \ Used(s) : n =< m

\* The position of an iterator in the documented content.
Position(d, i) == IF \E p \in 1 .. Len(d) : d[p] = i
                  THEN CHOOSE p \in 1 .. Len(d) : d[p] = i ELSE Len(d) + 1

\* cc_list_insert() with enough memory: the new state and the new node.
cc_list_insert(s, l, itr) ==
  LET s1 == WithHeader(s, l)
      n  == FirstFree(s1)
  IN  [cc_list_attach(s1, l, itr, n) EXCEPT !.size[l] = @ + 1]

Insert(l, itr) ==
  /\ Used(Heap) # Node
  /\ Becomes(cc_list_insert(Heap, l, itr))
  /\ doc' = [doc EXCEPT ![l] = InsertAt(@, Position(@, itr), FirstFree(Heap))]
  /\ ans' = NoAns

\* The allocation of the header fails, or that of the node: a header allocated
\* just before is kept.
InsertFails(l) ==
  /\ \/ Becomes(Heap)
     \/ Becomes(WithHeader(Heap, l))
  /\ ans' = NoAns
  /\ UNCHANGED doc

\* cc_list_erase(): the new state, and the next iterator.
cc_list_erase(s, l, n) ==
  LET nx == s.next[n]
  IN  [s   |-> [FreeNode(Unlink(s, n), n) EXCEPT !.size[l] = @ - 1],
       itr |-> IF nx = EndOf(s.hdr, l) THEN s.next[nx] ELSE nx]

Erase(l, n) ==
  /\ n \in ToSet(doc[l])
  /\ LET r == cc_list_erase(Heap, l, n)
         p == Position(doc[l], n)
     IN  /\ Becomes(r.s)
         /\ ans' = [list |-> l, at |-> r.itr,
                    want |-> IF p = Len(doc[l]) THEN PEnd ELSE doc[l][p + 1]]
         /\ doc' = [doc EXCEPT ![l] = RemoveAt(@, p)]

\* cc_list_splice(): list l may be the source itself.
Splice(l, itr, src, n) ==
  /\ n \in ToSet(doc[src]) /\ itr # n
  /\ LET s1 == Unlink(WithHeader(Heap, l), n)
         s2 == cc_list_attach(s1, l, itr, n)
     IN  Becomes([s2 EXCEPT !.size = [[@ EXCEPT ![src] = @ - 1] EXCEPT ![l] = @ + 1]])
  /\ LET d == [doc EXCEPT ![src] = RemoveAt(@, Position(@, n))]
     IN  doc' = [d EXCEPT ![l] = InsertAt(@, Position(@, itr), n)]
  /\ ans' = NoAns

\* The loop of cc_list_clear(): erase the first element until there is none.
RECURSIVE cc_list_clear(_, _)
cc_list_clear(s, l) ==
  IF cc_list_first(s, l) = cc_list_end(s, l) THEN s
  ELSE cc_list_clear(cc_list_erase(s, l, cc_list_first(s, l)).s, l)

Clear(l) ==
  /\ Becomes(cc_list_clear(Heap, l))
  /\ doc' = [doc EXCEPT ![l] = <<>>]
  /\ ans' = NoAns

FreeHeader(s, l) ==
  [s EXCEPT !.hdr[l] = FALSE,
            !.next = [@ EXCEPT ![HREnd(l)] = Null, ![HEnd(l)] = Null],
            !.prev = [@ EXCEPT ![HREnd(l)] = Null, ![HEnd(l)] = Null]]

\* cc_list_cleanup(), and cc_init() again.
Cleanup(l) ==
  /\ Becomes(FreeHeader(cc_list_clear(Heap, l), l))
  /\ doc' = [doc EXCEPT ![l] = <<>>]
  /\ ans' = NoAns

\* The nodes of a list from an iterator on.
RECURSIVE Walk(_, _, _)
Walk(s, l, i) ==
  IF i = cc_list_end(s, l) THEN <<>> ELSE <<i>> \o Walk(s, l, cc_list_next(s, l, i))

\* cc_list_init_clone() of list src into the initialised list l: a push per
\* element; when memory runs out the nodes made so far and the header go.
RECURSIVE CloneLoop(_, _, _)
CloneLoop(s, l, left) ==
  IF left = 0 THEN [ok |-> TRUE, s |-> s]
  ELSE IF Used(s) = Node
  THEN LET made == ToSet(Walk(s, l, cc_list_first(s, l)))
           Gone(f) == [a \in Addr |-> IF a \in made THEN Null ELSE f[a]]
           freed == [s EXCEPT !.next = Gone(@), !.prev = Gone(@)]
       IN  [ok |-> FALSE, s |-> [FreeHeader(freed, l) EXCEPT !.size[l] = 0]]
  ELSE CloneLoop(cc_list_insert(s, l, cc_list_end(s, l)), l, left - 1)

Clone(l, src) ==
  /\ l # src /\ ~hdr[l]
  /\ LET c == CloneLoop(Heap, l, Len(Walk(Heap, src, cc_list_first(Heap, src))))
     IN  /\ Becomes(c.s)
         /\ doc' = IF c.ok
                   THEN [doc EXCEPT ![l] = Walk(c.s, l, cc_list_first(c.s, l))]
                   ELSE doc
  /\ ans' = NoAns

\* Two lists sharing the nodes, with every call the API allows on them.
Next ==
  \/ \E l \in List, itr \in Node \cup {PEnd} :
       (itr = PEnd \/ itr \in ToSet(doc[l])) /\ Insert(l, itr)
  \/ \E l \in List : InsertFails(l) \/ Clear(l) \/ Cleanup(l)
  \/ \E l \in List, n \in Node : Erase(l, n)
  \/ \E l, src \in List, n \in Node, itr \in Node \cup {PEnd} :
       (itr = PEnd \/ itr \in ToSet(doc[l])) /\ Splice(l, itr, src, n)
  \/ \E l, src \in List : Clone(l, src)

Spec == Init /\ [][Next]_vars

-----------------------------------------------------------------------------
Backwards(s, l) ==
  LET RECURSIVE Back(_)
      Back(i) == IF i = cc_list_r_end(s, l) THEN <<>> ELSE <<i>> \o Back(cc_list_prev(s, l, i))
  IN  Back(cc_list_last(s, l))

\* Each list, walked with first and next, is the documented content; walked with
\* last and prev it is the reverse; the size is its length; and no node is on
\* two lists or on none (lists exchange nodes by splicing, and a clone that ran
\* out of memory gives its nodes back).
ListsAgree ==
  /\ \A l \in List :
       /\ Walk(Heap, l, cc_list_first(Heap, l)) = doc[l]
       /\ Backwards(Heap, l) = Reverse(doc[l])
       /\ size[l] = Len(doc[l])
  /\ ToSet(doc[1]) \cap ToSet(doc[2]) = {}
  /\ Used(Heap) = ToSet(doc[1]) \cup ToSet(doc[2])

\* The iterator erase answers is the following element, and after the last one
\* it is the end iterator the program compares with.
EraseAnswersNext == ans.list # Null => ans.at = ans.want

\* cc.h: "cc_list_hdr( cntr )->r_end.prev always produces the associated
\* placeholder's r_end, and ditto for cc_list_hdr( cntr )->end.next", and the
\* placeholder itself is a constant.
PlaceholderStable ==
  /\ \A l \in List : cc_list_r_end(Heap, l) = PREnd /\ cc_list_end(Heap, l) = PEnd
  /\ next[PREnd] = PEnd /\ prev[PEnd] = PREnd
=============================================================================

