----------------------------- MODULE Dictionary -----------------------------
(***************************************************************************)
(* What the keyed containers of libs/moon-ds promise (the API comments of  *)
(* cc.h): a finite mapping from keys to elements, and an answer per call.  *)
(* A call that needs memory may fail; it then answers Null and the mapping *)
(* is as it was.  CcMap and OMap are shown to implement this.              *)
(***************************************************************************)
EXTENDS Integers, TLC

CONSTANTS Key, El, Null

VARIABLES dict, \* the mapping, a function from a subset of Key to El
          res   \* the answer of the last call: an element, or Null

dvars == <<dict, res>>

Init == dict = <<>> /\ res = Null

\* insert (replace) and get_or_insert (not replace).
Insert(k, e, replace) ==
  \/ /\ dict' = IF k \in DOMAIN dict /\ ~replace THEN dict ELSE (k :> e) @@ dict
     /\ res' = dict'[k]
  \/ /\ k \notin DOMAIN dict
     /\ UNCHANGED dict
     /\ res' = Null

Get(k) ==
  /\ UNCHANGED dict
  /\ res' = IF k \in DOMAIN dict THEN dict[k] ELSE Null

\* erase answers the element that was there, or Null when there was none.
Erase(k) ==
  /\ dict' = [j \in DOMAIN dict \ {k} |-> dict[j]]
  /\ res' = IF k \in DOMAIN dict THEN dict[k] ELSE Null

\* clear and cleanup.
Clear == dict' = <<>> /\ res' = Null

\* reserve, shrink and taking a clone in place of the source.
Reshape == UNCHANGED dict /\ res' = Null

Next ==
  \/ \E k \in Key, e \in El, replace \in BOOLEAN : Insert(k, e, replace)
  \/ \E k \in Key : Get(k) \/ Erase(k)
  \/ Clear
  \/ Reshape

Spec == Init /\ [][Next]_dvars
=============================================================================
