------------------------------ MODULE Allocator ------------------------------
(***************************************************************************)
(* What an allocator promises, whatever its bookkeeping: the areas its     *)
(* callers hold never share memory, an area is handed out whole, and only  *)
(* the caller that gives an area back ends its life.                       *)
(***************************************************************************)
EXTENDS Integers

VARIABLE held \* the areas in use, each [at, len]

Apart(a, b) == a.at + a.len =< b.at \/ b.at + b.len =< a.at
Fits(a, areas) == a.len > 0 /\ \A b \in areas : Apart(a, b)

Init == held = {}

\* An area apart from all that are held.
Alloc == \E a \in held' : a \notin held /\ Fits(a, held) /\ held' = held \cup {a}
Free == \E a \in held : held' = held \ {a}

\* An area changes its size, its place or both; the others stay.
Move == \E a \in held : \E b \in held' : Fits(b, held \ {a}) /\ held' = (held \ {a}) \cup {b}

Next == Alloc \/ Free \/ Move
Spec == Init /\ [][Next]_held
=============================================================================
