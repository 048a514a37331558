------------------------------ MODULE Mailbox ------------------------------
(***************************************************************************)
(* What message passing promises: every process has a mailbox, messages    *)
(* come out of it unchanged, each one once, in the order they went in.     *)
(***************************************************************************)
EXTENDS Naturals, Sequences

CONSTANTS Owners, Messages, None

VARIABLES
  inbox,   \* messages waiting, per process
  taken    \* number of messages delivered and the last one, per process

Init ==
  /\ inbox = [p \in Owners |-> <<>>]
  /\ taken = [p \in Owners |-> [count |-> 0, last |-> None]]

Put(p, m) ==
  /\ UNCHANGED taken
  /\ inbox' = [inbox EXCEPT ![p] = Append(@, m)]

Take(p) ==
  /\ inbox[p] # <<>>
  /\ taken' = [taken EXCEPT ![p] = [count |-> taken[p].count + 1,
                                     last  |-> Head(inbox[p])]]
  /\ inbox' = [inbox EXCEPT ![p] = Tail(@)]

Next == \E p \in Owners : Take(p) \/ \E m \in Messages : Put(p, m)

Spec == Init /\ [][Next]_<<inbox, taken>>
=============================================================================
