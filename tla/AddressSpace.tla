---------------------------- MODULE AddressSpace ----------------------------
(***************************************************************************)
(* What the page tables promise: every address space is a flat map from    *)
(* virtual pages to a frame and the access that was asked for when the     *)
(* page was mapped.  A new space starts as the kernel's half of the first  *)
(* one; mapping a page in one space changes that page of that space only.  *)
(***************************************************************************)
EXTENDS Integers

CONSTANTS
  Spaces,       \* address spaces
  Pages,        \* virtual pages
  KernelPages,  \* those of the kernel's half
  Mappings,     \* frame and access of a mapped page
  Unmapped

VARIABLES
  mapping,      \* the mapping of each page in each space
  request       \* the last mapping asked for: a space, a page and an entry

Init ==
  /\ mapping = [s \in Spaces |-> [v \in Pages |-> Unmapped]]
  /\ request.entry = Unmapped

\* A page is mapped in a space, as asked.
Map ==
  /\ request'.entry \in Mappings
  /\ mapping' = [mapping EXCEPT
                   ![request'.space][request'.page] = request'.entry]

\* A space that has nothing mapped takes over the kernel's half of another.
Share(kernel, s) ==
  /\ mapping[s] = [v \in Pages |-> Unmapped]
  /\ mapping' = [mapping EXCEPT ![s] =
                   [v \in Pages |-> IF v \in KernelPages THEN mapping[kernel][v]
                                    ELSE Unmapped]]
  /\ UNCHANGED request

\* A creation fails, and its space is given up.
Drop(s) ==
  /\ mapping' = [mapping EXCEPT ![s] = [v \in Pages |-> Unmapped]]
  /\ UNCHANGED request

Next ==
  \/ Map
  \/ \E kernel, s \in Spaces : Share(kernel, s)
  \/ \E s \in Spaces : Drop(s)

Spec == Init /\ [][Next]_<<mapping, request>>
=============================================================================
