-------------------------------- MODULE Heap --------------------------------
(***************************************************************************)
(* What the kernel's heap promises to the code that calls kheap::allocate  *)
(* and kheap::free: every allocation is an aligned range of bytes of its   *)
(* own, inside the heap's region, until it is given back.                  *)
(***************************************************************************)
EXTENDS Integers

CONSTANTS
    First, Limit,  \* the region is the addresses First..Limit-1
    Align,         \* every allocation starts at a multiple of Align
    Sizes          \* the sizes asked for

VARIABLE held      \* size of each allocation, by its address

\* The n bytes at a and the m bytes at b have none in common.
Apart(a, n, b, m) == a + n <= b \/ b + m <= a

Init == held = [a \in {} |-> 0]

Allocate(n) ==
    \E a \in First..Limit :
        /\ a % Align = 0 /\ a + n <= Limit
        /\ a \notin DOMAIN held
        /\ \A b \in DOMAIN held : Apart(a, n, b, held[b])
        /\ held' = [b \in DOMAIN held \cup {a} |-> IF b = a THEN n ELSE held[b]]

Free(a) == held' = [b \in DOMAIN held \ {a} |-> held[b]]

Next == (\E n \in Sizes : Allocate(n)) \/ (\E a \in DOMAIN held : Free(a))

Spec == Init /\ [][Next]_held
=============================================================================
