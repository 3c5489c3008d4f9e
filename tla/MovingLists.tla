---------------------------- MODULE MovingLists ----------------------------
(***************************************************************************)
(* What the scheduler takes hlib::list for: a sequence per list, changed   *)
(* at its ends or by a move_to_if of ProcessLists.  Scheduler works on     *)
(* these sequences; LinkedList shows that the nodes behave like them.      *)
(***************************************************************************)
EXTENDS ProcessLists

CONSTANTS
    Lists,     \* the lists
    Values     \* what they hold: processes

VARIABLES
    lists,
    moving     \* an erase_if is running: nothing else happens meanwhile

vars == <<lists, moving>>

Init == lists = [l \in Lists |-> <<>>] /\ moving = FALSE

PushBack(l, v) == lists' = [lists EXCEPT ![l] = Append(@, v)]

PopFront(l) == lists[l] # <<>> /\ lists' = [lists EXCEPT ![l] = Tail(@)]

\* erase_if of a list that pushes what it erases to no list.
Erase(l, picks) == lists' = [lists EXCEPT ![l] = Kept(@, picks)]

\* move_to_back_if or move_to_front_if.
Move(from, to, picks) ==
    \/ lists' = MoveToBack(lists, from, to, picks)
    \/ lists' = MoveToFront(lists, from, to, picks)

Moved == moving /\ moving' = FALSE /\ UNCHANGED lists

Next ==
    \/ Moved
    \/ \E l \in Lists :
        /\ ~moving /\ UNCHANGED moving
        /\ PopFront(l) \/ \E v \in Values : PushBack(l, v)
    \/ \E l \in Lists, picks \in SUBSET Values :
        /\ ~moving /\ moving' = TRUE
        /\ \/ Erase(l, picks)
           \/ \E to \in Lists \ {l} : Move(l, to, picks)

Spec == Init /\ [][Next]_vars
=============================================================================
