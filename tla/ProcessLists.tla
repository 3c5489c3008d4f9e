---------------------------- MODULE ProcessLists ----------------------------
(***************************************************************************)
(* The lists of processes the scheduler keeps, one for each state, and the *)
(* two forms of move_to_if (scheduler.cpp) that it moves processes with.   *)
(* A list is a sequence; hlib::list keeps it as a doubly linked list.      *)
(***************************************************************************)
EXTENDS Integers, FiniteSets, SequencesExt

(* The lists.  move_to_if walks one list, erases the processes that satisfy *)
(* a predicate and pushes each to the back or to the front of another one. *)

\* The elements of s that are in T, in the order they have in s.
Picked(s, T) ==
    LET I == {i \in DOMAIN s : s[i] \in T}
        rank(i) == Cardinality({j \in I : j <= i})
    IN  [k \in 1..Cardinality(I) |-> s[CHOOSE i \in I : rank(i) = k]]

\* The elements of s that erase_if leaves.
KeptAll(s, T) == s              \* mutant
Kept(s, T) == Picked(s, ToSet(s) \ T)

MoveToBack(ls, from, to, T) ==
    [ls EXCEPT ![from] = Kept(@, T), ![to] = @ \o Picked(ls[from], T)]

MoveNowhere(ls, from, to, T) == [ls EXCEPT ![from] = Kept(@, T)] \* mutant
MoveOver(ls, from, to, T) ==    \* mutant: push_front loses the rest of the list
    IF T = {} THEN ls
    ELSE [ls EXCEPT ![from] = Kept(@, T), ![to] = Reverse(Picked(ls[from], T))]

\* Pushed one by one, so the last one found is the first of the new list.
MoveToFront(ls, from, to, T) ==
    [ls EXCEPT ![from] = Kept(@, T),
               ![to] = Reverse(Picked(ls[from], T)) \o @]
=============================================================================
