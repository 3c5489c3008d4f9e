---------------------------- MODULE MCLinkedList ----------------------------
(***************************************************************************)
(* Two state lists and the list of all processes.                          *)
(***************************************************************************)
EXTENDS LinkedList, TLC

\* A node's address and a process' pid do not matter.
Symmetry == Permutations(Nodes) \cup Permutations(Values)
=============================================================================
