----------------------------- MODULE TypeAhead -----------------------------
(***************************************************************************)
(* What the keyboard promises: what is typed is read in the order of the   *)
(* strokes, one character for each, however long the key was held.  A      *)
(* stroke is lost only while the driver's buffer is full.                  *)
(***************************************************************************)
EXTENDS Sequences, SequencesExt

CONSTANTS Characters, none

VARIABLES
    typed,   \* the characters typed and not yet read
    got,     \* what was read last, none if it is no character
    full     \* whether the buffer is full, whenever that is

vars == <<typed, got>>

Init == typed = <<>> /\ got = none

Stroke ==
    /\ typed' \in {Append(typed, ch) : ch \in Characters}
    /\ UNCHANGED got

Lose ==
    /\ full
    /\ typed' \in {RemoveAt(typed, i) : i \in DOMAIN typed}
    /\ UNCHANGED got

Read == typed # <<>> /\ got' = Head(typed) /\ typed' = Tail(typed)

ReadOther == got' = none /\ UNCHANGED typed

Next == Stroke \/ Lose \/ Read \/ ReadOther

Spec == Init /\ [][Next]_vars
=============================================================================
