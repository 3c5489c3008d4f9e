----------------------------- MODULE LineEditor -----------------------------
(***************************************************************************)
(* What the shell promises of its input: a line of at most Limit           *)
(* characters that grows and shrinks at its end, and is run when it ends.  *)
(***************************************************************************)
EXTENDS Integers, Sequences

CONSTANTS
    Limit,      \* the longest line
    Letters,    \* the characters keys stand for
    Names,      \* the names of the commands, in the order they are searched
    nobody      \* no command has the name

VARIABLES line, ran    \* ran: which command the last Enter has run

vars == <<line, ran>>

Init == line = <<>> /\ ran = nobody

Add(ch) ==
    /\ line' = IF Len(line) < Limit THEN Append(line, ch) ELSE line
    /\ UNCHANGED ran

Drop ==
    /\ line # <<>>
    /\ line' = SubSeq(line, 1, Len(line) - 1)
    /\ UNCHANGED ran

Run ==
    /\ line' = <<>>
    /\ IF \E i \in DOMAIN Names : Names[i] = line
         THEN ran' \in {i \in DOMAIN Names :
                  Names[i] = line /\ \A j \in 1..(i - 1) : Names[j] # line}
         ELSE ran' = nobody

Next == (\E ch \in Letters : Add(ch)) \/ Drop \/ Run

Spec == Init /\ [][Next]_vars
=============================================================================
