------------------------------ MODULE KeyQueue ------------------------------
(***************************************************************************)
(* What the keyboard's buffer promises: key events are read in the order   *)
(* they came, each once, and one that comes when Capacity are waiting is   *)
(* dropped.                                                                *)
(***************************************************************************)
EXTENDS Naturals, Sequences

CONSTANTS Keys, Capacity, Nothing

VARIABLES
    queue,   \* the key events that wait to be read
    result   \* what the last pop returned, Nothing for an empty optional

Init == queue = <<>> /\ result = Nothing

Push(k) ==
    /\ queue' = IF Len(queue) < Capacity THEN Append(queue, k) ELSE queue
    /\ result' = result

Pop ==
    /\ queue # <<>>
    /\ queue' = Tail(queue) /\ result' = Head(queue)

PopEmpty == queue = <<>> /\ result' = Nothing /\ queue' = queue

Next == (\E k \in Keys : Push(k)) \/ Pop \/ PopEmpty

Spec == Init /\ [][Next]_<<queue, result>>
=============================================================================
