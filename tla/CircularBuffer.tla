--------------------------- MODULE CircularBuffer ---------------------------
(***************************************************************************)
(* The keyboard's buffer (circular_buffer.hpp as keyboard.cpp uses it):    *)
(* the keyboard interrupt pushes, with interrupts masked and so in one     *)
(* step, and the terminal pops with interrupts on, so a push may come      *)
(* between any two memory accesses of a pop.  There is no lock.            *)
(***************************************************************************)
EXTENDS Integers, Sequences

CONSTANTS
    Size,      \* slots (100 in keyboard.cpp)
    Keys,      \* key events
    value_type \* value_type(), what pop leaves in a slot; not a key event

ASSUME SizeAssumption == Size \in Nat /\ Size >= 2
ASSUME KeysAssumption == value_type \notin Keys

VARIABLES
    head,    \* head_, where the next pop reads
    tail,    \* tail_, where the next push writes
    buffer,  \* buffer_
    pc,      \* how far the pop in progress is
    slot,    \* the slot it reads
    value,   \* the local variable of pop
    result   \* what the last pop to give a slot back returns

vars == <<head, tail, buffer, pc, slot, value, result>>

Slots == 0..(Size - 1)
ProgramPoints == {"idle", "nonempty", "read", "cleared", "advanced"}

TypeOK ==
    /\ head \in Slots /\ tail \in Slots /\ slot \in Slots
    /\ buffer \in [Slots -> Keys \cup {value_type}]
    /\ pc \in ProgramPoints
    /\ value \in Keys \cup {value_type}
    /\ result \in Keys \cup {value_type}

increment(i) == (i + 1) % Size

empty == head = tail
FullWithoutWrap == tail + 1 = head   \* mutant: no modulo
full == increment(tail) = head

Init ==
    /\ head = 0 /\ tail = 0
    /\ buffer = [s \in Slots |-> value_type]
    /\ pc = "idle" /\ slot = 0 /\ value = value_type
    /\ result = value_type

\* on_isr_callback: push_back of the key that came.
Push(k) ==
    /\ IF full
         THEN UNCHANGED <<buffer, tail>>
         ELSE buffer' = [buffer EXCEPT ![tail] = k] /\ tail' = increment(tail)
    /\ UNCHANGED <<head, pc, slot, value, result>>

\* pop, of an empty buffer: the optional it returns is empty.
PopEmpty ==
    /\ pc = "idle" /\ empty
    /\ result' = value_type
    /\ UNCHANGED <<head, tail, buffer, pc, slot, value>>

PopTest ==
    /\ pc = "idle" /\ ~empty
    /\ pc' = "nonempty" /\ slot' = head
    /\ UNCHANGED <<head, tail, buffer, value, result>>

PopRead ==
    /\ pc = "nonempty"
    /\ pc' = "read" /\ value' = buffer[slot]
    /\ UNCHANGED <<head, tail, buffer, slot, result>>

\* The store to the slot and the store to head_ are ordered by nothing but the
\* source: the build may emit either first.
PopClearAtHead ==   \* mutant: indexes the slot by the head again
    /\ pc \in {"read", "advanced"}
    /\ buffer' = [buffer EXCEPT ![head] = value_type]
    /\ pc' = IF pc = "read" THEN "cleared" ELSE "idle"
    /\ UNCHANGED <<head, tail, slot, value, result>>
PopClear ==
    /\ pc \in {"read", "advanced"}
    /\ buffer' = [buffer EXCEPT ![slot] = value_type]
    /\ pc' = IF pc = "read" THEN "cleared" ELSE "idle"
    /\ UNCHANGED <<head, tail, slot, value, result>>

PopAdvance ==
    /\ pc \in {"read", "cleared"}
    /\ head' = increment(slot) /\ result' = value
    /\ pc' = IF pc = "read" THEN "advanced" ELSE "idle"
    /\ UNCHANGED <<tail, buffer, slot, value>>

Next ==
    \/ \E k \in Keys : Push(k)
    \/ PopEmpty \/ PopTest \/ PopRead \/ PopClear \/ PopAdvance

Spec == Init /\ [][Next]_vars

----------------------------------------------------------------------------
(* What holds of the buffer.                                               *)

\* The slot that is always left empty keeps the interrupt away from the slot
\* the pop in progress reads, clears and gives back, in whichever order.
WriterStaysAway == pc # "idle" => tail # slot \/ full

\* The slots that hold the key events, from the head to the tail.
Length == IF head <= tail THEN tail - head ELSE tail + Size - head
Slot(i) == IF head + i - 1 < Size THEN head + i - 1 ELSE head + i - 1 - Size

\* The key events that wait are the slots in between, but for the one the
\* reader has copied and may have cleared.
waiting ==
    [i \in 1..Length |->
        IF i = 1 /\ pc = "cleared" THEN value ELSE buffer[Slot(i)]]

\* The buffer is a queue of Size - 1 keys: each key is read once, in order,
\* whole, and dropped only when Size - 1 are waiting.
Queue == INSTANCE KeyQueue WITH queue <- waiting, Capacity <- Size - 1,
                                Nothing <- value_type
KeepsOrder == Queue!Spec

\* A key that waits is a key that came: no slot in between is an empty one.
WaitingAreKeys == \A i \in 1..Length : waiting[i] \in Keys

\* The inductive invariant.
IInv ==
    /\ TypeOK /\ WriterStaysAway /\ WaitingAreKeys
    /\ pc \in {"nonempty", "read", "cleared"} => slot = head /\ head # tail
    /\ pc \in {"read", "cleared", "advanced"} => value \in Keys
    /\ pc = "read" => value = buffer[slot]
    /\ pc = "advanced" => head = increment(slot)
=============================================================================
