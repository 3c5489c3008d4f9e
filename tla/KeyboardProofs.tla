--------------------------- MODULE KeyboardProofs ---------------------------
(***************************************************************************)
(* Proofs that the keyboard's buffer is a queue for every number of slots, *)
(* although the interrupt pushes in the middle of a pop; and that, with    *)
(* the keyboard in front of it, it stays one, the controller is never left *)
(* with a scan code that nobody fetches, and what is typed is read.        *)
(***************************************************************************)
EXTENDS Keyboard, SequenceTheorems, WellFoundedInduction, TLAPS

----------------------------------------------------------------------------
(* Counting modulo Size.                                                   *)

LEMMA Increment ==
  ASSUME NEW i \in Slots
  PROVE  increment(i) = IF i + 1 = Size THEN 0 ELSE i + 1
PROOF
<1>0. Size \in Nat /\ Size >= 2 /\ i \in Nat /\ i < Size
  BY SizeAssumption DEF Slots
<1>1. CASE i + 1 = Size
  <2>1. Size % Size = 0
    BY <1>0
  <2> QED BY <1>1, <2>1 DEF increment
<1>2. CASE i + 1 # Size
  <2>1. i + 1 \in 0..(Size - 1)
    BY <1>0, <1>2
  <2>2. (i + 1) % Size = i + 1
    BY <1>0, <2>1
  <2> QED BY <1>2, <2>2 DEF increment
<1> QED BY <1>1, <1>2

LEMMA IncrementIn == ASSUME NEW i \in Slots PROVE increment(i) \in Slots
BY Increment, SizeAssumption DEF Slots

\* How many keys wait, and where the buffer is full or empty.
LEMMA LengthFacts ==
  ASSUME head \in Slots, tail \in Slots
  PROVE  /\ Length \in 0..(Size - 1) /\ Size \in Nat /\ Size >= 2
         /\ head \in Int /\ tail \in Int
         /\ full <=> Length = Size - 1
         /\ empty <=> Length = 0
PROOF
<1>1. increment(tail) = IF tail + 1 = Size THEN 0 ELSE tail + 1
  BY Increment
<1> QED BY <1>1, SizeAssumption DEF Length, full, empty, Slots

\* Where the i-th of them is.
LEMMA SlotFacts ==
  ASSUME head \in Slots, tail \in Slots
  PROVE  /\ \A i \in 1..Size : Slot(i) \in Slots
         /\ \A i, j \in 1..Size : Slot(i) = Slot(j) => i = j
         /\ Slot(1) = head /\ Slot(Length + 1) = tail
         /\ increment(head) = Slot(2)
PROOF
<1>1. increment(head) = IF head + 1 = Size THEN 0 ELSE head + 1
  BY Increment
<1> QED BY <1>1, SizeAssumption DEF Length, Slot, Slots

----------------------------------------------------------------------------
(* The queue that the slots stand for.                                     *)

LEMMA WaitingSeq ==
  ASSUME IInv
  PROVE  /\ waiting \in Seq(Keys) /\ Len(waiting) = Length /\ Length \in Nat
         /\ \A i \in 1..Length :
               waiting[i] = IF i = 1 /\ pc = "cleared" THEN value ELSE buffer[Slot(i)]
         /\ Length # 0 /\ pc \in {"read", "cleared"} => waiting[1] = value
PROOF
<1>1. head \in Slots /\ tail \in Slots
  BY DEF IInv, TypeOK
<1>2. Length \in Nat
  BY <1>1, LengthFacts
<1>3. \A i \in 1..Length : waiting[i] \in Keys
  BY DEF IInv, WaitingAreKeys
<1>4. waiting = [i \in 1..Length |-> waiting[i]]
  BY DEF waiting
<1>5. waiting \in Seq(Keys) /\ Len(waiting) = Length
  BY <1>2, <1>3, <1>4
<1>6. \A i \in 1..Length :
         waiting[i] = IF i = 1 /\ pc = "cleared" THEN value ELSE buffer[Slot(i)]
  BY DEF waiting
<1>7. ASSUME Length # 0, pc \in {"read", "cleared"} PROVE waiting[1] = value
  <2>1. 1 \in 1..Length
    BY <1>2, <1>7
  <2>2. pc = "read" => value = buffer[slot] /\ slot = head
    BY DEF IInv
  <2>3. Slot(1) = head
    BY <1>1, SlotFacts
  <2> QED BY <1>6, <1>7, <2>1, <2>2, <2>3
<1> QED BY <1>2, <1>5, <1>6, <1>7

LEMMA InitIInv == Init => IInv
PROOF
<1> SUFFICES ASSUME Init PROVE IInv
  OBVIOUS
<1>1. TypeOK
  BY SizeAssumption DEF Init, TypeOK, Slots, ProgramPoints
<1>2. Length = 0
  BY SizeAssumption DEF Init, Length
<1>3. WriterStaysAway /\ WaitingAreKeys
  BY <1>2 DEF Init, WriterStaysAway, WaitingAreKeys
<1> QED BY <1>1, <1>3 DEF Init, IInv

\* A sequence is given by its elements.
LEMMA SameElements ==
  ASSUME NEW X, NEW s \in Seq(X), NEW n \in Nat, NEW t,
         t = [i \in 1..n |-> t[i]], n = Len(s), \A i \in 1..n : t[i] = s[i]
  PROVE  t = s
BY SMT

----------------------------------------------------------------------------
(* One lemma for each step.                                                *)

LEMMA PushSteps ==
  ASSUME IInv, NEW k \in Keys, Push(k)
  PROVE  /\ IInv' /\ result' = result
         /\ waiting' = IF Len(waiting) < Size - 1 THEN Append(waiting, k) ELSE waiting
PROOF
<1>0. /\ head \in Slots /\ tail \in Slots /\ slot \in Slots
      /\ buffer \in [Slots -> Keys \cup {value_type}]
  BY DEF IInv, TypeOK
<1>1. /\ Length \in 0..(Size - 1) /\ Size \in Nat /\ Size >= 2
      /\ head \in Int /\ tail \in Int
      /\ full <=> Length = Size - 1
      /\ empty <=> Length = 0
  BY <1>0, LengthFacts
<1>2. /\ waiting \in Seq(Keys) /\ Len(waiting) = Length
      /\ \A i \in 1..Length :
            waiting[i] = IF i = 1 /\ pc = "cleared" THEN value ELSE buffer[Slot(i)]
  BY WaitingSeq
<1>3. /\ head' = head /\ pc' = pc /\ slot' = slot /\ value' = value /\ result' = result
  BY DEF Push
<1>4. CASE full
  <2>1. buffer' = buffer /\ tail' = tail
    BY <1>4 DEF Push
  <2>2. Len(waiting) = Size - 1
    BY <1>1, <1>2, <1>4
  <2>3. Length' = Length /\ \A i : Slot(i)' = Slot(i)
    BY <2>1, <1>3 DEF Length, Slot
  <2>4. waiting' = waiting
    BY <2>1, <2>3, <1>3 DEF waiting
  <2>5. IInv'
    BY <2>1, <2>3, <2>4, <1>3
       DEF IInv, TypeOK, WriterStaysAway, WaitingAreKeys, full
  <2> QED BY <2>2, <2>4, <2>5, <1>3, <1>1
<1>5. CASE ~full
  <2>1. buffer' = [buffer EXCEPT ![tail] = k] /\ tail' = increment(tail)
    BY <1>5 DEF Push
  <2>2. Length < Size - 1
    BY <1>1, <1>5
  <2>3. tail' \in Slots /\ tail' # head
    BY <2>1, <1>0, <1>5, IncrementIn DEF full
  <2>4. Length' = Length + 1
    <3>1. tail' = IF tail + 1 = Size THEN 0 ELSE tail + 1
      BY <2>1, <1>0, Increment
    <3> QED BY <3>1, <2>3, <1>0, <1>1, <1>3 DEF Length, Slots
  <2>5. \A i : Slot(i)' = Slot(i)
    BY <1>3 DEF Slot
  <2>6. /\ buffer'[tail] = k
        /\ \A i \in 1..Length : buffer'[Slot(i)] = buffer[Slot(i)]
        /\ Slot(Length + 1) = tail
    <3>1. /\ \A i \in 1..Size : Slot(i) \in Slots
          /\ \A i, j \in 1..Size : Slot(i) = Slot(j) => i = j
          /\ Slot(Length + 1) = tail
      BY <1>0, SlotFacts
    <3>2. \A i \in 1..Length : Slot(i) # tail /\ Slot(i) \in Slots
      BY <3>1, <1>1
    <3> QED BY <3>1, <3>2, <2>1, <1>0
  <2>7. pc = "cleared" => Length # 0
    BY <1>1 DEF IInv, empty
  <2>8. waiting' = [i \in 1..(Length + 1) |->
                       IF i = 1 /\ pc = "cleared" THEN value ELSE buffer'[Slot(i)]]
    BY <2>4, <2>5, <1>3 DEF waiting
  <2>9. waiting' = Append(waiting, k)
    <3>1. \A i \in 1..Length : waiting'[i] = waiting[i]
      BY <2>6, <2>8, <1>1, <1>2
    <3>2. waiting'[Length + 1] = k
      BY <2>6, <2>7, <2>8, <1>1
    <3>3. waiting' = [i \in 1..(Length + 1) |-> waiting'[i]]
      BY <2>8
    <3>4. /\ Append(waiting, k) \in Seq(Keys) /\ Len(Append(waiting, k)) = Length + 1
          /\ \A i \in 1..Length : Append(waiting, k)[i] = waiting[i]
          /\ Append(waiting, k)[Length + 1] = k
      BY <1>1, <1>2
    <3>5. \A i \in 1..(Length + 1) : waiting'[i] = Append(waiting, k)[i]
      BY <3>1, <3>2, <3>4, <1>1
    <3> QED BY <3>3, <3>4, <3>5, <1>1, SameElements
  <2>10. IInv'
    <3>1. TypeOK'
      BY <2>1, <2>3, <1>3, <1>0 DEF IInv, TypeOK
    <3>2. WriterStaysAway'
      <4>1. pc # "idle" => slot = head \/ head = increment(slot)
        BY DEF IInv, TypeOK, ProgramPoints
      <4> QED BY <4>1, <2>3, <1>3 DEF WriterStaysAway, full
    <3>3. WaitingAreKeys'
      <4>1. waiting' \in Seq(Keys) /\ Len(waiting') = Length'
        BY <2>4, <2>9, <1>1, <1>2
      <4> HIDE DEF waiting
      <4>2. \A i \in 1..Len(waiting') : waiting'[i] \in Keys
        BY <4>1
      <4> QED BY <4>1, <4>2 DEF WaitingAreKeys
    <3>4. pc = "read" => slot # tail
      BY DEF IInv
    <3>5. pc = "read" => buffer'[slot] = buffer[slot]
      BY <3>4, <2>1, <1>0
    <3> QED BY <3>1, <3>2, <3>3, <3>5, <2>3, <1>3 DEF IInv
  <2> QED BY <2>2, <2>9, <2>10, <1>2, <1>3
<1> QED BY <1>4, <1>5

LEMMA PopEmptySteps ==
  ASSUME IInv, PopEmpty
  PROVE  IInv' /\ waiting' = waiting /\ waiting = <<>> /\ result' = value_type
PROOF
<1>1. /\ UNCHANGED <<head, tail, buffer, pc, slot, value>> /\ result' = value_type /\ empty
  BY DEF PopEmpty
<1>2. Length' = Length /\ waiting' = waiting
  BY <1>1 DEF Length, Slot, waiting
<1>3. IInv'
  BY <1>1, <1>2 DEF IInv, TypeOK, WriterStaysAway, WaitingAreKeys, full
<1>4. Length = 0
  BY <1>1, LengthFacts DEF IInv, TypeOK
<1>5. waiting \in Seq(Keys) /\ Len(waiting) = 0
  BY <1>4, WaitingSeq
<1> QED BY <1>1, <1>2, <1>3, <1>5

LEMMA PopTestSteps ==
  ASSUME IInv, PopTest PROVE IInv' /\ waiting' = waiting /\ result' = result
PROOF
<1>1. /\ UNCHANGED <<head, tail, buffer, value, result>>
      /\ pc = "idle" /\ pc' = "nonempty" /\ slot' = head /\ head # tail
  BY DEF PopTest, empty
<1>2. Length' = Length /\ waiting' = waiting
  BY <1>1 DEF Length, Slot, waiting
<1>3. IInv'
  BY <1>1, <1>2 DEF IInv, TypeOK, ProgramPoints, WriterStaysAway, WaitingAreKeys, full
<1> QED BY <1>1, <1>2, <1>3

LEMMA PopReadSteps ==
  ASSUME IInv, PopRead PROVE IInv' /\ waiting' = waiting /\ result' = result
PROOF
<1>1. /\ UNCHANGED <<head, tail, buffer, slot, result>>
      /\ pc = "nonempty" /\ pc' = "read" /\ value' = buffer[slot]
  BY DEF PopRead
<1>2. Length' = Length /\ waiting' = waiting
  BY <1>1 DEF Length, Slot, waiting
<1>3. buffer[slot] \in Keys
  <2>1. head \in Slots /\ tail \in Slots /\ slot = head /\ head # tail
    BY <1>1 DEF IInv, TypeOK
  <2>2. 1 \in 1..Length /\ Slot(1) = slot
    BY <2>1, LengthFacts, SlotFacts DEF empty
  <2>3. waiting[1] = buffer[slot]
    BY <2>2, <1>1, WaitingSeq
  <2> QED BY <2>2, <2>3 DEF IInv, WaitingAreKeys
<1>4. IInv'
  BY <1>1, <1>2, <1>3 DEF IInv, TypeOK, ProgramPoints, WriterStaysAway, WaitingAreKeys, full
<1> QED BY <1>1, <1>2, <1>4

\* Whatever the order of its two stores, clearing the slot takes no key away.
LEMMA PopClearSteps ==
  ASSUME IInv, PopClear PROVE IInv' /\ waiting' = waiting /\ result' = result
PROOF
<1>0. /\ head \in Slots /\ tail \in Slots /\ slot \in Slots
      /\ buffer \in [Slots -> Keys \cup {value_type}]
  BY DEF IInv, TypeOK
<1>1. /\ UNCHANGED <<head, tail, slot, value, result>>
      /\ pc \in {"read", "advanced"}
      /\ buffer' = [buffer EXCEPT ![slot] = value_type]
      /\ pc' = IF pc = "read" THEN "cleared" ELSE "idle"
  BY DEF PopClear
<1>2. /\ Length \in 0..(Size - 1) /\ Size \in Nat /\ Size >= 2
      /\ full <=> Length = Size - 1
      /\ empty <=> Length = 0
  BY <1>0, LengthFacts
<1>3. /\ \A i \in 1..Size : Slot(i) \in Slots
      /\ \A i, j \in 1..Size : Slot(i) = Slot(j) => i = j
      /\ Slot(1) = head /\ increment(head) = Slot(2)
  BY <1>0, SlotFacts
<1>4. Length' = Length /\ \A i : Slot(i)' = Slot(i)
  BY <1>1 DEF Length, Slot
<1>5. \A i \in 1..Length :
         waiting[i] = IF i = 1 /\ pc = "cleared" THEN value ELSE buffer[Slot(i)]
  BY WaitingSeq
<1>6. \A i \in 1..Length : i # 1 \/ pc = "advanced" => Slot(i) # slot
  <2>1. CASE pc = "read"
    <3>1. slot = Slot(1)
      BY <2>1, <1>3 DEF IInv
    <3> QED BY <3>1, <2>1, <1>2, <1>3
  <2>2. CASE pc = "advanced"
    <3>1. head = increment(slot)
      BY <2>2 DEF IInv
    <3>2. slot # tail \/ Length = Size - 1
      BY <2>2, <1>2 DEF IInv, WriterStaysAway
    <3>3. head = IF slot + 1 = Size THEN 0 ELSE slot + 1
      BY <3>1, <1>0, Increment
    <3>4. slot = Slot(Size)
      BY <3>3, <1>0, <1>2 DEF Slot, Slots
    <3> QED BY <3>4, <1>2, <1>3
  <2> QED BY <2>1, <2>2, <1>1
<1>7. \A i \in 1..Length :
         (IF i = 1 /\ pc' = "cleared" THEN value ELSE buffer'[Slot(i)]) = waiting[i]
  <2> SUFFICES ASSUME NEW i \in 1..Length
               PROVE (IF i = 1 /\ pc' = "cleared" THEN value ELSE buffer'[Slot(i)]) = waiting[i]
    OBVIOUS
  <2>1. CASE i = 1 /\ pc = "read"
    <3>1. waiting[1] = value
      BY <2>1, <1>2, WaitingSeq
    <3> QED BY <2>1, <3>1, <1>1
  <2>2. CASE i # 1 \/ pc = "advanced"
    <3>1. Slot(i) # slot /\ Slot(i) \in Slots
      BY <2>2, <1>2, <1>3, <1>6
    <3>2. buffer'[Slot(i)] = buffer[Slot(i)]
      BY <3>1, <1>0, <1>1
    <3> QED BY <2>2, <3>2, <1>1, <1>5
  <2> QED BY <2>1, <2>2, <1>1
<1>8. waiting' = waiting
  <2>1. waiting' = [i \in 1..Length |->
                       IF i = 1 /\ pc' = "cleared" THEN value ELSE buffer'[Slot(i)]]
    BY <1>1, <1>4 DEF waiting
  <2>2. waiting = [i \in 1..Length |-> waiting[i]]
    BY DEF waiting
  <2> HIDE DEF waiting
  <2> QED BY <2>1, <2>2, <1>7
<1>9. IInv'
  <2>1. buffer' \in [Slots -> Keys \cup {value_type}]
    BY <1>0, <1>1
  <2>2. TypeOK'
    BY <2>1, <1>1 DEF IInv, TypeOK, ProgramPoints
  <2>3. WriterStaysAway'
    BY <1>1 DEF IInv, WriterStaysAway, full
  <2>4. WaitingAreKeys'
    BY <1>4, <1>8 DEF IInv, WaitingAreKeys
  <2> QED BY <2>2, <2>3, <2>4, <1>1 DEF IInv
<1> QED BY <1>1, <1>8, <1>9

\* Giving the slot back takes the first key, the one that is returned.
LEMMA PopAdvanceSteps ==
  ASSUME IInv, PopAdvance
  PROVE  /\ IInv' /\ waiting # <<>>
         /\ waiting' = Tail(waiting) /\ result' = Head(waiting)
PROOF
<1>0. /\ head \in Slots /\ tail \in Slots /\ slot \in Slots /\ slot = head /\ head # tail
      /\ buffer \in [Slots -> Keys \cup {value_type}] /\ value \in Keys
  BY DEF IInv, TypeOK, PopAdvance
<1>1. /\ UNCHANGED <<tail, buffer, slot, value>>
      /\ pc \in {"read", "cleared"}
      /\ head' = increment(head) /\ result' = value
      /\ pc' = IF pc = "read" THEN "advanced" ELSE "idle"
  BY <1>0 DEF PopAdvance
<1>2. /\ Length \in 0..(Size - 1) /\ Size \in Nat /\ Size >= 2 /\ Length # 0
      /\ head \in Int /\ tail \in Int
  BY <1>0, LengthFacts DEF empty
<1>3. head' = IF head + 1 = Size THEN 0 ELSE head + 1
  BY <1>0, <1>1, Increment
<1>4. head' \in Slots
  BY <1>0, <1>1, IncrementIn
<1>5. Length' = Length - 1
  BY <1>0, <1>1, <1>2, <1>3 DEF Length, Slots
<1>6. \A i \in 1..(Length - 1) : Slot(i)' = Slot(i + 1)
  BY <1>0, <1>2, <1>3 DEF Slot, Slots
<1>7. /\ waiting \in Seq(Keys) /\ Len(waiting) = Length
      /\ \A i \in 1..Length :
            waiting[i] = IF i = 1 /\ pc = "cleared" THEN value ELSE buffer[Slot(i)]
      /\ waiting[1] = value
  BY <1>1, <1>2, WaitingSeq
<1>8. waiting' = [i \in 1..(Length - 1) |-> buffer[Slot(i + 1)]]
  <2>1. pc' # "cleared"
    BY <1>1
  <2> QED BY <2>1, <1>1, <1>5, <1>6 DEF waiting
<1> HIDE DEF waiting
<1>9. /\ waiting # <<>> /\ Head(waiting) = value
      /\ Tail(waiting) \in Seq(Keys) /\ Len(Tail(waiting)) = Length - 1
      /\ \A i \in 1..(Length - 1) : Tail(waiting)[i] = waiting[i + 1]
  BY <1>2, <1>7
<1>10. waiting' = Tail(waiting)
  <2>1. \A i \in 1..(Length - 1) : waiting'[i] = Tail(waiting)[i]
    BY <1>2, <1>7, <1>8, <1>9
  <2>2. waiting' = [i \in 1..(Length - 1) |-> waiting'[i]]
    BY <1>8
  <2> QED BY <2>1, <2>2, <1>2, <1>9, SameElements
<1>11. IInv'
  <2>1. TypeOK'
    BY <1>1, <1>4, <1>0 DEF IInv, TypeOK, ProgramPoints
  <2>2. WriterStaysAway'
    <3>1. full' <=> increment(tail) = head'
      BY <1>1 DEF full
    <3> QED BY <3>1, <1>0, <1>1 DEF WriterStaysAway
  <2>3. WaitingAreKeys'
    <3>1. \A i \in 1..(Length - 1) : waiting'[i] \in Keys
      BY <1>2, <1>7, <1>9, <1>10
    <3> QED BY <3>1, <1>5 DEF WaitingAreKeys
  <2> QED BY <2>1, <2>2, <2>3, <1>0, <1>1 DEF IInv
<1> QED BY <1>1, <1>9, <1>10, <1>11

----------------------------------------------------------------------------
(* The theorems.                                                           *)

LEMMA StepIInv == IInv /\ [Next]_vars => IInv'
PROOF
<1> SUFFICES ASSUME IInv, [Next]_vars PROVE IInv'
  OBVIOUS
<1>1. CASE UNCHANGED vars
  <2>1. Length' = Length /\ waiting' = waiting
    BY <1>1 DEF vars, Length, Slot, waiting
  <2> QED BY <1>1, <2>1 DEF vars, IInv, TypeOK, WriterStaysAway, WaitingAreKeys, full
<1> QED BY <1>1, PushSteps, PopEmptySteps, PopTestSteps, PopReadSteps, PopClearSteps,
           PopAdvanceSteps DEF Next

\* The inductive invariant holds in every state.
THEOREM Invariance == Spec => []IInv
PROOF
<1>1. Init => IInv
  BY InitIInv
<1>2. IInv /\ [Next]_vars => IInv'
  BY StepIInv
<1> QED BY <1>1, <1>2, PTL DEF Spec

\* The interrupt never writes the slot a pop is working on.
THEOREM WriterIsKeptAway == Spec => []WriterStaysAway
PROOF
<1>1. IInv => WriterStaysAway
  BY DEF IInv
<1> QED BY <1>1, Invariance, PTL

\* No slot between head and tail is an empty one.
THEOREM OnlyKeysWait == Spec => []WaitingAreKeys
PROOF
<1>1. IInv => WaitingAreKeys
  BY DEF IInv
<1> QED BY <1>1, Invariance, PTL

\* The buffer implements the queue of keys.
THEOREM OrderIsKept == Spec => KeepsOrder
PROOF
<1>1. Init => Queue!Init
  <2> SUFFICES ASSUME Init PROVE waiting = <<>> /\ result = value_type
    BY DEF Queue!Init
  <2>1. IInv
    BY InitIInv
  <2>2. Length = 0
    BY SizeAssumption DEF Init, Length
  <2>3. waiting \in Seq(Keys) /\ Len(waiting) = 0
    BY <2>1, <2>2, WaitingSeq
  <2> HIDE DEF waiting
  <2> QED BY <2>3 DEF Init
<1>2. IInv /\ [Next]_vars => [Queue!Next]_<<waiting, result>>
  <2> SUFFICES ASSUME IInv, [Next]_vars PROVE [Queue!Next]_<<waiting, result>>
    OBVIOUS
  <2>1. ASSUME NEW k \in Keys, Push(k) PROVE Queue!Next
    BY <2>1, PushSteps DEF Queue!Next, Queue!Push
  <2>2. CASE PopEmpty
    BY <2>2, PopEmptySteps DEF Queue!Next, Queue!PopEmpty
  <2>3. CASE PopAdvance
    BY <2>3, PopAdvanceSteps DEF Queue!Next, Queue!Pop
  <2>4. CASE PopTest \/ PopRead \/ PopClear
    BY <2>4, PopTestSteps, PopReadSteps, PopClearSteps
  <2>5. CASE UNCHANGED vars
    BY <2>5 DEF vars, Length, Slot, waiting
  <2> QED BY <2>1, <2>2, <2>3, <2>4, <2>5 DEF Next
<1> QED BY <1>1, <1>2, Invariance, PTL DEF Spec, Queue!Spec, KeepsOrder

----------------------------------------------------------------------------
(* The keyboard in front of the buffer.                                    *)

\* Scan codes come only while the driver listens, and one that is in the
\* controller has its interrupt pending.
Controller ==
    /\ wire \in Seq(ScanCodes)
    /\ output \in ScanCodes \cup {nothing}
    /\ ~initialized => wire = <<>> /\ ~irq
    /\ irq => output \in ScanCodes
    /\ initialized /\ output # nothing => irq

LEMMA Codes ==
  ASSUME NEW key \in UserKeys
  PROVE  Make(key) \in Seq(ScanCodes) /\ Break(key) \in Seq(ScanCodes)
<1>1. {Prefix, key.code, key.code + 128} \subseteq ScanCodes
  BY DEF ScanCodes
<1> QED
  BY <1>1 DEF Make, Break, Stroke

LEMMA InitController == KeyboardInit => Controller
BY DEF KeyboardInit, Controller

LEMMA StepController ==
  Controller /\ [KeyboardNext]_keyboard_vars => Controller'
<1> SUFFICES ASSUME Controller, [KeyboardNext]_keyboard_vars PROVE Controller'
  OBVIOUS
<1> USE DEF Controller
<1>1. CASE clear_buffer \/ init
  BY <1>1 DEF clear_buffer, init, device_vars
<1>2. ASSUME NEW codes \in Seq(ScanCodes), Send(codes) PROVE Controller'
  BY <1>2 DEF Send
<1>3. ASSUME NEW key \in UserKeys, Press(key) \/ Hold(key) \/ Release(key)
      PROVE  Controller'
  BY <1>2, <1>3, Codes DEF Press, Hold, Release
<1>4. CASE Receive
  <2>1. /\ output' = Head(wire) /\ wire' = Tail(wire) /\ irq' = TRUE
        /\ initialized' = initialized /\ wire # <<>>
    BY <1>4 DEF Receive
  <2>2. Head(wire) \in ScanCodes /\ Tail(wire) \in Seq(ScanCodes)
    BY <2>1
  <2> QED
    BY <2>1, <2>2
<1>5. CASE on_isr_callback
  BY <1>5 DEF on_isr_callback
<1>6. CASE Pull \/ UNCHANGED keyboard_vars
  BY <1>6 DEF Pull, device_vars, keyboard_vars
<1> QED
  BY <1>1, <1>3, <1>4, <1>5, <1>6 DEF KeyboardNext

THEOREM ControllerInvariance == KeyboardSpec => []Controller
<1>1. KeyboardInit => Controller
  BY InitController
<1>2. Controller /\ [KeyboardNext]_keyboard_vars => Controller'
  BY StepController
<1> QED
  BY <1>1, <1>2, PTL DEF KeyboardSpec

\* Because init empties the controller before the driver listens, there is no
\* scan code in it whose interrupt was forgotten: the keyboard is never dead.
THEOREM KeyboardNeverStuck == KeyboardSpec => []NothingStuck
<1>1. Controller => NothingStuck
  BY DEF Controller, NothingStuck
<1> QED
  BY <1>1, ControllerInvariance, PTL

LEMMA BufferStep == Controller /\ [KeyboardNext]_keyboard_vars => [Next]_vars
<1> SUFFICES ASSUME Controller, [KeyboardNext]_keyboard_vars PROVE [Next]_vars
  OBVIOUS
<1>1. CASE on_isr_callback
  <2>1. Push(key_event(output)) /\ output \in ScanCodes
    BY <1>1 DEF on_isr_callback, Controller
  <2>2. key_event(output) \in Keys
    BY <2>1, EventsAssumption
  <2> QED
    BY <2>1, <2>2 DEF Next
<1>2. CASE Pull
  BY <1>2 DEF Pull, Next
<1>3. CASE \/ clear_buffer \/ init \/ Receive
           \/ \E key \in UserKeys : Press(key) \/ Hold(key) \/ Release(key)
           \/ UNCHANGED keyboard_vars
  BY <1>3 DEF clear_buffer, init, Receive, Press, Hold, Release, Send,
              keyboard_vars, buffer_vars
<1> QED
  BY <1>1, <1>2, <1>3 DEF KeyboardNext

\* What the interrupt pushes are key events: the buffer of the keyboard behaves
\* as the buffer on its own.
THEOREM KeyboardUsesBuffer == KeyboardSpec => Spec
<1>1. KeyboardInit => Init
  BY DEF KeyboardInit
<1> QED
  BY <1>1, BufferStep, ControllerInvariance, PTL DEF KeyboardSpec, Spec

\* So every key event the terminal pops is one that the device sent, once and in
\* order, and none is lost but while Size - 1 wait.
THEOREM KeyboardKeepsOrder == KeyboardSpec => []IInv /\ KeepsOrder
BY KeyboardUsesBuffer, Invariance, OrderIsKept, PTL

----------------------------------------------------------------------------
(* The characters of a sequence.                                           *)

LEMMA Least ==
  ASSUME NEW F, F \subseteq Nat, F # {}
  PROVE  \E i \in F : \A j \in F : i <= j
PROOF
<1> DEFINE R == {ss \in Nat \X Nat : ss[1] < ss[2]}
<1>1. IsWellFoundedOn(R, Nat)
  BY NatLessThanWellFounded DEF OpToRel
<1>2. \A x, y \in Nat : y < x => <<y, x>> \in R
  OBVIOUS
<1> HIDE DEF R
<1>3. PICK x \in F : \A y \in F : ~(<<y, x>> \in R)
  BY <1>1, WFMin, Zenon
<1>4. ASSUME NEW y \in F PROVE x <= y
  <2>1. x \in Nat /\ y \in Nat
    OBVIOUS
  <2>2. ~(y < x)
    BY <1>2, <1>3, <2>1, Zenon
  <2> QED BY <2>1, <2>2
<1> QED BY <1>4

\* Induction over the members of a set.
LEMMA Induction ==
  ASSUME NEW S, 0 \in S, \A n \in Nat : n \in S => n + 1 \in S
  PROVE  \A n \in Nat : n \in S
PROOF
<1> SUFFICES ASSUME Nat \ S # {} PROVE FALSE
  OBVIOUS
<1>1. PICK n \in Nat \ S : \A j \in Nat \ S : n <= j
  BY Least
<1>2. n # 0 /\ n - 1 \in Nat /\ (n - 1) + 1 = n
  BY <1>1
<1>3. n - 1 \in S
  BY <1>1, <1>2
<1> QED BY <1>1, <1>2, <1>3

\* What Written computes is a function of the number of elements looked at.
IsUpto(s, n, f) ==
    f = [i \in 0..n |->
            IF i = 0 THEN <<>>
            ELSE IF s[i] = NUL THEN f[i - 1] ELSE Append(f[i - 1], s[i])]

LEMMA UptoExists == ASSUME NEW s PROVE \A n \in Nat : \E f : IsUpto(s, n, f)
PROOF
<1> DEFINE S == {n \in Nat : \E f : IsUpto(s, n, f)}
<1>1. 0 \in S
  <2>1. [i \in 0..0 |-> <<>>] = [i \in 0..0 |->
            IF i = 0 THEN <<>>
            ELSE IF s[i] = NUL THEN [k \in 0..0 |-> <<>>][i - 1]
                 ELSE Append([k \in 0..0 |-> <<>>][i - 1], s[i])]
    OBVIOUS
  <2> QED BY <2>1 DEF IsUpto
<1>2. ASSUME NEW n \in Nat, n \in S PROVE n + 1 \in S
  <2>1. PICK f : IsUpto(s, n, f)
    BY <1>2
  <2> DEFINE more == IF s[n + 1] = NUL THEN f[n] ELSE Append(f[n], s[n + 1])
             g == [i \in 0..(n + 1) |-> IF i = n + 1 THEN more ELSE f[i]]
  <2>2. ASSUME NEW i \in 0..(n + 1)
        PROVE  g[i] = IF i = 0 THEN <<>>
                      ELSE IF s[i] = NUL THEN g[i - 1] ELSE Append(g[i - 1], s[i])
    <3>1. CASE i = n + 1
      <4>1. g[i] = more /\ g[i - 1] = f[n] /\ i # 0
        BY <3>1
      <4> QED BY <3>1, <4>1
    <3>2. CASE i # n + 1
      <4>1. i \in 0..n /\ g[i] = f[i] /\ (i # 0 => g[i - 1] = f[i - 1])
        BY <3>2
      <4>2. f[i] = IF i = 0 THEN <<>>
                   ELSE IF s[i] = NUL THEN f[i - 1] ELSE Append(f[i - 1], s[i])
        BY <2>1, <4>1 DEF IsUpto
      <4> QED BY <4>1, <4>2
    <3> QED BY <3>1, <3>2
  <2> HIDE DEF more
  <2>3. IsUpto(s, n + 1, g)
    BY <2>2 DEF IsUpto
  <2> QED BY <2>3
<1> HIDE DEF S
<1>3. \A n \in Nat : n \in S
  BY <1>1, <1>2, Induction
<1> QED BY <1>3 DEF S

LEMMA UptoAgrees ==
  ASSUME NEW s, NEW t, NEW m \in Nat, NEW n \in Nat, m <= n,
         \A i \in 1..m : s[i] = t[i],
         NEW f, IsUpto(s, m, f), NEW g, IsUpto(t, n, g)
  PROVE  f[m] = g[m]
PROOF
<1> DEFINE S == {k \in Nat : k <= m => f[k] = g[k]}
<1>1. 0 \in S
  BY DEF IsUpto
<1>2. ASSUME NEW k \in Nat, k \in S PROVE k + 1 \in S
  <2> SUFFICES ASSUME k + 1 <= m PROVE f[k + 1] = g[k + 1]
    OBVIOUS
  <2>1. k + 1 \in 0..m /\ k + 1 \in 0..n /\ k + 1 \in 1..m /\ k + 1 # 0 /\ (k + 1) - 1 = k
    OBVIOUS
  <2>2. f[k + 1] = IF s[k + 1] = NUL THEN f[k] ELSE Append(f[k], s[k + 1])
    BY <2>1 DEF IsUpto
  <2>3. g[k + 1] = IF t[k + 1] = NUL THEN g[k] ELSE Append(g[k], t[k + 1])
    BY <2>1 DEF IsUpto
  <2>4. f[k] = g[k] /\ s[k + 1] = t[k + 1]
    BY <1>2, <2>1
  <2> QED BY <2>2, <2>3, <2>4
<1> HIDE DEF S
<1>3. m \in S
  BY <1>1, <1>2, Induction
<1> QED BY <1>3 DEF S

LEMMA WrittenIs ==
  ASSUME NEW s, Len(s) \in Nat
  PROVE  \E f : IsUpto(s, Len(s), f) /\ Written(s) = f[Len(s)]
PROOF
<1> DEFINE f == CHOOSE f : IsUpto(s, Len(s), f)
<1>1. IsUpto(s, Len(s), f)
  BY UptoExists
<1>2. Written(s) = f[Len(s)]
  BY DEF Written, IsUpto
<1> QED BY <1>1, <1>2

LEMMA WrittenEmpty == Written(<<>>) = <<>>
<1>1. Len(<<>>) = 0
  OBVIOUS
<1>2. PICK f : IsUpto(<<>>, 0, f) /\ Written(<<>>) = f[0]
  BY <1>1, WrittenIs
<1> QED BY <1>2 DEF IsUpto

LEMMA WrittenAppend ==
  ASSUME NEW X, NEW s \in Seq(X), NEW c \in X
  PROVE  Written(Append(s, c)) =
            IF c = NUL THEN Written(s) ELSE Append(Written(s), c)
PROOF
<1> DEFINE n == Len(s)
           t == Append(s, c)
<1>1. n \in Nat /\ Len(t) = n + 1 /\ t[n + 1] = c /\ \A i \in 1..n : s[i] = t[i]
  OBVIOUS
<1>2. PICK f : IsUpto(s, n, f) /\ Written(s) = f[n]
  BY <1>1, WrittenIs
<1> HIDE DEF t, n
<1>3. PICK g : IsUpto(t, n + 1, g) /\ Written(t) = g[n + 1]
  BY <1>1, WrittenIs
<1>4. f[n] = g[n]
  BY <1>1, <1>2, <1>3, UptoAgrees
<1>5. g[n + 1] = IF c = NUL THEN g[n] ELSE Append(g[n], c)
  <2>1. n + 1 \in 0..(n + 1) /\ n + 1 # 0 /\ (n + 1) - 1 = n
    BY <1>1
  <2> QED BY <1>1, <1>3, <2>1 DEF IsUpto
<1>6. Written(t) = IF c = NUL THEN Written(s) ELSE Append(Written(s), c)
  BY <1>2, <1>3, <1>4, <1>5
<1> QED BY <1>6 DEF t

LEMMA WrittenConcat ==
  ASSUME NEW X, NEW s \in Seq(X), NEW t \in Seq(X)
  PROVE  /\ Written(s) \in Seq(X) /\ Written(t) \in Seq(X)
         /\ Written(s \o t) = Written(s) \o Written(t)
PROOF
<1> DEFINE Splits(u) == /\ Written(u) \in Seq(X)
                        /\ Written(s \o u) = Written(s) \o Written(u)
           P == {n \in Nat : \A u \in Seq(X) : Len(u) = n => Written(u) \in Seq(X)}
           S == {n \in Nat : \A u \in Seq(X) : Len(u) = n => Splits(u)}
<1>1. ASSUME NEW n \in Nat, NEW u \in Seq(X), Len(u) = n + 1
      PROVE  \E v \in Seq(X), c \in X : u = Append(v, c) /\ Len(v) = n
  <2> DEFINE v == SubSeq(u, 1, n)
  <2>1. v \in Seq(X) /\ Len(v) = n /\ u[n + 1] \in X
    BY <1>1
  <2>2. u = Append(v, u[n + 1])
    BY <1>1
  <2> QED BY <2>1, <2>2
<1>2. \A n \in Nat : n \in P
  <2>1. 0 \in P
    <3>1. \A u \in Seq(X) : Len(u) = 0 => u = <<>>
      OBVIOUS
    <3> QED BY <3>1, WrittenEmpty
  <2>2. ASSUME NEW n \in Nat, n \in P PROVE n + 1 \in P
    <3> SUFFICES ASSUME NEW u \in Seq(X), Len(u) = n + 1 PROVE Written(u) \in Seq(X)
      OBVIOUS
    <3>1. PICK v \in Seq(X), c \in X : u = Append(v, c) /\ Len(v) = n
      BY <1>1
    <3>2. Written(v) \in Seq(X)
      BY <2>2, <3>1
    <3>3. Written(u) = IF c = NUL THEN Written(v) ELSE Append(Written(v), c)
      BY <3>1, WrittenAppend
    <3> QED BY <3>2, <3>3
  <2> HIDE DEF P
  <2> QED BY <2>1, <2>2, Induction
<1>3. Written(s) \in Seq(X)
  BY <1>2
<1>4. \A n \in Nat : n \in S
  <2>1. 0 \in S
    <3>1. \A u \in Seq(X) : Len(u) = 0 => u = <<>>
      OBVIOUS
    <3>2. s \o <<>> = s /\ Written(s) \o <<>> = Written(s) /\ <<>> \in Seq(X)
      BY <1>3
    <3> QED BY <3>1, <3>2, WrittenEmpty
  <2>2. ASSUME NEW n \in Nat, n \in S PROVE n + 1 \in S
    <3> SUFFICES ASSUME NEW u \in Seq(X), Len(u) = n + 1 PROVE Splits(u)
      OBVIOUS
    <3>1. PICK v \in Seq(X), c \in X : u = Append(v, c) /\ Len(v) = n
      BY <1>1
    <3>2. Written(v) \in Seq(X) /\ Written(s \o v) = Written(s) \o Written(v)
      BY <2>2, <3>1
    <3>3. Written(u) = IF c = NUL THEN Written(v) ELSE Append(Written(v), c)
      BY <3>1, WrittenAppend
    <3>4. s \o v \in Seq(X) /\ s \o u = Append(s \o v, c)
      BY <3>1
    <3>5. Written(s \o u) = IF c = NUL THEN Written(s \o v) ELSE Append(Written(s \o v), c)
      BY <3>4, WrittenAppend
    <3>6. Append(Written(s) \o Written(v), c) = Written(s) \o Append(Written(v), c)
      BY <1>3, <3>2
    <3>7. Written(u) \in Seq(X)
      BY <3>2, <3>3
    <3> QED BY <3>2, <3>3, <3>5, <3>6, <3>7
  <2> HIDE DEF S, Splits
  <2> QED BY <2>1, <2>2, Induction
<1>5. Splits(t)
  BY <1>4
<1> QED BY <1>3, <1>5

LEMMA WrittenOne ==
  ASSUME NEW c PROVE Written(<<c>>) = IF c = NUL THEN <<>> ELSE <<c>>
<1>1. <<>> \in Seq({c}) /\ <<c>> = Append(<<>>, c)
  OBVIOUS
<1>2. Written(Append(<<>>, c)) =
         IF c = NUL THEN Written(<<>>) ELSE Append(Written(<<>>), c)
  BY <1>1, WrittenAppend
<1> QED BY <1>1, <1>2, WrittenEmpty

----------------------------------------------------------------------------
(* The keyboard is a TypeAhead.                                            *)

Legends == {key.legend : key \in UserKeys} \ {NUL}

LEMMA MakeAndBreak ==
  ASSUME NEW key \in UserKeys
  PROVE  /\ key.code \in 1..88 /\ key.prefixed \in BOOLEAN
         /\ Make(key) = IF key.prefixed THEN <<Prefix, key.code>> ELSE <<key.code>>
         /\ Break(key) = IF key.prefixed THEN <<Prefix, key.code + 128>>
                         ELSE <<key.code + 128>>
         /\ \A c : Break(key) = <<c>> <=> ~key.prefixed /\ key.code + 128 = c
PROOF
<1>1. \A a, b : Len(<<a, b>>) = 2 /\ Len(<<a>>) = 1 /\ <<a>>[1] = a
  OBVIOUS
<1>2. key.code \in 1..88 /\ key.prefixed \in BOOLEAN
  BY UserKeysAssumption
<1>3. CASE key.prefixed
  <2>1. Make(key) = <<Prefix, key.code>> /\ Break(key) = <<Prefix, key.code + 128>>
    BY <1>3 DEF Make, Break, Stroke
  <2>2. \A c : Break(key) # <<c>>
    <3>1. Len(Break(key)) = 2
      BY <2>1, <1>1
    <3> QED BY <3>1, <1>1
  <2> QED BY <1>2, <1>3, <2>1, <2>2
<1>4. CASE ~key.prefixed
  <2>1. Make(key) = <<key.code>> /\ Break(key) = <<key.code + 128>>
    BY <1>4 DEF Make, Break, Stroke
  <2> QED BY <1>1, <1>2, <1>4, <2>1
<1> QED BY <1>2, <1>3, <1>4

LEMMA NoCharacter == 96 \notin DOMAIN key_characters
PROOF
<1>1. \A n, s : DOMAIN KeyRow(n, s) = n..(n + Len(s) - 1)
  BY DEF KeyRow
<1>2. /\ Len(<<"1", "2", "3", "4", "5", "6", "7", "8", "9", "0">>) = 10
      /\ Len(<<"q", "w", "e", "r", "t", "y", "u", "i", "o", "p">>) = 10
      /\ Len(<<"a", "s", "d", "f", "g", "h", "j", "k", "l">>) = 9
      /\ Len(<<"z", "x", "c", "v", "b", "n", "m">>) = 7
      /\ Len(<<" ">>) = 1
  OBVIOUS
<1>3. \A row \in KeyRows : 96 \notin DOMAIN row
  <2>1. /\ 96 \notin 2..(2 + 10 - 1) /\ 96 \notin 16..(16 + 10 - 1)
        /\ 96 \notin 30..(30 + 9 - 1) /\ 96 \notin 44..(44 + 7 - 1)
        /\ 96 \notin 57..(57 + 1 - 1)
    OBVIOUS
  <2>2. \A n, s, k : Len(s) = k /\ 96 \notin n..(n + k - 1) => 96 \notin DOMAIN KeyRow(n, s)
    BY <1>1, Zenon
  <2>3. /\ 96 \notin DOMAIN KeyRow(2, <<"1", "2", "3", "4", "5", "6", "7", "8", "9", "0">>)
        /\ 96 \notin DOMAIN KeyRow(16, <<"q", "w", "e", "r", "t", "y", "u", "i", "o", "p">>)
    BY <1>2, <2>1, <2>2, Zenon
  <2>4. /\ 96 \notin DOMAIN KeyRow(30, <<"a", "s", "d", "f", "g", "h", "j", "k", "l">>)
        /\ 96 \notin DOMAIN KeyRow(44, <<"z", "x", "c", "v", "b", "n", "m">>)
        /\ 96 \notin DOMAIN KeyRow(57, <<" ">>)
    BY <1>2, <2>1, <2>2, Zenon
  <2> QED BY <2>3, <2>4, Zenon DEF KeyRows
<1> QED BY <1>3, Zenon DEF key_characters

\* What the keys say of a scan code is what the driver makes of it.
LEMMA CodeIs ==
  ASSUME NEW code \in ScanCodes
  PROVE  /\ StrokeOf(code) = CharacterOf(key_event(code))
         /\ StrokeOf(code) \in Legends \cup {NUL}
PROOF
<1> DEFINE released == {key \in UserKeys : Break(key) = <<code>>}
<1>1. \A key \in UserKeys : key.code \in 1..88 /\ key.prefixed \in BOOLEAN
  BY UserKeysAssumption
<1>2. \A key \in UserKeys : key \in released <=> ~key.prefixed /\ key.code + 128 = code
  BY MakeAndBreak
<1>3. released = {} => StrokeOf(code) = NUL
  BY DEF StrokeOf
<1>4. released # {} => \E key \in released : StrokeOf(code) = key.legend
  BY DEF StrokeOf
<1>5. PICK key \in UserKeys : code \in {Prefix, key.code, key.code + 128}
  BY DEF ScanCodes
<1> HIDE DEF released
<1>6. CASE code = Prefix
  <2>1. released = {}
    BY <1>1, <1>2, <1>6 DEF Prefix, released
  <2>2. key_event(code) = [state |-> "released", key |-> 96]
    BY <1>6 DEF key_event, Prefix
  <2> QED BY <1>3, <2>1, <2>2, NoCharacter DEF CharacterOf, map_key_to_ascii
<1>7. CASE code = key.code
  <2>1. released = {}
    BY <1>1, <1>2, <1>7 DEF released
  <2>2. code \div 128 = 0
    BY <1>1, <1>7
  <2>3. key_event(code).state = "pressed"
    BY <2>2 DEF key_event
  <2> QED BY <1>3, <2>1, <2>3 DEF CharacterOf
<1>8. CASE code = key.code + 128
  <2>1. code \div 128 = 1 /\ code % 128 = key.code
    BY <1>1, <1>8
  <2>2. CharacterOf(key_event(code)) = map_key_to_ascii(key.code)
    BY <2>1 DEF key_event, CharacterOf
  <2>3. CASE released = {}
    <3>1. key.prefixed
      BY <1>1, <1>2, <1>8, <2>3
    <3>2. key.code \notin DOMAIN key_characters
      BY <3>1, UserKeysAssumption
    <3> QED BY <1>3, <2>2, <2>3, <3>2 DEF map_key_to_ascii
  <2>4. CASE released # {}
    <3>1. PICK k \in released : StrokeOf(code) = k.legend
      BY <1>4, <2>4
    <3>2. k \in UserKeys /\ ~k.prefixed /\ k.code + 128 = code
      BY <1>2, <3>1 DEF released
    <3>3. k.code = key.code
      BY <1>1, <1>8, <3>2
    <3>4. k.legend = map_key_to_ascii(key.code)
      BY <3>2, <3>3, LegendsAssumption
    <3> QED BY <2>2, <3>1, <3>2, <3>4 DEF Legends
  <2> QED BY <2>3, <2>4
<1> QED BY <1>5, <1>6, <1>7, <1>8

Strokes(codes) == [i \in DOMAIN codes |-> StrokeOf(codes[i])]
Any == Legends \cup {NUL} \cup {CharacterOf(k) : k \in Keys}

\* A key that goes down, a key that repeats and a prefix are no stroke; a key that
\* goes up is one, of its legend.
LEMMA StrokesOfKeys ==
  ASSUME NEW key \in UserKeys
  PROVE  /\ Written(Strokes(Make(key))) = <<>>
         /\ Written(Strokes(Break(key))) =
               IF key.prefixed \/ key.legend = NUL THEN <<>> ELSE <<key.legend>>
PROOF
<1>1. \A k \in UserKeys : k.code \in 1..88 /\ k.prefixed \in BOOLEAN
  BY UserKeysAssumption
<1>2. StrokeOf(Prefix) = NUL /\ StrokeOf(key.code) = NUL
  <2>1. \A k \in UserKeys : Break(k) # <<Prefix>> /\ Break(k) # <<key.code>>
    BY <1>1, MakeAndBreak DEF Prefix
  <2> QED BY <2>1 DEF StrokeOf
<1>3. StrokeOf(key.code + 128) = IF key.prefixed THEN NUL ELSE key.legend
  <2>1. key.code + 128 \in ScanCodes
    BY DEF ScanCodes
  <2>2. (key.code + 128) \div 128 = 1 /\ (key.code + 128) % 128 = key.code
    BY <1>1
  <2>3. CharacterOf(key_event(key.code + 128)) = map_key_to_ascii(key.code)
    BY <2>2 DEF key_event, CharacterOf
  <2>4. key.prefixed => map_key_to_ascii(key.code) = NUL
    BY UserKeysAssumption DEF map_key_to_ascii
  <2> QED BY <1>1, <2>1, <2>3, <2>4, CodeIs, LegendsAssumption
<1>4. \A c, d : Strokes(<<c>>) = <<StrokeOf(c)>>
                /\ Strokes(<<c, d>>) = <<StrokeOf(c)>> \o <<StrokeOf(d)>>
  BY DEF Strokes
<1>5. \A c, d : Written(<<c>> \o <<d>>) = Written(<<c>>) \o Written(<<d>>)
  <2> TAKE c, d
  <2>1. <<c>> \in Seq({c, d}) /\ <<d>> \in Seq({c, d})
    OBVIOUS
  <2> QED BY <2>1, WrittenConcat
<1>6. CASE key.prefixed
  <2>1. /\ Make(key) = <<Prefix, key.code>> /\ Break(key) = <<Prefix, key.code + 128>>
    BY <1>6, MakeAndBreak
  <2>2. <<>> \o <<>> = <<>>
    OBVIOUS
  <2>3. Written(<<NUL>>) = <<>>
    BY WrittenOne
  <2>4. /\ Strokes(Make(key)) = <<NUL>> \o <<NUL>>
        /\ Strokes(Break(key)) = <<NUL>> \o <<NUL>>
    <3>1. StrokeOf(key.code + 128) = NUL
      BY <1>3, <1>6
    <3>2. \A c, d : StrokeOf(c) = NUL /\ StrokeOf(d) = NUL
                      => Strokes(<<c, d>>) = <<NUL>> \o <<NUL>>
      BY <1>4, Zenon
    <3> QED BY <1>2, <2>1, <3>1, <3>2, Zenon
  <2>5. Written(<<NUL>> \o <<NUL>>) = <<>>
    BY <1>5, <2>2, <2>3
  <2> QED BY <1>6, <2>4, <2>5
<1>7. CASE ~key.prefixed
  <2>1. /\ Make(key) = <<key.code>> /\ Break(key) = <<key.code + 128>>
    BY <1>7, MakeAndBreak
  <2> QED BY <1>2, <1>3, <1>4, <1>7, <2>1, WrittenOne
<1> QED BY <1>1, <1>6, <1>7

\* What the terminal has yet to read: from the buffer, from the controller and
\* from the wire.
Waiting == Written(Buffered)
Fetched == IF output = nothing THEN <<>> ELSE <<StrokeOf(output)>>
Typed == Written(Buffered \o Sent)

OnWire == Written(Strokes(wire))
TypedFacts ==
    /\ Buffered \in Seq(Any) /\ Len(Buffered) = Len(waiting)
    /\ Sent = Fetched \o Strokes(wire) /\ Strokes(wire) \in Seq(Any)
    /\ Fetched \in Seq(Any)
    /\ Waiting \in Seq(Any) /\ Written(Fetched) \in Seq(Any) /\ OnWire \in Seq(Any)
    /\ Typed = Waiting \o (Written(Fetched) \o OnWire)

LEMMA TypedIs == IInv /\ Controller => TypedFacts
PROOF
<1> SUFFICES ASSUME IInv, Controller PROVE TypedFacts
  OBVIOUS
<1>1. waiting \in Seq(Keys) /\ wire \in Seq(ScanCodes)
  BY WaitingSeq DEF Controller
<1>2. Buffered \in Seq(Any) /\ Len(Buffered) = Len(waiting)
  BY <1>1 DEF Buffered, Any
<1>3. \A c \in ScanCodes : StrokeOf(c) \in Any
  BY CodeIs DEF Any
<1>4. Strokes(wire) \in Seq(Any)
  BY <1>1, <1>3 DEF Strokes
<1>5. Fetched \in Seq(Any)
  BY <1>3 DEF Fetched, Controller
<1>6. Sent = Fetched \o Strokes(wire)
  <2>1. CASE output = nothing
    <3>1. <<>> \o wire = wire
      BY <1>1
    <3>2. Sent = Strokes(wire) /\ Fetched = <<>>
      BY <2>1, <3>1 DEF Sent, Strokes, Fetched
    <3> QED BY <1>4, <3>2
  <2>2. CASE output # nothing
    <3>1. output \in ScanCodes /\ StrokeOf(output) \in Any
      BY <1>3, <2>2 DEF Controller
    <3> DEFINE codes == <<output>> \o wire
               s == <<StrokeOf(output)>>
               t == Strokes(wire)
    <3>2. /\ Len(codes) = Len(wire) + 1 /\ codes[1] = output
          /\ codes \in Seq(ScanCodes)
          /\ \A i \in 2..(Len(wire) + 1) : codes[i] = wire[i - 1]
      BY <1>1, <3>1
    <3>3. /\ Len(s \o t) = Len(wire) + 1 /\ (s \o t)[1] = StrokeOf(output)
          /\ \A i \in 2..(Len(wire) + 1) : (s \o t)[i] = StrokeOf(wire[i - 1])
          /\ s \o t \in Seq(Any)
      BY <1>1, <1>4, <3>1 DEF Strokes
    <3>4. Sent = [i \in 1..(Len(wire) + 1) |-> StrokeOf(codes[i])]
      BY <2>2, <3>2 DEF Sent
    <3> HIDE DEF codes, s, t
    <3>5. \A i \in 1..(Len(wire) + 1) : (s \o t)[i] = StrokeOf(codes[i])
      BY <1>1, <3>2, <3>3
    <3>6. s \o t = [i \in 1..(Len(wire) + 1) |-> StrokeOf(codes[i])]
      <4> DEFINE n == Len(wire) + 1
                 u == [i \in 1..n |-> StrokeOf(codes[i])]
      <4>1. u = [i \in 1..n |-> u[i]] /\ \A i \in 1..n : u[i] = (s \o t)[i]
        BY <3>5
      <4>2. n \in Nat /\ Len(s \o t) = n /\ s \o t \in Seq(Any)
        BY <1>1, <3>3
      <4> HIDE DEF u, n
      <4>3. u = s \o t
        BY <4>1, <4>2, SameElements
      <4> QED BY <4>3 DEF u, n
    <3> QED BY <2>2, <3>4, <3>6 DEF Fetched, s, t
  <2> QED BY <2>1, <2>2
<1>7. Sent \in Seq(Any)
  BY <1>4, <1>5, <1>6
<1>8. /\ Typed = Waiting \o Written(Sent)
      /\ Waiting \in Seq(Any)
  BY <1>2, <1>7, WrittenConcat DEF Typed, Waiting
<1>9. /\ Written(Sent) = Written(Fetched) \o Written(Strokes(wire))
      /\ Written(Fetched) \in Seq(Any) /\ Written(Strokes(wire)) \in Seq(Any)
  BY <1>4, <1>5, <1>6, WrittenConcat
<1> QED BY <1>2, <1>4, <1>5, <1>6, <1>7, <1>8, <1>9 DEF TypedFacts, OnWire

LEMMA ConcatIs ==
  ASSUME NEW X, NEW a \in Seq(X), NEW b \in Seq(X)
  PROVE  /\ a \o b \in Seq(X) /\ Len(a \o b) = Len(a) + Len(b)
         /\ \A i \in 1..(Len(a) + Len(b)) :
                (a \o b)[i] = IF i <= Len(a) THEN a[i] ELSE b[i - Len(a)]
BY ConcatProperties, SMTT(60)

LEMMA Associative ==
  ASSUME NEW X, NEW a \in Seq(X), NEW b \in Seq(X), NEW c \in Seq(X)
  PROVE  (a \o b) \o c = a \o (b \o c)
BY ConcatAssociative, SMTT(60)

LEMMA Removed ==
  ASSUME NEW X, NEW s \in Seq(X), NEW i \in Nat
  PROVE  Typing!RemoveAt(s, i) = SubSeq(s, 1, i - 1) \o SubSeq(s, i + 1, Len(s))
BY DEF Typing!RemoveAt

LEMMA AnySeq ==
  /\ \A c : Written(<<c>>) = IF c = NUL THEN <<>> ELSE <<c>>
  /\ Written(<<>>) = <<>>
  /\ \A s \in Seq(Any) : <<>> \o s = s /\ s \o <<>> = s
BY ConcatEmptySeq, WrittenEmpty, WrittenOne

LEMMA SameWaiting == UNCHANGED buffer_vars => waiting' = waiting /\ result' = result
BY DEF buffer_vars, vars, waiting, Length, Slot

LEMMA StrokesConcat ==
  ASSUME NEW a \in Seq(ScanCodes), NEW b \in Seq(ScanCodes)
  PROVE  Strokes(a \o b) = Strokes(a) \o Strokes(b) /\ Strokes(a) \in Seq(Any)
PROOF
<1> DEFINE p == Strokes(a)
           q == Strokes(b)
           c == a \o b
           n == Len(a) + Len(b)
           r == Strokes(c)
<1>1. /\ p \in Seq(Any) /\ Len(p) = Len(a) /\ \A i \in 1..Len(a) : p[i] = StrokeOf(a[i])
      /\ q \in Seq(Any) /\ Len(q) = Len(b) /\ \A i \in 1..Len(b) : q[i] = StrokeOf(b[i])
  BY CodeIs DEF Strokes, Any
<1>2. /\ c \in Seq(ScanCodes) /\ Len(c) = n /\ n \in Nat
      /\ \A i \in 1..n : c[i] = IF i <= Len(a) THEN a[i] ELSE b[i - Len(a)]
  OBVIOUS
<1>3. r = [i \in 1..n |-> r[i]] /\ \A i \in 1..n : r[i] = StrokeOf(c[i])
  BY <1>2 DEF Strokes
<1> HIDE DEF p, q, c, r
<1>4. /\ p \o q \in Seq(Any) /\ Len(p \o q) = n
      /\ \A i \in 1..n : (p \o q)[i] = IF i <= Len(a) THEN p[i] ELSE q[i - Len(a)]
  <2>1. /\ p \o q \in Seq(Any) /\ Len(p \o q) = Len(p) + Len(q)
        /\ \A i \in 1..(Len(p) + Len(q)) :
               (p \o q)[i] = IF i <= Len(p) THEN p[i] ELSE q[i - Len(p)]
    <3>1. p \in Seq(Any) /\ q \in Seq(Any)
      BY <1>1
    <3> QED BY ONLY <3>1, ConcatIs
  <2> QED BY <1>1, <2>1
<1>5. ASSUME NEW i \in 1..n PROVE r[i] = (p \o q)[i]
  <2>1. CASE i <= Len(a)
    <3>1. i \in 1..Len(a)
      BY <2>1
    <3> QED BY <1>1, <1>2, <1>3, <1>4, <2>1, <3>1
  <2>2. CASE ~(i <= Len(a))
    <3>1. i - Len(a) \in 1..Len(b)
      BY <2>2
    <3> QED BY <1>1, <1>2, <1>3, <1>4, <2>2, <3>1
  <2> QED BY <2>1, <2>2
<1> HIDE DEF n
<1>6. r = p \o q
  BY <1>2, <1>3, <1>4, <1>5, SameElements
<1> QED BY <1>1, <1>6 DEF p, q, c, r

\* What a key adds to the wire is typed.
LEMMA SendTypes ==
  ASSUME TypedFacts, TypedFacts', Controller,
         NEW codes \in Seq(ScanCodes), Send(codes)
  PROVE  Typed' = Typed \o Written(Strokes(codes)) /\ result' = result
PROOF
<1>1. /\ wire' = wire \o codes /\ output' = output
      /\ waiting' = waiting /\ result' = result
  BY SameWaiting DEF Send
<1>2. Waiting' = Waiting /\ Fetched' = Fetched
  BY <1>1 DEF Waiting, Buffered, Fetched
<1>3. wire \in Seq(ScanCodes) /\ Strokes(codes) \in Seq(Any)
  BY CodeIs DEF Controller, Strokes, Any
<1>4. Strokes(wire') = Strokes(wire) \o Strokes(codes)
  BY <1>1, <1>3, StrokesConcat
<1>5. Written(Strokes(codes)) \in Seq(Any)
      /\ OnWire' = OnWire \o Written(Strokes(codes))
  BY <1>3, <1>4, WrittenConcat DEF TypedFacts, OnWire
<1>6. Typed' = Waiting \o (Written(Fetched) \o (OnWire \o Written(Strokes(codes))))
  <2>1. Typed' = Waiting' \o (Written(Fetched') \o OnWire')
    BY DEF TypedFacts
  <2> QED BY <1>2, <1>5, <2>1
<1>7. /\ Typed = Waiting \o (Written(Fetched) \o OnWire)
      /\ Waiting \in Seq(Any) /\ Written(Fetched) \in Seq(Any) /\ OnWire \in Seq(Any)
  BY DEF TypedFacts
<1>8. Typed' = (Waiting \o (Written(Fetched) \o OnWire)) \o Written(Strokes(codes))
  <2>1. Written(Fetched) \o (OnWire \o Written(Strokes(codes)))
          = (Written(Fetched) \o OnWire) \o Written(Strokes(codes))
    <3>1. /\ Written(Fetched) \in Seq(Any) /\ OnWire \in Seq(Any)
          /\ Written(Strokes(codes)) \in Seq(Any)
      BY <1>5, <1>7
    <3> QED BY ONLY <3>1, Associative
  <2>2. Written(Fetched) \o OnWire \in Seq(Any)
    BY <1>7, ConcatIs
  <2>3. (Waiting \o (Written(Fetched) \o OnWire)) \o Written(Strokes(codes))
          = Waiting \o ((Written(Fetched) \o OnWire) \o Written(Strokes(codes)))
    <3> DEFINE there == Written(Fetched) \o OnWire
               new == Written(Strokes(codes))
    <3>1. Waiting \in Seq(Any) /\ there \in Seq(Any) /\ new \in Seq(Any)
      BY <1>5, <1>7, <2>2
    <3> HIDE DEF there, new
    <3>2. (Waiting \o there) \o new = Waiting \o (there \o new)
      BY ONLY <3>1, Associative
    <3> QED BY <3>2 DEF there, new
  <2> QED BY <1>6, <2>1, <2>3
<1> QED BY <1>1, <1>7, <1>8

\* A scan code that goes from the wire to the controller is still typed.
LEMMA ReceiveTypes ==
  ASSUME Controller, Receive PROVE Typed' = Typed /\ result' = result
PROOF
<1>1. /\ output = nothing /\ output' = Head(wire) /\ wire' = Tail(wire)
      /\ wire # <<>> /\ waiting' = waiting /\ result' = result
  BY SameWaiting DEF Receive
<1>2. wire \in Seq(ScanCodes) /\ Head(wire) \in ScanCodes /\ Head(wire) # nothing
  BY <1>1, NothingAssumption DEF Controller
<1>3. <<Head(wire)>> \o Tail(wire) = wire /\ <<>> \o wire = wire
  BY <1>1, <1>2
<1>4. Sent' = Sent
  BY <1>1, <1>2, <1>3 DEF Sent
<1>5. Buffered' = Buffered
  BY <1>1 DEF Buffered
<1> QED BY <1>1, <1>4, <1>5 DEF Typed

LEMMA RemoveMiddle ==
  ASSUME NEW s \in Seq(Any), NEW t \in Seq(Any), NEW c \in Any
  PROVE  /\ Len(s) + 1 \in DOMAIN (s \o (<<c>> \o t))
         /\ s \o t = Typing!RemoveAt(s \o (<<c>> \o t), Len(s) + 1)
PROOF
<1> DEFINE u == <<c>> \o t
           w == s \o u
<1>1. u \in Seq(Any) /\ Len(u) = Len(t) + 1 /\ \A i \in 2..Len(u) : u[i] = t[i - 1]
  OBVIOUS
<1> HIDE DEF u
<1>2. /\ w \in Seq(Any) /\ Len(w) = Len(s) + Len(u)
      /\ \A i \in 1..Len(w) : w[i] = IF i <= Len(s) THEN s[i] ELSE u[i - Len(s)]
  <2>1. /\ w \in Seq(Any) /\ Len(w) = Len(s) + Len(u)
        /\ \A i \in 1..(Len(s) + Len(u)) : w[i] = IF i <= Len(s) THEN s[i] ELSE u[i - Len(s)]
    BY <1>1, ConcatIs, Zenon
  <2> QED BY <2>1
<1> HIDE DEF w
<1>3. SubSeq(w, 1, Len(s)) = s
  BY <1>1, <1>2
<1>4. SubSeq(w, Len(s) + 2, Len(w)) = t
  BY <1>1, <1>2
<1>5. Typing!RemoveAt(w, Len(s) + 1) = s \o t
  <2>1. Len(s) + 1 \in Nat /\ (Len(s) + 1) - 1 = Len(s) /\ (Len(s) + 1) + 1 = Len(s) + 2
    OBVIOUS
  <2> QED BY <1>2, <1>3, <1>4, <2>1, Removed
<1> QED BY <1>1, <1>2, <1>5 DEF u, w

\* A push takes a stroke from the controller to the buffer, or loses it while the
\* buffer is full.
LEMMA PushTypes ==
  ASSUME TypedFacts, TypedFacts', IInv, Controller, on_isr_callback
  PROVE  /\ result' = result
         /\ \/ Typed' = Typed
            \/ full /\ \E i \in DOMAIN Typed : Typed' = Typing!RemoveAt(Typed, i)
PROOF
<1> DEFINE c == StrokeOf(output)
           one == Written(<<c>>)
<1>1. /\ Push(key_event(output)) /\ output \in ScanCodes /\ output # nothing
      /\ output' = nothing /\ wire' = wire
  BY NothingAssumption DEF on_isr_callback, Controller
<1>2. c = CharacterOf(key_event(output)) /\ key_event(output) \in Keys /\ c \in Any
  BY <1>1, CodeIs, EventsAssumption DEF Any
<1>3. /\ result' = result
      /\ waiting' = IF Len(waiting) < Size - 1 THEN Append(waiting, key_event(output))
                    ELSE waiting
  BY <1>1, <1>2, PushSteps
<1>4. waiting \in Seq(Keys) /\ (Len(waiting) < Size - 1 \/ full)
  <2>1. head \in Slots /\ tail \in Slots
    BY DEF IInv, TypeOK
  <2> QED BY <2>1, WaitingSeq, LengthFacts
<1>5. Fetched = <<c>> /\ Fetched' = <<>> /\ OnWire' = OnWire
  BY <1>1 DEF Fetched, OnWire
<1>6. /\ Typed = Waiting \o (one \o OnWire) /\ Typed' = Waiting' \o OnWire
      /\ Waiting \in Seq(Any) /\ one \in Seq(Any) /\ OnWire \in Seq(Any)
  <2>1. Typed' = Waiting' \o (Written(Fetched') \o OnWire')
    BY DEF TypedFacts
  <2>2. Written(<<>>) \o OnWire = OnWire
    BY AnySeq DEF TypedFacts
  <2> QED BY <1>5, <2>1, <2>2 DEF TypedFacts
<1>7. CASE Len(waiting) < Size - 1
  <2>1. Buffered' = Append(Buffered, c)
    BY <1>2, <1>3, <1>4, <1>7 DEF Buffered
  <2>2. Waiting' = IF c = NUL THEN Waiting ELSE Append(Waiting, c)
    BY <1>2, <2>1, WrittenAppend DEF Waiting, TypedFacts
  <2>3. Waiting' = Waiting \o one
    <3>1. CASE c = NUL
      BY <1>6, <2>2, <3>1, AnySeq
    <3>2. CASE c # NUL
      <4>1. one = <<c>>
        BY <3>2, AnySeq
      <4>2. Append(Waiting, c) = Waiting \o <<c>>
        BY <1>2, <1>6
      <4> QED BY <2>2, <3>2, <4>1, <4>2
    <3> QED BY <3>1, <3>2
  <2> HIDE DEF one
  <2>4. Typed' = Typed
    <3>1. Waiting \o (one \o OnWire) = (Waiting \o one) \o OnWire
      <4>1. Waiting \in Seq(Any) /\ one \in Seq(Any) /\ OnWire \in Seq(Any)
        BY <1>6
      <4> QED BY ONLY <4>1, Associative
    <3> QED BY <1>6, <2>3, <3>1
  <2> QED BY <1>3, <2>4
<1>8. CASE ~(Len(waiting) < Size - 1)
  <2>1. Waiting' = Waiting
    BY <1>3, <1>8 DEF Waiting, Buffered
  <2>2. CASE c = NUL
    <3>1. one \o OnWire = OnWire
      BY <1>6, <2>2, AnySeq
    <3> QED BY <1>3, <1>6, <2>1, <3>1
  <2>3. CASE c # NUL
    <3>1. one = <<c>>
      BY <2>3, AnySeq
    <3> DEFINE i == Len(Waiting) + 1
    <3>2. i \in DOMAIN Typed /\ Waiting \o OnWire = Typing!RemoveAt(Typed, i)
      BY <1>2, <1>6, <3>1, RemoveMiddle
    <3> QED BY <1>3, <1>4, <1>6, <1>8, <2>1, <3>2
  <2> QED BY <2>2, <2>3
<1> QED BY <1>7, <1>8

\* A pop reads what was typed first, or a key that is no stroke.
LEMMA PullTypes ==
  ASSUME TypedFacts, TypedFacts', IInv, Controller, Pull
  PROVE  \/ Typed' = Typed /\ result' = result
         \/ Typed' = Typed /\ CharacterOf(result') = NUL
         \/ /\ Typed # <<>> /\ Typed' = Tail(Typed)
            /\ CharacterOf(result') = Head(Typed)
PROOF
<1>1. Fetched' = Fetched /\ OnWire' = OnWire
  BY DEF Pull, device_vars, Fetched, OnWire
<1>2. waiting' = waiting => Typed' = Typed
  <2> HAVE waiting' = waiting
  <2>1. Waiting' = Waiting
    BY DEF Waiting, Buffered
  <2>2. Typed' = Waiting' \o (Written(Fetched') \o OnWire')
    BY DEF TypedFacts
  <2> QED BY <1>1, <2>1, <2>2 DEF TypedFacts
<1>3. CASE PopEmpty
  <2>1. waiting' = waiting /\ result' = value_type
    BY <1>3, PopEmptySteps
  <2> QED BY <1>2, <2>1, ValueTypeAssumption
<1>4. CASE PopTest \/ PopRead \/ PopClear
  BY <1>2, <1>4, PopTestSteps, PopReadSteps, PopClearSteps
<1>5. CASE PopAdvance
  <2> DEFINE c == CharacterOf(Head(waiting))
             one == Written(<<c>>)
             rest == Written(Fetched) \o OnWire
  <2>1. waiting # <<>> /\ waiting' = Tail(waiting) /\ result' = Head(waiting)
    BY <1>5, PopAdvanceSteps
  <2>2. waiting \in Seq(Keys)
    BY WaitingSeq
  <2>3. c \in Any
    BY <2>1, <2>2 DEF Any
  <2>4. Buffered = <<c>> \o Buffered'
    <3> DEFINE u == <<c>> \o Buffered'
               n == Len(waiting)
    <3>1. n \in Nat /\ n # 0 /\ Len(waiting') = n - 1 /\ DOMAIN waiting = 1..n
          /\ DOMAIN waiting' = 1..(n - 1)
          /\ \A i \in 2..n : waiting'[i - 1] = waiting[i]
      BY <2>1, <2>2
    <3>2. Buffered' \in Seq(Any) /\ Len(Buffered') = n - 1
          /\ \A i \in 1..(n - 1) : Buffered'[i] = CharacterOf(waiting'[i])
      BY <3>1 DEF TypedFacts, Buffered
    <3>3. u \in Seq(Any) /\ Len(u) = n /\ u[1] = c
          /\ \A i \in 2..n : u[i] = Buffered'[i - 1]
      BY <2>3, <3>1, <3>2
    <3>4. Buffered = [i \in 1..n |-> Buffered[i]]
          /\ \A i \in 1..n : Buffered[i] = CharacterOf(waiting[i])
      BY <3>1 DEF Buffered
    <3>5. ASSUME NEW i \in 1..n PROVE Buffered[i] = u[i]
      <4>1. CASE i = 1
        BY <2>1, <2>2, <3>3, <3>4, <4>1
      <4>2. CASE i # 1
        <5>1. i \in 2..n /\ i - 1 \in 1..(n - 1)
          BY <3>1, <4>2
        <5> QED BY <3>1, <3>2, <3>3, <3>4, <5>1
      <4> QED BY <4>1, <4>2
    <3> HIDE DEF u, n
    <3>6. Buffered = u
      BY <3>1, <3>3, <3>4, <3>5, SameElements
    <3> QED BY <3>6 DEF u
  <2>5. Waiting = one \o Waiting' /\ Waiting' \in Seq(Any) /\ one \in Seq(Any)
    <3>1. <<c>> \in Seq(Any) /\ Buffered' \in Seq(Any)
      BY <2>3 DEF TypedFacts
    <3>2. Written(<<c>> \o Buffered') = one \o Written(Buffered')
          /\ one \in Seq(Any) /\ Written(Buffered') \in Seq(Any)
      BY <3>1, WrittenConcat
    <3> QED BY <2>4, <3>2 DEF Waiting
  <2>6. rest \in Seq(Any) /\ Typed = Waiting \o rest /\ Typed' = Waiting' \o rest
    <3>1. Written(Fetched) \in Seq(Any) /\ OnWire \in Seq(Any)
      BY DEF TypedFacts
    <3>2. rest \in Seq(Any)
      BY <3>1, ConcatIs
    <3>3. Typed' = Waiting' \o (Written(Fetched') \o OnWire')
      BY DEF TypedFacts
    <3> QED BY <1>1, <3>2, <3>3 DEF TypedFacts
  <2> HIDE DEF one, rest
  <2>7. Typed = one \o Typed' /\ Typed' \in Seq(Any)
    <3>1. one \in Seq(Any) /\ Waiting' \in Seq(Any) /\ rest \in Seq(Any)
      BY <2>5, <2>6
    <3>2. (one \o Waiting') \o rest = one \o (Waiting' \o rest)
          /\ Waiting' \o rest \in Seq(Any)
      BY ONLY <3>1, Associative, ConcatIs
    <3> QED BY <2>5, <2>6, <3>2
  <2>8. CASE c = NUL
    <3>1. one = <<>>
      BY <2>8, AnySeq DEF one
    <3>2. Typed = Typed'
      BY <2>7, <3>1, AnySeq
    <3> QED BY <2>1, <2>8, <3>2
  <2>9. CASE c # NUL
    <3>1. one = <<c>>
      BY <2>9, AnySeq DEF one
    <3> DEFINE rem == Typed'
    <3>2. rem \in Seq(Any) /\ Typed = <<c>> \o rem
      BY <2>7, <3>1
    <3> HIDE DEF rem
    <3>3. <<c>> \o rem # <<>> /\ Head(<<c>> \o rem) = c /\ Tail(<<c>> \o rem) = rem
      BY <2>3, <3>2
    <3>4. Typed # <<>> /\ Head(Typed) = c /\ Tail(Typed) = rem
      BY <3>2, <3>3
    <3> QED BY <2>1, <3>4 DEF rem
  <2> QED BY <2>8, <2>9
<1> QED BY <1>3, <1>4, <1>5 DEF Pull

\* Before the driver listens nothing is in the buffer.
TypedInv == IInv /\ Controller /\ (~initialized => waiting = <<>>)

LEMMA InitTypedInv == KeyboardInit => TypedInv /\ waiting = <<>>
PROOF
<1> SUFFICES ASSUME KeyboardInit PROVE TypedInv /\ waiting = <<>>
  OBVIOUS
<1>1. IInv /\ Controller
  BY InitIInv, InitController DEF KeyboardInit
<1>2. Length = 0
  BY SizeAssumption DEF KeyboardInit, Init, Length
<1>3. waiting \in Seq(Keys) /\ Len(waiting) = 0
  BY <1>1, <1>2, WaitingSeq
<1> QED BY <1>1, <1>3 DEF TypedInv

LEMMA StepTypedInv == TypedInv /\ [KeyboardNext]_keyboard_vars => TypedInv'
PROOF
<1> SUFFICES ASSUME TypedInv, [KeyboardNext]_keyboard_vars PROVE TypedInv'
  OBVIOUS
<1>1. IInv /\ Controller /\ (~initialized => waiting = <<>>)
  BY DEF TypedInv
<1>2. IInv' /\ Controller'
  BY <1>1, BufferStep, StepIInv, StepController
<1>3. ASSUME ~initialized' PROVE waiting' = <<>>
  <2>1. CASE on_isr_callback \/ init
    BY <1>3, <2>1 DEF on_isr_callback, init
  <2>2. CASE Pull
    <3>1. ~initialized /\ waiting = <<>>
      BY <1>1, <1>3, <2>2 DEF Pull
    <3> QED BY <1>1, <2>2, <3>1, PopEmptySteps, PopTestSteps, PopReadSteps, PopClearSteps,
               PopAdvanceSteps DEF Pull
  <2>3. CASE \/ clear_buffer \/ Receive
             \/ \E key \in UserKeys : Press(key) \/ Hold(key) \/ Release(key)
             \/ UNCHANGED keyboard_vars
    <3>1. UNCHANGED <<buffer_vars, initialized>>
      BY <2>3 DEF clear_buffer, Receive, Press, Hold, Release, Send, keyboard_vars
    <3> QED BY <1>1, <1>3, <3>1, SameWaiting
  <2> QED BY <2>1, <2>2, <2>3 DEF KeyboardNext
<1> QED BY <1>2, <1>3 DEF TypedInv

\* Before init nothing is typed or read, and init begins with nothing.
LEMMA StartTypes ==
  ASSUME TypedInv, ~initialized, [KeyboardNext]_keyboard_vars
  PROVE  /\ CharacterOf(result') = CharacterOf(result) \/ CharacterOf(result') = NUL
         /\ initialized' => Typed' = <<>>
PROOF
<1>1. IInv /\ Controller /\ waiting = <<>> /\ wire = <<>> /\ ~irq
  BY DEF TypedInv, Controller
<1>2. CASE init
  <2>1. /\ waiting' = <<>> /\ result' = result /\ wire' = <<>> /\ output' = nothing
    BY <1>1, <1>2, SameWaiting DEF init, device_vars
  <2>2. Buffered' = <<>> /\ Sent' = <<>>
    <3>1. <<>> \o <<>> = <<>>
      OBVIOUS
    <3> QED BY <2>1, <3>1 DEF Buffered, Sent
  <2>3. Typed' = <<>>
    BY <2>2, AnySeq DEF Typed
  <2> QED BY <2>1, <2>3
<1>3. CASE Pull
  <2>1. ~initialized'
    BY <1>3 DEF Pull
  <2> QED BY <1>1, <1>3, <2>1, PopEmptySteps, PopTestSteps, PopReadSteps, PopClearSteps,
             PopAdvanceSteps, ValueTypeAssumption DEF Pull
<1>4. CASE clear_buffer \/ UNCHANGED keyboard_vars
  <2>1. UNCHANGED <<buffer_vars, initialized>>
    BY <1>4 DEF clear_buffer, keyboard_vars
  <2> QED BY <2>1, SameWaiting
<1>5. ~on_isr_callback /\ ~Receive /\ \A key \in UserKeys : ~Press(key) /\ ~Hold(key) /\ ~Release(key)
  BY <1>1 DEF on_isr_callback, Receive, Press, Hold, Release, Send
<1> QED BY <1>2, <1>3, <1>4, <1>5 DEF KeyboardNext

\* A key adds its legend when it goes up, if it has one, and nothing else.
LEMMA KeyTypes ==
  ASSUME TypedFacts, TypedFacts', Controller, NEW key \in UserKeys,
         Press(key) \/ Hold(key) \/ Release(key)
  PROVE  /\ result' = result
         /\ Typed' = Typed \/ \E ch \in Legends : Typed' = Append(Typed, ch)
PROOF
<1>1. Typed \in Seq(Any)
  <2>1. Waiting \in Seq(Any) /\ Written(Fetched) \in Seq(Any) /\ OnWire \in Seq(Any)
    BY DEF TypedFacts
  <2>2. Waiting \o (Written(Fetched) \o OnWire) \in Seq(Any)
    BY ONLY <2>1, ConcatIs
  <2> QED BY <2>2 DEF TypedFacts
<1>2. Typed \o <<>> = Typed
  BY <1>1, AnySeq
<1>3. CASE Press(key) \/ Hold(key)
  <2>1. Send(Make(key)) /\ Make(key) \in Seq(ScanCodes)
    BY <1>3, Codes DEF Press, Hold
  <2> QED BY <1>2, <2>1, SendTypes, StrokesOfKeys
<1>4. CASE Release(key)
  <2>1. Send(Break(key)) /\ Break(key) \in Seq(ScanCodes)
    BY <1>4, Codes DEF Release
  <2>2. Typed' = Typed \o Written(Strokes(Break(key))) /\ result' = result
    BY <2>1, SendTypes
  <2>3. CASE key.prefixed \/ key.legend = NUL
    BY <1>2, <2>2, <2>3, StrokesOfKeys
  <2>4. CASE ~(key.prefixed \/ key.legend = NUL)
    <3>1. key.legend \in Legends /\ key.legend \in Any
      BY <2>4 DEF Legends, Any
    <3>2. Typed' = Typed \o <<key.legend>>
      BY <2>2, <2>4, StrokesOfKeys
    <3>3. Typed \o <<key.legend>> = Append(Typed, key.legend)
      BY <1>1, <3>1
    <3> QED BY <2>2, <3>1, <3>2, <3>3
  <2> QED BY <2>3, <2>4
<1> QED BY <1>3, <1>4

LEMMA TypingStep ==
  TypedInv /\ TypedInv' /\ TypedFacts /\ TypedFacts' /\ [KeyboardNext]_keyboard_vars
    => [Typing!Next]_(Typing!vars)
PROOF
<1> DEFINE typed == IF initialized THEN Typed ELSE <<>>
           got == CharacterOf(result)
<1> SUFFICES ASSUME TypedInv, TypedInv', TypedFacts, TypedFacts',
                    [KeyboardNext]_keyboard_vars
             PROVE  [Typing!Next]_(Typing!vars)
  OBVIOUS
<1>1. IInv /\ Controller
  BY DEF TypedInv
<1>2. \/ typed' = typed /\ got' = got
      \/ typed' = typed /\ got' = NUL
      \/ \E ch \in Legends : typed' = Append(typed, ch) /\ got' = got
      \/ full /\ got' = got /\ \E i \in DOMAIN typed : typed' = Typing!RemoveAt(typed, i)
      \/ typed # <<>> /\ got' = Head(typed) /\ typed' = Tail(typed)
  <2>1. CASE ~initialized
    BY <2>1, StartTypes
  <2>2. CASE initialized
    <3>1. initialized'
      BY <2>2 DEF KeyboardNext, clear_buffer, init, Press, Hold, Release, Send, Receive,
                  on_isr_callback, Pull, keyboard_vars
    <3>2. typed = Typed /\ typed' = Typed'
      BY <2>2, <3>1
    <3> HIDE DEF typed
    <3>3. CASE Pull
      BY <1>1, <3>2, <3>3, PullTypes
    <3>4. CASE on_isr_callback
      BY <1>1, <3>2, <3>4, PushTypes
    <3>5. CASE Receive
      BY <1>1, <3>2, <3>5, ReceiveTypes
    <3>6. ASSUME NEW key \in UserKeys, Press(key) \/ Hold(key) \/ Release(key)
          PROVE  \/ Typed' = Typed /\ result' = result
                 \/ \E ch \in Legends : Typed' = Append(Typed, ch) /\ result' = result
      BY <1>1, <3>6, KeyTypes
    <3>7. CASE UNCHANGED keyboard_vars
      <4>1. waiting' = waiting /\ result' = result
        BY <3>7, SameWaiting DEF keyboard_vars
      <4>2. Typed' = Typed
        BY <3>7, <4>1 DEF keyboard_vars, device_vars, Typed, Buffered, Sent
      <4> QED BY <3>2, <4>1, <4>2
    <3>8. ~clear_buffer /\ ~init
      BY <2>2 DEF clear_buffer, init
    <3> QED BY <3>2, <3>3, <3>4, <3>5, <3>6, <3>7, <3>8 DEF KeyboardNext
  <2> QED BY <2>1, <2>2
<1> HIDE DEF typed, got
<1>3. Typing!Next \/ (typed' = typed /\ got' = got)
  BY <1>2 DEF Typing!Next, Typing!Stroke, Typing!Lose, Typing!Read, Typing!ReadOther,
              Legends, typed, got, Typed
<1> QED BY <1>3 DEF Typing!vars, typed, got, Typed

\* What is typed is read: a press, a repeat, a prefix or a key without a character
\* is never taken for a stroke, the interrupt's pushes between the terminal's
\* accesses neither reorder nor duplicate a character, and one is lost only while
\* the driver's buffer is full.
THEOREM TypedIsRead == KeyboardSpec => ReadsWhatIsTyped
PROOF
<1>1. KeyboardInit => Typing!Init
  <2> SUFFICES ASSUME KeyboardInit PROVE Typing!Init
    OBVIOUS
  <2>1. ~initialized /\ result = value_type
    BY DEF KeyboardInit, Init
  <2> QED BY <2>1, ValueTypeAssumption DEF Typing!Init
<1>2. KeyboardInit => TypedInv
  BY InitTypedInv
<1>3. TypedInv => TypedFacts
  BY TypedIs DEF TypedInv
<1> QED
  BY <1>1, <1>2, <1>3, StepTypedInv, TypingStep, PTL
  DEF KeyboardSpec, ReadsWhatIsTyped, Typing!Spec
=============================================================================
