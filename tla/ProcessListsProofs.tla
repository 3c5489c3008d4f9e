-------------------------- MODULE ProcessListsProofs --------------------------
(***************************************************************************)
(* What the operations on the scheduler's lists do to the set of processes *)
(* a list holds, and that they keep a list free of duplicates.             *)
(***************************************************************************)
EXTENDS ProcessLists, FiniteSetTheorems, SequenceTheorems, TLAPS

LEMMA ReverseElements ==
  ASSUME NEW S, NEW s \in Seq(S)
  PROVE  /\ Reverse(s) \in Seq(S)
         /\ ToSet(Reverse(s)) = ToSet(s)
         /\ IsInjective(s) => IsInjective(Reverse(s))
PROOF
<1>1. /\ Reverse(s) \in Seq(S) /\ Len(Reverse(s)) = Len(s)
      /\ DOMAIN Reverse(s) = 1..Len(s) /\ DOMAIN s = 1..Len(s)
      /\ Len(s) \in Nat
  BY DEF Reverse
<1>2. \A i \in 1..Len(s) : /\ Len(s) - i + 1 \in 1..Len(s)
                           /\ Reverse(s)[i] = s[Len(s) - i + 1]
                           /\ s[i] = Reverse(s)[Len(s) - i + 1]
  BY <1>1 DEF Reverse
<1>3. ToSet(Reverse(s)) = ToSet(s)
  BY <1>1, <1>2 DEF ToSet
<1>4. ASSUME IsInjective(s) PROVE IsInjective(Reverse(s))
  <2> SUFFICES ASSUME NEW i \in 1..Len(s), NEW j \in 1..Len(s),
                      Reverse(s)[i] = Reverse(s)[j]
               PROVE  i = j
    BY <1>1 DEF IsInjective
  <2>1. Len(s) - i + 1 = Len(s) - j + 1
    <3>1. s[Len(s) - i + 1] = s[Len(s) - j + 1]
      BY <1>2
    <3> QED BY <3>1, <1>1, <1>2, <1>4 DEF IsInjective
  <2> QED BY <2>1, <1>1
<1> QED BY <1>1, <1>3, <1>4

LEMMA ConcatElements ==
  ASSUME NEW S, NEW s \in Seq(S), NEW t \in Seq(S)
  PROVE  /\ s \o t \in Seq(S)
         /\ ToSet(s \o t) = ToSet(s) \cup ToSet(t)
         /\ IsInjective(s) /\ IsInjective(t) /\ ToSet(s) \cap ToSet(t) = {}
            => IsInjective(s \o t)
PROOF
<1> DEFINE u == s \o t
<1>1. /\ u \in Seq(S) /\ Len(u) = Len(s) + Len(t)
      /\ \A i \in 1..Len(u) : u[i] = IF i <= Len(s) THEN s[i] ELSE t[i - Len(s)]
      /\ DOMAIN u = 1..Len(u) /\ DOMAIN s = 1..Len(s) /\ DOMAIN t = 1..Len(t)
      /\ Len(s) \in Nat /\ Len(t) \in Nat
  OBVIOUS
<1>2. ToSet(u) = ToSet(s) \cup ToSet(t)
  <2>1. ToSet(u) \subseteq ToSet(s) \cup ToSet(t)
    BY <1>1 DEF ToSet
  <2>2. ToSet(s) \subseteq ToSet(u)
    BY <1>1 DEF ToSet
  <2>3. ASSUME NEW j \in 1..Len(t) PROVE t[j] \in ToSet(u)
    <3>1. Len(s) + j \in 1..Len(u) /\ u[Len(s) + j] = t[j]
      BY <1>1
    <3> QED BY <3>1, <1>1 DEF ToSet
  <2> QED BY <2>1, <2>2, <2>3, <1>1 DEF ToSet
<1>3. ASSUME IsInjective(s), IsInjective(t), ToSet(s) \cap ToSet(t) = {}
      PROVE  IsInjective(u)
  <2>1. \A i \in 1..Len(s), j \in 1..Len(t) : s[i] # t[j]
    BY <1>1, <1>3 DEF ToSet
  <2>2. ASSUME NEW i \in 1..Len(u), NEW j \in 1..Len(u), u[i] = u[j]
        PROVE  i = j
    <3>1. CASE i <= Len(s) /\ j <= Len(s)
      BY <3>1, <2>2, <1>1, <1>3 DEF IsInjective
    <3>2. CASE ~(i <= Len(s)) /\ ~(j <= Len(s))
      <4>1. i - Len(s) \in 1..Len(t) /\ j - Len(s) \in 1..Len(t)
        BY <3>2, <1>1
      <4>2. t[i - Len(s)] = t[j - Len(s)]
        BY <3>2, <2>2, <1>1
      <4>3. i - Len(s) = j - Len(s)
        BY <4>1, <4>2, <1>1, <1>3 DEF IsInjective
      <4> QED BY <4>3, <1>1
    <3>3. CASE i <= Len(s) /\ ~(j <= Len(s))
      <4>1. i \in 1..Len(s) /\ j - Len(s) \in 1..Len(t)
        BY <3>3, <1>1
      <4> QED BY <4>1, <3>3, <2>1, <2>2, <1>1
    <3>4. CASE ~(i <= Len(s)) /\ j <= Len(s)
      <4>1. j \in 1..Len(s) /\ i - Len(s) \in 1..Len(t)
        BY <3>4, <1>1
      <4> QED BY <4>1, <3>4, <2>1, <2>2, <1>1
    <3> QED BY <3>1, <3>2, <3>3, <3>4
  <2> QED BY <2>2, <1>1 DEF IsInjective
<1> QED BY <1>1, <1>2, <1>3

LEMMA AppendElements ==
  ASSUME NEW S, NEW s \in Seq(S), NEW e \in S
  PROVE  /\ Append(s, e) \in Seq(S)
         /\ ToSet(Append(s, e)) = ToSet(s) \cup {e}
         /\ IsInjective(s) /\ e \notin ToSet(s) => IsInjective(Append(s, e))
PROOF
<1>1. /\ Append(s, e) \in Seq(S) /\ Len(Append(s, e)) = Len(s) + 1
      /\ \A i \in 1..Len(s) : Append(s, e)[i] = s[i]
      /\ Append(s, e)[Len(s) + 1] = e
      /\ DOMAIN Append(s, e) = 1..(Len(s) + 1) /\ DOMAIN s = 1..Len(s)
      /\ Len(s) \in Nat
  OBVIOUS
<1>2. ToSet(Append(s, e)) = ToSet(s) \cup {e}
  <2>1. \A i \in 1..(Len(s) + 1) : i \in 1..Len(s) \/ i = Len(s) + 1
    BY <1>1
  <2>2. 1..Len(s) \subseteq 1..(Len(s) + 1) /\ Len(s) + 1 \in 1..(Len(s) + 1)
    BY <1>1
  <2> QED BY <1>1, <2>1, <2>2, Zenon DEF ToSet
<1>3. ASSUME IsInjective(s), e \notin ToSet(s) PROVE IsInjective(Append(s, e))
  BY <1>1, <1>3 DEF IsInjective, ToSet
<1> QED BY <1>1, <1>2, <1>3

LEMMA TailElements ==
  ASSUME NEW S, NEW s \in Seq(S), s # <<>>
  PROVE  /\ Head(s) \in ToSet(s)
         /\ Tail(s) \in Seq(S)
         /\ ToSet(s) = ToSet(Tail(s)) \cup {Head(s)}
         /\ IsInjective(s) => IsInjective(Tail(s)) /\ Head(s) \notin ToSet(Tail(s))
PROOF
<1>1. /\ Tail(s) \in Seq(S) /\ Len(Tail(s)) = Len(s) - 1
      /\ \A i \in 1..(Len(s) - 1) : Tail(s)[i] = s[i + 1]
      /\ Head(s) = s[1] /\ Len(s) \in Nat /\ Len(s) >= 1
      /\ DOMAIN s = 1..Len(s) /\ DOMAIN Tail(s) = 1..(Len(s) - 1)
  OBVIOUS
<1>2. Head(s) \in ToSet(s)
  BY <1>1 DEF ToSet
<1>3. \A i \in 2..Len(s) : i - 1 \in 1..(Len(s) - 1) /\ s[i] = Tail(s)[i - 1]
  BY <1>1
<1>4. \A i \in 1..(Len(s) - 1) : i + 1 \in 2..Len(s)
  BY <1>1
<1>5. \A i \in 1..Len(s) : i = 1 \/ i \in 2..Len(s)
  BY <1>1
<1>6. ToSet(s) = ToSet(Tail(s)) \cup {Head(s)}
  <2>1. \A i \in 1..(Len(s) - 1) : i + 1 \in 1..Len(s)
    BY <1>1
  <2>2. ToSet(Tail(s)) \subseteq ToSet(s)
    BY <1>1, <2>1 DEF ToSet
  <2>3. \A i \in 1..Len(s) : s[i] \in ToSet(Tail(s)) \cup {Head(s)}
    BY <1>1, <1>3, <1>5 DEF ToSet
  <2> QED BY <1>1, <1>2, <2>2, <2>3 DEF ToSet
<1>7. ASSUME IsInjective(s)
      PROVE  IsInjective(Tail(s)) /\ Head(s) \notin ToSet(Tail(s))
  BY <1>1, <1>4, <1>7 DEF IsInjective, ToSet
<1> QED BY <1>1, <1>2, <1>6, <1>7

\* The rank of an index in a finite set of indices is a bijection, so Picked
\* takes each of them exactly once.
LEMMA RankBijection ==
  ASSUME NEW n \in Nat, NEW I \in SUBSET (1..n)
  PROVE  /\ Cardinality(I) \in Nat
         /\ \A k \in 1..Cardinality(I) :
                \E i \in I : Cardinality({j \in I : j <= i}) = k
         /\ \A i \in I : Cardinality({j \in I : j <= i}) \in 1..Cardinality(I)
         /\ \A i, h \in I : Cardinality({j \in I : j <= i}) =
                            Cardinality({j \in I : j <= h}) => i = h
PROOF
<1> DEFINE upto(i) == {j \in I : j <= i}
           rank == [i \in I |-> Cardinality(upto(i))]
           m == Cardinality(I)
<1>1. IsFiniteSet(I) /\ m \in Nat
  <2>1. IsFiniteSet(1..n)
    BY FS_Interval
  <2>2. IsFiniteSet(I)
    BY <2>1, FS_Subset
  <2> QED BY <2>2, FS_CardinalityType
<1>2. ASSUME NEW i \in I PROVE /\ IsFiniteSet(upto(i))
                               /\ Cardinality(upto(i)) \in 1..m
  <2>1. upto(i) \in SUBSET I /\ i \in upto(i)
    OBVIOUS
  <2>2. IsFiniteSet(upto(i)) /\ Cardinality(upto(i)) <= m
    BY <1>1, <2>1, FS_Subset
  <2>3. Cardinality(upto(i)) \in Nat /\ Cardinality(upto(i)) # 0
    BY <2>1, <2>2, FS_CardinalityType, FS_EmptySet
  <2> QED BY <2>2, <2>3, <1>1
<1>3. ASSUME NEW i \in I, NEW h \in I, i < h
      PROVE  Cardinality(upto(i)) # Cardinality(upto(h))
  <2>1. \A j \in I : j \in Int
    OBVIOUS
  <2>2. upto(i) \subseteq upto(h)
    <3>1. \A j \in I : j <= i => j <= h
      BY <1>3, <2>1
    <3> QED BY <3>1, Zenon
  <2>3. h \in upto(h) /\ h \notin upto(i)
    BY <1>3, <2>1
  <2> QED BY <2>2, <2>3, <1>2, FS_Subset
<1>4. \A i, h \in I : Cardinality(upto(i)) = Cardinality(upto(h)) => i = h
  BY <1>3
<1>5. rank \in Injection(I, 1..m)
  BY <1>2, <1>4 DEF Injection, IsInjective
<1>6. IsFiniteSet(1..m) /\ Cardinality(1..m) = m
  BY <1>1, FS_Interval
<1>7. rank \in Surjection(I, 1..m)
  BY <1>5, <1>6, FS_Injection
<1>8. \A k \in 1..m : \E i \in I : Cardinality(upto(i)) = k
  BY <1>7 DEF Surjection
<1> QED BY <1>1, <1>2, <1>4, <1>8

LEMMA PickedElements ==
  ASSUME NEW S, NEW s \in Seq(S), NEW T
  PROVE  /\ Picked(s, T) \in Seq(S)
         /\ ToSet(Picked(s, T)) = ToSet(s) \cap T
         /\ IsInjective(s) => IsInjective(Picked(s, T))
PROOF
<1> DEFINE I == {i \in DOMAIN s : s[i] \in T}
           rank(i) == Cardinality({j \in I : j <= i})
           at(k) == CHOOSE i \in I : rank(i) = k
           m == Cardinality(I)
<1>1. DOMAIN s = 1..Len(s) /\ Len(s) \in Nat /\ I \in SUBSET (1..Len(s))
  OBVIOUS
<1> HIDE DEF I
<1>2. /\ m \in Nat
      /\ \A k \in 1..m : \E i \in I : rank(i) = k
      /\ \A i \in I : rank(i) \in 1..m
      /\ \A i, h \in I : rank(i) = rank(h) => i = h
  BY <1>1, RankBijection
<1> HIDE DEF rank, m
<1>3. \A k \in 1..m : at(k) \in I /\ rank(at(k)) = k
  BY <1>2
<1>4. \A i \in I : at(rank(i)) = i
  BY <1>2, <1>3
<1> HIDE DEF at
<1>5. Picked(s, T) = [k \in 1..m |-> s[at(k)]]
  BY DEF Picked, I, rank, at, m
<1>6. \A i \in I : i \in DOMAIN s /\ s[i] \in S /\ s[i] \in T
  BY <1>1 DEF I
<1>7. Picked(s, T) \in Seq(S)
  BY <1>2, <1>3, <1>5, <1>6
<1>8. ToSet(Picked(s, T)) = ToSet(s) \cap T
  <2>1. ToSet(Picked(s, T)) = {s[at(k)] : k \in 1..m}
    BY <1>5 DEF ToSet
  <2>2. {s[at(k)] : k \in 1..m} = {s[i] : i \in I}
    BY <1>2, <1>3, <1>4
  <2>3. {s[i] : i \in I} = ToSet(s) \cap T
    BY DEF I, ToSet
  <2> QED BY <2>1, <2>2, <2>3
<1>9. ASSUME IsInjective(s) PROVE IsInjective(Picked(s, T))
  <2>1. \A k, h \in 1..m : s[at(k)] = s[at(h)] => at(k) = at(h)
    BY <1>3, <1>6, <1>9 DEF IsInjective
  <2>2. \A k, h \in 1..m : at(k) = at(h) => k = h
    BY <1>3
  <2> QED BY <1>5, <2>1, <2>2 DEF IsInjective
<1> QED BY <1>7, <1>8, <1>9

LEMMA KeptElements ==
  ASSUME NEW S, NEW s \in Seq(S), NEW T
  PROVE  /\ Kept(s, T) \in Seq(S)
         /\ ToSet(Kept(s, T)) = ToSet(s) \ T
         /\ IsInjective(s) => IsInjective(Kept(s, T))
BY PickedElements DEF Kept

\* Moving the elements of s that are in T to the back or the front of t.
LEMMA MoveElements ==
  ASSUME NEW S, NEW s \in Seq(S), NEW t \in Seq(S), NEW T
  PROVE  /\ t \o Picked(s, T) \in Seq(S)
         /\ ToSet(t \o Picked(s, T)) = ToSet(t) \cup (ToSet(s) \cap T)
         /\ Reverse(Picked(s, T)) \o t \in Seq(S)
         /\ ToSet(Reverse(Picked(s, T)) \o t) = ToSet(t) \cup (ToSet(s) \cap T)
         /\ IsInjective(s) /\ IsInjective(t) /\ ToSet(s) \cap ToSet(t) = {}
            => IsInjective(t \o Picked(s, T)) /\ IsInjective(Reverse(Picked(s, T)) \o t)
PROOF
<1> DEFINE some == Picked(s, T)
           back == Reverse(some)
<1>1. /\ some \in Seq(S) /\ ToSet(some) = ToSet(s) \cap T
      /\ IsInjective(s) => IsInjective(some)
  BY PickedElements
<1> HIDE DEF some
<1>2. /\ back \in Seq(S) /\ ToSet(back) = ToSet(s) \cap T
      /\ IsInjective(s) => IsInjective(back)
  BY <1>1, ReverseElements
<1> HIDE DEF back
<1>3. /\ t \o some \in Seq(S)
      /\ ToSet(t \o some) = ToSet(t) \cup ToSet(some)
      /\ IsInjective(t) /\ IsInjective(some) /\ ToSet(t) \cap ToSet(some) = {}
         => IsInjective(t \o some)
  BY <1>1, ConcatElements
<1>4. /\ back \o t \in Seq(S)
      /\ ToSet(back \o t) = ToSet(back) \cup ToSet(t)
      /\ IsInjective(back) /\ IsInjective(t) /\ ToSet(back) \cap ToSet(t) = {}
         => IsInjective(back \o t)
  BY <1>2, ConcatElements
<1>5. ToSet(s) \cap ToSet(t) = {} =>
        ToSet(t) \cap ToSet(some) = {} /\ ToSet(back) \cap ToSet(t) = {}
  BY <1>1, <1>2
<1>6. some = Picked(s, T) /\ back = Reverse(Picked(s, T))
  BY DEF some, back
<1>7. ToSet(t \o some) = ToSet(t) \cup (ToSet(s) \cap T)
  BY <1>1, <1>3
<1>8. ToSet(back \o t) = ToSet(t) \cup (ToSet(s) \cap T)
  BY <1>2, <1>4
<1>9. IsInjective(s) /\ IsInjective(t) /\ ToSet(s) \cap ToSet(t) = {}
        => IsInjective(t \o some) /\ IsInjective(back \o t)
  BY <1>1, <1>2, <1>3, <1>4, <1>5
<1> QED BY <1>3, <1>4, <1>6, <1>7, <1>8, <1>9

----------------------------------------------------------------------------
(* What they do to an element at a time, as erase_if does.                 *)

\* f lists the indices in I, of which there are m, in ascending order.
Ascending(f, m, I) ==
    /\ f \in [1..m -> I]
    /\ \A i \in I : \E k \in 1..m : f[k] = i
    /\ \A h, k \in 1..m : h < k => f[h] < f[k]

LEMMA AscendingRank ==
  ASSUME NEW I \in SUBSET Nat, NEW m \in Nat, NEW f, Ascending(f, m, I)
  PROVE  /\ Cardinality(I) = m
         /\ \A k \in 1..m : Cardinality({j \in I : j <= f[k]}) = k
PROOF
<1>1. ASSUME NEW k \in 0..m, NEW J \in SUBSET I,
             \A h \in 1..k : f[h] \in J, \A j \in J : \E h \in 1..k : f[h] = j
      PROVE  Cardinality(J) = k
  <2> DEFINE g == [h \in 1..k |-> f[h]]
  <2>1. g \in [1..k -> J] /\ \A h \in 1..k : g[h] = f[h]
    BY <1>1
  <2>2. \A h, i \in 1..k : g[h] = g[i] => h = i
    <3> SUFFICES ASSUME NEW h \in 1..k, NEW i \in 1..k, f[h] = f[i] PROVE h = i
      BY <2>1
    <3>1. h \in 1..m /\ i \in 1..m
      OBVIOUS
    <3>2. f[h] \in I /\ f[i] \in I
      BY <3>1 DEF Ascending
    <3>3. f[h] \in Nat /\ f[i] \in Nat
      BY <3>2
    <3>4. h < i => f[h] < f[i]
      BY <3>1 DEF Ascending
    <3>5. i < h => f[i] < f[h]
      BY <3>1 DEF Ascending
    <3> QED BY <3>1, <3>3, <3>4, <3>5
  <2> HIDE DEF g
  <2>3. g \in Bijection(1..k, J)
    <3>1. g \in Injection(1..k, J)
      BY <2>1, <2>2 DEF Injection, IsInjective
    <3>2. g \in Surjection(1..k, J)
      BY <2>1, <1>1 DEF Surjection
    <3> QED BY <3>1, <3>2 DEF Bijection
  <2>4. IsFiniteSet(1..k) /\ Cardinality(1..k) = k
    BY FS_Interval
  <2> QED BY <2>3, <2>4, FS_Bijection DEF ExistsBijection
<1>2. Cardinality(I) = m
  BY <1>1 DEF Ascending
<1>3. ASSUME NEW k \in 1..m PROVE Cardinality({j \in I : j <= f[k]}) = k
  <2>1. \A h \in 1..m : f[h] \in I /\ f[h] \in Nat
    BY DEF Ascending
  <2>2. \A h \in 1..m : f[h] <= f[k] <=> h <= k
    <3> TAKE h \in 1..m
    <3>1. h < k => f[h] < f[k]
      BY DEF Ascending
    <3>2. k < h => f[k] < f[h]
      BY DEF Ascending
    <3> QED BY <3>1, <3>2, <2>1
  <2> DEFINE J == {j \in I : j <= f[k]}
  <2>3. \A h \in 1..k : h \in 1..m
    OBVIOUS
  <2>4. \A h \in 1..k : f[h] \in J
    BY <2>1, <2>2, <2>3
  <2>5. \A j \in J : \E h \in 1..k : f[h] = j
    <3> TAKE j \in J
    <3>1. PICK h \in 1..m : f[h] = j
      BY DEF Ascending
    <3>2. h \in 1..k
      BY <3>1, <2>2
    <3> QED BY <3>1, <3>2
  <2> HIDE DEF J
  <2>6. J \in SUBSET I
    BY DEF J
  <2>7. Cardinality(J) = k
    BY <1>1, <2>4, <2>5, <2>6
  <2> QED BY <2>7 DEF J
<1> QED BY <1>2, <1>3

Indices(s, T) == {i \in DOMAIN s : s[i] \in T}

\* Picked takes the elements at the indices that are picked, in their order.
LEMMA PickedIs ==
  ASSUME NEW S, NEW s \in Seq(S), NEW T, NEW m \in Nat, NEW f,
         Ascending(f, m, Indices(s, T))
  PROVE  Picked(s, T) = [k \in 1..m |-> s[f[k]]]
PROOF
<1> DEFINE I == Indices(s, T)
           rank(i) == Cardinality({j \in I : j <= i})
<1>1. I \in SUBSET Nat
  BY DEF Indices
<1> HIDE DEF I
<1>2. Ascending(f, m, I)
  BY DEF I
<1>3. Cardinality(I) = m /\ \A k \in 1..m : rank(f[k]) = k
  BY <1>1, <1>2, AscendingRank
<1> HIDE DEF rank
<1>4. \A k \in 1..m : (CHOOSE i \in I : rank(i) = k) = f[k]
  <2> TAKE k \in 1..m
  <2>1. f[k] \in I /\ rank(f[k]) = k
    BY <1>2, <1>3 DEF Ascending
  <2>2. \A i \in I : rank(i) = k => i = f[k]
    <3> SUFFICES ASSUME NEW i \in I, rank(i) = k PROVE i = f[k]
      OBVIOUS
    <3>1. PICK h \in 1..m : f[h] = i
      BY <1>2 DEF Ascending
    <3> QED BY <3>1, <1>3
  <2> QED BY <2>1, <2>2
<1>5. Picked(s, T) = [k \in 1..Cardinality(I) |-> s[CHOOSE i \in I : rank(i) = k]]
  BY DEF Picked, I, rank, Indices
<1> QED BY <1>3, <1>4, <1>5

\* There is such an order.
LEMMA AscendingExists ==
  ASSUME NEW n \in Nat, NEW I \in SUBSET (1..n)
  PROVE  \E m \in Nat : \E f : Ascending(f, m, I)
PROOF
<1> DEFINE rank(i) == Cardinality({j \in I : j <= i})
           m == Cardinality(I)
           f == [k \in 1..m |-> CHOOSE i \in I : rank(i) = k]
<1>1. /\ m \in Nat
      /\ \A k \in 1..m : \E i \in I : rank(i) = k
      /\ \A i \in I : rank(i) \in 1..m
      /\ \A i, h \in I : rank(i) = rank(h) => i = h
  BY RankBijection
<1>2. ASSUME NEW i \in I, NEW h \in I, i <= h PROVE rank(i) <= rank(h)
  <2>1. IsFiniteSet({j \in I : j <= h})
    <3>1. IsFiniteSet(1..n)
      BY FS_Interval
    <3> QED BY <3>1, FS_Subset
  <2>2. {j \in I : j <= i} \in SUBSET {j \in I : j <= h}
    <3>1. \A j \in I : j <= i => j <= h
      BY <1>2
    <3> QED BY <3>1, Zenon
  <2> QED BY <2>1, <2>2, FS_Subset
<1> HIDE DEF rank, m
<1>3. \A k \in 1..m : f[k] \in I /\ rank(f[k]) = k
  BY <1>1
<1>4. f \in [1..m -> I]
  BY <1>3
<1>5. \A i \in I : \E k \in 1..m : f[k] = i
  <2> TAKE i \in I
  <2>1. rank(i) \in 1..m
    BY <1>1
  <2>2. f[rank(i)] = i
    BY <1>1, <1>3, <2>1
  <2> QED BY <2>1, <2>2
<1> HIDE DEF f
<1>6. ASSUME NEW h \in 1..m, NEW k \in 1..m, h < k PROVE f[h] < f[k]
  <2>0. \A i \in I : i \in Int
    OBVIOUS
  <2>1. f[h] \in I /\ f[k] \in I /\ f[h] \in Int /\ f[k] \in Int
    BY <1>3, <2>0
  <2>2. f[k] <= f[h] => k <= h
    BY <1>2, <1>3, <2>1
  <2> QED BY <2>1, <2>2, <1>6
<1>7. Ascending(f, m, I)
  BY <1>4, <1>5, <1>6 DEF Ascending
<1> QED BY <1>1, <1>7

LEMMA ConcatIs ==
  ASSUME NEW S, NEW a \in Seq(S), NEW b \in Seq(S)
  PROVE  /\ a \o b \in Seq(S) /\ Len(a \o b) = Len(a) + Len(b)
         /\ \A k \in 1..(Len(a) + Len(b)) :
                (a \o b)[k] = IF k <= Len(a) THEN a[k] ELSE b[k - Len(a)]
BY ConcatProperties, SMTT(60)

\* Picked takes two sequences one after the other.
LEMMA PickedConcat ==
  ASSUME NEW S, NEW s \in Seq(S), NEW t \in Seq(S), NEW T
  PROVE  Picked(s \o t, T) = Picked(s, T) \o Picked(t, T)
PROOF
<1> DEFINE u == s \o t
<1>1. /\ u \in Seq(S) /\ DOMAIN u = 1..(Len(s) + Len(t))
      /\ \A i \in 1..Len(s) : u[i] = s[i]
      /\ \A i \in 1..Len(t) : u[Len(s) + i] = t[i]
  <2>1. /\ \A i \in 1..Len(t) : Len(s) + i \in 1..(Len(s) + Len(t)) /\ ~(Len(s) + i <= Len(s))
        /\ \A i \in 1..Len(s) : i \in 1..(Len(s) + Len(t)) /\ i <= Len(s)
    OBVIOUS
  <2> QED BY <2>1
<1>2. Len(s) \in Nat /\ Len(t) \in Nat /\ DOMAIN s = 1..Len(s) /\ DOMAIN t = 1..Len(t)
  OBVIOUS
<1> HIDE DEF u
<1>3. \A r \in Seq(S) : Indices(r, T) \in SUBSET (1..Len(r)) /\ Len(r) \in Nat
  BY DEF Indices
<1>4. PICK m \in Nat : \E f : Ascending(f, m, Indices(s, T))
  BY <1>3, AscendingExists
<1>5. PICK f : Ascending(f, m, Indices(s, T))
  BY <1>4
<1>6. PICK p \in Nat : \E f2 : Ascending(f2, p, Indices(t, T))
  BY <1>3, AscendingExists
<1>7. PICK g : Ascending(g, p, Indices(t, T))
  BY <1>6
<1> DEFINE e == [k \in 1..(m + p) |-> IF k <= m THEN f[k] ELSE Len(s) + g[k - m]]
<1>8. ASSUME NEW k \in 1..(m + p)
      PROVE  \/ k \in 1..m /\ e[k] = f[k] /\ f[k] \in Indices(s, T)
             \/ /\ k - m \in 1..p /\ e[k] = Len(s) + g[k - m] /\ k > m
                /\ g[k - m] \in Indices(t, T)
  BY <1>5, <1>7 DEF Ascending
<1>9. \A i \in Indices(s, T) : i \in 1..Len(s) /\ i \in Indices(u, T)
  BY <1>1, <1>2 DEF Indices
<1>10. \A i \in Indices(t, T) : i \in 1..Len(t) /\ Len(s) + i \in Indices(u, T)
  BY <1>1, <1>2 DEF Indices
<1>11. \A i \in Indices(u, T) : \/ i \in Indices(s, T)
                                \/ i - Len(s) \in Indices(t, T)
  <2> TAKE i \in Indices(u, T)
  <2>1. i \in 1..(Len(s) + Len(t)) /\ u[i] \in T
    BY <1>1 DEF Indices
  <2>2. CASE i <= Len(s)
    <3>1. i \in 1..Len(s)
      BY <2>1, <2>2, <1>2
    <3> QED BY <3>1, <2>1, <1>1, <1>2 DEF Indices
  <2>3. CASE ~(i <= Len(s))
    <3>1. i - Len(s) \in 1..Len(t) /\ Len(s) + (i - Len(s)) = i
      BY <2>1, <2>3, <1>2
    <3>2. u[i] = t[i - Len(s)]
      BY <3>1, <1>1
    <3> QED BY <3>1, <3>2, <2>1, <1>2 DEF Indices
  <2> QED BY <2>2, <2>3
<1>12. e \in [1..(m + p) -> Indices(u, T)]
  BY <1>8, <1>9, <1>10
<1>13. \A i \in Indices(u, T) : \E k \in 1..(m + p) : e[k] = i
  <2> TAKE i \in Indices(u, T)
  <2>1. CASE i \in Indices(s, T)
    <3>1. PICK k \in 1..m : f[k] = i
      BY <2>1, <1>5 DEF Ascending
    <3>2. k \in 1..(m + p) /\ e[k] = i
      BY <3>1
    <3> QED BY <3>2
  <2>2. CASE i - Len(s) \in Indices(t, T)
    <3>1. PICK k \in 1..p : g[k] = i - Len(s)
      BY <2>2, <1>7 DEF Ascending
    <3>2. m + k \in 1..(m + p) /\ ~(m + k <= m) /\ (m + k) - m = k
      OBVIOUS
    <3>3. e[m + k] = Len(s) + (i - Len(s))
      BY <3>1, <3>2
    <3>4. i \in DOMAIN u
      BY DEF Indices
    <3>5. Len(s) + (i - Len(s)) = i
      BY <3>4, <1>1, <1>2
    <3> QED BY <3>2, <3>3, <3>5
  <2> QED BY <2>1, <2>2, <1>11
<1> HIDE DEF e
<1>14. ASSUME NEW h \in 1..(m + p), NEW k \in 1..(m + p), h < k PROVE e[h] < e[k]
  <2>1. CASE k \in 1..m
    <3>1. h \in 1..m
      BY <2>1, <1>14
    <3>2. f[h] < f[k]
      BY <3>1, <2>1, <1>5, <1>14 DEF Ascending
    <3> QED BY <3>1, <3>2, <2>1, <1>8
  <2>2. CASE k > m /\ h \in 1..m
    <3>1. e[h] = f[h] /\ e[h] \in 1..Len(s)
      BY <2>2, <1>8, <1>9
    <3>2. e[k] = Len(s) + g[k - m] /\ g[k - m] \in 1..Len(t)
      BY <2>2, <1>8, <1>10
    <3> QED BY <3>1, <3>2, <1>2
  <2>3. CASE k > m /\ h > m
    <3>1. /\ k - m \in 1..p /\ h - m \in 1..p /\ h - m < k - m
          /\ e[k] = Len(s) + g[k - m] /\ e[h] = Len(s) + g[h - m]
      BY <2>3, <1>8, <1>14
    <3>2. g[h - m] < g[k - m] /\ g[h - m] \in 1..Len(t) /\ g[k - m] \in 1..Len(t)
      BY <3>1, <1>7, <1>10 DEF Ascending
    <3> QED BY <3>1, <3>2, <1>2
  <2> QED BY <2>1, <2>2, <2>3, <1>14
<1>15. Ascending(e, m + p, Indices(u, T))
  BY <1>12, <1>13, <1>14 DEF Ascending
<1>16. /\ Picked(s, T) = [k \in 1..m |-> s[f[k]]]
       /\ Picked(t, T) = [k \in 1..p |-> t[g[k]]]
       /\ Picked(u, T) = [k \in 1..(m + p) |-> u[e[k]]]
  BY <1>1, <1>5, <1>7, <1>15, PickedIs
<1> DEFINE a == [k \in 1..m |-> s[f[k]]]
           b == [k \in 1..p |-> t[g[k]]]
<1>17. /\ a \in Seq(S) /\ Len(a) = m /\ \A k \in 1..m : a[k] = s[f[k]]
  <2>1. \A k \in 1..m : f[k] \in 1..Len(s)
    BY <1>5, <1>9 DEF Ascending
  <2> QED BY <2>1
<1>18. /\ b \in Seq(S) /\ Len(b) = p /\ \A k \in 1..p : b[k] = t[g[k]]
  <2>1. \A k \in 1..p : g[k] \in 1..Len(t)
    BY <1>7, <1>10 DEF Ascending
  <2> QED BY <2>1
<1> HIDE DEF a, b
<1>19. a \o b = [k \in 1..(m + p) |-> u[e[k]]]
  <2>1. /\ a \o b \in Seq(S) /\ Len(a \o b) = m + p
        /\ \A k \in 1..(m + p) : (a \o b)[k] = IF k <= m THEN a[k] ELSE b[k - m]
    <3>1. a \in Seq(S) /\ b \in Seq(S) /\ Len(a) = m /\ Len(b) = p
      BY <1>17, <1>18
    <3>2. /\ a \o b \in Seq(S) /\ Len(a \o b) = Len(a) + Len(b)
          /\ \A k \in 1..(Len(a) + Len(b)) :
                 (a \o b)[k] = IF k <= Len(a) THEN a[k] ELSE b[k - Len(a)]
      BY <3>1, ConcatIs, Zenon
    <3> QED BY <3>1, <3>2, Zenon
  <2> DEFINE c == a \o b
  <2> HIDE DEF c
  <2>4. c \in Seq(S) /\ Len(c) = m + p
    BY <2>1 DEF c
  <2>5. \A k \in 1..(m + p) : c[k] = IF k <= m THEN a[k] ELSE b[k - m]
    BY <2>1 DEF c
  <2>2. c = [k \in 1..(m + p) |-> c[k]]
    BY <2>4
  <2>3. ASSUME NEW k \in 1..(m + p) PROVE c[k] = u[e[k]]
    <3>1. CASE k \in 1..m
      <4>1. e[k] = f[k] /\ f[k] \in 1..Len(s)
        BY <3>1, <1>8, <1>9
      <4> QED BY <4>1, <3>1, <2>5, <1>1, <1>17
    <3>2. CASE k > m
      <4>1. k - m \in 1..p /\ e[k] = Len(s) + g[k - m] /\ g[k - m] \in 1..Len(t)
        BY <3>2, <1>8, <1>10
      <4>2. u[e[k]] = t[g[k - m]]
        BY <4>1, <1>1
      <4>3. ~(k <= m)
        BY <3>2
      <4> QED BY <4>1, <4>2, <4>3, <2>5, <1>18
    <3> QED BY <3>1, <3>2
  <2> QED BY <2>2, <2>3 DEF c
<1> QED BY <1>16, <1>19 DEF a, b, u

\* Only the indices that are picked matter.
Taken(s, I) ==
    [k \in 1..Cardinality(I) |->
        s[CHOOSE i \in I : Cardinality({j \in I : j <= i}) = k]]

LEMMA PickedSame ==
  ASSUME NEW s, NEW T, NEW R, \A i \in DOMAIN s : s[i] \in T <=> s[i] \in R
  PROVE  Picked(s, T) = Picked(s, R)
PROOF
<1>1. Indices(s, T) = Indices(s, R)
  BY Zenon DEF Indices
<1>2. \A Q : Picked(s, Q) = Taken(s, Indices(s, Q))
  BY DEF Picked, Taken, Indices
<1> QED BY <1>1, <1>2

LEMMA PickedEmpty ==
  ASSUME NEW T
  PROVE  Picked(<<>>, T) = <<>> /\ Kept(<<>>, T) = <<>>
PROOF
<1>1. ASSUME NEW R PROVE Picked(<<>>, R) = <<>>
  <2> DEFINE none == <<>>
  <2>1. none \in Seq({})
    OBVIOUS
  <2> HIDE DEF none
  <2>2. Picked(none, R) \in Seq({})
    BY <2>1, PickedElements
  <2>3. Picked(none, R) = <<>>
    BY <2>2
  <2> QED BY <2>3 DEF none
<1> QED BY <1>1 DEF Kept

LEMMA PickedOne ==
  ASSUME NEW S, NEW x \in S, NEW T
  PROVE  Picked(<<x>>, T) = IF x \in T THEN <<x>> ELSE <<>>
PROOF
<1> DEFINE one == <<x>>
           p == Picked(one, T)
<1>1. one \in Seq(S) /\ DOMAIN one = {1} /\ one[1] = x
  OBVIOUS
<1> HIDE DEF one
<1>2. ToSet(one) = {x} /\ IsInjective(one)
  BY <1>1 DEF ToSet, IsInjective
<1>3. p \in Seq(S) /\ ToSet(p) = {x} \cap T /\ IsInjective(p)
  BY <1>1, <1>2, PickedElements
<1> HIDE DEF p
<1>4. DOMAIN p = 1..Len(p) /\ Len(p) \in Nat
  BY <1>3
<1>5. \A i \in 1..Len(p) : p[i] = x /\ x \in T
  <2>1. \A i \in 1..Len(p) : p[i] \in ToSet(p)
    BY <1>4 DEF ToSet
  <2> QED BY <2>1, <1>3
<1>6. \A i \in 1..Len(p) : i = 1
  <2> TAKE i \in 1..Len(p)
  <2>1. 1 \in 1..Len(p)
    BY <1>4
  <2> QED BY <2>1, <1>3, <1>4, <1>5 DEF IsInjective
<1>7. Len(p) = 0 \/ Len(p) = 1
  <2>1. Len(p) > 1 => 2 \in 1..Len(p)
    BY <1>4
  <2> QED BY <2>1, <1>4, <1>6
<1>8. CASE x \in T
  <2>1. ToSet(p) # {}
    BY <1>3, <1>8
  <2>2. Len(p) = 1
    BY <2>1, <1>4, <1>7 DEF ToSet
  <2>3. p = <<x>>
    BY <2>2, <1>3, <1>5
  <2> QED BY <2>3, <1>8 DEF p, one
<1>9. CASE x \notin T
  <2>1. Len(p) = 0
    BY <1>4, <1>5, <1>7, <1>9
  <2>2. p = <<>>
    BY <2>1, <1>3
  <2> QED BY <2>2, <1>9 DEF p, one
<1> QED BY <1>8, <1>9

\* One element that is tested, and the rest.
LEMMA PickedCons ==
  ASSUME NEW S, NEW x \in S, NEW s \in Seq(S), NEW T
  PROVE  /\ Picked(<<x>> \o s, T) =
              IF x \in T THEN <<x>> \o Picked(s, T) ELSE Picked(s, T)
         /\ Kept(<<x>> \o s, T) =
              IF x \in T THEN Kept(s, T) ELSE <<x>> \o Kept(s, T)
PROOF
<1> DEFINE one == <<x>>
<1>1. one \in Seq(S)
  OBVIOUS
<1> HIDE DEF one
<1>2. ASSUME NEW R
      PROVE  Picked(one \o s, R) = IF x \in R THEN one \o Picked(s, R) ELSE Picked(s, R)
  <2>1. Picked(one \o s, R) = Picked(one, R) \o Picked(s, R)
    BY <1>1, PickedConcat
  <2>2. Picked(one, R) = IF x \in R THEN one ELSE <<>>
    BY PickedOne DEF one
  <2>3. Picked(s, R) \in Seq(S)
    BY PickedElements
  <2> QED BY <2>1, <2>2, <2>3
<1> DEFINE all == ToSet(one \o s) \ T
<1>3. ToSet(one \o s) = {x} \cup ToSet(s)
  <2>1. ToSet(one) = {x}
    BY DEF one, ToSet
  <2> QED BY <2>1, <1>1, ConcatElements
<1>4. Picked(s, all) = Kept(s, T)
  <2>1. \A i \in DOMAIN s : s[i] \in all <=> s[i] \in ToSet(s) \ T
    BY <1>3 DEF ToSet
  <2> QED BY <2>1, PickedSame DEF Kept
<1>5. x \in all <=> x \notin T
  BY <1>3
<1>6. Kept(one \o s, T) = IF x \in all THEN one \o Picked(s, all) ELSE Picked(s, all)
  <2>1. Kept(one \o s, T) = Picked(one \o s, all)
    BY DEF Kept
  <2> HIDE DEF all
  <2> QED BY <2>1, <1>2
<1>7. Kept(one \o s, T) = IF x \in T THEN Kept(s, T) ELSE one \o Kept(s, T)
  BY <1>4, <1>5, <1>6
<1> QED BY <1>2, <1>7 DEF one

LEMMA ReverseCons ==
  ASSUME NEW S, NEW x \in S, NEW s \in Seq(S)
  PROVE  Reverse(<<x>> \o s) = Reverse(s) \o <<x>>
PROOF
<1> DEFINE u == <<x>> \o s
           r == Reverse(s)
           n == Len(s)
<1>1. /\ u \in Seq(S) /\ Len(u) = n + 1 /\ u[1] = x
      /\ \A i \in 1..n : u[i + 1] = s[i]
  OBVIOUS
<1>2. /\ r \in Seq(S) /\ Len(r) = n /\ \A i \in 1..n : r[i] = s[n - i + 1]
  BY ReverseElements DEF Reverse
<1>3. n \in Nat
  OBVIOUS
<1> HIDE DEF u, r, n
<1>4. /\ r \o <<x>> \in Seq(S) /\ Len(r \o <<x>>) = n + 1
      /\ \A i \in 1..n : (r \o <<x>>)[i] = r[i]
      /\ (r \o <<x>>)[n + 1] = x
  BY <1>2, <1>3
<1> DEFINE v == r \o <<x>>
<1> HIDE DEF v
<1>5. v = [i \in 1..(n + 1) |-> v[i]]
  BY <1>4 DEF v
<1>6. Reverse(u) = [i \in 1..(n + 1) |-> u[(n + 1) - i + 1]]
  BY <1>1 DEF Reverse
<1>7. ASSUME NEW i \in 1..(n + 1) PROVE v[i] = u[(n + 1) - i + 1]
  <2>1. CASE i = n + 1
    <3>1. (n + 1) - i + 1 = 1
      BY <2>1, <1>3
    <3> QED BY <3>1, <2>1, <1>1, <1>4 DEF v
  <2>2. CASE i # n + 1
    <3>1. i \in 1..n /\ n - i + 1 \in 1..n /\ (n + 1) - i + 1 = (n - i + 1) + 1
      BY <2>2, <1>3
    <3>2. u[(n + 1) - i + 1] = s[n - i + 1]
      BY <3>1, <1>1
    <3> QED BY <3>1, <3>2, <1>2, <1>4 DEF v
  <2> QED BY <2>1, <2>2
<1> QED BY <1>5, <1>6, <1>7 DEF u, v, r
===============================================================================
