--------------------------- MODULE LinkedListProofs ---------------------------
(***************************************************************************)
(* The nodes of LinkedList: their invariant, for every number of nodes,    *)
(* lists and values; that a node of a stored list is used again before the *)
(* heap is asked; and that the lists are the sequences of MovingLists.     *)
(***************************************************************************)
EXTENDS LinkedList, ProcessListsProofs

----------------------------------------------------------------------------
(* Chains of nodes, for any next and prev.                                 *)

\* nx leads from p through the nodes of s, pv back from t.
Forth(p, s, nx) ==
    /\ p = IF s = <<>> THEN null ELSE s[1]
    /\ \A i \in DOMAIN s : nx[s[i]] = IF i = Len(s) THEN null ELSE s[i + 1]
Back(t, s, pv) ==
    /\ t = IF s = <<>> THEN null ELSE s[Len(s)]
    /\ \A i \in DOMAIN s : pv[s[i]] = IF i = 1 THEN null ELSE s[i - 1]

\* Only the nodes of the chain matter.
LEMMA SameChain ==
  ASSUME NEW S, NEW s \in Seq(S), NEW p, NEW nx, NEW nx2,
         \A n \in ToSet(s) : nx2[n] = nx[n]
  PROVE  /\ Forth(p, s, nx) => Forth(p, s, nx2)
         /\ Back(p, s, nx) => Back(p, s, nx2)
PROOF
<1>1. \A i \in DOMAIN s : nx2[s[i]] = nx[s[i]]
  BY DEF ToSet
<1> QED BY <1>1 DEF Forth, Back

\* A node that is joined to the end of a chain.
LEMMA ChainAppend ==
  ASSUME NEW s \in Seq(Nodes), IsInjective(s), NEW n \in Nodes, n \notin ToSet(s),
         NEW h, NEW t, NEW nx, NEW pv, NEW nx2, NEW pv2,
         Forth(h, s, nx), Back(t, s, pv),
         \A m \in Nodes : nx2[m] = IF m = n THEN null ELSE IF m = t THEN n ELSE nx[m],
         \A m \in Nodes : pv2[m] = IF m = n THEN t ELSE pv[m]
  PROVE  /\ Forth(IF t = null THEN n ELSE h, Append(s, n), nx2)
         /\ Back(n, Append(s, n), pv2)
PROOF
<1> DEFINE u == Append(s, n)
<1>1. /\ u \in Seq(Nodes) /\ Len(u) = Len(s) + 1 /\ DOMAIN u = 1..(Len(s) + 1)
      /\ u[Len(s) + 1] = n /\ \A i \in 1..Len(s) : u[i] = s[i]
      /\ DOMAIN s = 1..Len(s) /\ Len(s) \in Nat
      /\ \A i \in 1..Len(s) : s[i] \in Nodes
      /\ u # <<>>
  OBVIOUS
<1>2. s = <<>> <=> Len(s) = 0
  OBVIOUS
<1>3. \A i \in 1..Len(s) : s[i] # n
  BY <1>1 DEF ToSet
<1>4. s # <<>> => Len(s) \in 1..Len(s) /\ t = s[Len(s)] /\ t # null
  BY <1>1, <1>2, NodesAssumption DEF Back
<1>5. s = <<>> => t = null
  BY DEF Back
<1> HIDE DEF u
<1>6. Forth(IF t = null THEN n ELSE h, u, nx2)
  <2>1. (IF t = null THEN n ELSE h) = u[1]
    BY <1>1, <1>2, <1>4, <1>5 DEF Forth
  <2>2. ASSUME NEW i \in 1..(Len(s) + 1)
        PROVE  nx2[u[i]] = IF i = Len(u) THEN null ELSE u[i + 1]
    <3>1. CASE i = Len(s) + 1
      BY <3>1, <1>1
    <3>2. CASE i = Len(s)
      <4>1. s # <<>> /\ t = s[i] /\ u[i] = t /\ t # n
        BY <3>2, <1>1, <1>2, <1>3, <1>4
      <4> QED BY <4>1, <3>2, <1>1
    <3>3. CASE i < Len(s)
      <4>1. i \in 1..Len(s) /\ i + 1 \in 1..Len(s) /\ Len(s) \in 1..Len(s)
        BY <3>3, <1>1
      <4>2. t = s[Len(s)] /\ s[i] # t
        BY <4>1, <3>3, <1>1, <1>2, <1>4 DEF IsInjective
      <4>3. nx2[u[i]] = nx[s[i]]
        BY <4>1, <4>2, <1>1, <1>3
      <4>4. nx[s[i]] = s[i + 1]
        BY <4>1, <3>3, <1>1 DEF Forth
      <4> QED BY <4>1, <4>3, <4>4, <3>3, <1>1
    <3> QED BY <3>1, <3>2, <3>3, <1>1
  <2> QED BY <2>1, <2>2, <1>1 DEF Forth
<1>7. Back(n, u, pv2)
  <2>1. n = u[Len(u)]
    BY <1>1
  <2>2. ASSUME NEW i \in 1..(Len(s) + 1)
        PROVE  pv2[u[i]] = IF i = 1 THEN null ELSE u[i - 1]
    <3>1. CASE i = Len(s) + 1 /\ s = <<>>
      BY <3>1, <1>1, <1>2, <1>5
    <3>2. CASE i = Len(s) + 1 /\ s # <<>>
      <4>1. i - 1 = Len(s) /\ i # 1
        BY <3>2, <1>1, <1>2
      <4> QED BY <4>1, <3>2, <1>1, <1>4
    <3>3. CASE i \in 1..Len(s)
      <4>1. pv2[u[i]] = pv[s[i]]
        BY <3>3, <1>1, <1>3
      <4>2. pv[s[i]] = IF i = 1 THEN null ELSE s[i - 1]
        BY <3>3, <1>1 DEF Back
      <4>3. i # 1 => i - 1 \in 1..Len(s)
        BY <3>3, <1>1
      <4> QED BY <4>1, <4>2, <4>3, <1>1
    <3> QED BY <3>1, <3>2, <3>3, <1>1
  <2> QED BY <2>1, <2>2, <1>1 DEF Back
<1> QED BY <1>6, <1>7 DEF u

\* A node that is joined to the front of a chain.
LEMMA ChainCons ==
  ASSUME NEW s \in Seq(Nodes), NEW n \in Nodes, n \notin ToSet(s), IsInjective(s),
         NEW h, NEW t, NEW nx, NEW pv, NEW nx2, NEW pv2,
         Forth(h, s, nx), Back(t, s, pv),
         \A m \in Nodes : nx2[m] = IF m = n THEN h ELSE nx[m],
         \A m \in Nodes : pv2[m] = IF m = n THEN null ELSE IF m = h THEN n ELSE pv[m]
  PROVE  /\ Forth(n, <<n>> \o s, nx2)
         /\ Back(IF h = null THEN n ELSE t, <<n>> \o s, pv2)
PROOF
<1> DEFINE u == <<n>> \o s
<1>1. /\ u \in Seq(Nodes) /\ Len(u) = Len(s) + 1 /\ DOMAIN u = 1..(Len(s) + 1)
      /\ u[1] = n /\ \A i \in 1..Len(s) : u[i + 1] = s[i]
      /\ DOMAIN s = 1..Len(s) /\ Len(s) \in Nat
      /\ \A i \in 1..Len(s) : s[i] \in Nodes
      /\ u # <<>>
  OBVIOUS
<1>2. s = <<>> <=> Len(s) = 0
  OBVIOUS
<1>3. \A i \in 1..Len(s) : s[i] # n
  BY <1>1 DEF ToSet
<1>4. s # <<>> => 1 \in 1..Len(s) /\ h = s[1] /\ h # null /\ t = s[Len(s)]
  BY <1>1, <1>2, NodesAssumption DEF Forth, Back
<1>5. s = <<>> => h = null
  BY DEF Forth
<1> HIDE DEF u
<1>6. \A i \in 1..(Len(s) + 1) : i = 1 \/ (i - 1 \in 1..Len(s) /\ u[i] = s[i - 1])
  <2> TAKE i \in 1..(Len(s) + 1)
  <2>1. CASE i = 1
    BY <2>1
  <2>2. CASE i # 1
    <3>1. i - 1 \in 1..Len(s) /\ (i - 1) + 1 = i
      BY <2>2, <1>1
    <3> QED BY <3>1, <1>1
  <2> QED BY <2>1, <2>2
<1>7. Forth(n, u, nx2)
  <2>2. ASSUME NEW i \in 1..(Len(s) + 1)
        PROVE  nx2[u[i]] = IF i = Len(u) THEN null ELSE u[i + 1]
    <3>1. CASE i = 1
      <4>1. nx2[u[i]] = h
        BY <3>1, <1>1
      <4> QED BY <4>1, <3>1, <1>1, <1>2, <1>4, <1>5
    <3>2. CASE i - 1 \in 1..Len(s) /\ u[i] = s[i - 1]
      <4>1. nx2[u[i]] = nx[s[i - 1]]
        BY <3>2, <1>1, <1>3
      <4>2. nx[s[i - 1]] = IF i - 1 = Len(s) THEN null ELSE s[i]
        BY <3>2, <1>1 DEF Forth
      <4>3. i - 1 # Len(s) => i \in 1..Len(s)
        BY <3>2, <1>1
      <4> QED BY <4>1, <4>2, <4>3, <3>2, <1>1
    <3> QED BY <3>1, <3>2, <1>6
  <2> QED BY <2>2, <1>1 DEF Forth
<1>8. Back(IF h = null THEN n ELSE t, u, pv2)
  <2>1. (IF h = null THEN n ELSE t) = u[Len(u)]
    <3>1. CASE s = <<>>
      BY <3>1, <1>1, <1>2, <1>5
    <3>2. CASE s # <<>>
      <4>1. Len(s) \in 1..Len(s)
        BY <3>2, <1>1, <1>2
      <4> QED BY <4>1, <3>2, <1>1, <1>4
    <3> QED BY <3>1, <3>2
  <2>2. ASSUME NEW i \in 1..(Len(s) + 1)
        PROVE  pv2[u[i]] = IF i = 1 THEN null ELSE u[i - 1]
    <3>1. CASE i = 1
      BY <3>1, <1>1
    <3>2. CASE i = 2
      <4>1. s # <<>> /\ u[i] = s[1]
        BY <3>2, <1>1, <1>2, <1>6
      <4>2. pv2[u[i]] = n
        BY <4>1, <1>1, <1>3, <1>4
      <4> QED BY <4>2, <3>2, <1>1
    <3>3. CASE i > 2
      <4>1. i - 1 \in 1..Len(s) /\ u[i] = s[i - 1] /\ i - 2 \in 1..Len(s)
        BY <3>3, <1>1, <1>6
      <4>2. s # <<>> /\ h = s[1] /\ s[i - 1] # h
        BY <4>1, <3>3, <1>1, <1>2, <1>4 DEF IsInjective
      <4>3. pv2[u[i]] = pv[s[i - 1]]
        BY <4>1, <4>2, <1>1, <1>3
      <4>4. pv[s[i - 1]] = s[i - 2]
        BY <4>1, <3>3, <1>1, SMTT(40) DEF Back
      <4>5. u[i - 1] = s[i - 2]
        BY <4>1, <3>3, <1>1, <1>6
      <4> QED BY <4>3, <4>4, <4>5, <3>3
    <3> QED BY <3>1, <3>2, <3>3, <1>1
  <2> QED BY <2>1, <2>2, <1>1 DEF Back
<1> QED BY <1>7, <1>8 DEF u

\* A sequence without one of its elements.
LEMMA RemoveElements ==
  ASSUME NEW S, NEW s \in Seq(S), IsInjective(s), NEW i \in 1..Len(s)
  PROVE  /\ RemoveFirst(s, s[i]) \in Seq(S)
         /\ Len(RemoveFirst(s, s[i])) = Len(s) - 1
         /\ \A k \in 1..(Len(s) - 1) :
                RemoveFirst(s, s[i])[k] = IF k < i THEN s[k] ELSE s[k + 1]
         /\ ToSet(RemoveFirst(s, s[i])) = ToSet(s) \ {s[i]}
         /\ IsInjective(RemoveFirst(s, s[i]))
PROOF
<1> DEFINE u == RemoveFirst(s, s[i])
<1>1. Len(s) \in Nat /\ DOMAIN s = 1..Len(s) /\ i \in DOMAIN s
  OBVIOUS
<1>2. {k \in 1..Len(s) : s[k] = s[i]} = {i}
  BY <1>1 DEF IsInjective
<1>3. Min({i}) = i
  BY <1>1 DEF Min
<1>4. u = RemoveAt(s, i)
  BY <1>2, <1>3 DEF RemoveFirst, SelectInSeq
<1> DEFINE a == SubSeq(s, 1, i - 1)
           b == SubSeq(s, i + 1, Len(s))
<1>5. /\ a \in Seq(S) /\ Len(a) = i - 1
      /\ \A k \in 1..(i - 1) : a[k] = s[k]
  BY <1>1
<1>6. /\ b \in Seq(S) /\ Len(b) = Len(s) - i
      /\ \A k \in 1..(Len(s) - i) : b[k] = s[i + k]
  BY <1>1
<1>7. u = a \o b
  BY <1>4 DEF RemoveAt
<1> HIDE DEF a, b, u
<1>8. /\ u \in Seq(S) /\ Len(u) = Len(s) - 1
      /\ \A k \in 1..Len(u) : u[k] = IF k <= Len(a) THEN a[k] ELSE b[k - Len(a)]
  <2>1. /\ a \o b \in Seq(S) /\ Len(a \o b) = Len(a) + Len(b)
        /\ \A k \in 1..(Len(a) + Len(b)) :
               (a \o b)[k] = IF k <= Len(a) THEN a[k] ELSE b[k - Len(a)]
    BY <1>5, <1>6, ConcatProperties
  <2>2. Len(a) + Len(b) = Len(s) - 1
    BY <1>1, <1>5, <1>6
  <2> QED BY <2>1, <2>2, <1>7
<1>9. \A k \in 1..(Len(s) - 1) : u[k] = IF k < i THEN s[k] ELSE s[k + 1]
  <2> TAKE k \in 1..(Len(s) - 1)
  <2>1. CASE k < i
    BY <2>1, <1>1, <1>5, <1>8
  <2>2. CASE ~(k < i)
    <3>1. k - (i - 1) \in 1..(Len(s) - i) /\ i + (k - (i - 1)) = k + 1
      BY <2>2, <1>1
    <3>2. u[k] = b[k - (i - 1)]
      <4>1. k \in 1..Len(u) /\ ~(k <= Len(a)) /\ Len(a) = i - 1
        BY <2>2, <1>1, <1>5, <1>8
      <4> QED BY <4>1, <1>8
    <3>3. b[k - (i - 1)] = s[i + (k - (i - 1))]
      BY <3>1, <1>6
    <3> QED BY <3>1, <3>2, <3>3, <2>2
  <2> QED BY <2>1, <2>2
<1>10. DOMAIN u = 1..(Len(s) - 1)
  BY <1>8
<1>11. IsInjective(u)
  <2> SUFFICES ASSUME NEW k \in 1..(Len(s) - 1), NEW h \in 1..(Len(s) - 1), u[k] = u[h]
               PROVE  k = h
    BY <1>10 DEF IsInjective
  <2>1. \A x, y \in 1..Len(s) : s[x] = s[y] => x = y
    BY <1>1 DEF IsInjective
  <2>2. /\ k \in 1..Len(s) /\ k + 1 \in 1..Len(s)
        /\ h \in 1..Len(s) /\ h + 1 \in 1..Len(s)
    BY <1>1
  <2> QED BY <2>1, <2>2, <1>1, <1>9
<1>12. ToSet(u) = ToSet(s) \ {s[i]}
  <2>1. ASSUME NEW k \in 1..(Len(s) - 1) PROVE u[k] \in ToSet(s) \ {s[i]}
    <3>1. k \in 1..Len(s) /\ k + 1 \in 1..Len(s)
      BY <1>1
    <3>2. PICK j \in 1..Len(s) : u[k] = s[j] /\ j # i
      BY <3>1, <1>1, <1>9
    <3> QED BY <3>2, <1>1 DEF ToSet, IsInjective
  <2>2. ASSUME NEW j \in 1..Len(s), s[j] # s[i] PROVE s[j] \in ToSet(u)
    <3>1. CASE j < i
      <4>1. j \in 1..(Len(s) - 1) /\ u[j] = s[j]
        BY <3>1, <1>1, <1>9
      <4> QED BY <4>1, <1>10 DEF ToSet
    <3>2. CASE j > i
      <4>1. j - 1 \in 1..(Len(s) - 1) /\ ~(j - 1 < i) /\ (j - 1) + 1 = j
        BY <3>2, <1>1
      <4>2. u[j - 1] = s[j]
        BY <4>1, <1>9
      <4> QED BY <4>1, <4>2, <1>10 DEF ToSet
    <3> QED BY <3>1, <3>2, <2>2, <1>1
  <2>3. ToSet(u) = {u[k] : k \in 1..(Len(s) - 1)} /\ ToSet(s) = {s[j] : j \in 1..Len(s)}
    BY <1>1, <1>10 DEF ToSet
  <2> QED BY <2>1, <2>2, <2>3, Zenon
<1> QED BY <1>8, <1>9, <1>11, <1>12 DEF u

\* The same of a named element and a named result.
LEMMA RemoveNode ==
  ASSUME NEW S, NEW s \in Seq(S), IsInjective(s), NEW i \in 1..Len(s), NEW n, n = s[i],
         NEW u, u = RemoveFirst(s, n)
  PROVE  /\ u \in Seq(S) /\ Len(u) = Len(s) - 1
         /\ \A k \in 1..(Len(s) - 1) : u[k] = IF k < i THEN s[k] ELSE s[k + 1]
         /\ ToSet(u) = ToSet(s) \ {n} /\ IsInjective(u)
BY RemoveElements, ZenonT(40)

\* A node that is taken out of a chain: its neighbours are joined, and the ends
\* move when it was one of them.
LEMMA ChainRemove ==
  ASSUME NEW s \in Seq(Nodes), IsInjective(s), NEW i \in 1..Len(s), NEW n, n = s[i],
         NEW h, NEW t, NEW nx, NEW pv, NEW nx2, NEW pv2,
         Forth(h, s, nx), Back(t, s, pv),
         \A m \in Nodes \ {n} : nx2[m] = IF m = pv[n] THEN nx[n] ELSE nx[m],
         \A m \in Nodes \ {n} : pv2[m] = IF m = nx[n] THEN pv[n] ELSE pv[m]
  PROVE  /\ Forth(IF n = h THEN nx[n] ELSE h, RemoveFirst(s, n), nx2)
         /\ Back(IF n = t THEN pv[n] ELSE t, RemoveFirst(s, n), pv2)
PROOF
<1> DEFINE u == RemoveFirst(s, n)
<1>1. /\ u \in Seq(Nodes) /\ Len(u) = Len(s) - 1 /\ DOMAIN u = 1..(Len(s) - 1)
      /\ \A k \in 1..(Len(s) - 1) : u[k] = IF k < i THEN s[k] ELSE s[k + 1]
  BY RemoveElements
<1>2. /\ Len(s) \in Nat /\ DOMAIN s = 1..Len(s) /\ s # <<>>
      /\ \A k \in 1..Len(s) : s[k] \in Nodes
      /\ 1 \in 1..Len(s) /\ Len(s) \in 1..Len(s)
  OBVIOUS
<1>0. Len(s) \in Nat
  OBVIOUS
<1> HIDE DEF u
<1>3. u = <<>> <=> Len(s) = 1
  <2>1. u = <<>> <=> Len(u) = 0
    BY <1>1
  <2> QED BY <2>1, <1>1, <1>2
<1>4. \A x, y \in 1..Len(s) : s[x] = s[y] => x = y
  BY <1>2 DEF IsInjective
<1>5. /\ h = s[1] /\ t = s[Len(s)]
      /\ \A k \in 1..Len(s) : nx[s[k]] = IF k = Len(s) THEN null ELSE s[k + 1]
      /\ \A k \in 1..Len(s) : pv[s[k]] = IF k = 1 THEN null ELSE s[k - 1]
  BY <1>2, ZenonT(40) DEF Forth, Back
<1>6. \A k \in 1..Len(s) : s[k] # null
  BY <1>2, NodesAssumption
<1>9. /\ nx[n] = IF i = Len(s) THEN null ELSE s[i + 1]
      /\ pv[n] = IF i = 1 THEN null ELSE s[i - 1]
      /\ n = h <=> i = 1
      /\ n = t <=> i = Len(s)
  BY <1>2, <1>4, <1>5
<1>7. Forth(IF n = h THEN nx[n] ELSE h, u, nx2)
  <2>1. (IF n = h THEN nx[n] ELSE h) = IF u = <<>> THEN null ELSE u[1]
    <3>1. CASE i = 1 /\ Len(s) = 1
      BY <3>1, <1>2, <1>3, <1>5
    <3>2. CASE i = 1 /\ Len(s) # 1
      <4>1. 1 \in 1..(Len(s) - 1) /\ u[1] = s[2]
        BY <3>2, <1>1, <1>2
      <4> QED BY <4>1, <3>2, <1>3, <1>9
    <3>3. CASE i # 1
      <4>1. 1 \in 1..(Len(s) - 1) /\ u[1] = s[1] /\ n # h
        BY <3>3, <1>1, <1>2, <1>9
      <4>2. Len(s) # 1
        BY <3>3
      <4> QED BY <4>1, <4>2, <1>3, <1>5
    <3> QED BY <3>1, <3>2, <3>3
  <2>2. ASSUME NEW k \in 1..(Len(s) - 1)
        PROVE  nx2[u[k]] = IF k = Len(u) THEN null ELSE u[k + 1]
    <3>1. CASE k >= i
      <4>1. k + 1 \in 1..Len(s) /\ u[k] = s[k + 1] /\ k + 1 # i
        BY <3>1, <1>1, <1>2
      <4>2. s[k + 1] # n
        BY <4>1, <1>4
      <4>3. s[k + 1] # pv[n]
        <5>1. CASE i = 1
          BY <5>1, <4>1, <1>6, <1>9
        <5>2. CASE i # 1
          <6>1. i - 1 \in 1..Len(s) /\ pv[n] = s[i - 1] /\ i - 1 # k + 1
            <7>1. i - 1 \in 1..Len(s) /\ i - 1 # k + 1
              BY <5>2, <3>1, <1>0
            <7> QED BY <7>1, <5>2, <1>9
          <6> QED BY <6>1, <4>1, <1>4
        <5> QED BY <5>1, <5>2
      <4>4. nx2[u[k]] = IF k + 1 = Len(s) THEN null ELSE s[(k + 1) + 1]
        <5>1. nx2[s[k + 1]] = nx[s[k + 1]]
          BY <4>1, <4>2, <4>3, <1>2
        <5> QED BY <5>1, <4>1, <1>5
      <4>5. k # Len(u) => k + 1 \in 1..(Len(s) - 1) /\ ~(k + 1 < i)
        BY <3>1, <1>1, <1>2
      <4> QED BY <4>4, <4>5, <1>1, <1>2
    <3>2. CASE k = i - 1
      <4>1. k \in 1..Len(s) /\ u[k] = s[k] /\ i # 1 /\ k # i
        BY <3>2, <1>1, <1>2
      <4>2. s[k] # n /\ s[k] = pv[n]
        BY <4>1, <3>2, <1>4, <1>5, SMTT(40)
      <4>3. nx2[u[k]] = IF i = Len(s) THEN null ELSE s[i + 1]
        BY <4>1, <4>2, <1>2, <1>5, ZenonT(40)
      <4>4. k # Len(u) => k + 1 \in 1..(Len(s) - 1) /\ ~(k + 1 < i) /\ k + 1 = i
        BY <3>2, <1>1, <1>2
      <4> QED BY <4>3, <4>4, <3>2, <1>1, <1>2
    <3>3. CASE k < i - 1
      <4>1. /\ k \in 1..Len(s) /\ k # i /\ i - 1 \in 1..Len(s) /\ i # 1
            /\ k + 1 \in 1..(Len(s) - 1) /\ k + 1 < i /\ k # Len(s) /\ k # i - 1
        BY <3>3, <1>2
      <4>2. u[k] = s[k] /\ u[k + 1] = s[k + 1] /\ k # Len(u)
        BY <3>3, <4>1, <1>1, <1>2
      <4>3. s[k] # n /\ pv[n] = s[i - 1] /\ s[k] # s[i - 1]
        BY <4>1, <1>4, <1>5
      <4> QED BY <4>1, <4>2, <4>3, <1>2, <1>5
    <3> QED BY <3>1, <3>2, <3>3, <1>2
  <2> QED BY <2>1, <2>2, <1>1 DEF Forth
<1>8. Back(IF n = t THEN pv[n] ELSE t, u, pv2)
  <2>1. (IF n = t THEN pv[n] ELSE t) = IF u = <<>> THEN null ELSE u[Len(u)]
    <3>1. CASE i = Len(s) /\ Len(s) = 1
      BY <3>1, <1>2, <1>3, <1>5
    <3>2. CASE i = Len(s) /\ Len(s) # 1
      <4>1. Len(s) - 1 \in 1..(Len(s) - 1) /\ u[Len(s) - 1] = s[Len(s) - 1]
        BY <3>2, <1>1, <1>2
      <4> QED BY <4>1, <3>2, <1>1, <1>2, <1>3, <1>5
    <3>3. CASE i # Len(s)
      <4>1. /\ Len(s) - 1 \in 1..(Len(s) - 1) /\ ~(Len(s) - 1 < i)
            /\ (Len(s) - 1) + 1 = Len(s) /\ n # t
        <5>1. /\ Len(s) - 1 \in 1..(Len(s) - 1) /\ ~(Len(s) - 1 < i)
              /\ (Len(s) - 1) + 1 = Len(s)
          BY <3>3, <1>0
        <5> QED BY <5>1, <3>3, <1>9
      <4>2. Len(s) # 1
        BY <4>1, <1>0
      <4> QED BY <4>1, <4>2, <1>1, <1>3, <1>5
    <3> QED BY <3>1, <3>2, <3>3
  <2>2. ASSUME NEW k \in 1..(Len(s) - 1)
        PROVE  pv2[u[k]] = IF k = 1 THEN null ELSE u[k - 1]
    <3>1. CASE k < i
      <4>1. k \in 1..Len(s) /\ u[k] = s[k] /\ k # i
        BY <3>1, <1>1, <1>2
      <4>2. s[k] # n
        BY <4>1, <1>4
      <4>3. s[k] # nx[n]
        <5>1. CASE i = Len(s)
          BY <5>1, <4>1, <1>6, <1>9
        <5>2. CASE i # Len(s)
          <6>1. i + 1 \in 1..Len(s) /\ nx[n] = s[i + 1] /\ i + 1 # k
            <7>1. i + 1 \in 1..Len(s) /\ i + 1 # k
              BY <5>2, <3>1, <1>0
            <7> QED BY <7>1, <5>2, <1>9
          <6> QED BY <6>1, <4>1, <1>4
        <5> QED BY <5>1, <5>2
      <4>4. pv2[u[k]] = IF k = 1 THEN null ELSE s[k - 1]
        <5>1. pv2[s[k]] = pv[s[k]]
          BY <4>1, <4>2, <4>3, <1>2
        <5> QED BY <5>1, <4>1, <1>5
      <4>5. k # 1 => k - 1 \in 1..(Len(s) - 1) /\ k - 1 < i
        BY <3>1, <1>2
      <4> QED BY <4>4, <4>5, <1>1
    <3>2. CASE k = i
      <4>1. k + 1 \in 1..Len(s) /\ u[k] = s[k + 1] /\ k + 1 # i /\ i # Len(s)
        BY <3>2, <1>1, <1>2
      <4>2. s[k + 1] # n /\ s[k + 1] = nx[n]
        BY <4>1, <3>2, <1>4, <1>5, SMTT(40)
      <4>3. pv2[u[k]] = IF i = 1 THEN null ELSE s[i - 1]
        BY <4>1, <4>2, <1>2, <1>5
      <4>4. k # 1 => k - 1 \in 1..(Len(s) - 1) /\ k - 1 < i
        BY <3>2, <1>2
      <4> QED BY <4>3, <4>4, <3>2, <1>1
    <3>3. CASE k > i
      <4>1. k + 1 \in 1..Len(s) /\ k \in 1..Len(s) /\ i + 1 \in 1..Len(s)
            /\ k - 1 \in 1..(Len(s) - 1)
        BY <3>3, <1>0
      <4>5. k + 1 # i /\ k # 1 /\ i # Len(s) /\ i + 1 # k + 1 /\ k + 1 # 1 /\ k # i
        BY <3>3, <1>0
      <4>6. ~(k - 1 < i) /\ (k - 1) + 1 = k /\ (k + 1) - 1 = k
        BY <3>3, <1>0
      <4>2. u[k] = s[k + 1] /\ u[k - 1] = s[k]
        BY <3>3, <4>1, <4>5, <4>6, <1>1, SMTT(40)
      <4>3. s[k + 1] # n /\ nx[n] = s[i + 1] /\ s[k + 1] # s[i + 1]
        BY <4>1, <4>5, <4>6, <1>4, <1>5, SMTT(40)
      <4>4. pv2[u[k]] = pv[s[k + 1]]
        BY <4>1, <4>5, <4>6, <4>2, <4>3, <1>2, ZenonT(40)
      <4> QED BY <4>1, <4>5, <4>6, <4>2, <4>4, <1>5
    <3> QED BY <3>1, <3>2, <3>3, <1>2
  <2> QED BY <2>1, <2>2, <1>1 DEF Back
<1> QED BY <1>7, <1>8 DEF u

\* The stack of erased nodes: only next matters.
LEMMA StackPush ==
  ASSUME NEW s \in Seq(Nodes), NEW n \in Nodes, n \notin ToSet(s), NEW h, NEW nx, NEW nx2,
         Forth(h, s, nx), nx2[n] = h, \A m \in ToSet(s) : nx2[m] = nx[m]
  PROVE  Forth(n, <<n>> \o s, nx2)
PROOF
<1> DEFINE u == <<n>> \o s
<1>1. /\ Len(u) = Len(s) + 1 /\ DOMAIN u = 1..(Len(s) + 1)
      /\ u[1] = n /\ \A i \in 1..Len(s) : u[i + 1] = s[i]
      /\ DOMAIN s = 1..Len(s) /\ Len(s) \in Nat
      /\ (s = <<>> <=> Len(s) = 0) /\ u # <<>>
  OBVIOUS
<1>2. \A i \in 1..Len(s) : nx2[s[i]] = IF i = Len(s) THEN null ELSE s[i + 1]
  BY <1>1 DEF Forth, ToSet
<1>3. h = IF s = <<>> THEN null ELSE s[1]
  BY DEF Forth
<1> HIDE DEF u
<1>4. ASSUME NEW i \in 1..(Len(s) + 1)
      PROVE  nx2[u[i]] = IF i = Len(u) THEN null ELSE u[i + 1]
  <2>1. CASE i = 1
    <3>1. s # <<>> => 1 \in 1..Len(s)
      BY <1>1
    <3> QED BY <3>1, <2>1, <1>1, <1>3
  <2>2. CASE i # 1
    <3>1. i - 1 \in 1..Len(s) /\ (i - 1) + 1 = i
      BY <2>2, <1>1
    <3>2. u[i] = s[i - 1]
      BY <3>1, <1>1
    <3>3. nx2[u[i]] = IF i - 1 = Len(s) THEN null ELSE s[(i - 1) + 1]
      BY <3>1, <3>2, <1>2
    <3>4. i - 1 # Len(s) => i \in 1..Len(s) /\ u[i + 1] = s[i]
      BY <3>1, <1>1
    <3> QED BY <3>1, <3>3, <3>4, <1>1
  <2> QED BY <2>1, <2>2
<1>5. Forth(n, u, nx2)
  BY <1>1, <1>4 DEF Forth
<1> QED BY <1>5 DEF u

LEMMA StackPop ==
  ASSUME NEW s \in Seq(Nodes), s # <<>>, NEW h, NEW nx, NEW nx2,
         Forth(h, s, nx), \A m \in ToSet(Tail(s)) : nx2[m] = nx[m]
  PROVE  h = Head(s) /\ Forth(nx[h], Tail(s), nx2)
PROOF
<1> DEFINE u == Tail(s)
<1>1. /\ Len(u) = Len(s) - 1 /\ DOMAIN u = 1..(Len(s) - 1)
      /\ \A i \in 1..(Len(s) - 1) : u[i] = s[i + 1]
      /\ DOMAIN s = 1..Len(s) /\ Len(s) \in Nat /\ Len(s) >= 1
      /\ Head(s) = s[1] /\ u \in Seq(Nodes)
  BY SMTT(40)
<1>2. \A i \in 1..Len(s) : nx[s[i]] = IF i = Len(s) THEN null ELSE s[i + 1]
  BY <1>1 DEF Forth
<1>3. h = s[1]
  BY DEF Forth
<1> HIDE DEF u
<1>8. u = <<>> <=> Len(s) = 1
  <2>1. u = <<>> <=> Len(u) = 0
    BY <1>1
  <2> QED BY <2>1, <1>1
<1>4. \A i \in 1..(Len(s) - 1) : nx2[u[i]] = nx[u[i]]
  BY <1>1 DEF ToSet, u
<1>5. nx[h] = IF u = <<>> THEN null ELSE u[1]
  <2>1. 1 \in 1..Len(s) /\ (Len(s) # 1 => 1 \in 1..(Len(s) - 1))
    BY <1>1
  <2> QED BY <2>1, <1>1, <1>2, <1>3, <1>8
<1>6. ASSUME NEW i \in 1..(Len(s) - 1)
      PROVE  nx2[u[i]] = IF i = Len(u) THEN null ELSE u[i + 1]
  <2>1. i + 1 \in 1..Len(s) /\ (i # Len(s) - 1 => i + 1 \in 1..(Len(s) - 1))
    BY <1>1
  <2> QED BY <2>1, <1>1, <1>2, <1>4
<1>7. Forth(nx[h], u, nx2)
  BY <1>1, <1>5, <1>6 DEF Forth
<1> QED BY <1>1, <1>3, <1>7 DEF u

----------------------------------------------------------------------------
(* The member functions keep the nodes.                                    *)

\* What TypeOK says of the nodes.
NodeTypes ==
    /\ head \in [Lists -> Nodes \cup {null}]
    /\ tail \in [Lists -> Nodes \cup {null}]
    /\ free \in [Lists -> Nodes \cup {null}]
    /\ next \in [Nodes -> Nodes \cup {null, deleted}]
    /\ prev \in [Nodes -> Nodes \cup {null, deleted}]
    /\ value \in [Nodes -> Values \cup {deleted}]
    /\ unused \subseteq Nodes
    /\ order \in [Lists -> Seq(Nodes)] /\ spare \in [Lists -> Seq(Nodes)]

Chains ==
    \A l \in Lists :
        /\ Forth(head[l], order[l], next) /\ Back(tail[l], order[l], prev)
        /\ Forth(free[l], spare[l], next)
        /\ l \notin Storing => spare[l] = <<>>

\* No node is at two places, and every one is at one.
Apart(O, S, U) ==
    /\ \A l \in Lists : O[l] \cap S[l] = {}
    /\ \A l \in Lists : (O[l] \cup S[l]) \cap U = {}
    /\ \A l, k \in Lists : l # k => (O[l] \cup S[l]) \cap (O[k] \cup S[k]) = {}
    /\ \A n \in Nodes : n \in U \/ \E l \in Lists : n \in O[l] \cup S[l]

Ordered == [l \in Lists |-> ToSet(order[l])]
Spared == [l \in Lists |-> ToSet(spare[l])]

Places ==
    /\ \A l \in Lists : IsInjective(order[l]) /\ IsInjective(spare[l])
    /\ Apart(Ordered, Spared, unused)

NodesInv == NodeTypes /\ Chains /\ Places

LEMMA ElementsIn ==
  ASSUME NEW S, NEW s \in Seq(S) PROVE ToSet(s) \subseteq S
BY DEF ToSet

\* Two sequences have no element twice between them.
LEMMA ConcatInjective ==
  ASSUME NEW S, NEW s \in Seq(S), NEW t \in Seq(S), IsInjective(s \o t)
  PROVE  IsInjective(s) /\ IsInjective(t) /\ ToSet(s) \cap ToSet(t) = {}
PROOF
<1> DEFINE u == s \o t
<1>1. /\ \A i \in 1..Len(s) : i \in DOMAIN u /\ u[i] = s[i]
      /\ \A i \in 1..Len(t) : Len(s) + i \in DOMAIN u /\ u[Len(s) + i] = t[i]
      /\ DOMAIN s = 1..Len(s) /\ DOMAIN t = 1..Len(t)
      /\ Len(s) \in Nat /\ Len(t) \in Nat
  OBVIOUS
<1>2. \A i, k \in DOMAIN u : u[i] = u[k] => i = k
  BY DEF IsInjective
<1> HIDE DEF u
<1>3. IsInjective(s)
  BY <1>1, <1>2 DEF IsInjective
<1>4. IsInjective(t)
  <2> SUFFICES ASSUME NEW i \in 1..Len(t), NEW k \in 1..Len(t), t[i] = t[k]
               PROVE  i = k
    BY <1>1 DEF IsInjective
  <2>1. Len(s) + i = Len(s) + k
    BY <1>1, <1>2
  <2> QED BY <2>1, <1>1
<1>5. ASSUME NEW i \in 1..Len(s), NEW k \in 1..Len(t), s[i] = t[k] PROVE FALSE
  <2>1. i = Len(s) + k
    BY <1>1, <1>2, <1>5
  <2> QED BY <2>1, <1>1
<1>6. ToSet(s) \cap ToSet(t) = {}
  BY <1>1, <1>5 DEF ToSet
<1> QED BY <1>3, <1>4, <1>6

\* The named parts of the module's invariant are those of this one.
LEMMA NodesInvParts ==
  NodeTypes => (NodesInv <=> Linked /\ SparesLinked /\ NodesAreKept)
PROOF
<1> SUFFICES ASSUME NodeTypes PROVE NodesInv <=> Linked /\ SparesLinked /\ NodesAreKept
  OBVIOUS
<1>1. Chains <=> Linked /\ SparesLinked
  BY DEF Chains, Linked, SparesLinked, Forth, Back, IsChain, Last
<1> DEFINE both(l) == order[l] \o spare[l]
<1>2. ASSUME NEW l \in Lists
      PROVE  /\ ToSet(both(l)) = ToSet(order[l]) \cup ToSet(spare[l])
             /\ IsInjective(both(l)) <=>
                  /\ IsInjective(order[l]) /\ IsInjective(spare[l])
                  /\ ToSet(order[l]) \cap ToSet(spare[l]) = {}
             /\ ToSet(both(l)) \subseteq Nodes
  <2>1. order[l] \in Seq(Nodes) /\ spare[l] \in Seq(Nodes)
    BY DEF NodeTypes
  <2>2. both(l) \in Seq(Nodes)
    BY <2>1
  <2>3. ToSet(both(l)) \subseteq Nodes
    BY <2>2, ElementsIn
  <2> QED BY <2>1, <2>3, ConcatElements, ConcatInjective
<1> HIDE DEF both
<1>3. NodesAreKept <=>
        /\ \A l \in Lists : IsInjective(both(l))
        /\ \A l \in Lists : ToSet(both(l)) \cap unused = {}
        /\ \A l, k \in Lists : l # k => ToSet(both(l)) \cap ToSet(both(k)) = {}
        /\ unused \cup UNION {ToSet(both(l)) : l \in Lists} = Nodes
  BY DEF NodesAreKept, both
<1>4. Places <=> NodesAreKept
  <2>1. /\ Ordered \in [Lists -> SUBSET Nodes] /\ Spared \in [Lists -> SUBSET Nodes]
        /\ \A l \in Lists : ToSet(both(l)) = Ordered[l] \cup Spared[l]
    <3>1. \A l \in Lists : ToSet(order[l]) \subseteq Nodes /\ ToSet(spare[l]) \subseteq Nodes
      BY <1>2
    <3> QED BY <3>1, <1>2 DEF Ordered, Spared
  <2>2. (unused \cup UNION {ToSet(both(l)) : l \in Lists} = Nodes) <=>
        (\A n \in Nodes : n \in unused \/ \E l \in Lists : n \in Ordered[l] \cup Spared[l])
    <3>1. unused \subseteq Nodes
      BY DEF NodeTypes
    <3> QED BY <3>1, <2>1, <1>2
  <2>3. (\A l \in Lists : IsInjective(both(l))) <=>
        /\ \A l \in Lists : IsInjective(order[l]) /\ IsInjective(spare[l])
        /\ \A l \in Lists : Ordered[l] \cap Spared[l] = {}
    BY <1>2 DEF Ordered, Spared
  <2>4. \A l, k \in Lists :
          ToSet(both(l)) \cap ToSet(both(k)) =
          (Ordered[l] \cup Spared[l]) \cap (Ordered[k] \cup Spared[k])
    BY <2>1
  <2>5. \A l \in Lists :
          ToSet(both(l)) \cap unused = (Ordered[l] \cup Spared[l]) \cap unused
    BY <2>1
  <2> QED BY <1>3, <2>2, <2>3, <2>4, <2>5 DEF Places, Apart
<1> QED BY <1>1, <1>4 DEF NodesInv

\* A node goes from the heap or the erased nodes of its list into the list.
LEMMA ApartPush ==
  ASSUME NEW O, NEW S, NEW U, NEW O2, NEW S2, NEW n \in Nodes, NEW l \in Lists,
         Apart(O, S, U), n \in U \cup S[l],
         O2[l] = O[l] \cup {n}, \A k \in Lists \ {l} : O2[k] = O[k],
         \A k \in Lists : S2[k] = S[k] \ {n}
  PROVE  Apart(O2, S2, U \ {n})
PROOF
<1>1. \A k \in Lists : k # l => n \notin O[k] /\ n \notin S[k]
  BY DEF Apart
<1>2. n \notin O[l]
  BY DEF Apart
<1>3. \A m \in Nodes : m \in U \ {n} \/ \E k \in Lists : m \in O2[k] \cup S2[k]
  <2> TAKE m \in Nodes
  <2>1. CASE m = n
    BY <2>1
  <2>2. CASE m # n /\ m \notin U
    <3>1. PICK k \in Lists : m \in O[k] \cup S[k]
      BY <2>2 DEF Apart
    <3>2. m \in O2[k] \cup S2[k]
      BY <3>1, <2>2
    <3> QED BY <3>2
  <2> QED BY <2>1, <2>2
<1>4. \A k \in Lists : O2[k] \cap S2[k] = {} /\ (O2[k] \cup S2[k]) \cap (U \ {n}) = {}
  BY DEF Apart
<1>5. ASSUME NEW j \in Lists, NEW k \in Lists, j # k
      PROVE  (O2[j] \cup S2[j]) \cap (O2[k] \cup S2[k]) = {}
  <2>1. (O[j] \cup S[j]) \cap (O[k] \cup S[k]) = {}
    BY <1>5 DEF Apart
  <2>2. \A i \in Lists : O2[i] \cup S2[i] \subseteq O[i] \cup S[i] \cup {n}
    BY <1>1
  <2>3. \A i \in Lists : n \in O2[i] \cup S2[i] => i = l
    BY <1>1
  <2> QED BY <2>1, <2>2, <2>3, <1>5
<1> QED BY <1>3, <1>4, <1>5 DEF Apart

\* A node goes from a list to its erased nodes or to the heap.
LEMMA ApartErase ==
  ASSUME NEW O, NEW S, NEW U, NEW O2, NEW S2, NEW U2, NEW n \in Nodes, NEW l \in Lists,
         Apart(O, S, U), n \in O[l],
         O2[l] = O[l] \ {n}, \A k \in Lists \ {l} : O2[k] = O[k] /\ S2[k] = S[k],
         \/ S2[l] = S[l] \cup {n} /\ U2 = U
         \/ S2[l] = S[l] /\ U2 = U \cup {n}
  PROVE  Apart(O2, S2, U2)
PROOF
<1>1. \A k \in Lists : k # l => n \notin O[k] /\ n \notin S[k]
  BY DEF Apart
<1>2. n \notin S[l] /\ n \notin U
  BY DEF Apart
<1>3. \A m \in Nodes : m \in U2 \/ \E k \in Lists : m \in O2[k] \cup S2[k]
  <2> TAKE m \in Nodes
  <2>1. CASE m = n
    BY <2>1
  <2>2. CASE m # n /\ m \notin U
    <3>1. PICK k \in Lists : m \in O[k] \cup S[k]
      BY <2>2 DEF Apart
    <3>2. m \in O2[k] \cup S2[k]
      BY <3>1, <2>2
    <3> QED BY <3>2
  <2> QED BY <2>1, <2>2
<1>4. \A k \in Lists : O2[k] \cap S2[k] = {} /\ (O2[k] \cup S2[k]) \cap U2 = {}
  <2> TAKE k \in Lists
  <2>1. CASE k = l
    BY <2>1, <1>2 DEF Apart
  <2>2. CASE k # l
    BY <2>2, <1>1 DEF Apart
  <2> QED BY <2>1, <2>2
<1>5. ASSUME NEW j \in Lists, NEW k \in Lists, j # k
      PROVE  (O2[j] \cup S2[j]) \cap (O2[k] \cup S2[k]) = {}
  <2>1. (O[j] \cup S[j]) \cap (O[k] \cup S[k]) = {}
    BY <1>5 DEF Apart
  <2>2. \A i \in Lists : O2[i] \cup S2[i] \subseteq O[i] \cup S[i]
    <3> TAKE i \in Lists
    <3>1. CASE i = l
      BY <3>1
    <3>2. CASE i # l
      BY <3>2
    <3> QED BY <3>1, <3>2
  <2> QED BY <2>1, <2>2
<1> QED BY <1>3, <1>4, <1>5 DEF Apart

\* The pointers of a list lead to its own nodes.
LEMMA PointersStay ==
  ASSUME NodesInv, NEW l \in Lists
  PROVE  /\ head[l] = null \/ head[l] \in ToSet(order[l])
         /\ tail[l] = null \/ tail[l] \in ToSet(order[l])
         /\ free[l] = null \/ free[l] \in ToSet(spare[l])
         /\ \A n \in ToSet(order[l]) :
                /\ next[n] = null \/ next[n] \in ToSet(order[l])
                /\ prev[n] = null \/ prev[n] \in ToSet(order[l])
         /\ \A n \in ToSet(spare[l]) : next[n] = null \/ next[n] \in ToSet(spare[l])
PROOF
<1>1. /\ order[l] \in Seq(Nodes) /\ spare[l] \in Seq(Nodes)
      /\ Forth(head[l], order[l], next) /\ Back(tail[l], order[l], prev)
      /\ Forth(free[l], spare[l], next)
  BY DEF NodesInv, NodeTypes, Chains
<1>2. ASSUME NEW s \in Seq(Nodes), NEW p, NEW nx, Forth(p, s, nx)
      PROVE  /\ p = null \/ p \in ToSet(s)
             /\ \A n \in ToSet(s) : nx[n] = null \/ nx[n] \in ToSet(s)
  <2>0. Len(s) \in Nat
    OBVIOUS
  <2>1. DOMAIN s = 1..Len(s) /\ (s # <<>> => 1 \in 1..Len(s))
    OBVIOUS
  <2>2. \A i \in 1..Len(s) : i # Len(s) => i + 1 \in 1..Len(s)
    BY <2>0
  <2>3. \A i \in 1..Len(s) : s[i] \in ToSet(s)
    BY <2>1 DEF ToSet
  <2>4. p = null \/ p \in ToSet(s)
    BY <1>2, <2>1, <2>3 DEF Forth
  <2>5. ASSUME NEW i \in 1..Len(s) PROVE nx[s[i]] = null \/ nx[s[i]] \in ToSet(s)
    <3>1. nx[s[i]] = IF i = Len(s) THEN null ELSE s[i + 1]
      BY <1>2, <2>1 DEF Forth
    <3> QED BY <3>1, <2>2, <2>3, SMTT(40)
  <2>6. \A n \in ToSet(s) : \E i \in 1..Len(s) : n = s[i]
    BY <2>1 DEF ToSet
  <2> QED BY <2>4, <2>5, <2>6
<1>3. ASSUME NEW s \in Seq(Nodes), NEW p, NEW pv, Back(p, s, pv)
      PROVE  /\ p = null \/ p \in ToSet(s)
             /\ \A n \in ToSet(s) : pv[n] = null \/ pv[n] \in ToSet(s)
  <2>1. /\ DOMAIN s = 1..Len(s) /\ Len(s) \in Nat /\ (s # <<>> => Len(s) \in 1..Len(s))
    OBVIOUS
  <2>2. \A i \in 1..Len(s) : i # 1 => i - 1 \in 1..Len(s)
    BY <2>1
  <2>3. \A i \in 1..Len(s) : s[i] \in ToSet(s)
    BY <2>1 DEF ToSet
  <2>4. p = null \/ p \in ToSet(s)
    BY <1>3, <2>1, <2>3 DEF Back
  <2>5. ASSUME NEW i \in 1..Len(s) PROVE pv[s[i]] = null \/ pv[s[i]] \in ToSet(s)
    <3>1. pv[s[i]] = IF i = 1 THEN null ELSE s[i - 1]
      BY <1>3, <2>1 DEF Back
    <3> QED BY <3>1, <2>2, <2>3
  <2>6. \A n \in ToSet(s) : \E i \in 1..Len(s) : n = s[i]
    BY <2>1 DEF ToSet
  <2> QED BY <2>4, <2>5, <2>6
<1> QED BY <1>1, <1>2, <1>3

\* What get_free_node leaves of the erased nodes and of the heap.
LEMMA TakeKeeps ==
  ASSUME NodesInv, NEW l \in Lists, NEW n \in get_free_node(l), Take(l, n)
  PROVE  /\ n \in Nodes /\ \A k \in Lists : n \notin ToSet(order[k])
         /\ n \in unused \cup ToSet(spare[l])
         /\ n \in unused /\ l \in Storing => spare[l] = <<>>
         /\ free' \in [Lists -> Nodes \cup {null}] /\ spare' \in [Lists -> Seq(Nodes)]
         /\ unused' = unused \ {n}
         /\ \A k \in Lists :
                /\ IsInjective(spare'[k]) /\ ToSet(spare'[k]) = ToSet(spare[k]) \ {n}
                /\ k \notin Storing => spare'[k] = <<>>
                /\ (\A m \in ToSet(spare'[k]) : next'[m] = next[m])
                   => Forth(free'[k], spare'[k], next')
PROOF
<1>1. /\ free \in [Lists -> Nodes \cup {null}] /\ spare \in [Lists -> Seq(Nodes)]
      /\ unused \subseteq Nodes
  BY DEF NodesInv, NodeTypes
<1>2. \A k \in Lists :
        /\ Forth(free[k], spare[k], next) /\ IsInjective(spare[k])
        /\ k \notin Storing => spare[k] = <<>>
        /\ ToSet(spare[k]) \cap unused = {} /\ ToSet(order[k]) \cap unused = {}
        /\ ToSet(order[k]) \cap ToSet(spare[k]) = {}
        /\ \A j \in Lists : j # k =>
             (ToSet(order[j]) \cup ToSet(spare[j])) \cap
             (ToSet(order[k]) \cup ToSet(spare[k])) = {}
  BY DEF NodesInv, Chains, Places, Apart, Ordered, Spared
<1>3. unused' = unused \ {n}
  BY DEF Take
<1>4. CASE n \in unused
  <2>1. n \in Nodes /\ free' = free /\ spare' = spare
    BY <1>1, <1>4 DEF Take
  <2>2. n \in unused /\ l \in Storing => spare[l] = <<>>
    <3> SUFFICES ASSUME l \in Storing, spare[l] # <<>> PROVE FALSE
      OBVIOUS
    <3>1. free[l] = spare[l][1] /\ 1 \in DOMAIN spare[l]
      BY <1>1, <1>2 DEF Forth
    <3>2. free[l] \in ToSet(spare[l]) /\ free[l] \in Nodes
      BY <3>1, <1>1, ElementsIn DEF ToSet
    <3>3. n = free[l]
      BY <3>2, NodesAssumption DEF get_free_node
    <3> QED BY <3>2, <3>3, <1>2, <1>4
  <2>3. ASSUME NEW k \in Lists
        PROVE /\ IsInjective(spare'[k]) /\ ToSet(spare'[k]) = ToSet(spare[k]) \ {n}
              /\ k \notin Storing => spare'[k] = <<>>
              /\ (\A m \in ToSet(spare'[k]) : next'[m] = next[m])
                   => Forth(free'[k], spare'[k], next')
    <3>1. ToSet(spare[k]) = ToSet(spare[k]) \ {n}
      BY <1>2, <1>4
    <3>2. spare[k] \in Seq(Nodes) /\ Forth(free[k], spare[k], next)
      BY <1>1, <1>2
    <3>3. (\A m \in ToSet(spare[k]) : next'[m] = next[m]) => Forth(free[k], spare[k], next')
      BY <3>2, SameChain
    <3> QED BY <2>1, <3>1, <3>3, <1>2
  <2> QED BY <2>1, <2>2, <2>3, <1>1, <1>2, <1>3, <1>4
<1>5. CASE n \notin unused
  <2>1. l \in Storing /\ n = free[l] /\ n # null /\ n \in Nodes
    BY <1>1, <1>5, NodesAssumption DEF get_free_node
  <2>2. spare[l] # <<>> /\ n \in ToSet(spare[l])
    <3>1. n \in ToSet(spare[l])
      BY <2>1, PointersStay
    <3>2. ToSet(<<>>) = {}
      BY DEF ToSet
    <3> QED BY <3>1, <3>2
  <2>3. free' = [free EXCEPT ![l] = next[n]] /\ spare' = [spare EXCEPT ![l] = Tail(spare[l])]
    BY <1>5 DEF Take
  <2>4. /\ n = Head(spare[l]) /\ Tail(spare[l]) \in Seq(Nodes)
        /\ IsInjective(Tail(spare[l])) /\ ToSet(Tail(spare[l])) = ToSet(spare[l]) \ {n}
        /\ next[n] \in Nodes \cup {null}
        /\ (\A m \in ToSet(Tail(spare[l])) : next'[m] = next[m])
             => Forth(next[n], Tail(spare[l]), next')
    <3>1. spare[l] \in Seq(Nodes) /\ Forth(n, spare[l], next) /\ IsInjective(spare[l])
      BY <1>1, <1>2, <2>1
    <3>2. /\ Tail(spare[l]) \in Seq(Nodes) /\ IsInjective(Tail(spare[l]))
          /\ ToSet(spare[l]) = ToSet(Tail(spare[l])) \cup {Head(spare[l])}
          /\ Head(spare[l]) \notin ToSet(Tail(spare[l]))
      BY <3>1, <2>2, TailElements
    <3>3. /\ n = Head(spare[l])
          /\ Forth(next[n], Tail(spare[l]), next)
      BY <3>1, <2>2, StackPop
    <3>4. (\A m \in ToSet(Tail(spare[l])) : next'[m] = next[m])
             => Forth(next[n], Tail(spare[l]), next')
      BY <3>2, <3>3, SameChain
    <3>5. next[n] \in Nodes \cup {null}
      BY <2>2, <3>1, PointersStay, ElementsIn
    <3> QED BY <3>2, <3>3, <3>4, <3>5
  <2>5. ASSUME NEW k \in Lists
        PROVE /\ IsInjective(spare'[k]) /\ ToSet(spare'[k]) = ToSet(spare[k]) \ {n}
              /\ k \notin Storing => spare'[k] = <<>>
              /\ (\A m \in ToSet(spare'[k]) : next'[m] = next[m])
                   => Forth(free'[k], spare'[k], next')
    <3>1. CASE k = l
      <4>1. spare'[k] = Tail(spare[l]) /\ free'[k] = next[n]
        BY <3>1, <2>3, <1>1
      <4> QED BY <4>1, <3>1, <2>1, <2>4
    <3>2. CASE k # l
      <4>1. spare'[k] = spare[k] /\ free'[k] = free[k]
        BY <3>2, <2>3, <1>1
      <4>2. ToSet(spare[k]) = ToSet(spare[k]) \ {n}
        BY <3>2, <2>2, <1>2
      <4>3. spare[k] \in Seq(Nodes) /\ Forth(free[k], spare[k], next)
        BY <1>1, <1>2
      <4>4. (\A m \in ToSet(spare[k]) : next'[m] = next[m])
              => Forth(free[k], spare[k], next')
        BY <4>3, SameChain
      <4> QED BY <4>1, <4>2, <4>4, <1>2
    <3> QED BY <3>1, <3>2
  <2>6. free' \in [Lists -> Nodes \cup {null}] /\ spare' \in [Lists -> Seq(Nodes)]
    BY <2>3, <2>4, <1>1
  <2>7. \A k \in Lists : n \notin ToSet(order[k])
    BY <2>2, <1>2
  <2> QED BY <2>1, <2>2, <2>5, <2>6, <2>7, <1>3, <1>5
<1> QED BY <1>4, <1>5

\* What a push does to everything but the new node's own chain.
LEMMA PushPlaces ==
  ASSUME NodesInv, NEW l \in Lists, NEW n \in get_free_node(l), Take(l, n),
         order' \in [Lists -> Seq(Nodes)],
         ToSet(order'[l]) = ToSet(order[l]) \cup {n}, IsInjective(order'[l]),
         \A k \in Lists \ {l} : order'[k] = order[k]
  PROVE  Places'
PROOF
<1>1. /\ n \in Nodes /\ n \in unused \cup ToSet(spare[l]) /\ unused' = unused \ {n}
      /\ \A k \in Lists : IsInjective(spare'[k]) /\ ToSet(spare'[k]) = ToSet(spare[k]) \ {n}
  BY TakeKeeps
<1>2. /\ \A k \in Lists : IsInjective(order[k])
      /\ Apart(Ordered, Spared, unused)
  BY DEF NodesInv, Places
<1>3. \A k \in Lists : IsInjective(order'[k]) /\ IsInjective(spare'[k])
  BY <1>1, <1>2
<1>4. /\ \A k \in Lists : Ordered[k] = ToSet(order[k]) /\ Ordered'[k] = ToSet(order'[k])
      /\ \A k \in Lists : Spared[k] = ToSet(spare[k]) /\ Spared'[k] = ToSet(spare'[k])
  BY DEF Ordered, Spared
<1>5. Apart(Ordered', Spared', unused \ {n})
  <2>1. n \in unused \cup Spared[l]
    BY <1>1, <1>4
  <2>2. Ordered'[l] = Ordered[l] \cup {n}
    BY <1>4
  <2>3. \A k \in Lists \ {l} : Ordered'[k] = Ordered[k]
    BY <1>4
  <2>4. \A k \in Lists : Spared'[k] = Spared[k] \ {n}
    BY <1>1, <1>4
  <2> QED BY <2>1, <2>2, <2>3, <2>4, <1>1, <1>2, ApartPush
<1>6. Apart(Ordered', Spared', unused')
  BY <1>1, <1>5
<1> QED BY <1>3, <1>6 DEF Places, Apart

\* Both pushes: the node they take was in no list, and was not the heap's while
\* the list had erased ones.
Pushed(l, v, n) ==
    /\ n \in Nodes /\ \A k \in Lists : n \notin ToSet(order[k])
    /\ n \in unused /\ l \in Storing => spare[l] = <<>>
    /\ unused' = unused \ {n}
    /\ value' = [value EXCEPT ![n] = v]

LEMMA ConsElements ==
  ASSUME NEW S, NEW s \in Seq(S), NEW e \in S
  PROVE  /\ <<e>> \o s \in Seq(S)
         /\ ToSet(<<e>> \o s) = ToSet(s) \cup {e}
         /\ IsInjective(s) /\ e \notin ToSet(s) => IsInjective(<<e>> \o s)
PROOF
<1> DEFINE one == <<e>>
<1>1. /\ one \in Seq(S) /\ DOMAIN one = {1} /\ one[1] = e
  OBVIOUS
<1> HIDE DEF one
<1>2. IsInjective(one) /\ ToSet(one) = {e}
  BY <1>1 DEF IsInjective, ToSet
<1>3. /\ one \o s \in Seq(S)
      /\ ToSet(one \o s) = ToSet(one) \cup ToSet(s)
      /\ IsInjective(one) /\ IsInjective(s) /\ ToSet(one) \cap ToSet(s) = {}
            => IsInjective(one \o s)
  BY <1>1, ConcatElements
<1>4. /\ one \o s \in Seq(S)
      /\ ToSet(one \o s) = ToSet(s) \cup {e}
      /\ IsInjective(s) /\ e \notin ToSet(s) => IsInjective(one \o s)
  BY <1>2, <1>3
<1> QED BY <1>4 DEF one

LEMMA PushBackKeeps ==
  ASSUME NodesInv, NEW l \in Lists, NEW v \in Values, push_back(l, v)
  PROVE  NodesInv' /\ \E n \in Nodes : /\ Pushed(l, v, n)
                                       /\ order' = [order EXCEPT ![l] = Append(@, n)]
PROOF
<1>1. PICK n \in get_free_node(l) :
        /\ Take(l, n)
        /\ value' = [value EXCEPT ![n] = v]
        /\ prev' = [prev EXCEPT ![n] = tail[l]]
        /\ next' = [m \in Nodes |->
               IF m = n THEN null ELSE IF m = tail[l] THEN n ELSE next[m]]
        /\ head' = IF tail[l] = null THEN [head EXCEPT ![l] = n] ELSE head
        /\ tail' = [tail EXCEPT ![l] = n]
        /\ order' = [order EXCEPT ![l] = Append(order[l], n)]
  BY DEF push_back
<1>2. /\ n \in Nodes /\ \A k \in Lists : n \notin ToSet(order[k])
      /\ n \in unused /\ l \in Storing => spare[l] = <<>>
      /\ free' \in [Lists -> Nodes \cup {null}] /\ spare' \in [Lists -> Seq(Nodes)]
      /\ unused' = unused \ {n}
      /\ \A k \in Lists :
                /\ ToSet(spare'[k]) = ToSet(spare[k]) \ {n}
                /\ k \notin Storing => spare'[k] = <<>>
                /\ (\A m \in ToSet(spare'[k]) : next'[m] = next[m])
                   => Forth(free'[k], spare'[k], next')
  BY <1>1, TakeKeeps
<1>3. NodeTypes
  BY DEF NodesInv
<1>4. \A k \in Lists : /\ order[k] \in Seq(Nodes) /\ IsInjective(order[k])
                       /\ ToSet(order[k]) \subseteq Nodes /\ ToSet(spare[k]) \subseteq Nodes
                       /\ Forth(head[k], order[k], next) /\ Back(tail[k], order[k], prev)
  BY <1>3, ElementsIn DEF NodeTypes, NodesInv, Chains, Places
<1>5. /\ Append(order[l], n) \in Seq(Nodes)
      /\ ToSet(Append(order[l], n)) = ToSet(order[l]) \cup {n}
      /\ IsInjective(Append(order[l], n))
  BY <1>2, <1>4, AppendElements
<1>6. /\ order' \in [Lists -> Seq(Nodes)] /\ order'[l] = Append(order[l], n)
      /\ \A k \in Lists \ {l} : order'[k] = order[k]
  BY <1>1, <1>3, <1>5 DEF NodeTypes
<1>7. Places'
  BY <1>1, <1>5, <1>6, PushPlaces
<1>8. NodeTypes'
  <2>1. /\ head' \in [Lists -> Nodes \cup {null}] /\ tail' \in [Lists -> Nodes \cup {null}]
    BY <1>1, <1>2, <1>3 DEF NodeTypes
  <2>2. next' \in [Nodes -> Nodes \cup {null, deleted}]
    BY <1>1, <1>2, <1>3 DEF NodeTypes
  <2>3. prev' \in [Nodes -> Nodes \cup {null, deleted}]
    BY <1>1, <1>2, <1>3 DEF NodeTypes
  <2>4. value' \in [Nodes -> Values \cup {deleted}]
    BY <1>1, <1>2, <1>3 DEF NodeTypes
  <2>5. unused' \subseteq Nodes
    BY <1>2, <1>3 DEF NodeTypes
  <2> QED BY <2>1, <2>2, <2>3, <2>4, <2>5, <1>2, <1>6 DEF NodeTypes
<1>9. /\ \A m \in Nodes :
           next'[m] = IF m = n THEN null ELSE IF m = tail[l] THEN n ELSE next[m]
      /\ \A m \in Nodes : prev'[m] = IF m = n THEN tail[l] ELSE prev[m]
      /\ \A k \in Lists : head'[k] = IF k = l /\ tail[l] = null THEN n ELSE head[k]
      /\ \A k \in Lists : tail'[k] = IF k = l THEN n ELSE tail[k]
  BY <1>1, <1>2, <1>3 DEF NodeTypes
<1>10. tail[l] = null \/ tail[l] \in ToSet(order[l])
  BY PointersStay
<1>11. ASSUME NEW k \in Lists, k # l
       PROVE  \A m \in ToSet(order[k]) : next'[m] = next[m] /\ prev'[m] = prev[m]
  <2>1. ToSet(order[k]) \cap ToSet(order[l]) = {}
    BY <1>11 DEF NodesInv, Places, Apart, Ordered, Spared
  <2> QED BY <2>1, <1>2, <1>4, <1>9, <1>10, NodesAssumption, ZenonT(40)
<1>12. ASSUME NEW k \in Lists
       PROVE  \A m \in ToSet(spare'[k]) : next'[m] = next[m]
  <2>1. ToSet(spare[k]) \cap ToSet(order[l]) = {}
    BY <1>12 DEF NodesInv, Places, Apart, Ordered, Spared
  <2> QED BY <2>1, <1>2, <1>4, <1>9, <1>10, NodesAssumption
<1>13. Chains'
  <2> SUFFICES ASSUME NEW k \in Lists
               PROVE  Forth(head'[k], order'[k], next') /\ Back(tail'[k], order'[k], prev')
    BY <1>2, <1>12 DEF Chains, Forth, Back
  <2>1. CASE k = l
    <3>1. /\ Forth(IF tail[l] = null THEN n ELSE head[l], Append(order[l], n), next')
          /\ Back(n, Append(order[l], n), prev')
      <4>1. /\ order[l] \in Seq(Nodes) /\ IsInjective(order[l])
            /\ n \in Nodes /\ n \notin ToSet(order[l])
            /\ Forth(head[l], order[l], next) /\ Back(tail[l], order[l], prev)
        BY <1>2, <1>4
      <4>2. /\ \A m \in Nodes : next'[m] =
                  IF m = n THEN null ELSE IF m = tail[l] THEN n ELSE next[m]
            /\ \A m \in Nodes : prev'[m] = IF m = n THEN tail[l] ELSE prev[m]
        BY <1>9
      <4> QED BY <4>1, <4>2, ChainAppend
    <3> QED BY <3>1, <2>1, <1>6, <1>9
  <2>2. CASE k # l
    <3>1. Forth(head[k], order[k], next') /\ Back(tail[k], order[k], prev')
      BY <2>2, <1>4, <1>11, SameChain
    <3> QED BY <3>1, <2>2, <1>6, <1>9
  <2> QED BY <2>1, <2>2
<1> QED BY <1>1, <1>2, <1>7, <1>8, <1>13 DEF NodesInv, Pushed

LEMMA PushFrontKeeps ==
  ASSUME NodesInv, NEW l \in Lists, NEW v \in Values, push_front(l, v)
  PROVE  NodesInv' /\ \E n \in Nodes : /\ Pushed(l, v, n)
                                       /\ order' = [order EXCEPT ![l] = <<n>> \o @]
PROOF
<1>1. PICK n \in get_free_node(l) :
        /\ Take(l, n)
        /\ value' = [value EXCEPT ![n] = v]
        /\ next' = [next EXCEPT ![n] = head[l]]
        /\ prev' = [m \in Nodes |->
               IF m = n THEN null ELSE IF m = head[l] THEN n ELSE prev[m]]
        /\ tail' = IF head[l] = null THEN [tail EXCEPT ![l] = n] ELSE tail
        /\ head' = [head EXCEPT ![l] = n]
        /\ order' = [order EXCEPT ![l] = <<n>> \o order[l]]
  BY DEF push_front
<1>2. /\ n \in Nodes /\ \A k \in Lists : n \notin ToSet(order[k])
      /\ n \in unused /\ l \in Storing => spare[l] = <<>>
      /\ free' \in [Lists -> Nodes \cup {null}] /\ spare' \in [Lists -> Seq(Nodes)]
      /\ unused' = unused \ {n}
      /\ \A k \in Lists :
                /\ ToSet(spare'[k]) = ToSet(spare[k]) \ {n}
                /\ k \notin Storing => spare'[k] = <<>>
                /\ (\A m \in ToSet(spare'[k]) : next'[m] = next[m])
                   => Forth(free'[k], spare'[k], next')
  BY <1>1, TakeKeeps
<1>3. NodeTypes
  BY DEF NodesInv
<1>4. \A k \in Lists : /\ order[k] \in Seq(Nodes) /\ IsInjective(order[k])
                       /\ ToSet(order[k]) \subseteq Nodes /\ ToSet(spare[k]) \subseteq Nodes
                       /\ Forth(head[k], order[k], next) /\ Back(tail[k], order[k], prev)
  BY <1>3, ElementsIn DEF NodeTypes, NodesInv, Chains, Places
<1>5. /\ (<<n>> \o order[l]) \in Seq(Nodes)
      /\ ToSet(<<n>> \o order[l]) = ToSet(order[l]) \cup {n}
      /\ IsInjective(<<n>> \o order[l])
  BY <1>2, <1>4, ConsElements
<1>6. /\ order' \in [Lists -> Seq(Nodes)] /\ order'[l] = <<n>> \o order[l]
      /\ \A k \in Lists \ {l} : order'[k] = order[k]
  BY <1>1, <1>3, <1>5 DEF NodeTypes
<1>7. Places'
  BY <1>1, <1>5, <1>6, PushPlaces
<1>8. NodeTypes'
  <2>1. /\ head' \in [Lists -> Nodes \cup {null}] /\ tail' \in [Lists -> Nodes \cup {null}]
    BY <1>1, <1>2, <1>3 DEF NodeTypes
  <2>2. next' \in [Nodes -> Nodes \cup {null, deleted}]
    BY <1>1, <1>2, <1>3 DEF NodeTypes
  <2>3. prev' \in [Nodes -> Nodes \cup {null, deleted}]
    BY <1>1, <1>2, <1>3 DEF NodeTypes
  <2>4. value' \in [Nodes -> Values \cup {deleted}]
    BY <1>1, <1>2, <1>3 DEF NodeTypes
  <2>5. unused' \subseteq Nodes
    BY <1>2, <1>3 DEF NodeTypes
  <2> QED BY <2>1, <2>2, <2>3, <2>4, <2>5, <1>2, <1>6 DEF NodeTypes
<1>9. /\ \A m \in Nodes :
           prev'[m] = IF m = n THEN null ELSE IF m = head[l] THEN n ELSE prev[m]
      /\ \A m \in Nodes : next'[m] = IF m = n THEN head[l] ELSE next[m]
      /\ \A k \in Lists : tail'[k] = IF k = l /\ head[l] = null THEN n ELSE tail[k]
      /\ \A k \in Lists : head'[k] = IF k = l THEN n ELSE head[k]
  BY <1>1, <1>2, <1>3 DEF NodeTypes
<1>10. head[l] = null \/ head[l] \in ToSet(order[l])
  BY PointersStay
<1>11. ASSUME NEW k \in Lists, k # l
       PROVE  \A m \in ToSet(order[k]) : next'[m] = next[m] /\ prev'[m] = prev[m]
  <2>1. ToSet(order[k]) \cap ToSet(order[l]) = {}
    BY <1>11 DEF NodesInv, Places, Apart, Ordered, Spared
  <2> QED BY <2>1, <1>2, <1>4, <1>9, <1>10, NodesAssumption, ZenonT(40)
<1>12. ASSUME NEW k \in Lists
       PROVE  \A m \in ToSet(spare'[k]) : next'[m] = next[m]
  <2>1. ToSet(spare[k]) \cap ToSet(order[l]) = {}
    BY <1>12 DEF NodesInv, Places, Apart, Ordered, Spared
  <2> QED BY <2>1, <1>2, <1>4, <1>9, <1>10, NodesAssumption
<1>13. Chains'
  <2> SUFFICES ASSUME NEW k \in Lists
               PROVE  Forth(head'[k], order'[k], next') /\ Back(tail'[k], order'[k], prev')
    BY <1>2, <1>12 DEF Chains, Forth, Back
  <2>1. CASE k = l
    <3>1. /\ Forth(n, <<n>> \o order[l], next')
          /\ Back(IF head[l] = null THEN n ELSE tail[l], <<n>> \o order[l], prev')
      <4>1. /\ order[l] \in Seq(Nodes) /\ IsInjective(order[l])
            /\ n \in Nodes /\ n \notin ToSet(order[l])
            /\ Forth(head[l], order[l], next) /\ Back(tail[l], order[l], prev)
        BY <1>2, <1>4
      <4>2. /\ \A m \in Nodes : prev'[m] =
                  IF m = n THEN null ELSE IF m = head[l] THEN n ELSE prev[m]
            /\ \A m \in Nodes : next'[m] = IF m = n THEN head[l] ELSE next[m]
        BY <1>9
      <4> QED BY <4>1, <4>2, ChainCons
    <3> QED BY <3>1, <2>1, <1>6, <1>9
  <2>2. CASE k # l
    <3>1. Forth(head[k], order[k], next') /\ Back(tail[k], order[k], prev')
      BY <2>2, <1>4, <1>11, SameChain
    <3> QED BY <3>1, <2>2, <1>6, <1>9
  <2> QED BY <2>1, <2>2
<1> QED BY <1>1, <1>2, <1>7, <1>8, <1>13 DEF NodesInv, Pushed

\* What stays of the other places when a node of a list is erased.
LEMMA ErasePlaces ==
  ASSUME NodesInv, NEW l \in Lists, NEW i \in 1..Len(order[l]), NEW n \in Nodes,
         n = order[l][i], erase(l, n)
  PROVE  /\ order' \in [Lists -> Seq(Nodes)] /\ spare' \in [Lists -> Seq(Nodes)]
         /\ free' \in [Lists -> Nodes \cup {null}]
         /\ unused' \subseteq Nodes /\ unused \subseteq unused'
         /\ value' \in [Nodes -> Values \cup {deleted}]
         /\ \A m \in Nodes \ {n} : value'[m] = value[m]
         /\ order' = [order EXCEPT ![l] = RemoveFirst(order[l], n)]
         /\ \A k \in Lists : k \notin Storing => spare'[k] = <<>>
         /\ \A k \in Lists \ {l} : spare'[k] = spare[k] /\ free'[k] = free[k]
         /\ \/ /\ l \in Storing /\ free'[l] = n
               /\ spare'[l] = <<n>> \o spare[l]
            \/ l \notin Storing /\ spare'[l] = spare[l] /\ free'[l] = free[l]
         /\ Places'
PROOF
<1>1. NodeTypes /\ order[l] \in Seq(Nodes) /\ spare[l] \in Seq(Nodes)
  BY DEF NodesInv, NodeTypes
<1>2. /\ \A k \in Lists : IsInjective(order[k]) /\ IsInjective(spare[k])
      /\ Apart(Ordered, Spared, unused)
      /\ \A k \in Lists : k \notin Storing => spare[k] = <<>>
  BY DEF NodesInv, Places, Chains
<1>3. n \in ToSet(order[l]) /\ n \notin ToSet(spare[l])
  <2>1. n \in ToSet(order[l])
    BY <1>1 DEF ToSet
  <2> QED BY <2>1, <1>2 DEF Apart, Ordered, Spared
<1>4. order' = [order EXCEPT ![l] = RemoveFirst(order[l], n)]
  BY DEF erase
<1>5. /\ RemoveFirst(order[l], n) \in Seq(Nodes)
      /\ ToSet(RemoveFirst(order[l], n)) = ToSet(order[l]) \ {n}
      /\ IsInjective(RemoveFirst(order[l], n))
  BY <1>1, <1>2, RemoveElements
<1>6. /\ order' \in [Lists -> Seq(Nodes)] /\ order'[l] = RemoveFirst(order[l], n)
      /\ \A k \in Lists \ {l} : order'[k] = order[k]
  BY <1>1, <1>4, <1>5 DEF NodeTypes
<1>7. /\ <<n>> \o spare[l] \in Seq(Nodes)
      /\ ToSet(<<n>> \o spare[l]) = ToSet(spare[l]) \cup {n}
      /\ IsInjective(<<n>> \o spare[l])
  BY <1>1, <1>2, <1>3, ConsElements
<1>8. /\ spare' \in [Lists -> Seq(Nodes)] /\ free' \in [Lists -> Nodes \cup {null}]
      /\ value' \in [Nodes -> Values \cup {deleted}]
      /\ \A m \in Nodes \ {n} : value'[m] = value[m]
      /\ \A k \in Lists \ {l} : spare'[k] = spare[k] /\ free'[k] = free[k]
      /\ unused' \subseteq Nodes /\ unused \subseteq unused'
  BY <1>1, <1>7 DEF NodeTypes, erase
<1>9. \/ /\ l \in Storing /\ free'[l] = n /\ spare'[l] = <<n>> \o spare[l]
         /\ unused' = unused
      \/ /\ l \notin Storing /\ spare'[l] = spare[l] /\ free'[l] = free[l]
         /\ unused' = unused \cup {n}
  BY <1>1 DEF NodeTypes, erase
<1>10. /\ \A k \in Lists : Ordered[k] = ToSet(order[k]) /\ Ordered'[k] = ToSet(order'[k])
       /\ \A k \in Lists : Spared[k] = ToSet(spare[k]) /\ Spared'[k] = ToSet(spare'[k])
  BY DEF Ordered, Spared
<1>11. Apart(Ordered', Spared', unused')
  <2>1. n \in Ordered[l] /\ Ordered'[l] = Ordered[l] \ {n}
    BY <1>3, <1>5, <1>6, <1>10
  <2>2. \A k \in Lists \ {l} : Ordered'[k] = Ordered[k] /\ Spared'[k] = Spared[k]
    <3> TAKE k \in Lists \ {l}
    <3>1. order'[k] = order[k] /\ spare'[k] = spare[k]
      BY <1>6, <1>8
    <3> QED BY <3>1, <1>10
  <2>3. \/ Spared'[l] = Spared[l] \cup {n} /\ unused' = unused
        \/ Spared'[l] = Spared[l] /\ unused' = unused \cup {n}
    BY <1>7, <1>9, <1>10
  <2> QED BY <2>1, <2>2, <2>3, <1>2, ApartErase
<1>12. Places'
  <2>1. \A k \in Lists : IsInjective(order'[k])
    BY <1>2, <1>5, <1>6
  <2>2. \A k \in Lists : IsInjective(spare'[k])
    BY <1>2, <1>7, <1>8, <1>9
  <2> QED BY <2>1, <2>2, <1>11 DEF Places, Apart
<1>13. \A k \in Lists : k \notin Storing => spare'[k] = <<>>
  BY <1>2, <1>8, <1>9
<1> QED BY <1>4, <1>6, <1>8, <1>9, <1>12, <1>13

LEMMA EraseKeeps ==
  ASSUME NodesInv, NEW l \in Lists, NEW i \in 1..Len(order[l]), NEW n \in Nodes,
         n = order[l][i], erase(l, n)
  PROVE  NodesInv'
PROOF
<1>1. NodeTypes
  BY DEF NodesInv
<1>2. \A k \in Lists : /\ order[k] \in Seq(Nodes) /\ spare[k] \in Seq(Nodes)
                       /\ IsInjective(order[k])
                       /\ ToSet(order[k]) \subseteq Nodes /\ ToSet(spare[k]) \subseteq Nodes
                       /\ Forth(head[k], order[k], next) /\ Back(tail[k], order[k], prev)
                       /\ Forth(free[k], spare[k], next)
  BY <1>1, ElementsIn DEF NodeTypes, NodesInv, Chains, Places
<1>3. n \in ToSet(order[l])
  BY <1>2 DEF ToSet
<1>4. /\ next[n] = null \/ next[n] \in ToSet(order[l])
      /\ prev[n] = null \/ prev[n] \in ToSet(order[l])
  BY <1>3, PointersStay
<1>5. /\ \A m \in Nodes : next'[m] =
           IF m = n THEN IF l \in Storing THEN free[l] ELSE deleted
           ELSE IF m = prev[n] THEN next[n] ELSE next[m]
      /\ \A m \in Nodes : prev'[m] =
           IF m = n THEN IF l \in Storing THEN null ELSE deleted
           ELSE IF m = next[n] THEN prev[n] ELSE prev[m]
      /\ \A k \in Lists : head'[k] = IF k = l /\ n = head[l] THEN next[n] ELSE head[k]
      /\ \A k \in Lists : tail'[k] = IF k = l /\ n = tail[l] THEN prev[n] ELSE tail[k]
  BY <1>1 DEF erase, tail_after, NodeTypes
<1>6. NodeTypes'
  <2>1. next[n] \in Nodes \cup {null} /\ prev[n] \in Nodes \cup {null}
    BY <1>2, <1>4
  <2>2. head' \in [Lists -> Nodes \cup {null}] /\ tail' \in [Lists -> Nodes \cup {null}]
    BY <1>1, <2>1 DEF erase, tail_after, NodeTypes
  <2>3. next' \in [Nodes -> Nodes \cup {null, deleted}]
    BY <1>1, <2>1 DEF erase, NodeTypes
  <2>4. prev' \in [Nodes -> Nodes \cup {null, deleted}]
    BY <1>1, <2>1 DEF erase, NodeTypes
  <2> QED BY <2>2, <2>3, <2>4, ErasePlaces DEF NodeTypes
<1>7. ASSUME NEW k \in Lists, k # l
      PROVE  \A m \in ToSet(order[k]) : next'[m] = next[m] /\ prev'[m] = prev[m]
  <2>1. ToSet(order[k]) \cap ToSet(order[l]) = {}
    BY <1>7 DEF NodesInv, Places, Apart, Ordered, Spared
  <2> QED BY <2>1, <1>2, <1>3, <1>4, <1>5, NodesAssumption
<1>8. ASSUME NEW k \in Lists
      PROVE  \A m \in ToSet(spare[k]) : next'[m] = next[m]
  <2>1. ToSet(spare[k]) \cap ToSet(order[l]) = {}
    BY <1>8 DEF NodesInv, Places, Apart, Ordered, Spared
  <2> QED BY <2>1, <1>2, <1>3, <1>4, <1>5, NodesAssumption
<1>9. /\ order' = [order EXCEPT ![l] = RemoveFirst(order[l], n)]
      /\ order'[l] = RemoveFirst(order[l], n)
      /\ \A k \in Lists \ {l} : order'[k] = order[k]
  <2>1. order' = [order EXCEPT ![l] = RemoveFirst(order[l], n)]
    BY DEF erase
  <2>2. order \in [Lists -> Seq(Nodes)]
    BY <1>1 DEF NodeTypes
  <2> QED BY <2>1, <2>2
<1>10. ASSUME NEW k \in Lists
       PROVE  Forth(head'[k], order'[k], next') /\ Back(tail'[k], order'[k], prev')
  <2>1. CASE k = l
    <3>1. /\ order[l] \in Seq(Nodes) /\ IsInjective(order[l])
          /\ Forth(head[l], order[l], next) /\ Back(tail[l], order[l], prev)
      BY <1>2
    <3>2. /\ \A m \in Nodes \ {n} : next'[m] = IF m = prev[n] THEN next[n] ELSE next[m]
          /\ \A m \in Nodes \ {n} : prev'[m] = IF m = next[n] THEN prev[n] ELSE prev[m]
      BY <1>5
    <3>3. /\ Forth(IF n = head[l] THEN next[n] ELSE head[l], RemoveFirst(order[l], n), next')
          /\ Back(IF n = tail[l] THEN prev[n] ELSE tail[l], RemoveFirst(order[l], n), prev')
      BY <3>1, <3>2, ChainRemove
    <3> QED BY <3>3, <2>1, <1>5, <1>9
  <2>2. CASE k # l
    <3>1. Forth(head[k], order[k], next') /\ Back(tail[k], order[k], prev')
      BY <2>2, <1>2, <1>7, SameChain
    <3> QED BY <3>1, <2>2, <1>5, <1>9
  <2> QED BY <2>1, <2>2
<1>11. ASSUME NEW k \in Lists
       PROVE  Forth(free'[k], spare'[k], next')
  <2>1. Forth(free[k], spare[k], next')
    BY <1>2, <1>8, SameChain
  <2>2. CASE k # l \/ l \notin Storing
    <3>1. spare'[k] = spare[k] /\ free'[k] = free[k]
      BY <2>2, ErasePlaces
    <3> QED BY <3>1, <2>1
  <2>3. CASE k = l /\ l \in Storing
    <3>1. spare'[l] = <<n>> \o spare[l] /\ free'[l] = n
      <4>1. \/ /\ l \in Storing /\ free'[l] = n
               /\ spare'[l] = <<n>> \o spare[l]
            \/ l \notin Storing /\ spare'[l] = spare[l] /\ free'[l] = free[l]
        BY ErasePlaces
      <4> QED BY <4>1, <2>3
    <3>2. next'[n] = free[l]
      BY <2>3, <1>5
    <3>3. n \notin ToSet(spare[l]) /\ spare[l] \in Seq(Nodes)
      BY <1>2, <1>3 DEF NodesInv, Places, Apart, Ordered, Spared
    <3>4. Forth(n, <<n>> \o spare[l], next')
      BY <3>2, <3>3, <2>3, <1>2, <1>8, StackPush
    <3> QED BY <3>1, <3>4, <2>3
  <2> QED BY <2>2, <2>3
<1>12. Chains'
  BY <1>10, <1>11, ErasePlaces DEF Chains, Forth, Back
<1> QED BY <1>6, <1>12, ErasePlaces DEF NodesInv

----------------------------------------------------------------------------
(* The invariant.                                                          *)

\* What TypeOK and IteratorStays say of the erase_if in progress.
EraseIfInv ==
    /\ pc \in {"idle", "test", "erase"} /\ it \in Nodes \cup {null}
    /\ job \in Jobs \cup {null} /\ (pc = "idle" <=> job = null)
    /\ pc # "idle" =>
         \/ job.from \in Storing /\ job.to \in Storing \ {job.from}
         \/ job.from \notin Storing /\ job.to = nowhere
    /\ IteratorStays

InductiveInv == NodesInv /\ EraseIfInv

\* The loop of erase_if runs until its iterator is nullptr.
LEMMA EndIsNull ==
  ASSUME NodesInv, NEW l \in Lists
  PROVE  end(l) = null
PROOF
<1>1. /\ order[l] \in Seq(Nodes)
      /\ Forth(head[l], order[l], next) /\ Back(tail[l], order[l], prev)
  BY DEF NodesInv, NodeTypes, Chains
<1>2. CASE order[l] = <<>>
  BY <1>1, <1>2 DEF Back, end
<1>3. CASE order[l] # <<>>
  <2>1. Len(order[l]) \in DOMAIN order[l]
    BY <1>1, <1>3
  <2> QED BY <2>1, <1>1, <1>3 DEF Forth, Back, end
<1> QED BY <1>2, <1>3

\* The list erase_if walks is one of the lists.
LEMMA JobIsOne ==
  ASSUME EraseIfInv, pc # "idle"
  PROVE  /\ job \in Jobs /\ job.from \in Lists /\ job.to \in Lists \cup {nowhere}
         /\ job.to # job.from
         /\ job.picks \subseteq Values /\ job.front \in BOOLEAN
PROOF
<1>1. job \in Jobs
  BY DEF EraseIfInv
<1>2. job.from \in Lists /\ job.to \in Lists \cup {nowhere} /\ job.picks \subseteq Values
      /\ job.front \in BOOLEAN
  BY <1>1 DEF Jobs
<1> QED BY <1>1, <1>2, ListsAssumption DEF EraseIfInv

\* A member of a sequence has an index.
LEMMA IndexOf ==
  ASSUME NEW s, NEW n \in ToSet(s)
  PROVE  \E i \in DOMAIN s : n = s[i]
BY DEF ToSet

LEMMA InitInv == Init => InductiveInv
PROOF
<1> SUFFICES ASSUME Init PROVE InductiveInv
  OBVIOUS
<1>1. NodeTypes
  BY DEF Init, NodeTypes
<1>2. \A l \in Lists : order[l] = <<>> /\ spare[l] = <<>> /\ head[l] = null
                       /\ tail[l] = null /\ free[l] = null
  BY DEF Init
<1>3. ToSet(<<>>) = {} /\ DOMAIN <<>> = {}
  BY DEF ToSet
<1>4. Chains
  BY <1>2, <1>3 DEF Chains, Forth, Back
<1>5. Places
  <2>1. \A l \in Lists : IsInjective(order[l]) /\ IsInjective(spare[l])
    BY <1>2, <1>3 DEF IsInjective
  <2>2. \A l \in Lists : Ordered[l] = {} /\ Spared[l] = {}
    BY <1>2, <1>3 DEF Ordered, Spared
  <2>3. unused = Nodes
    BY DEF Init
  <2> QED BY <2>1, <2>2, <2>3 DEF Places, Apart
<1>6. EraseIfInv
  BY DEF Init, EraseIfInv, IteratorStays
<1> QED BY <1>1, <1>4, <1>5, <1>6 DEF InductiveInv, NodesInv

\* Nothing that is erase_if's own changes the nodes.
LEMMA NodesUnchanged ==
  ASSUME NodesInv, UNCHANGED <<pointers, order, spare>>
  PROVE  NodesInv'
BY DEF NodesInv, NodeTypes, Chains, Forth, Back, Places, Apart, Ordered, Spared, pointers

LEMMA NextInv ==
  ASSUME InductiveInv, [Next]_vars
  PROVE  InductiveInv'
PROOF
<1>1. NodesInv /\ EraseIfInv
  BY DEF InductiveInv
<1>2. ASSUME NEW l \in Lists, PopFront(l) PROVE InductiveInv'
  <2>1. /\ order[l] \in Seq(Nodes) /\ head[l] # null /\ pc = "idle"
        /\ Forth(head[l], order[l], next)
        /\ erase(l, head[l]) /\ UNCHANGED <<pc, job, it>>
    BY <1>1, <1>2 DEF PopFront, empty, NodesInv, NodeTypes, Chains
  <2>2. 1 \in 1..Len(order[l]) /\ head[l] = order[l][1] /\ head[l] \in Nodes
    BY <2>1 DEF Forth
  <2>3. NodesInv'
    BY <2>1, <2>2, <1>1, EraseKeeps
  <2>4. EraseIfInv'
    BY <2>1, <1>1 DEF EraseIfInv, IteratorStays
  <2> QED BY <2>3, <2>4 DEF InductiveInv
<1>3. ASSUME NEW l \in Lists, NEW v \in Values, PushBack(l, v) PROVE InductiveInv'
  <2>1. NodesInv'
    BY <1>1, <1>3, PushBackKeeps DEF PushBack
  <2>2. EraseIfInv'
    BY <1>1, <1>3 DEF EraseIfInv, IteratorStays, PushBack
  <2> QED BY <2>1, <2>2 DEF InductiveInv
<1>4. ASSUME NEW j \in Jobs, erase_if(j) PROVE InductiveInv'
  <2>1. NodesInv'
    BY <1>1, <1>4, NodesUnchanged DEF erase_if
  <2>2. j.from \in Lists
    BY DEF Jobs
  <2>3. head[j.from] = null \/ head[j.from] \in ToSet(order[j.from])
    BY <1>1, <2>2, PointersStay
  <2>4. head[j.from] \in Nodes \cup {null}
    BY <1>1, <2>2 DEF NodesInv, NodeTypes
  <2>5. order' = order /\ it' = head[j.from] /\ job' = j /\ pc' = "test"
    BY <1>4 DEF erase_if
  <2>6. EraseIfInv'
    BY <1>4, <2>3, <2>4, <2>5, JobsAssumption DEF EraseIfInv, IteratorStays, erase_if
  <2> QED BY <2>1, <2>6 DEF InductiveInv
<1>5. CASE EraseIfEnds
  <2>1. NodesInv'
    BY <1>1, <1>5, NodesUnchanged DEF EraseIfEnds
  <2>2. EraseIfInv'
    BY <1>5 DEF EraseIfInv, IteratorStays, EraseIfEnds
  <2> QED BY <2>1, <2>2 DEF InductiveInv
<1>6. ASSUME pc = "test", it # end(job.from)
      PROVE  it \in ToSet(order[job.from]) /\ it \in Nodes /\ job.from \in Lists
  <2>1. job.from \in Lists
    BY <1>1, <1>6, JobIsOne
  <2> QED BY <2>1, <1>1, <1>6, EndIsNull DEF EraseIfInv, IteratorStays
<1>7. ASSUME pc # "idle", it \in ToSet(order[job.from])
      PROVE  /\ next[it] \in Nodes \cup {null}
             /\ next[it] = null \/ next[it] \in ToSet(order[job.from])
  <2>1. job.from \in Lists
    BY <1>1, <1>7, JobIsOne
  <2>2. ToSet(order[job.from]) \subseteq Nodes
    BY <2>1, <1>1, ElementsIn DEF NodesInv, NodeTypes
  <2> QED BY <2>1, <2>2, <1>1, <1>7, PointersStay
<1>8. CASE Skip
  <2>1. NodesInv'
    BY <1>1, <1>8, NodesUnchanged DEF Skip
  <2>2. pc = "test" /\ it # end(job.from) /\ it' = next[it]
        /\ order' = order /\ pc' = pc /\ job' = job
    BY <1>8 DEF Skip
  <2>3. EraseIfInv'
    BY <1>1, <1>6, <1>7, <2>2 DEF EraseIfInv, IteratorStays
  <2> QED BY <2>1, <2>3 DEF InductiveInv
<1>9. CASE Pick
  <2>1. /\ pc = "test" /\ it # end(job.from) /\ value[it] \in job.picks
        /\ pc' = "erase" /\ job' = job /\ it' = it
    BY <1>9 DEF Pick
  <2>2. /\ it \in ToSet(order[job.from]) /\ it \in Nodes /\ job.from \in Lists
        /\ job.to \in Lists \cup {nowhere} /\ job.to # job.from
        /\ value[it] \in Values
    BY <2>1, <1>1, <1>6, JobIsOne
  <2>3. /\ NodesInv'
        /\ order'[job.from] = order[job.from] /\ value'[it] = value[it]
    <3>1. CASE job.to = nowhere /\ UNCHANGED <<pointers, order, spare>>
      <4>1. NodesInv'
        BY <3>1, <1>1, NodesUnchanged
      <4> QED BY <4>1, <3>1 DEF pointers
    <3>2. ASSUME NEW n \in Nodes, NEW s, Pushed(job.to, value[it], n), job.to \in Lists,
                 order' = [order EXCEPT ![job.to] = s]
          PROVE  order'[job.from] = order[job.from] /\ value'[it] = value[it]
      <4>1. n # it
        BY <3>2, <2>2 DEF Pushed
      <4> QED BY <4>1, <3>2, <2>2, <1>1 DEF Pushed, NodesInv, NodeTypes
    <3>3. CASE job.to # nowhere /\ push_back(job.to, value[it])
      <4>1. job.to \in Lists
        BY <3>3, <2>2
      <4>2. NodesInv' /\ \E n \in Nodes :
              /\ Pushed(job.to, value[it], n)
              /\ order' = [order EXCEPT ![job.to] = Append(@, n)]
        BY <4>1, <3>3, <2>2, <1>1, PushBackKeeps
      <4> QED BY <4>1, <4>2, <3>2
    <3>4. CASE job.to # nowhere /\ push_front(job.to, value[it])
      <4>1. job.to \in Lists
        BY <3>4, <2>2
      <4>2. NodesInv' /\ \E n \in Nodes :
              /\ Pushed(job.to, value[it], n)
              /\ order' = [order EXCEPT ![job.to] = <<n>> \o @]
        BY <4>1, <3>4, <2>2, <1>1, PushFrontKeeps
      <4> QED BY <4>1, <4>2, <3>2
    <3> QED BY <3>1, <3>3, <3>4, <1>9 DEF Pick
  <2>4. EraseIfInv'
    BY <2>1, <2>2, <2>3, <1>1 DEF EraseIfInv, IteratorStays
  <2> QED BY <2>3, <2>4 DEF InductiveInv
<1>10. CASE Erase
  <2>1. /\ pc = "erase" /\ it' = next[it] /\ erase(job.from, it)
        /\ pc' = "test" /\ job' = job
    BY <1>10 DEF Erase
  <2>2. job.from \in Lists /\ it \in ToSet(order[job.from])
    BY <2>1, <1>1, JobIsOne DEF EraseIfInv, IteratorStays
  <2>3. /\ order[job.from] \in Seq(Nodes) /\ IsInjective(order[job.from])
        /\ Forth(head[job.from], order[job.from], next)
    BY <2>2, <1>1 DEF NodesInv, NodeTypes, Places, Chains
  <2>4. PICK i \in 1..Len(order[job.from]) : it = order[job.from][i]
    BY <2>2, <2>3, IndexOf
  <2>5. it \in Nodes
    BY <2>3, <2>4
  <2>6. NodesInv'
    BY <2>1, <2>2, <2>4, <2>5, <1>1, EraseKeeps
  <2>7. next[it] = null \/ next[it] \in ToSet(order'[job.from])
    <3>1. /\ order' = [order EXCEPT ![job.from] = RemoveFirst(order[job.from], it)]
          /\ order \in [Lists -> Seq(Nodes)]
      BY <2>1, <1>1 DEF erase, NodesInv, NodeTypes
    <3>2. ToSet(order'[job.from]) = ToSet(order[job.from]) \ {it}
      <4>1. order'[job.from] = RemoveFirst(order[job.from], it)
        BY <3>1, <2>2
      <4>2. ToSet(RemoveFirst(order[job.from], it)) = ToSet(order[job.from]) \ {it}
        <5>1. ToSet(RemoveFirst(order[job.from], order[job.from][i])) =
              ToSet(order[job.from]) \ {order[job.from][i]}
          BY <2>3, RemoveElements
        <5> QED BY <5>1, <2>4
      <4> QED BY <4>1, <4>2
    <3>3. next[it] # it
      <4>1. DOMAIN order[job.from] = 1..Len(order[job.from]) /\ Len(order[job.from]) \in Nat
        BY <2>3
      <4>2. next[it] = IF i = Len(order[job.from]) THEN null ELSE order[job.from][i + 1]
        BY <2>3, <2>4, <4>1 DEF Forth
      <4>3. i # Len(order[job.from]) => i + 1 \in 1..Len(order[job.from]) /\ i + 1 # i
        BY <4>1
      <4> QED BY <4>1, <4>2, <4>3, <2>3, <2>4, <2>5, NodesAssumption DEF IsInjective
    <3> QED BY <3>2, <3>3, <2>1, <2>2, <1>7
  <2>8. EraseIfInv'
    BY <2>1, <2>2, <2>7, <1>1, <1>7 DEF EraseIfInv, IteratorStays
  <2> QED BY <2>6, <2>8 DEF InductiveInv
<1>11. CASE UNCHANGED vars
  <2>1. NodesInv'
    BY <1>1, <1>11, NodesUnchanged DEF vars
  <2>2. EraseIfInv'
    BY <1>1, <1>11 DEF EraseIfInv, IteratorStays, vars, pointers
  <2> QED BY <2>1, <2>2 DEF InductiveInv
<1> QED BY <1>2, <1>3, <1>4, <1>5, <1>8, <1>9, <1>10, <1>11 DEF Next, Halt

\* The invariant the run checks is the inductive one without the lists a job may
\* name: the nodes of every list are linked both ways, none is lost or used twice,
\* and erase_if's iterator never stands on an erased node.
THEOREM NodesInvariant == Spec => []IInv
<1>1. InductiveInv => IInv
  BY NodesInvParts DEF InductiveInv, NodesInv, EraseIfInv, IInv, TypeOK, NodeTypes
<1>2. InductiveInv /\ [Next]_vars => InductiveInv'
  BY NextInv
<1> QED BY <1>1, <1>2, InitInv, PTL DEF Spec


\* A state list takes a node from the heap only when it has no erased one.
THEOREM SparesGoFirst == Spec => SparesUsedFirst
<1> DEFINE First == \A n \in unused \ unused' :
                      \A l \in Storing : n \in ToSet(order'[l]) => spare[l] = <<>>
<1>1. ASSUME InductiveInv, [Next]_vars PROVE [First]_vars
  <2>1. NodesInv /\ EraseIfInv
    BY <1>1 DEF InductiveInv
  <2>2. CASE unused \subseteq unused'
    BY <2>2
  <2>3. ASSUME NEW k \in Lists, NEW v, NEW n \in Nodes, NEW s, Pushed(k, v, n),
               order' = [order EXCEPT ![k] = s]
        PROVE  First
    <3> SUFFICES ASSUME n \in unused, NEW l \in Storing, n \in ToSet(order'[l])
                 PROVE  spare[l] = <<>>
      BY <2>3 DEF Pushed
    <3>1. l \in Lists
      BY ListsAssumption
    <3>2. l = k
      <4>1. l # k => order'[l] = order[l]
        BY <2>1, <2>3, <3>1 DEF NodesInv, NodeTypes
      <4> QED BY <4>1, <2>3, <3>1 DEF Pushed
    <3> QED BY <3>2, <2>3 DEF Pushed
  <2>4. ASSUME NEW k \in Lists, NEW v \in Values, push_back(k, v) \/ push_front(k, v)
        PROVE  First
    <3>1. CASE push_back(k, v)
      <4>1. \E n \in Nodes : Pushed(k, v, n) /\ order' = [order EXCEPT ![k] = Append(@, n)]
        BY <2>1, <3>1, PushBackKeeps
      <4> QED BY <4>1, <2>3
    <3>2. CASE push_front(k, v)
      <4>1. \E n \in Nodes : Pushed(k, v, n) /\ order' = [order EXCEPT ![k] = <<n>> \o @]
        BY <2>1, <3>2, PushFrontKeeps
      <4> QED BY <4>1, <2>3
    <3> QED BY <3>1, <3>2, <2>4
  <2>5. ASSUME NEW l \in Lists, PopFront(l) PROVE First
    <3>1. unused \subseteq unused'
      BY <2>5 DEF PopFront, erase
    <3> QED BY <3>1, <2>2
  <2>6. ASSUME NEW l \in Lists, NEW v \in Values, PushBack(l, v) PROVE First
    BY <2>6, <2>4 DEF PushBack
  <2>7. ASSUME EraseIfEnds \/ Skip \/ Halt \/ UNCHANGED vars \/ \E j \in Jobs : erase_if(j)
        PROVE  First
    <3>1. unused' = unused
      BY <2>7 DEF EraseIfEnds, Skip, Halt, erase_if, vars, pointers
    <3> QED BY <3>1
  <2>8. CASE Pick
    <3>1. job.to \in Lists \cup {nowhere} /\ job.picks \subseteq Values
      BY <2>1, <2>8, JobIsOne DEF Pick
    <3>2. CASE UNCHANGED <<pointers, order, spare>>
      BY <3>2 DEF pointers
    <3> QED BY <3>1, <3>2, <2>4, <2>8 DEF Pick
  <2>9. CASE Erase
    <3>1. unused \subseteq unused'
      BY <2>9 DEF Erase, erase
    <3> QED BY <3>1, <2>2
  <2> QED BY <2>5, <2>6, <2>7, <2>8, <2>9, <1>1 DEF Next
<1>2. InductiveInv /\ [Next]_vars => InductiveInv'
  BY NextInv
<1> QED BY <1>1, <1>2, InitInv, PTL DEF Spec, SparesUsedFirst

----------------------------------------------------------------------------
(* The lists are sequences.                                                *)

Elements == Values \cup {deleted}
NodeLists == [Lists -> Seq(Nodes)]
NodeValues == [Nodes -> Elements]
ListValues == [Lists -> Seq(Elements)]

\* The values at the nodes of o.
Read(o, vl) == [l \in Lists |-> [i \in DOMAIN o[l] |-> vl[o[l][i]]]]
Contents == Read(order, value)

\* A list of o with one more element at an end.
Appended(o, l, e) == [o EXCEPT ![l] = Append(@, e)]
Prepended(o, l, e) == [o EXCEPT ![l] = <<e>> \o @]

\* o without the node n of a list.
Removed(o, l, n) == [o EXCEPT ![l] = RemoveFirst(@, n)]

\* The values after v, or anything, was written to n.
Written(vl, n, v) == [vl EXCEPT ![n] = v]
WrittenAt(vl2, vl, n) == \A m \in Nodes \ {n} : vl2[m] = vl[m]

LEMMA ReadType ==
  ASSUME NEW o \in [Lists -> Seq(Nodes)], NEW vl \in [Nodes -> Elements]
  PROVE  /\ Read(o, vl) \in [Lists -> Seq(Elements)]
         /\ \A l \in Lists :
                /\ Len(Read(o, vl)[l]) = Len(o[l]) /\ Len(o[l]) \in Nat
                /\ \A i \in 1..Len(o[l]) : Read(o, vl)[l][i] = vl[o[l][i]]
PROOF
<1>1. ASSUME NEW l \in Lists
      PROVE  /\ Read(o, vl)[l] \in Seq(Elements)
             /\ Len(Read(o, vl)[l]) = Len(o[l]) /\ Len(o[l]) \in Nat
             /\ \A i \in 1..Len(o[l]) : Read(o, vl)[l][i] = vl[o[l][i]]
  <2>1. Len(o[l]) \in Nat /\ DOMAIN o[l] = 1..Len(o[l])
    OBVIOUS
  <2>2. Read(o, vl)[l] = [i \in 1..Len(o[l]) |-> vl[o[l][i]]]
    BY <2>1 DEF Read
  <2>3. \A i \in 1..Len(o[l]) : vl[o[l][i]] \in Elements
    BY <2>1
  <2> QED BY <2>1, <2>2, <2>3
<1>2. Read(o, vl) = [l \in Lists |-> Read(o, vl)[l]]
  BY DEF Read
<1> QED BY <1>1, <1>2

\* Where a node is not, or is.
Outside(n, o) == \A k \in Lists : n \notin ToSet(o[k])
OnlyAt(n, o, l, i) ==
    /\ i \in 1..Len(o[l]) /\ n = o[l][i] /\ IsInjective(o[l])
    /\ \A k \in Lists \ {l} : n \notin ToSet(o[k])

\* A node is appended to a list.
LEMMA ReadAppend ==
  ASSUME NEW o \in NodeLists, NEW vl \in NodeValues,
         NEW l \in Lists, NEW n \in Nodes, Outside(n, o),
         NEW v \in Elements, NEW o2 \in NodeLists,
         NEW vl2 \in NodeValues
  PROVE  o2 = Appended(o, l, n) /\ vl2 = Written(vl, n, v)
         => Read(o2, vl2) = Appended(Read(o, vl), l, v)
PROOF
<1> USE DEF NodeLists, NodeValues
<1> DEFINE c == Read(o, vl)
           c2 == Read(o2, vl2)
<1>2. /\ c \in [Lists -> Seq(Elements)] /\ c2 \in [Lists -> Seq(Elements)]
      /\ \A k \in Lists :
             /\ Len(c[k]) = Len(o[k]) /\ Len(c2[k]) = Len(o2[k]) /\ Len(o[k]) \in Nat
             /\ \A i \in 1..Len(o[k]) : c[k][i] = vl[o[k][i]]
             /\ \A i \in 1..Len(o2[k]) : c2[k][i] = vl2[o2[k][i]]
  <2>1. /\ c \in [Lists -> Seq(Elements)]
        /\ \A k \in Lists :
             /\ Len(c[k]) = Len(o[k]) /\ Len(o[k]) \in Nat
             /\ \A i \in 1..Len(o[k]) : c[k][i] = vl[o[k][i]]
    BY ReadType
  <2>2. /\ c2 \in [Lists -> Seq(Elements)]
        /\ \A k \in Lists :
             /\ Len(c2[k]) = Len(o2[k])
             /\ \A i \in 1..Len(o2[k]) : c2[k][i] = vl2[o2[k][i]]
    BY ReadType
  <2> QED BY <2>1, <2>2
<1> HAVE o2 = Appended(o, l, n) /\ vl2 = Written(vl, n, v)
<1>1. o2[l] = Append(o[l], n) /\ \A k \in Lists \ {l} : o2[k] = o[k]
  BY DEF Appended
<1>6. vl2[n] = v /\ \A m \in Nodes \ {n} : vl2[m] = vl[m]
  BY DEF Written
<1>3. \A k \in Lists \ {l} : c2[k] = c[k]
  <2> TAKE k \in Lists \ {l}
  <2>1. o2[k] = o[k] /\ ToSet(o[k]) \subseteq Nodes /\ n \notin ToSet(o[k])
    <3>1. k \in Lists /\ o[k] \in Seq(Nodes)
      OBVIOUS
    <3>2. n \notin ToSet(o[k])
      BY <3>1 DEF Outside
    <3>3. ToSet(o[k]) \subseteq Nodes
      BY <3>1, ElementsIn
    <3> QED BY <3>2, <3>3, <1>1
  <2>2. \A i \in DOMAIN o[k] : vl2[o[k][i]] = vl[o[k][i]]
    BY <2>1, <1>6 DEF ToSet
  <2> QED BY <2>1, <2>2 DEF Read
<1> HIDE DEF c, c2
<1>4. c2[l] = Append(c[l], v)
  <2>1. o2[l] = Append(o[l], n) /\ o[l] \in Seq(Nodes)
    BY <1>1
  <2>2. /\ Len(o2[l]) = Len(o[l]) + 1 /\ o2[l][Len(o[l]) + 1] = n
        /\ \A i \in 1..Len(o[l]) : o2[l][i] = o[l][i]
    BY <2>1, AppendProperties
  <2>3. \A i \in 1..Len(o[l]) : o[l][i] \in Nodes /\ o[l][i] # n
    BY <2>1 DEF ToSet, Outside
  <2>4. /\ Append(c[l], v) \in Seq(Elements) /\ Len(Append(c[l], v)) = Len(o[l]) + 1
        /\ Append(c[l], v)[Len(o[l]) + 1] = v
        /\ \A i \in 1..Len(o[l]) : Append(c[l], v)[i] = c[l][i]
    <3>1. c[l] \in Seq(Elements) /\ Len(c[l]) = Len(o[l])
      BY <1>2
    <3>2. /\ Append(c[l], v) \in Seq(Elements)
          /\ Len(Append(c[l], v)) = Len(c[l]) + 1
          /\ \A i \in 1..Len(c[l]) : Append(c[l], v)[i] = c[l][i]
          /\ Append(c[l], v)[Len(c[l]) + 1] = v
      BY <3>1, AppendProperties
    <3> QED BY <3>1, <3>2
  <2>5. ASSUME NEW i \in 1..(Len(o[l]) + 1) PROVE c2[l][i] = Append(c[l], v)[i]
    <3>1. CASE i = Len(o[l]) + 1
      <4>1. i \in 1..Len(o2[l]) /\ o2[l][i] = n
        BY <3>1, <2>2
      <4>2. c2[l][i] = vl2[o2[l][i]]
        BY <4>1, <1>2
      <4> QED BY <4>1, <4>2, <3>1, <2>4, <1>6
    <3>2. CASE i # Len(o[l]) + 1
      <4>1. i \in 1..Len(o[l])
        BY <3>2, <1>2
      <4>2. c2[l][i] = vl[o[l][i]]
        <5>1. i \in 1..Len(o2[l])
          BY <2>2
        <5>2. c2[l][i] = vl2[o2[l][i]]
          BY <5>1, <1>2
        <5> QED BY <5>2, <4>1, <2>2, <2>3, <1>6
      <4> QED BY <4>1, <4>2, <2>4, <1>2
    <3> QED BY <3>1, <3>2
  <2>6. c2[l] \in Seq(Elements) /\ Len(c2[l]) = Len(o[l]) + 1
    BY <1>2, <2>2
  <2> QED BY <2>4, <2>5, <2>6, SeqEqual
<1>5. c2 = [c EXCEPT ![l] = Append(c[l], v)]
  BY <1>2, <1>3, <1>4
<1> QED BY <1>5 DEF c, c2, Appended

\* A node is put before the first of a list.
LEMMA ReadCons ==
  ASSUME NEW o \in NodeLists, NEW vl \in NodeValues,
         NEW l \in Lists, NEW n \in Nodes, Outside(n, o),
         NEW v \in Elements, NEW o2 \in NodeLists,
         NEW vl2 \in NodeValues
  PROVE  o2 = Prepended(o, l, n) /\ vl2 = Written(vl, n, v)
         => Read(o2, vl2) = Prepended(Read(o, vl), l, v)
PROOF
<1> USE DEF NodeLists, NodeValues
<1> DEFINE c == Read(o, vl)
           c2 == Read(o2, vl2)
<1>2. /\ c \in [Lists -> Seq(Elements)] /\ c2 \in [Lists -> Seq(Elements)]
      /\ \A k \in Lists :
             /\ Len(c[k]) = Len(o[k]) /\ Len(c2[k]) = Len(o2[k]) /\ Len(o[k]) \in Nat
             /\ \A i \in 1..Len(o[k]) : c[k][i] = vl[o[k][i]]
             /\ \A i \in 1..Len(o2[k]) : c2[k][i] = vl2[o2[k][i]]
  <2>1. /\ c \in [Lists -> Seq(Elements)]
        /\ \A k \in Lists :
             /\ Len(c[k]) = Len(o[k]) /\ Len(o[k]) \in Nat
             /\ \A i \in 1..Len(o[k]) : c[k][i] = vl[o[k][i]]
    BY ReadType
  <2>2. /\ c2 \in [Lists -> Seq(Elements)]
        /\ \A k \in Lists :
             /\ Len(c2[k]) = Len(o2[k])
             /\ \A i \in 1..Len(o2[k]) : c2[k][i] = vl2[o2[k][i]]
    BY ReadType
  <2> QED BY <2>1, <2>2
<1> HAVE o2 = Prepended(o, l, n) /\ vl2 = Written(vl, n, v)
<1>1. o2[l] = <<n>> \o o[l] /\ \A k \in Lists \ {l} : o2[k] = o[k]
  BY DEF Prepended
<1>6. vl2[n] = v /\ \A m \in Nodes \ {n} : vl2[m] = vl[m]
  BY DEF Written
<1>3. \A k \in Lists \ {l} : c2[k] = c[k]
  <2> TAKE k \in Lists \ {l}
  <2>1. o2[k] = o[k] /\ ToSet(o[k]) \subseteq Nodes /\ n \notin ToSet(o[k])
    <3>1. k \in Lists /\ o[k] \in Seq(Nodes)
      OBVIOUS
    <3>2. n \notin ToSet(o[k])
      BY <3>1 DEF Outside
    <3>3. ToSet(o[k]) \subseteq Nodes
      BY <3>1, ElementsIn
    <3> QED BY <3>2, <3>3, <1>1
  <2>2. \A i \in DOMAIN o[k] : vl2[o[k][i]] = vl[o[k][i]]
    BY <2>1, <1>6 DEF ToSet
  <2> QED BY <2>1, <2>2 DEF Read
<1> HIDE DEF c, c2
<1>4. c2[l] = <<v>> \o c[l]
  <2>1. o2[l] = <<n>> \o o[l] /\ o[l] \in Seq(Nodes)
    BY <1>1
  <2>2. /\ Len(o2[l]) = Len(o[l]) + 1 /\ o2[l][1] = n
        /\ \A i \in 1..Len(o[l]) : o2[l][i + 1] = o[l][i]
    BY <2>1
  <2>3. \A i \in 1..Len(o[l]) : o[l][i] \in Nodes /\ o[l][i] # n
    BY <2>1 DEF ToSet, Outside
  <2>4. /\ <<v>> \o c[l] \in Seq(Elements) /\ Len(<<v>> \o c[l]) = Len(o[l]) + 1
        /\ (<<v>> \o c[l])[1] = v
        /\ \A i \in 1..Len(o[l]) : (<<v>> \o c[l])[i + 1] = c[l][i]
    <3> DEFINE d == c[l]
    <3>1. d \in Seq(Elements) /\ Len(d) = Len(o[l])
      BY <1>2
    <3> HIDE DEF d
    <3>2. /\ <<v>> \o d \in Seq(Elements) /\ Len(<<v>> \o d) = Len(d) + 1
          /\ (<<v>> \o d)[1] = v
          /\ \A i \in 1..Len(d) : (<<v>> \o d)[i + 1] = d[i]
      BY <3>1
    <3> QED BY <3>1, <3>2 DEF d
  <2>5. ASSUME NEW i \in 1..(Len(o[l]) + 1) PROVE c2[l][i] = (<<v>> \o c[l])[i]
    <3>1. CASE i = 1
      BY <3>1, <2>2, <2>4, <1>2, <1>6
    <3>2. CASE i # 1
      <4>1. i - 1 \in 1..Len(o[l]) /\ (i - 1) + 1 = i
        BY <3>2, <1>2
      <4>2. o2[l][i] = o[l][i - 1] /\ (<<v>> \o c[l])[i] = c[l][i - 1]
        BY <4>1, <2>2, <2>4
      <4>3. c2[l][i] = vl[o[l][i - 1]]
        <5>1. i \in 1..Len(o2[l])
          BY <2>2
        <5>2. c2[l][i] = vl2[o2[l][i]]
          BY <5>1, <1>2
        <5> QED BY <5>2, <4>1, <4>2, <2>3, <1>6
      <4> QED BY <4>1, <4>2, <4>3, <1>2
    <3> QED BY <3>1, <3>2
  <2>6. c2[l] \in Seq(Elements) /\ Len(c2[l]) = Len(o[l]) + 1
    BY <1>2, <2>2
  <2> QED BY <2>4, <2>5, <2>6, SeqEqual
<1>5. c2 = [c EXCEPT ![l] = <<v>> \o c[l]]
  BY <1>2, <1>3, <1>4
<1> QED BY <1>5 DEF c, c2, Prepended

\* t is s without its ith element.
WithoutAt(t, s, i) ==
    /\ Len(t) = Len(s) - 1
    /\ \A k \in 1..(Len(s) - 1) : t[k] = IF k < i THEN s[k] ELSE s[k + 1]

\* A node is taken out of a list.
LEMMA ReadRemove ==
  ASSUME NEW o \in NodeLists, NEW vl \in NodeValues,
         NEW l \in Lists, NEW i, NEW n, OnlyAt(n, o, l, i),
         NEW o2 \in NodeLists,
         NEW vl2 \in NodeValues, WrittenAt(vl2, vl, n)
  PROVE  o2 = Removed(o, l, n) =>
         /\ WithoutAt(o2[l], o[l], i)
         /\ WithoutAt(Read(o2, vl2)[l], Read(o, vl)[l], i)
         /\ \A k \in Lists \ {l} : Read(o2, vl2)[k] = Read(o, vl)[k]
PROOF
<1> USE DEF NodeLists, NodeValues
<1> DEFINE c == Read(o, vl)
           c2 == Read(o2, vl2)
<1>3. /\ c \in [Lists -> Seq(Elements)] /\ c2 \in [Lists -> Seq(Elements)]
      /\ \A k \in Lists :
             /\ Len(c[k]) = Len(o[k]) /\ Len(c2[k]) = Len(o2[k]) /\ Len(o[k]) \in Nat
             /\ \A h \in 1..Len(o[k]) : c[k][h] = vl[o[k][h]]
             /\ \A h \in 1..Len(o2[k]) : c2[k][h] = vl2[o2[k][h]]
  <2>1. /\ c \in [Lists -> Seq(Elements)]
        /\ \A k \in Lists :
             /\ Len(c[k]) = Len(o[k]) /\ Len(o[k]) \in Nat
             /\ \A h \in 1..Len(o[k]) : c[k][h] = vl[o[k][h]]
    BY ReadType
  <2>2. /\ c2 \in [Lists -> Seq(Elements)]
        /\ \A k \in Lists :
             /\ Len(c2[k]) = Len(o2[k])
             /\ \A h \in 1..Len(o2[k]) : c2[k][h] = vl2[o2[k][h]]
    BY ReadType
  <2> QED BY <2>1, <2>2
<1> HAVE o2 = Removed(o, l, n)
<1>2. o2[l] = RemoveFirst(o[l], n) /\ \A k \in Lists \ {l} : o2[k] = o[k]
  BY DEF Removed
<1>7. \A m \in Nodes \ {n} : vl2[m] = vl[m]
  BY DEF WrittenAt
<1>1. /\ o2[l] \in Seq(Nodes) /\ Len(o2[l]) = Len(o[l]) - 1
      /\ \A k \in 1..(Len(o[l]) - 1) :
             o2[l][k] = IF k < i THEN o[l][k] ELSE o[l][k + 1]
  BY <1>2, RemoveNode DEF OnlyAt
<1>4. \A k \in Lists \ {l} : c2[k] = c[k]
  <2> TAKE k \in Lists \ {l}
  <2>1. o2[k] = o[k] /\ o[k] \in Seq(Nodes)
    BY <1>2
  <2>2. \A h \in DOMAIN o[k] : o[k][h] \in Nodes /\ o[k][h] # n
    BY <2>1 DEF ToSet, OnlyAt
  <2>3. \A h \in DOMAIN o[k] : vl2[o[k][h]] = vl[o[k][h]]
    BY <2>2, <1>7
  <2> QED BY <2>1, <2>3 DEF Read
<1> HIDE DEF c, c2
<1>5. ASSUME NEW k \in 1..(Len(o[l]) - 1)
      PROVE  c2[l][k] = IF k < i THEN c[l][k] ELSE c[l][k + 1]
  <2>1. k \in 1..Len(o[l]) /\ k + 1 \in 1..Len(o[l]) /\ i \in 1..Len(o[l])
    BY <1>3 DEF OnlyAt
  <2>2. /\ o[l] \in Seq(Nodes) /\ DOMAIN o[l] = 1..Len(o[l])
        /\ \A h \in 1..Len(o[l]) : o[l][h] \in Nodes /\ (h # i => o[l][h] # n)
    BY DEF IsInjective, OnlyAt
  <2>3. CASE k < i
    <3>1. k # i /\ k \in 1..Len(o[l])
      BY <2>1, <2>3, <1>3
    <3>2. o2[l][k] = o[l][k] /\ k \in 1..Len(o2[l])
      BY <2>3, <1>1
    <3>3. c2[l][k] = vl2[o[l][k]] /\ c[l][k] = vl[o[l][k]]
      BY <3>1, <3>2, <1>3
    <3>4. vl2[o[l][k]] = vl[o[l][k]]
      <4>1. o[l][k] \in Nodes \ {n}
        BY <3>1, <2>2
      <4> QED BY <4>1, <1>7
    <3> QED BY <3>3, <3>4, <2>3
  <2>4. CASE ~(k < i)
    <3>1. k + 1 # i /\ k + 1 \in 1..Len(o[l])
      BY <2>1, <2>4, <1>3
    <3>2. o2[l][k] = o[l][k + 1] /\ k \in 1..Len(o2[l])
      BY <2>4, <1>1
    <3>3. c2[l][k] = vl2[o[l][k + 1]] /\ c[l][k + 1] = vl[o[l][k + 1]]
      BY <3>1, <3>2, <1>3
    <3>4. vl2[o[l][k + 1]] = vl[o[l][k + 1]]
      <4>1. o[l][k + 1] \in Nodes \ {n}
        BY <3>1, <2>2
      <4> QED BY <4>1, <1>7
    <3> QED BY <3>3, <3>4, <2>4
  <2> QED BY <2>3, <2>4
<1>6. Len(c2[l]) = Len(o[l]) - 1
  BY <1>1, <1>3
<1>8. Len(c[l]) = Len(o[l])
  BY <1>3
<1> QED BY <1>1, <1>4, <1>5, <1>6, <1>8 DEF c, c2, WithoutAt

\* A sequence up to its kth element, and from it on.
Upto(s, k) == SubSeq(s, 1, k)
From(s, k) == SubSeq(s, k, Len(s))

\* What erase_if leaves of the list it walks, and makes of the one it moves to.
Left(vis, rst, T) == vis \o Kept(rst, T)
MovedTo(front, t, p) == IF front THEN Reverse(p) \o t ELSE t \o p
PushedTo(front, t, e) == IF front THEN <<e>> \o t ELSE Append(t, e)

LEMMA Associative ==
  ASSUME NEW S, NEW r \in Seq(S), NEW s \in Seq(S), NEW t \in Seq(S)
  PROVE  (r \o s) \o t = r \o (s \o t)
BY ConcatAssociative

\* A process that is not picked stays.
LEMMA TestedNo ==
  ASSUME NEW S, NEW s \in Seq(S), NEW i \in 1..Len(s), NEW T, s[i] \notin T
  PROVE  /\ Left(Upto(s, i - 1), From(s, i), T) = Left(Upto(s, i), From(s, i + 1), T)
         /\ Picked(From(s, i), T) = Picked(From(s, i + 1), T)
PROOF
<1> DEFINE x == s[i]
           a == Upto(s, i - 1)
           b == From(s, i + 1)
           k == Kept(b, T)
           one == <<x>>
<1>1. x \in S /\ x \notin T /\ one \in Seq(S)
  OBVIOUS
<1>2. a \in Seq(S) /\ b \in Seq(S)
  BY DEF Upto, From
<1>3. From(s, i) = <<x>> \o b
  BY SubSeqRecursiveFirst DEF From
<1>4. Upto(s, i) = a \o <<x>>
  BY SubSeqRecursiveSecond DEF Upto
<1> HIDE DEF a, b, x
<1>5. Picked(<<x>> \o b, T) = Picked(b, T) /\ Kept(<<x>> \o b, T) = <<x>> \o Kept(b, T)
  <2>1. x \in S
    BY <1>1
  <2>2. b \in Seq(S)
    BY <1>2
  <2>3. /\ Picked(<<x>> \o b, T) =
             IF x \in T THEN <<x>> \o Picked(b, T) ELSE Picked(b, T)
        /\ Kept(<<x>> \o b, T) =
             IF x \in T THEN Kept(b, T) ELSE <<x>> \o Kept(b, T)
    BY <2>1, <2>2, PickedCons, SMTT(40)
  <2> QED BY <2>3, <1>1
<1>6. (a \o one) \o k = a \o (one \o k)
  <2>1. k \in Seq(S)
    BY <1>2, KeptElements
  <2>2. one \in Seq(S)
    BY <1>1
  <2>3. a \in Seq(S)
    BY <1>2
  <2> HIDE DEF one, k
  <2> QED BY <2>1, <2>2, <2>3, ConcatAssociative, SMTT(40)
<1> QED BY <1>3, <1>4, <1>5, <1>6 DEF Left, a, b

\* One that is picked has been pushed where it goes.
LEMMA TestedYes ==
  ASSUME NEW S, NEW s \in Seq(S), NEW i \in 1..Len(s), NEW T, s[i] \in T
  PROVE  /\ Kept(From(s, i), T) = Kept(From(s, i + 1), T)
         /\ \A front : \A t \in Seq(S) :
                MovedTo(front, t, Picked(From(s, i), T)) =
                MovedTo(front, PushedTo(front, t, s[i]), Picked(From(s, i + 1), T))
PROOF
<1> DEFINE x == s[i]
           b == From(s, i + 1)
           p == Picked(b, T)
           one == <<x>>
<1>1. x \in S /\ x \in T /\ one \in Seq(S)
  OBVIOUS
<1>2. b \in Seq(S)
  BY DEF From
<1>3. From(s, i) = <<x>> \o b
  BY SubSeqRecursiveFirst DEF From
<1> HIDE DEF b, x
<1>4. Picked(<<x>> \o b, T) = <<x>> \o p /\ Kept(<<x>> \o b, T) = Kept(b, T)
  <2>1. x \in S
    BY <1>1
  <2>2. /\ Picked(<<x>> \o b, T) =
             IF x \in T THEN <<x>> \o Picked(b, T) ELSE Picked(b, T)
        /\ Kept(<<x>> \o b, T) =
             IF x \in T THEN Kept(b, T) ELSE <<x>> \o Kept(b, T)
    BY <2>1, <1>2, PickedCons, SMTT(40)
  <2> QED BY <2>2, <1>1
<1>5. p \in Seq(S)
  BY <1>2, PickedElements
<1> HIDE DEF p
<1>6. Reverse(<<x>> \o p) = Reverse(p) \o <<x>> /\ Reverse(p) \in Seq(S)
  BY <1>1, <1>5, ReverseCons, ReverseElements
<1>7. ASSUME NEW t \in Seq(S)
      PROVE  /\ t \o (<<x>> \o p) = Append(t, x) \o p
             /\ Reverse(<<x>> \o p) \o t = Reverse(p) \o (<<x>> \o t)
  <2>1. t \in Seq(S)
    OBVIOUS
  <2>2. Append(t, x) = t \o one
    BY <2>1, <1>1, AppendIsConcat
  <2>5. one \in Seq(S)
    BY <1>1
  <2>6. Reverse(p) \in Seq(S)
    BY <1>6
  <2> DEFINE r == Reverse(p)
  <2> HIDE DEF one, r
  <2>3. (t \o one) \o p = t \o (one \o p)
    BY <2>1, <2>5, <1>5, Associative, SMTT(60)
  <2>4. (r \o one) \o t = r \o (one \o t)
    <3>1. r \in Seq(S)
      BY <2>6 DEF r
    <3> QED BY <2>1, <2>5, <3>1, Associative, SMTT(60)
  <2> QED BY <2>2, <2>3, <2>4, <1>6 DEF one, r
<1> QED BY <1>3, <1>4, <1>7 DEF MovedTo, PushedTo, b, p, x

\* What the lists will be when the erase_if j has yet to test rst of the list it
\* walks and has left vis of what it tested, and the lists are c.
OutcomeOf(vis, rst, j, c) ==
    [l \in Lists |->
        IF l = j.from THEN Left(vis, rst, j.picks)
        ELSE IF l # j.to THEN c[l]
        ELSE MovedTo(j.front, c[l], Picked(rst, j.picks))]

\* rest and outcome, of any nodes o that hold s, iterator n and pc p.
RestOf(o, s, n, p) ==
    LET I == {i \in DOMAIN s : o[i] = n}
    IN  IF I = {} THEN <<>>
        ELSE SubSeq(s, (CHOOSE i \in I : TRUE) + IF p = "erase" THEN 1 ELSE 0, Len(s))
OutcomeFrom(o, c, n, p, j) ==
    LET s == c[j.from]
        r == RestOf(o, s, n, p)
    IN  OutcomeOf(SubSeq(s, 1, Len(s) - Len(r) - IF p = "erase" THEN 1 ELSE 0), r, j, c)

\* What it will be when all up to a was tested, and all from b on is yet to be.
Outlook(c, j, a, b) ==
    OutcomeOf(Upto(c[j.from], a), From(c[j.from], b), j, c)

\* The iterator is at i, past the end with Len(o) + 1.
At(o, n, i) == n = IF i = Len(o) + 1 THEN null ELSE o[i]

LEMMA OutcomeAt ==
  ASSUME NEW o \in Seq(Nodes), IsInjective(o), NEW c \in ListValues,
         NEW j, j.from \in Lists, Len(c[j.from]) = Len(o),
         NEW i \in 1..(Len(o) + 1), NEW n, At(o, n, i), NEW p,
         NEW d \in {0, 1}, d = IF p = "erase" THEN 1 ELSE 0,
         i = Len(o) + 1 => d = 0
  PROVE  OutcomeFrom(o, c, n, p, j) = Outlook(c, j, i - 1, i + d)
PROOF
<1> USE DEF ListValues
<1> DEFINE s == c[j.from]
           I == {k \in DOMAIN s : o[k] = n}
           r == RestOf(o, s, n, p)
<1>1. /\ s \in Seq(Elements) /\ Len(s) = Len(o) /\ DOMAIN s = 1..Len(o)
      /\ Len(o) \in Nat /\ DOMAIN o = 1..Len(o)
      /\ \A k \in 1..Len(o) : o[k] \in Nodes
  OBVIOUS
<1>2. d \in {0, 1} /\ (i = Len(o) + 1 => d = 0)
  OBVIOUS
<1> HIDE DEF s
<1>3. r = SubSeq(s, i + d, Len(s))
  <2>1. CASE i = Len(o) + 1
    <3>1. n = null
      BY <2>1 DEF At
    <3>2. I = {}
      BY <3>1, <1>1, NodesAssumption
    <3>3. r = <<>>
      BY <3>2 DEF RestOf
    <3>4. SubSeq(s, i + d, Len(s)) = <<>>
      <4>1. i + d \in Int /\ Len(s) \in Int /\ Len(s) < i + d
        BY <2>1, <1>1, <1>2
      <4> QED BY <4>1, SubSeqEmpty
    <3> QED BY <3>3, <3>4
  <2>2. CASE i # Len(o) + 1
    <3>1. i \in 1..Len(o) /\ n = o[i]
      BY <2>2, <1>1 DEF At
    <3>2. I = {i}
      BY <3>1, <1>1 DEF IsInjective
    <3>3. (CHOOSE k \in I : TRUE) = i
      BY <3>2
    <3>4. r = SubSeq(s, (CHOOSE k \in I : TRUE) + d, Len(s))
      BY <3>2 DEF RestOf
    <3> QED BY <3>3, <3>4
  <2> QED BY <2>1, <2>2
<1> HIDE DEF I
<1>4. Len(r) = Len(s) - (i - 1) - d
  <2> DEFINE e == i + d
             m == Len(s)
  <2>1. /\ e \in Nat /\ 1 <= e /\ m \in Nat /\ m = Len(o)
        /\ (e <= m => m - e + 1 = m - (i - 1) - d) /\ (~(e <= m) => m - (i - 1) - d = 0)
    BY <1>1, <1>2
  <2>2. \A k \in e..m : s[k] \in Elements
    BY <2>1, <1>1
  <2>3. r = SubSeq(s, e, m)
    BY <1>3
  <2> HIDE DEF e, m
  <2>4. Len(SubSeq(s, e, m)) = IF e <= m THEN m - e + 1 ELSE 0
    BY <2>1, <2>2, SubSeqProperties
  <2>5. Len(r) = m - (i - 1) - d
    BY <2>1, <2>3, <2>4
  <2> QED BY <2>5 DEF m
<1> HIDE DEF r
<1>5. Len(s) - Len(r) - d = i - 1
  BY <1>1, <1>2, <1>4
<1>6. OutcomeFrom(o, c, n, p, j) = OutcomeOf(SubSeq(s, 1, Len(s) - Len(r) - d), r, j, c)
  BY DEF OutcomeFrom, s, r
<1> QED BY <1>3, <1>5, <1>6 DEF s, Outlook, Upto, From

\* The erase_if j is at i, with its iterator n in the nodes o and the lists c.
Here(o, c, j, n, i) ==
    /\ o \in Seq(Nodes) /\ IsInjective(o) /\ c \in ListValues /\ j.from \in Lists
    /\ Len(c[j.from]) = Len(o) /\ Len(o) \in Nat
    /\ i \in 1..(Len(o) + 1) /\ At(o, n, i)

LEMMA OutcomeHere ==
  ASSUME NEW o, NEW c, NEW j, NEW n, NEW i, Here(o, c, j, n, i)
  PROVE  /\ OutcomeFrom(o, c, n, "test", j) = Outlook(c, j, i - 1, i)
         /\ i # Len(o) + 1 =>
              OutcomeFrom(o, c, n, "erase", j) = Outlook(c, j, i - 1, i + 1)
PROOF
<1>1. /\ o \in Seq(Nodes) /\ IsInjective(o) /\ c \in ListValues /\ j.from \in Lists
      /\ Len(c[j.from]) = Len(o) /\ i \in 1..(Len(o) + 1) /\ At(o, n, i)
      /\ Len(o) \in Nat
  BY DEF Here
<1>2. ASSUME NEW p, NEW d \in {0, 1}, d = IF p = "erase" THEN 1 ELSE 0,
             i = Len(o) + 1 => d = 0
      PROVE  OutcomeFrom(o, c, n, p, j) = Outlook(c, j, i - 1, i + d)
  BY <1>1, <1>2, OutcomeAt
<1>3. OutcomeFrom(o, c, n, "test", j) = Outlook(c, j, i - 1, i + 0)
  <2>1. 0 \in {0, 1} /\ 0 = IF "test" = "erase" THEN 1 ELSE 0
    OBVIOUS
  <2> QED BY <2>1, <1>2
<1>4. ASSUME i # Len(o) + 1
      PROVE  OutcomeFrom(o, c, n, "erase", j) = Outlook(c, j, i - 1, i + 1)
  BY <1>2, <1>4
<1>5. i + 0 = i
  BY <1>1
<1> QED BY <1>3, <1>4, <1>5

\* A process that is not picked stays, so the outcome is the same.
LEMMA OutcomeSkip ==
  ASSUME NEW c \in ListValues, NEW j, j.from \in Lists,
         NEW i \in 1..Len(c[j.from]), c[j.from][i] \notin j.picks
  PROVE  Outlook(c, j, i - 1, i) = Outlook(c, j, i, i + 1)
PROOF
<1> USE DEF ListValues
<1> DEFINE s == c[j.from]
           T == j.picks
<1>1. s \in Seq(Elements) /\ i \in 1..Len(s) /\ s[i] \notin T
  OBVIOUS
<1> HIDE DEF s, T
<1>2. /\ Left(Upto(s, i - 1), From(s, i), T) = Left(Upto(s, i), From(s, i + 1), T)
      /\ Picked(From(s, i), T) = Picked(From(s, i + 1), T)
  BY <1>1, TestedNo
<1> QED BY <1>2 DEF Outlook, OutcomeOf, s, T

\* A process that is picked has been pushed where the outcome has it.
LEMMA OutcomePick ==
  ASSUME NEW c \in ListValues, NEW j, j.from \in Lists, j.to # j.from,
         NEW i \in 1..Len(c[j.from]), NEW e, e = c[j.from][i], e \in j.picks,
         NEW c2 \in ListValues
  PROVE  \/ j.to \notin Lists /\ c2 = c
         \/ j.front /\ c2 = Prepended(c, j.to, e)
         \/ ~j.front /\ c2 = Appended(c, j.to, e)
         => Outlook(c, j, i - 1, i) = Outlook(c2, j, i - 1, i + 1)
PROOF
<1> USE DEF ListValues
<1> DEFINE s == c[j.from]
           T == j.picks
<1>1. s \in Seq(Elements) /\ i \in 1..Len(s) /\ s[i] \in T /\ e = s[i]
  OBVIOUS
<1> HIDE DEF s, T
<1>2. /\ Kept(From(s, i), T) = Kept(From(s, i + 1), T)
      /\ \A front : \A t \in Seq(Elements) :
             MovedTo(front, t, Picked(From(s, i), T)) =
             MovedTo(front, PushedTo(front, t, s[i]), Picked(From(s, i + 1), T))
  BY <1>1, TestedYes
<1> HAVE \/ j.to \notin Lists /\ c2 = c
         \/ j.front /\ c2 = Prepended(c, j.to, e)
         \/ ~j.front /\ c2 = Appended(c, j.to, e)
<1>3. /\ \A l \in Lists \ {j.to} : c2[l] = c[l]
      /\ j.to \in Lists => c2[j.to] = PushedTo(j.front, c[j.to], e)
  BY DEF Prepended, Appended, PushedTo
<1>4. ASSUME j.to \in Lists
      PROVE  MovedTo(j.front, c[j.to], Picked(From(s, i), T)) =
             MovedTo(j.front, c2[j.to], Picked(From(s, i + 1), T))
  <2>1. c[j.to] \in Seq(Elements)
    BY <1>4
  <2>2. MovedTo(j.front, c[j.to], Picked(From(s, i), T)) =
        MovedTo(j.front, PushedTo(j.front, c[j.to], s[i]), Picked(From(s, i + 1), T))
    BY <1>2, <2>1
  <2> QED BY <2>2, <1>1, <1>3, <1>4
<1>5. c2[j.from] = s
  BY <1>3 DEF s
<1>6. Left(Upto(s, i - 1), From(s, i), T) = Left(Upto(s, i - 1), From(s, i + 1), T)
  BY <1>2 DEF Left
<1>7. \A l \in Lists : OutcomeOf(Upto(s, i - 1), From(s, i), j, c)[l] =
                       OutcomeOf(Upto(s, i - 1), From(s, i + 1), j, c2)[l]
  BY <1>3, <1>4, <1>6 DEF OutcomeOf, T
<1>8. OutcomeOf(Upto(s, i - 1), From(s, i), j, c) =
      OutcomeOf(Upto(s, i - 1), From(s, i + 1), j, c2)
  BY <1>7 DEF OutcomeOf
<1> QED BY <1>5, <1>8 DEF Outlook, s

\* The abstract lists: content, or what erase_if will have made of it.
Outcome == OutcomeFrom(order[job.from], Contents, it, pc, job)
Abstract == IF pc = "idle" THEN Contents ELSE Outcome

LEMMA ContentsAre == [l \in Lists |-> content(l)] = Contents
BY DEF content, Contents, Read

LEMMA OutcomeIs ==
  ASSUME job.from \in Lists
  PROVE  outcome = Outcome
PROOF
<1> DEFINE s == content(job.from)
           d == IF pc = "erase" THEN 1 ELSE 0
<1>1. \A l \in Lists : content(l) = Contents[l]
  BY ContentsAre
<1>2. rest = RestOf(order[job.from], s, it, pc)
  BY DEF rest, RestOf
<1> HIDE DEF s, d
<1>3. s = Contents[job.from]
  BY <1>1 DEF s
<1>4. outcome = [l \in Lists |->
            IF l = job.from
              THEN SubSeq(s, 1, Len(s) - Len(rest) - d) \o Kept(rest, job.picks)
            ELSE IF l # job.to THEN content(l)
            ELSE IF job.front THEN Reverse(Picked(rest, job.picks)) \o content(l)
            ELSE content(l) \o Picked(rest, job.picks)]
  BY DEF outcome, s, d
<1>5. outcome = OutcomeOf(SubSeq(s, 1, Len(s) - Len(rest) - d), rest, job, Contents)
  BY <1>1, <1>4 DEF OutcomeOf, Left, MovedTo
<1>6. Outcome = OutcomeOf(SubSeq(s, 1, Len(s) - Len(rest) - d), rest, job, Contents)
  BY <1>2, <1>3 DEF Outcome, OutcomeFrom, d
<1> QED BY <1>5, <1>6

\* The same after a step.
LEMMA ContentsArePrimed == [l \in Lists |-> content(l)]' = Contents'
BY DEF content, Contents, Read

LEMMA OutcomeIsPrimed ==
  ASSUME job'.from \in Lists
  PROVE  outcome' = Outcome'
PROOF
<1> DEFINE s == content(job.from)'
           d == IF pc' = "erase" THEN 1 ELSE 0
<1>1. \A l \in Lists : content(l)' = Contents'[l]
  BY ContentsArePrimed
<1>2. rest' = RestOf(order'[job'.from], s, it', pc')
  BY DEF rest, RestOf
<1> HIDE DEF s, d
<1>3. s = Contents'[job'.from]
  BY <1>1 DEF s
<1>4. outcome' = [l \in Lists |->
            IF l = job'.from
              THEN SubSeq(s, 1, Len(s) - Len(rest') - d) \o Kept(rest', job'.picks)
            ELSE IF l # job'.to THEN content(l)'
            ELSE IF job'.front THEN Reverse(Picked(rest', job'.picks)) \o content(l)'
            ELSE content(l)' \o Picked(rest', job'.picks)]
  BY DEF outcome, s, d
<1>5. outcome' = OutcomeOf(SubSeq(s, 1, Len(s) - Len(rest') - d), rest', job', Contents')
  BY <1>1, <1>4 DEF OutcomeOf, Left, MovedTo
<1>6. Outcome' = OutcomeOf(SubSeq(s, 1, Len(s) - Len(rest') - d), rest', job', Contents')
  BY <1>2, <1>3 DEF Outcome, OutcomeFrom, d
<1> QED BY <1>5, <1>6

\* Where the iterator is.
LEMMA IteratorAt ==
  ASSUME InductiveInv, pc # "idle"
  PROVE  \E i : /\ Here(order[job.from], Contents, job, it, i)
                /\ pc = "erase" \/ it # end(job.from) => i # Len(order[job.from]) + 1
                /\ it = null => i = Len(order[job.from]) + 1
PROOF
<1>1. NodesInv /\ EraseIfInv /\ NodeTypes
  BY DEF InductiveInv, NodesInv
<1>2. job.from \in Lists /\ end(job.from) = null
  BY <1>1, JobIsOne, EndIsNull
<1>3. order[job.from] \in Seq(Nodes) /\ IsInjective(order[job.from])
  BY <1>1, <1>2 DEF NodesInv, NodeTypes, Places
<1>4. order \in [Lists -> Seq(Nodes)] /\ value \in [Nodes -> Elements]
  BY <1>1 DEF NodeTypes, Elements
<1>5. /\ Contents \in ListValues
      /\ Len(Contents[job.from]) = Len(order[job.from]) /\ Len(order[job.from]) \in Nat
  BY <1>2, <1>4, ReadType DEF Contents, ListValues
<1>6. CASE it = null
  <2>1. pc # "erase"
    <3>1. pc = "erase" => it \in ToSet(order[job.from])
      BY <1>1 DEF EraseIfInv, IteratorStays
    <3> QED BY <3>1, <1>3, <1>6, ElementsIn, NodesAssumption
  <2>2. Len(order[job.from]) + 1 \in 1..(Len(order[job.from]) + 1)
    BY <1>5
  <2>3. At(order[job.from], it, Len(order[job.from]) + 1)
    BY <1>6 DEF At
  <2>4. Here(order[job.from], Contents, job, it, Len(order[job.from]) + 1)
    BY <2>2, <2>3, <1>2, <1>3, <1>5 DEF Here
  <2> QED BY <2>1, <2>4, <1>2, <1>6
<1>7. CASE it # null
  <2>1. it \in ToSet(order[job.from])
    BY <1>1, <1>7 DEF EraseIfInv, IteratorStays
  <2>2. PICK i \in 1..Len(order[job.from]) : it = order[job.from][i]
    BY <2>1, <1>3, IndexOf
  <2>3. i \in 1..(Len(order[job.from]) + 1) /\ i # Len(order[job.from]) + 1
    BY <1>5
  <2>4. At(order[job.from], it, i)
    BY <2>2, <2>3 DEF At
  <2>5. Here(order[job.from], Contents, job, it, i)
    BY <2>3, <2>4, <1>2, <1>3, <1>5 DEF Here
  <2> QED BY <2>3, <2>5, <1>7
<1> QED BY <1>6, <1>7

\* The values are those of the nodes, and next leads on.
Walked(o, j) == o = order[j.from]

LEMMA HereIs ==
  ASSUME NodesInv, NEW o, NEW j, NEW n, NEW i, Here(o, Contents, j, n, i),
         Walked(o, j), i # Len(o) + 1
  PROVE  /\ i \in 1..Len(o) /\ n = o[i] /\ n \in Nodes
         /\ Contents[j.from][i] = value[n]
         /\ next[n] = IF i = Len(o) THEN null ELSE o[i + 1]
PROOF
<1> USE DEF Walked
<1>1. /\ o \in Seq(Nodes) /\ j.from \in Lists /\ Len(o) \in Nat
      /\ i \in 1..(Len(o) + 1) /\ i # Len(o) + 1 /\ n = o[i]
  BY DEF Here, At
<1>2. Forth(head[j.from], o, next)
  BY <1>1 DEF NodesInv, Chains
<1>3. \A k \in 1..Len(o) : Contents[j.from][k] = value[o[k]]
  BY <1>1, ReadType DEF NodesInv, NodeTypes, Elements, Contents
<1>4. i \in 1..Len(o) /\ n = o[i] /\ n \in Nodes
  BY <1>1
<1>5. i \in DOMAIN o
  BY <1>1, <1>4
<1>6. next[o[i]] = IF i = Len(o) THEN null ELSE o[i + 1]
  BY <1>2, <1>5 DEF Forth
<1> QED BY <1>3, <1>4, <1>6

\* What the instance of MovingLists calls lists.
LEMMA AbstractIs ==
  ASSUME InductiveInv
  PROVE  (IF pc = "idle" THEN [l \in Lists |-> content(l)] ELSE outcome) = Abstract
BY ContentsAre, OutcomeIs, JobIsOne DEF Abstract, InductiveInv

LEMMA AbstractIsPrimed ==
  ASSUME InductiveInv'
  PROVE  (IF pc' = "idle" THEN [l \in Lists |-> content(l)]' ELSE outcome') = Abstract'
PROOF
<1>1. ASSUME pc' # "idle" PROVE job'.from \in Lists
  <2>1. job' \in Jobs \cup {null} /\ job' # null
    BY <1>1 DEF InductiveInv, EraseIfInv
  <2>2. job' \in Jobs
    BY <2>1
  <2> QED BY <2>2 DEF Jobs
<1> QED BY <1>1, ContentsArePrimed, OutcomeIsPrimed DEF Abstract

----------------------------------------------------------------------------
(* What each step does to the sequences.                                   *)

\* A push.
LEMMA PushedContents ==
  ASSUME NodesInv, NodesInv', NEW l \in Lists, NEW v \in Values, NEW n \in Nodes,
         Pushed(l, v, n)
  PROVE  /\ order' = Appended(order, l, n) => Contents' = Appended(Contents, l, v)
         /\ order' = Prepended(order, l, n) => Contents' = Prepended(Contents, l, v)
PROOF
<1>1. order \in NodeLists
  BY DEF NodesInv, NodeTypes, NodeLists
<1>2. order' \in NodeLists
  BY DEF NodesInv, NodeTypes, NodeLists
<1>3. value \in NodeValues
  BY DEF NodesInv, NodeTypes, Elements, NodeValues
<1>4. value' \in NodeValues
  BY DEF NodesInv, NodeTypes, Elements, NodeValues
<1>5. Outside(n, order)
  BY DEF Pushed, Outside
<1>6. v \in Elements
  BY DEF Elements
<1>7. value' = Written(value, n, v)
  BY DEF Pushed, Written
<1>8. ASSUME order' = Appended(order, l, n)
      PROVE  Contents' = Appended(Contents, l, v)
  <2>1. order' = Appended(order, l, n) /\ value' = Written(value, n, v)
        => Read(order', value') = Appended(Read(order, value), l, v)
    BY <1>1, <1>2, <1>3, <1>4, <1>5, <1>6, ReadAppend
  <2> QED BY <2>1, <1>7, <1>8 DEF Contents
<1>9. ASSUME order' = Prepended(order, l, n)
      PROVE  Contents' = Prepended(Contents, l, v)
  <2>1. order' = Prepended(order, l, n) /\ value' = Written(value, n, v)
        => Read(order', value') = Prepended(Read(order, value), l, v)
    BY <1>1, <1>2, <1>3, <1>4, <1>5, <1>6, ReadCons
  <2> QED BY <2>1, <1>7, <1>9 DEF Contents
<1> QED BY <1>8, <1>9

\* An erased node.
LEMMA ErasedContents ==
  ASSUME NodesInv, NEW l \in Lists, NEW i \in 1..Len(order[l]), NEW n \in Nodes,
         n = order[l][i], erase(l, n)
  PROVE  /\ WithoutAt(order'[l], order[l], i)
         /\ WithoutAt(Contents'[l], Contents[l], i)
         /\ \A k \in Lists \ {l} : Contents'[k] = Contents[k]
         /\ order' \in [Lists -> Seq(Nodes)]
         /\ Contents' \in [Lists -> Seq(Elements)]
PROOF
<1>1. order \in [Lists -> Seq(Nodes)]
  BY DEF NodesInv, NodeTypes
<1>2. value \in [Nodes -> Elements]
  BY DEF NodesInv, NodeTypes, Elements
<1>3. IsInjective(order[l])
  BY DEF NodesInv, Places
<1>4. \A k \in Lists \ {l} : n \notin ToSet(order[k])
  <2>1. n \in ToSet(order[l])
    BY <1>1 DEF ToSet
  <2>2. \A k \in Lists \ {l} : ToSet(order[l]) \cap ToSet(order[k]) = {}
    BY DEF NodesInv, Places, Apart, Ordered
  <2> QED BY <2>1, <2>2
<1>5. order' = Removed(order, l, n)
  BY DEF erase, Removed
<1>6. order' \in [Lists -> Seq(Nodes)]
  <2>1. NodesInv'
    BY EraseKeeps
  <2> QED BY <2>1 DEF NodesInv, NodeTypes
<1>7. value' = value \/ value' = [value EXCEPT ![n] = deleted]
  BY DEF erase
<1>8. value' \in [Nodes -> Elements] /\ \A m \in Nodes \ {n} : value'[m] = value[m]
  BY <1>2, <1>7 DEF Elements
<1>9. WrittenAt(value', value, n) /\ OnlyAt(n, order, l, i)
  BY <1>3, <1>4, <1>8 DEF WrittenAt, OnlyAt
<1>10. order' = Removed(order, l, n) =>
         /\ WithoutAt(order'[l], order[l], i)
         /\ WithoutAt(Read(order', value')[l], Read(order, value)[l], i)
         /\ \A k \in Lists \ {l} : Read(order', value')[k] = Read(order, value)[k]
  <2>1. order \in NodeLists /\ order' \in NodeLists
    BY <1>1, <1>6 DEF NodeLists
  <2>2. value \in NodeValues /\ value' \in NodeValues
    BY <1>2, <1>8 DEF NodeValues
  <2> QED BY <1>9, <2>1, <2>2, ReadRemove
<1>11. Read(order', value') \in [Lists -> Seq(Elements)]
  BY <1>6, <1>8, ReadType
<1> QED BY <1>5, <1>6, <1>10, <1>11 DEF Contents

\* A list without its first element.
LEMMA WithoutFirst ==
  ASSUME NEW s \in Seq(Elements), NEW t \in Seq(Elements), 1 \in 1..Len(s),
         WithoutAt(t, s, 1)
  PROVE  s # <<>> /\ t = Tail(s)
PROOF
<1>1. Len(s) \in Nat /\ Len(s) >= 1 /\ s # <<>>
  OBVIOUS
<1>2. /\ Tail(s) \in Seq(Elements) /\ Len(Tail(s)) = Len(s) - 1
      /\ \A k \in 1..(Len(s) - 1) : Tail(s)[k] = s[k + 1]
  BY <1>1
<1>3. Len(t) = Len(s) - 1 /\ \A k \in 1..(Len(s) - 1) : t[k] = s[k + 1]
  BY <1>1 DEF WithoutAt
<1>4. Len(t) = Len(Tail(s)) /\ \A k \in 1..Len(t) : t[k] = Tail(s)[k]
  BY <1>2, <1>3
<1> QED BY <1>1, <1>2, <1>4, SeqEqual

\* reschedule takes the first process.
LEMMA PopFrontStep ==
  ASSUME InductiveInv, NEW l \in Lists, PopFront(l)
  PROVE  Contents[l] # <<>> /\ Contents' = [Contents EXCEPT ![l] = Tail(@)]
PROOF
<1>1. NodesInv /\ order[l] \in Seq(Nodes) /\ head[l] # null
      /\ Forth(head[l], order[l], next) /\ erase(l, head[l])
  BY DEF PopFront, empty, InductiveInv, NodesInv, NodeTypes, Chains
<1>2. 1 \in 1..Len(order[l]) /\ head[l] = order[l][1] /\ head[l] \in Nodes
  BY <1>1 DEF Forth
<1>3. /\ WithoutAt(Contents'[l], Contents[l], 1)
      /\ \A k \in Lists \ {l} : Contents'[k] = Contents[k]
      /\ Contents' \in [Lists -> Seq(Elements)]
  BY <1>1, <1>2, ErasedContents
<1>4. Contents \in [Lists -> Seq(Elements)] /\ Len(Contents[l]) = Len(order[l])
  BY <1>1, ReadType DEF NodesInv, NodeTypes, Elements, Contents
<1>5. Contents[l] # <<>> /\ Contents'[l] = Tail(Contents[l])
  <2>1. Contents[l] \in Seq(Elements) /\ Contents'[l] \in Seq(Elements)
    BY <1>3, <1>4
  <2>2. 1 \in 1..Len(Contents[l])
    BY <1>2, <1>4
  <2> QED BY <2>1, <2>2, <1>3, WithoutFirst
<1> QED BY <1>3, <1>4, <1>5

\* The list from without what an erase_if that moves nothing picks.
Cleared(c, from, picks) == [c EXCEPT ![from] = Kept(@, picks)]

\* An erase_if that starts has all of its list to test.
LEMMA OutcomeStart ==
  ASSUME NEW c \in ListValues, NEW j, j.from \in Lists, j.to # j.from,
         NEW out, out = Outlook(c, j, 0, 1)
  PROVE  \/ j.to \notin Lists /\ out = Cleared(c, j.from, j.picks)
         \/ j.to \in Lists /\ out = MoveToFront(c, j.from, j.to, j.picks)
         \/ j.to \in Lists /\ out = MoveToBack(c, j.from, j.to, j.picks)
PROOF
<1> USE DEF ListValues
<1> DEFINE s == c[j.from]
           o == OutcomeOf(<<>>, s, j, c)
           k == Kept(s, j.picks)
           p == Picked(s, j.picks)
<1>1. s \in Seq(Elements)
  OBVIOUS
<1>2. k \in Seq(Elements)
  BY <1>1, KeptElements
<1>3. <<>> \o k = k
  BY <1>2, ConcatEmptySeq
<1>4. o = [l \in Lists |->
             IF l = j.from THEN <<>> \o k
             ELSE IF l # j.to THEN c[l]
             ELSE IF j.front THEN Reverse(p) \o c[l] ELSE c[l] \o p]
  BY DEF OutcomeOf, Left, MovedTo
<1> HIDE DEF o, k, p
<1>5. ASSUME j.to \notin Lists PROVE o = [c EXCEPT ![j.from] = k]
  BY <1>3, <1>4, <1>5
<1>6. ASSUME j.to \in Lists, j.front
      PROVE  o = [c EXCEPT ![j.from] = k, ![j.to] = Reverse(p) \o c[j.to]]
  BY <1>3, <1>4, <1>6
<1>7. ASSUME j.to \in Lists, ~j.front
      PROVE  o = [c EXCEPT ![j.from] = k, ![j.to] = c[j.to] \o p]
  BY <1>3, <1>4, <1>7
<1>8. ASSUME j.to \in Lists
      PROVE  /\ MoveToFront(c, j.from, j.to, j.picks) =
                  [c EXCEPT ![j.from] = k, ![j.to] = Reverse(p) \o c[j.to]]
             /\ MoveToBack(c, j.from, j.to, j.picks) =
                  [c EXCEPT ![j.from] = k, ![j.to] = c[j.to] \o p]
  BY <1>8 DEF MoveToFront, MoveToBack, k, p
<1>9. Cleared(c, j.from, j.picks) = [c EXCEPT ![j.from] = k]
  BY DEF Cleared, k
<1>10. out = o
  <2>1. SubSeq(s, 1, 0) = <<>> /\ SubSeq(s, 1, Len(s)) = s
    BY <1>1, SubSeqFull, SubSeqEmpty
  <2> QED BY <2>1 DEF Outlook, Upto, From, o
<1> HIDE DEF s
<1> QED BY <1>5, <1>6, <1>7, <1>8, <1>9, <1>10

\* One that has nothing left to test has done it.
LEMMA OutcomeEnd ==
  ASSUME NEW c \in ListValues, NEW j, j.from \in Lists
  PROVE  Outlook(c, j, Len(c[j.from]), Len(c[j.from]) + 1) = c
PROOF
<1> USE DEF ListValues
<1> DEFINE s == c[j.from]
<1>1. Picked(<<>>, j.picks) = <<>> /\ Kept(<<>>, j.picks) = <<>>
  BY PickedEmpty
<1>2. Reverse(<<>>) = <<>>
  <2>1. <<>> \in Seq(Elements) /\ Len(<<>>) = 0
    OBVIOUS
  <2>2. Reverse(<<>>) \in Seq(Elements) /\ DOMAIN Reverse(<<>>) = 1..0
    BY <2>1, ReverseElements DEF Reverse
  <2> QED BY <2>2
<1>3. ASSUME NEW t \in Seq(Elements) PROVE t \o <<>> = t /\ <<>> \o t = t
  BY <1>3, ConcatEmptySeq
<1>4. \A l \in Lists : c[l] \in Seq(Elements)
  OBVIOUS
<1>5. OutcomeOf(s, <<>>, j, c) =
        [l \in Lists |->
           IF l = j.from THEN s \o <<>>
           ELSE IF l # j.to THEN c[l]
           ELSE IF j.front THEN <<>> \o c[l] ELSE c[l] \o <<>>]
  BY <1>1, <1>2 DEF OutcomeOf, Left, MovedTo
<1>6. \A l \in Lists : OutcomeOf(s, <<>>, j, c)[l] = c[l]
  BY <1>3, <1>4, <1>5
<1>7. OutcomeOf(s, <<>>, j, c) = c
  BY <1>5, <1>6
<1>8. SubSeq(s, 1, Len(s)) = s /\ SubSeq(s, Len(s) + 1, Len(s)) = <<>>
  <2>1. s \in Seq(Elements) /\ Len(s) \in Nat
    OBVIOUS
  <2>2. SubSeq(s, 1, Len(s)) = s
    BY <2>1, SubSeqFull
  <2>3. Len(s) + 1 \in Int /\ Len(s) \in Int /\ Len(s) < Len(s) + 1
    BY <2>1
  <2> QED BY <2>2, <2>3, SubSeqEmpty
<1> QED BY <1>7, <1>8 DEF Outlook, Upto, From

\* Erasing what was tested last takes it out of the part that was visited.
LEMMA OutcomeErase ==
  ASSUME NEW c \in ListValues, NEW c2 \in ListValues,
         NEW j, j.from \in Lists, NEW i \in 1..Len(c[j.from]),
         WithoutAt(c2[j.from], c[j.from], i),
         \A l \in Lists \ {j.from} : c2[l] = c[l]
  PROVE  Outlook(c, j, i - 1, i + 1) = Outlook(c2, j, i - 1, i)
PROOF
<1> USE DEF ListValues
<1> DEFINE s == c[j.from]
           t == c2[j.from]
<1>5. /\ Len(t) = Len(s) - 1
      /\ \A k \in 1..(Len(s) - 1) : t[k] = IF k < i THEN s[k] ELSE s[k + 1]
  BY DEF WithoutAt
<1>6. /\ s \in Seq(Elements) /\ t \in Seq(Elements) /\ Len(s) \in Nat
      /\ i \in 1..Len(s)
  OBVIOUS
<1> HIDE DEF s, t
<1>1. s \in Seq(Elements) /\ t \in Seq(Elements) /\ Len(s) \in Nat
  BY <1>6
<1>2. SubSeq(s, 1, i - 1) = SubSeq(t, 1, i - 1)
  <2>1. \A k \in 1..(i - 1) : k \in 1..(Len(s) - 1) /\ k < i
    BY <1>1, <1>5, <1>6
  <2>2. \A k \in 1..(i - 1) : t[k] = s[k]
    BY <2>1, <1>5, <1>6
  <2> QED BY <2>2, <1>6
<1>3. SubSeq(s, i + 1, Len(s)) = SubSeq(t, i, Len(t))
  <2>1. \A k \in 1..(Len(s) - i) : i + k - 1 \in 1..(Len(s) - 1) /\ ~(i + k - 1 < i)
                                   /\ (i + k - 1) + 1 = i + k
    BY <1>1, <1>5, <1>6
  <2>2. \A k \in 1..(Len(s) - i) : t[i + k - 1] = s[i + k]
    BY <2>1, <1>5, <1>6
  <2>3. SubSeq(s, i + 1, Len(s)) = [k \in 1..(Len(s) - i) |-> s[i + k]]
    BY <1>1, <1>5, <1>6
  <2>4. SubSeq(t, i, Len(t)) = [k \in 1..(Len(s) - i) |-> t[i + k - 1]]
    BY <1>1, <1>5, <1>6
  <2> QED BY <2>2, <2>3, <2>4
<1>4. OutcomeOf(SubSeq(t, 1, i - 1), SubSeq(t, i, Len(t)), j, c) =
      OutcomeOf(SubSeq(t, 1, i - 1), SubSeq(t, i, Len(t)), j, c2)
  BY DEF OutcomeOf
<1> QED BY <1>2, <1>3, <1>4 DEF Outlook, Upto, From, s, t

\* erase_if's own steps are none of the sequences'.
LEMMA SkipStep ==
  ASSUME InductiveInv, Skip
  PROVE  Contents' = Contents /\ Outcome' = Outcome
PROOF
<1> DEFINE o == order[job.from]
           c == Contents
<1>1. /\ pc = "test" /\ it # end(job.from) /\ value[it] \notin job.picks
      /\ it' = next[it] /\ pc' = pc /\ job' = job /\ order' = order /\ value' = value
  BY DEF Skip, pointers
<1>2. Contents' = Contents
  BY <1>1 DEF Contents
<1>3. PICK i : Here(o, c, job, it, i) /\ i # Len(o) + 1
  BY <1>1, IteratorAt
<1>4. /\ i \in 1..Len(o) /\ c[job.from][i] \notin job.picks
      /\ it' = IF i = Len(o) THEN null ELSE o[i + 1]
  <2>1. NodesInv
    BY DEF InductiveInv
  <2>2. /\ i \in 1..Len(o) /\ c[job.from][i] = value[it]
        /\ next[it] = IF i = Len(o) THEN null ELSE o[i + 1]
    <3>1. Walked(o, job)
      BY DEF Walked
    <3> HIDE DEF o
    <3> QED BY <3>1, <2>1, <1>3, HereIs
  <2> QED BY <2>2, <1>1
<1>5. Outcome = OutcomeFrom(o, c, it, "test", job)
  BY <1>1 DEF Outcome
<1>6. Outcome' = OutcomeFrom(o, c, it', "test", job)
  BY <1>1, <1>2 DEF Outcome
<1> HIDE DEF o, c
<1>7. /\ c \in ListValues /\ job.from \in Lists /\ Len(o) \in Nat
      /\ i \in 1..Len(c[job.from])
  BY <1>3, <1>4 DEF Here
<1>8. Here(o, c, job, it', i + 1)
  <2>1. i + 1 \in 1..(Len(o) + 1) /\ (i + 1 = Len(o) + 1 <=> i = Len(o))
    BY <1>4, <1>7
  <2>2. At(o, it', i + 1)
    BY <2>1, <1>4 DEF At
  <2> QED BY <2>1, <2>2, <1>3 DEF Here
<1>9. OutcomeFrom(o, c, it, "test", job) = Outlook(c, job, i - 1, i)
  BY <1>3, OutcomeHere
<1>10. OutcomeFrom(o, c, it', "test", job) = Outlook(c, job, i, i + 1)
  <2>1. OutcomeFrom(o, c, it', "test", job) = Outlook(c, job, (i + 1) - 1, i + 1)
    BY <1>8, OutcomeHere
  <2>2. (i + 1) - 1 = i
    BY <1>7
  <2> QED BY <2>1, <2>2
<1>11. Outlook(c, job, i - 1, i) = Outlook(c, job, i, i + 1)
  BY <1>4, <1>7, OutcomeSkip
<1> QED BY <1>2, <1>5, <1>6, <1>9, <1>10, <1>11

LEMMA EraseStep ==
  ASSUME InductiveInv, Erase
  PROVE  Outcome' = Outcome
PROOF
<1> DEFINE o == order[job.from]
           c == Contents
           o2 == order'[job.from]
           c2 == Contents'
<1>1. /\ pc = "erase" /\ it' = next[it] /\ erase(job.from, it)
      /\ pc' = "test" /\ job' = job
  BY DEF Erase
<1>2. NodesInv
  BY DEF InductiveInv
<1>3. PICK i : Here(o, c, job, it, i) /\ i # Len(o) + 1
  BY <1>1, IteratorAt
<1>4. /\ i \in 1..Len(o) /\ it = o[i] /\ it \in Nodes
      /\ it' = IF i = Len(o) THEN null ELSE o[i + 1]
  <2>1. Walked(o, job)
    BY DEF Walked
  <2> HIDE DEF o
  <2>2. /\ i \in 1..Len(o) /\ it = o[i] /\ it \in Nodes
        /\ next[it] = IF i = Len(o) THEN null ELSE o[i + 1]
    BY <2>1, <1>2, <1>3, HereIs
  <2> QED BY <2>2, <1>1
<1>5. job.from \in Lists /\ c \in ListValues /\ Len(c[job.from]) = Len(o) /\ Len(o) \in Nat
  BY <1>3 DEF Here
<1>6. /\ WithoutAt(o2, o, i) /\ WithoutAt(c2[job.from], c[job.from], i)
      /\ \A k \in Lists \ {job.from} : c2[k] = c[k]
      /\ order' \in [Lists -> Seq(Nodes)] /\ c2 \in ListValues
  BY <1>1, <1>2, <1>4, <1>5, ErasedContents DEF ListValues
<1>7. o2 \in Seq(Nodes) /\ IsInjective(o2)
  <2>1. InductiveInv'
    BY <1>1, NextInv DEF Next
  <2> QED BY <2>1, <1>5, <1>6 DEF InductiveInv, NodesInv, Places
<1>8. Outcome = OutcomeFrom(o, c, it, "erase", job)
  BY <1>1 DEF Outcome
<1>9. Outcome' = OutcomeFrom(o2, c2, it', "test", job)
  BY <1>1 DEF Outcome
<1> HIDE DEF o, c, o2, c2
<1>10. Here(o2, c2, job, it', i)
  <2>1. Len(o2) = Len(o) - 1 /\ Len(c2[job.from]) = Len(o) - 1
    BY <1>5, <1>6 DEF WithoutAt
  <2>2. /\ i \in 1..(Len(o2) + 1) /\ (i = Len(o2) + 1 <=> i = Len(o))
        /\ (i # Len(o) => i \in 1..(Len(o) - 1) /\ ~(i < i))
    BY <2>1, <1>4, <1>5
  <2>3. i # Len(o) => o2[i] = o[i + 1]
    BY <2>2, <1>6 DEF WithoutAt
  <2>4. At(o2, it', i)
    BY <2>2, <2>3, <1>4 DEF At
  <2>5. Len(o2) \in Nat
    BY <1>7
  <2> QED BY <2>1, <2>2, <2>4, <2>5, <1>5, <1>6, <1>7 DEF Here
<1>11. OutcomeFrom(o, c, it, "erase", job) = Outlook(c, job, i - 1, i + 1)
  BY <1>3, OutcomeHere
<1>12. OutcomeFrom(o2, c2, it', "test", job) = Outlook(c2, job, i - 1, i)
  BY <1>10, OutcomeHere
<1>13. Outlook(c, job, i - 1, i + 1) = Outlook(c2, job, i - 1, i)
  <2>1. i \in 1..Len(c[job.from])
    BY <1>4, <1>5
  <2> QED BY <2>1, <1>5, <1>6, OutcomeErase
<1> QED BY <1>8, <1>9, <1>11, <1>12, <1>13

LEMMA EraseIfEndsStep ==
  ASSUME InductiveInv, EraseIfEnds
  PROVE  Contents' = Contents /\ Outcome = Contents
PROOF
<1> DEFINE o == order[job.from]
           c == Contents
<1>1. pc = "test" /\ it = end(job.from) /\ order' = order /\ value' = value
  BY DEF EraseIfEnds, pointers
<1>2. Contents' = Contents
  BY <1>1 DEF Contents
<1>3. job.from \in Lists /\ end(job.from) = null
  BY <1>1, JobIsOne, EndIsNull DEF InductiveInv
<1>4. PICK i : Here(o, c, job, it, i) /\ i = Len(o) + 1
  BY <1>1, <1>3, IteratorAt
<1>5. Outcome = OutcomeFrom(o, c, it, "test", job)
  BY <1>1 DEF Outcome
<1> HIDE DEF o, c
<1>6. OutcomeFrom(o, c, it, "test", job) = Outlook(c, job, i - 1, i)
  BY <1>4, OutcomeHere
<1>7. c \in ListValues /\ Len(c[job.from]) = Len(o) /\ Len(o) \in Nat
  BY <1>4 DEF Here
<1>8. i - 1 = Len(c[job.from]) /\ i = Len(c[job.from]) + 1
  BY <1>4, <1>7
<1>9. Outlook(c, job, Len(c[job.from]), Len(c[job.from]) + 1) = c
  BY <1>3, <1>7, OutcomeEnd
<1> QED BY <1>2, <1>5, <1>6, <1>8, <1>9 DEF c

\* The predicate has been asked of no process when erase_if starts.
LEMMA EraseIfStep ==
  ASSUME InductiveInv, NEW j \in Jobs, erase_if(j)
  PROVE  /\ j.from \in Lists /\ j.picks \in SUBSET Values
         /\ j.to \in Lists => j.to \in Lists \ {j.from}
         /\ \/ j.to \notin Lists /\ Outcome' = Cleared(Contents, j.from, j.picks)
            \/ j.to \in Lists /\ Outcome' = MoveToFront(Contents, j.from, j.to, j.picks)
            \/ j.to \in Lists /\ Outcome' = MoveToBack(Contents, j.from, j.to, j.picks)
PROOF
<1> DEFINE o == order[j.from]
           c == Contents
<1>1. j.from \in Lists /\ j.to \in Lists \cup {nowhere} /\ j.picks \in SUBSET Values
      /\ j.to # j.from
  BY ListsAssumption DEF Jobs, erase_if
<1>2. /\ pc' = "test" /\ job' = j /\ it' = head[j.from]
      /\ order' = order /\ value' = value
  BY DEF erase_if, pointers
<1>3. /\ o \in Seq(Nodes) /\ IsInjective(o) /\ Forth(head[j.from], o, next)
      /\ order \in [Lists -> Seq(Nodes)] /\ value \in [Nodes -> Elements]
  BY <1>1 DEF InductiveInv, NodesInv, NodeTypes, Places, Chains, Elements
<1>4. c \in ListValues /\ Len(c[j.from]) = Len(o) /\ Len(o) \in Nat
  BY <1>1, <1>3, ReadType DEF Contents, ListValues
<1>5. Outcome' = OutcomeFrom(o, c, head[j.from], "test", j)
  BY <1>2 DEF Outcome, Contents
<1> HIDE DEF o, c
<1>6. Here(o, c, j, head[j.from], 1)
  <2>1. o = <<>> <=> Len(o) = 0
    BY <1>3
  <2>2. 1 \in 1..(Len(o) + 1) /\ (1 = Len(o) + 1 <=> Len(o) = 0)
    BY <1>4
  <2>3. At(o, head[j.from], 1)
    BY <2>1, <2>2, <1>3 DEF At, Forth
  <2> QED BY <2>2, <2>3, <1>1, <1>3, <1>4 DEF Here
<1>7. Outcome' = Outlook(c, j, 0, 1)
  <2>1. OutcomeFrom(o, c, head[j.from], "test", j) = Outlook(c, j, 1 - 1, 1)
    BY <1>6, OutcomeHere
  <2>2. 1 - 1 = 0
    OBVIOUS
  <2> QED BY <2>1, <2>2, <1>5
<1>8. \/ j.to \notin Lists /\ Outcome' = Cleared(c, j.from, j.picks)
      \/ j.to \in Lists /\ Outcome' = MoveToFront(c, j.from, j.to, j.picks)
      \/ j.to \in Lists /\ Outcome' = MoveToBack(c, j.from, j.to, j.picks)
  BY <1>1, <1>4, <1>7, OutcomeStart
<1> QED BY <1>1, <1>8 DEF c

LEMMA PickStep ==
  ASSUME InductiveInv, Pick
  PROVE  Outcome' = Outcome
PROOF
<1> DEFINE o == order[job.from]
           c == Contents
           c2 == Contents'
           e == value[it]
<1>1. /\ pc = "test" /\ it # end(job.from) /\ e \in job.picks
      /\ pc' = "erase" /\ job' = job /\ it' = it
  BY DEF Pick
<1>2. /\ NodesInv /\ job.from \in Lists /\ job.to \in Lists \cup {nowhere}
      /\ job.to # job.from /\ job.picks \subseteq Values
  BY <1>1, JobIsOne DEF InductiveInv
<1>3. PICK i : Here(o, c, job, it, i) /\ i # Len(o) + 1
  BY <1>1, IteratorAt
<1>4. i \in 1..Len(o) /\ it = o[i] /\ it \in Nodes /\ c[job.from][i] = e
  <2>1. Walked(o, job)
    BY DEF Walked
  <2> HIDE DEF o
  <2> QED BY <2>1, <1>2, <1>3, HereIs
<1>5. NodesInv'
  <2>1. InductiveInv'
    BY NextInv DEF Next
  <2> QED BY <2>1 DEF InductiveInv
<1>6. c2 \in ListValues
  BY <1>5, ReadType DEF NodesInv, NodeTypes, Elements, Contents, ListValues
<1>7. /\ order'[job.from] = o
      /\ \/ job.to \notin Lists /\ c2 = c
         \/ job.front /\ c2 = Prepended(c, job.to, e)
         \/ ~job.front /\ c2 = Appended(c, job.to, e)
  <2>1. order \in [Lists -> Seq(Nodes)] /\ e \in Values
    BY <1>1, <1>2 DEF NodesInv, NodeTypes
  <2> HIDE DEF e
  <2>2. CASE job.to = nowhere /\ UNCHANGED <<pointers, order, spare>>
    BY <2>2, ListsAssumption DEF Contents, pointers
  <2>3. CASE job.to # nowhere /\ ~job.front /\ push_back(job.to, e)
    <3>1. job.to \in Lists
      BY <2>3, <1>2
    <3>2. PICK n \in Nodes : /\ Pushed(job.to, e, n)
                             /\ order' = [order EXCEPT ![job.to] = Append(@, n)]
      BY <3>1, <2>1, <2>3, <1>2, PushBackKeeps
    <3>3. order' = Appended(order, job.to, n)
      BY <3>2 DEF Appended
    <3>4. order'[job.from] = o
      BY <3>2, <2>1, <1>2
    <3>5. c2 = Appended(c, job.to, e)
      BY <3>1, <3>2, <3>3, <2>1, <1>2, <1>5, PushedContents
    <3> QED BY <3>4, <3>5, <2>3
  <2>4. CASE job.to # nowhere /\ job.front /\ push_front(job.to, e)
    <3>1. job.to \in Lists
      BY <2>4, <1>2
    <3>2. PICK n \in Nodes : /\ Pushed(job.to, e, n)
                             /\ order' = [order EXCEPT ![job.to] = <<n>> \o @]
      BY <3>1, <2>1, <2>4, <1>2, PushFrontKeeps
    <3>3. order' = Prepended(order, job.to, n)
      BY <3>2 DEF Prepended
    <3>4. order'[job.from] = o
      BY <3>2, <2>1, <1>2
    <3>5. c2 = Prepended(c, job.to, e)
      BY <3>1, <3>2, <3>3, <2>1, <1>2, <1>5, PushedContents
    <3> QED BY <3>4, <3>5, <2>4
  <2> QED BY <2>2, <2>3, <2>4 DEF Pick, e
<1>8. Outcome = OutcomeFrom(o, c, it, "test", job)
  BY <1>1 DEF Outcome
<1>9. Outcome' = OutcomeFrom(o, c2, it, "erase", job)
  BY <1>1, <1>7 DEF Outcome
<1>10. c2[job.from] = c[job.from]
  <2>1. c \in ListValues
    BY <1>3 DEF Here
  <2> HIDE DEF c, c2, o, e
  <2> QED BY <2>1, <1>2, <1>7 DEF Appended, Prepended, ListValues
<1> HIDE DEF o, c, c2, e
<1>11. /\ c \in ListValues /\ Len(o) \in Nat /\ Len(c[job.from]) = Len(o)
       /\ i \in 1..Len(c[job.from])
  BY <1>3, <1>4 DEF Here
<1>12. Here(o, c2, job, it, i)
  BY <1>3, <1>6, <1>10 DEF Here
<1>13. OutcomeFrom(o, c, it, "test", job) = Outlook(c, job, i - 1, i)
  BY <1>3, OutcomeHere
<1>14. OutcomeFrom(o, c2, it, "erase", job) = Outlook(c2, job, i - 1, i + 1)
  BY <1>3, <1>12, OutcomeHere
<1>15. \/ job.to \notin Lists /\ c2 = c
       \/ job.front /\ c2 = Prepended(c, job.to, e)
       \/ ~job.front /\ c2 = Appended(c, job.to, e)
       => Outlook(c, job, i - 1, i) = Outlook(c2, job, i - 1, i + 1)
  BY <1>1, <1>2, <1>4, <1>6, <1>11, OutcomePick
<1> QED BY <1>7, <1>8, <1>9, <1>13, <1>14, <1>15

----------------------------------------------------------------------------
\* MovingLists means the same by its moves.
LEMMA SameMoves ==
  /\ \A s, T : Sequences!Kept(s, T) = Kept(s, T)
  /\ \A ls, from, to, T : /\ Sequences!MoveToBack(ls, from, to, T) = MoveToBack(ls, from, to, T)
                          /\ Sequences!MoveToFront(ls, from, to, T) = MoveToFront(ls, from, to, T)
PROOF
<1>0. \A S : Sequences!Cardinality(S) = Cardinality(S)
  BY Zenon DEF Sequences!Cardinality, Cardinality
<1>1. ASSUME NEW s, NEW T PROVE Sequences!Picked(s, T) = Picked(s, T)
  <2> DEFINE I == {i \in DOMAIN s : s[i] \in T}
             rank(i) == Cardinality({j \in I : j <= i})
             srank(i) == Sequences!Cardinality({j \in I : j <= i})
  <2>1. \A i : srank(i) = rank(i)
    BY <1>0
  <2>2. Sequences!Cardinality(I) = Cardinality(I)
    BY <1>0
  <2>3. Picked(s, T) = [k \in 1..Cardinality(I) |-> s[CHOOSE i \in I : rank(i) = k]]
    BY DEF Picked
  <2>4. Sequences!Picked(s, T) =
        [k \in 1..Sequences!Cardinality(I) |-> s[CHOOSE i \in I : srank(i) = k]]
    BY DEF Sequences!Picked
  <2> HIDE DEF I, rank, srank
  <2>5. \A k : (CHOOSE i \in I : srank(i) = k) = (CHOOSE i \in I : rank(i) = k)
    BY <2>1
  <2> QED BY <2>2, <2>3, <2>4, <2>5
<1>2. \A s, T : Sequences!Kept(s, T) = Kept(s, T)
  BY <1>1 DEF Sequences!Kept, Kept, Sequences!ToSet, ToSet
<1>3. \A s : Sequences!Reverse(s) = Reverse(s)
  BY DEF Sequences!Reverse, Reverse
<1>4. \A ls, from, to, T : Sequences!MoveToBack(ls, from, to, T) = MoveToBack(ls, from, to, T)
  BY <1>1, <1>2 DEF Sequences!MoveToBack, MoveToBack
<1>5. \A ls, from, to, T : Sequences!MoveToFront(ls, from, to, T) = MoveToFront(ls, from, to, T)
  BY <1>1, <1>2, <1>3 DEF Sequences!MoveToFront, MoveToFront
<1> QED BY <1>2, <1>4, <1>5

\* The lists implement the sequences the scheduler's model takes them for: a push,
\* a pop and a whole move_to_if are one step of them, whose result is settled when
\* it starts, and what erase_if does to the nodes in between is no step at all.
THEOREM ListsAreSequences == Spec => AreSequences
<1> DEFINE Lists_ == IF pc = "idle" THEN [l \in Lists |-> content(l)] ELSE outcome
           Moving_ == pc # "idle"
<1>1. Init => Sequences!Init
  <2> SUFFICES ASSUME Init PROVE Sequences!Init
    OBVIOUS
  <2>1. pc = "idle" /\ \A l \in Lists : order[l] = <<>>
    BY DEF Init
  <2>2. \A l \in Lists : content(l) = <<>>
    BY <2>1 DEF content
  <2> QED BY <2>1, <2>2 DEF Sequences!Init
<1>2. ASSUME InductiveInv, InductiveInv', [Next]_vars
      PROVE  [Sequences!Next]_(Sequences!vars)
  <2>1. Lists_ = Abstract /\ Lists_' = Abstract'
    BY <1>2, AbstractIs, AbstractIsPrimed
  <2> HIDE DEF Lists_
  <2>2. ASSUME Abstract' = Abstract, Moving_' = Moving_
        PROVE  UNCHANGED Sequences!vars
    BY <2>1, <2>2 DEF Sequences!vars, Lists_
  <2>3. ASSUME NEW l \in Lists, PopFront(l) PROVE Sequences!Next
    <3>1. pc = "idle" /\ pc' = "idle"
      BY <2>3 DEF PopFront
    <3>2. Contents[l] # <<>> /\ Contents' = [Contents EXCEPT ![l] = Tail(@)]
      BY <2>3, <1>2, PopFrontStep
    <3>3. Lists_ = Contents /\ Lists_' = Contents'
      BY <2>1, <3>1 DEF Abstract
    <3>4. Sequences!PopFront(l)
      BY <3>2, <3>3 DEF Sequences!PopFront, Lists_
    <3> QED BY <3>1, <3>4 DEF Sequences!Next
  <2>4. ASSUME NEW l \in Lists, NEW v \in Values, PushBack(l, v) PROVE Sequences!Next
    <3>1. pc = "idle" /\ pc' = "idle" /\ push_back(l, v)
      BY <2>4 DEF PushBack
    <3>2. PICK n \in Nodes : /\ Pushed(l, v, n)
                             /\ order' = [order EXCEPT ![l] = Append(@, n)]
      BY <3>1, <1>2, PushBackKeeps DEF InductiveInv
    <3>3. Contents' = Appended(Contents, l, v)
      <4>1. order' = Appended(order, l, n)
        BY <3>2 DEF Appended
      <4>2. NodesInv /\ NodesInv'
        BY <1>2 DEF InductiveInv
      <4> QED BY <4>1, <4>2, <3>2, PushedContents
    <3>4. Lists_ = Contents /\ Lists_' = Contents'
      BY <2>1, <3>1 DEF Abstract
    <3>5. Sequences!PushBack(l, v)
      BY <3>3, <3>4 DEF Sequences!PushBack, Lists_, Appended
    <3> QED BY <3>1, <3>5 DEF Sequences!Next
  <2>5. ASSUME NEW j \in Jobs, erase_if(j) PROVE Sequences!Next
    <3>1. pc = "idle" /\ pc' # "idle"
      BY <2>5 DEF erase_if
    <3>2. Lists_ = Contents /\ Lists_' = Outcome'
      BY <2>1, <3>1 DEF Abstract
    <3>3. /\ j.from \in Lists /\ j.picks \in SUBSET Values
          /\ j.to \in Lists => j.to \in Lists \ {j.from}
          /\ \/ j.to \notin Lists /\ Lists_' = Cleared(Lists_, j.from, j.picks)
             \/ j.to \in Lists /\ Lists_' = MoveToFront(Lists_, j.from, j.to, j.picks)
             \/ j.to \in Lists /\ Lists_' = MoveToBack(Lists_, j.from, j.to, j.picks)
      BY <2>5, <3>2, <1>2, EraseIfStep
    <3>4. \/ Sequences!Erase(j.from, j.picks)
          \/ j.to \in Lists \ {j.from} /\ Sequences!Move(j.from, j.to, j.picks)
      <4>1. Lists_' = Cleared(Lists_, j.from, j.picks) => Sequences!Erase(j.from, j.picks)
        BY Zenon, SameMoves DEF Sequences!Erase, Cleared, Lists_
      <4>2. \/ Lists_' = MoveToFront(Lists_, j.from, j.to, j.picks)
            \/ Lists_' = MoveToBack(Lists_, j.from, j.to, j.picks)
            => Sequences!Move(j.from, j.to, j.picks)
        BY Zenon, SameMoves DEF Sequences!Move, Lists_
      <4> QED BY <3>3, <4>1, <4>2
    <3> QED BY <3>1, <3>3, <3>4 DEF Sequences!Next
  <2>6. CASE EraseIfEnds
    <3>1. pc # "idle" /\ pc' = "idle"
      BY <2>6 DEF EraseIfEnds
    <3>2. Contents' = Contents /\ Outcome = Contents
      BY <2>6, <1>2, EraseIfEndsStep
    <3>3. Lists_' = Lists_
      BY <2>1, <3>1, <3>2 DEF Abstract
    <3>4. Sequences!Moved
      BY <3>1, <3>3 DEF Sequences!Moved, Lists_
    <3> QED BY <3>4 DEF Sequences!Next
  <2>7. CASE Skip
    <3>1. pc # "idle" /\ pc' = pc
      BY <2>7 DEF Skip
    <3>2. Outcome' = Outcome
      BY <2>7, <1>2, SkipStep
    <3> QED BY <2>2, <3>1, <3>2 DEF Abstract
  <2>8. CASE Pick
    <3>1. pc # "idle" /\ pc' # "idle"
      BY <2>8 DEF Pick
    <3>2. Outcome' = Outcome
      BY <2>8, <1>2, PickStep
    <3> QED BY <2>2, <3>1, <3>2 DEF Abstract
  <2>9. CASE Erase
    <3>1. pc # "idle" /\ pc' # "idle"
      BY <2>9 DEF Erase
    <3>2. Outcome' = Outcome
      BY <2>9, <1>2, EraseStep
    <3> QED BY <2>2, <3>1, <3>2 DEF Abstract
  <2>10. CASE UNCHANGED vars
    <3>1. /\ Contents' = Contents /\ pc' = pc /\ Outcome' = Outcome
      BY <2>10 DEF vars, pointers, Contents, Outcome
    <3> QED BY <2>2, <3>1 DEF Abstract
  <2> QED BY <2>3, <2>4, <2>5, <2>6, <2>7, <2>8, <2>9, <2>10, <1>2 DEF Next, Halt
<1>3. InductiveInv /\ [Next]_vars => InductiveInv'
  BY NextInv
<1> QED BY <1>1, <1>2, <1>3, InitInv, PTL DEF Spec, AreSequences, Sequences!Spec
=============================================================================
