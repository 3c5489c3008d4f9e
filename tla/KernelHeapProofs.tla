-------------------------- MODULE KernelHeapProofs --------------------------
(***************************************************************************)
(* Proofs that the heap stays well formed for every region, every word     *)
(* size and every sequence of calls, and that it keeps its promise as long *)
(* as no request is so large that align_to wraps; then that the heap is in *)
(* available memory and off the kernel for every memory map, and that what *)
(* is proved of the allocator holds of the kernel's heap.                  *)
(***************************************************************************)
EXTENDS KernelHeap, TLAPS

\* What the rest of the proof needs of the region.
LEMMA Region ==
  /\ head \in Int /\ tail \in Int /\ head % ALIGNED = 0 /\ head > 0
  /\ head + 2 * BlockSize <= tail /\ tail + BlockSize = End /\ End < WordSize
  /\ head = Start + BlockSize /\ ALIGNED = 8 /\ BlockSize = 16
  /\ Start \in Nat /\ End \in Nat /\ WordSize \in Nat
BY RegionAssumption DEF head, tail, ALIGNED, BlockSize

\* The size of a block is the room up to the next one, less rounding.
LEMMA SizeBetween ==
  ASSUME NEW a \in Int, NEW b \in Int, a + BlockSize <= b,
         NEW s \in calc_size_between(a, b)
  PROVE  /\ s \in Nat /\ s <= b - (a + BlockSize)
         /\ b - (a + BlockSize) < s + BlockSize
BY DEF calc_size_between, BlockSize

\* A request is rounded up to a multiple of 8; one that wraps is rounded to 0.
LEMMA AlignTo ==
  ASSUME NEW n \in Nat
  PROVE  /\ align_to(n) \in Nat /\ align_to(n) % ALIGNED = 0
         /\ n <= WordSize - ALIGNED => n <= align_to(n)
PROOF
<1>0. WordSize \in Nat /\ WordSize > 0
  BY RegionAssumption
<1> DEFINE m == (n + 7) % WordSize
<1>1. m \in Nat
  BY <1>0
<1>2. n <= WordSize - 8 => m = n + 7
  <2>1. n <= WordSize - 8 => n + 7 \in 0..(WordSize - 1)
    BY <1>0
  <2> QED BY <1>0, <2>1
<1> HIDE DEF m
<1>3. align_to(n) = (m \div 8) * 8
  BY DEF align_to, ALIGNED, m
<1>4. (m \div 8) * 8 \in Nat /\ ((m \div 8) * 8) % 8 = 0 /\ m - 7 <= (m \div 8) * 8
  BY <1>1
<1> QED BY <1>2, <1>3, <1>4, <1>0 DEF ALIGNED

LEMMA InitIInv == Init => IInv
PROOF
<1> SUFFICES ASSUME Init PROVE IInv
  OBVIOUS
<1> DEFINE free == head + BlockSize
<1>1. PICK size \in calc_size_between(free, tail) :
         blocks = [b \in {head, free, tail} |->
                  CASE b = head -> [prev |-> nullptr, next |-> free, size |-> 0,
                                    is_free |-> FALSE]
                    [] b = free -> [prev |-> head, next |-> tail, size |-> size,
                                    is_free |-> TRUE]
                    [] b = tail -> [prev |-> free, next |-> nullptr, size |-> 0,
                                    is_free |-> FALSE]]
  BY DEF Init
<1>2. /\ size \in Nat /\ size <= tail - (free + BlockSize)
      /\ tail - (free + BlockSize) < size + BlockSize
  BY Region, SizeBetween
<1>3. /\ head < free /\ free < tail /\ {head, free, tail} \subseteq Addresses
      /\ free % ALIGNED = 0 /\ free \in Int
  BY Region DEF Addresses
<1> HIDE DEF free
<1>4. /\ DOMAIN blocks = {head, free, tail}
      /\ blocks[head] = [prev |-> nullptr, next |-> free, size |-> 0, is_free |-> FALSE]
      /\ blocks[free] = [prev |-> head, next |-> tail, size |-> size, is_free |-> TRUE]
      /\ blocks[tail] = [prev |-> free, next |-> nullptr, size |-> 0, is_free |-> FALSE]
  <2>1. head # free /\ head # tail /\ free # tail
    BY <1>3, Region
  <2> QED BY <1>1, <2>1
<1>5. TypeOK
  <2>1. nullptr \in Addresses /\ 0 \in Nat
    BY Region DEF Addresses, nullptr
  <2>2. \A b \in DOMAIN blocks : blocks[b] \in Block
    <3>1. blocks[head] \in Block /\ blocks[free] \in Block /\ blocks[tail] \in Block
      BY <1>2, <1>3, <1>4, <2>1 DEF Block
    <3> QED BY <3>1, <1>4
  <2> QED BY <1>3, <1>4, <2>2 DEF Init, TypeOK
<1>6. Linked
  <2>1. head # free /\ head # tail /\ free # tail /\ free \in Int
    BY <1>3, Region
  <2>2. \A b \in DOMAIN blocks : head <= b /\ b <= tail
    BY <1>3, <1>4, Region
  <2>3. blocks[head].next = free /\ blocks[free].next = tail
    BY <1>4
  <2>4. blocks[free].prev = head /\ blocks[tail].prev = free
    BY <1>4
  <2>5. \A b \in DOMAIN blocks \ {tail} :
          LET next == blocks[b].next
          IN  /\ next \in DOMAIN blocks /\ b < next /\ blocks[next].prev = b
              /\ \A c \in DOMAIN blocks : c <= b \/ next <= c
    BY <1>3, <1>4, <2>1, <2>3, <2>4, Region
  <2>6. \A b \in DOMAIN blocks \ {head} :
          LET prev == blocks[b].prev
          IN  prev \in DOMAIN blocks /\ prev < b /\ blocks[prev].next = b
    BY <1>3, <1>4, <2>1, <2>3, <2>4, Region
  <2> QED BY <1>4, <2>1, <2>2, <2>5, <2>6 DEF Linked
<1>7. Tiled
  BY <1>2, <1>4, Region DEF Tiled, get_data_address
<1>8. Coalesced /\ Aligned
  BY <1>3, <1>4, Region DEF Coalesced, Aligned
<1>9. NothingLeaks
  <2>1. {c \in DOMAIN blocks \ {head, tail} : ~blocks[c].is_free} = {}
    BY <1>4
  <2>2. DOMAIN held = {}
    BY DEF Init
  <2> QED BY <2>1, <2>2 DEF NothingLeaks
<1>10. FirstBlock
  BY <1>4 DEF FirstBlock, get_data_address, free
<1> QED BY <1>5, <1>6, <1>7, <1>8, <1>9, <1>10 DEF IInv

\* The form of the list, apart from who holds what.
Shape == TypeOK /\ Linked /\ Tiled /\ Coalesced /\ Aligned /\ FirstBlock

\* A block and its neighbours.
LEMMA BlockFacts ==
  ASSUME Shape, NEW b \in DOMAIN blocks
  PROVE  /\ b \in Int /\ head <= b /\ b <= tail /\ b \in Addresses
         /\ blocks[b] \in Block
         /\ b # tail => /\ blocks[b].next \in DOMAIN blocks /\ b < blocks[b].next
                        /\ blocks[b].next \in Int
                        /\ blocks[blocks[b].next].prev = b
                        /\ \A c \in DOMAIN blocks : c <= b \/ blocks[b].next <= c
         /\ b \notin {head, tail} =>
               /\ blocks[b].size \in Nat
               /\ blocks[b].size <= blocks[b].next - (b + BlockSize)
               /\ blocks[b].next - (b + BlockSize) < blocks[b].size + BlockSize
         /\ b # head => /\ blocks[b].prev \in DOMAIN blocks /\ blocks[b].prev < b
                        /\ blocks[b].prev \in Int
                        /\ blocks[blocks[b].prev].next = b
         /\ b # tail => b % ALIGNED = 0
         /\ blocks[b].is_free => b \notin {head, tail}
PROOF
<1>1. b \in Int /\ b \in Addresses /\ blocks[b] \in Block
  BY DEF Shape, TypeOK, Addresses
<1>2. head <= b /\ b <= tail /\ (blocks[b].is_free => b \notin {head, tail})
  BY DEF Shape, Linked
<1>3. b # tail => /\ blocks[b].next \in DOMAIN blocks /\ b < blocks[b].next
                  /\ blocks[blocks[b].next].prev = b
                  /\ \A c \in DOMAIN blocks : c <= b \/ blocks[b].next <= c
  BY DEF Shape, Linked
<1>7. b # head => /\ blocks[b].prev \in DOMAIN blocks /\ blocks[b].prev < b
                  /\ blocks[blocks[b].prev].next = b
  BY DEF Shape, Linked
<1>4. /\ blocks[b].next \in Int /\ blocks[b].prev \in Int /\ blocks[b].size \in Nat
  BY <1>1 DEF Block, Addresses
<1>5. b \notin {head, tail} =>
         /\ blocks[b].size <= blocks[b].next - (b + BlockSize)
         /\ blocks[b].next - (b + BlockSize) < blocks[b].size + BlockSize
  BY DEF Shape, Tiled, get_data_address
<1>6. b # tail => b % ALIGNED = 0
  BY DEF Shape, Aligned
<1> QED BY <1>1, <1>2, <1>3, <1>4, <1>5, <1>6, <1>7

LEMMA SplitKeeps ==
  ASSUME Shape, NEW b \in DOMAIN blocks \ {head, tail}, blocks[b].is_free,
         NEW n \in Nat, n % ALIGNED = 0, Splittable(b, n),
         NEW size \in calc_size_between(get_data_address(b) + n, blocks[b].next),
         blocks' = Split(b, n, size),
         DOMAIN held' \subseteq Addresses, \A a \in DOMAIN held' : held'[a] \in Nat
  PROVE  /\ Shape' /\ blocks'[b].size = n /\ ~blocks'[b].is_free
         /\ DOMAIN blocks \subseteq DOMAIN blocks'
         /\ \A c \in DOMAIN blocks : c # b => /\ blocks'[c].is_free = blocks[c].is_free
                                              /\ blocks'[c].size = blocks[c].size
         /\ \A c \in DOMAIN blocks' \ DOMAIN blocks : blocks'[c].is_free
PROOF
<1> DEFINE rest == b + BlockSize + n
           next == blocks[b].next
<1>1. /\ b \in Int /\ head < b /\ b < next /\ next \in DOMAIN blocks /\ next # b
      /\ next \in Int /\ blocks[next].prev = b /\ next <= tail /\ next # head
      /\ \A c \in DOMAIN blocks : c <= b \/ next <= c
      /\ blocks[b].size \in Nat /\ blocks[b].size <= next - (b + BlockSize)
      /\ b % ALIGNED = 0 /\ blocks[b] \in Block /\ ~blocks[next].is_free
      /\ blocks[next] \in Block
  <2>1. /\ b \in Int /\ head < b /\ b < next /\ next \in DOMAIN blocks /\ next \in Int
        /\ blocks[next].prev = b /\ \A c \in DOMAIN blocks : c <= b \/ next <= c
        /\ blocks[b].size \in Nat /\ blocks[b].size <= next - (b + BlockSize)
        /\ b % ALIGNED = 0 /\ blocks[b] \in Block
    BY BlockFacts, Region
  <2>2. next <= tail /\ blocks[next] \in Block
    BY <2>1, BlockFacts
  <2>3. ~blocks[next].is_free
    BY DEF Shape, Coalesced
  <2> QED BY <2>1, <2>2, <2>3, Region
<1>2. /\ rest \in Int /\ b < rest /\ rest + BlockSize <= next /\ rest % ALIGNED = 0
      /\ rest \in Addresses /\ rest \notin DOMAIN blocks /\ rest # head /\ rest < tail
  <2>1. /\ rest \in Int /\ b < rest /\ rest + BlockSize <= next /\ rest < tail
        /\ head < rest
    BY <1>1, Region DEF Splittable
  <2>2. rest % ALIGNED = 0
    BY <1>1, Region
  <2>3. rest \notin DOMAIN blocks
    BY <1>1, <2>1, Region
  <2> QED BY <2>1, <2>2, <2>3, Region DEF Addresses
<1>3. /\ size \in Nat /\ size <= next - (rest + BlockSize)
      /\ next - (rest + BlockSize) < size + BlockSize
  <2>1. get_data_address(b) + n = rest
    BY DEF get_data_address
  <2> QED BY <2>1, <1>1, <1>2, SizeBetween
<1>e. /\ DOMAIN blocks' = DOMAIN blocks \cup {rest}
      /\ blocks'[b] = [blocks[b] EXCEPT !.next = rest, !.size = n, !.is_free = FALSE]
      /\ blocks'[rest] = [prev |-> b, next |-> next, size |-> size, is_free |-> TRUE]
      /\ blocks'[next] = [blocks[next] EXCEPT !.prev = rest]
      /\ \A c \in DOMAIN blocks \ {b, next} : blocks'[c] = blocks[c]
  <2>1. blocks' = [c \in DOMAIN blocks \cup {rest} |->
            CASE c = b -> [blocks[b] EXCEPT !.next = rest, !.size = n, !.is_free = FALSE]
              [] c = rest -> [prev |-> b, next |-> next, size |-> size, is_free |-> TRUE]
              [] c = next -> [blocks[next] EXCEPT !.prev = rest]
              [] OTHER -> blocks[c]]
    BY DEF Split, get_data_address
  <2>2. b # rest /\ next # rest /\ b # next
    BY <1>1, <1>2
  <2> HIDE DEF rest, next
  <2> QED BY <2>1, <2>2, <1>1, <1>2
<1> HIDE DEF rest, next
<1>4. /\ DOMAIN blocks' = DOMAIN blocks \cup {rest}
      /\ \A c \in DOMAIN blocks \ {b, next} : blocks'[c] = blocks[c]
  BY <1>e
<1>f. /\ blocks'[b].next = rest /\ blocks'[b].size = n /\ blocks'[b].is_free = FALSE
      /\ blocks'[b].prev = blocks[b].prev
      /\ blocks'[b] \in Block
  BY <1>e, <1>1, <1>2 DEF Block
<1>g. /\ blocks'[rest].prev = b /\ blocks'[rest].next = next
      /\ blocks'[rest].size = size /\ blocks'[rest].is_free = TRUE
      /\ blocks'[rest] \in Block
  <2>1. b \in Addresses /\ next \in Addresses
    BY <1>1 DEF Shape, TypeOK
  <2> QED BY <2>1, <1>e, <1>3 DEF Block
<1>h. /\ blocks'[next].prev = rest /\ blocks'[next].next = blocks[next].next
      /\ blocks'[next].size = blocks[next].size
      /\ blocks'[next].is_free = blocks[next].is_free /\ blocks'[next] \in Block
  BY <1>e, <1>1, <1>2 DEF Block
<1>i. \A d \in DOMAIN blocks : d \in Int
  BY BlockFacts
<1>5. /\ blocks'[b].next = rest /\ blocks'[b].size = n /\ blocks'[b].is_free = FALSE
      /\ blocks'[b].prev = blocks[b].prev
      /\ blocks'[rest].prev = b /\ blocks'[rest].next = next
      /\ blocks'[rest].size = size /\ blocks'[rest].is_free = TRUE
      /\ blocks'[next].prev = rest /\ blocks'[next].next = blocks[next].next
      /\ blocks'[next].size = blocks[next].size
      /\ blocks'[next].is_free = blocks[next].is_free
  BY <1>f, <1>g, <1>h
<1>6. TypeOK'
  <2>1. \A c \in DOMAIN blocks' : blocks'[c] \in Block
    BY <1>4, <1>f, <1>g, <1>h DEF Shape, TypeOK
  <2> QED BY <2>1, <1>2, <1>4 DEF Shape, TypeOK
<1>7. Linked'
  <2>1. /\ {head, tail} \subseteq DOMAIN blocks' /\ ~blocks'[head].is_free
        /\ ~blocks'[tail].is_free
    <3>1. {head, tail} \subseteq DOMAIN blocks /\ ~blocks[head].is_free /\ ~blocks[tail].is_free
      BY DEF Shape, Linked
    <3> QED BY <3>1, <1>1, <1>4, <1>5
  <2>2. \A c \in DOMAIN blocks' : head <= c /\ c <= tail
    <3>1. \A c \in DOMAIN blocks : head <= c /\ c <= tail
      BY DEF Shape, Linked
    <3> QED BY <3>1, <1>1, <1>2, <1>4, Region
  <2>3. ASSUME NEW c \in DOMAIN blocks' \ {tail}
        PROVE  /\ blocks'[c].next \in DOMAIN blocks' /\ c < blocks'[c].next
               /\ blocks'[blocks'[c].next].prev = c
               /\ \A d \in DOMAIN blocks' : d <= c \/ blocks'[c].next <= d
    <3>0. \A d \in DOMAIN blocks' : (d <= b \/ rest <= d) /\ (d <= rest \/ next <= d)
      BY <1>1, <1>2, <1>4, <1>i, Region
    <3>1. CASE c = b
      BY <3>0, <3>1, <1>2, <1>4, <1>5
    <3>2. CASE c = rest
      BY <3>0, <3>2, <1>1, <1>2, <1>4, <1>5, Region
    <3>3. CASE c \notin {b, rest}
      <4>1. /\ c \in DOMAIN blocks /\ c \in Int /\ blocks[c].next \in DOMAIN blocks
            /\ blocks[c].next \in Int
            /\ c < blocks[c].next /\ blocks[blocks[c].next].prev = c
            /\ \A d \in DOMAIN blocks : d <= c \/ blocks[c].next <= d
        BY <3>3, <2>3, <1>4, BlockFacts
      <4>2. blocks'[c].next = blocks[c].next
        BY <4>1, <3>3, <1>4, <1>5
      <4>3. blocks[c].next # next
        BY <4>1, <3>3, <1>1
      <4>4. blocks'[blocks[c].next].prev = c
        BY <4>1, <4>3, <1>4, <1>5
      <4>5. rest <= c \/ blocks[c].next <= rest
        <5>1. c <= b \/ next <= c
          BY <4>1, <1>1
        <5>2. b <= c \/ blocks[c].next <= b
          BY <4>1
        <5> QED BY <5>1, <5>2, <4>1, <3>3, <1>1, <1>2, Region
      <4> QED BY <4>1, <4>2, <4>4, <4>5, <1>4
    <3> QED BY <3>1, <3>2, <3>3
  <2>4. ASSUME NEW c \in DOMAIN blocks' \ {head}
        PROVE  /\ blocks'[c].prev \in DOMAIN blocks' /\ blocks'[c].prev < c
               /\ blocks'[blocks'[c].prev].next = c
    <3>1. CASE c = rest
      BY <3>1, <1>2, <1>4, <1>5
    <3>2. CASE c = next
      BY <3>2, <1>1, <1>2, <1>4, <1>5, Region
    <3>3. CASE c \notin {rest, next}
      <4>1. /\ c \in DOMAIN blocks /\ blocks[c].prev \in DOMAIN blocks
            /\ blocks[c].prev < c /\ blocks[blocks[c].prev].next = c
        BY <3>3, <2>4, <1>4, BlockFacts
      <4>2. blocks'[c].prev = blocks[c].prev
        BY <4>1, <3>3, <1>4, <1>5
      <4>3. blocks[c].prev # b
        BY <4>1, <3>3 DEF next
      <4>4. blocks'[blocks[c].prev].next = c
        BY <4>1, <4>3, <1>4, <1>5
      <4> QED BY <4>1, <4>2, <4>4, <1>4
    <3> QED BY <3>1, <3>2, <3>3
  <2> QED BY <2>1, <2>2, <2>3, <2>4 DEF Linked
<1>8. Tiled'
  <2> SUFFICES ASSUME NEW c \in DOMAIN blocks' \ {head, tail}
               PROVE  /\ blocks'[c].size <= blocks'[c].next - (c + BlockSize)
                      /\ blocks'[c].next - (c + BlockSize) < blocks'[c].size + BlockSize
    BY DEF Tiled, get_data_address
  <2>1. CASE c = b
    BY <2>1, <1>1, <1>2, <1>5, Region DEF rest
  <2>2. CASE c = rest
    BY <2>2, <1>3, <1>5
  <2>3. CASE c \notin {b, rest}
    <3>1. c \in DOMAIN blocks /\ blocks'[c].size = blocks[c].size
          /\ blocks'[c].next = blocks[c].next
      BY <2>3, <1>4, <1>5
    <3> QED BY <3>1, BlockFacts
  <2> QED BY <2>1, <2>2, <2>3
<1>9. Coalesced'
  <2> SUFFICES ASSUME NEW c \in DOMAIN blocks' \ {tail}, blocks'[c].is_free
               PROVE  ~blocks'[blocks'[c].next].is_free
    BY DEF Coalesced
  <2>1. CASE c = rest
    BY <2>1, <1>1, <1>5
  <2>2. CASE c # rest
    <3>1. c \in DOMAIN blocks /\ c # b /\ blocks[c].is_free
      BY <2>2, <1>4, <1>5
    <3>2. blocks'[c].next = blocks[c].next /\ blocks[c].next \in DOMAIN blocks
      BY <3>1, <1>4, <1>5, BlockFacts
    <3>3. ~blocks[blocks[c].next].is_free
      BY <3>1 DEF Shape, Coalesced
    <3> QED BY <3>2, <3>3, <1>4, <1>5
  <2> QED BY <2>1, <2>2
<1>10. Aligned'
  BY <1>2, <1>4 DEF Shape, Aligned
<1>11. FirstBlock'
  BY <1>1, <1>4, <1>7 DEF Shape, Linked, FirstBlock, get_data_address
<1>12. Shape'
  BY <1>6, <1>7, <1>8, <1>9, <1>10, <1>11 DEF Shape
<1> QED BY <1>12, <1>4, <1>5, <1>1

LEMMA TakenKeeps ==
  ASSUME Shape, NEW b \in DOMAIN blocks \ {head, tail}, blocks[b].is_free,
         blocks' = Taken(b),
         DOMAIN held' \subseteq Addresses, \A a \in DOMAIN held' : held'[a] \in Nat
  PROVE  /\ Shape' /\ ~blocks'[b].is_free
         /\ DOMAIN blocks' = DOMAIN blocks
         /\ \A c \in DOMAIN blocks : /\ blocks'[c].size = blocks[c].size
                                     /\ c # b => blocks'[c].is_free = blocks[c].is_free
PROOF
<1>1. /\ DOMAIN blocks' = DOMAIN blocks
      /\ \A c \in DOMAIN blocks : c # b => blocks'[c] = blocks[c]
      /\ blocks'[b] = [blocks[b] EXCEPT !.is_free = FALSE]
  BY DEF Taken
<1>2. blocks[b] \in Block
  BY BlockFacts
<1>3. /\ blocks'[b].next = blocks[b].next /\ blocks'[b].prev = blocks[b].prev
      /\ blocks'[b].size = blocks[b].size /\ blocks'[b].is_free = FALSE
      /\ blocks'[b] \in Block
  BY <1>1, <1>2 DEF Block
<1>4. /\ DOMAIN blocks' = DOMAIN blocks
      /\ \A c \in DOMAIN blocks : c # b => blocks'[c] = blocks[c]
  BY <1>1
<1>5. \A c \in DOMAIN blocks : /\ blocks'[c].next = blocks[c].next
                               /\ blocks'[c].prev = blocks[c].prev
                               /\ blocks'[c].size = blocks[c].size
                               /\ blocks'[c].is_free => blocks[c].is_free
                               /\ blocks'[c] \in Block
  BY <1>3, <1>4 DEF Shape, TypeOK
<1>6. TypeOK'
  BY <1>4, <1>5 DEF Shape, TypeOK
<1>7. Linked'
  BY <1>4, <1>5 DEF Shape, Linked
<1>8. Tiled' /\ Aligned' /\ FirstBlock'
  BY <1>4, <1>5 DEF Shape, Tiled, Aligned, Linked, FirstBlock, get_data_address
<1>9. Coalesced'
  <2> SUFFICES ASSUME NEW c \in DOMAIN blocks' \ {tail}, blocks'[c].is_free
               PROVE  ~blocks'[blocks'[c].next].is_free
    BY DEF Coalesced
  <2>1. blocks[c].is_free /\ c \in DOMAIN blocks \ {tail}
    BY <1>4, <1>5
  <2>2. ~blocks[blocks[c].next].is_free /\ blocks[c].next \in DOMAIN blocks
    BY <2>1 DEF Shape, Coalesced, Linked
  <2> QED BY <2>1, <2>2, <1>4, <1>5
<1> QED BY <1>3, <1>4, <1>5, <1>6, <1>7, <1>8, <1>9 DEF Shape

\* NothingLeaks, block by block.
LEMMA Owners ==
  ASSUME Shape, NothingLeaks
  PROVE  /\ \A c \in DOMAIN blocks \ {head, tail} :
               ~blocks[c].is_free <=> get_data_address(c) \in DOMAIN held
         /\ \A a \in DOMAIN held : /\ a - BlockSize \in DOMAIN blocks \ {head, tail}
                                   /\ ~blocks[a - BlockSize].is_free
                                   /\ a = get_data_address(a - BlockSize)
PROOF
<1> DEFINE Used == {c \in DOMAIN blocks \ {head, tail} : ~blocks[c].is_free}
<1>1. \A c \in DOMAIN blocks : c \in Int
  BY BlockFacts
<1>2. DOMAIN held = {get_data_address(c) : c \in Used}
  BY DEF NothingLeaks
<1>3. \A c, d \in DOMAIN blocks : get_data_address(c) = get_data_address(d) => c = d
  BY <1>1, Region DEF get_data_address
<1>4. ASSUME NEW c \in DOMAIN blocks \ {head, tail}
      PROVE  ~blocks[c].is_free <=> get_data_address(c) \in DOMAIN held
  BY <1>2, <1>3
<1>5. ASSUME NEW a \in DOMAIN held
      PROVE  /\ a - BlockSize \in Used /\ a = get_data_address(a - BlockSize)
  <2>1. PICK c \in Used : a = get_data_address(c)
    BY <1>2
  <2>2. a - BlockSize = c
    BY <2>1, <1>1, Region DEF get_data_address
  <2> QED BY <2>1, <2>2
<1> QED BY <1>4, <1>5

\* No request is so large that align_to wraps.
NoneWraps == \A request \in Requests : request <= WordSize - ALIGNED

\* What a call of allocate does: b is handed out, the blocks that were held
\* are left alone.
LEMMA AllocateGives ==
  ASSUME IInv, NEW request \in Requests, Allocate(request)
  PROVE  \E b \in DOMAIN blocks \ {head, tail} :
            /\ Shape' /\ blocks[b].is_free /\ ~blocks'[b].is_free
            /\ blocks'[b].size >= align_to(request)
            /\ DOMAIN blocks \subseteq DOMAIN blocks'
            /\ \A c \in DOMAIN blocks : c # b => /\ blocks'[c].is_free = blocks[c].is_free
                                                 /\ blocks'[c].size = blocks[c].size
            /\ \A c \in DOMAIN blocks' \ DOMAIN blocks : blocks'[c].is_free
            /\ held' = [a \in DOMAIN held \cup {get_data_address(b)} |->
                           IF a = get_data_address(b) THEN request ELSE held[a]]
PROOF
<1> DEFINE n == align_to(request)
<1>0. Shape /\ request \in Nat
  BY RequestAssumption, Region DEF IInv, Shape
<1>n. n \in Nat /\ n % ALIGNED = 0
  BY <1>0, AlignTo
<1> HIDE DEF n
<1>1. PICK b \in DOMAIN blocks :
         /\ b \in Fits(n)
         /\ IF Splittable(b, n)
              THEN \E size \in calc_size_between(get_data_address(b) + n, blocks[b].next) :
                       blocks' = Split(b, n, size)
              ELSE blocks' = Taken(b)
         /\ held' = [a \in DOMAIN held \cup {get_data_address(b)} |->
                        IF a = get_data_address(b) THEN request ELSE held[a]]
  BY DEF Allocate, find_fit, n
<1>2. /\ b \in DOMAIN blocks \ {head, tail} /\ blocks[b].is_free /\ blocks[b].size >= n
  BY <1>1 DEF Fits
<1>3. get_data_address(b) \in Addresses
  BY <1>0, <1>2, BlockFacts, Region DEF get_data_address, Addresses
<1>4. DOMAIN held' \subseteq Addresses /\ \A a \in DOMAIN held' : held'[a] \in Nat
  BY <1>0, <1>1, <1>3 DEF Shape, TypeOK
<1>5. CASE Splittable(b, n)
  <2>1. PICK size \in calc_size_between(get_data_address(b) + n, blocks[b].next) :
           blocks' = Split(b, n, size)
    BY <1>1, <1>5
  <2>2. /\ Shape' /\ blocks'[b].size = n /\ ~blocks'[b].is_free
        /\ DOMAIN blocks \subseteq DOMAIN blocks'
        /\ \A c \in DOMAIN blocks : c # b => /\ blocks'[c].is_free = blocks[c].is_free
                                             /\ blocks'[c].size = blocks[c].size
        /\ \A c \in DOMAIN blocks' \ DOMAIN blocks : blocks'[c].is_free
    BY <1>0, <1>n, <1>2, <1>4, <1>5, <2>1, SplitKeeps
  <2>3. blocks'[b].size >= n
    BY <2>2, <1>n
  <2> QED BY <2>2, <2>3, <1>1, <1>2 DEF n
<1>6. CASE ~Splittable(b, n)
  <2>1. blocks' = Taken(b)
    BY <1>1, <1>6
  <2>2. /\ Shape' /\ ~blocks'[b].is_free /\ DOMAIN blocks' = DOMAIN blocks
        /\ \A c \in DOMAIN blocks : /\ blocks'[c].size = blocks[c].size
                                    /\ c # b => blocks'[c].is_free = blocks[c].is_free
    BY <1>0, <1>2, <1>4, <2>1, TakenKeeps
  <2> QED BY <2>2, <1>1, <1>2 DEF n
<1> QED BY <1>5, <1>6

LEMMA AllocateIInv ==
  ASSUME IInv, NEW request \in Requests, Allocate(request)
  PROVE  IInv' /\ (NoneWraps /\ EnoughMemory => EnoughMemory')
PROOF
<1>0. Shape /\ NothingLeaks /\ request \in Nat
  BY RequestAssumption, Region DEF IInv, Shape
<1>1. PICK b \in DOMAIN blocks \ {head, tail} :
         /\ Shape' /\ blocks[b].is_free /\ ~blocks'[b].is_free
         /\ blocks'[b].size >= align_to(request)
         /\ DOMAIN blocks \subseteq DOMAIN blocks'
         /\ \A c \in DOMAIN blocks : c # b => /\ blocks'[c].is_free = blocks[c].is_free
                                              /\ blocks'[c].size = blocks[c].size
         /\ \A c \in DOMAIN blocks' \ DOMAIN blocks : blocks'[c].is_free
         /\ held' = [a \in DOMAIN held \cup {get_data_address(b)} |->
                        IF a = get_data_address(b) THEN request ELSE held[a]]
  BY AllocateGives
<1>2. /\ b \in Int /\ BlockSize = 16 /\ get_data_address(b) = b + BlockSize
      /\ get_data_address(b) - BlockSize = b
  BY <1>0, BlockFacts, Region DEF get_data_address
<1>3. DOMAIN held' = DOMAIN held \cup {get_data_address(b)}
  BY <1>1
<1>4. NothingLeaks'
  <2>1. {c \in DOMAIN blocks' \ {head, tail} : ~blocks'[c].is_free}
          = {c \in DOMAIN blocks \ {head, tail} : ~blocks[c].is_free} \cup {b}
    BY <1>1
  <2>2. {get_data_address(c) : c \in {d \in DOMAIN blocks \ {head, tail} : ~blocks[d].is_free}}
          = DOMAIN held
    BY <1>0 DEF NothingLeaks
  <2> QED BY <2>1, <2>2, <1>3 DEF NothingLeaks
<1>5. ASSUME NoneWraps, EnoughMemory PROVE EnoughMemory'
  <2>1. request <= align_to(request) /\ align_to(request) \in Int
    BY <1>0, <1>5, AlignTo DEF NoneWraps
  <2>2. blocks'[b].size \in Int
    BY <1>1 DEF Shape, TypeOK, Block
  <2>3. held'[get_data_address(b)] <= blocks'[get_data_address(b) - BlockSize].size
    BY <2>1, <2>2, <1>0, <1>1, <1>2
  <2>4. ASSUME NEW a \in DOMAIN held, a # get_data_address(b)
        PROVE  held'[a] <= blocks'[a - BlockSize].size
    <3>1. /\ a - BlockSize \in DOMAIN blocks /\ a = get_data_address(a - BlockSize)
      BY <1>0, <2>4, Owners
    <3>2. a - BlockSize # b
      BY <3>1, <2>4
    <3>3. held'[a] = held[a] /\ held[a] <= blocks[a - BlockSize].size
      BY <1>1, <2>4, <1>5 DEF EnoughMemory
    <3> QED BY <3>1, <3>2, <3>3, <1>1
  <2> QED BY <2>3, <2>4, <1>3 DEF EnoughMemory
<1> QED BY <1>1, <1>4, <1>5 DEF IInv, Shape

----------------------------------------------------------------------------
(* free.                                                                   *)

LEMMA FreedKeeps ==
  ASSUME Shape, NEW node \in DOMAIN blocks \ {head, tail}, ~blocks[node].is_free,
         MergesInto(node) = {}, blocks' = [blocks EXCEPT ![node].is_free = TRUE],
         DOMAIN held' \subseteq Addresses, \A a \in DOMAIN held' : held'[a] \in Nat
  PROVE  /\ Shape' /\ DOMAIN blocks' = DOMAIN blocks /\ blocks'[node].is_free
         /\ \A c \in DOMAIN blocks : /\ blocks'[c].size = blocks[c].size
                                     /\ c # node => blocks'[c].is_free = blocks[c].is_free
PROOF
<1>1. /\ DOMAIN blocks' = DOMAIN blocks
      /\ \A c \in DOMAIN blocks : c # node => blocks'[c] = blocks[c]
      /\ blocks'[node] = [blocks[node] EXCEPT !.is_free = TRUE]
  OBVIOUS
<1>2. blocks[node] \in Block
  BY BlockFacts
<1>3. /\ blocks'[node].next = blocks[node].next /\ blocks'[node].prev = blocks[node].prev
      /\ blocks'[node].size = blocks[node].size /\ blocks'[node].is_free = TRUE
      /\ blocks'[node] \in Block
  BY <1>1, <1>2 DEF Block
<1>4. /\ DOMAIN blocks' = DOMAIN blocks
      /\ \A c \in DOMAIN blocks : c # node => blocks'[c] = blocks[c]
  BY <1>1
<1>5. \A c \in DOMAIN blocks : /\ blocks'[c].next = blocks[c].next
                               /\ blocks'[c].prev = blocks[c].prev
                               /\ blocks'[c].size = blocks[c].size
                               /\ c # node => blocks'[c].is_free = blocks[c].is_free
                               /\ blocks'[c] \in Block
  BY <1>3, <1>4 DEF Shape, TypeOK
<1>6. TypeOK'
  BY <1>4, <1>5 DEF Shape, TypeOK
<1>7. Linked'
  BY <1>4, <1>5 DEF Shape, Linked
<1>8. Tiled' /\ Aligned' /\ FirstBlock'
  BY <1>4, <1>5 DEF Shape, Tiled, Aligned, Linked, FirstBlock, get_data_address
<1>9. Coalesced'
  <2> SUFFICES ASSUME NEW c \in DOMAIN blocks' \ {tail}, blocks'[c].is_free
               PROVE  ~blocks'[blocks'[c].next].is_free
    BY DEF Coalesced
  <2>0. /\ ~blocks[blocks[node].prev].is_free /\ ~blocks[blocks[node].next].is_free
    BY DEF MergesInto
  <2>1. /\ c \in DOMAIN blocks /\ blocks[c].next \in DOMAIN blocks
        /\ c < blocks[c].next /\ c \in Int /\ blocks[blocks[c].next].prev = c
        /\ blocks'[c].next = blocks[c].next
    BY <1>4, <1>5, BlockFacts
  <2>2. CASE c = node
    BY <2>0, <2>1, <2>2, <1>5
  <2>3. CASE c # node
    <3>1. blocks[c].is_free
      BY <2>1, <2>3, <1>5
    <3>2. ~blocks[blocks[c].next].is_free
      BY <3>1, <2>1 DEF Shape, Coalesced
    <3>3. blocks[c].next # node
      BY <3>1, <2>0, <2>1
    <3> QED BY <3>2, <3>3, <2>1, <1>5
  <2> QED BY <2>2, <2>3
<1> QED BY <1>3, <1>4, <1>5, <1>6, <1>7, <1>8, <1>9 DEF Shape

LEMMA MergeKeeps ==
  ASSUME Shape, NEW node \in DOMAIN blocks \ {head, tail}, ~blocks[node].is_free,
         NEW m \in MergesInto(node), NEW end \in DOMAIN blocks, Merged(m, node, end),
         NEW size \in calc_size_between(m, end),
         blocks' = Merge([blocks EXCEPT ![node].is_free = TRUE], m, end, size),
         DOMAIN held' \subseteq Addresses, \A a \in DOMAIN held' : held'[a] \in Nat
  PROVE  /\ Shape' /\ DOMAIN blocks' \subseteq DOMAIN blocks
         /\ node \in DOMAIN blocks' => blocks'[node].is_free
         /\ \A c \in DOMAIN blocks \ {node} :
               ~blocks[c].is_free => /\ c \in DOMAIN blocks' /\ ~blocks'[c].is_free
                                     /\ blocks'[c].size = blocks[c].size
         /\ \A c \in DOMAIN blocks' : c # node => blocks'[c].is_free = blocks[c].is_free
PROOF
<1> DEFINE freed == [blocks EXCEPT ![node].is_free = TRUE]
           prev == blocks[node].prev
<1>1. \A c \in DOMAIN blocks : c \in Int
  BY BlockFacts
<1>2. /\ node \in Int /\ node # head /\ node # tail /\ blocks[node] \in Block
      /\ prev \in DOMAIN blocks /\ prev < node /\ blocks[prev].next = node
      /\ \A c \in DOMAIN blocks : c <= prev \/ node <= c
  <2>1. /\ node \in Int /\ node # head /\ node # tail /\ blocks[node] \in Block
        /\ prev \in DOMAIN blocks /\ prev < node /\ blocks[prev].next = node
    BY BlockFacts
  <2>a. node <= tail /\ tail \in Int /\ prev \in Int
    BY <2>1, <1>1, BlockFacts, Region
  <2>2. prev # tail
    BY <2>1, <2>a
  <2> QED BY <2>1, <2>2, BlockFacts
<1>3. /\ end \in Int /\ end > node /\ ~blocks[end].is_free /\ end # node /\ end # head
      /\ \A b \in DOMAIN blocks : b > node /\ b < end => blocks[b].is_free
      /\ blocks[end] \in Block
  BY <1>1, <1>2, BlockFacts, Region DEF Merged
<1>4. /\ m \in DOMAIN blocks /\ m \in Int /\ m <= node /\ m < end
      /\ m # head /\ m # tail
      /\ m = node \/ (m = prev /\ blocks[m].is_free)
      /\ m = node => ~blocks[prev].is_free
      /\ blocks[m] \in Block
  <2>1. \/ m = prev /\ blocks[prev].is_free
        \/ m = node /\ ~blocks[prev].is_free
    BY DEF MergesInto
  <2>2. m \in DOMAIN blocks /\ m \in Int /\ m <= node
    BY <2>1, <1>1, <1>2
  <2>3. m # head /\ m # tail
    BY <2>1, <2>2, <1>2, BlockFacts
  <2>4. m < end /\ blocks[m] \in Block
    BY <2>2, <1>2, <1>3, BlockFacts
  <2>5. /\ m = node \/ (m = prev /\ blocks[m].is_free)
        /\ m = node => ~blocks[prev].is_free
    <3>1. node # prev
      BY <1>1, <1>2
    <3>2. CASE m = prev /\ blocks[prev].is_free
      <4>1. m # node /\ blocks[m].is_free
        BY <3>1, <3>2
      <4> QED BY <4>1, <3>2
    <3>3. CASE m = node /\ ~blocks[prev].is_free
      BY <3>3
    <3> QED BY <2>1, <3>2, <3>3
  <2> QED BY <2>2, <2>3, <2>4, <2>5
<1>5. /\ size \in Nat /\ size <= end - (m + BlockSize)
      /\ end - (m + BlockSize) < size + BlockSize
  <2>1. blocks[m].next <= end /\ blocks[m].next \in Int
    BY <1>3, <1>4, BlockFacts
  <2>2. m + BlockSize <= blocks[m].next
    BY <1>4, BlockFacts, Region
  <2>3. m + BlockSize <= end
    BY <2>1, <2>2, <1>3, <1>4, Region
  <2> QED BY <2>3, <1>3, <1>4, SizeBetween
<1>e. /\ DOMAIN blocks' = {c \in DOMAIN blocks : c <= m \/ c >= end}
      /\ blocks'[m] = [freed[m] EXCEPT !.next = end, !.size = size]
      /\ blocks'[end] = [freed[end] EXCEPT !.prev = m]
      /\ \A c \in DOMAIN blocks' \ {m, end} : blocks'[c] = freed[c]
  <2> DEFINE new == [freed[m] EXCEPT !.next = end, !.size = size]
             last == [freed[end] EXCEPT !.prev = m]
             kept == {c \in DOMAIN freed : c <= m \/ c >= end}
  <2>1. blocks' = [b \in kept |->
                     CASE b = m -> new [] b = end -> last [] OTHER -> freed[b]]
    BY DEF Merge
  <2>2. kept = {c \in DOMAIN blocks : c <= m \/ c >= end}
    OBVIOUS
  <2>3. m # end /\ m \in kept /\ end \in kept
    BY <2>2, <1>3, <1>4
  <2> HIDE DEF freed, new, last, kept
  <2>4. DOMAIN blocks' = kept /\ blocks'[m] = new /\ blocks'[end] = last
    BY <2>1, <2>3
  <2>5. \A c \in DOMAIN blocks' \ {m, end} : blocks'[c] = freed[c]
    BY <2>1
  <2> QED BY <2>2, <2>4, <2>5 DEF new, last
<1>f. /\ \A c \in DOMAIN blocks \ {node} : freed[c] = blocks[c]
      /\ freed[node] = [blocks[node] EXCEPT !.is_free = TRUE]
  OBVIOUS
<1> HIDE DEF freed
<1>d. DOMAIN blocks' = {c \in DOMAIN blocks : c <= m \/ c >= end}
  BY <1>e
<1>m. /\ blocks'[m].next = end /\ blocks'[m].size = size /\ blocks'[m].is_free = TRUE
      /\ blocks'[m].prev = blocks[m].prev /\ blocks'[m] \in Block
  <2>1. end \in Addresses
    BY <1>3, BlockFacts
  <2>2. freed[m] \in Block /\ freed[m].is_free = TRUE /\ freed[m].prev = blocks[m].prev
    <3>1. CASE m = node
      BY <3>1, <1>f, <1>4 DEF Block
    <3>2. CASE m # node
      <4>1. freed[m] = blocks[m] /\ blocks[m].is_free
        BY <3>2, <1>f, <1>4
      <4>2. blocks[m].is_free \in BOOLEAN
        BY <1>4 DEF Block
      <4> QED BY <4>1, <4>2, <1>4
    <3> QED BY <3>1, <3>2
  <2>3. blocks'[m] = [freed[m] EXCEPT !.next = end, !.size = size]
    BY <1>e
  <2> QED BY <2>1, <2>2, <2>3, <1>5 DEF Block
<1>n. /\ blocks'[end].prev = m /\ blocks'[end].next = blocks[end].next
      /\ blocks'[end].size = blocks[end].size /\ ~blocks'[end].is_free
      /\ blocks'[end] \in Block
  <2>1. m \in Addresses
    BY <1>4, BlockFacts
  <2> QED BY <2>1, <1>e, <1>f, <1>3 DEF Block
<1>o. \A c \in DOMAIN blocks' \ {m, end} : c # node /\ blocks'[c] = blocks[c]
  <2>1. \A c \in DOMAIN blocks' \ {m, end} : c # node
    BY <1>d, <1>1, <1>2, <1>3, <1>4
  <2> QED BY <2>1, <1>d, <1>e, <1>f
<1>p. \A c \in DOMAIN blocks : c <= m \/ c = node \/ c >= end \/ blocks[c].is_free
  BY <1>1, <1>2, <1>3, <1>4
<1>6. TypeOK'
  BY <1>d, <1>m, <1>n, <1>o DEF Shape, TypeOK
<1>7. Linked'
  <2>1. /\ {head, tail} \subseteq DOMAIN blocks' /\ ~blocks'[head].is_free
        /\ ~blocks'[tail].is_free
    <3>1. {head, tail} \subseteq DOMAIN blocks /\ ~blocks[head].is_free /\ ~blocks[tail].is_free
      BY DEF Shape, Linked
    <3>2. head <= m /\ tail >= end
      BY <1>3, <1>4, BlockFacts
    <3> QED BY <3>1, <3>2, <1>3, <1>4, <1>d, <1>n, <1>o
  <2>2. \A c \in DOMAIN blocks' : head <= c /\ c <= tail
    BY <1>d, BlockFacts
  <2>3. ASSUME NEW c \in DOMAIN blocks' \ {tail}
        PROVE  /\ blocks'[c].next \in DOMAIN blocks' /\ c < blocks'[c].next
               /\ blocks'[blocks'[c].next].prev = c
               /\ \A d \in DOMAIN blocks' : d <= c \/ blocks'[c].next <= d
    <3>1. CASE c = m
      <4>1. end \in DOMAIN blocks'
        BY <1>3, <1>d
      <4>2. ASSUME NEW d \in DOMAIN blocks' PROVE d <= m \/ end <= d
        <5>1. d \in Int /\ (d <= m \/ d >= end)
          BY <1>1, <1>d
        <5> QED BY <5>1, <1>3
      <4> QED BY <3>1, <4>1, <4>2, <1>4, <1>m, <1>n
    <3>2. CASE c # m
      <4>1. /\ c \in DOMAIN blocks /\ c \in Int /\ blocks[c].next \in DOMAIN blocks
            /\ blocks[c].next \in Int
            /\ c < blocks[c].next /\ blocks[blocks[c].next].prev = c
            /\ \A d \in DOMAIN blocks : d <= c \/ blocks[c].next <= d
        BY <2>3, <1>d, BlockFacts
      <4>2. blocks'[c].next = blocks[c].next
        BY <3>2, <2>3, <1>n, <1>o
      <4>3. c < m \/ c >= end
        BY <3>2, <2>3, <4>1, <1>4, <1>d
      <4>4. blocks[c].next <= m \/ blocks[c].next > end
        BY <4>1, <4>3, <1>3, <1>4
      <4>5. blocks[c].next \in DOMAIN blocks' /\ blocks[c].next # end
        BY <4>1, <4>4, <1>d, <1>3, <1>4
      <4>6. blocks'[blocks[c].next].prev = c
        BY <4>1, <4>5, <1>m, <1>o
      <4> QED BY <4>1, <4>2, <4>5, <4>6, <1>d
    <3> QED BY <3>1, <3>2
  <2>4. ASSUME NEW c \in DOMAIN blocks' \ {head}
        PROVE  /\ blocks'[c].prev \in DOMAIN blocks' /\ blocks'[c].prev < c
               /\ blocks'[blocks'[c].prev].next = c
    <3>1. CASE c = end
      BY <3>1, <1>3, <1>4, <1>d, <1>m, <1>n
    <3>2. CASE c # end
      <4>1. /\ c \in DOMAIN blocks /\ c \in Int /\ blocks[c].prev \in DOMAIN blocks
            /\ blocks[c].prev \in Int
            /\ blocks[c].prev < c /\ blocks[blocks[c].prev].next = c
        BY <2>4, <1>d, BlockFacts
      <4>2. blocks'[c].prev = blocks[c].prev
        BY <3>2, <2>4, <1>m, <1>o
      <4>3. c <= m \/ c > end
        BY <3>2, <2>4, <4>1, <1>3, <1>d
      <4>4. blocks[c].prev # tail
        BY <4>1, BlockFacts, Region
      <4>5. \A d \in DOMAIN blocks : d <= blocks[c].prev \/ c <= d
        BY <4>1, <4>4, BlockFacts
      <4>6. blocks[c].prev < m \/ blocks[c].prev >= end
        BY <4>1, <4>3, <4>5, <1>3, <1>4
      <4>7. blocks[c].prev \in DOMAIN blocks' /\ blocks[c].prev # m
        BY <4>1, <4>6, <1>3, <1>4, <1>d
      <4>8. blocks'[blocks[c].prev].next = c
        BY <4>1, <4>7, <1>n, <1>o
      <4> QED BY <4>1, <4>2, <4>7, <4>8
    <3> QED BY <3>1, <3>2
  <2> QED BY <2>1, <2>2, <2>3, <2>4 DEF Linked
<1>8. Tiled'
  <2> SUFFICES ASSUME NEW c \in DOMAIN blocks' \ {head, tail}
               PROVE  /\ blocks'[c].size <= blocks'[c].next - (c + BlockSize)
                      /\ blocks'[c].next - (c + BlockSize) < blocks'[c].size + BlockSize
    BY DEF Tiled, get_data_address
  <2>1. CASE c = m
    BY <2>1, <1>5, <1>m
  <2>2. CASE c # m
    <3>1. c \in DOMAIN blocks /\ blocks'[c].size = blocks[c].size
          /\ blocks'[c].next = blocks[c].next
      BY <2>2, <1>d, <1>n, <1>o
    <3> QED BY <3>1, BlockFacts
  <2> QED BY <2>1, <2>2
<1>9. Coalesced'
  <2> SUFFICES ASSUME NEW c \in DOMAIN blocks' \ {tail}, blocks'[c].is_free
               PROVE  ~blocks'[blocks'[c].next].is_free
    BY DEF Coalesced
  <2>1. CASE c = m
    BY <2>1, <1>m, <1>n
  <2>2. CASE c # m
    <3>1. /\ c \in DOMAIN blocks /\ c \in Int /\ c # end /\ blocks[c].is_free
          /\ blocks'[c].next = blocks[c].next
      BY <2>2, <1>d, <1>1, <1>n, <1>o
    <3>2. /\ blocks[c].next \in DOMAIN blocks' /\ blocks[c].next \in DOMAIN blocks
          /\ blocks[blocks[c].next].prev = c
      BY <3>1, <1>7, <1>d, BlockFacts DEF Linked
    <3>3. ~blocks[blocks[c].next].is_free
      BY <3>1 DEF Shape, Coalesced
    <3>4. blocks[c].next # m
      <4>1. m = node => c # prev
        BY <3>1, <1>4
      <4> QED BY <4>1, <3>2, <3>3, <1>4
    <3> QED BY <3>1, <3>2, <3>3, <3>4, <1>n, <1>o
  <2> QED BY <2>1, <2>2
<1>10. Aligned'
  BY <1>d DEF Shape, Aligned
<1>f1. FirstBlock'
  <2>1. head \in DOMAIN blocks'
    BY <1>7 DEF Linked
  <2> QED BY <2>1, <1>o, <1>3, <1>4 DEF Shape, FirstBlock, get_data_address
<1>11. Shape'
  BY <1>6, <1>7, <1>8, <1>9, <1>10, <1>f1 DEF Shape
<1>12. node \in DOMAIN blocks' => blocks'[node].is_free
  BY <1>o, <1>m, <1>3
<1>13. ASSUME NEW c \in DOMAIN blocks \ {node}, ~blocks[c].is_free
       PROVE  /\ c \in DOMAIN blocks' /\ ~blocks'[c].is_free
              /\ blocks'[c].size = blocks[c].size
  <2>1. c \in DOMAIN blocks' /\ c # m
    BY <1>13, <1>p, <1>d, <1>4
  <2> QED BY <2>1, <1>13, <1>n, <1>o
<1>14. \A c \in DOMAIN blocks' : c # node => blocks'[c].is_free = blocks[c].is_free
  <2>1. m # node => blocks[m].is_free = TRUE
    BY <1>4 DEF Block
  <2>2. blocks'[end].is_free = FALSE /\ blocks[end].is_free = FALSE
    BY <1>3, <1>n DEF Block
  <2> QED BY <2>1, <2>2, <1>m, <1>o
<1> QED BY <1>11, <1>12, <1>13, <1>14, <1>d

\* What a call of free does: node is given back, the blocks that are still
\* held are left alone.
LEMMA FreeGives ==
  ASSUME IInv, NEW addr \in DOMAIN held, Free(addr)
  PROVE  \E node \in DOMAIN blocks \ {head, tail} :
            /\ Shape' /\ addr = get_data_address(node) /\ ~blocks[node].is_free
            /\ DOMAIN blocks' \subseteq DOMAIN blocks
            /\ node \in DOMAIN blocks' => blocks'[node].is_free
            /\ \A c \in DOMAIN blocks \ {node} :
                  ~blocks[c].is_free => /\ c \in DOMAIN blocks' /\ ~blocks'[c].is_free
                                        /\ blocks'[c].size = blocks[c].size
            /\ \A c \in DOMAIN blocks' : c # node => blocks'[c].is_free = blocks[c].is_free
            /\ held' = [a \in DOMAIN held \ {addr} |-> held[a]]
PROOF
<1> DEFINE node == addr - BlockSize
<1>0. Shape /\ NothingLeaks
  BY DEF IInv, Shape
<1>1. /\ node \in DOMAIN blocks \ {head, tail} /\ ~blocks[node].is_free
      /\ addr = get_data_address(node)
  BY <1>0, Owners
<1>2. /\ IF MergesInto(node) = {}
            THEN blocks' = [blocks EXCEPT ![node].is_free = TRUE]
            ELSE \E m \in MergesInto(node), end \in DOMAIN blocks :
                 /\ Merged(m, node, end)
                 /\ \E size \in calc_size_between(m, end) :
                        blocks' = Merge([blocks EXCEPT ![node].is_free = TRUE], m, end, size)
      /\ held' = [a \in DOMAIN held \ {addr} |-> held[a]]
  BY DEF Free
<1> HIDE DEF node
<1>3. DOMAIN held' \subseteq Addresses /\ \A a \in DOMAIN held' : held'[a] \in Nat
  BY <1>0, <1>2 DEF Shape, TypeOK
<1>4. CASE MergesInto(node) = {}
  <2>1. blocks' = [blocks EXCEPT ![node].is_free = TRUE]
    BY <1>2, <1>4
  <2>2. /\ Shape' /\ DOMAIN blocks' = DOMAIN blocks /\ blocks'[node].is_free
        /\ \A c \in DOMAIN blocks : /\ blocks'[c].size = blocks[c].size
                                    /\ c # node => blocks'[c].is_free = blocks[c].is_free
    BY <1>0, <1>1, <1>3, <1>4, <2>1, FreedKeeps
  <2> HIDE <2>1
  <2> QED BY <2>2, <1>1, <1>2
<1>5. CASE MergesInto(node) # {}
  <2>1. PICK m \in MergesInto(node), end \in DOMAIN blocks :
           /\ Merged(m, node, end)
           /\ \E size \in calc_size_between(m, end) :
                  blocks' = Merge([blocks EXCEPT ![node].is_free = TRUE], m, end, size)
    BY <1>2, <1>5
  <2>2. PICK size \in calc_size_between(m, end) :
           blocks' = Merge([blocks EXCEPT ![node].is_free = TRUE], m, end, size)
    BY <2>1
  <2>3. /\ Shape' /\ DOMAIN blocks' \subseteq DOMAIN blocks
        /\ node \in DOMAIN blocks' => blocks'[node].is_free
        /\ \A c \in DOMAIN blocks \ {node} :
              ~blocks[c].is_free => /\ c \in DOMAIN blocks' /\ ~blocks'[c].is_free
                                    /\ blocks'[c].size = blocks[c].size
        /\ \A c \in DOMAIN blocks' : c # node => blocks'[c].is_free = blocks[c].is_free
    BY <1>0, <1>1, <1>3, <2>1, <2>2, MergeKeeps
  <2> QED BY <2>3, <1>1, <1>2
<1> QED BY <1>4, <1>5

LEMMA FreeIInv ==
  ASSUME IInv, NEW addr \in DOMAIN held, Free(addr)
  PROVE  IInv' /\ (EnoughMemory => EnoughMemory')
PROOF
<1> DEFINE Used(bs) == {c \in DOMAIN bs \ {head, tail} : ~bs[c].is_free}
<1>0. Shape /\ NothingLeaks
  BY DEF IInv, Shape
<1>1. PICK node \in DOMAIN blocks \ {head, tail} :
         /\ Shape' /\ addr = get_data_address(node) /\ ~blocks[node].is_free
         /\ DOMAIN blocks' \subseteq DOMAIN blocks
         /\ node \in DOMAIN blocks' => blocks'[node].is_free
         /\ \A c \in DOMAIN blocks \ {node} :
               ~blocks[c].is_free => /\ c \in DOMAIN blocks' /\ ~blocks'[c].is_free
                                     /\ blocks'[c].size = blocks[c].size
         /\ \A c \in DOMAIN blocks' : c # node => blocks'[c].is_free = blocks[c].is_free
         /\ held' = [a \in DOMAIN held \ {addr} |-> held[a]]
  BY FreeGives
<1>2. NothingLeaks'
  <2>1. Used(blocks') = Used(blocks) \ {node}
    BY <1>1
  <2>2. \A c \in Used(blocks) : c # node => get_data_address(c) # addr
    <3>1. \A c \in DOMAIN blocks : c \in Int
      BY <1>0, BlockFacts
    <3> QED BY <3>1, <1>1, Region DEF get_data_address
  <2>3. DOMAIN held = {get_data_address(c) : c \in Used(blocks)}
    BY <1>0 DEF NothingLeaks
  <2>4. DOMAIN held' = DOMAIN held \ {addr}
    BY <1>1
  <2>5. DOMAIN held' = {get_data_address(c) : c \in Used(blocks')}
    <3> HIDE DEF Used
    <3> QED BY <2>1, <2>2, <2>3, <2>4, <1>1
  <2> QED BY <2>5 DEF NothingLeaks
<1>3. ASSUME EnoughMemory PROVE EnoughMemory'
  <2> SUFFICES ASSUME NEW a \in DOMAIN held'
               PROVE  held'[a] <= blocks'[a - BlockSize].size
    BY DEF EnoughMemory
  <2>1. a \in DOMAIN held /\ a # addr /\ held'[a] = held[a]
    BY <1>1
  <2>2. /\ a - BlockSize \in DOMAIN blocks /\ ~blocks[a - BlockSize].is_free
        /\ a = get_data_address(a - BlockSize)
    BY <1>0, <2>1, Owners
  <2>3. a - BlockSize # node
    BY <2>1, <2>2, <1>1
  <2>4. held[a] <= blocks[a - BlockSize].size
    BY <1>3, <2>1 DEF EnoughMemory
  <2> QED BY <1>1, <2>1, <2>2, <2>3, <2>4
<1> QED BY <1>1, <1>2, <1>3 DEF IInv, Shape

----------------------------------------------------------------------------
(* The invariant, and the properties that follow from it.                  *)

LEMMA StepIInv == IInv /\ [Next]_vars => IInv'
PROOF
<1> SUFFICES ASSUME IInv, [Next]_vars PROVE IInv'
  OBVIOUS
<1>1. ASSUME NEW request \in Requests, Allocate(request) PROVE IInv'
  BY <1>1, AllocateIInv
<1>2. ASSUME NEW addr \in DOMAIN held, Free(addr) PROVE IInv'
  BY <1>2, FreeIInv
<1>3. CASE UNCHANGED vars
  BY <1>3 DEF vars, IInv, TypeOK, Linked, Tiled, Coalesced, NothingLeaks, Aligned, FirstBlock
<1> QED BY <1>1, <1>2, <1>3 DEF Next, NotEnoughMemory

\* The list of blocks is what the code takes it for at every call of allocate
\* and of free.
THEOREM Invariance == Spec => []IInv
PROOF
<1>1. Init => IInv
  BY InitIInv
<1>2. IInv /\ [Next]_vars => IInv'
  BY StepIInv
<1> QED BY <1>1, <1>2, PTL DEF Spec

\* Every header is in memory the region owns.
THEOREM TypeCorrect == Spec => []TypeOK
PROOF
<1>1. IInv => TypeOK
  BY DEF IInv
<1> QED BY <1>1, Invariance, PTL

\* The list is doubly linked in address order and skips no block.
THEOREM ListStaysLinked == Spec => []Linked
PROOF
<1>1. IInv => Linked
  BY DEF IInv
<1> QED BY <1>1, Invariance, PTL

\* Blocks fill the region and never reach into each other.
THEOREM BlocksTile == Spec => []Tiled
PROOF
<1>1. IInv => Tiled
  BY DEF IInv
<1> QED BY <1>1, Invariance, PTL

\* free merges all that it can.
THEOREM FreeCoalesces == Spec => []Coalesced
PROOF
<1>1. IInv => Coalesced
  BY DEF IInv
<1> QED BY <1>1, Invariance, PTL

\* The blocks in use are those the callers hold.
THEOREM NothingIsLost == Spec => []NothingLeaks
PROOF
<1>1. IInv => NothingLeaks
  BY DEF IInv
<1> QED BY <1>1, Invariance, PTL

\* When everything has been given back, the heap is one block again.
THEOREM HeapBecomesWhole == Spec => []EmptyIsWhole
PROOF
<1>1. IInv => EmptyIsWhole
  <2> SUFFICES ASSUME IInv, DOMAIN held = {}
               PROVE  \E b \in DOMAIN blocks :
                         /\ DOMAIN blocks = {head, b, tail}
                         /\ b = head + BlockSize /\ blocks[b].is_free
    BY DEF EmptyIsWhole
  <2> DEFINE b == blocks[head].next
  <2>1. Shape /\ NothingLeaks /\ head \in DOMAIN blocks /\ tail \in DOMAIN blocks
    BY DEF IInv, Shape, Linked
  <2>2. b = head + BlockSize /\ head # tail /\ b # tail /\ b # head
    BY <2>1, Region DEF Shape, FirstBlock, get_data_address
  <2>3. /\ b \in DOMAIN blocks
        /\ \A c \in DOMAIN blocks : c <= head \/ b <= c
    BY <2>1, <2>2, BlockFacts
  <2> HIDE DEF b
  <2>4. blocks[b].is_free
    BY <2>1, <2>2, <2>3, Owners
  <2>5. ~blocks[blocks[b].next].is_free /\ blocks[b].next \in DOMAIN blocks
    BY <2>1, <2>2, <2>3, <2>4, BlockFacts DEF Shape, Coalesced
  <2>6. blocks[b].next = tail
    <3>1. b < blocks[b].next /\ blocks[b].next \in Int
      BY <2>1, <2>2, <2>3, BlockFacts
    <3>2. blocks[b].next # head
      BY <3>1, <2>2, Region
    <3> QED BY <3>2, <2>1, <2>5, Owners
  <2>7. \A c \in DOMAIN blocks : c <= b \/ tail <= c
    BY <2>1, <2>2, <2>3, <2>6, BlockFacts
  <2>8. \A c \in DOMAIN blocks : c \in Int /\ head <= c /\ c <= tail
    BY <2>1, BlockFacts
  <2>9. DOMAIN blocks = {head, b, tail}
    <3>1. ASSUME NEW c \in DOMAIN blocks PROVE c \in {head, b, tail}
      <4>1. c = head \/ b <= c
        BY <2>3, <2>8, Region
      <4>2. c <= b \/ c = tail
        BY <2>7, <2>8, Region
      <4> QED BY <4>1, <4>2, <2>2, <2>3, <2>8
    <3> QED BY <3>1, <2>1, <2>3
  <2> QED BY <2>2, <2>3, <2>4, <2>9
<1> QED BY <1>1, Invariance, PTL

----------------------------------------------------------------------------
(* With requests that align_to does not wrap, the promise of the heap.     *)

LEMMA InitEnough == Init => EnoughMemory
BY DEF Init, EnoughMemory

LEMMA StepEnough ==
  ASSUME NoneWraps PROVE IInv /\ EnoughMemory /\ [Next]_vars => EnoughMemory'
PROOF
<1> SUFFICES ASSUME IInv, EnoughMemory, [Next]_vars PROVE EnoughMemory'
  OBVIOUS
<1>1. ASSUME NEW request \in Requests, Allocate(request) PROVE EnoughMemory'
  BY <1>1, AllocateIInv
<1>2. ASSUME NEW addr \in DOMAIN held, Free(addr) PROVE EnoughMemory'
  BY <1>2, FreeIInv
<1>3. CASE UNCHANGED vars
  BY <1>3 DEF vars, EnoughMemory
<1> QED BY <1>1, <1>2, <1>3 DEF Next, NotEnoughMemory

\* An allocation is never smaller than what was asked for.
THEOREM AllocationsAreBigEnough ==
  ASSUME NoneWraps PROVE Spec => []EnoughMemory
PROOF
<1>1. Init => EnoughMemory
  BY InitEnough
<1>2. IInv /\ EnoughMemory /\ [Next]_vars => EnoughMemory'
  BY StepEnough
<1> QED BY <1>1, <1>2, Invariance, PTL DEF Spec

LEMMA AllocatePromised ==
  ASSUME NoneWraps, IInv, EnoughMemory, NEW request \in Requests, Allocate(request)
  PROVE  Promise!Allocate(request)
PROOF
<1>0. Shape /\ NothingLeaks /\ request \in Nat
  BY RequestAssumption, Region DEF IInv, Shape
<1>1. PICK b \in DOMAIN blocks \ {head, tail} :
         /\ Shape' /\ blocks[b].is_free /\ ~blocks'[b].is_free
         /\ blocks'[b].size >= align_to(request)
         /\ DOMAIN blocks \subseteq DOMAIN blocks'
         /\ \A c \in DOMAIN blocks : c # b => /\ blocks'[c].is_free = blocks[c].is_free
                                              /\ blocks'[c].size = blocks[c].size
         /\ \A c \in DOMAIN blocks' \ DOMAIN blocks : blocks'[c].is_free
         /\ held' = [a \in DOMAIN held \cup {get_data_address(b)} |->
                        IF a = get_data_address(b) THEN request ELSE held[a]]
  BY AllocateGives
<1> DEFINE a == get_data_address(b)
<1>2. b \in DOMAIN blocks' \ {head, tail} /\ request <= blocks'[b].size
  <2>1. request <= align_to(request) /\ align_to(request) \in Int
    BY <1>0, AlignTo DEF NoneWraps
  <2>2. blocks'[b].size \in Int
    BY <1>1 DEF Shape, TypeOK, Block
  <2> QED BY <1>0, <1>1, <2>1, <2>2
<1>3. /\ b \in Int /\ head <= b /\ b % ALIGNED = 0 /\ blocks'[b].next \in Int
      /\ blocks'[b].next <= tail
      /\ blocks'[b].size \in Nat /\ blocks'[b].size <= blocks'[b].next - (b + BlockSize)
  <2>1. /\ b \in Int /\ head <= b /\ b % ALIGNED = 0
    BY <1>0, BlockFacts
  <2>2. /\ b \in DOMAIN blocks' \ {tail} /\ blocks'[b] \in Block
        /\ blocks'[b].next \in DOMAIN blocks'
        /\ \A c \in DOMAIN blocks' : head <= c /\ c <= tail
    BY <1>1, <1>2 DEF Shape, TypeOK, Linked
  <2>3. blocks'[b].size <= blocks'[b].next - (b + BlockSize)
    BY <1>1, <1>2 DEF Shape, Tiled, get_data_address
  <2> QED BY <2>1, <2>2, <2>3 DEF Block, Addresses
<1>4. a \in Start..End /\ a % ALIGNED = 0 /\ a + request <= End
  BY <1>0, <1>2, <1>3, Region DEF get_data_address
<1>5. a \notin DOMAIN held
  BY <1>0, <1>1, Owners
<1>6. ASSUME NEW d \in DOMAIN held
      PROVE  Promise!Apart(a, request, d, held[d])
  <2> DEFINE c == d - BlockSize
  <2>1. /\ c \in DOMAIN blocks \ {head, tail} /\ ~blocks[c].is_free
        /\ d = get_data_address(c)
    BY <1>0, Owners
  <2> HIDE DEF c
  <2>2. c # b /\ c \in Int
    BY <2>1, <1>0, <1>1, BlockFacts
  <2>3. held[d] \in Nat /\ held[d] <= blocks[c].size
    BY <1>0 DEF Shape, TypeOK, EnoughMemory, c
  <2>4. /\ c \in DOMAIN blocks' \ {head, tail} /\ blocks'[c].size = blocks[c].size
    BY <2>1, <2>2, <1>1
  <2>5. /\ blocks[c].next \in Int /\ (blocks[c].next <= b \/ b <= c)
        /\ blocks[c].size \in Nat
        /\ blocks[c].size <= blocks[c].next - (c + BlockSize)
    BY <2>1, <1>0, <1>1, BlockFacts
  <2>6. CASE c < b
    BY <2>1, <2>2, <2>3, <2>5, <2>6, <1>3, Region DEF Promise!Apart, get_data_address
  <2>7. CASE b < c
    <3>1. blocks'[b].next <= c
      BY <1>1, <1>2, <1>3, <2>2, <2>4, <2>7 DEF Shape, Linked
    <3> QED BY <3>1, <2>1, <2>2, <2>3, <1>0, <1>2, <1>3, Region
            DEF Promise!Apart, get_data_address
  <2> QED BY <2>2, <2>6, <2>7, <1>3
<1> QED BY <1>1, <1>4, <1>5, <1>6 DEF Promise!Allocate

\* The allocator implements the heap its callers rely on: every allocation is
\* an aligned range of its own until it is given back.
THEOREM PromiseKept ==
  ASSUME NoneWraps PROVE Spec => KeepsPromise
PROOF
<1>1. Init => Promise!Init
  BY DEF Init, Promise!Init
<1>2. IInv /\ EnoughMemory /\ [Next]_vars => [Promise!Next]_held
  <2> SUFFICES ASSUME IInv, EnoughMemory, [Next]_vars PROVE [Promise!Next]_held
    OBVIOUS
  <2>1. ASSUME NEW request \in Requests, Allocate(request) PROVE Promise!Next
    BY <2>1, AllocatePromised DEF Promise!Next
  <2>2. ASSUME NEW addr \in DOMAIN held, Free(addr) PROVE Promise!Next
    BY <2>2 DEF Free, Promise!Next, Promise!Free
  <2>3. CASE UNCHANGED vars
    BY <2>3 DEF vars
  <2> QED BY <2>1, <2>2, <2>3 DEF Next, NotEnoughMemory
<1> QED BY <1>1, <1>2, Invariance, AllocationsAreBigEnough, PTL DEF Spec, Promise!Spec, KeepsPromise

----------------------------------------------------------------------------
(* The heap that kheap::init creates.                                      *)

\* What kheap::init knows of the map so far.
Nothing == [type |-> "reserved", addr |-> 0, length |-> 0]
Chosen ==
    \E i \in DOMAIN entries :
        /\ largest = entries[i] /\ largest.type = "available"
        /\ largest.addr < WordSize

KernelIInv ==
    /\ entries \in Maps \cup {<<>>} /\ seen \in 0..Len(entries)
    /\ largest = Nothing \/ Chosen
    /\ outcome \in {"choosing", "halted", "null", "heap"}
    /\ outcome = "heap" =>
           Enough /\ Created /\ region = <<heap_start, heap_end>>
    /\ DOMAIN held # {} => Followed

-----------------------------------------------------------------------------
(* The steps.                                                              *)

LEMMA EntryFacts ==
  ASSUME entries \in Maps \cup {<<>>}, NEW i \in DOMAIN entries
  PROVE  /\ entries \in Seq(Entry) /\ entries[i] \in Entry
         /\ entries[i].type = "available" =>
               \/ entries[i].addr >= kernel_start
               \/ entries[i].addr + entries[i].length <= kernel_start
<1>1. entries \in Maps
  OBVIOUS
<1>2. entries \in Seq(Entry)
  BY <1>1, MapsAssumption
<1> QED
  BY <1>1, <1>2, MapsAssumption

LEMMA KernelInitIInv == KernelInit => KernelIInv
BY DEF KernelInit, KernelIInv, Init, Nothing

LEMMA ConsiderIInv == ASSUME KernelIInv, Consider PROVE KernelIInv'
<1>1. /\ entries' = entries /\ outcome = "choosing" /\ outcome' = "choosing"
      /\ seen \in 0..Len(entries) /\ seen < Len(entries) /\ seen' = seen + 1
      /\ held' = held /\ DOMAIN held = {}
  BY DEF KernelIInv, Consider, vars, Followed
<1>2. Len(entries) \in Nat /\ entries \in Seq(Entry)
  <2>1. CASE entries = <<>>
    BY <2>1
  <2>2. CASE entries \in Maps
    BY <2>2, MapsAssumption
  <2> QED
    BY <2>1, <2>2 DEF KernelIInv
<1>3. seen + 1 \in DOMAIN entries /\ seen' \in 0..Len(entries')
  BY <1>1, <1>2
<1>4. largest' = Nothing \/ Chosen'
  <2>1. CASE Better(entries[seen + 1])
    BY <1>1, <1>3, <2>1 DEF Consider, Better, Chosen
  <2>2. CASE ~Better(entries[seen + 1])
    BY <1>1, <2>2 DEF Consider, Chosen, KernelIInv
  <2> QED
    BY <2>1, <2>2
<1> QED
  BY <1>1, <1>3, <1>4 DEF KernelIInv

LEMMA DecideIInv == ASSUME KernelIInv, Decide PROVE KernelIInv'
<1>1. /\ entries' = entries /\ seen' = seen /\ largest' = largest /\ held' = held
      /\ outcome = "choosing" /\ DOMAIN held = {}
  BY DEF KernelIInv, Decide, vars, Followed
<1>2. Chosen' <=> Chosen
  BY <1>1 DEF Chosen
<1>3. outcome' = "heap" => Enough' /\ Created' /\ region' = <<heap_start, heap_end>>'
  BY <1>1 DEF Decide, Enough, Created, heap_start, heap_end, Limited
<1> QED
  BY <1>1, <1>2, <1>3 DEF KernelIInv, Decide

LEMMA KernelStepIInv == KernelIInv /\ [KernelNext]_<<vars, boot>> => KernelIInv'
<1> SUFFICES ASSUME KernelIInv, [KernelNext]_<<vars, boot>> PROVE KernelIInv'
  OBVIOUS
<1>1. CASE Consider
  BY <1>1, ConsiderIInv
<1>2. CASE Decide
  BY <1>2, DecideIInv
<1>3. ASSUME UNCHANGED boot, held' = held \/ Followed PROVE KernelIInv'
  BY <1>3
  DEF KernelIInv, boot, Chosen, Enough, Created, heap_start, heap_end, Limited, Followed
<1>4. CASE Use
  BY <1>3, <1>4 DEF Use
<1>5. CASE Unfollowed \/ UNCHANGED <<vars, boot>>
  BY <1>3, <1>5 DEF Unfollowed, vars, boot
<1> QED
  BY <1>1, <1>2, <1>4, <1>5 DEF KernelNext

THEOREM KernelInvariance == KernelSpec => []KernelIInv
<1>1. KernelInit => KernelIInv
  BY KernelInitIInv
<1>2. KernelIInv /\ [KernelNext]_<<vars, boot>> => KernelIInv'
  BY KernelStepIInv
<1> QED
  BY <1>1, <1>2, PTL DEF KernelSpec

-----------------------------------------------------------------------------
(* The region.                                                             *)

\* Where the entry was chosen, and where the heap then is.
LEMMA WhereTheHeapIs ==
  ASSUME KernelIInv, outcome = "heap"
  PROVE  \E i \in DOMAIN entries :
            LET entry == entries[i]
            IN  /\ entry.type = "available" /\ entry.addr \in Nat /\ entry.length \in Nat
                /\ \/ entry.addr >= kernel_start
                   \/ entry.addr + entry.length <= kernel_start
                /\ region[2] \in Nat /\ region[2] <= entry.length
                /\ \/ /\ entry.addr \notin kernel_start..kernel_end
                      /\ region[1] = entry.addr
                   \/ /\ region[1] >= kernel_end /\ region[1] >= entry.addr
                      /\ region[1] \in Nat
<1>1. largest.type = "available" /\ region = <<heap_start, heap_end>>
  BY DEF KernelIInv, Enough
<1>2. PICK i \in DOMAIN entries : largest = entries[i] /\ largest.addr < WordSize
  BY <1>1 DEF KernelIInv, Chosen, Nothing
<1>3. /\ largest \in Entry
      /\ largest.addr >= kernel_start \/ largest.addr + largest.length <= kernel_start
  BY <1>1, <1>2, EntryFacts DEF KernelIInv
<1>4. largest.addr \in Nat /\ largest.length \in Nat
  BY <1>3 DEF Entry
<1>5. heap_end \in Nat /\ heap_end <= largest.length
  BY <1>4, SizesAssumption DEF heap_end, Limited
<1>6. CASE largest.addr \in kernel_start..kernel_end
  <2> DEFINE past == ((kernel_end + 15) \div 16) * 16
  <2>1. past \in Nat /\ past >= kernel_end /\ past <= kernel_end + 15
    BY SizesAssumption
  <2> HIDE DEF past
  <2>2. largest.addr + past \in 0..(WordSize - 1)
    BY <1>4, <1>6, <2>1, SizesAssumption, RegionAssumption DEF BlockSize
  <2>3. heap_start = (largest.addr + past) % WordSize
    BY <1>6 DEF heap_start, past
  <2>4. heap_start = largest.addr + past
    BY <2>2, <2>3, RegionAssumption
  <2> QED
    BY <1>1, <1>2, <1>3, <1>4, <1>5, <2>1, <2>4, SizesAssumption
<1>7. CASE largest.addr \notin kernel_start..kernel_end
  <2>1. heap_start = largest.addr
    BY <1>7 DEF heap_start
  <2> QED
    BY <1>1, <1>2, <1>3, <1>4, <1>5, <1>7, <2>1
<1> QED
  BY <1>6, <1>7

LEMMA Available == KernelIInv => HeapIsAvailable
<1> SUFFICES ASSUME KernelIInv, outcome = "heap"
             PROVE  \E i \in DOMAIN entries :
                       LET entry == entries[i]
                       IN  /\ entry.type = "available"
                           /\ entry.addr <= region[1]
                           /\ region[2] <= entry.addr + entry.length
  BY DEF HeapIsAvailable
<1> QED
  BY WhereTheHeapIs

LEMMA MissesKernel == KernelIInv => HeapMissesKernel
<1> SUFFICES ASSUME KernelIInv, outcome = "heap"
             PROVE  region[2] <= kernel_start \/ kernel_end <= region[1]
  BY DEF HeapMissesKernel
<1> QED
  BY WhereTheHeapIs, SizesAssumption

\* kheap::init takes as the end of the heap the length of the entry and moves
\* the start by the kernel's end: for every map the region is still available
\* memory.
THEOREM HeapIsInTheMap == KernelSpec => []HeapIsAvailable
BY Available, KernelInvariance, PTL

\* And it has no byte of the kernel's image.
THEOREM HeapIsOffTheKernel == KernelSpec => []HeapMissesKernel
BY MissesKernel, KernelInvariance, PTL

-----------------------------------------------------------------------------
(* The heap's allocator.                                                   *)

\* The kernel's heap behaves as the allocator on its own.
THEOREM KernelUsesAllocator == KernelSpec => Spec
<1>1. KernelInit => Init
  BY DEF KernelInit
<1>2. [KernelNext]_<<vars, boot>> => [Next]_vars
  BY DEF KernelNext, Consider, Decide, Use, Unfollowed
<1> QED
  BY <1>1, <1>2, PTL DEF KernelSpec, Spec

\* So its list of blocks is well formed, and it keeps the promise of the heap.
THEOREM KernelHeapKeepsPromise ==
  ASSUME NoneWraps PROVE KernelSpec => []IInv /\ KeepsPromise
BY KernelUsesAllocator, Invariance, PromiseKept, PTL

\* Where the allocations of the kernel are: on memory that the boot loader
\* calls available, and on no byte of the kernel.
AllocationsAreUsable ==
    \A a \in DOMAIN held :
        /\ \E i \in DOMAIN entries :
              LET entry == entries[i]
              IN  /\ entry.type = "available"
                  /\ entry.addr <= a /\ a + held[a] <= entry.addr + entry.length
        /\ a + held[a] <= kernel_start \/ kernel_end <= a

\* An allocation of the heap is in its region.
LEMMA InRegion ==
  ASSUME IInv, EnoughMemory, NEW a \in DOMAIN held
  PROVE  a \in Int /\ held[a] \in Int /\ Start <= a /\ a + held[a] <= End
<1> DEFINE b == a - BlockSize
<1>1. Shape /\ NothingLeaks
  BY DEF IInv, Shape
<1>2. /\ b \in DOMAIN blocks \ {head, tail} /\ a = get_data_address(b)
  BY <1>1, Owners
<1> HIDE DEF b
<1>3. /\ b \in Int /\ head <= b /\ blocks[b].next \in Int
      /\ blocks[b].next \in DOMAIN blocks
      /\ blocks[b].size \in Nat
      /\ blocks[b].size <= blocks[b].next - (b + BlockSize)
  BY <1>1, <1>2, BlockFacts
<1>4. blocks[b].next <= tail
  BY <1>1, <1>3, BlockFacts
<1>5. held[a] \in Nat /\ held[a] <= blocks[b].size
  BY DEF b, IInv, TypeOK, EnoughMemory
<1> QED
  BY <1>2, <1>3, <1>4, <1>5, Region DEF get_data_address

\* No two owners of one byte: neither another allocation (KeepsPromise) nor a
\* device nor the kernel itself.
THEOREM KernelAllocations ==
  ASSUME NoneWraps PROVE KernelSpec => []AllocationsAreUsable
<1>1. KernelIInv /\ IInv /\ EnoughMemory => AllocationsAreUsable
  <2> SUFFICES ASSUME KernelIInv, IInv, EnoughMemory, NEW a \in DOMAIN held
               PROVE  /\ \E i \in DOMAIN entries :
                           LET entry == entries[i]
                           IN  /\ entry.type = "available" /\ entry.addr <= a
                               /\ a + held[a] <= entry.addr + entry.length
                      /\ a + held[a] <= kernel_start \/ kernel_end <= a
    BY DEF AllocationsAreUsable
  <2>1. outcome = "heap" /\ region[1] = Start /\ region[2] = End
    BY DEF KernelIInv, Followed
  <2>2. a \in Int /\ held[a] \in Int /\ Start <= a /\ a + held[a] <= End
    BY InRegion
  <2>3. Start \in Int /\ End \in Int
    BY Region
  <2>4. PICK i \in DOMAIN entries :
           /\ entries[i].type = "available" /\ entries[i].addr \in Nat
           /\ entries[i].length \in Nat
           /\ entries[i].addr <= Start /\ End <= entries[i].addr + entries[i].length
    BY <2>1, <2>3, WhereTheHeapIs
  <2>5. End <= kernel_start \/ kernel_end <= Start
    BY <2>1, MissesKernel DEF HeapMissesKernel
  <2> QED
    BY <2>2, <2>3, <2>4, <2>5, SizesAssumption
<1> QED
  BY <1>1, KernelInvariance, KernelUsesAllocator, Invariance, AllocationsAreBigEnough, PTL
=============================================================================
