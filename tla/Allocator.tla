----------------------------- MODULE Allocator -----------------------------
(***************************************************************************)
(* The allocator of the kernel's heap (memory/allocator.hpp): a region of  *)
(* memory tiled by blocks, each a header followed by its data, linked in   *)
(* the order of their addresses between two empty blocks that are never    *)
(* free.  allocate takes the first free block that fits and splits it,     *)
(* free merges a block with the free ones next to it.                      *)
(*                                                                         *)
(* One step is one call: kernel_heap.cpp calls with interrupts masked.     *)
(***************************************************************************)
EXTENDS Integers, FiniteSets

CONSTANTS
    WordSize,      \* an address or a size is a number modulo WordSize (2^32)
    Start, End,    \* create's memory_start and memory_end
    Requests       \* the sizes asked for

\* The allocator itself and three headers have to fit, which create does not
\* check (it asks for 32 bytes), and the region starts at an aligned address.
ASSUME RegionAssumption ==
    /\ Start \in Nat /\ End \in Nat /\ WordSize \in Nat
    /\ Start > 0 /\ Start % 8 = 0 /\ WordSize % 8 = 0
    /\ Start + 64 <= End /\ End < WordSize
ASSUME RequestAssumption == Requests \subseteq 0..(WordSize - 1)

ALIGNED == 8
BlockSize == 16                    \* sizeof(block), and sizeof(allocator)
nullptr == 0

head == Start + BlockSize
tail == End - BlockSize

VARIABLES
    blocks,  \* the headers that are linked, by their addresses
    held     \* what the callers hold: the size asked for, by data address

vars == <<blocks, held>>

Addresses == 0..(WordSize - 1)
Block == [prev : Addresses, next : Addresses, size : Nat, is_free : BOOLEAN]

TypeOK ==
    /\ DOMAIN blocks \subseteq Addresses
    /\ \A b \in DOMAIN blocks : blocks[b] \in Block
    /\ DOMAIN held \subseteq Addresses
    /\ \A a \in DOMAIN held : held[a] \in Nat

get_data_address(b) == b + BlockSize

\* (value + align - 1) & ~(align - 1), which is 0 when the sum wraps.
align_to(n) == (((n + ALIGNED - 1) % WordSize) \div ALIGNED) * ALIGNED

SizeWithHeader(first, second) == {second - first}   \* mutant: no - 1
\* The difference of two block pointers is in blocks of 16 bytes.  The addresses
\* need not differ by a multiple of 16, which C++ leaves undefined: the build
\* rounds down or cancels the division with the multiplication.
calc_size_between(first, second) ==
    LET bytes == second - first
    IN  {bytes - BlockSize, ((bytes \div BlockSize) - 1) * BlockSize}

----------------------------------------------------------------------------
(* create.                                                                 *)

Init ==
    LET free == head + BlockSize
    IN  /\ \E size \in calc_size_between(free, tail) :
              blocks = [b \in {head, free, tail} |->
                  CASE b = head -> [prev |-> nullptr, next |-> free, size |-> 0,
                                    is_free |-> FALSE]
                    [] b = free -> [prev |-> head, next |-> tail, size |-> size,
                                    is_free |-> TRUE]
                    [] b = tail -> [prev |-> free, next |-> nullptr, size |-> 0,
                                    is_free |-> FALSE]]
        /\ held = [a \in {} |-> 0]

----------------------------------------------------------------------------
(* allocate.                                                               *)

FitsAnyState(n) == {b \in DOMAIN blocks \ {head, tail} : blocks[b].size >= n} \* mutant
Fits(n) ==
    {b \in DOMAIN blocks \ {head, tail} : blocks[b].is_free /\ blocks[b].size >= n}

\* find_fit walks the list from its head, and the list is in address order.
find_fit(n, b) == b \in Fits(n) /\ \A c \in Fits(n) : b <= c

TakenStillFree(b) == blocks   \* mutant: the state is set only when b is split
\* The blocks when b is allocated whole.
Taken(b) == [blocks EXCEPT ![b].is_free = FALSE]

\* The blocks when b is cut after n bytes of data, the rest being a new block.
Split(b, n, size) ==
    LET rest == get_data_address(b) + n
        next == blocks[b].next
    IN  [c \in DOMAIN blocks \cup {rest} |->
            CASE c = b -> [blocks[b] EXCEPT !.next = rest, !.size = n, !.is_free = FALSE]
              [] c = rest -> [prev |-> b, next |-> next, size |-> size, is_free |-> TRUE]
              [] c = next -> [blocks[next] EXCEPT !.prev = rest]
              [] OTHER -> blocks[c]]

Splittable(b, n) == blocks[b].size >= n + BlockSize

Allocate(request) ==
    LET n == align_to(request)
    IN  \E b \in DOMAIN blocks :
        /\ find_fit(n, b)
        /\ IF Splittable(b, n)
             THEN \E size \in calc_size_between(get_data_address(b) + n, blocks[b].next) :
                      blocks' = Split(b, n, size)
             ELSE blocks' = Taken(b)
        /\ held' = [a \in DOMAIN held \cup {get_data_address(b)} |->
                       IF a = get_data_address(b) THEN request ELSE held[a]]

\* The assertion of kheap::allocate halts the system.
NotEnoughMemory(request) == Fits(align_to(request)) = {} /\ UNCHANGED vars

----------------------------------------------------------------------------
(* free, of an address that allocate has returned and that is still held.  *)

\* merge_with_next_block calls itself until the next block is not free, so m
\* ends up before the first block after node that is not free.
MergedOnce(m, node, end) == end = blocks[node].next    \* mutant: no recursion
Merged(m, node, end) ==
    /\ end > node /\ ~blocks[end].is_free
    /\ \A b \in DOMAIN blocks : b > node /\ b < end => blocks[b].is_free

\* The blocks when those between m and end have become part of m.
Merge(bs, m, end, size) ==
    [b \in {c \in DOMAIN bs : c <= m \/ c >= end} |->
        CASE b = m -> [bs[m] EXCEPT !.next = end, !.size = size]
          [] b = end -> [bs[end] EXCEPT !.prev = m]
          [] OTHER -> bs[b]]

\* The block free merges into, when a neighbour of node is free.
MergesOnlyForward(node) == IF blocks[blocks[node].next].is_free THEN {node} ELSE {} \* mutant
MergesInto(node) ==
    IF blocks[blocks[node].prev].is_free THEN {blocks[node].prev}
    ELSE IF blocks[blocks[node].next].is_free THEN {node}
    ELSE {}

Free(addr) ==
    LET node == addr - BlockSize
        freed == [blocks EXCEPT ![node].is_free = TRUE]
    IN  /\ addr \in DOMAIN held /\ node \in DOMAIN blocks
        /\ IF MergesInto(node) = {}
             THEN blocks' = freed
             ELSE \E m \in MergesInto(node), end \in DOMAIN blocks :
                  /\ Merged(m, node, end)
                  /\ \E size \in calc_size_between(m, end) :
                         blocks' = Merge(freed, m, end, size)
        /\ held' = [a \in DOMAIN held \ {addr} |-> held[a]]

Next ==
    \/ \E request \in Requests : Allocate(request) \/ NotEnoughMemory(request)
    \/ \E addr \in DOMAIN held : Free(addr)

Spec == Init /\ [][Next]_vars

----------------------------------------------------------------------------
(* What holds of the allocator.                                            *)

\* The list is doubly linked in the order of the addresses, from head to tail,
\* and skips no block: the walks of find_fit and free meet every block.
Linked ==
    /\ {head, tail} \subseteq DOMAIN blocks
    /\ ~blocks[head].is_free /\ ~blocks[tail].is_free
    /\ \A b \in DOMAIN blocks : head <= b /\ b <= tail
    /\ \A b \in DOMAIN blocks \ {tail} :
          LET next == blocks[b].next
          IN  /\ next \in DOMAIN blocks /\ b < next /\ blocks[next].prev = b
              /\ \A c \in DOMAIN blocks : c <= b \/ next <= c
    /\ \A b \in DOMAIN blocks \ {head} :
          LET prev == blocks[b].prev
          IN  prev \in DOMAIN blocks /\ prev < b /\ blocks[prev].next = b

\* A block ends where the next one begins: the data of a block never reaches
\* into another header, and rounding loses less than a header.
Tiled ==
    \A b \in DOMAIN blocks \ {head, tail} :
        LET gap == blocks[b].next - get_data_address(b)
        IN  blocks[b].size <= gap /\ gap < blocks[b].size + BlockSize

\* free leaves no two free blocks side by side, so that memory given back can
\* be allocated again in one piece.
Coalesced ==
    \A b \in DOMAIN blocks \ {tail} :
        blocks[b].is_free => ~blocks[blocks[b].next].is_free

\* The blocks that are not free are those the callers hold: none is lost.
NothingLeaks ==
    {get_data_address(b) : b \in {c \in DOMAIN blocks \ {head, tail} : ~blocks[c].is_free}}
        = DOMAIN held

\* Blocks start at multiples of 8, so that get_data_address does.
Aligned == \A b \in DOMAIN blocks \ {tail} : b % ALIGNED = 0

\* When the kernel holds nothing the heap is one free block again.
EmptyIsWhole ==
    DOMAIN held = {} =>
        \E b \in DOMAIN blocks :
            /\ DOMAIN blocks = {head, b, tail}
            /\ b = head + BlockSize /\ blocks[b].is_free

\* The allocator keeps the promise of the heap.
Promise == INSTANCE Heap WITH First <- Start, Limit <- End, Align <- ALIGNED,
                              Sizes <- Requests
KeepsPromise == Promise!Spec

\* An allocation that does not fail (kernel_heap.cpp:74) is as large as was
\* asked for.  It is not when align_to wraps: see NoneWraps in KernelHeapProofs.
EnoughMemory == \A a \in DOMAIN held : held[a] <= blocks[a - BlockSize].size

\* The blocks begin right after the header of the head.
FirstBlock == blocks[head].next = get_data_address(head)

\* The inductive invariant: the shape of the list, and what each step of the
\* code relies on when it follows its pointers.
IInv == TypeOK /\ Linked /\ Tiled /\ Coalesced /\ NothingLeaks /\ Aligned /\ FirstBlock
=============================================================================
