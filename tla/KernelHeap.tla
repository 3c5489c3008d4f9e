----------------------------- MODULE KernelHeap -----------------------------
(***************************************************************************)
(* Where the kernel's heap comes from (memory_map.cpp, kheap::init): the   *)
(* largest available entry of the boot loader's memory map, limited and    *)
(* moved off the kernel, is given to allocator::create.  What is then      *)
(* allocated and freed there is Allocator, for one of the regions.         *)
(***************************************************************************)
EXTENDS Allocator, Sequences

CONSTANTS
    Maps,                      \* the memory maps of the machines
    MinLength, MaxLength,      \* 10 MB and 1 GB
    kernel_start, kernel_end   \* the linker's symbols

Types == {"available", "reserved"}
Entry == [type : Types, addr : Nat, length : Nat]

\* Below the kernel, which is at 1 MB, is the memory of the devices: no
\* available memory starts below the kernel and reaches it.
ASSUME MapsAssumption ==
    \A map \in Maps :
        /\ map \in Seq(Entry)
        /\ \A i \in DOMAIN map : map[i].type = "available" =>
               \/ map[i].addr >= kernel_start
               \/ map[i].addr + map[i].length <= kernel_start
ASSUME SizesAssumption ==
    /\ MinLength \in Nat /\ MaxLength \in Nat
    /\ kernel_start \in Nat /\ kernel_end \in Nat
    /\ kernel_start < kernel_end
    /\ 2 * kernel_end + BlockSize < WordSize /\ MaxLength < WordSize

VARIABLES
    entries,   \* mmap's entries
    seen,      \* how many of them kheap::init has looked at
    largest,
    outcome,   \* choosing, halted, null (create's result) or heap
    region     \* create's arguments

boot == <<entries, seen, largest, outcome, region>>

\* mmap::init finds no map when the boot loader did not set bit 6 of flags;
\* kernel_main goes on.
KernelInit ==
    /\ Init
    /\ entries \in Maps \cup {<<>>}
    /\ seen = 0
    /\ largest = [type |-> "reserved", addr |-> 0, length |-> 0]
    /\ outcome = "choosing" /\ region = <<0, 0>>

Better(entry) ==
    /\ entry.type = "available"
    /\ entry.addr < WordSize /\ entry.length > largest.length

Consider ==
    /\ outcome = "choosing" /\ seen < Len(entries)
    /\ seen' = seen + 1
    /\ largest' = IF Better(entries[seen + 1]) THEN entries[seen + 1] ELSE largest
    /\ UNCHANGED <<vars, entries, outcome, region>>

Enough == largest.type = "available" /\ largest.length > MinLength

\* The kernel's end is added to where the entry starts.
StartOfEntry == largest.addr   \* mutant: on top of the kernel
heap_start ==
    LET past == ((kernel_end + 15) \div 16) * 16
    IN  IF largest.addr \in kernel_start..kernel_end
          THEN (largest.addr + past) % WordSize ELSE largest.addr

Limited == IF largest.length > MaxLength THEN MaxLength ELSE largest.length
EndFromStart == heap_start + Limited   \* mutant: from the start that was moved
\* The end is the length: largest.addr = largest.length.
heap_end == Limited

\* allocator::create's first checks.
Created == heap_end - heap_start >= 2 * BlockSize

Decide ==
    /\ outcome = "choosing" /\ seen = Len(entries)
    /\ outcome' = IF ~Enough THEN "halted" ELSE IF Created THEN "heap" ELSE "null"
    /\ region' = IF Enough THEN <<heap_start, heap_end>> ELSE region
    /\ UNCHANGED <<vars, entries, seen, largest>>

\* The heap whose life is followed.  The others, a halted kernel, and one that
\* prints an allocator at address 0 are not.
Followed == outcome = "heap" /\ region = <<Start, End>>
Use == Followed /\ Next /\ UNCHANGED boot
Unfollowed == outcome # "choosing" /\ ~Followed /\ UNCHANGED <<vars, boot>>

KernelNext == Consider \/ Decide \/ Use \/ Unfollowed

KernelSpec == KernelInit /\ [][KernelNext]_<<vars, boot>>

----------------------------------------------------------------------------
(* What holds of the region.                                               *)

\* The heap lies in one available entry of the map, although its end is the
\* length of the entry: what this loses is at the end only.
HeapIsAvailable ==
    outcome = "heap" => \E i \in DOMAIN entries :
        LET entry == entries[i]
        IN  /\ entry.type = "available"
            /\ entry.addr <= region[1] /\ region[2] <= entry.addr + entry.length

\* No allocation of any heap is on the kernel's image.
HeapMissesKernel ==
    outcome = "heap" => region[2] <= kernel_start \/ kernel_end <= region[1]
=============================================================================
