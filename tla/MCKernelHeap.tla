---------------------------- MODULE MCKernelHeap ----------------------------
(***************************************************************************)
(* Memory maps in any order: the usual one, with memory below and above    *)
(* the kernel; a longer entry that is reserved, one above the word size,   *)
(* one whose address is above its length, and too little memory.           *)
(***************************************************************************)
EXTENDS KernelHeap, SequencesExt

MCEntry(type, addr, length) == [type |-> type, addr |-> addr, length |-> length]

Low == MCEntry("available", 0, 6)
Main == MCEntry("available", 8, 290)
Small == MCEntry("available", 8, 50)
Middle == MCEntry("available", 8, 120)
Upper == MCEntry("available", 100, 190)
High == MCEntry("available", 310, 200)
Reserved == MCEntry("reserved", 0, 300)
Above == MCEntry("available", 600, 400)

MCMaps ==
    {<<Low, Main, Above, Reserved>>}
        \cup UNION {SetToSeqs(S) :
                    S \in {{Small, High, Reserved}, {Small, Upper, Above},
                           {Low, Middle, Reserved}, {Low, Reserved, Upper, High}}}
=============================================================================
