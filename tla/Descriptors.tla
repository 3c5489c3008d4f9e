---------------------------- MODULE Descriptors ----------------------------
(***************************************************************************)
(* Segment descriptors and gates: how gdt.cpp and interrupts.cpp pack them *)
(* and how the CPU unpacks them.  A field that holds half of a word is     *)
(* here in the width it has there.                                         *)
(***************************************************************************)
EXTENDS Integers

CONSTANT Nibble   \* how many values half a byte has (16)

ASSUME NibbleAssumption == Nibble \in Nat \ {0}

\* Words of four bytes and of two; the fields of three bytes, and of three nibbles.
Half == Nibble * Nibble * Nibble * Nibble
Word == Half * Half
ThreeBytes == Nibble * Nibble * Half
Page == Nibble * Nibble * Nibble

----------------------------------------------------------------------------
(* gdt.cpp.                                                                *)

KERNEL_CODE_SELECTOR == 8
KERNEL_DATA_SELECTOR == 16

create_null_descriptor == [
    limit_low |-> 0, base_low |-> 0,
    read_write |-> 0, exectuable |-> 0, descriptor_type |-> 0,
    privilege |-> 0, present |-> 0,
    limit_high |-> 0, big |-> 0, granularity |-> 0, base_high |-> 0]

set_base(d, base) ==
    [d EXCEPT !.base_low = base % ThreeBytes,
              !.base_high = base \div ThreeBytes]

LowLimit(d, limit) == [d EXCEPT !.limit_low = limit % Half]   \* mutant: half set
set_limit(d, limit) ==
    [d EXCEPT !.limit_low = limit % Half,
              !.limit_high = (limit \div Half) % Nibble]

Segment(exectuable, privilege) ==
    LET d == set_limit(set_base(create_null_descriptor, 0), Word - 1)
    IN  [d EXCEPT !.read_write = 1, !.exectuable = exectuable,
                  !.descriptor_type = 1, !.privilege = privilege,
                  !.present = 1, !.granularity = 1, !.big = 1]

create_kernel_code_descriptor == Segment(1, 0)
create_kernel_data_descriptor == Segment(0, 0)
create_user_code_descriptor == Segment(1, 3)
create_user_data_descriptor == Segment(0, 3)

GDT == <<create_null_descriptor,
         create_kernel_code_descriptor, create_kernel_data_descriptor,
         create_user_code_descriptor, create_user_data_descriptor>>

----------------------------------------------------------------------------
(* interrupts.cpp.                                                         *)

set_idt_entry(offset, selector, type, dpl) ==
    [offset_lowerbits |-> offset % Half, selector |-> selector,
     type |-> type, dpl |-> dpl, present |-> 1,
     offset_higherbits |-> offset \div Half]

----------------------------------------------------------------------------
(* The CPU (external).                                                     *)

\* The descriptors are eight bytes apart, the first one at 0.
Selected(selector) == GDT[selector \div 8 + 1]

BaseOf(d) == d.base_low + d.base_high * ThreeBytes

\* The limit counts pages if the descriptor says so.
LastOf(d) ==
    LET limit == d.limit_low + d.limit_high * Half
    IN  IF d.granularity = 1 THEN (limit + 1) * Page - 1 ELSE limit

IsSegment(d, exectuable, privilege) ==
    /\ d.present = 1 /\ d.descriptor_type = 1
    /\ d.exectuable = exectuable /\ d.privilege = privilege

\* A gate leads to code of the kernel.
Usable(gate) ==
    /\ gate.present = 1
    /\ IsSegment(Selected(gate.selector), 1, 0)

EntryPoint(gate) ==
    BaseOf(Selected(gate.selector))
        + gate.offset_lowerbits + gate.offset_higherbits * Half
=============================================================================
