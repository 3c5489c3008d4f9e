----------------------------- MODULE TaskSwitch -----------------------------
(***************************************************************************)
(* The frames with which the CPU passes from one process to another        *)
(* (task_switch.asm), among them the one create_process builds by hand.  A *)
(* stack is a sequence, the top first.                                     *)
(***************************************************************************)
EXTENDS Sequences, SequencesExt

Registers == {"eax", "ecx", "edx", "ebx", "ebp", "esi", "edi"}

\* In the order of the instructions.
pushes == <<"eax", "ecx", "edx", "ebx", "ebp", "esi", "edi">>
InOrder == <<"eax", "ecx", "edx", "ebx", "ebp", "esi", "edi">>   \* mutant
pops == <<"edi", "esi", "ebp", "ebx", "edx", "ecx", "eax">>

\* The stack after a call of switch_to_task, up to where esp is saved.
SwitchFrame(registers, return) ==
    Reverse([i \in 1..7 |-> registers[pushes[i]]]) \o <<return>>

\* From where esp is loaded: the registers, the address for ret and what is left.
Loaded(stack) ==
    [registers |-> [r \in Registers |-> stack[CHOOSE i \in 1..7 : pops[i] = r]],
     return |-> stack[8],
     stack |-> SubSeq(stack, 9, Len(stack))]

\* create_process pushes the address of process_starter and then zeros.
NewStack == [i \in 1..7 |-> <<0>>] \o <<"process_starter">>

\* reschedule calls switch_to_task: on the stack, its weak_int_lock and where
\* reschedule itself was called.
RescheduleFrame(was_enabled, caller) == <<was_enabled, caller>>
=============================================================================
