----------------------------- MODULE Interrupts -----------------------------
(***************************************************************************)
(* How an interrupt reaches its callback and comes back (interrupts.cpp,   *)
(* isr.asm, fault.asm): the two PICs as remap_pic programs them, the IDT   *)
(* as init fills it, the frames the stubs build, and how processes are     *)
(* created, switched and ended, in a handler or by themselves.             *)
(*                                                                         *)
(* Which process is next, and the locks, are in Scheduler.                 *)
(***************************************************************************)
EXTENDS Descriptors, TaskSwitch, FiniteSets

CONSTANTS
    address,    \* where the linker puts the stubs
    Lines,      \* the interrupt lines that devices use
    Vectors,    \* the exceptions that happen
    Procs,      \* processes
    AtBoot,     \* those that kernel_main creates, which never end
    nobody,     \* current_process is null
    Places      \* where in its code a process can be

PIC1_OFFSET == 32
PIC2_OFFSET == 40
Timer == 0

ASSUME LinesAssumption == Lines \subseteq 0..15 /\ Timer \in Lines
\* The stubs of fault.asm and isr.asm.
Stubs == ({"fault"} \X ((0..20) \ {15})) \cup ({"isr"} \X (0..15))

ASSUME AddressAssumption ==
    /\ address \in [Stubs -> 0..(Word - 1)]
    /\ \A s, t \in Stubs : address[s] = address[t] => s = t
ASSUME VectorsAssumption == Vectors \subseteq (0..20 \ {15})
ASSUME ProcsAssumption == AtBoot # {} /\ AtBoot \subseteq Procs /\ nobody \notin Procs

VARIABLES
    irr,        \* lines that request an interrupt
    isr1, isr2, \* lines in service, in each PIC
    iflag,      \* EFLAGS.IF
    current,    \* current_process
    registers,  \* the general ones: whose values they are
    at,         \* where each process is: "none" before it is created, "new",
                \* "starter" in process_starter, "code", in a handler "entered",
                \* "callback" and "return", "away" in switch_to_task, "fault"
    place,      \* eip, while it is in its code
    stack,      \* what was pushed on its stack, the top first
    cs, ds,     \* the segments that code is run and data is used in
    line        \* history: the line the handler was entered for

vars == <<irr, isr1, isr2, iflag, current, registers, at, place, stack, cs, ds, line>>

----------------------------------------------------------------------------
(* The PICs (external).                                                    *)

\* The second PIC is cascaded through line 2 of the first one.
Input(i) == IF i < 8 THEN i ELSE 2

\* A line in service holds back itself and the lines of lower priority.
Deliverable(i) ==
    /\ i \in irr
    /\ \A j \in isr1 : Input(i) < j
    /\ i >= 8 => \A j \in isr2 : i < j

\* An end of interrupt is for the line of highest priority in service.
EndOf(service) == {i \in service : \E j \in service : j < i}

\* remap_pic
vector(i) == IF i < 8 THEN PIC1_OFFSET + i ELSE PIC2_OFFSET + (i - 8)

----------------------------------------------------------------------------
(* The IDT and the stubs.                                                  *)

Gate(stub) == set_idt_entry(address[stub], KERNEL_CODE_SELECTOR, "interrupt_32", 0)

\* setup_fault and setup_pic_interrupts.
SwappedTable(v) ==   \* mutant: the second PIC's stubs from 0 again
    IF v < PIC1_OFFSET THEN Gate(<<"fault", v>>)
    ELSE Gate(<<"isr", (v - PIC1_OFFSET) % 8>>)
IDT(v) ==
    IF v < PIC1_OFFSET THEN Gate(<<"fault", v>>) ELSE Gate(<<"isr", v - PIC1_OFFSET>>)

\* The stub the CPU gets to, if it gets to one, and the number it pushes.
Reached(gate) == {s \in Stubs : Usable(gate) /\ address[s] = EntryPoint(gate)}
Pushed(v) ==
    IF Reached(IDT(v)) = {} THEN "nothing"
    ELSE (CHOOSE s \in Reached(IDT(v)) : TRUE)[2]

\* The exceptions for which the CPU pushes an error code.
WithErrorCode == {8, 10, 11, 12, 13, 14, 17}

\* What the CPU pushes, the number, and pushad, the top first.
pushad ==
    LET of == registers
    IN  <<of["edi"], of["esi"], of["ebp"], "esp",
          of["ebx"], of["edx"], of["ecx"], of["eax"]>>
Frame(v) ==
    pushad \o <<Pushed(v)>>
           \o (IF v \in WithErrorCode THEN <<"error code">> ELSE <<>>)
           \o <<place[current], cs, iflag>>

\* The fields of struct registers, by their offset.
irq_id(frame) == frame[9]
eip(frame) == frame[10]

\* popad, which skips esp, and add esp, 4.
popped == <<"edi", "esi", "ebp", "esp", "ebx", "edx", "ecx", "eax">>
popad(frame) ==
    [r \in Registers |-> frame[CHOOSE i \in 1..8 : popped[i] = r]]
Unwound(frame) == SubSeq(frame, 10, Len(frame))

\* The values a process computes with, and those that code of the kernel leaves.
Own(p) == [r \in Registers |-> <<p, r>>]
Used == [r \in Registers |-> <<"used">>]

----------------------------------------------------------------------------
\* The end of kernel_main, with interrupts masked.
Init ==
    /\ irr = {} /\ isr1 = {} /\ isr2 = {}
    /\ current = nobody
    /\ registers = Used
    /\ at = [p \in Procs |-> IF p \in AtBoot THEN "new" ELSE "none"]
    /\ place \in [Procs -> Places]
    /\ stack = [p \in Procs |-> IF p \in AtBoot THEN NewStack ELSE <<>>]
    /\ iflag = FALSE
    /\ cs = KERNEL_CODE_SELECTOR /\ ds = KERNEL_DATA_SELECTOR
    /\ line = [p \in Procs |-> Timer]

Runs(where) == current # nobody /\ at[current] = where

pic_vars == <<irr, isr1, isr2>>
segment_vars == <<cs, ds>>

\* A device requests its line.
Raise(i) ==
    /\ irr' = irr \cup {i}
    /\ UNCHANGED <<isr1, isr2, segment_vars, iflag, current, registers, at, place,
                   stack, line>>

\* A gate of type interrupt_32 masks interrupts.
Enter(i) ==
    /\ iflag
    /\ iflag' = (IDT(vector(i)).type # "interrupt_32")
    /\ cs' = IDT(vector(i)).selector
    /\ stack' = [stack EXCEPT ![current] = Frame(vector(i)) \o @]
    /\ at' = [at EXCEPT ![current] = "entered"]
    /\ line' = [line EXCEPT ![current] = i]
    /\ UNCHANGED <<current, registers, place, ds>>

Interrupt(i) ==
    /\ Deliverable(i)
    /\ Enter(i)
    /\ irr' = irr \ {i}
    /\ isr1' = isr1 \cup {Input(i)}
    /\ isr2' = IF i >= 8 THEN isr2 \cup {i} ELSE isr2

\* A request that is gone when the CPU asks for it: the PIC answers with its
\* last line and has nothing in service.
Spurious(i) ==
    /\ i \in {7, 15} /\ Enter(i)
    /\ isr1' = IF i = 15 THEN isr1 \cup {2} ELSE isr1
    /\ UNCHANGED <<irr, isr2>>

\* pic_handler up to the callback.
AcknowledgeOne ==   \* mutant: the second PIC is forgotten
    /\ Runs("entered")
    /\ isr1' = EndOf(isr1) /\ isr2' = isr2
    /\ at' = [at EXCEPT ![current] = "callback"]
    /\ registers' = Used
    /\ UNCHANGED <<irr, iflag, current, place, stack, segment_vars, line>>
Acknowledge ==
    /\ Runs("entered")
    /\ isr2' = IF irq_id(stack[current]) >= 8 THEN EndOf(isr2) ELSE isr2
    /\ isr1' = EndOf(isr1)
    /\ at' = [at EXCEPT ![current] = "callback"]
    /\ registers' = Used
    /\ UNCHANGED <<irr, iflag, current, place, stack, segment_vars, line>>

\* The callback returns.
Callback ==
    /\ Runs("callback")
    /\ at' = [at EXCEPT ![current] = "return"]
    /\ UNCHANGED <<pic_vars, segment_vars, iflag, current, registers, place, stack, line>>

\* A process that is created and not yet run, or was switched away from.
CanRun(p) == at[p] \in {"new", "away"}

\* The second half of switch_to_task, from the stacks and places of all others:
\* p goes on in process_starter, or at the end of its reschedule, whose lock
\* unmasks interrupts if they were on, and then where reschedule was called.
GoesOn(p, stacks, points) ==
    LET loaded == Loaded(stacks[p])
        starts == loaded.return = "process_starter"
    IN  /\ current' = p
        /\ registers' = loaded.registers
        /\ iflag' = (~starts /\ loaded.stack[1])
        /\ at' = [points EXCEPT ![p] = IF starts THEN "starter"
                                       ELSE loaded.stack[2]]
        /\ stack' = [stacks EXCEPT ![p] = IF starts THEN loaded.stack
                                          ELSE SubSeq(loaded.stack, 3, Len(loaded.stack))]
        /\ UNCHANGED <<pic_vars, segment_vars, place, line>>

\* From kernel_main, or on the boot stack for a process that ended: there is no
\* process whose stack pointer is to be saved.
Load(p) == current = nobody /\ CanRun(p) /\ GoesOn(p, stack, at)

SwitchTo(p, was_enabled, caller) ==
    /\ p # current /\ CanRun(p)
    /\ GoesOn(p, [stack EXCEPT ![current] =
                     SwitchFrame(registers, "reschedule")
                     \o RescheduleFrame(was_enabled, caller) \o @],
                 [at EXCEPT ![current] = "away"])

\* By the timer's callback, and by the process itself.
Preempt(p) ==
    /\ Runs("callback") /\ irq_id(stack[current]) = Timer
    /\ SwitchTo(p, FALSE, "return")
Yield(p) ==
    /\ Runs("code") /\ iflag
    /\ SwitchTo(p, TRUE, "code")

\* create_process, which leaves interrupts on.
Create(p) ==
    /\ Runs("code") /\ at[p] = "none"
    /\ at' = [at EXCEPT ![p] = "new"]
    /\ stack' = [stack EXCEPT ![p] = NewStack]
    /\ iflag' = TRUE
    /\ UNCHANGED <<pic_vars, segment_vars, current, registers, place, line>>

\* process_starter: before the task, and after it, when the stack is deleted.
Start ==
    /\ Runs("starter")
    /\ at' = [at EXCEPT ![current] = "code"]
    /\ registers' = Own(current) /\ iflag' = TRUE
    /\ UNCHANGED <<pic_vars, segment_vars, current, place, stack, line>>

End ==
    /\ Runs("code") /\ current \notin AtBoot
    /\ current' = nobody
    /\ at' = [at EXCEPT ![current] = "none"]
    /\ stack' = [stack EXCEPT ![current] = <<>>]
    /\ iflag' = FALSE /\ registers' = Used
    /\ UNCHANGED <<pic_vars, segment_vars, place, line>>

\* The end of isr_common: popad, the number, iret.
Return ==
    /\ Runs("return")
    /\ LET left == Unwound(stack[current])
       IN  /\ place' = [place EXCEPT ![current] = left[1]]
           /\ cs' = left[2] /\ iflag' = left[3]
           /\ registers' = popad(stack[current])
           /\ stack' = [stack EXCEPT ![current] = SubSeq(left, 4, Len(left))]
    /\ at' = [at EXCEPT ![current] = "code"]
    /\ UNCHANGED <<pic_vars, current, line, ds>>

\* A process goes on, and masks and unmasks interrupts.
Execute ==
    /\ Runs("code")
    /\ \E q \in Places : place' = [place EXCEPT ![current] = q]
    /\ iflag' \in BOOLEAN
    /\ UNCHANGED <<pic_vars, segment_vars, current, registers, at, stack, line>>

\* fault_handler prints the registers and halts.
Fault(v) ==
    /\ Runs("code")
    /\ stack' = [stack EXCEPT ![current] = Frame(v) \o @]
    /\ at' = [at EXCEPT ![current] = "fault"]
    /\ iflag' = FALSE /\ cs' = IDT(v).selector
    /\ UNCHANGED <<pic_vars, current, registers, place, line, ds>>

Halted == Runs("fault") /\ UNCHANGED vars

Next ==
    \/ \E i \in Lines : Raise(i) \/ Interrupt(i) \/ Spurious(i)
    \/ Acknowledge \/ Callback \/ Return
    \/ \E p \in Procs : Load(p) \/ Preempt(p) \/ Yield(p) \/ Create(p)
    \/ Start \/ End \/ Execute \/ Halted
    \/ \E v \in Vectors : Fault(v)

Spec == Init /\ [][Next]_vars

----------------------------------------------------------------------------
(* What holds of an interrupt.                                             *)

\* The handler acknowledges before it calls back, and both PICs when it must:
\* a timer callback that switches away holds back no line, and the process it
\* switches to is interrupted as any other.
NothingHeldBack ==
    ~Runs("entered") => isr1 = {} /\ isr2 = {}

\* The number a callback is looked up with is the line that was raised: the
\* offsets of the PICs, the IDT and the numbers the stubs push agree.
RightCallback ==
    \A p \in Procs :
        at[p] \in {"entered", "callback", "return"} => irq_id(stack[p]) = line[p]

\* The segments in use are those of the kernel, over the whole memory: load_gdt's
\* and the gates' selectors, the table's order, the halves of the limit and its
\* unit agree, and iret finds the selector that was pushed.
Flat(selector, exectuable) ==
    LET d == Selected(selector)
    IN  /\ IsSegment(d, exectuable, 0)
        /\ BaseOf(d) = 0 /\ LastOf(d) = Word - 1
SegmentsAreFlat == Flat(cs, 1) /\ Flat(ds, 0)

\* A process that was interrupted, or gave up the CPU itself, goes on where it
\* was, with its registers, with interrupts on and its stack as it was, however
\* many processes were switched to, created and ended meanwhile: pushes and pops,
\* the frame built by hand and the ones that are dropped agree.
ComesBack ==
    [][\A p \in Procs :
           at[p] \in {"return", "away"} /\ at'[p] = "code" =>
               /\ at[p] = "return" => place'[p] = eip(stack[p])
               /\ place'[p] = place[p] /\ registers' = Own(p)
               /\ iflag' /\ stack'[p] = <<>>]_vars

\* "eip: {x}" (interrupts.cpp): the value that fault_handler prints under this
\* name is where the process was.
FaultShowsEip ==
    Runs("fault") => eip(stack[current]) = place[current]
=============================================================================
