-------------------------- MODULE InterruptsProofs --------------------------
(***************************************************************************)
(* Proofs that the properties of Interrupts hold for every width of a      *)
(* byte, every place of the stubs, every set of lines and exceptions and   *)
(* every number of processes.                                              *)
(*                                                                         *)
(* The inductive invariant says, word by word, what is on the stack of a   *)
(* process at each place it can be at.                                     *)
(***************************************************************************)
EXTENDS Interrupts, SequenceTheorems, TLAPS

(***************************************************************************)
(* The inductive invariant.                                                *)
(***************************************************************************)
Handler == {"entered", "callback", "return"}
Everywhere == Handler \cup {"none", "new", "starter", "code", "away", "fault"}

\* What a process that was interrupted keeps on its stack, what one that gave
\* up the CPU does, and what one that was preempted in its handler does.
Pushes(p, i) ==
    <<<<p, "edi">>, <<p, "esi">>, <<p, "ebp">>, "esp",
      <<p, "ebx">>, <<p, "edx">>, <<p, "ecx">>, <<p, "eax">>, i>>
Interrupted(p) ==
    Pushes(p, line[p]) \o <<place[p], KERNEL_CODE_SELECTOR, TRUE>>
GaveUp(p) ==
    SwitchFrame(Own(p), "reschedule") \o RescheduleFrame(TRUE, "code")
WasPreempted(p) ==
    SwitchFrame(Used, "reschedule")
        \o (RescheduleFrame(FALSE, "return") \o Interrupted(p))

TypeOK ==
    /\ current \in Procs \cup {nobody}
    /\ at \in [Procs -> Everywhere]
    /\ stack = [p \in Procs |-> stack[p]]
    /\ place \in [Procs -> Places]
    /\ line \in [Procs -> Lines]
    /\ iflag \in BOOLEAN

\* Only the current process is on the CPU.
OneRuns ==
    \A p \in Procs : at[p] \in {"none", "new", "away"} <=> p # current

\* Interrupts are on in no code but the processes' own.
Masked == iflag => Runs("code")

StackIs(p) ==
    /\ at[p] = "new" => stack[p] = NewStack
    /\ at[p] \in {"starter", "code"} => stack[p] = <<>>
    /\ at[p] \in Handler => stack[p] = Interrupted(p)
    /\ at[p] = "away" => stack[p] \in {GaveUp(p), WasPreempted(p)}
Stacks == \A p \in Procs : StackIs(p)

RegistersAre ==
    /\ Runs("code") => registers = Own(current)
    /\ Runs("callback") => registers = Used

\* At most the line the handler was entered for is in service.
Service ==
    /\ ~Runs("entered") => isr1 = {} /\ isr2 = {}
    /\ Runs("entered") =>
          /\ isr1 \subseteq {Input(line[current])}
          /\ isr2 \subseteq {line[current]}
          /\ line[current] < 8 => isr2 = {}

Segments == cs = KERNEL_CODE_SELECTOR /\ ds = KERNEL_DATA_SELECTOR

IInv ==
    /\ TypeOK /\ OneRuns /\ Masked /\ Stacks
    /\ RegistersAre /\ Service /\ Segments

-----------------------------------------------------------------------------
(***************************************************************************)
(* The descriptors: what is packed into two fields is what is unpacked.    *)
(***************************************************************************)
LEMMA Halves ==
  ASSUME NEW x \in Nat, NEW h \in Nat \ {0}
  PROVE  (x % h) + (x \div h) * h = x
OBVIOUS

LEMMA DivMod ==
  ASSUME NEW q \in Nat, NEW h \in Nat \ {0}
  PROVE  /\ (q * h + (h - 1)) % h = h - 1
         /\ (q * h + (h - 1)) \div h = q
<1>1. (q * h + (h - 1)) % h = h - 1
  BY SMTT(30)
<1>2. (q * h + (h - 1)) \div h = q
  BY SMTT(30)
<1> QED
  BY <1>1, <1>2

LEMMA Positive ==
  ASSUME NEW a \in Nat \ {0}, NEW b \in Nat \ {0}
  PROVE  a * b \in Nat \ {0}
BY SMTT(30)

LEMMA Widths ==
  /\ Half \in Nat \ {0} /\ ThreeBytes \in Nat \ {0} /\ Page \in Nat \ {0}
  /\ Word - 1 \in Nat
<1>1. Nibble * Nibble \in Nat \ {0}
  BY NibbleAssumption, Positive
<1>2. Page \in Nat \ {0}
  BY <1>1, NibbleAssumption, Positive DEF Page
<1>3. Half \in Nat \ {0}
  BY <1>2, NibbleAssumption, Positive DEF Page, Half
<1>4. ThreeBytes \in Nat \ {0}
  BY <1>1, <1>3, Positive DEF ThreeBytes
<1>5. Word \in Nat \ {0}
  BY <1>3, Positive DEF Word
<1> QED
  BY <1>2, <1>3, <1>4, <1>5

LEMMA FlatFields ==
  ASSUME NEW exectuable
  PROVE  LET d == Segment(exectuable, 0)
         IN  /\ IsSegment(d, exectuable, 0)
             /\ BaseOf(d) = 0 /\ LastOf(d) = Word - 1
<1> DEFINE d == Segment(exectuable, 0)
<1>1. 0 % ThreeBytes = 0 /\ 0 \div ThreeBytes = 0
  BY Widths, SMTT(30)
<1>2. (Word - 1) % Half = Half - 1 /\ (Word - 1) \div Half = Half - 1
  <2>1. Word - 1 = (Half - 1) * Half + (Half - 1) /\ Half - 1 \in Nat
    BY Widths, SMTT(30) DEF Word
  <2> QED
    BY <2>1, DivMod, Widths
<1>3. (Half - 1) % Nibble = Nibble - 1
  <2>1. Half = Page * Nibble /\ Page - 1 \in Nat
    BY Widths, NibbleAssumption DEF Half, Page
  <2>2. Half - 1 = (Page - 1) * Nibble + (Nibble - 1)
    <3> HIDE DEF Page
    <3> QED
      BY <2>1, Widths, NibbleAssumption, SMTT(30)
  <2> QED
    BY <2>1, <2>2, DivMod, NibbleAssumption
<1>4. d = [limit_low |-> Half - 1, base_low |-> 0,
           read_write |-> 1, exectuable |-> exectuable, descriptor_type |-> 1,
           privilege |-> 0, present |-> 1,
           limit_high |-> Nibble - 1, big |-> 1, granularity |-> 1, base_high |-> 0]
  <2> DEFINE null == create_null_descriptor
             limited == [null EXCEPT !.limit_low = Half - 1, !.limit_high = Nibble - 1]
  <2>1. set_base(null, 0) = null
    <3>1. set_base(null, 0) = [null EXCEPT !.base_low = 0, !.base_high = 0]
      BY <1>1 DEF set_base
    <3> QED
      BY <3>1 DEF create_null_descriptor
  <2>2. set_limit(null, Word - 1) = limited
    BY <1>2, <1>3 DEF set_limit, create_null_descriptor
  <2>3. d = [limited EXCEPT !.read_write = 1, !.exectuable = exectuable,
                            !.descriptor_type = 1, !.privilege = 0,
                            !.present = 1, !.granularity = 1, !.big = 1]
    BY <2>1, <2>2 DEF Segment
  <2> QED
    BY <2>3 DEF create_null_descriptor
<1>5. (Half - 1) + (Nibble - 1) * Half + 1 = Nibble * Half
  BY Widths, NibbleAssumption, SMTT(30)
<1>6. (Nibble * Half) * Page = Word
  <2>1. Half = Nibble * Page
    BY NibbleAssumption DEF Half, Page
  <2> QED
    BY <2>1, Widths, NibbleAssumption, SMTT(30) DEF Word
<1>7. BaseOf(d) = 0
  BY <1>4, Widths DEF BaseOf
<1>8. LastOf(d) = Word - 1
  BY <1>4, <1>5, <1>6 DEF LastOf
<1>9. IsSegment(d, exectuable, 0)
  BY <1>4 DEF IsSegment
<1> QED
  BY <1>7, <1>8, <1>9

LEMMA KernelSegments ==
  /\ Flat(KERNEL_CODE_SELECTOR, 1) /\ Flat(KERNEL_DATA_SELECTOR, 0)
<1>1. Selected(KERNEL_CODE_SELECTOR) = Segment(1, 0)
  BY DEF Selected, KERNEL_CODE_SELECTOR, GDT, create_kernel_code_descriptor
<1>2. Selected(KERNEL_DATA_SELECTOR) = Segment(0, 0)
  BY DEF Selected, KERNEL_DATA_SELECTOR, GDT, create_kernel_data_descriptor
<1> QED
  BY <1>1, <1>2, FlatFields DEF Flat

(***************************************************************************)
(* The gates: a line's vector leads to the stub that pushes its number.    *)
(***************************************************************************)
LEMMA GateReaches ==
  ASSUME NEW s \in Stubs
  PROVE  Reached(Gate(s)) = {s}
<1>1. address[s] \in Nat
  BY AddressAssumption, Widths
<1>2. Usable(Gate(s)) /\ EntryPoint(Gate(s)) = address[s]
  <2>1. BaseOf(Selected(KERNEL_CODE_SELECTOR)) = 0
        /\ IsSegment(Selected(KERNEL_CODE_SELECTOR), 1, 0)
    BY KernelSegments DEF Flat
  <2>2. (address[s] % Half) + (address[s] \div Half) * Half = address[s]
    BY <1>1, Halves, Widths
  <2>3. address[s] % Half \in Int /\ (address[s] \div Half) * Half \in Int
    BY <1>1, Widths, SMTT(30)
  <2>4. 0 + (address[s] % Half) + (address[s] \div Half) * Half = address[s]
    BY <2>2, <2>3
  <2>5. Gate(s) = [offset_lowerbits |-> address[s] % Half,
                   selector |-> KERNEL_CODE_SELECTOR,
                   type |-> "interrupt_32", dpl |-> 0, present |-> 1,
                   offset_higherbits |-> address[s] \div Half]
    BY DEF Gate, set_idt_entry
  <2>6. Usable(Gate(s))
    BY <2>1, <2>5 DEF Usable
  <2>7. EntryPoint(Gate(s)) = address[s]
    BY <2>1, <2>4, <2>5 DEF EntryPoint
  <2> QED
    BY <2>6, <2>7
<1> QED
  BY <1>2, AddressAssumption DEF Reached

LEMMA LineVector ==
  ASSUME NEW i \in Lines
  PROVE  /\ i \in 0..15 /\ Pushed(vector(i)) = i
         /\ vector(i) \notin WithErrorCode
         /\ IDT(vector(i)).type = "interrupt_32"
         /\ IDT(vector(i)).selector = KERNEL_CODE_SELECTOR
<1>1. i \in 0..15
  BY LinesAssumption
<1>2. vector(i) = 32 + i
  BY <1>1 DEF vector, PIC1_OFFSET, PIC2_OFFSET
<1>3. IDT(vector(i)) = Gate(<<"isr", i>>) /\ <<"isr", i>> \in Stubs
  BY <1>1, <1>2 DEF IDT, PIC1_OFFSET, Stubs
<1>4. Reached(IDT(vector(i))) = {<<"isr", i>>}
  BY <1>3, GateReaches
<1>5. Pushed(vector(i)) = i
  <2>1. (CHOOSE s \in {<<"isr", i>>} : TRUE) = <<"isr", i>>
    OBVIOUS
  <2> QED
    BY <1>4, <2>1 DEF Pushed
<1> QED
  BY <1>1, <1>2, <1>3, <1>5 DEF WithErrorCode, Gate, set_idt_entry

(***************************************************************************)
(* The frames: what is pushed is what is popped, and nothing is left.      *)
(***************************************************************************)
LEMMA Rest ==
  ASSUME NEW S, NEW s \in Seq(S), NEW t \in Seq(S), NEW n, n = Len(s) + 1
  PROVE  /\ \A i \in 1..Len(s) : (s \o t)[i] = s[i]
         /\ SubSeq(s \o t, n, Len(s \o t)) = t
<1>1. /\ s \o t \in Seq(S) /\ Len(s \o t) = Len(s) + Len(t)
      /\ \A i \in 1..Len(s) + Len(t) :
            (s \o t)[i] = IF i <= Len(s) THEN s[i] ELSE t[i - Len(s)]
  BY ConcatProperties
<1>2. Len(s) \in Nat /\ Len(t) \in Nat
  OBVIOUS
<1> DEFINE m == Len(s) + Len(t)
           u == SubSeq(s \o t, n, m)
<1>3. /\ u \in Seq(S) /\ Len(u) = Len(t)
      /\ \A i \in 1..Len(t) : u[i] = (s \o t)[n + i - 1]
  <2>1. \A i \in n..m : (s \o t)[i] \in S
    BY <1>1, <1>2
  <2>2. n \in Int /\ m \in Int /\ m - n + 1 = Len(t)
    BY <1>2
  <2> QED
    BY <2>1, <2>2, <1>2, SubSeqProperties
<1>4. \A i \in 1..Len(t) : (s \o t)[n + i - 1] = t[i]
  BY <1>1, <1>2
<1>5. u = t
  BY <1>3, <1>4, SeqEqual
<1> QED
  BY <1>1, <1>2, <1>5

LEMMA SwitchFrameIs ==
  ASSUME NEW S, NEW r \in [Registers -> S], NEW ret \in S
  PROVE  /\ SwitchFrame(r, ret) \in Seq(S) /\ Len(SwitchFrame(r, ret)) = 8
         /\ \A i \in 1..7 : SwitchFrame(r, ret)[i] = r[pops[i]]
         /\ SwitchFrame(r, ret)[8] = ret
<1> DEFINE f == Reverse([i \in 1..7 |-> r[pushes[i]]])
<1>1. \A i \in 1..7 : pushes[i] \in Registers /\ pushes[7 - i + 1] = pops[i]
  BY DEF pushes, pops, Registers
<1>2. /\ f \in Seq(S) /\ Len(f) = 7
      /\ \A i \in 1..7 : f[i] = r[pops[i]]
  BY <1>1 DEF Reverse
<1>3. <<ret>> \in Seq(S) /\ Len(<<ret>>) = 1 /\ <<ret>>[1] = ret
  OBVIOUS
<1> HIDE DEF f
<1>4. /\ f \o <<ret>> \in Seq(S) /\ Len(f \o <<ret>>) = 8
      /\ \A i \in 1..8 :
            (f \o <<ret>>)[i] = IF i <= 7 THEN f[i] ELSE <<ret>>[i - 7]
  <2> DEFINE g == <<ret>>
  <2> HIDE DEF g
  <2>1. /\ f \o g \in Seq(S) /\ Len(f \o g) = Len(f) + Len(g)
        /\ \A i \in 1..Len(f) + Len(g) :
              (f \o g)[i] = IF i <= Len(f) THEN f[i] ELSE g[i - Len(f)]
    BY <1>2, <1>3, ConcatProperties DEF g
  <2>2. Len(f) + Len(g) = 8
    BY <1>2, <1>3 DEF g
  <2> QED
    BY <1>2, <2>1, <2>2 DEF g
<1>5. SwitchFrame(r, ret) = f \o <<ret>>
  BY DEF SwitchFrame, f
<1> QED
  BY <1>2, <1>3, <1>4, <1>5

\* switch_to_task loads what it pushed.
LEMMA SwitchAndLoad ==
  ASSUME NEW S, NEW r \in [Registers -> S], NEW ret \in S, NEW t \in Seq(S)
  PROVE  Loaded(SwitchFrame(r, ret) \o t)
            = [registers |-> r, return |-> ret, stack |-> t]
<1> DEFINE s == SwitchFrame(r, ret)
           u == s \o t
<1>1. /\ s \in Seq(S) /\ Len(s) = 8
      /\ \A i \in 1..7 : s[i] = r[pops[i]]
      /\ s[8] = ret
  BY SwitchFrameIs
<1> HIDE DEF s
<1>2. /\ \A i \in 1..8 : u[i] = s[i]
      /\ SubSeq(u, 9, Len(u)) = t
  <2>1. 9 = Len(s) + 1
    BY <1>1
  <2>2. /\ \A i \in 1..Len(s) : (s \o t)[i] = s[i]
        /\ SubSeq(s \o t, 9, Len(s \o t)) = t
    BY <1>1, <2>1, Rest
  <2> QED
    BY <1>1, <2>2
<1> HIDE DEF u
<1>3. \A q \in Registers : LET i == CHOOSE i \in 1..7 : pops[i] = q
                           IN  i \in 1..7 /\ pops[i] = q
  <2> SUFFICES ASSUME NEW q \in Registers
               PROVE  \E i \in 1..7 : pops[i] = q
    OBVIOUS
  <2> QED
    BY DEF pops, Registers
<1>4. [q \in Registers |-> u[CHOOSE i \in 1..7 : pops[i] = q]] = r
  <2>1. \A q \in Registers :
           u[CHOOSE i \in 1..7 : pops[i] = q] = r[q]
    <3> TAKE q \in Registers
    <3> DEFINE i == CHOOSE i \in 1..7 : pops[i] = q
    <3>1. i \in 1..7 /\ pops[i] = q
      BY <1>3
    <3> HIDE DEF i
    <3>2. u[i] = s[i]
      BY <1>2, <3>1
    <3>3. s[i] = r[pops[i]]
      BY <1>1, <3>1
    <3> QED
      BY <3>1, <3>2, <3>3 DEF i
  <2> QED
    BY <2>1
<1>5. u[8] = ret
  BY <1>1, <1>2
<1>6. Loaded(u) = [registers |-> r, return |-> ret, stack |-> t]
  BY <1>2, <1>4, <1>5 DEF Loaded
<1> QED
  BY <1>6 DEF s, u

\* create_process builds the frame of a switch_to_task that returns to
\* process_starter.
LEMMA NewStackIs ==
  NewStack = SwitchFrame([r \in Registers |-> <<0>>], "process_starter")
BY DEF NewStack, SwitchFrame, Reverse, pushes, Registers

LEMMA NewStackLoads ==
  /\ Loaded(NewStack).return = "process_starter"
  /\ Loaded(NewStack).stack = <<>>
<1> DEFINE S == {<<0>>, "process_starter"}
           r == [q \in Registers |-> <<0>>]
           s == SwitchFrame(r, "process_starter")
<1>1. r \in [Registers -> S] /\ "process_starter" \in S /\ <<>> \in Seq(S)
  OBVIOUS
<1>2. s \in Seq(S)
  BY <1>1, SwitchFrameIs
<1>3. s \o <<>> = s
  BY <1>2, ConcatEmptySeq
<1>4. Loaded(s \o <<>>)
         = [registers |-> r, return |-> "process_starter", stack |-> <<>>]
  BY <1>1, SwitchAndLoad
<1> QED
  BY <1>3, <1>4, NewStackIs

LEMMA LastWord ==
  ASSUME NEW S, NEW s \in Seq(S), NEW e \in S, NEW u \in Seq(S),
         Len(u) = Len(s) + 1, \A i \in 1..Len(s) : u[i] = s[i],
         u[Len(u)] = e
  PROVE  s \o <<e>> = u
<1> DEFINE t == <<e>>
<1>1. t \in Seq(S) /\ Len(t) = 1 /\ t[1] = e
  OBVIOUS
<1> HIDE DEF t
<1>2. /\ s \o t \in Seq(S) /\ Len(s \o t) = Len(s) + Len(t)
      /\ \A i \in 1..Len(s) + Len(t) :
            (s \o t)[i] = IF i <= Len(s) THEN s[i] ELSE t[i - Len(s)]
  BY <1>1, ConcatProperties
<1>3. \A i \in 1..Len(u) : (s \o t)[i] = u[i]
  <2> TAKE i \in 1..Len(u)
  <2>1. CASE i <= Len(s)
    BY <1>1, <1>2, <2>1
  <2>2. CASE i = Len(s) + 1
    BY <1>1, <1>2, <2>2
  <2>3. i <= Len(s) \/ i = Len(s) + 1
    OBVIOUS
  <2> QED
    BY <2>1, <2>2, <2>3
<1>4. s \o t = u
  BY <1>1, <1>2, <1>3, SeqEqual
<1> QED
  BY <1>4 DEF t

\* The stub that a line reaches builds the frame.
LEMMA FrameIs ==
  ASSUME current \in Procs, registers = Own(current), iflag = TRUE,
         cs = KERNEL_CODE_SELECTOR, NEW i \in Lines
  PROVE  Frame(vector(i))
            = Pushes(current, i) \o <<place[current], KERNEL_CODE_SELECTOR, TRUE>>
<1> DEFINE p == current
           a == <<<<p, "edi">>, <<p, "esi">>, <<p, "ebp">>, "esp",
                  <<p, "ebx">>, <<p, "edx">>, <<p, "ecx">>, <<p, "eax">>>>
           S == ({p} \X Registers) \cup {"esp", i}
<1>1. a \in Seq(S) /\ i \in S /\ Pushes(p, i) \in Seq(S)
  BY DEF Pushes, Registers
<1>2. /\ Len(Pushes(p, i)) = Len(a) + 1
      /\ \A j \in 1..Len(a) : Pushes(p, i)[j] = a[j]
      /\ Pushes(p, i)[Len(Pushes(p, i))] = i
  BY DEF Pushes
<1>3. pushad = a
  BY DEF pushad, Own, Registers
<1> HIDE DEF a, S
<1>4. a \o <<i>> = Pushes(p, i)
  BY <1>1, <1>2, LastWord
<1>5. Pushes(p, i) \o <<>> = Pushes(p, i)
  BY <1>1, ConcatEmptySeq
<1> QED
  BY <1>3, <1>4, <1>5, LineVector DEF Frame

\* popad, add esp, 4 and iret find what was pushed, and nothing is left.
LEMMA FramePops ==
  ASSUME NEW p, NEW i, NEW e, NEW c, NEW f
  PROVE  LET s == Pushes(p, i) \o <<e, c, f>>
         IN  /\ irq_id(s) = i /\ popad(s) = Own(p)
             /\ Unwound(s) = <<e, c, f>>
             /\ SubSeq(Unwound(s), 4, Len(Unwound(s))) = <<>>
             /\ eip(s) = e
<1> DEFINE S == ({p} \X Registers) \cup {"esp", i, e, c, f}
           h == Pushes(p, i)
           t == <<e, c, f>>
           s == h \o t
<1>1. /\ h \in Seq(S) /\ t \in Seq(S) /\ Len(h) = 9
      /\ Len(t) = 3 /\ t[1] = e
  BY DEF Pushes, Registers
<1>2. /\ h[9] = i
      /\ \A r \in Registers, j \in 1..8 : popped[j] = r => h[j] = <<p, r>>
  BY DEF Pushes, Registers, popped
<1> HIDE DEF S, h, t
<1>3. /\ \A j \in 1..9 : s[j] = h[j]
      /\ SubSeq(s, 10, Len(s)) = t
  <2>1. 10 = Len(h) + 1
    BY <1>1
  <2>2. /\ \A j \in 1..Len(h) : (h \o t)[j] = h[j]
        /\ SubSeq(h \o t, 10, Len(h \o t)) = t
    BY <1>1, <2>1, Rest
  <2> QED
    BY <1>1, <2>2
<1>4. s[10] = e
  <2>1. s[10] = IF 10 <= Len(h) THEN h[10] ELSE t[10 - Len(h)]
    <3>1. 10 \in 1..Len(h) + Len(t)
      BY <1>1
    <3> QED
      BY <1>1, <3>1, ConcatProperties
  <2> QED
    BY <1>1, <2>1
<1>5. SubSeq(t, 4, Len(t)) = <<>>
  BY <1>1, SubSeqEmpty
<1> HIDE DEF s
<1>6. \A r \in Registers : s[CHOOSE j \in 1..8 : popped[j] = r] = <<p, r>>
  <2> TAKE r \in Registers
  <2> DEFINE j == CHOOSE j \in 1..8 : popped[j] = r
  <2>1. \E k \in 1..8 : popped[k] = r
    BY DEF Registers, popped
  <2>2. j \in 1..8 /\ popped[j] = r
    BY <2>1
  <2> HIDE DEF j
  <2>3. s[j] = h[j]
    BY <1>3, <2>2
  <2>4. h[j] = <<p, r>>
    BY <1>2, <2>2
  <2> QED
    BY <2>3, <2>4 DEF j
<1>7. popad(s) = Own(p)
  BY <1>6 DEF popad, Own
<1>8. irq_id(s) = i /\ Unwound(s) = t /\ eip(s) = e
  BY <1>2, <1>3, <1>4 DEF irq_id, Unwound, eip
<1> QED
  BY <1>5, <1>7, <1>8 DEF s, h, t

LEMMA PairIn ==
  ASSUME NEW S, NEW a \in S, NEW b \in S
  PROVE  <<a, b>> \in Seq(S)
OBVIOUS

LEMMA TripleIn ==
  ASSUME NEW S, NEW a \in S, NEW b \in S, NEW c \in S
  PROVE  <<a, b, c>> \in Seq(S)
OBVIOUS

LEMMA PushesIn ==
  ASSUME NEW S, NEW p, NEW i \in S, {p} \X Registers \subseteq S, "esp" \in S
  PROVE  Pushes(p, i) \in Seq(S)
<1>1. \A r \in Registers : <<p, r>> \in S
  OBVIOUS
<1> QED
  BY <1>1 DEF Pushes, Registers

LEMMA GaveUpLoads ==
  ASSUME NEW p
  PROVE  Loaded(GaveUp(p)) = [registers |-> Own(p), return |-> "reschedule",
                              stack |-> <<TRUE, "code">>]
<1> DEFINE S == ({p} \X Registers) \cup {"reschedule", TRUE, "code"}
           t == <<TRUE, "code">>
<1>1. Own(p) \in [Registers -> S] /\ "reschedule" \in S /\ "code" \in S
  BY DEF Own
<1>3. TRUE \in S
  OBVIOUS
<1> HIDE DEF S
<1>4. t \in Seq(S)
  BY <1>1, <1>3, PairIn
<1>2. Loaded(SwitchFrame(Own(p), "reschedule") \o t)
         = [registers |-> Own(p), return |-> "reschedule", stack |-> t]
  BY <1>1, <1>4, SwitchAndLoad
<1> QED
  BY <1>2 DEF GaveUp, RescheduleFrame

LEMMA WasPreemptedLoads ==
  ASSUME NEW p
  PROVE  LET t == <<FALSE, "return">> \o Interrupted(p)
         IN  /\ Loaded(WasPreempted(p))
                   = [registers |-> Used, return |-> "reschedule", stack |-> t]
             /\ t[1] = FALSE /\ t[2] = "return"
             /\ SubSeq(t, 3, Len(t)) = Interrupted(p)
<1> DEFINE S == ({p} \X Registers) \cup
                {"esp", "reschedule", "return", line[p], place[p],
                 KERNEL_CODE_SELECTOR, <<"used">>, TRUE, FALSE}
           f == <<FALSE, "return">>
           i == Interrupted(p)
           t == f \o i
<1>0. /\ {p} \X Registers \subseteq S /\ "esp" \in S /\ "reschedule" \in S
      /\ "return" \in S /\ line[p] \in S /\ place[p] \in S
      /\ KERNEL_CODE_SELECTOR \in S /\ <<"used">> \in S
  OBVIOUS
<1>b. TRUE \in S /\ FALSE \in S
  OBVIOUS
<1> HIDE DEF S
<1>1. f \in Seq(S) /\ Used \in [Registers -> S]
  BY <1>0, <1>b, PairIn DEF Used
<1>2. i \in Seq(S)
  <2>1. Pushes(p, line[p]) \in Seq(S)
    BY <1>0, PushesIn
  <2>2. <<place[p], KERNEL_CODE_SELECTOR, TRUE>> \in Seq(S)
    BY <1>0, <1>b, TripleIn
  <2> QED
    BY <2>1, <2>2, ConcatProperties DEF Interrupted
<1>3. Len(f) = 2 /\ f[1] = FALSE /\ f[2] = "return"
  OBVIOUS
<1> HIDE DEF f, i
<1>4. t \in Seq(S)
  BY <1>1, <1>2, ConcatProperties
<1>5. /\ \A j \in 1..Len(f) : (f \o i)[j] = f[j]
      /\ SubSeq(f \o i, 3, Len(f \o i)) = i
  <2>1. 3 = Len(f) + 1
    BY <1>3
  <2> QED
    BY <1>1, <1>2, <2>1, Rest
<1>6. Loaded(SwitchFrame(Used, "reschedule") \o t)
         = [registers |-> Used, return |-> "reschedule", stack |-> t]
  <2> HIDE DEF t
  <2> QED
    BY <1>0, <1>1, <1>4, SwitchAndLoad
<1> QED
  BY <1>3, <1>5, <1>6 DEF WasPreempted, RescheduleFrame, f, i

\* The frames that a call of reschedule leaves.
LEMMA Leaves ==
  ASSUME NEW p
  PROVE  /\ SwitchFrame(Own(p), "reschedule") \o RescheduleFrame(TRUE, "code")
               \o <<>> = GaveUp(p)
         /\ SwitchFrame(Used, "reschedule") \o RescheduleFrame(FALSE, "return")
               \o Interrupted(p) = WasPreempted(p)
<1> DEFINE S == ({p} \X Registers) \cup
                {"esp", "reschedule", "return", "code", line[p], place[p],
                 KERNEL_CODE_SELECTOR, <<"used">>, TRUE, FALSE}
<1>0. /\ {p} \X Registers \subseteq S /\ "esp" \in S /\ "reschedule" \in S
      /\ "return" \in S /\ "code" \in S /\ line[p] \in S /\ place[p] \in S
      /\ KERNEL_CODE_SELECTOR \in S /\ <<"used">> \in S
  OBVIOUS
<1>b. TRUE \in S /\ FALSE \in S
  OBVIOUS
<1>4. Own(p) \in [Registers -> S] /\ Used \in [Registers -> S]
  BY DEF Own, Used
<1> HIDE DEF S
<1>1. /\ RescheduleFrame(TRUE, "code") \in Seq(S)
      /\ RescheduleFrame(FALSE, "return") \in Seq(S)
  BY <1>0, <1>b, PairIn DEF RescheduleFrame
<1>2. Pushes(p, line[p]) \in Seq(S)
  BY <1>0, PushesIn
<1>3. <<place[p], KERNEL_CODE_SELECTOR, TRUE>> \in Seq(S)
  BY <1>0, <1>b, TripleIn
<1>5. Interrupted(p) \in Seq(S)
  BY <1>2, <1>3, ConcatProperties DEF Interrupted
<1>6. /\ SwitchFrame(Own(p), "reschedule") \in Seq(S)
      /\ SwitchFrame(Used, "reschedule") \in Seq(S)
  BY <1>0, <1>4, SwitchFrameIs
<1>7. GaveUp(p) \in Seq(S)
  BY <1>1, <1>6, ConcatProperties DEF GaveUp
<1>8. GaveUp(p) \o <<>> = GaveUp(p)
  BY <1>7, ConcatEmptySeq
<1>9. (SwitchFrame(Used, "reschedule") \o RescheduleFrame(FALSE, "return"))
         \o Interrupted(p) = WasPreempted(p)
  <2> DEFINE f == SwitchFrame(Used, "reschedule")
             r == RescheduleFrame(FALSE, "return")
             i == Interrupted(p)
  <2> HIDE DEF f, r, i
  <2>0. f \in Seq(S) /\ r \in Seq(S) /\ i \in Seq(S)
    BY <1>1, <1>5, <1>6 DEF f, r, i
  <2>1. (f \o r) \o i = f \o (r \o i)
    BY <2>0, ConcatAssociative
  <2> QED
    BY <2>1 DEF WasPreempted, f, r, i
<1> QED
  BY <1>8, <1>9 DEF GaveUp

-----------------------------------------------------------------------------
(***************************************************************************)
(* A process goes on.                                                      *)
(***************************************************************************)

\* No process of these is on the CPU.
Waiting(stacks, points) ==
    /\ points \in [Procs -> {"none", "new", "away"}]
    /\ stacks = [p \in Procs |-> stacks[p]]
    /\ \A p \in Procs :
          /\ points[p] = "new" => stacks[p] = NewStack
          /\ points[p] = "away" => stacks[p] \in {GaveUp(p), WasPreempted(p)}

LEMMA GoesOnCases ==
  ASSUME NEW stacks, NEW points, NEW p \in Procs, Waiting(stacks, points),
         points[p] \in {"new", "away"}, GoesOn(p, stacks, points)
  PROVE  /\ current' = p
         /\ UNCHANGED <<irr, isr1, isr2, cs, ds, place, line>>
         /\ \/ /\ at' = [points EXCEPT ![p] = "starter"]
               /\ stack' = [stacks EXCEPT ![p] = <<>>]
               /\ iflag' = FALSE
            \/ /\ at' = [points EXCEPT ![p] = "code"]
               /\ stack' = [stacks EXCEPT ![p] = <<>>]
               /\ iflag' = TRUE /\ registers' = Own(p)
            \/ /\ at' = [points EXCEPT ![p] = "return"]
               /\ stack' = [stacks EXCEPT ![p] = Interrupted(p)]
               /\ iflag' = FALSE
<1>1. /\ current' = p
      /\ UNCHANGED <<irr, isr1, isr2, cs, ds, place, line>>
  BY DEF GoesOn, pic_vars, segment_vars
<1>2. stacks[p] \in {NewStack, GaveUp(p), WasPreempted(p)}
  BY DEF Waiting
<1>3. CASE stacks[p] = NewStack
  <2>1. /\ at' = [points EXCEPT ![p] = "starter"]
        /\ stack' = [stacks EXCEPT ![p] = <<>>]
        /\ iflag' = FALSE
    BY <1>3, NewStackLoads DEF GoesOn
  <2> QED
    BY <1>1, <2>1
<1>4. CASE stacks[p] = GaveUp(p)
  <2> DEFINE t == <<TRUE, "code">>
  <2>1. t[1] = TRUE /\ t[2] = "code" /\ SubSeq(t, 3, Len(t)) = <<>>
    OBVIOUS
  <2> HIDE DEF t
  <2>2. Loaded(stacks[p]) = [registers |-> Own(p), return |-> "reschedule",
                             stack |-> t]
    BY <1>4, GaveUpLoads DEF t
  <2>3. /\ Loaded(stacks[p]).return # "process_starter"
        /\ Loaded(stacks[p]).stack = t
        /\ Loaded(stacks[p]).registers = Own(p)
    BY <2>2
  <2>4. iflag' = (Loaded(stacks[p]).return # "process_starter"
                    /\ Loaded(stacks[p]).stack[1])
    BY DEF GoesOn
  <2>5. iflag' = TRUE
    BY <2>1, <2>3, <2>4, Zenon
  <2>6. /\ at' = [points EXCEPT ![p] = "code"]
        /\ stack' = [stacks EXCEPT ![p] = <<>>]
        /\ registers' = Own(p)
    <3>1. /\ at' = [points EXCEPT ![p] = IF Loaded(stacks[p]).return = "process_starter"
                                          THEN "starter" ELSE Loaded(stacks[p]).stack[2]]
          /\ stack' = [stacks EXCEPT ![p] =
                          IF Loaded(stacks[p]).return = "process_starter"
                          THEN Loaded(stacks[p]).stack
                          ELSE SubSeq(Loaded(stacks[p]).stack, 3,
                                      Len(Loaded(stacks[p]).stack))]
          /\ registers' = Loaded(stacks[p]).registers
      BY DEF GoesOn
    <3> QED
      BY <2>1, <2>3, <3>1
  <2> QED
    BY <1>1, <2>5, <2>6
<1>5. CASE stacks[p] = WasPreempted(p)
  <2> DEFINE t == <<FALSE, "return">> \o Interrupted(p)
  <2>1. /\ Loaded(stacks[p])
              = [registers |-> Used, return |-> "reschedule", stack |-> t]
        /\ t[1] = FALSE /\ t[2] = "return"
        /\ SubSeq(t, 3, Len(t)) = Interrupted(p)
    BY <1>5, WasPreemptedLoads
  <2> HIDE DEF t
  <2>2. Loaded(stacks[p]).return # "process_starter"
        /\ Loaded(stacks[p]).stack = t
    BY <2>1
  <2>3. iflag' = (Loaded(stacks[p]).return # "process_starter"
                    /\ Loaded(stacks[p]).stack[1])
    BY DEF GoesOn
  <2>4. iflag' = FALSE
    BY <2>1, <2>2, <2>3, Zenon
  <2>5. /\ at' = [points EXCEPT ![p] = "return"]
        /\ stack' = [stacks EXCEPT ![p] = Interrupted(p)]
    <3>1. /\ at' = [points EXCEPT ![p] = IF Loaded(stacks[p]).return = "process_starter"
                                          THEN "starter" ELSE Loaded(stacks[p]).stack[2]]
          /\ stack' = [stacks EXCEPT ![p] =
                          IF Loaded(stacks[p]).return = "process_starter"
                          THEN Loaded(stacks[p]).stack
                          ELSE SubSeq(Loaded(stacks[p]).stack, 3,
                                      Len(Loaded(stacks[p]).stack))]
          /\ registers' = Loaded(stacks[p]).registers
      BY DEF GoesOn
    <3> QED
      BY <2>1, <2>2, <3>1
  <2> QED
    BY <1>1, <2>4, <2>5
<1> QED
  BY <1>2, <1>3, <1>4, <1>5

LEMMA Resumes ==
  ASSUME NEW stacks, NEW points, NEW p \in Procs, Waiting(stacks, points),
         points[p] \in {"new", "away"}, GoesOn(p, stacks, points),
         place \in [Procs -> Places], line \in [Procs -> Lines],
         isr1 = {}, isr2 = {}, Segments
  PROVE  IInv'
<1>1. /\ current' = p
      /\ UNCHANGED <<irr, isr1, isr2, cs, ds, place, line>>
      /\ \/ /\ at' = [points EXCEPT ![p] = "starter"]
            /\ stack' = [stacks EXCEPT ![p] = <<>>]
            /\ iflag' = FALSE
         \/ /\ at' = [points EXCEPT ![p] = "code"]
            /\ stack' = [stacks EXCEPT ![p] = <<>>]
            /\ iflag' = TRUE /\ registers' = Own(p)
         \/ /\ at' = [points EXCEPT ![p] = "return"]
            /\ stack' = [stacks EXCEPT ![p] = Interrupted(p)]
            /\ iflag' = FALSE
  BY GoesOnCases
<1>2. \A q \in Procs : /\ Interrupted(q)' = Interrupted(q)
                       /\ GaveUp(q)' = GaveUp(q)
                       /\ WasPreempted(q)' = WasPreempted(q)
  BY <1>1 DEF Interrupted, GaveUp, WasPreempted
<1>3. p # nobody
  BY ProcsAssumption
<1>4. /\ at' \in [Procs -> Everywhere] /\ at'[p] \in {"starter", "code", "return"}
      /\ \A q \in Procs : q # p => at'[q] = points[q] /\ stack'[q] = stacks[q]
      /\ stack' = [q \in Procs |-> stack'[q]]
      /\ \A q \in Procs : points[q] \in {"none", "new", "away"}
  BY <1>1 DEF Waiting, Everywhere, Handler
<1>5. TypeOK'
  BY <1>1, <1>4 DEF TypeOK
<1>6. OneRuns'
  BY <1>1, <1>4 DEF OneRuns
<1>7. Masked' /\ RegistersAre' /\ Service' /\ Segments'
  BY <1>1, <1>3, <1>4 DEF Masked, RegistersAre, Service, Segments, Runs, Waiting
<1>8. Stacks'
  <2> SUFFICES ASSUME NEW q \in Procs PROVE StackIs(q)'
    BY DEF Stacks
  <2>1. CASE q # p
    BY <1>2, <1>4, <2>1 DEF StackIs, Waiting, Handler
  <2>2. CASE q = p
    BY <1>1, <1>2, <1>4, <2>2 DEF StackIs, Waiting, Handler
  <2> QED
    BY <2>1, <2>2
<1> QED
  BY <1>5, <1>6, <1>7, <1>8 DEF IInv

-----------------------------------------------------------------------------
(***************************************************************************)
(* The steps.                                                              *)
(***************************************************************************)
LEMMA Starts == Init => IInv
<1> SUFFICES ASSUME Init PROVE IInv
  OBVIOUS
<1> USE DEF Init
<1>1. TypeOK
  BY LinesAssumption DEF TypeOK, Everywhere, Handler
<1>2. OneRuns
  BY ProcsAssumption DEF OneRuns
<1>3. Masked /\ RegistersAre /\ Service /\ Segments
  BY DEF Masked, RegistersAre, Service, Segments, Runs
<1>4. Stacks
  BY DEF Stacks, StackIs, Handler
<1> QED
  BY <1>1, <1>2, <1>3, <1>4 DEF IInv

\* What a switch goes on from: the stacks and places of the processes once the
\* current one is put away.
SwitchesFrom(p, stacks, points) ==
    /\ Waiting(stacks, points) /\ GoesOn(p, stacks, points)
    /\ points[p] \in {"new", "away"}
    /\ \A q \in Procs : points[q] \in {at[q], "away"}
    /\ ~Runs("entered") /\ ~Runs("return")

LEMMA Switched ==
  ASSUME IInv, NEW p \in Procs,
         \/ Load(p) \/ Preempt(p) \/ Yield(p)
  PROVE  \E stacks, points : SwitchesFrom(p, stacks, points)
<1>0. /\ at \in [Procs -> Everywhere] /\ stack = [q \in Procs |-> stack[q]]
      /\ \A q \in Procs : q # current => at[q] \in {"none", "new", "away"}
      /\ \A q \in Procs : StackIs(q)
  BY DEF IInv, TypeOK, OneRuns, Stacks
<1>1. CASE Load(p)
  <2>1. current = nobody /\ at[p] \in {"new", "away"} /\ GoesOn(p, stack, at)
    BY <1>1 DEF Load, CanRun
  <2>2. Waiting(stack, at)
    BY <1>0, <2>1, ProcsAssumption DEF Waiting, StackIs
  <2>3. SwitchesFrom(p, stack, at)
    BY <2>1, <2>2 DEF SwitchesFrom, Runs
  <2> QED
    BY <2>3
<1>2. ASSUME NEW w, NEW c, SwitchTo(p, w, c), current \in Procs,
             ~Runs("entered"), ~Runs("return"),
             SwitchFrame(registers, "reschedule") \o RescheduleFrame(w, c)
                \o stack[current] \in {GaveUp(current), WasPreempted(current)}
      PROVE  \E stacks, points : SwitchesFrom(p, stacks, points)
  <2> DEFINE stacks == [stack EXCEPT ![current] =
                           SwitchFrame(registers, "reschedule")
                           \o RescheduleFrame(w, c) \o @]
             points == [at EXCEPT ![current] = "away"]
  <2>1. p # current /\ at[p] \in {"new", "away"} /\ GoesOn(p, stacks, points)
    BY <1>2 DEF SwitchTo, CanRun
  <2>2. Waiting(stacks, points)
    BY <1>0, <1>2 DEF Waiting, StackIs
  <2>3. points[p] \in {"new", "away"} /\ \A q \in Procs : points[q] \in {at[q], "away"}
    BY <1>0, <2>1
  <2> HIDE DEF stacks, points
  <2>4. SwitchesFrom(p, stacks, points)
    BY <1>2, <2>1, <2>2, <2>3 DEF SwitchesFrom
  <2> QED
    BY <2>4
<1>3. CASE Preempt(p)
  <2>1. current \in Procs /\ at[current] = "callback" /\ SwitchTo(p, FALSE, "return")
        /\ ~Runs("entered") /\ ~Runs("return")
    BY <1>3 DEF Preempt, Runs, IInv, TypeOK
  <2>2. stack[current] = Interrupted(current) /\ registers = Used
    BY <1>0, <2>1, ProcsAssumption
    DEF IInv, RegistersAre, Runs, StackIs, Handler
  <2>3. SwitchFrame(registers, "reschedule") \o RescheduleFrame(FALSE, "return")
           \o stack[current] = WasPreempted(current)
    BY <2>2, Leaves
  <2> QED
    BY <1>2, <2>1, <2>3
<1>4. CASE Yield(p)
  <2>1. current \in Procs /\ at[current] = "code" /\ SwitchTo(p, TRUE, "code")
        /\ ~Runs("entered") /\ ~Runs("return")
    BY <1>4 DEF Yield, Runs, IInv, TypeOK
  <2>2. stack[current] = <<>> /\ registers = Own(current)
    BY <1>0, <2>1, ProcsAssumption
    DEF IInv, RegistersAre, Runs, StackIs, Handler
  <2>3. SwitchFrame(registers, "reschedule") \o RescheduleFrame(TRUE, "code")
           \o stack[current] = GaveUp(current)
    BY <2>2, Leaves
  <2> QED
    BY <1>2, <2>1, <2>3
<1> QED
  BY <1>1, <1>3, <1>4

LEMMA Switches ==
  ASSUME IInv, NEW p \in Procs,
         \/ Load(p) \/ Preempt(p) \/ Yield(p)
  PROVE  IInv'
<1>1. PICK stacks, points : SwitchesFrom(p, stacks, points)
  BY Switched
<1>2. /\ place \in [Procs -> Places] /\ line \in [Procs -> Lines] /\ Segments
      /\ isr1 = {} /\ isr2 = {}
  BY <1>1 DEF IInv, TypeOK, Service, SwitchesFrom
<1> QED
  BY <1>1, <1>2, Resumes DEF SwitchesFrom

LEMMA Enters ==
  ASSUME IInv, NEW i \in Lines, Interrupt(i) \/ Spurious(i)
  PROVE  IInv'
<1> USE DEF IInv
<1>0. Enter(i) /\ iflag /\ Runs("code") /\ current \in Procs
      /\ at[current] = "code" /\ iflag = TRUE
  BY ProcsAssumption DEF Interrupt, Spurious, Enter, Masked, Runs, TypeOK
<1>1. /\ iflag' = FALSE /\ cs' = KERNEL_CODE_SELECTOR /\ ds' = ds
      /\ current' = current /\ place' = place
      /\ stack' = [stack EXCEPT ![current] = Frame(vector(i)) \o @]
      /\ at' = [at EXCEPT ![current] = "entered"]
      /\ line' = [line EXCEPT ![current] = i]
  BY <1>0, LineVector DEF Enter
<1>2. stack[current] = <<>> /\ registers = Own(current) /\ cs = KERNEL_CODE_SELECTOR
  BY <1>0 DEF Stacks, StackIs, RegistersAre, Segments
<1>3. Frame(vector(i)) \o stack[current] = Interrupted(current)'
  <2> DEFINE S == ({current} \X Registers) \cup
                    {"esp", i, place[current], KERNEL_CODE_SELECTOR, TRUE}
             t == <<place[current], KERNEL_CODE_SELECTOR, TRUE>>
  <2>1. /\ {current} \X Registers \subseteq S /\ "esp" \in S /\ i \in S
        /\ place[current] \in S /\ KERNEL_CODE_SELECTOR \in S
    OBVIOUS
  <2>2. TRUE \in S
    OBVIOUS
  <2>3. line'[current] = i
    BY <1>0, <1>1 DEF TypeOK
  <2> HIDE DEF S
  <2>4. Pushes(current, i) \in Seq(S) /\ t \in Seq(S)
    BY <2>1, <2>2, PushesIn, TripleIn
  <2>5. Frame(vector(i)) = Pushes(current, i) \o t
    BY <1>0, <1>2, FrameIs
  <2>6. Frame(vector(i)) \in Seq(S)
    BY <2>4, <2>5, ConcatProperties
  <2>7. Frame(vector(i)) \o <<>> = Frame(vector(i))
    BY <2>6, ConcatEmptySeq
  <2>8. Interrupted(current)' = Pushes(current, i) \o t
    BY <1>1, <2>3 DEF Interrupted, Pushes
  <2> QED
    BY <1>2, <2>5, <2>7, <2>8
<1>4. /\ at'[current] = "entered" /\ stack'[current] = Interrupted(current)'
      /\ \A q \in Procs : q # current => at'[q] = at[q] /\ stack'[q] = stack[q]
      /\ at' \in [Procs -> Everywhere] /\ stack' = [q \in Procs |-> stack'[q]]
  BY <1>0, <1>1, <1>3 DEF TypeOK, Everywhere, Handler
<1>5. \A q \in Procs : q # current =>
         /\ Interrupted(q)' = Interrupted(q) /\ GaveUp(q)' = GaveUp(q)
         /\ WasPreempted(q)' = WasPreempted(q)
  BY <1>1 DEF Interrupted, GaveUp, WasPreempted, Pushes, TypeOK
<1>6. TypeOK'
  BY <1>0, <1>1, <1>4 DEF TypeOK
<1>7. OneRuns'
  BY <1>0, <1>1, <1>4 DEF OneRuns
<1>8. Masked' /\ RegistersAre' /\ Segments'
  BY <1>0, <1>1, <1>4 DEF Masked, RegistersAre, Segments, Runs
<1>9. Service'
  <2>1. isr1 = {} /\ isr2 = {} /\ line'[current] = i /\ i \in 0..15
    BY <1>0, <1>1, LinesAssumption DEF Service, Runs, TypeOK
  <2>2. CASE Interrupt(i)
    BY <1>0, <1>1, <1>4, <2>1, <2>2 DEF Interrupt, Service, Runs, Input
  <2>3. CASE Spurious(i)
    BY <1>0, <1>1, <1>4, <2>1, <2>3 DEF Spurious, Service, Runs, Input
  <2> QED
    BY <2>2, <2>3
<1>10. Stacks'
  <2> SUFFICES ASSUME NEW q \in Procs PROVE StackIs(q)'
    BY DEF Stacks
  <2>1. StackIs(q)
    BY DEF Stacks
  <2>2. CASE q # current
    BY <1>4, <1>5, <2>1, <2>2 DEF StackIs, Handler
  <2>3. CASE q = current
    BY <1>1, <1>4, <2>3 DEF StackIs, Handler, Interrupted
  <2> QED
    BY <2>2, <2>3
<1> QED
  BY <1>6, <1>7, <1>8, <1>9, <1>10

\* The steps of a process that leave lines, places and the segments alone.
LEMMA Stays ==
  ASSUME IInv, NEW where \in Everywhere \ {"none", "new", "away"},
         current \in Procs, current' = current,
         at' = [at EXCEPT ![current] = where],
         stack' = [stack EXCEPT ![current] = stack'[current]],
         UNCHANGED <<line, cs, ds>>, place' \in [Procs -> Places],
         \A q \in Procs : q # current => place'[q] = place[q],
         iflag' \in BOOLEAN, Masked', RegistersAre', Service',
         StackIs(current)'
  PROVE  IInv'
<1> USE DEF IInv
<1>1. /\ at'[current] = where
      /\ \A q \in Procs : q # current => at'[q] = at[q] /\ stack'[q] = stack[q]
      /\ at' \in [Procs -> Everywhere] /\ stack' = [q \in Procs |-> stack'[q]]
  BY DEF TypeOK
<1>2. \A q \in Procs : q # current =>
         /\ Interrupted(q)' = Interrupted(q) /\ GaveUp(q)' = GaveUp(q)
         /\ WasPreempted(q)' = WasPreempted(q)
  BY DEF Interrupted, GaveUp, WasPreempted, Pushes, TypeOK
<1>3. TypeOK'
  BY <1>1 DEF TypeOK
<1>4. OneRuns'
  BY <1>1 DEF OneRuns
<1>5. Segments'
  BY DEF Segments
<1>6. Stacks'
  <2> SUFFICES ASSUME NEW q \in Procs PROVE StackIs(q)'
    BY DEF Stacks
  <2>1. StackIs(q)
    BY DEF Stacks
  <2>2. CASE q # current
    BY <1>1, <1>2, <2>1, <2>2 DEF StackIs, Handler
  <2>3. CASE q = current
    BY <2>3
  <2> QED
    BY <2>2, <2>3
<1> QED
  BY <1>3, <1>4, <1>5, <1>6

LEMMA AcknowledgeStep == ASSUME IInv, Acknowledge PROVE IInv'
<1> USE DEF IInv
<1>1. /\ current \in Procs /\ at[current] = "entered" /\ iflag = FALSE
      /\ stack[current] = Interrupted(current) /\ line[current] \in 0..15
  BY LinesAssumption
  DEF Acknowledge, Runs, TypeOK, Masked, Stacks, StackIs, Handler
<1>2. irq_id(stack[current]) = line[current]
  BY <1>1, FramePops DEF Interrupted
<1>3. isr1' = {} /\ isr2' = {}
  <2>1. /\ isr1 \subseteq {Input(line[current])}
        /\ isr2 \subseteq {line[current]}
        /\ line[current] < 8 => isr2 = {}
    BY DEF Acknowledge, Service
  <2>2. Input(line[current]) \in Int
    BY <1>1 DEF Input
  <2>3. isr1' = EndOf(isr1)
        /\ isr2' = IF line[current] >= 8 THEN EndOf(isr2) ELSE isr2
    BY <1>2 DEF Acknowledge
  <2>4. EndOf(isr1) = {} /\ EndOf(isr2) = {}
    BY <1>1, <2>1, <2>2 DEF EndOf
  <2> QED
    BY <1>1, <2>1, <2>3, <2>4
<1>4. /\ current' = current /\ at' = [at EXCEPT ![current] = "callback"]
      /\ registers' = Used
      /\ UNCHANGED <<iflag, place, stack, line, cs, ds>>
  BY DEF Acknowledge, segment_vars
<1>5. at'[current] = "callback"
  BY <1>1, <1>4 DEF TypeOK
<1>6. Masked' /\ RegistersAre' /\ Service'
  BY <1>1, <1>3, <1>4, <1>5 DEF Masked, RegistersAre, Service, Runs
<1>7. StackIs(current)'
  BY <1>1, <1>4, <1>5 DEF StackIs, Handler, Interrupted
<1>8. stack' = [stack EXCEPT ![current] = stack'[current]]
  BY <1>4 DEF TypeOK
<1> QED
  BY <1>1, <1>4, <1>6, <1>7, <1>8, Stays DEF TypeOK, Everywhere, Handler

LEMMA CallbackStep == ASSUME IInv, Callback PROVE IInv'
<1> USE DEF IInv
<1>1. /\ current \in Procs /\ at[current] = "callback" /\ iflag = FALSE
      /\ stack[current] = Interrupted(current) /\ isr1 = {} /\ isr2 = {}
  BY DEF Callback, Runs, TypeOK, Masked, Stacks, StackIs, Handler, Service
<1>2. /\ current' = current /\ at' = [at EXCEPT ![current] = "return"]
      /\ UNCHANGED <<isr1, isr2, iflag, registers, place, stack, line, cs, ds>>
  BY DEF Callback, segment_vars, pic_vars
<1>3. at'[current] = "return"
  BY <1>1, <1>2 DEF TypeOK
<1>4. Masked' /\ RegistersAre' /\ Service'
  BY <1>1, <1>2, <1>3 DEF Masked, RegistersAre, Service, Runs
<1>5. StackIs(current)'
  BY <1>1, <1>2, <1>3 DEF StackIs, Handler, Interrupted
<1>6. stack' = [stack EXCEPT ![current] = stack'[current]]
  BY <1>2 DEF TypeOK
<1> QED
  BY <1>1, <1>2, <1>4, <1>5, <1>6, Stays DEF TypeOK, Everywhere, Handler

\* What iret leaves.
LEMMA Returned ==
  ASSUME IInv, Return
  PROVE  /\ current \in Procs /\ at[current] = "return"
         /\ current' = current /\ at' = [at EXCEPT ![current] = "code"]
         /\ stack' = [stack EXCEPT ![current] = <<>>]
         /\ registers' = Own(current) /\ iflag' = TRUE
         /\ place' = place /\ place'[current] = eip(stack[current])
         /\ UNCHANGED <<isr1, isr2, line, cs, ds>>
<1> USE DEF IInv
<1>1. /\ current \in Procs /\ at[current] = "return"
      /\ stack[current] = Interrupted(current)
      /\ cs = KERNEL_CODE_SELECTOR
  BY DEF Return, Runs, TypeOK, Stacks, StackIs, Handler, Segments
<1> DEFINE s == stack[current]
           f == <<place[current], KERNEL_CODE_SELECTOR, TRUE>>
<1>2. /\ popad(s) = Own(current) /\ Unwound(s) = f
      /\ SubSeq(Unwound(s), 4, Len(Unwound(s))) = <<>>
      /\ eip(s) = place[current]
  <2> DEFINE t == Pushes(current, line[current]) \o f
  <2>1. s = t
    BY <1>1 DEF Interrupted
  <2>2. \A g : LET u == Pushes(current, line[current])
                           \o <<place[current], KERNEL_CODE_SELECTOR, g>>
               IN  /\ popad(u) = Own(current)
                   /\ Unwound(u) = <<place[current], KERNEL_CODE_SELECTOR, g>>
                   /\ SubSeq(Unwound(u), 4, Len(Unwound(u))) = <<>>
                   /\ eip(u) = place[current]
    BY FramePops
  <2>3. /\ popad(t) = Own(current) /\ Unwound(t) = f
        /\ SubSeq(Unwound(t), 4, Len(Unwound(t))) = <<>>
        /\ eip(t) = place[current]
    BY <2>2, Zenon
  <2> HIDE DEF t, f
  <2> QED
    BY <2>1, <2>3
<1>3. f[1] = place[current] /\ f[2] = KERNEL_CODE_SELECTOR /\ f[3] = TRUE
  OBVIOUS
<1> HIDE DEF f
<1>4. /\ place' = [place EXCEPT ![current] = Unwound(s)[1]]
      /\ cs' = Unwound(s)[2] /\ iflag' = Unwound(s)[3]
      /\ registers' = popad(s)
      /\ stack' = [stack EXCEPT ![current] = SubSeq(Unwound(s), 4, Len(Unwound(s)))]
      /\ at' = [at EXCEPT ![current] = "code"]
      /\ UNCHANGED <<isr1, isr2, current, line, ds>>
  BY DEF Return, pic_vars
<1> HIDE DEF s
<1>5. iflag' = TRUE
  BY <1>2, <1>3, <1>4, Zenon
<1>6. cs' = KERNEL_CODE_SELECTOR
  BY <1>2, <1>3, <1>4
<1>7. place' = [place EXCEPT ![current] = place[current]]
  BY <1>2, <1>3, <1>4
<1>8. place' = place /\ place'[current] = place[current]
  BY <1>1, <1>7 DEF TypeOK
<1> QED
  BY <1>1, <1>2, <1>4, <1>5, <1>6, <1>8 DEF s

LEMMA ReturnStep == ASSUME IInv, Return PROVE IInv'
<1>1. /\ current \in Procs /\ at[current] = "return"
      /\ current' = current /\ at' = [at EXCEPT ![current] = "code"]
      /\ stack' = [stack EXCEPT ![current] = <<>>]
      /\ registers' = Own(current) /\ iflag' = TRUE /\ place' = place
      /\ UNCHANGED <<isr1, isr2, line, cs, ds>>
  BY Returned
<1>2. isr1 = {} /\ isr2 = {} /\ current # nobody
  BY <1>1, ProcsAssumption DEF IInv, Service, Runs
<1>3. at'[current] = "code" /\ stack'[current] = <<>>
  BY <1>1 DEF IInv, TypeOK
<1>4. Masked' /\ RegistersAre' /\ Service'
  BY <1>1, <1>2, <1>3 DEF Masked, RegistersAre, Service, Runs
<1>5. StackIs(current)'
  BY <1>1, <1>3 DEF StackIs, Handler
<1>6. place' \in [Procs -> Places]
  BY <1>1 DEF IInv, TypeOK
<1>7. stack' = [stack EXCEPT ![current] = stack'[current]]
  BY <1>1, <1>3
<1> QED
  BY <1>1, <1>4, <1>5, <1>6, <1>7, Stays DEF Everywhere, Handler

LEMMA ProcessSteps ==
  ASSUME IInv, NEW p \in Procs,
         Create(p) \/ Start \/ End \/ Execute \/ \E v \in Vectors : Fault(v)
  PROVE  IInv'
<1> USE DEF IInv
<1>0. /\ at \in [Procs -> Everywhere] /\ stack = [q \in Procs |-> stack[q]]
      /\ current \in Procs => Runs(at[current]) /\ current # nobody
      /\ current \in Procs /\ at[current] # "entered" => isr1 = {} /\ isr2 = {}
  BY ProcsAssumption DEF TypeOK, Runs, Service
<1>1. CASE Create(p)
  <2>1. /\ current \in Procs /\ at[current] = "code" /\ at[p] = "none"
        /\ p # current
        /\ at' = [at EXCEPT ![p] = "new"]
        /\ stack' = [stack EXCEPT ![p] = NewStack] /\ iflag' = TRUE
        /\ UNCHANGED <<isr1, isr2, cs, ds, current, registers, place, line>>
    BY <1>1 DEF Create, Runs, TypeOK, pic_vars, segment_vars
  <2>2. /\ at'[p] = "new" /\ stack'[p] = NewStack
        /\ \A q \in Procs : q # p => at'[q] = at[q] /\ stack'[q] = stack[q]
        /\ at' \in [Procs -> Everywhere] /\ stack' = [q \in Procs |-> stack'[q]]
    BY <1>0, <2>1 DEF Everywhere
  <2>3. \A q \in Procs :
           /\ Interrupted(q)' = Interrupted(q) /\ GaveUp(q)' = GaveUp(q)
           /\ WasPreempted(q)' = WasPreempted(q)
    BY <2>1 DEF Interrupted, GaveUp, WasPreempted
  <2>4. TypeOK' /\ OneRuns'
    BY <2>1, <2>2 DEF TypeOK, OneRuns
  <2>5. Masked' /\ RegistersAre' /\ Service' /\ Segments'
    BY <1>0, <2>1, <2>2 DEF Masked, RegistersAre, Service, Segments, Runs
  <2>6. Stacks'
    <3> SUFFICES ASSUME NEW q \in Procs PROVE StackIs(q)'
      BY DEF Stacks
    <3>1. StackIs(q)
      BY DEF Stacks
    <3> QED
      BY <2>2, <2>3, <3>1 DEF StackIs, Handler
  <2> QED
    BY <2>4, <2>5, <2>6
<1>2. CASE Start
  <2>1. /\ current \in Procs /\ at[current] = "starter" /\ current' = current
        /\ at' = [at EXCEPT ![current] = "code"]
        /\ registers' = Own(current) /\ iflag' = TRUE
        /\ UNCHANGED <<isr1, isr2, cs, ds, place, stack, line>>
    BY <1>2 DEF Start, Runs, TypeOK, pic_vars, segment_vars
  <2>2. at'[current] = "code" /\ stack[current] = <<>>
        /\ stack' = [stack EXCEPT ![current] = stack'[current]]
    BY <1>0, <2>1 DEF Stacks, StackIs
  <2>3. Masked' /\ RegistersAre' /\ Service'
    BY <1>0, <2>1, <2>2 DEF Masked, RegistersAre, Service, Runs
  <2>4. StackIs(current)'
    BY <2>1, <2>2 DEF StackIs, Handler
  <2> QED
    BY <2>1, <2>2, <2>3, <2>4, Stays DEF TypeOK, Everywhere, Handler
<1>3. CASE End
  <2>1. /\ current \in Procs /\ at[current] = "code" /\ current' = nobody
        /\ at' = [at EXCEPT ![current] = "none"]
        /\ stack' = [stack EXCEPT ![current] = <<>>]
        /\ iflag' = FALSE
        /\ UNCHANGED <<isr1, isr2, cs, ds, place, line>>
    BY <1>3 DEF End, Runs, TypeOK, pic_vars, segment_vars
  <2>2. /\ at'[current] = "none"
        /\ \A q \in Procs : q # current => at'[q] = at[q] /\ stack'[q] = stack[q]
        /\ at' \in [Procs -> Everywhere] /\ stack' = [q \in Procs |-> stack'[q]]
    BY <1>0, <2>1 DEF Everywhere
  <2>3. \A q \in Procs :
           /\ Interrupted(q)' = Interrupted(q) /\ GaveUp(q)' = GaveUp(q)
           /\ WasPreempted(q)' = WasPreempted(q)
    BY <2>1 DEF Interrupted, GaveUp, WasPreempted
  <2>4. TypeOK' /\ OneRuns'
    BY <2>1, <2>2, ProcsAssumption DEF TypeOK, OneRuns
  <2>5. Masked' /\ RegistersAre' /\ Service' /\ Segments'
    BY <1>0, <2>1, <2>2 DEF Masked, RegistersAre, Service, Segments, Runs
  <2>6. Stacks'
    <3> SUFFICES ASSUME NEW q \in Procs PROVE StackIs(q)'
      BY DEF Stacks
    <3>1. StackIs(q)
      BY DEF Stacks
    <3> QED
      BY <2>2, <2>3, <3>1 DEF StackIs, Handler
  <2> QED
    BY <2>4, <2>5, <2>6
<1>4. CASE Execute
  <2>1. /\ current \in Procs /\ at[current] = "code" /\ current' = current
        /\ \E r \in Places : place' = [place EXCEPT ![current] = r]
        /\ iflag' \in BOOLEAN
        /\ UNCHANGED <<isr1, isr2, cs, ds, registers, at, stack, line>>
    BY <1>4 DEF Execute, Runs, TypeOK, pic_vars, segment_vars
  <2>2. /\ stack[current] = <<>> /\ registers = Own(current)
        /\ at' = [at EXCEPT ![current] = "code"]
        /\ stack' = [stack EXCEPT ![current] = stack'[current]]
    BY <1>0, <2>1 DEF Stacks, StackIs, RegistersAre, Runs
  <2>3. place' \in [Procs -> Places]
        /\ \A q \in Procs : q # current => place'[q] = place[q]
    BY <2>1 DEF TypeOK
  <2>4. Masked' /\ RegistersAre' /\ Service'
    BY <1>0, <2>1, <2>2 DEF Masked, RegistersAre, Service, Runs
  <2>5. StackIs(current)'
    BY <2>1, <2>2 DEF StackIs, Handler
  <2> QED
    BY <2>1, <2>2, <2>3, <2>4, <2>5, Stays DEF Everywhere, Handler
<1>5. ASSUME NEW v \in Vectors, Fault(v) PROVE IInv'
  <2>1. /\ current \in Procs /\ at[current] = "code" /\ current' = current
        /\ at' = [at EXCEPT ![current] = "fault"]
        /\ stack' = [stack EXCEPT ![current] = Frame(v) \o @]
        /\ iflag' = FALSE /\ cs' = IDT(v).selector
        /\ UNCHANGED <<isr1, isr2, ds, registers, place, line>>
    BY <1>5 DEF Fault, Runs, TypeOK, pic_vars
  <2>2. cs' = cs
    BY <2>1 DEF IDT, Gate, set_idt_entry, Segments
  <2>3. at'[current] = "fault"
        /\ stack' = [stack EXCEPT ![current] = stack'[current]]
    BY <1>0, <2>1
  <2>4. Masked' /\ RegistersAre' /\ Service'
    BY <1>0, <2>1, <2>3 DEF Masked, RegistersAre, Service, Runs
  <2>5. StackIs(current)'
    BY <2>1, <2>3 DEF StackIs, Handler
  <2> QED
    BY <2>1, <2>2, <2>3, <2>4, <2>5, Stays DEF TypeOK, Everywhere, Handler
<1> QED
  BY <1>1, <1>2, <1>3, <1>4, <1>5

LEMMA Unchanged ==
  ASSUME IInv, UNCHANGED <<isr1, isr2, iflag, current, registers, at, place,
                           stack, cs, ds, line>>
  PROVE  IInv'
<1>1. \A q \in Procs :
         /\ Interrupted(q)' = Interrupted(q) /\ GaveUp(q)' = GaveUp(q)
         /\ WasPreempted(q)' = WasPreempted(q)
  BY DEF Interrupted, GaveUp, WasPreempted
<1>2. Stacks'
  BY <1>1 DEF IInv, Stacks, StackIs, Handler
<1> QED
  BY <1>2 DEF IInv, TypeOK, OneRuns, Masked, RegistersAre, Service, Segments, Runs

LEMMA Step == IInv /\ [Next]_vars => IInv'
<1> SUFFICES ASSUME IInv, [Next]_vars PROVE IInv'
  OBVIOUS
<1>1. ASSUME NEW i \in Lines, Raise(i) PROVE IInv'
  BY <1>1, Unchanged DEF Raise, segment_vars
<1>2. ASSUME NEW i \in Lines, Interrupt(i) \/ Spurious(i) PROVE IInv'
  BY <1>2, Enters
<1>3. CASE Acknowledge
  BY <1>3, AcknowledgeStep
<1>4. CASE Callback
  BY <1>4, CallbackStep
<1>5. CASE Return
  BY <1>5, ReturnStep
<1>6. ASSUME NEW p \in Procs, Load(p) \/ Preempt(p) \/ Yield(p) PROVE IInv'
  BY <1>6, Switches
<1>7. ASSUME NEW p \in Procs, Create(p) PROVE IInv'
  BY <1>7, ProcessSteps
<1>8. CASE Start \/ End \/ Execute \/ \E v \in Vectors : Fault(v)
  <2>1. \E p \in Procs : TRUE
    BY ProcsAssumption
  <2> QED
    BY <1>8, <2>1, ProcessSteps
<1>9. CASE Halted \/ UNCHANGED vars
  BY <1>9, Unchanged DEF Halted, vars
<1> QED
  BY <1>1, <1>2, <1>3, <1>4, <1>5, <1>6, <1>7, <1>8, <1>9 DEF Next

THEOREM Invariant == Spec => []IInv
<1>1. Init => IInv
  BY Starts
<1>2. IInv /\ [Next]_vars => IInv'
  BY Step
<1> QED
  BY <1>1, <1>2, PTL DEF Spec

-----------------------------------------------------------------------------
(***************************************************************************)
(* The properties.                                                         *)
(***************************************************************************)

\* pic_handler acknowledges before the callback, both PICs when the line is of
\* the second one: no line is ever left in service, spurious ones included.
THEOREM LinesReleased == Spec => []NothingHeldBack
<1>1. IInv => NothingHeldBack
  BY DEF IInv, Service, NothingHeldBack
<1> QED
  BY <1>1, Invariant, PTL

\* The number on the stack is the line's, through remap_pic, the IDT and the
\* stub, also when other processes ran between the interrupt and its callback.
THEOREM CallbackOfTheLine == Spec => []RightCallback
<1>1. IInv => RightCallback
  <2> SUFFICES ASSUME IInv, NEW p \in Procs,
                      at[p] \in {"entered", "callback", "return"}
               PROVE  irq_id(stack[p]) = line[p]
    BY DEF RightCallback
  <2>1. stack[p] = Pushes(p, line[p]) \o <<place[p], KERNEL_CODE_SELECTOR, TRUE>>
    BY DEF IInv, Stacks, StackIs, Handler, Interrupted
  <2>2. \A g : irq_id(Pushes(p, line[p])
                        \o <<place[p], KERNEL_CODE_SELECTOR, g>>) = line[p]
    BY FramePops
  <2> QED
    BY <2>1, <2>2
<1> QED
  BY <1>1, Invariant, PTL

\* Whatever the width of a byte, the descriptors of gdt.cpp unpack to segments
\* over the whole memory, and no interrupt loads another selector.
THEOREM FlatSegments == Spec => []SegmentsAreFlat
<1>1. IInv => SegmentsAreFlat
  BY KernelSegments DEF IInv, Segments, SegmentsAreFlat
<1> QED
  BY <1>1, Invariant, PTL

\* A process goes on where it was interrupted or gave up the CPU, with its
\* registers, whatever else was switched to, created or ended meanwhile.
THEOREM ProcessesComeBack == Spec => ComesBack
<1> DEFINE A == \A p \in Procs :
                  at[p] \in {"return", "away"} /\ at'[p] = "code" =>
                     /\ at[p] = "return" => place'[p] = eip(stack[p])
                     /\ place'[p] = place[p] /\ registers' = Own(p)
                     /\ iflag' /\ stack'[p] = <<>>
<1>1. IInv /\ [Next]_vars => [A]_vars
  <2> SUFFICES ASSUME IInv, Next, NEW p \in Procs,
                      at[p] \in {"return", "away"}, at'[p] = "code"
               PROVE  /\ at[p] = "return" => place'[p] = eip(stack[p])
                      /\ place'[p] = place[p] /\ registers' = Own(p)
                      /\ iflag' = TRUE /\ stack'[p] = <<>>
    OBVIOUS
  <2>0. at \in [Procs -> Everywhere] /\ stack = [q \in Procs |-> stack[q]]
        /\ at[p] # "code"
    BY DEF IInv, TypeOK
  <2>1. CASE Return
    <3>1. p = current
      BY <2>0, <2>1, Returned
    <3> QED
      BY <2>0, <2>1, <3>1, Returned
  <2>2. ASSUME NEW n \in Procs, Load(n) \/ Preempt(n) \/ Yield(n)
        PROVE  /\ at[p] # "return"
               /\ place'[p] = place[p] /\ registers' = Own(p)
               /\ iflag' = TRUE /\ stack'[p] = <<>>
    <3>1. PICK stacks, points : SwitchesFrom(n, stacks, points)
      BY <2>2, Switched
    <3>2. at[p] # "return" /\ at[p] = "away"
      BY <3>1, ProcsAssumption DEF SwitchesFrom, Runs, IInv, OneRuns, TypeOK
    <3>3. points[p] = "away"
      BY <3>1, <3>2 DEF SwitchesFrom
    <3>a. /\ Waiting(stacks, points) /\ points[n] \in {"new", "away"}
          /\ GoesOn(n, stacks, points)
      BY <3>1 DEF SwitchesFrom
    <3>4. /\ current' = n
          /\ UNCHANGED <<irr, isr1, isr2, cs, ds, place, line>>
          /\ \/ /\ at' = [points EXCEPT ![n] = "starter"]
                /\ stack' = [stacks EXCEPT ![n] = <<>>]
                /\ iflag' = FALSE
             \/ /\ at' = [points EXCEPT ![n] = "code"]
                /\ stack' = [stacks EXCEPT ![n] = <<>>]
                /\ iflag' = TRUE /\ registers' = Own(n)
             \/ /\ at' = [points EXCEPT ![n] = "return"]
                /\ stack' = [stacks EXCEPT ![n] = Interrupted(n)]
                /\ iflag' = FALSE
      BY <3>a, GoesOnCases
    <3> QED
      BY <3>1, <3>2, <3>3, <3>4 DEF SwitchesFrom, Waiting
  <2>3. CASE \/ \E i \in Lines : Raise(i) \/ Interrupt(i) \/ Spurious(i)
             \/ Acknowledge \/ Callback \/ Start \/ End \/ Execute \/ Halted
             \/ \E n \in Procs : Create(n)
             \/ \E v \in Vectors : Fault(v)
    BY <2>0, <2>3 DEF Raise, Interrupt, Spurious, Enter, Acknowledge, Callback,
                      Start, End, Execute, Halted, Create, Fault, Runs, vars
  <2> QED
    BY <2>1, <2>2, <2>3 DEF Next
<1>2. ComesBack <=> [][A]_vars
  BY DEF ComesBack
<1> QED
  BY <1>1, <1>2, Invariant, PTL DEF Spec
=============================================================================
