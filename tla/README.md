# HryOS in TLA+

HryOS is a small 32-bit kernel: one CPU, a preemptive scheduler, a keyboard, a
timer, a heap and a shell on the screen.  This directory holds a specification
of its core, translated from `src/code`, with TLC runs on small instances and
TLAPS proofs for all instances.

All paths below are relative to `src/code` unless they start with `src/`.

## 1. Inventory

| Part | Keeps | Operations | Talks to |
|---|---|---|---|
| Scheduler `kernel/scheduler/scheduler.cpp`, `process.hpp`, `task_switch.asm` | all processes, a list per state, `current_process`, `is_enabled`, `pid_generator`; per process its state and a variant of what it waits for | create, reschedule, block, notify, sleep, wait, halt, process start and end | called by processes, by the timer and by the keyboard interrupt; switches stacks |
| Interrupt flag and locks `kernel/interrupts/interrupts.cpp`, `scheduler/int_lock.hpp` | EFLAGS.IF, its shadow `interrupts_enabled`, `interrupts_lock` (boot) | enable, disable, pic_handler, `direct_int_lock`, `weak_int_lock` | every critical section of the kernel |
| Timer `kernel/drivers/pit.cpp` | 64-bit `timer` | irq_callback every ms, get_timer (32 bits) | calls reschedule |
| Keyboard `kernel/drivers/keyboard.cpp`, `hlib/include/circular_buffer.hpp` | 100 slots, `head_`, `tail_` | push in the interrupt, pop in the terminal process | notifies and blocks through the scheduler |
| Heap `kernel/memory/allocator.hpp`, `kernel_heap.cpp` | headers linked through the memory they describe | create, allocate, free | every `new` and `delete`, under a weak lock |
| Lists `hlib/include/list.hpp` | nodes, spare erased nodes | push, erase, erase_if | the scheduler's lists |
| Terminal `kernel/terminal`, `kernel/drivers/vga`, `vesa` | cursor, colours, characters on the screen | print, wrap, scroll, clear, move_cursor | shell, tasks |
| Shell `kernel/terminal/command_line.cpp` | 32 characters of input, 31 commands | send_input, register_command | keyboard, scheduler |
| Printing tasks `kernel/kernel.cpp`, `scheduler/mutex.hpp` | `terminal_mutex` | lock, move, print, move back, unlock | terminal |
| Library `hlib` | stack, variant, optional, format, numbers | | all |
| Descriptors `kernel/memory/gdt.cpp`, `interrupts.cpp`, `isr.asm`, `fault.asm` | GDT, IDT, the PICs' masks and lines in service | init, the stubs, pic_handler, fault_handler | devices, callbacks |
| Boot `kernel/kernel.cpp`, memory map `kernel/memory/memory_map.cpp` | the map's entries | one sequence; mmap::init, kheap::init | boot loader, heap |

What is hard about it:

- **Interleaving.**  Timer and keyboard interrupts come between any two
  instructions of a process that has interrupts on.  The code masks them in
  short sections, but several of its decisions span two sections: `pull_key`
  tests the buffer and then blocks; `block`, `sleep` and `wait` suspend in one
  section and give up the CPU in the next; the `wait` command creates a process
  and only then waits for it.
- **A flag and its shadow.**  Locks decide with `interrupts_enabled`, not with
  the flag, and set the two in two instructions.  A `weak_int_lock` remembers
  the shadow across a context switch.
- **Lists that are the truth.**  A process exists for the scheduler only
  through the list of its state; moving it is several operations.
- **Liveness.**  Woken processes go to the front of the ready list.  A waiter is
  told once.
- **Memory laid out by hand.**  Headers and data share the region, sizes are
  computed with a pointer difference C++ leaves undefined, and a request may
  wrap around 2^32.
- **A buffer without a lock** between an interrupt and a process.
- **One screen for all.**  Printing tasks take a spin lock and move the cursor to
  their place and back; the shell prints without the lock, and all of them are
  preempted between any two calls and inside each.
- **A clock that wraps.**  Timeouts are compared as 32-bit numbers.
- **Frames by hand.**  What a stub, a switch or `create_process` pushes is popped
  elsewhere, perhaps much later and for another process.

What makes each part correct:

- scheduler: nobody is lost, the current process is the running one, the idle
  process can always be run, waits and sleeps end when they should and not
  before, whoever is ready runs;
- interrupts: off in a section, on again after it;
- heap: blocks are disjoint, aligned and large enough; memory given back can be
  used again;
- a switched process finds its registers and its stack as they were;
- keyboard: what is typed is read, once and in order;
- timer: nobody sleeps shorter or longer than it asked for;
- terminal: the cursor stays on the screen (as long as no two calls overlap); a
  line wraps into the next;
- shell: input stays in its buffer; the command that was typed is run; the line
  on the screen is what is in the buffer;
- printing tasks: a clock comes and goes without moving the cursor;
- library: what formatting and numbers return.

The hazards with their lines are in `PROJECT.json`.

## 2. Modules

```
KeyQueue     <- CircularBuffer <- Keyboard   <- KeyboardProofs
                                      |-> TypeAhead
Heap         <- Allocator      <- KernelHeap <- KernelHeapProofs
ProcessLists <- Scheduler      <- SchedulerProofs
  ^   ^- ProcessListsProofs      -^
  |                 ^-------------------------.
  |- MovingLists <- LinkedList <- LinkedListProofs
SleepClock, Formatting         <- WordProofs
Paper        <- Screen         <- CommandLine, Tasks <- Console <- ConsoleProofs
                                      |-> LineEditor
Descriptors, TaskSwitch        <- Interrupts <- InterruptsProofs
MCScheduler, MCKeyboard, MCSleepClock, MCKernelHeap, MCLinkedList, MCConsole,
MCInterrupts, MCFormatting: what TLC runs
```

(`<-`: is used by.)  `KeyQueue`, `TypeAhead`, `Heap`, `MovingLists`, `Paper` and
`LineEditor` are specifications of what a part promises; the module beside each implements it.
`Scheduler` works on the sequences that `LinkedList` implements and on the
number of keys of `CircularBuffer`, with the time a sleeper has left where
`SleepClock` has its timeout; `Console` composes the shell and the printing tasks
on `Screen`; `Interrupts` refines the moment at which `Scheduler` lets a tick
happen and the step with which it switches.

### Scheduler

`ProcessLists` is `move_to_if`, `move_to_back_if` and `move_to_front_if` on
sequences of processes.  `Scheduler` is the rest of `scheduler.cpp` with what
drives it.

| In the module | In the code |
|---|---|
| `processes`, `next_pid`, `lists`, `current`, `state`, `data` | `processes`, `pid_generator`, `lists`, `current_process`, `process::state`, `process::state_data` |
| `iflag`, `enabled` | EFLAGS.IF, `interrupts_enabled` |
| `phase` | how far `kernel_main` is; before `"running"`, `interrupts_lock` or the missing scheduler keeps interrupts off |
| `keys` | how many keys the buffer holds; `CircularBuffer` has the buffer itself |
| `pc`, `ctx`, `was` | where a process is, how it left the CPU, `was_enabled_` in the frame of its `reschedule` |
| `Boot` | `kernel_main` from `command_line::init` to the first `reschedule` |
| `Tick`, `Key` | `pic_handler` with `irq_callback` of the timer, with `on_isr_callback` of the keyboard |
| `PullKey`, `EnterBlock`, `Block`, `PopKey` | `pull_key`, `block_current_process` |
| `HandleKey`, `EnterCreate`, `Create`, `EnterWait`, `Wait` | the shell's commands, `create_process`, `wait_for` |
| `EnterSleep`, `Sleep` | a task in `sleep_ms` |
| `EnterExit`, `Exit` | the end of `process_starter` |
| `EnterReschedule`, `Reschedule` | `reschedule` called by a process that has suspended itself |
| `HeapUnmasks` | a heap call inside a section, when the shadow is wrong |

Code with interrupts masked is one step.  A section that masks them is two:
`Enter...` stores to the shadow (`interrupts.cpp:295`), the section itself
executes `cli`, its body and the unlock.  An interrupt may come in between.
That the store comes first is the order of the source; the variable is not
volatile and a build may swap it with `cli`, which only removes behaviours.

An interrupt in that gap sets the shadow to true again; the next heap call of
the section (its weak lock) then turns interrupts on in the middle of it.  The
model takes that step (`HeapUnmasks`), sets `exposed` and stops there: what
half of a section leaves behind is not followed.  So all properties and theorems
of the scheduler speak of executions before exposure, which TLC does reach:
`HeapUnmasks` fires in the run `scheduler`.  After it they can fail in the code: a
process preempted inside the `push_back` of its `sleep_ms` is in no list.

A sleeper's `sleep_timeout` is kept as the time it has left; the wrap of the
32-bit clock after 49 days is in `SleepClock`.  Stacks and registers are the
resume contexts `"new"`, `"irq"` and `"call"`.  The shell is the only reader of
the keyboard, as in the code.

### Allocator

`Allocator` is `allocator.hpp`: `blocks` is the set of headers by address, a
header a record with the fields of `block`; `held` is what the callers have.
`Allocate`, `Free` and `NotEnoughMemory` are one call each, since
`kernel_heap.cpp` calls with interrupts masked.  `calc_size_between` returns a
set: the difference of block pointers that are not a multiple of
`sizeof(block)` apart is undefined, and compilers either shift (round down) or
cancel the division with the multiplication that follows.  `Free` is called
with an address that is held, as `delete` must be.

`Heap` is the promise: every allocation is an aligned range of bytes of its own
in the region.  It knows only `held`.

### CircularBuffer

A pop is four steps (test, read, clear the slot, move the head) and a push may
come between any two.  The stores of `circular_buffer.hpp:47` and `:49` may be
emitted in either order, and both are modelled.  `KeyQueue` is the promise: a
queue of `Size - 1` keys.  The refinement mapping is `waiting`: the slots from
head to tail, with the reader's copy for a slot it has already cleared.

### LinkedList

`list.hpp`, node by node: `head`, `tail`, `free` and the fields of each node; a
node given back to the heap reads `deleted`.  `PushBack` and `PopFront` are one
step, since the lists are used with interrupts masked.  `erase_if` is a step per
test and per erased node, because its callback pushes to another list in
between: `Pick` is the callback, `Erase` what follows it.  `order` and `spare`
are history: the nodes of each list and of its erased nodes, which the links
must agree with.  `MovingLists` has `erase_if` as one step on sequences.  The
mapping gives an `erase_if` that runs the lists it will leave (`outcome`), so
the abstract step is its first one.

### Keyboard

`keyboard.cpp` on `CircularBuffer`, from the key to the character.  The user
presses, holds and releases keys; the device, which is external, sends scan codes
with their prefixes, one at a time into the controller's output buffer and each
with an interrupt.  `init` first empties the controller (`clear_buffer`): a scan
code left there from before is never announced, since its interrupt was lost when
the PICs were programmed.  `on_isr_callback` splits the scan code and pushes it;
the shell pops and maps (`CharacterOf`).  `TypeAhead` is the promise: one
character per stroke of a key that has one, in order, lost only while the buffer
is full.  The mapping joins what is in the buffer, in the controller and on the
wire.  Keyboards whose prefixed keys have the code of a letter are excluded
(`UserKeysAssumption`): the driver takes a prefix for the release of a key that
does not exist, and such a key for the letter.

### SleepClock

The PIT as `init` programs it (two bytes of the divisor, mode 3), the timer and
the timeouts of `sleep_ms`, all modulo `TimerWord`, with `Expired` as `reschedule`
compares.  `asked` and `slept` are history.  The comparison is wrong around the
wrap, and the properties say exactly when: a sleeper whose timeout wrapped is
woken by the next reschedule (`Wrapped`), and one whose timeout is the largest
word is never woken, since no timer is above it.  Both need 49 days of uptime.

### Screen

`terminal.cpp` on `vesa_impl.cpp`, one operator per call, and a call is one step.
What is said of the screen holds between whole calls; `Console` says when calls
can overlap.  Pixels are abstracted
to whose glyph they belong to, in three places: the copy of the framebuffer
(`buffer`), the display, and of the display the column of pixels that a cursor
inverts (`stripe`, `inverted`).  `Paper` is a sheet of paper, written from the
cursor on, whose rows move up when the last one is full.

### CommandLine, Tasks and Console

`CommandLine` is `send_input`: its buffer, the search for a command and the calls
of the terminal that follow from a key.  `todo` is what of them is still to be
made, so that the shell can be preempted between any two.  `LineEditor` is the
promise: a line, edited at its end, that runs the first command of its name.

`Tasks` is the processes of `kernel.cpp` that print: `task_base` with the cursor
it saves, moves and moves back, `spanko` with its two lines; `calls` is what each
has yet to do.  They exclude each other with `terminal_mutex`.  Spinning on it and
sleeping change nothing and are stutters.  `task_count++` is a load and a store.
Places beyond the screen, from the 260th timer on, are excluded (`PlacesFit`).

`Console` composes them on one screen.  The shell does not take the mutex: what
it prints while a timer has the cursor goes to the timer's place, and the cursor
returns to where the timer found it.  `disturbed` says that this happened in the
line that is typed, or that another process printed in it; what is seen is then
not what is in the buffer, and `EchoIsInput` and `ClockInPlace` speak of all other
lines.  A new prompt ends it.  `MaxMixed` bounds how often it happens.  A backspace at
column 0 makes the column 2^32 - 1 and writes beside the screen: the model sets
`off` and stops there; `EchoIsInput` says that this never happens in an
undisturbed line, but nothing prevents it in the others.

A call of the terminal runs with interrupts on.  While the shell is in one, a task
can begin another, or the other way round, since the shell takes no lock.  The
model takes that step (`Overlap`), sets `off` and `disturbed` and stops there, as
`Scheduler` does at exposure.  What comes after it in the code can be bad:
`next_line` has the cursor in the row below the last while the rows are moved
(`terminal.cpp:52`) and then decrements the row (`:42`), which is 0 if a timer has
moved the cursor to its place meanwhile; the row is then 2^32 - 1, the timer moves
the cursor back to the row below the last, which it saved, and `vesa_impl.cpp:54`
writes behind the buffer.  So everything in `Console` is said of the time before
the first overlap.  `CursorKept` has what is true of overlaps: no two tasks are
ever in the terminal together, so it takes the shell; and until then the cursor is
on the screen, and every place a task is about to put it at.  Preemption between
the calls is all there.

### Interrupts, TaskSwitch and Descriptors

The way of an interrupt: the two PICs as `remap_pic` programs them (a line in
service holds back itself and lower ones until its end of interrupt), the gate
of its vector, the frame that the CPU, the stub and `pushad` build, `pic_handler`
and the way back.  `TaskSwitch` has the frames of `task_switch.asm` and the one
that `create_process` pushes by hand.  A process is preempted in its handler by
the timer's callback (`Preempt`) or gives up the CPU itself (`Yield`), is created
and ends; a switch pushes the registers of one process on its stack and pops those
of another, whose frame says where it goes on.  `registers` holds whose values the
registers have: in its code a process has its own (`Own`).  `line` is history: the
line the handler was entered for.  The offset of the saved stack pointer in
`process` (24) is not modelled.  `Descriptors` packs and unpacks descriptors
and gates; the CPU's side is external.  Where the stubs are is any injective
function (`address`).

### KernelHeap

`mmap` entries, the choice of the largest available one and the checks of
`kheap::init` and `allocator::create`.  `kernel_heap.cpp:48` assigns the length
of the entry to the heap's end, which is the end only if the entry starts at 0;
the module does the same.  For the region that is the one of `Allocator`
(`Start`, `End`) it goes on with all of `Allocator`; other outcomes stop
(`Unfollowed`).  One of them is a heap at a null allocator, for an entry whose
address is not below its length.  `MapsAssumption` is about the
machine: no available memory starts below the kernel and reaches it.

### Formatting

`format_to`, its formatters, `to_chars` and `digits_count`, one step per digit,
with the buffer on the stack.  A digit is its value.  Floats are exact
multiples of `1 / Unit`: their rounding is left out, the handling of their parts
is not.  `printed` is history.  `AsIs` names the arguments for which what is
printed is not the argument: the smallest signed number (its digits would be
written below the buffer; the kernel never prints it), two-word numbers whose
low word is not padded, fractions with a leading zero (`uptime` shows 1050 ms as
1.50 s), and negative floats that fill the buffer.

## 3. Runs

| Run | Module, cfg | Asks | Bounds |
|---|---|---|---|
| `scheduler` | `MCScheduler` | the safety properties of the scheduler and its inductive invariant | terminal, idle, two tasks; sleeps of 1 and 2 ticks; 2 keys; 632,201 states |
| `scheduler_live` | `SchedulerLive.cfg` | ready processes and sleepers get the CPU | one task, sleep of 1, 1 key |
| `lost_reader` | `SchedulerLost.cfg` | violation of `ReadyCanRun` | same |
| `lost_key` | `SchedulerLostKey.cfg` | violation of `BlockedBySomething` | same |
| `lists` | `MCLinkedList` | links, spare nodes and the iterator; refinement of `MovingLists` | two state lists and the list of all, 3 processes, 5 nodes; 159,712 states |
| `interrupts` | `MCInterrupts` | nothing held back, right callback, flat segments, every process comes back as it was | lines 0, 7, 15; 3 processes; 2 exceptions; a nibble of 4 values; 244,672 states |
| `fault_eip` | `FaultEip.cfg` | violation of `FaultShowsEip` | lines 0, 1 |
| `kernel_heap` | `MCKernelHeap` | choice of the region; shape of the heap, refinement of `Heap` | word size 512; region of 204 bytes; requests of 1, 9, 24, 40; 44 memory maps; 34,616 states |
| `keyboard` | `MCKeyboard` | the buffer is a queue, refinement of `KeyQueue`; nothing stuck; what is typed is read, refinement of `TypeAhead` | 3 slots; a letter and a key with a prefix; 2 scan codes on the wire; 221,906 states |
| `sleep` | `MCSleepClock` | nobody but those at the wrap sleeps too short or too long, and all others wake | a clock of 16; 2 sleepers; times 1 and 3; 29,428 states |
| `console` | `MCConsole` | until the shell overlaps a task in the terminal, which tasks never do to each other: the cursor is on the screen, which shows what was printed, with one cursor, the line what is in the buffer, a clock its place; refinement of `Paper` and `LineEditor` | 4 by 3 characters, 2 in the buffer, one letter; 3 names; 2 tasks; 1 call of the shell while a timer has the cursor; 640,943 states |
| `formatting` | `MCFormatting` | the buffer is filled exactly, what is printed reads as the argument | words of 8 bits, eighths, every base; 36,945 states |

Why the bounds are enough to be interesting.

- Scheduler: two tasks are needed for two processes that are woken, preempted or
  ended in one reschedule; the second sleep time for sleepers that expire at
  different ticks; the second key for a buffer that still holds a key after a
  pop.  `MaxPid` stops the shell from starting more tasks, nothing else; the
  clock needs no bound since only the time left is kept, and it stops at -1.
- Lists: three processes give a first, an inner and a last node; two more nodes
  than processes let a list of all and a state list hold nodes at once, and
  the heap run dry.
- Interrupts: lines of both PICs, the two that can be spurious, and the timer;
  three processes, of which one ends, so that two are away while a third is
  created and ends; the stubs' addresses cross the boundary of a half word.
- Heap: the region holds up to five blocks, so that a free has neighbours of
  every kind on both sides; its end is no multiple of 16, so that both outcomes
  of the pointer difference occur; 1 and 9 are rounded, 24 leaves rests that are
  too small to split, 40 does not always fit.
- Keyboard: a buffer of 3 slots fills, wraps and empties with every position of
  the head; a prefix and its key, or two letters, can be on the wire at once.
- SleepClock: times and clock put every distance between timer and timeout on
  both sides of the wrap; two sleepers wrap at different times.
- Console: the screen has a first, an inner and a last row, and lines wrap and
  scroll; the buffer fills and is one letter from full; the names include one
  that is registered twice and one for which the table has no room; two tasks can
  both be timers, both sleepers or one of each, and hold the mutex in turn.
- Formatting: words of 8 bits have the digits 0 to f and numbers of one to eight
  digits; all of them are tried.

The theorems remove the bounds for the safety properties and the refinements of
all passing runs; section 4 says what is left.

What the passing runs show is in the comments of the properties.  What the
violation runs show:

- `lost_reader`.  A key arrives after the terminal has suspended itself and
  before its reschedule.  The interrupt makes it ready; the reschedule pops it,
  sees that it is the current process and returns, leaving it in state ready and
  in no list.  The next tick switches away and does not put it back: the shell
  is gone.
- `lost_key`.  A key arrives after `pull_key` saw the buffer empty and before it
  blocks.  It is announced to nobody; the shell sleeps with a key in the buffer
  until the next key.
- `fault_eip`.  For exceptions 8, 10 to 14 and 17 the CPU pushes an error code
  that the stubs do not account for; what `fault_handler` prints as eip is the
  error code.

More behaviours of the code are in the models and have no run of their own:
two timers may take the same place (`StoreCount`); a sleeper is woken early, or
never, at the wrap of the clock (`SleepClock`); the child of the `wait` command may end before `wait_for` is called, and the
shell then waits for ever; a section may be exposed (`HeapUnmasks`, above); and the
shell and a task may be in the terminal together (`Overlap`).

`CHECK_DEADLOCK` is on everywhere.  Where the kernel halts or the model stops
following it, a step that changes nothing says so (`Halted`, `Halt`, `Returned`,
`Unfollowed`).

### Fairness

`Spec` of the scheduler assumes weak fairness of `Boot` (straight code with
interrupts off) and of `Tick` (the PIT is programmed to repeat, `pit.cpp:62`,
and is served whenever interrupts are on; sections are finite).  Nothing is
assumed of keys, of the shell's choices or of tasks: a task may compute forever
and is preempted by the timer.  `lost_key` asks whether a key that waits is
read, so there the process on the CPU must also proceed when its code has no
choice (`RunningSpec`); without that a counterexample would only show a stopped
CPU.

`Spec` of `SleepClock` assumes that boot programs the PIT (`init`) and that it
ticks once it repeats.  The other specifications state safety only.

## 4. Proofs

All are checked by TLAPS for every value of the constants under the `ASSUME`s of
the modules, which TLC evaluates on the instances:

- `Scheduler`: at least one pid, positive sleep times, room for at least one key.
- `LinkedList`: `null` and `deleted` are no nodes, `nowhere` no list.
- `Allocator`: a region of at least 64 bytes at an aligned address below the word
  size; `KernelHeap`: maps are sequences of entries, and no available memory starts
  below the kernel and reaches it.
- `CircularBuffer`: at least two slots; `Keyboard`: every event of a scan code is
  one of the `Keys`, a key that sends no prefix has on it what `map_key_to_ascii`
  gives for its code, an empty controller holds no scan code, and a default event
  is no character.
- `SleepClock`: a clock longer than any time slept.
- `Formatting`: words of a number of nibbles, at least two; the sign, the dot and
  the terminator are no digits; a format has a pair of braces for each argument,
  the arguments are what their types hold, and a word holds the digits of a
  fraction (a precision is one digit, and 10^9 < 2^32).
- `Interrupts`: lines 0 to 15, the stubs at different addresses, at least one
  process; `Descriptors`: a nibble of any size.
- `Screen`: at least one row and one column; `CommandLine`: the prompt and a full
  line fit in a row, and the names of commands hold no NUL and are shorter than the
  buffer; `Tasks`: finitely many, and the clock of every one of them has room at its
  place; `Console`: a finite number of disturbances.

Theorems about `Scheduler` speak of executions up to exposure, those about
`Console` of executions up to the first overlap of two calls.

**Scheduler** (`SchedulerProofs`).  Nine safety properties and the action
property `ExitWakesWaiters`.  They are not inductive.  `IInv` adds where a
process is when it is in no list (`InvQueued`: only at the two points before its
own reschedule, and the terminal, which can be lost), who may be in which state
(`InvRoles`: idle never suspends itself, only the terminal blocks and waits),
what the variant still holds after the wake-up (`InvData`), that a reader that
was woken finds a key (`InvKeys`), that the shadow is right when a reschedule is
entered (`InvFlags`), and that pids are handed out in order (`InvPids`,
`InvBoot`).  `ProcessListsProofs` has what a move does to lists without
duplicates; every step of the scheduler is then one lemma for the lists and one
for the rest.

**LinkedList** (`LinkedListProofs`).  The lists the scheduler stands on.
`NodesInv` says that `next` leads from `head_` through the nodes of the list and
`prev` back (`Chains`), and that no node is in two places (`Places`).
`ChainAppend`, `ChainCons` and `ChainRemove` are what linking or unlinking one node
does to a chain; `PushBackKeeps`, `PushFrontKeeps` and `EraseKeeps` what an
operation does to all lists.  `EraseIfInv` adds that the iterator of `erase_if`
is on the list.  `NodesInvariant` is TLC's `IInv`, `SparesGoFirst` the action
property.  `ListsAreSequences` is the refinement: `move_to_if` happens at once in
`MovingLists` and one node at a time here.  While it runs the lists are mapped to
the outcome it will have: what was visited, less what was picked, followed by what
is kept of the rest, and what will be picked in front of or behind the destination
(`OutcomeFrom`).  Each step of the loop leaves the outcome as it is
(`OutcomeStart`, `OutcomeSkip`, `OutcomePick`, `OutcomeErase`, `OutcomeEnd`).  With it
the lists of `Scheduler` stand on the pointers of `list.hpp`.

**Allocator** (`KernelHeapProofs`).  `IInv` is the conjunction of the shape
properties with `Aligned` and `FirstBlock`.  Alignment is what makes the rounding
of `calc_size_between` lose less than a header; `FirstBlock` gives
`EmptyIsWhole`.  `SplitKeeps`, `TakenKeeps`, `FreedKeeps` and `MergeKeeps` are
the four ways the list changes.  `PromiseKept` (Allocator implements Heap) and
`AllocationsAreBigEnough` need `NoneWraps`, that no request is above the word
size less 8: `align_to` of a larger one is 0, the request succeeds and nothing
as large is given.

**KernelHeap** (the same module).  `KernelIInv` says that `largest` is still
empty or an available entry that was looked at, and that the region the heap was
created in is the one computed from it.  So the heap lies in available memory and
off the kernel (`HeapIsInTheMap`, `HeapIsOffTheKernel`), its steps are steps of
`Allocator` (`KernelUsesAllocator`), and what is proved of that module holds of the
heap that boot creates: `KernelHeapKeepsPromise` and `KernelAllocations`, again
under `NoneWraps`.

**CircularBuffer** and **Keyboard** (`KeyboardProofs`).  The invariant of the
buffer says that the tail reaches the slot a pop works on only when the buffer is
full.  Each memory access of the pop leaves `waiting` unchanged, but for the store
to the head, which takes its first element; `OrderIsKept` is the refinement.
`Controller` is the invariant of the device: scan codes come only while the driver
listens, and one that waits in the controller has its interrupt pending; that is
`KeyboardNeverStuck`.  `KeyboardUsesBuffer` maps the keyboard's steps to the
buffer's, so that `KeyboardKeepsOrder` follows.

`TypedIsRead` is the refinement of `TypeAhead`: what is typed and not yet read is
what the buffer holds, then what the controller holds, then what is on the wire,
each as the characters of its strokes (`Typed`).  The mapping keeps those of a
sequence that are characters (`Written`); `WrittenAppend` and `WrittenConcat` say
what that does to a longer one.  A make code, its repeats and a prefix put no
character on the wire and a break code the key's own (`MakeAndBreak`), because the
table of characters has none for the code a prefix looks like (`NoCharacter`).
Then only three steps change what is typed (`KeyTypes`, `PushTypes`, `PullTypes`):
a release appends a character, a push into a full buffer drops the first one
behind it, and a pop takes the front.

**SleepClock** (`WordProofs`).  The invariant says where the timeout of a
sleeper stands against the timer: on time, wrapped and not yet looked at, wrapped
together with the timer at the first tick, or the largest word (`OnTime`,
`JustWrapped`, `WrappedTogether`, `Forever`).  `OnlyTheLargestIsLate` and
`OnlyWrappedAreEarly` follow for every width of the clock.

**Formatting** (`WordProofs`).  `Digits(b, n)` is the numeral of `n` in base `b`,
and `ValueOf` what a sequence of digits stands for: `DigitsValue` says that one is
the inverse of the other, `CountIs` that `digits_count` is the numeral's length,
`DigitsFit` that a word's numeral has room in the buffer, and in base 16 in
`MAX_LENGTH` places.  `FormatInv` is the invariant.  For an argument that is printed
as it is (`Asked`), it names the text that is being written (`Target`: a number with
its sign, or both numerals of a float around its dot) and says

- which words are still to be converted, and what was printed before them: nothing,
  or the first half of a `uint64_t` (`Left`);
- that what is left of a word is a front part of its numeral and `it` the place
  of its last digit (`Progress`);
- that the buffer holds exactly the characters of the text at the places written so
  far, and terminators everywhere else (`Shows` of `Before` or `During`).

`PieceFacts` says that the words left are parts of the text where they start, that
the dot is between the two of a float, and that the last one ends the text
(`InPlace`).  `ConvertPiece` and `DigitOfPiece` are then one step of `to_chars` on
any part of any text; `StepConvert`, `StepDigit`, `StepDigitsEnd`, `StepFloat`,
`StepParse` and `StepFlush` carry the invariant through the actions.  The buffer is
full when the value is zero (`ShownIs`), so `CountedIsWritten`, and what it shows is
read as the number (`SignedIs`), as the float (`FloatTextIs`) or, with a padded
second half, as the number of two words (`HalvesAre`), so `ArgumentIsPrinted`.
`FormatTypes` is type correctness for all arguments, the excluded ones too: every
word is given room that the buffer has, and the place of a digit is never above it,
and below it by no more digits than a word has (`TypeInv`).

What these proofs say of loops over data is by induction without the library's
induction theorems: those take an operator, so `Least` (a set of naturals has a
least element) gives `StrongInduction` and `Induction` over sets of naturals.  A
recursive function of the model (`Power`, `digits_count`, `Denotes`) is the one that
satisfies its equation: one lemma says that one exists, another that two agree
(`PowersExist` and `PowersAgree`, `NumeralsExist` and `NumeralsAgree`, `SumsExist`
and `SumsAgree`; `UptoExists` and `UptoAgrees` for `SelectSeq`), and from there on
its equation is all that is used.

**Interrupts** (`InterruptsProofs`).  The invariant gives the stack of every
process word by word: `NewStack` before it first runs, what the gate and the stub
pushed while it is in a handler, and the frame of `switch_task` above what called
`reschedule` while it is away (`Stacks`).  With who is on the CPU (`OneRuns`),
where interrupts can be on (`Masked`), whose values the registers hold
(`RegistersAre`) and which line is in service (`Service`), a frame is popped as it
was pushed (`FramePops`, `GaveUpLoads`, `WasPreemptedLoads`) and `ProcessesComeBack`
follows.  `LinesReleased` needs `Service` with the vectors of the two PICs
(`LineVector`).  `CallbackOfTheLine` and `FlatSegments` also need that what
`set_idt_entry` and `create_gdt_descriptor` pack into fields is what the processor
unpacks (`GateReaches`, `FlatFields`), by the arithmetic of splitting a word
(`DivMod`).

**Console** (`ConsoleProofs`, for `Screen`, `CommandLine` and `Tasks` too).  The
invariants `CursorKept`, `OneCursor`, `EchoIsInput` and `ClockInPlace` speak of
moments between keys or of one timer; `IInv` says what holds in between.

- `Drawn`: the display is the text and one cursor, before and after every call of
  the terminal.  Each of them is two or three steps of the implementation, in which
  `Undrawn` (the text without a cursor) holds; so `OneCursorShown`.
- `TasksInv`: which calls a task has yet to make, and with them whether it has
  saved a cursor, has a place, and holds the mutex, which one task at a time does.
  A task in the terminal is at one of the calls it makes with the mutex, hence the
  first half of `CursorStaysKept`.
  Places are counted by the timers that have one (`Placed`) and not by
  `task_count`, which is smaller when an increment was lost; so a place is always
  below the number of tasks, hence on the screen, which is the other half.
- `BufferInv`: a NUL ends what was typed unless the buffer is full.
- `LineInv`: what the shell has yet to print for a key and, of an undisturbed
  line, in which column it has arrived (`Prompted`, `TakingBack`).
- `EchoInv`, `ClockInv`: the two properties, at every point of a line and of a
  timer's round.

Where the shell's next character belongs depends on the timers: at the cursor, or
where the one timer that has taken it away found it (`HomeIs`).  A clock is
written on no character of the line, or the line is disturbed (`InLine`); that is
what `EchoIsTheInput` needs of a task's step.

`LineEdited` is the refinement of `LineEditor`: the input buffer up to its NUL is
the line, `Same` compares as strings are compared (`SameIs`), and the search of
`call_callback` stops at the first command of that name (`CallbackIs`), also when
the buffer is full and no NUL ends it.  `PaperShown` is that of `Paper`:
`buffered_screen` by rows is the sheet (`Sheet`), a character that is put is typed
on it (`SheetWritten`), and `scroll_down` is its first row torn off (`SheetUp`).

**Only model-checked**:

- the liveness properties `ReadyRuns`, `SleeperRuns` and `SleeperWakes` (liveness
  under fairness is outside what the proof system does);
- the violated properties, which have counterexamples.

## 5. Not modelled, and the plan

In this order:

1. What a section that was exposed leaves behind, in `Scheduler`.
2. What calls of the terminal that overlap leave behind, in `Console`, and
   `list_process`, which prints with interrupts masked.
3. The 64-bit timer that `uptime` reads in two halves.

Left out for good: writing pixels and characters to video memory, the logger
and the serial port (output only), fonts and the names of keys and errors
(constant data), the VGA text mode (not compiled, `kernel/config.hpp`), `stack`, `variant`
and the other wrappers of `hlib` (no state of their own that the kernel changes
step by step), `list_process` and `print` (output only), `push_front` of the
buffer (never called).
