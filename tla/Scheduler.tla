----------------------------- MODULE Scheduler -----------------------------
(***************************************************************************)
(* The HryOS scheduler (scheduler/scheduler.cpp), with everything it runs  *)
(* under: the interrupt flag and its software shadow (interrupts.cpp), the *)
(* two interrupt locks (int_lock.hpp), the timer and keyboard interrupts   *)
(* (pit.cpp, keyboard.cpp), the context switch (task_switch.asm), the boot *)
(* order (kernel.cpp) and the three kinds of process the kernel runs: the  *)
(* terminal, the idle process and the tasks that shell commands start.     *)
(*                                                                         *)
(* There is one CPU.  Code that runs with interrupts masked is one atomic  *)
(* step; every point at which a process can be interrupted is a state.  A  *)
(* lock masks interrupts in two instructions, the store to the shadow and  *)
(* then cli, so every critical section is two steps: "enter" does the      *)
(* store, the section's own action does cli, the body and the unlock.      *)
(***************************************************************************)
EXTENDS Integers, ProcessLists

CONSTANTS
    MaxPid,        \* bound: pids are 0..MaxPid (the code has 2^32 of them)
    SleepTimes,    \* the arguments sleep_ms is called with, in timer ticks
    KeyCapacity    \* keys the keyboard's circular_buffer can hold

ASSUME PidAssumption == MaxPid \in Nat /\ MaxPid >= 1
ASSUME SleepAssumption == SleepTimes \subseteq Nat \ {0}
ASSUME KeyAssumption == KeyCapacity \in Nat \ {0}

Pids == 0..MaxPid
Terminal == 0      \* command_line::init creates it first
Idle == 1          \* scheduler::init creates it second
nullptr == -1      \* current_process before the first process is switched to

States == {"empty", "running", "ready", "sleeping", "waiting", "blocked"}
Queues == {"ready", "sleeping", "waiting", "blocked"}

\* process::state_data, a variant.  A sleeper's value is the time it has left,
\* sleep_timeout - timer, down to -1 when the timeout has passed: the code
\* only ever compares the two (a 32-bit clock that wraps is left out).
\* A waiter's value is the pid it waits for.
DataTypes == {"none", "sleep", "waiting", "io"}
Unset == [type |-> "none", value |-> 0]

\* Where a process is, between two steps of its own.
Sections == {"block", "sleep", "wait", "create", "createWait", "exit"}
ProgramPoints ==
    Sections \cup {"task", "empty", "handle", "joining",
                   "yield", "reschedule", "pop"}

\* How a process left the CPU, hence where switch_to_task resumes it: in
\* process_starter, in the timer interrupt, or in a reschedule it called.
Contexts == {"new", "irq", "call"}

VARIABLES
    phase,      \* kernel_main: "command_line", "scheduler", "late", "running"
    processes,  \* the list of all processes
    next_pid,   \* pid_generator
    state,      \* process::state of each process
    data,       \* process::state_data of each process
    lists,      \* the list of each state, a sequence of processes
    current,    \* current_process
    keys,       \* number of key events in the keyboard's buffer
    iflag,      \* EFLAGS.IF of the CPU
    enabled,    \* interrupts_enabled, the shadow of iflag
    pc,         \* program point of each process
    ctx,        \* context each process was left in
    was,        \* was_enabled_ of the weak_int_lock in reschedule's frame
    exposed     \* a heap call has unmasked interrupts inside a section

cpu == <<iflag, enabled>>
frames == <<pc, ctx, was>>
queueing == <<lists, state, current>>
vars == <<phase, processes, next_pid, state, data, lists, current, keys,
          iflag, enabled, pc, ctx, was, exposed>>

TypeOK ==
    /\ phase \in {"command_line", "scheduler", "late", "running"}
    /\ processes \subseteq Pids
    /\ next_pid \in 0..(MaxPid + 1)
    /\ state \in [Pids -> States]
    /\ data \in [Pids -> [type : DataTypes, value : Int]]
    /\ lists \in [Queues -> Seq(Pids)]
    /\ current \in Pids \cup {nullptr}
    /\ keys \in 0..KeyCapacity
    /\ iflag \in BOOLEAN
    /\ enabled \in BOOLEAN
    /\ pc \in [Pids -> ProgramPoints]
    /\ ctx \in [Pids -> Contexts]
    /\ was \in [Pids -> BOOLEAN]
    /\ exposed \in BOOLEAN

----------------------------------------------------------------------------
(* Steps of the lists and states of processes; ProcessLists has the lists. *)

WithState(st, T, s) == [p \in Pids |-> IF p \in T THEN s ELSE st[p]]

----------------------------------------------------------------------------
(* reschedule, on lists ls and states st with cur as the current process:  *)
(* the lists, states and current process it leaves.                        *)

ExpiredEarly(ls, st, d) ==      \* mutant: >= for >
    {p \in ToSet(ls["sleeping"]) : st[p] = "sleeping" /\ d[p].value <= 0}

Expired(ls, st, d) ==
    {p \in ToSet(ls["sleeping"]) : st[p] = "sleeping" /\ d[p].value < 0}

\* The current process, if it has to be put back at the end of the list.
PreemptedAlways(st, cur) == IF cur # nullptr THEN {cur} ELSE {} \* mutant
Preempted(st, cur) == IF cur # nullptr /\ st[cur] = "running" THEN {cur} ELSE {}

Rescheduled(ls, st, d, cur) ==
    LET woken == Expired(ls, st, d)
        ls1 == MoveToFront(ls, "sleeping", "ready", woken)
        st1 == WithState(st, woken, "ready")
        next == Head(ls1["ready"])
        ls2 == [ls1 EXCEPT !["ready"] = Tail(@)]
        preempted == Preempted(st1, cur)
        ls3 == IF preempted = {} THEN ls2
               ELSE [ls2 EXCEPT !["ready"] = Append(@, cur)]
        st3 == WithState(st1, preempted, "ready")
    IN  IF ls1["ready"] = <<>>
          THEN [lists |-> ls1, state |-> st1, current |-> cur]
        ELSE IF next = cur
          THEN [lists |-> ls2, state |-> st1, current |-> cur]
        ELSE IF st3[next] = "ready"
          THEN [lists |-> ls3, state |-> [st3 EXCEPT ![next] = "running"],
                current |-> next]
          ELSE [lists |-> ls3, state |-> st3, current |-> cur]

Becomes(r) == lists' = r.lists /\ state' = r.state /\ current' = r.current

\* switch_to_task returns in the frame the process p was left in: a new one
\* enables interrupts, an interrupted one returns through pic_handler and
\* iret, and one that called reschedule leaves its weak_int_lock.
ResumedWithoutEnable(p) ==      \* mutant: process_starter does not enable
    LET on == ctx[p] = "irq" \/ was[p]
    IN  iflag' = on /\ enabled' = on

ResumedWith(p) ==
    LET on == ctx[p] \in {"new", "irq"} \/ was[p]
    IN  iflag' = on /\ enabled' = on

Goto(point) == pc' = [pc EXCEPT ![current] = point]

\* Where a process is once the reschedule at the end of its section returns.
AfterCall(p) == IF data[p].type = "io" THEN "pop" ELSE "task"

----------------------------------------------------------------------------
(* Boot: interrupts_lock makes enable and disable do nothing until         *)
(* late_init, and GRUB enters the kernel with interrupts masked.           *)

interrupts_lock == phase # "running"

Init ==
    /\ phase = "command_line"
    /\ processes = {} /\ next_pid = 0
    /\ state = [p \in Pids |-> "empty"]
    /\ data = [p \in Pids |-> Unset]
    /\ lists = [q \in Queues |-> <<>>]
    /\ current = nullptr
    /\ keys = 0
    /\ iflag = FALSE /\ enabled = FALSE
    /\ pc = [p \in Pids |-> "task"]
    /\ ctx = [p \in Pids |-> "new"]
    /\ was = [p \in Pids |-> FALSE]
    /\ exposed = FALSE

\* Masks interrupts up to the store; the section's own action does the cli.
Enter(section) ==
    /\ enabled' = FALSE
    /\ Goto(section)
    /\ UNCHANGED <<phase, processes, next_pid, data, queueing, keys, iflag,
                   ctx, was, exposed>>

\* ~direct_int_lock.
Unlock ==
    /\ iflag' = (interrupts_lock => iflag)
    /\ enabled' = (interrupts_lock => enabled)

\* The body of create_process.
NewProcess ==
    /\ next_pid \in Pids
    /\ processes' = processes \cup {next_pid}
    /\ state' = [state EXCEPT ![next_pid] = "ready"]
    /\ lists' = [lists EXCEPT !["ready"] = Append(@, next_pid)]
    /\ next_pid' = next_pid + 1
    /\ Unlock
    /\ UNCHANGED <<data, current, keys, ctx, was, exposed>>

CommandLineInit ==
    /\ phase = "command_line"
    /\ NewProcess
    /\ phase' = "scheduler"
    /\ UNCHANGED pc

SchedulerInit ==
    /\ phase = "scheduler"
    /\ NewProcess
    /\ phase' = "late"
    /\ UNCHANGED pc

\* late_init, and the reschedule that never returns to kernel_main.
FirstReschedule ==
    /\ phase = "late"
    /\ LET r == Rescheduled(lists, state, data, current)
       IN  Becomes(r) /\ ResumedWith(r.current)
    /\ phase' = "running"
    /\ UNCHANGED <<processes, next_pid, data, keys, frames, exposed>>

----------------------------------------------------------------------------
(* Interrupts.  The gates clear IF; pic_handler ends by setting the shadow *)
(* and iret sets IF again.                                                 *)

Interruptible == phase = "running" /\ iflag /\ ~exposed

Elapsed(p) ==
    IF data[p].type = "sleep" /\ data[p].value >= 0
    THEN [data[p] EXCEPT !.value = @ - 1] ELSE data[p]

TickWithoutReschedule ==        \* mutant
    /\ Interruptible
    /\ data' = [p \in Pids |-> Elapsed(p)]
    /\ iflag' = TRUE /\ enabled' = TRUE
    /\ UNCHANGED <<phase, processes, next_pid, keys, queueing, frames, exposed>>

\* irq 0: timer++ and reschedule, from the frame of the current process.
Tick ==
    /\ Interruptible
    /\ data' = [p \in Pids |-> Elapsed(p)]
    /\ LET r == Rescheduled(lists, state, data', current)
       IN  /\ Becomes(r)
           /\ IF r.current = current
                THEN iflag' = TRUE /\ enabled' = TRUE /\ UNCHANGED ctx
                ELSE ResumedWith(r.current) /\ ctx' = [ctx EXCEPT ![current] = "irq"]
    /\ UNCHANGED <<phase, processes, next_pid, keys, pc, was, exposed>>

\* push_back drops the event when the buffer is full.
Pushed == IF keys < KeyCapacity THEN keys + 1 ELSE keys

\* irq 1: the key is put in the buffer, and notify_blocked moves every reader to the front of the ready list.
Key ==
    /\ Interruptible
    /\ keys' = Pushed
    /\ LET readers == {p \in ToSet(lists["blocked"]) :
                          state[p] = "blocked" /\ data[p].type = "io"}
       IN  /\ lists' = MoveToFront(lists, "blocked", "ready", readers)
           /\ state' = WithState(state, readers, "ready")
    /\ enabled' = TRUE
    /\ UNCHANGED <<phase, processes, next_pid, data, current, iflag, frames,
                   exposed>>

----------------------------------------------------------------------------
(* Steps of the current process.                                           *)

At(point) ==
    /\ phase = "running" /\ ~exposed
    /\ current # nullptr /\ pc[current] = point

\* keyboard::pull_key, first part: the emptiness check, and the pop when
\* there is a key.  The check and the block are separate steps.
PullKey ==
    /\ At("task") /\ current = Terminal
    /\ IF keys = 0
         THEN Goto("empty") /\ UNCHANGED keys
         ELSE Goto("handle") /\ keys' = keys - 1
    /\ UNCHANGED <<phase, processes, next_pid, data, queueing, cpu, ctx, was,
                   exposed>>

EnterBlock == At("empty") /\ Enter("block")

\* keyboard::pull_key, second part: pop after block_current_process returned.
PopKey ==
    /\ At("pop")
    /\ keys' = IF keys = 0 THEN 0 ELSE keys - 1
    /\ Goto("handle")
    /\ UNCHANGED <<phase, processes, next_pid, data, queueing, cpu, ctx, was,
                   exposed>>

\* send_input: most keys start nothing; enter may run "rt" or "sleep", which
\* create a process, or "wait", which creates one and waits for it.
HandleKey ==
    /\ At("handle")
    /\ Goto("task")
    /\ UNCHANGED <<phase, processes, next_pid, data, queueing, keys, cpu, ctx,
                   was, exposed>>

EnterCreate ==
    /\ At("handle") /\ next_pid \in Pids
    /\ \E section \in {"create", "createWait"} : Enter(section)

Create ==
    /\ At("create") \/ At("createWait")
    /\ ~enabled      \* otherwise HeapUnmasks: new process() allocates
    /\ NewProcess
    /\ Goto(IF pc[current] = "create" THEN "task" ELSE "joining")
    /\ UNCHANGED phase

EnterWait == At("joining") /\ Enter("wait")

\* Tasks sleep as often as they like and may end after that (task_base never
\* ends, spanko sleeps once); the idle process only executes hlt.
EnterSleep == At("task") /\ current \notin {Terminal, Idle} /\ Enter("sleep")

EnterExit ==
    /\ At("task") /\ current \notin {Terminal, Idle}
    /\ data[current].type = "sleep"
    /\ Enter("exit")

\* The common body of block_current_process, sleep_ms and wait_for.
Suspend(s, d) ==
    /\ state' = [state EXCEPT ![current] = s]
    /\ data' = [data EXCEPT ![current] = d]
    /\ lists' = [lists EXCEPT ![s] = Append(@, current)]
    /\ Unlock
    /\ Goto("yield")
    /\ UNCHANGED <<phase, processes, next_pid, current, keys, ctx, was, exposed>>

Block == At("block") /\ Suspend("blocked", [type |-> "io", value |-> 0])

Sleep ==
    /\ At("sleep")
    /\ \E t \in SleepTimes : Suspend("sleeping", [type |-> "sleep", value |-> t])

\* Only the terminal creates processes once the system runs, so the pid its
\* last create_process returned is still next_pid - 1.
Wait ==
    /\ At("wait")
    /\ Suspend("waiting", [type |-> "waiting", value |-> next_pid - 1])

LockBeforeRead ==               \* mutant: the lock reads the shadow it cleared
    /\ At("yield")
    /\ was' = [was EXCEPT ![current] = FALSE]
    /\ enabled' = FALSE
    /\ Goto("reschedule")
    /\ UNCHANGED <<phase, processes, next_pid, data, queueing, keys, iflag, ctx,
                   exposed>>

\* weak_int_lock: reads the shadow into its frame, then locks.
EnterReschedule ==
    /\ At("yield")
    /\ was' = [was EXCEPT ![current] = enabled]
    /\ enabled' = FALSE
    /\ Goto("reschedule")
    /\ UNCHANGED <<phase, processes, next_pid, data, queueing, keys, iflag, ctx,
                   exposed>>

Reschedule ==
    /\ At("reschedule")
    /\ LET r == Rescheduled(lists, state, data, current)
       IN  /\ Becomes(r)
           /\ IF r.current = current
                THEN /\ iflag' = was[current] /\ enabled' = was[current]
                     /\ UNCHANGED ctx
                ELSE ResumedWith(r.current) /\ ctx' = [ctx EXCEPT ![current] = "call"]
    /\ Goto(AfterCall(current))
    /\ UNCHANGED <<phase, processes, next_pid, data, keys, was, exposed>>

\* The processes that wait for the end of the current one.
NoWaiters == {}                                                 \* mutant
AllWaiters == {p \in ToSet(lists["waiting"]) : state[p] = "waiting"} \* mutant
Waiters == {p \in ToSet(lists["waiting"]) :
               state[p] = "waiting" /\ data[p].value = current}

\* process_starter after the task returned: wake the waiters, leave the
\* stack, erase and delete the process, reschedule.
Exit ==
    /\ At("exit")
    /\ ~enabled      \* otherwise HeapUnmasks: delete frees
    /\ LET woken == MoveToBack(lists, "waiting", "ready", Waiters)
           erased == WithState(WithState(state, Waiters, "ready"), {current}, "empty")
           r == Rescheduled(woken, erased, data, nullptr)
       IN  Becomes(r) /\ ResumedWith(r.current)
    /\ processes' = processes \ {current}
    /\ data' = [data EXCEPT ![current] = Unset]
    /\ Goto("task")
    /\ UNCHANGED <<phase, next_pid, keys, ctx, was, exposed>>

\* An interrupt between the store and the cli of a lock leaves the shadow TRUE
\* with interrupts masked.  A heap call in such a section takes the shadow for
\* the flag and unmasks interrupts when it returns.  Creating and deleting a
\* process always call the heap; the push_back of a list calls it unless
\* the list has kept a spare node.  The model follows the system no further.
HeapUnmasks ==
    /\ phase = "running" /\ ~exposed /\ current # nullptr /\ enabled
    /\ \/ pc[current] \in Sections
       \/ pc[current] = "reschedule" /\ Expired(lists, state, data) # {}
    /\ exposed' = TRUE /\ iflag' = TRUE
    /\ UNCHANGED <<phase, processes, next_pid, data, queueing, keys, enabled, frames>>

Unfollowed == exposed /\ UNCHANGED vars

Boot == CommandLineInit \/ SchedulerInit \/ FirstReschedule

\* What the current process does without a choice once it is under way.
Proceed ==
    \/ PullKey \/ EnterBlock \/ PopKey \/ Create \/ EnterWait
    \/ Block \/ Sleep \/ Wait \/ EnterReschedule \/ Reschedule \/ Exit

Choose == HandleKey \/ EnterCreate \/ EnterSleep \/ EnterExit

Next ==
    \/ Boot \/ Tick \/ Key \/ Proceed \/ Choose \/ HeapUnmasks \/ Unfollowed

\* The boot code runs to its end, and the PIT repeats (mode 3): it raises
\* irq 0 again and again, and is served whenever interrupts are not masked.
Fairness == WF_vars(Boot) /\ WF_vars(Tick)

Spec == Init /\ [][Next]_vars /\ Fairness

----------------------------------------------------------------------------
(* What holds of the scheduler before exposure: executions end with        *)
(* HeapUnmasks, and after it the code can break what is said here.          *)

\* Before exposure a process is in a list at most once, only in the list of its
\* state, and only while it exists: no list keeps a process that exit has deleted.
ListsSound ==
    \A q \in Queues :
        /\ IsInjective(lists[q])
        /\ \A p \in ToSet(lists[q]) : p \in processes /\ state[p] = q

\* At most one process is running, and it is the one on the CPU; the process
\* on the CPU exists (the assertions of process_starter, scheduler.cpp:125).
RunningIsCurrent ==
    /\ current # nullptr => current \in processes
    /\ \A p \in Pids : state[p] = "running" => p = current

\* The idle process can always be switched to, so the reschedule of an ending
\* process and that of kernel_main never return to their dead stack.
IdleRunnable ==
    /\ phase = "running" => current # nullptr
    /\ Idle \in processes => current = Idle \/ Idle \in ToSet(lists["ready"])

\* When pull_key pops after having blocked there is a key, so the value() of
\* the optional it pops is never read empty (keyboard.cpp:57).
PullNeverEmpty == At("pop") => keys > 0

\* Before exposure every process that does not read the keyboard is on the CPU or
\* in the list of its state, so that something can still wake or run it.  (After
\* it sleep_ms can be preempted inside its push_back, and its process is in no
\* list.)
NonReadersNeverLost ==
    \A p \in processes \ {Terminal} :
        p = current \/ (state[p] \in Queues /\ p \in ToSet(lists[state[p]]))

\* Interrupts are masked during the whole of boot, when there may be no idle
\* process yet, and are on at every point where a process may be interrupted:
\* no path through the locks and the context switch leaves them off.
InterruptsRestored == ~exposed => (iflag <=> phase = "running")

\* A process is back in its own code after sleep_ms only when more than the
\* time it asked for has passed.
SleepReturnsLate ==
    At("task") /\ data[current].type = "sleep" => data[current].value < 0

\* wait_for returns only after the process waited for has been deleted.  That it
\* returns is not said: of a process that is deleted before, it never does.
WaitReturnsAfterExit ==
    /\ At("task") \/ At("handle")
    /\ data[current].type = "waiting"
    => data[current].value \notin processes

\* The end of a process wakes all that wait for it in the same step, which is the
\* only one that does.
ExitWakesWaiters ==
    [][\A p \in processes : state[p] = "waiting" /\ data[p].value \in processes \ processes'
                            => state'[p] # "waiting"]_vars

\* A process in the ready list gets the CPU: neither processes that wake up
\* to the front of the list nor new ones can keep it waiting forever.
ReadyRuns ==
    \A p \in Pids : p \in ToSet(lists["ready"]) ~> (p = current \/ exposed)

\* A sleeping process gets the CPU again.
SleeperRuns ==
    \A p \in Pids : (state[p] = "sleeping" /\ p # current) ~> (p = current \/ exposed)

----------------------------------------------------------------------------
(* What the comments of process::state say of it, and the code does not do.*)

\* process.hpp:43, "ready to run": a ready process can be run, that is, it is
\* on the CPU or in the ready list.
ReadyCanRun ==
    \A p \in processes :
        state[p] = "ready" => p = current \/ p \in ToSet(lists["ready"])

\* process.hpp:46, "blocked by sth": a process blocked on the keyboard while
\* there is a key to read does not stay blocked.
BlockedBySomething ==
    (state[Terminal] = "blocked" /\ keys > 0)
        ~> (state[Terminal] # "blocked" \/ exposed)

\* The CPU executes the current process, once the code it runs has no choice.
RunningFairness == Fairness /\ WF_vars(Proceed)
RunningSpec == Init /\ [][Next]_vars /\ RunningFairness

----------------------------------------------------------------------------
(* The inductive invariant behind the safety properties above.             *)

Suspended == {"sleeping", "waiting", "blocked"}

\* Pids are handed out in order, during boot to the terminal and to idle, and
\* never again; the slots of the others are empty.
InvPids ==
    /\ phase = "command_line" => next_pid = 0
    /\ phase = "scheduler" => next_pid = 1
    /\ phase = "late" => next_pid = 2
    /\ phase = "running" => next_pid >= 2
    /\ Terminal < next_pid => Terminal \in processes
    /\ Idle < next_pid => Idle \in processes
    /\ \A p \in processes : p < next_pid
    /\ \A p \in Pids : p \in processes <=> state[p] # "empty"

InvBoot ==
    /\ phase = "running" => current # nullptr
    /\ phase # "running" =>
          current = nullptr /\ ~exposed /\ \A p \in processes : state[p] = "ready"

\* A suspended process is in its list; the current one is in no list while it
\* runs code of its own.  Only the terminal can be ready and in no list.
InvQueued ==
    /\ \A p \in processes : state[p] \in Suspended => p \in ToSet(lists[state[p]])
    /\ current # nullptr /\ pc[current] \notin {"yield", "reschedule"} =>
          state[current] \notin Suspended /\ current \notin ToSet(lists["ready"])
    /\ \A p \in processes \ {Terminal} :
          /\ p = current => state[p] # "ready"
          /\ p # current /\ state[p] = "ready" => p \in ToSet(lists["ready"])
          /\ p = current /\ state[p] = "sleeping" => data[p].value >= 1

\* Who runs what, and so what each process can be suspended for.
InvRoles ==
    /\ pc[Terminal] \notin {"sleep", "exit"}
    /\ state[Terminal] # "sleeping" /\ data[Terminal].type # "sleep"
    /\ pc[Idle] = "task"
    /\ state[Idle] \notin Suspended /\ data[Idle].type = "none"
    /\ \A p \in Pids \ {Terminal, Idle} :
          /\ pc[p] \in {"task", "sleep", "yield", "reschedule", "exit"}
          /\ state[p] \notin {"waiting", "blocked"}
          /\ data[p].type \in {"none", "sleep"}

\* The variant holds what the state says, and what it holds outlives the wait.
InvData ==
    \A p \in Pids :
        /\ state[p] = "sleeping" => data[p].type = "sleep"
        /\ state[p] = "waiting" => data[p].type = "waiting"
        /\ state[p] = "blocked" => data[p].type = "io"
        /\ data[p].type = "sleep" /\ state[p] # "sleeping" => data[p].value < 0
        /\ data[p].type = "waiting" => data[p].value < next_pid
        /\ data[p].type = "waiting" /\ state[p] # "waiting" =>
              data[p].value \notin processes

\* A reader that has been woken finds the key that woke it.
InvKeys ==
    /\ pc[Terminal] = "pop" => data[Terminal].type = "io"
    /\ /\ data[Terminal].type = "io" /\ state[Terminal] # "blocked"
       /\ pc[Terminal] \in {"yield", "reschedule", "pop"}
       => keys > 0

\* The shadow is right whenever a process calls reschedule, so every weak
\* lock a switch leaves behind will turn interrupts on again.
InvFlags ==
    /\ ~exposed => (iflag <=> phase = "running")
    /\ current # nullptr /\ ~exposed /\ pc[current] \notin Sections \cup {"reschedule"}
          => enabled
    /\ \A p \in Pids : ctx[p] = "call" \/ pc[p] = "reschedule" => was[p]

\* All of this holds in every state before exposure: it is what each step of the
\* code relies on and must leave behind.
IInv ==
    /\ TypeOK /\ ListsSound /\ RunningIsCurrent
    /\ InvPids /\ InvBoot /\ InvQueued /\ InvRoles /\ InvData /\ InvKeys /\ InvFlags
============================================================================
