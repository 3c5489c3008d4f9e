----------------------------- MODULE SleepClock -----------------------------
(***************************************************************************)
(* The clock of the sleepers: the PIT as pit.cpp programs it, the timer it *)
(* drives, of which get_timer is the low word, and the timeouts that       *)
(* sleep_ms computes and reschedule compares, all modulo 2^32.  Scheduler  *)
(* has the lists and the switches, with the time left for the timeout.     *)
(***************************************************************************)
EXTENDS Integers

CONSTANTS
    TimerWord,  \* 2^32
    Sleepers,   \* processes
    Times,      \* for which they sleep (1000 and 2000 ms)
    Cap         \* bound: how far slept counts, longer than anybody sleeps

ASSUME TimerAssumption ==
    /\ TimerWord \in Nat \ {0} /\ Times \subseteq 1..(TimerWord - 1)
    /\ Cap \in Nat /\ \A t \in Times : t + 1 < Cap

VARIABLES
    pit,       \* channel 0: its mode, what it counts from, whether it has fired
    timer,     \* the low word of it
    sleeping,  \* the processes in the list of sleepers
    timeout,   \* sleep_timeout of each
    asked,     \* history: the time it sleeps for
    slept      \* history: the ticks since then, up to Cap

clock_vars == <<pit, timer, sleeping, timeout, asked, slept>>

----------------------------------------------------------------------------
(* pit::init and the device.                                               *)

OSCILLATOR_SPEED == 1193182
CLOCK_SPEED == 1000
divisor == OSCILLATOR_SPEED \div CLOCK_SPEED

\* channel_0 | both | mode_3, of which the device takes bits 1 to 3 as the mode.
OneShot == 0 * 64 + 3 * 16 + 0 * 2   \* mutant: mode_0
control == 0 * 64 + 3 * 16 + 3 * 2
ModeOf(byte) == (byte \div 2) % 8
Periodic == {2, 3}

ClockInit ==
    /\ pit = [mode |-> 0, counts |-> 0, fired |-> FALSE]
    /\ timer = 0
    /\ sleeping = {}
    /\ timeout = [p \in Sleepers |-> 0]
    /\ asked = [p \in Sleepers |-> 0]
    /\ slept = [p \in Sleepers |-> 0]

\* The low byte of the divisor is written first and then the high one.
init ==
    /\ pit.counts = 0
    /\ LET low == divisor % 256
           high == (divisor \div 256) % 256
       IN  pit' = [mode |-> ModeOf(control), counts |-> low + 256 * high,
                   fired |-> FALSE]
    /\ UNCHANGED <<timer, sleeping, timeout, asked, slept>>

\* Only a channel that repeats fires again.
Fires == pit.counts > 0 /\ (pit.mode \in Periodic \/ ~pit.fired)

----------------------------------------------------------------------------
(* The sleepers.                                                           *)

ExpiredEarly(p, now) == now >= timeout[p]   \* mutant
Expired(p, now) == now > timeout[p]

\* reschedule, when get_timer() is now.
Wake(now) == sleeping' = {p \in sleeping : ~Expired(p, now)}

\* irq_callback.
Tick ==
    /\ Fires
    /\ pit' = [pit EXCEPT !.fired = TRUE]
    /\ timer' = (timer + 1) % TimerWord
    /\ slept' = [p \in Sleepers |-> IF p \in sleeping /\ slept[p] < Cap
                                      THEN slept[p] + 1 ELSE slept[p]]
    /\ Wake(timer')
    /\ UNCHANGED <<timeout, asked>>

\* Any other reschedule: of a process that suspends itself.
Reschedule ==
    /\ Wake(timer)
    /\ UNCHANGED <<pit, timer, timeout, asked, slept>>

\* sleep_ms, up to its reschedule.
KeepsCarry(t) == timer + t   \* mutant: the sum is not cut to the word
TimeoutOf(t) == (timer + t) % TimerWord
sleep_ms(p, t) ==
    /\ p \notin sleeping /\ pit.counts > 0
    /\ sleeping' = sleeping \cup {p}
    /\ timeout' = [timeout EXCEPT ![p] = TimeoutOf(t)]
    /\ asked' = [asked EXCEPT ![p] = t]
    /\ slept' = [slept EXCEPT ![p] = 0]
    /\ UNCHANGED <<pit, timer>>

ClockNext ==
    \/ init \/ Tick \/ Reschedule
    \/ \E p \in Sleepers, t \in Times : sleep_ms(p, t)

\* Boot goes on, and the device counts.
ClockSpec == ClockInit /\ [][ClockNext]_clock_vars /\ WF_clock_vars(init) /\ WF_clock_vars(Tick)

----------------------------------------------------------------------------
(* What holds of sleeping.                                                 *)

\* The sum in sleep_ms was above the word.
Wrapped(p) == timeout[p] < asked[p]

\* Nobody is woken before its time, unless its timeout wrapped: it is then below
\* the timer, and the next reschedule takes it for one of the past.
SleepsLongEnough ==
    [][\A p \in sleeping \ sleeping' : slept'[p] > asked[p] \/ Wrapped(p)]_clock_vars

\* Nobody sleeps longer than it asked for, whether its timeout wrapped or not,
\* but one whose timeout is the largest word: the timer is never above it.
SleepsNoLonger ==
    \A p \in sleeping : slept[p] > asked[p] => timeout[p] = TimerWord - 1

\* Every other sleeper wakes up, since the PIT goes on.
SleeperWakes ==
    \A p \in Sleepers :
        p \in sleeping /\ timeout[p] # TimerWord - 1 ~> p \notin sleeping
=============================================================================
