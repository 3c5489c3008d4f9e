----------------------------- MODULE WordProofs -----------------------------
(***************************************************************************)
(* Proofs about words: those of the timer, for every width of the clock    *)
(* and every set of sleepers, of whom it wakes early and who is the only   *)
(* one it never wakes; and those that are printed, for every width and     *)
(* every base, that what is printed reads as the number.                   *)
(***************************************************************************)
EXTENDS SleepClock, Formatting, SequenceTheorems, WellFoundedInduction, TLAPS

----------------------------------------------------------------------------
(* SleepClock: sums modulo TimerWord.                                      *)

LEMMA TimerSum ==
  ASSUME NEW i \in 0..(TimerWord - 1), NEW t \in 0..(TimerWord - 1)
  PROVE  (i + t) % TimerWord = IF i + t < TimerWord THEN i + t ELSE i + t - TimerWord
PROOF
<1>0. TimerWord \in Nat /\ i \in Nat /\ t \in Nat /\ i < TimerWord /\ t < TimerWord /\ TimerWord > 0
  BY TimerAssumption
<1>1. CASE i + t < TimerWord
  <2>1. i + t \in 0..(TimerWord - 1)
    BY <1>0, <1>1
  <2> QED BY <1>0, <1>1, <2>1
<1>2. CASE ~(i + t < TimerWord)
  <2>1. i + t - TimerWord \in 0..(TimerWord - 1)
    BY <1>0, <1>2
  <2>2. (i + t) % TimerWord = i + t - TimerWord
    BY <1>0, <2>1
  <2> QED BY <1>2, <2>2
<1> QED BY <1>1, <1>2

----------------------------------------------------------------------------
(* Where a sleeper stands against the clock.                               *)

\* Its timeout did not wrap, and the timer has not passed it.
OnTime(p) ==
    asked[p] <= timeout[p] /\ slept[p] <= asked[p]
    /\ timer = timeout[p] - asked[p] + slept[p]

\* It wrapped, and nothing rescheduled since.
JustWrapped(p) ==
    timeout[p] < asked[p] /\ slept[p] = 0
    /\ timer = timeout[p] - asked[p] + TimerWord

\* It wrapped, and the timer wrapped with it, at the first tick.
WrappedTogether(p) ==
    timeout[p] = asked[p] - 1 /\ slept[p] \in 1..asked[p]
    /\ timer = slept[p] - 1

\* The timer is never above its timeout.
Forever(p) == timeout[p] = TimerWord - 1

Stands(p) ==
    /\ asked[p] \in Times /\ asked[p] \in 1..(TimerWord - 1)
    /\ OnTime(p) \/ JustWrapped(p) \/ WrappedTogether(p) \/ Forever(p)

ClockInv ==
    /\ timer \in 0..(TimerWord - 1)
    /\ sleeping \subseteq Sleepers
    /\ timeout \in [Sleepers -> 0..(TimerWord - 1)]
    /\ asked \in [Sleepers -> 0..(TimerWord - 1)]
    /\ slept \in [Sleepers -> 0..Cap]
    /\ \A p \in sleeping : Stands(p)

LEMMA TimerBounds ==
  /\ TimerWord \in Nat /\ Cap \in Nat
  /\ \A t \in Times : t \in Nat /\ t >= 1 /\ t < TimerWord /\ t + 1 < Cap
BY TimerAssumption

\* A reschedule without a tick wakes only those who wrapped, and leaves the
\* others where they stood.
LEMMA WakeNow ==
  ASSUME ClockInv, NEW p \in sleeping, Expired(p, timer)
  PROVE  JustWrapped(p) \/ WrappedTogether(p)
PROOF
<1>1. /\ timer \in Nat /\ timer < TimerWord /\ timeout[p] \in Nat /\ timeout[p] < TimerWord
      /\ TimerWord \in Nat /\ asked[p] \in Nat /\ slept[p] \in Nat
  BY TimerBounds DEF ClockInv
<1>2. timer > timeout[p]
  BY DEF Expired
<1>3. ~Forever(p)
  BY <1>1, <1>2 DEF Forever
<1>4. ~OnTime(p)
  BY <1>1, <1>2 DEF OnTime
<1> QED BY <1>3, <1>4 DEF ClockInv, Stands

\* What a tick does of a sleeper's history and of the timer.
LEMMA TickFacts ==
  ASSUME ClockInv, Tick, NEW p \in sleeping
  PROVE  /\ timer' = IF timer + 1 < TimerWord THEN timer + 1 ELSE 0
         /\ slept'[p] = IF slept[p] < Cap THEN slept[p] + 1 ELSE slept[p]
         /\ timeout' = timeout /\ asked' = asked
         /\ p \in sleeping' <=> ~(timer' > timeout[p])
         /\ sleeping' \subseteq sleeping
PROOF
<1>0. TimerWord \in Nat /\ timer \in Nat /\ timer < TimerWord /\ p \in Sleepers
  BY TimerBounds DEF ClockInv
<1>1. timer' = IF timer + 1 < TimerWord THEN timer + 1 ELSE 0
  <2>1. 1 \in 0..(TimerWord - 1)
    BY TimerBounds DEF ClockInv, Stands
  <2> QED BY <1>0, <2>1, TimerSum DEF Tick, ClockInv
<1>2. slept'[p] = IF slept[p] < Cap THEN slept[p] + 1 ELSE slept[p]
  BY <1>0 DEF Tick
<1> QED BY <1>1, <1>2 DEF Tick, Wake, Expired

\* Where it stands after a tick that does not wake it.
LEMMA TickStands ==
  ASSUME ClockInv, Tick, NEW p \in sleeping, p \in sleeping'
  PROVE  Stands(p)'
PROOF
<1>0. /\ TimerWord \in Nat /\ timer \in Nat /\ timer < TimerWord
      /\ timeout[p] \in Nat /\ timeout[p] < TimerWord
      /\ asked[p] \in Nat /\ asked[p] >= 1 /\ asked[p] + 1 < Cap
      /\ asked[p] < TimerWord /\ slept[p] \in Nat /\ Cap \in Nat
  BY TimerBounds DEF ClockInv, Stands
<1>1. /\ timer' = IF timer + 1 < TimerWord THEN timer + 1 ELSE 0
      /\ slept'[p] = IF slept[p] < Cap THEN slept[p] + 1 ELSE slept[p]
      /\ timeout'[p] = timeout[p] /\ asked'[p] = asked[p]
      /\ ~(timer' > timeout[p])
  BY TickFacts
<1>2. asked'[p] \in Times /\ asked'[p] \in 1..(TimerWord - 1)
  BY <1>1 DEF ClockInv, Stands
<1>3. CASE OnTime(p)
  <2>1. timer < TimerWord - 1 => OnTime(p)'
    BY <1>0, <1>1, <1>3 DEF OnTime
  <2>2. ~(timer < TimerWord - 1) => Forever(p)'
    BY <1>0, <1>1, <1>3 DEF OnTime, Forever
  <2> QED BY <1>2, <2>1, <2>2 DEF Stands
<1>4. CASE JustWrapped(p)
  <2>1. WrappedTogether(p)'
    BY <1>0, <1>1, <1>4 DEF JustWrapped, WrappedTogether
  <2> QED BY <1>2, <2>1 DEF Stands
<1>5. CASE WrappedTogether(p)
  <2>1. WrappedTogether(p)'
    BY <1>0, <1>1, <1>5 DEF WrappedTogether
  <2> QED BY <1>2, <2>1 DEF Stands
<1>6. CASE Forever(p)
  <2>1. Forever(p)'
    BY <1>1, <1>6 DEF Forever
  <2> QED BY <1>2, <2>1 DEF Stands
<1> QED BY <1>3, <1>4, <1>5, <1>6 DEF ClockInv, Stands

\* Where a process stands that has just called sleep_ms.
LEMMA SleepStands ==
  ASSUME ClockInv, NEW p \in Sleepers, NEW t \in Times, sleep_ms(p, t)
  PROVE  /\ Stands(p)'
         /\ timeout'[p] \in 0..(TimerWord - 1)
PROOF
<1>0. /\ TimerWord \in Nat /\ timer \in Nat /\ timer < TimerWord
      /\ t \in Nat /\ t >= 1 /\ t < TimerWord
  BY TimerBounds DEF ClockInv
<1>1. /\ timeout'[p] = (timer + t) % TimerWord /\ asked'[p] = t /\ slept'[p] = 0
      /\ timer' = timer
  BY DEF sleep_ms, TimeoutOf, ClockInv
<1>2. timeout'[p] = IF timer + t < TimerWord THEN timer + t ELSE timer + t - TimerWord
  <2>1. timer \in 0..(TimerWord - 1) /\ t \in 0..(TimerWord - 1)
    BY <1>0
  <2> QED BY <1>1, <2>1, TimerSum
<1>3. asked'[p] \in Times /\ asked'[p] \in 1..(TimerWord - 1)
  BY <1>0, <1>1
<1>4. timer + t < TimerWord => OnTime(p)'
  <2> HAVE timer + t < TimerWord
  <2>1. timeout'[p] = timer + t
    BY <1>2
  <2>2. /\ asked'[p] <= timeout'[p] /\ slept'[p] <= asked'[p]
        /\ timer' = timeout'[p] - asked'[p] + slept'[p]
    BY <1>0, <1>1, <2>1
  <2> QED BY <2>2 DEF OnTime
<1>5. ~(timer + t < TimerWord) => JustWrapped(p)'
  BY <1>0, <1>1, <1>2 DEF JustWrapped
<1>6. timeout'[p] \in 0..(TimerWord - 1)
  BY <1>0, <1>2
<1> QED BY <1>3, <1>4, <1>5, <1>6 DEF Stands

----------------------------------------------------------------------------
(* The invariant.                                                          *)

LEMMA InitClockInv == ClockInit => ClockInv
BY TimerBounds, TimerAssumption DEF ClockInit, ClockInv

LEMMA StepClockInv == ClockInv /\ [ClockNext]_clock_vars => ClockInv'
PROOF
<1> SUFFICES ASSUME ClockInv, [ClockNext]_clock_vars PROVE ClockInv'
  OBVIOUS
<1> USE DEF ClockInv
<1>0. TimerWord \in Nat /\ Cap \in Nat /\ Times \subseteq 1..(TimerWord - 1)
  BY TimerAssumption
<1>1. CASE init
  BY <1>1 DEF init, Stands, OnTime, JustWrapped, WrappedTogether, Forever
<1>2. CASE Tick
  <2>1. timer' \in 0..(TimerWord - 1)
    BY <1>0, <1>2 DEF Tick
  <2>2. sleeping' \subseteq sleeping
    BY <1>2 DEF Tick, Wake
  <2>3. slept' \in [Sleepers -> 0..Cap]
    BY <1>0, <1>2 DEF Tick
  <2>4. timeout' = timeout /\ asked' = asked
    BY <1>2 DEF Tick
  <2>5. \A p \in sleeping' : Stands(p)'
    BY <1>2, <2>2, TickStands
  <2> QED BY <2>1, <2>2, <2>3, <2>4, <2>5
<1>3. CASE Reschedule
  BY <1>3 DEF Reschedule, Wake, Stands, OnTime, JustWrapped, WrappedTogether, Forever
<1>4. ASSUME NEW p \in Sleepers, NEW t \in Times, sleep_ms(p, t)
      PROVE  ClockInv'
  <2>1. Stands(p)' /\ timeout'[p] \in 0..(TimerWord - 1)
    BY <1>4, SleepStands
  <2>2. /\ timer' = timer /\ sleeping' = sleeping \cup {p}
        /\ asked' \in [Sleepers -> 0..(TimerWord - 1)]
        /\ slept' \in [Sleepers -> 0..Cap]
    BY <1>0, <1>4 DEF sleep_ms
  <2>3. timeout' \in [Sleepers -> 0..(TimerWord - 1)]
    BY <1>4, <2>1 DEF sleep_ms
  <2>4. ASSUME NEW q \in sleeping PROVE Stands(q)'
    <3>1. q # p /\ q \in Sleepers
      BY <1>4 DEF sleep_ms
    <3>2. /\ timeout'[q] = timeout[q] /\ asked'[q] = asked[q]
          /\ slept'[q] = slept[q] /\ timer' = timer
      BY <1>4, <3>1 DEF sleep_ms
    <3> QED BY <3>2 DEF Stands, OnTime, JustWrapped, WrappedTogether, Forever
  <2> QED BY <2>1, <2>2, <2>3, <2>4
<1>5. CASE UNCHANGED clock_vars
  BY <1>5 DEF clock_vars, Stands, OnTime, JustWrapped, WrappedTogether, Forever
<1> QED BY <1>1, <1>2, <1>3, <1>4, <1>5 DEF ClockNext

\* For every width of the clock, the sleepers stand against it as ClockInv says.
THEOREM ClockInvariance == ClockSpec => []ClockInv
PROOF
<1>1. ClockInit => ClockInv
  BY InitClockInv
<1>2. ClockInv /\ [ClockNext]_clock_vars => ClockInv'
  BY StepClockInv
<1> QED BY <1>1, <1>2, PTL DEF ClockSpec

\* A sleeper that is still in the list after its time has the largest timeout.
THEOREM OnlyTheLargestIsLate == ClockSpec => []SleepsNoLonger
PROOF
<1>1. ClockInv => SleepsNoLonger
  <2> SUFFICES ASSUME ClockInv, NEW p \in sleeping, slept[p] > asked[p]
               PROVE  timeout[p] = TimerWord - 1
    BY DEF SleepsNoLonger
  <2>1. asked[p] \in Nat /\ asked[p] >= 1 /\ slept[p] \in Nat
    BY TimerBounds DEF ClockInv, Stands
  <2>2. ~OnTime(p) /\ ~JustWrapped(p) /\ ~WrappedTogether(p)
    BY <2>1 DEF OnTime, JustWrapped, WrappedTogether
  <2> QED BY <2>2 DEF ClockInv, Stands, Forever
<1> QED BY <1>1, ClockInvariance, PTL

\* A step that wakes a sleeper before its time wakes one whose timeout wrapped.
LEMMA StepLongEnough ==
  ASSUME ClockInv, [ClockNext]_clock_vars, NEW p \in sleeping, p \notin sleeping'
  PROVE  slept'[p] > asked[p] \/ Wrapped(p)
PROOF
<1>0. /\ TimerWord \in Nat /\ timer \in Nat /\ timer < TimerWord
      /\ timeout[p] \in Nat /\ timeout[p] < TimerWord
      /\ asked[p] \in Nat /\ asked[p] >= 1 /\ asked[p] + 1 < Cap
      /\ slept[p] \in Nat /\ Cap \in Nat
  BY TimerBounds DEF ClockInv, Stands
<1>1. JustWrapped(p) \/ WrappedTogether(p) => Wrapped(p)
  BY <1>0 DEF JustWrapped, WrappedTogether, Wrapped
<1>2. CASE Tick
  <2>1. /\ timer' = IF timer + 1 < TimerWord THEN timer + 1 ELSE 0
        /\ slept'[p] = IF slept[p] < Cap THEN slept[p] + 1 ELSE slept[p]
        /\ timer' > timeout[p]
    BY <1>2, TickFacts
  <2>2. OnTime(p) => slept'[p] > asked[p]
    BY <1>0, <2>1 DEF OnTime
  <2>3. ~Forever(p)
    BY <1>0, <2>1 DEF Forever
  <2> QED BY <1>1, <2>2, <2>3 DEF ClockInv, Stands
<1>3. CASE Reschedule
  <2>1. Expired(p, timer)
    BY <1>3 DEF Reschedule, Wake
  <2> QED BY <1>1, <2>1, WakeNow
<1>4. ~init /\ ~UNCHANGED clock_vars
  BY DEF init, clock_vars
<1>5. ASSUME NEW q \in Sleepers, NEW t \in Times, sleep_ms(q, t)
      PROVE  FALSE
  BY <1>5 DEF sleep_ms
<1> QED BY <1>2, <1>3, <1>4, <1>5 DEF ClockNext

\* Nobody whose timeout did not wrap is woken before its time.
THEOREM OnlyWrappedAreEarly == ClockSpec => SleepsLongEnough
PROOF
<1>1. ClockInv /\ [ClockNext]_clock_vars
        => [\A p \in sleeping \ sleeping' : slept'[p] > asked[p] \/ Wrapped(p)]_clock_vars
  BY StepLongEnough
<1> QED BY <1>1, ClockInvariance, PTL DEF ClockSpec, SleepsLongEnough

----------------------------------------------------------------------------
(* Induction over numbers, by sets.                                        *)

LEMMA Least ==
  ASSUME NEW F, F \subseteq Nat, F # {}
  PROVE  \E i \in F : \A j \in F : i <= j
PROOF
<1> DEFINE R == {ss \in Nat \X Nat : ss[1] < ss[2]}
<1>1. IsWellFoundedOn(R, Nat)
  BY NatLessThanWellFounded DEF OpToRel
<1>2. \A x, y \in Nat : y < x => <<y, x>> \in R
  OBVIOUS
<1> HIDE DEF R
<1>3. PICK x \in F : \A y \in F : ~(<<y, x>> \in R)
  BY <1>1, WFMin, Zenon
<1>4. ASSUME NEW y \in F PROVE x <= y
  <2>1. x \in Nat /\ y \in Nat
    OBVIOUS
  <2>2. ~(y < x)
    BY <1>2, <1>3, <2>1, Zenon
  <2> QED BY <2>1, <2>2
<1> QED BY <1>4

LEMMA StrongInduction ==
  ASSUME NEW S, \A n \in Nat : (\A m \in 0..(n - 1) : m \in S) => n \in S
  PROVE  \A n \in Nat : n \in S
PROOF
<1> SUFFICES ASSUME Nat \ S # {} PROVE FALSE
  OBVIOUS
<1>1. PICK n \in Nat \ S : \A j \in Nat \ S : n <= j
  BY Least
<1>2. \A m \in 0..(n - 1) : m \in S
  BY <1>1
<1> QED BY <1>1, <1>2

LEMMA Induction ==
  ASSUME NEW S, 0 \in S, \A n \in Nat : n \in S => n + 1 \in S
  PROVE  \A n \in Nat : n \in S
PROOF
<1>1. ASSUME NEW n \in Nat, \A m \in 0..(n - 1) : m \in S PROVE n \in S
  <2>1. CASE n = 0
    BY <2>1
  <2>2. CASE n # 0
    <3>1. n - 1 \in Nat /\ n - 1 \in 0..(n - 1) /\ (n - 1) + 1 = n
      BY <2>2
    <3>2. n - 1 \in S
      BY <1>1, <3>1
    <3>3. (n - 1) + 1 \in S
      BY <3>1, <3>2
    <3> QED BY <3>1, <3>3
  <2> QED BY <2>1, <2>2
<1> QED BY <1>1, StrongInduction

----------------------------------------------------------------------------
(* Numerals.                                                               *)

Bases == {2, 8, 10, 16}

\* What a division does.
LEMMA QuotientIs ==
  ASSUME NEW b \in Nat, b >= 1, NEW m \in Nat
  PROVE  /\ m \div b \in Nat /\ m % b \in 0..(b - 1)
         /\ m = b * (m \div b) + (m % b)
PROOF
<1>1. m % b \in 0..(b - 1)
  OBVIOUS
<1>2. m = b * (m \div b) + (m % b)
  OBVIOUS
<1>3. m \div b \in Nat
  OBVIOUS
<1> QED BY <1>1, <1>2, <1>3

LEMMA Divide ==
  ASSUME NEW b \in Bases, NEW m \in Nat
  PROVE  /\ b \in Nat /\ b >= 2
         /\ m \div b \in Nat /\ m % b \in 0..(b - 1) /\ m = b * (m \div b) + (m % b)
         /\ m # 0 => m \div b < m
         /\ m < b <=> m \div b = 0
         /\ m < b => m % b = m
PROOF
<1> DEFINE q == m \div b
           r == m % b
<1>1. b \in Nat /\ b >= 2 /\ b >= 1
  BY DEF Bases
<1>2. q \in Nat /\ r \in 0..(b - 1) /\ m = b * q + r
  BY <1>1, QuotientIs
<1> HIDE DEF q, r
<1>3. CASE q = 0
  <2>1. b * q = 0 /\ m = r
    BY <1>1, <1>2, <1>3
  <2> QED BY <1>1, <1>2, <1>3, <2>1 DEF q, r
<1>4. CASE q # 0
  <2>1. q >= 1 /\ q \in Nat
    BY <1>2, <1>4
  <2>2. b * q >= 2 * q /\ b * q >= b
    <3>1. CASE b = 2
      BY <2>1, <3>1
    <3>2. CASE b = 8
      BY <2>1, <3>2
    <3>3. CASE b = 10
      BY <2>1, <3>3
    <3>4. CASE b = 16
      BY <2>1, <3>4
    <3> QED BY <3>1, <3>2, <3>3, <3>4 DEF Bases
  <2>3. b * q \in Nat
    BY <1>1, <2>1
  <2>4. q < m /\ ~(m < b)
    <3>1. PICK p \in Nat : p = b * q
      BY <2>3
    <3>2. p >= 2 * q /\ p >= b /\ m = p + r /\ r \in Nat
      BY <1>1, <1>2, <2>2, <3>1
    <3> QED BY <1>1, <2>1, <3>2
  <2>5. /\ q \in Nat /\ r \in 0..(b - 1) /\ m = b * q + r
        /\ m # 0 => q < m
        /\ m < b <=> q = 0
        /\ m < b => r = m
    BY <1>2, <1>4, <2>4
  <2> QED BY <1>1, <2>5, Zenon DEF q, r
<1> QED BY <1>3, <1>4

\* The digits of a number, the first one first.
IsNumerals(b, n, f) ==
    f = [m \in 0..n |-> IF m = 0 THEN <<>> ELSE Append(f[m \div b], m % b)]
Numeral(b, n) == (CHOOSE f : IsNumerals(b, n, f))[n]
Digits(b, n) == IF n = 0 THEN <<0>> ELSE Numeral(b, n)

LEMMA NumeralsExist ==
  ASSUME NEW b \in Bases PROVE \A n \in Nat : \E f : IsNumerals(b, n, f)
PROOF
<1> DEFINE S == {n \in Nat : \E f : IsNumerals(b, n, f)}
<1>1. 0 \in S
  <2> DEFINE f == [m \in 0..0 |-> <<>>]
  <2>1. f = [m \in 0..0 |-> IF m = 0 THEN <<>> ELSE Append(f[m \div b], m % b)]
    OBVIOUS
  <2> HIDE DEF f
  <2> QED BY <2>1 DEF IsNumerals
<1>2. ASSUME NEW n \in Nat, n \in S PROVE n + 1 \in S
  <2>1. PICK f : IsNumerals(b, n, f)
    BY <1>2
  <2> DEFINE more == Append(f[(n + 1) \div b], (n + 1) % b)
             g == [m \in 0..(n + 1) |-> IF m = n + 1 THEN more ELSE f[m]]
  <2>2. ASSUME NEW m \in 0..(n + 1)
        PROVE  g[m] = IF m = 0 THEN <<>> ELSE Append(g[m \div b], m % b)
    <3>1. m # 0 => m \div b \in 0..n
      <4>1. m # 0 => m \div b \in Nat /\ m \div b < m
        BY Divide
      <4> QED BY <4>1
    <3>2. m # 0 => g[m \div b] = f[m \div b]
      BY <3>1
    <3>3. CASE m = n + 1
      <4>1. g[m] = more /\ m # 0
        BY <3>3
      <4> QED BY <3>2, <3>3, <4>1
    <3>4. CASE m # n + 1
      <4>1. m \in 0..n /\ g[m] = f[m]
        BY <3>4
      <4>2. f[m] = IF m = 0 THEN <<>> ELSE Append(f[m \div b], m % b)
        BY <2>1, <4>1 DEF IsNumerals
      <4> QED BY <3>2, <4>1, <4>2
    <3> QED BY <3>3, <3>4
  <2> HIDE DEF more
  <2>3. IsNumerals(b, n + 1, g)
    BY <2>2 DEF IsNumerals
  <2> QED BY <2>3
<1> HIDE DEF S
<1>3. \A n \in Nat : n \in S
  BY <1>1, <1>2, Induction
<1> QED BY <1>3 DEF S

LEMMA NumeralsAgree ==
  ASSUME NEW b \in Bases, NEW n \in Nat, NEW k \in Nat,
         NEW f, IsNumerals(b, n, f), NEW g, IsNumerals(b, k, g),
         NEW m \in Nat, m <= n, m <= k
  PROVE  f[m] = g[m]
PROOF
<1> DEFINE S == {i \in Nat : i <= n /\ i <= k => f[i] = g[i]}
<1>1. ASSUME NEW i \in Nat, \A j \in 0..(i - 1) : j \in S PROVE i \in S
  <2> SUFFICES ASSUME i <= n, i <= k PROVE f[i] = g[i]
    OBVIOUS
  <2>1. i \in 0..n /\ i \in 0..k
    OBVIOUS
  <2>2. /\ f[i] = IF i = 0 THEN <<>> ELSE Append(f[i \div b], i % b)
        /\ g[i] = IF i = 0 THEN <<>> ELSE Append(g[i \div b], i % b)
    BY <2>1 DEF IsNumerals
  <2>3. i # 0 => f[i \div b] = g[i \div b]
    <3> HAVE i # 0
    <3>1. i \div b \in Nat /\ i \div b < i
      BY Divide
    <3>2. i \div b \in 0..(i - 1) /\ i \div b <= n /\ i \div b <= k
      BY <3>1
    <3> QED BY <1>1, <3>2
  <2> QED BY <2>2, <2>3
<1> HIDE DEF S
<1>2. m \in S
  BY <1>1, StrongInduction
<1> QED BY <1>2 DEF S

LEMMA NumeralIs ==
  ASSUME NEW b \in Bases, NEW n \in Nat
  PROVE  Numeral(b, n) = IF n = 0 THEN <<>> ELSE Append(Numeral(b, n \div b), n % b)
PROOF
<1> DEFINE f == CHOOSE f : IsNumerals(b, n, f)
           k == n \div b
           g == CHOOSE g : IsNumerals(b, k, g)
<1>1. IsNumerals(b, n, f)
  BY NumeralsExist
<1>2. Numeral(b, n) = f[n] /\ Numeral(b, k) = g[k]
  BY DEF Numeral
<1>3. k \in Nat /\ (n # 0 => k < n)
  BY Divide
<1>4. IsNumerals(b, k, g)
  BY <1>3, NumeralsExist
<1> HIDE DEF f, g
<1>5. f[n] = IF n = 0 THEN <<>> ELSE Append(f[k], n % b)
  <2>1. n \in 0..n
    OBVIOUS
  <2> QED BY <1>1, <2>1 DEF IsNumerals
<1>6. n # 0 => f[k] = g[k]
  BY <1>1, <1>3, <1>4, NumeralsAgree
<1> QED BY <1>2, <1>5, <1>6

LEMMA SeqWithin ==
  ASSUME NEW X, NEW Y, X \subseteq Y, NEW s \in Seq(X) PROVE s \in Seq(Y)
OBVIOUS

LEMMA DigitsOfBase ==
  ASSUME NEW b \in Bases, NEW s \in Seq(0..(b - 1))
  PROVE  s \in Seq(Nat)
<1>1. 0..(b - 1) \subseteq Nat
  BY DEF Bases
<1> QED BY <1>1, SeqWithin

\* A numeral has no zero in front.
LEMMA NumeralFacts ==
  ASSUME NEW b \in Bases, NEW n \in Nat
  PROVE  /\ Numeral(b, n) \in Seq(0..(b - 1))
         /\ n = 0 => Numeral(b, n) = <<>>
         /\ n # 0 => Len(Numeral(b, n)) >= 1 /\ Numeral(b, n)[1] # 0
PROOF
<1> DEFINE S == {k \in Nat : /\ Numeral(b, k) \in Seq(0..(b - 1))
                             /\ k = 0 => Numeral(b, k) = <<>>
                             /\ k # 0 => Len(Numeral(b, k)) >= 1 /\ Numeral(b, k)[1] # 0}
<1>1. ASSUME NEW k \in Nat, \A j \in 0..(k - 1) : j \in S PROVE k \in S
  <2>1. CASE k = 0
    <3>1. Numeral(b, k) = <<>>
      BY <2>1, NumeralIs
    <3>2. <<>> \in Seq(0..(b - 1))
      OBVIOUS
    <3> QED BY <2>1, <3>1, <3>2
  <2>2. CASE k # 0
    <3> DEFINE q == k \div b
               d == k % b
               s == Numeral(b, q)
    <3>1. q \in Nat /\ q < k /\ d \in 0..(b - 1) /\ (q = 0 => d = k)
      BY <2>2, Divide
    <3>2. Numeral(b, k) = Append(s, d)
      BY <2>2, NumeralIs
    <3>3. q \in 0..(k - 1)
      BY <3>1
    <3> HIDE DEF q, d
    <3>4. /\ s \in Seq(0..(b - 1))
          /\ q = 0 => s = <<>>
          /\ q # 0 => Len(s) >= 1 /\ s[1] # 0
      BY <1>1, <3>3
    <3> HIDE DEF s
    <3>5. /\ Append(s, d) \in Seq(0..(b - 1)) /\ Len(Append(s, d)) = Len(s) + 1
          /\ Len(s) \in Nat
          /\ Append(s, d)[1] = IF Len(s) = 0 THEN d ELSE s[1]
      <4> DEFINE D == 0..(b - 1)
      <4>1. s \in Seq(D) /\ d \in D
        BY <3>1, <3>4
      <4> HIDE DEF D
      <4>2. /\ Append(s, d) \in Seq(D) /\ Len(Append(s, d)) = Len(s) + 1
            /\ Len(s) \in Nat
            /\ Append(s, d)[1] = IF Len(s) = 0 THEN d ELSE s[1]
        BY <4>1
      <4> QED BY <4>2 DEF D
    <3>6. Append(s, d)[1] # 0 /\ Len(Append(s, d)) >= 1
      BY <2>2, <3>1, <3>4, <3>5
    <3> QED BY <2>2, <3>2, <3>5, <3>6
  <2> QED BY <2>1, <2>2
<1> HIDE DEF S
<1>2. n \in S
  BY <1>1, StrongInduction
<1> QED BY <1>2 DEF S

LEMMA DigitsFacts ==
  ASSUME NEW b \in Bases, NEW n \in Nat
  PROVE  /\ Digits(b, n) \in Seq(0..(b - 1)) /\ Digits(b, n) \in Seq(Nat)
         /\ Len(Digits(b, n)) \in Nat /\ Len(Digits(b, n)) >= 1
         /\ n # 0 => Digits(b, n)[1] # 0
         /\ n = 0 => Digits(b, n) = <<0>>
PROOF
<1>1. CASE n = 0
  <2>1. 0 \in 0..(b - 1)
    BY DEF Bases
  <2>2. <<0>> \in Seq(0..(b - 1)) /\ Len(<<0>>) = 1
    BY <2>1
  <2> QED BY <1>1, <2>2, DigitsOfBase DEF Digits
<1>2. CASE n # 0
  <2>1. Numeral(b, n) \in Seq(0..(b - 1)) /\ Len(Numeral(b, n)) >= 1 /\ Numeral(b, n)[1] # 0
    BY <1>2, NumeralFacts
  <2>2. Len(Numeral(b, n)) \in Nat
    BY <2>1
  <2> QED BY <1>2, <2>1, <2>2, DigitsOfBase DEF Digits
<1> QED BY <1>1, <1>2

\* A numeral is that of the quotient and one more digit.
LEMMA NumeralStep ==
  ASSUME NEW b \in Bases, NEW n \in Nat, n # 0
  PROVE  /\ Numeral(b, n \div b) \in Seq(Nat) /\ Numeral(b, n) \in Seq(Nat)
         /\ n \div b \in Nat /\ n % b \in Nat
         /\ Numeral(b, n) = Append(Numeral(b, n \div b), n % b)
         /\ Len(Numeral(b, n)) = Len(Numeral(b, n \div b)) + 1
         /\ Len(Numeral(b, n \div b)) \in Nat
<1>1. n \div b \in Nat /\ n % b \in 0..(b - 1) /\ b \in Nat
  BY Divide
<1>2. Numeral(b, n \div b) \in Seq(Nat) /\ Numeral(b, n) \in Seq(Nat)
  BY <1>1, NumeralFacts, DigitsOfBase
<1>3. Numeral(b, n) = Append(Numeral(b, n \div b), n % b)
  BY NumeralIs
<1> QED BY <1>1, <1>2, <1>3

\* digits_count is how many there are.
LEMMA CountIs ==
  base \in Bases => \A n \in Nat : digits_count(n) = Len(Digits(base, n))
PROOF
<1> SUFFICES ASSUME base \in Bases, NEW n \in Nat
             PROVE  digits_count(n) = Len(Digits(base, n))
  OBVIOUS
<1> DEFINE IsCounts(f) == f = [m \in 0..n |-> IF m = 0 THEN 0 ELSE 1 + f[m \div base]]
           g == [m \in 0..n |-> Len(Numeral(base, m))]
           h == CHOOSE f : IsCounts(f)
<1>1. IsCounts(g)
  <2>1. ASSUME NEW m \in 0..n
        PROVE  Len(Numeral(base, m)) = IF m = 0 THEN 0 ELSE 1 + g[m \div base]
    <3>1. CASE m = 0
      BY <3>1, NumeralFacts
    <3>2. CASE m # 0
      <4>1. m \in Nat /\ m <= n
        OBVIOUS
      <4>2. m \div base \in Nat /\ m \div base < m
        BY <3>2, <4>1, Divide
      <4>3. m \div base \in 0..n
        BY <4>1, <4>2
      <4>4. Len(Numeral(base, m)) = Len(Numeral(base, m \div base)) + 1
            /\ Len(Numeral(base, m \div base)) \in Nat
        BY <3>2, <4>1, NumeralStep
      <4> QED BY <3>2, <4>3, <4>4
    <3> QED BY <3>1, <3>2
  <2> QED BY <2>1
<1>2. IsCounts(h)
  BY <1>1
<1>3. h[n] = Len(Numeral(base, n))
  <2> DEFINE S == {k \in Nat : k <= n => h[k] = Len(Numeral(base, k))}
  <2> HIDE DEF h
  <2>1. ASSUME NEW k \in Nat, \A j \in 0..(k - 1) : j \in S PROVE k \in S
    <3> SUFFICES ASSUME k <= n PROVE h[k] = Len(Numeral(base, k))
      OBVIOUS
    <3>1. k \in 0..n
      OBVIOUS
    <3>2. h[k] = IF k = 0 THEN 0 ELSE 1 + h[k \div base]
      BY <1>2, <3>1
    <3>3. CASE k = 0
      <4>1. Len(Numeral(base, k)) = 0
        BY <3>3, NumeralFacts
      <4> QED BY <3>2, <3>3, <4>1
    <3>4. CASE k # 0
      <4>1. k \div base \in Nat /\ k \div base < k
        BY <3>4, Divide
      <4>2. k \div base \in 0..(k - 1) /\ k \div base <= n
        BY <4>1
      <4>3. h[k \div base] = Len(Numeral(base, k \div base))
        BY <2>1, <4>2
      <4>4. Len(Numeral(base, k)) = Len(Numeral(base, k \div base)) + 1
            /\ Len(Numeral(base, k \div base)) \in Nat
        BY <3>4, NumeralStep
      <4> QED BY <3>2, <3>4, <4>3, <4>4
    <3> QED BY <3>3, <3>4
  <2> HIDE DEF S
  <2>2. n \in S
    BY <2>1, StrongInduction
  <2> QED BY <2>2 DEF S
<1>4. digits_count(n) = IF n < base THEN 1 ELSE h[n]
  BY DEF digits_count
<1> HIDE DEF h
<1>5. CASE n = 0
  <2>1. n < base /\ Digits(base, n) = <<0>>
    BY <1>5 DEF Digits, Bases
  <2> QED BY <1>4, <2>1
<1>6. CASE n # 0
  <2>1. Digits(base, n) = Numeral(base, n)
    BY <1>6 DEF Digits
  <2>2. CASE n < base
    <3>1. n \div base = 0
      BY <2>2, Divide
    <3>2. Len(Numeral(base, 0)) = 0
      BY NumeralFacts
    <3>3. Len(Numeral(base, n)) = Len(Numeral(base, 0)) + 1
      BY <1>6, <3>1, NumeralStep
    <3> QED BY <1>4, <2>1, <2>2, <3>2, <3>3
  <2> QED BY <1>3, <1>4, <2>1, <2>2
<1> QED BY <1>5, <1>6

----------------------------------------------------------------------------
(* Powers.                                                                 *)

IsPowers(b, k, f) == f = [i \in 0..k |-> IF i = 0 THEN 1 ELSE b * f[i - 1]]

LEMMA PowersExist == ASSUME NEW b PROVE \A k \in Nat : \E f : IsPowers(b, k, f)
PROOF
<1> DEFINE S == {k \in Nat : \E f : IsPowers(b, k, f)}
<1>1. 0 \in S
  <2> DEFINE f == [i \in 0..0 |-> 1]
  <2>1. f = [i \in 0..0 |-> IF i = 0 THEN 1 ELSE b * f[i - 1]]
    OBVIOUS
  <2> HIDE DEF f
  <2> QED BY <2>1 DEF IsPowers
<1>2. ASSUME NEW k \in Nat, k \in S PROVE k + 1 \in S
  <2>1. PICK f : IsPowers(b, k, f)
    BY <1>2
  <2> DEFINE more == b * f[k]
             g == [i \in 0..(k + 1) |-> IF i = k + 1 THEN more ELSE f[i]]
  <2>2. ASSUME NEW i \in 0..(k + 1)
        PROVE  g[i] = IF i = 0 THEN 1 ELSE b * g[i - 1]
    <3>1. CASE i = k + 1
      <4>1. g[i] = more /\ g[i - 1] = f[k] /\ i # 0
        BY <3>1
      <4> QED BY <3>1, <4>1
    <3>2. CASE i # k + 1
      <4>1. i \in 0..k /\ g[i] = f[i] /\ (i # 0 => g[i - 1] = f[i - 1])
        BY <3>2
      <4>2. f[i] = IF i = 0 THEN 1 ELSE b * f[i - 1]
        BY <2>1, <4>1 DEF IsPowers
      <4> QED BY <4>1, <4>2
    <3> QED BY <3>1, <3>2
  <2> HIDE DEF more
  <2>3. IsPowers(b, k + 1, g)
    BY <2>2 DEF IsPowers
  <2> QED BY <2>3
<1> HIDE DEF S
<1>3. \A k \in Nat : k \in S
  BY <1>1, <1>2, Induction
<1> QED BY <1>3 DEF S

LEMMA PowersAgree ==
  ASSUME NEW b, NEW j \in Nat, NEW k \in Nat, j <= k,
         NEW f, IsPowers(b, j, f), NEW g, IsPowers(b, k, g)
  PROVE  f[j] = g[j]
PROOF
<1> DEFINE S == {i \in Nat : i <= j => f[i] = g[i]}
<1>1. 0 \in S
  BY DEF IsPowers
<1>2. ASSUME NEW i \in Nat, i \in S PROVE i + 1 \in S
  <2> SUFFICES ASSUME i + 1 <= j PROVE f[i + 1] = g[i + 1]
    OBVIOUS
  <2>1. i + 1 \in 0..j /\ i + 1 \in 0..k /\ i + 1 # 0 /\ (i + 1) - 1 = i
    OBVIOUS
  <2>2. f[i + 1] = b * f[i]
    BY <2>1 DEF IsPowers
  <2>3. g[i + 1] = b * g[i]
    BY <2>1 DEF IsPowers
  <2>4. f[i] = g[i]
    BY <1>2, <2>1
  <2> QED BY <2>2, <2>3, <2>4
<1> HIDE DEF S
<1>3. j \in S
  BY <1>1, <1>2, Induction
<1> QED BY <1>3 DEF S

LEMMA PowerIs ==
  ASSUME NEW b PROVE Power(b, 0) = 1 /\ \A k \in Nat : Power(b, k + 1) = b * Power(b, k)
PROOF
<1>1. ASSUME NEW k \in Nat PROVE \E f : IsPowers(b, k, f) /\ Power(b, k) = f[k]
  <2> DEFINE f == CHOOSE f : IsPowers(b, k, f)
  <2>1. IsPowers(b, k, f)
    BY PowersExist
  <2>2. Power(b, k) = f[k]
    BY DEF Power, IsPowers
  <2> HIDE DEF f
  <2> QED BY <2>1, <2>2
<1>2. Power(b, 0) = 1
  <2>1. PICK f : IsPowers(b, 0, f) /\ Power(b, 0) = f[0]
    BY <1>1
  <2> QED BY <2>1 DEF IsPowers
<1>3. ASSUME NEW k \in Nat PROVE Power(b, k + 1) = b * Power(b, k)
  <2>1. PICK f : IsPowers(b, k, f) /\ Power(b, k) = f[k]
    BY <1>1
  <2>2. PICK g : IsPowers(b, k + 1, g) /\ Power(b, k + 1) = g[k + 1]
    BY <1>1
  <2>3. f[k] = g[k]
    BY <2>1, <2>2, PowersAgree
  <2>4. k + 1 \in 0..(k + 1) /\ k + 1 # 0 /\ (k + 1) - 1 = k
    OBVIOUS
  <2>5. g[k + 1] = b * g[k]
    BY <2>2, <2>4 DEF IsPowers
  <2> QED BY <2>1, <2>2, <2>3, <2>5
<1> QED BY <1>2, <1>3

\* What is known of b is b's being one of four numbers: products by it are linear.
LEMMA Multiples ==
  ASSUME NEW b \in Bases, NEW i \in Nat, NEW j \in Nat
  PROVE  /\ b * i \in Nat /\ b * i >= i + i
         /\ i <= j => b * i <= b * j
         /\ i < j => b * i + b <= b * j
<1>1. CASE b = 2
  BY <1>1
<1>2. CASE b = 8
  BY <1>2
<1>3. CASE b = 10
  BY <1>3
<1>4. CASE b = 16
  BY <1>4
<1> QED BY <1>1, <1>2, <1>3, <1>4 DEF Bases

LEMMA PowerNat ==
  ASSUME NEW b \in Bases PROVE \A k \in Nat : Power(b, k) \in Nat /\ Power(b, k) >= 1
PROOF
<1> DEFINE S == {k \in Nat : Power(b, k) \in Nat /\ Power(b, k) >= 1}
<1>1. 0 \in S
  BY PowerIs
<1>2. ASSUME NEW k \in Nat, k \in S PROVE k + 1 \in S
  <2>1. Power(b, k + 1) = b * Power(b, k) /\ Power(b, k) \in Nat /\ Power(b, k) >= 1
    BY <1>2, PowerIs
  <2> QED BY <2>1, Multiples
<1> HIDE DEF S
<1>3. \A k \in Nat : k \in S
  BY <1>1, <1>2, Induction
<1> QED BY <1>3 DEF S

LEMMA PowerBase ==
  ASSUME NEW b \in Bases PROVE \A k \in Nat : Power(2, k) <= Power(b, k)
PROOF
<1> DEFINE S == {k \in Nat : Power(2, k) <= Power(b, k)}
<1>1. 0 \in S
  BY PowerIs
<1>2. ASSUME NEW k \in Nat, k \in S PROVE k + 1 \in S
  <2>1. Power(2, k + 1) = 2 * Power(2, k) /\ Power(b, k + 1) = b * Power(b, k)
    BY PowerIs
  <2>2. Power(2, k) \in Nat /\ Power(b, k) \in Nat /\ Power(2, k) <= Power(b, k)
    BY <1>2, PowerNat DEF Bases
  <2>3. b * Power(b, k) >= Power(b, k) + Power(b, k) /\ b * Power(b, k) \in Nat
    BY <2>2, Multiples
  <2> QED BY <2>1, <2>2, <2>3
<1> HIDE DEF S
<1>3. \A k \in Nat : k \in S
  BY <1>1, <1>2, Induction
<1> QED BY <1>3 DEF S

\* Four bits are one digit of base 16.
LEMMA PowerNibbles == \A k \in Nat : Power(2, 4 * k) = Power(16, k)
PROOF
<1> DEFINE S == {k \in Nat : Power(2, 4 * k) = Power(16, k)}
<1>1. 0 \in S
  <2>1. 4 * 0 = 0
    OBVIOUS
  <2> QED BY <2>1, PowerIs
<1>2. ASSUME NEW k \in Nat, k \in S PROVE k + 1 \in S
  <2> DEFINE n == 4 * k
             P == Power(2, n)
  <2>1. n \in Nat /\ 4 * (k + 1) = n + 1 + 1 + 1 + 1
    OBVIOUS
  <2>2. P \in Nat
    BY <2>1, PowerNat DEF Bases
  <2> HIDE DEF n
  <2>3. /\ Power(2, n + 1) = 2 * P /\ Power(2, n + 1 + 1) = 2 * Power(2, n + 1)
        /\ Power(2, n + 1 + 1 + 1) = 2 * Power(2, n + 1 + 1)
        /\ Power(2, n + 1 + 1 + 1 + 1) = 2 * Power(2, n + 1 + 1 + 1)
    BY <2>1, PowerIs
  <2>4. Power(16, k + 1) = 16 * Power(16, k) /\ Power(16, k) = P
    BY <1>2, PowerIs DEF n
  <2> HIDE DEF P
  <2>5. Power(2, n + 1 + 1 + 1 + 1) = 16 * P
    BY <2>2, <2>3
  <2>6. Power(2, 4 * (k + 1)) = Power(16, k + 1)
    BY <2>1, <2>4, <2>5
  <2> QED BY <2>6
<1> HIDE DEF S
<1>3. \A k \in Nat : k \in S
  BY <1>1, <1>2, Induction
<1> QED BY <1>3 DEF S

\* How many digits a number has.
LEMMA LengthBounds ==
  ASSUME NEW b \in Bases
  PROVE  \A k \in Nat : \A n \in Nat :
            /\ n < Power(b, k) => Len(Numeral(b, n)) <= k
            /\ n >= Power(b, k) => Len(Numeral(b, n)) >= k + 1
PROOF
<1> DEFINE Bound(n, k) ==
              /\ n < Power(b, k) => Len(Numeral(b, n)) <= k
              /\ n >= Power(b, k) => Len(Numeral(b, n)) >= k + 1
           S == {k \in Nat : \A n \in Nat : Bound(n, k)}
<1>1. 0 \in S
  <2> SUFFICES ASSUME NEW n \in Nat PROVE Bound(n, 0)
    OBVIOUS
  <2>1. Power(b, 0) = 1
    BY PowerIs
  <2>2. CASE n = 0
    <3>1. Len(Numeral(b, n)) = 0
      BY <2>2, NumeralFacts
    <3> QED BY <2>1, <2>2, <3>1
  <2>3. CASE n # 0
    <3>1. Len(Numeral(b, n)) >= 1
      BY <2>3, NumeralFacts
    <3> QED BY <2>1, <2>3, <3>1
  <2> QED BY <2>2, <2>3
<1>2. ASSUME NEW k \in Nat, k \in S PROVE k + 1 \in S
  <2> SUFFICES ASSUME NEW n \in Nat PROVE Bound(n, k + 1)
    OBVIOUS
  <2>1. PICK P \in Nat : P = Power(b, k) /\ P >= 1
    BY PowerNat
  <2>2. Power(b, k + 1) = b * P /\ b * P \in Nat /\ b * P >= P + P
    BY <2>1, PowerIs, Multiples
  <2>3. CASE n = 0
    <3>1. Len(Numeral(b, n)) = 0
      BY <2>3, NumeralFacts
    <3> QED BY <2>1, <2>2, <2>3, <3>1
  <2>4. CASE n # 0
    <3>1. PICK q \in Nat : q = n \div b /\ n % b \in 0..(b - 1) /\ n = b * q + (n % b)
      BY Divide
    <3>2. Len(Numeral(b, n)) = Len(Numeral(b, q)) + 1 /\ Len(Numeral(b, q)) \in Nat
      BY <2>4, <3>1, NumeralStep
    <3>3. Bound(q, k)
      BY <1>2, <3>1
    <3>4. b \in Nat /\ b * q \in Nat
      BY <3>1, Multiples DEF Bases
    <3>5. n < b * P => q < P
      <4> SUFFICES ASSUME P <= q PROVE ~(n < b * P)
        BY <2>1, <3>1
      <4>1. b * P <= b * q
        BY <2>1, <3>1, Multiples
      <4> QED BY <2>2, <3>1, <3>4, <4>1
    <3>6. n >= b * P => q >= P
      <4> SUFFICES ASSUME q < P PROVE ~(n >= b * P)
        BY <2>1, <3>1
      <4>1. b * q + b <= b * P
        BY <2>1, <3>1, Multiples
      <4> QED BY <2>2, <3>1, <3>4, <4>1
    <3> HIDE DEF Bound
    <3>7. /\ q < P => Len(Numeral(b, q)) <= k
          /\ q >= P => Len(Numeral(b, q)) >= k + 1
      BY <2>1, <3>3 DEF Bound
    <3>8. /\ n < b * P => Len(Numeral(b, n)) <= k + 1
          /\ n >= b * P => Len(Numeral(b, n)) >= (k + 1) + 1
      BY <3>2, <3>5, <3>6, <3>7
    <3> QED BY <2>2, <3>8 DEF Bound
  <2> QED BY <2>3, <2>4
<1> HIDE DEF S
<1>3. \A k \in Nat : k \in S
  BY <1>1, <1>2, Induction
<1> QED BY <1>3 DEF S

----------------------------------------------------------------------------
(* What digits stand for.                                                  *)

IsSums(b, s, k, f) == f = [i \in 0..k |-> IF i = 0 THEN 0 ELSE f[i - 1] * b + s[i]]
Sum(b, s, k) == (CHOOSE f : IsSums(b, s, k, f))[k]
ValueOf(b, s) == Sum(b, s, Len(s))

LEMMA SumsExist == ASSUME NEW b, NEW s PROVE \A k \in Nat : \E f : IsSums(b, s, k, f)
PROOF
<1> DEFINE S == {k \in Nat : \E f : IsSums(b, s, k, f)}
<1>1. 0 \in S
  <2> DEFINE f == [i \in 0..0 |-> 0]
  <2>1. f = [i \in 0..0 |-> IF i = 0 THEN 0 ELSE f[i - 1] * b + s[i]]
    OBVIOUS
  <2> HIDE DEF f
  <2> QED BY <2>1 DEF IsSums
<1>2. ASSUME NEW k \in Nat, k \in S PROVE k + 1 \in S
  <2>1. PICK f : IsSums(b, s, k, f)
    BY <1>2
  <2> DEFINE more == f[k] * b + s[k + 1]
             g == [i \in 0..(k + 1) |-> IF i = k + 1 THEN more ELSE f[i]]
  <2>2. ASSUME NEW i \in 0..(k + 1)
        PROVE  g[i] = IF i = 0 THEN 0 ELSE g[i - 1] * b + s[i]
    <3>1. CASE i = k + 1
      <4>1. g[i] = more /\ g[i - 1] = f[k] /\ i # 0
        BY <3>1
      <4> QED BY <3>1, <4>1
    <3>2. CASE i # k + 1
      <4>1. i \in 0..k /\ g[i] = f[i] /\ (i # 0 => g[i - 1] = f[i - 1])
        BY <3>2
      <4>2. f[i] = IF i = 0 THEN 0 ELSE f[i - 1] * b + s[i]
        BY <2>1, <4>1 DEF IsSums
      <4> QED BY <4>1, <4>2
    <3> QED BY <3>1, <3>2
  <2> HIDE DEF more
  <2>3. IsSums(b, s, k + 1, g)
    BY <2>2 DEF IsSums
  <2> QED BY <2>3
<1> HIDE DEF S
<1>3. \A k \in Nat : k \in S
  BY <1>1, <1>2, Induction
<1> QED BY <1>3 DEF S

LEMMA SumsAgree ==
  ASSUME NEW b, NEW s, NEW t, NEW j \in Nat, NEW k \in Nat, j <= k,
         \A i \in 1..j : s[i] = t[i],
         NEW f, IsSums(b, s, j, f), NEW g, IsSums(b, t, k, g)
  PROVE  f[j] = g[j]
PROOF
<1> DEFINE S == {i \in Nat : i <= j => f[i] = g[i]}
<1>1. 0 \in S
  BY DEF IsSums
<1>2. ASSUME NEW i \in Nat, i \in S PROVE i + 1 \in S
  <2> SUFFICES ASSUME i + 1 <= j PROVE f[i + 1] = g[i + 1]
    OBVIOUS
  <2>1. i + 1 \in 0..j /\ i + 1 \in 0..k /\ i + 1 # 0 /\ (i + 1) - 1 = i
    OBVIOUS
  <2>2. f[i + 1] = f[i] * b + s[i + 1]
    BY <2>1 DEF IsSums
  <2>3. g[i + 1] = g[i] * b + t[i + 1]
    BY <2>1 DEF IsSums
  <2>4. f[i] = g[i] /\ s[i + 1] = t[i + 1]
    BY <1>2, <2>1
  <2> QED BY <2>2, <2>3, <2>4
<1> HIDE DEF S
<1>3. j \in S
  BY <1>1, <1>2, Induction
<1> QED BY <1>3 DEF S

LEMMA SumIs ==
  ASSUME NEW b, NEW s
  PROVE  Sum(b, s, 0) = 0 /\ \A k \in Nat : Sum(b, s, k + 1) = Sum(b, s, k) * b + s[k + 1]
PROOF
<1>1. ASSUME NEW k \in Nat PROVE \E f : IsSums(b, s, k, f) /\ Sum(b, s, k) = f[k]
  <2> DEFINE f == CHOOSE f : IsSums(b, s, k, f)
  <2>1. IsSums(b, s, k, f)
    BY SumsExist
  <2>2. Sum(b, s, k) = f[k]
    BY DEF Sum
  <2> HIDE DEF f
  <2> QED BY <2>1, <2>2
<1>2. Sum(b, s, 0) = 0
  <2>1. PICK f : IsSums(b, s, 0, f) /\ Sum(b, s, 0) = f[0]
    BY <1>1
  <2> QED BY <2>1 DEF IsSums
<1>3. ASSUME NEW k \in Nat PROVE Sum(b, s, k + 1) = Sum(b, s, k) * b + s[k + 1]
  <2>1. PICK f : IsSums(b, s, k, f) /\ Sum(b, s, k) = f[k]
    BY <1>1
  <2>2. PICK g : IsSums(b, s, k + 1, g) /\ Sum(b, s, k + 1) = g[k + 1]
    BY <1>1
  <2>3. f[k] = g[k]
    BY <2>1, <2>2, SumsAgree
  <2>4. k + 1 \in 0..(k + 1) /\ k + 1 # 0 /\ (k + 1) - 1 = k
    OBVIOUS
  <2>5. g[k + 1] = g[k] * b + s[k + 1]
    BY <2>2, <2>4 DEF IsSums
  <2> QED BY <2>1, <2>2, <2>3, <2>5
<1> QED BY <1>2, <1>3

LEMMA SumSame ==
  ASSUME NEW b, NEW s, NEW t, NEW k \in Nat, \A i \in 1..k : s[i] = t[i]
  PROVE  Sum(b, s, k) = Sum(b, t, k)
PROOF
<1> DEFINE S == {i \in Nat : i <= k => Sum(b, s, i) = Sum(b, t, i)}
<1>1. 0 \in S
  BY SumIs
<1>2. ASSUME NEW i \in Nat, i \in S PROVE i + 1 \in S
  <2> SUFFICES ASSUME i + 1 <= k PROVE Sum(b, s, i + 1) = Sum(b, t, i + 1)
    OBVIOUS
  <2>1. i + 1 \in 1..k
    OBVIOUS
  <2>2. Sum(b, s, i) = Sum(b, t, i) /\ s[i + 1] = t[i + 1]
    BY <1>2, <2>1
  <2>3. /\ Sum(b, s, i + 1) = Sum(b, s, i) * b + s[i + 1]
        /\ Sum(b, t, i + 1) = Sum(b, t, i) * b + t[i + 1]
    BY SumIs
  <2> QED BY <2>2, <2>3
<1> HIDE DEF S
<1>3. k \in S
  BY <1>1, <1>2, Induction
<1> QED BY <1>3 DEF S

LEMMA SumNat ==
  ASSUME NEW b \in Bases, NEW s \in Seq(Nat)
  PROVE  \A k \in Nat : k <= Len(s) => Sum(b, s, k) \in Nat
PROOF
<1> DEFINE S == {i \in Nat : i <= Len(s) => Sum(b, s, i) \in Nat}
<1>1. 0 \in S
  BY SumIs
<1>2. ASSUME NEW i \in Nat, i \in S PROVE i + 1 \in S
  <2> SUFFICES ASSUME i + 1 <= Len(s) PROVE Sum(b, s, i + 1) \in Nat
    OBVIOUS
  <2>1. s[i + 1] \in Nat /\ Sum(b, s, i) \in Nat
    BY <1>2
  <2>2. Sum(b, s, i) * b \in Nat
    BY <2>1 DEF Bases
  <2>3. Sum(b, s, i + 1) = Sum(b, s, i) * b + s[i + 1]
    BY SumIs
  <2> QED BY <2>1, <2>2, <2>3
<1> HIDE DEF S
<1>3. \A k \in Nat : k \in S
  BY <1>1, <1>2, Induction
<1> QED BY <1>3 DEF S

LEMMA ValueNat ==
  ASSUME NEW b \in Bases, NEW s \in Seq(Nat) PROVE ValueOf(b, s) \in Nat
BY SumNat DEF ValueOf

\* Digits behind others.
LEMMA ValueConcat ==
  ASSUME NEW b \in Bases, NEW s \in Seq(Nat), NEW t \in Seq(Nat)
  PROVE  ValueOf(b, s \o t) = ValueOf(b, s) * Power(b, Len(t)) + ValueOf(b, t)
PROOF
<1> DEFINE u == s \o t
           m == Len(s)
           x == ValueOf(b, s)
           S == {k \in Nat : k <= Len(t) =>
                    Sum(b, u, m + k) = x * Power(b, k) + Sum(b, t, k)}
<1>0. /\ m \in Nat /\ x \in Nat /\ Len(t) \in Nat /\ Len(u) = m + Len(t)
      /\ \A i \in 1..m : u[i] = s[i]
      /\ \A i \in 1..Len(t) : u[m + i] = t[i]
  BY ValueNat
<1>1. 0 \in S
  <2>1. Sum(b, u, m) = x
    BY <1>0, SumSame DEF ValueOf
  <2>2. m + 0 = m /\ x * 1 + 0 = x
    BY <1>0
  <2>3. Power(b, 0) = 1 /\ Sum(b, t, 0) = 0
    BY PowerIs, SumIs
  <2> HIDE DEF u, m, x
  <2> QED BY <2>1, <2>2, <2>3
<1>2. ASSUME NEW k \in Nat, k \in S PROVE k + 1 \in S
  <2> SUFFICES ASSUME k + 1 <= Len(t)
               PROVE  Sum(b, u, m + (k + 1)) = x * Power(b, k + 1) + Sum(b, t, k + 1)
    OBVIOUS
  <2> HIDE DEF u, m, x
  <2>1. /\ m + k \in Nat /\ m + (k + 1) = (m + k) + 1 /\ k + 1 \in 1..Len(t)
        /\ u[(m + k) + 1] = t[k + 1] /\ t[k + 1] \in Nat
    BY <1>0
  <2>2. PICK P \in Nat, y \in Nat : P = Power(b, k) /\ y = Sum(b, t, k)
    <3>1. k <= Len(t)
      BY <1>0
    <3>2. Sum(b, t, k) \in Nat
      BY <3>1, SumNat
    <3>3. Power(b, k) \in Nat
      BY PowerNat
    <3> QED BY <3>2, <3>3
  <2>3. Sum(b, u, m + k) = x * P + y
    BY <1>0, <1>2, <2>2
  <2>4. Sum(b, u, m + (k + 1)) = (x * P + y) * b + t[k + 1]
    BY <2>1, <2>3, SumIs
  <2>5. Sum(b, t, k + 1) = y * b + t[k + 1] /\ Power(b, k + 1) = b * P
    <3>1. Sum(b, t, k + 1) = Sum(b, t, k) * b + t[k + 1]
      BY SumIs
    <3>2. Power(b, k + 1) = b * Power(b, k)
      BY PowerIs
    <3> QED BY <2>2, <3>1, <3>2
  <2>6. (x * P + y) * b = x * (b * P) + y * b
    <3>1. x * P \in Nat
      BY <1>0, <2>2
    <3>2. x * (b * P) = b * (x * P)
      BY <1>0, <2>2 DEF Bases
    <3> QED BY <2>2, <3>1, <3>2 DEF Bases
  <2>7. x * (b * P) \in Nat /\ y * b \in Nat
    <3>1. b * P \in Nat /\ y * b \in Nat
      BY <2>2 DEF Bases
    <3> QED BY <1>0, <3>1
  <2> QED BY <2>1, <2>4, <2>5, <2>6, <2>7
<1> HIDE DEF S
<1>3. \A k \in Nat : k \in S
  BY <1>1, <1>2, Induction
<1>4. Len(t) \in S
  BY <1>0, <1>3
<1> QED BY <1>0, <1>4 DEF S, ValueOf, m, u

LEMMA ValueAppend ==
  ASSUME NEW b \in Bases, NEW s \in Seq(Nat), NEW d \in Nat
  PROVE  ValueOf(b, Append(s, d)) = ValueOf(b, s) * b + d
PROOF
<1> DEFINE u == Append(s, d)
<1>1. /\ Len(s) \in Nat /\ Len(u) = Len(s) + 1 /\ u[Len(s) + 1] = d
      /\ \A i \in 1..Len(s) : u[i] = s[i]
  OBVIOUS
<1> HIDE DEF u
<1>2. Sum(b, u, Len(s)) = Sum(b, s, Len(s))
  BY <1>1, SumSame
<1>3. Sum(b, u, Len(s) + 1) = Sum(b, u, Len(s)) * b + d
  BY <1>1, SumIs
<1> QED BY <1>1, <1>2, <1>3 DEF ValueOf, u

Zeros(n) == [i \in 1..n |-> 0]

LEMMA ZerosFacts ==
  ASSUME NEW n \in Int
  PROVE  /\ Zeros(n) \in Seq({0}) /\ Len(Zeros(n)) = IF n >= 0 THEN n ELSE 0
         /\ \A i \in 1..n : Zeros(n)[i] = 0
PROOF
<1>1. CASE n >= 0
  <2> n \in Nat
    BY <1>1
  <2> QED BY <1>1 DEF Zeros
<1>2. CASE n < 0
  <2>1. 1..n = 1..0
    BY <1>2
  <2>2. Zeros(n) = [i \in 1..0 |-> 0]
    BY <2>1 DEF Zeros
  <2>3. Len([i \in 1..0 |-> 0]) = 0 /\ [i \in 1..0 |-> 0] \in Seq({0})
    OBVIOUS
  <2> QED BY <1>2, <2>2, <2>3
<1> QED BY <1>1, <1>2

LEMMA ZerosValue ==
  ASSUME NEW b \in Bases, NEW n \in Int PROVE ValueOf(b, Zeros(n)) = 0
PROOF
<1> DEFINE z == Zeros(n)
           S == {k \in Nat : k <= Len(z) => Sum(b, z, k) = 0}
<1>0. Len(z) \in Nat /\ \A i \in 1..Len(z) : z[i] = 0
  BY ZerosFacts
<1> HIDE DEF z
<1>1. 0 \in S
  BY SumIs
<1>2. ASSUME NEW k \in Nat, k \in S PROVE k + 1 \in S
  <2> SUFFICES ASSUME k + 1 <= Len(z) PROVE Sum(b, z, k + 1) = 0
    OBVIOUS
  <2>1. z[k + 1] = 0 /\ Sum(b, z, k) = 0
    BY <1>0, <1>2
  <2>2. Sum(b, z, k + 1) = 0 * b + 0
    BY <2>1, SumIs
  <2> QED BY <2>2 DEF Bases
<1> HIDE DEF S
<1>3. \A k \in Nat : k \in S
  BY <1>1, <1>2, Induction
<1>4. Len(z) \in S
  BY <1>0, <1>3
<1> QED BY <1>4 DEF S, ValueOf, z

\* The digits of a number stand for it.
LEMMA DigitsValue ==
  ASSUME NEW b \in Bases, NEW n \in Nat PROVE ValueOf(b, Digits(b, n)) = n
PROOF
<1> DEFINE S == {k \in Nat : ValueOf(b, Numeral(b, k)) = k}
<1>1. ASSUME NEW k \in Nat, \A j \in 0..(k - 1) : j \in S PROVE k \in S
  <2>1. CASE k = 0
    <3>1. Numeral(b, k) = <<>> /\ Len(<<>>) = 0
      BY <2>1, NumeralFacts
    <3>2. ValueOf(b, <<>>) = 0
      BY SumIs DEF ValueOf
    <3> QED BY <2>1, <3>1, <3>2
  <2>2. CASE k # 0
    <3>1. PICK q \in Nat, d \in Nat : /\ q = k \div b /\ d = k % b /\ k = b * q + d
                                      /\ q < k
      BY <2>2, Divide DEF Bases
    <3>2. Numeral(b, q) \in Seq(Nat) /\ Numeral(b, k) = Append(Numeral(b, q), d)
      BY <2>2, <3>1, NumeralStep
    <3>3. ValueOf(b, Numeral(b, q)) = q
      <4>1. q \in 0..(k - 1)
        BY <3>1
      <4> QED BY <1>1, <4>1
    <3>4. ValueOf(b, Numeral(b, k)) = q * b + d
      BY <3>2, <3>3, ValueAppend
    <3>5. q * b = b * q
      BY DEF Bases
    <3> QED BY <3>1, <3>4, <3>5
  <2> QED BY <2>1, <2>2
<1> HIDE DEF S
<1>2. n \in S
  BY <1>1, StrongInduction
<1>3. n = 0 => ValueOf(b, <<0>>) = 0
  <2>1. Len(<<0>>) = 1 /\ <<0>>[1] = 0 /\ 0 + 1 = 1
    OBVIOUS
  <2>2. Sum(b, <<0>>, 0 + 1) = Sum(b, <<0>>, 0) * b + <<0>>[0 + 1]
    BY SumIs
  <2>3. Sum(b, <<0>>, 0) = 0
    BY SumIs
  <2>4. Sum(b, <<0>>, 1) = 0 * b + 0
    BY <2>1, <2>2, <2>3
  <2> QED BY <2>1, <2>4 DEF Bases, ValueOf
<1> QED BY <1>2, <1>3 DEF S, Digits

----------------------------------------------------------------------------
(* Words.                                                                  *)

Half == Power(2, Bits - 1)

LEMMA WordFacts ==
  /\ Bits \in Nat /\ Bits > 4 /\ MAX_LENGTH \in Nat /\ MAX_LENGTH >= 1 /\ MAX_LENGTH <= Bits
  /\ Half \in Nat /\ Half >= 8 /\ Word = 2 * Half /\ Word \in Nat
  /\ Word \div 2 = Half /\ MIN = -Half
  /\ Word = Power(16, MAX_LENGTH)
PROOF
<1>1. Bits \in Nat /\ Bits > 4 /\ Bits % 4 = 0
  BY BitsAssumption
<1>2. PICK k \in Nat : k = MAX_LENGTH /\ Bits = 4 * k /\ k >= 1 /\ k <= Bits
  <2>1. MAX_LENGTH \in Nat /\ Bits = 4 * MAX_LENGTH + (Bits % 4)
    BY <1>1 DEF MAX_LENGTH
  <2>2. Bits = 4 * MAX_LENGTH
    BY <1>1, <2>1
  <2> QED BY <1>1, <2>1, <2>2
<1>3. Word = Power(16, k)
  BY <1>2, PowerNibbles DEF Word
<1> DEFINE j == Bits - 4
           P == Power(2, j)
<1>4. j \in Nat /\ Bits - 1 = j + 1 + 1 + 1 /\ Bits = (Bits - 1) + 1 /\ Bits - 1 \in Nat
  BY <1>1
<1>5. P \in Nat /\ P >= 1
  BY <1>4, PowerNat DEF Bases
<1> HIDE DEF j
<1>6. /\ Power(2, j + 1) = 2 * P /\ Power(2, j + 1 + 1) = 2 * Power(2, j + 1)
      /\ Power(2, j + 1 + 1 + 1) = 2 * Power(2, j + 1 + 1)
  <2>1. j + 1 \in Nat /\ j + 1 + 1 \in Nat
    BY <1>4
  <2>2. \A i \in Nat : Power(2, i + 1) = 2 * Power(2, i)
    BY PowerIs
  <2> QED BY <1>4, <2>1, <2>2
<1> HIDE DEF P
<1>7. Power(2, j + 1 + 1 + 1) = 8 * P
  BY <1>5, <1>6
<1>8. Half \in Nat /\ Half >= 8
  BY <1>4, <1>5, <1>7 DEF Half
<1>9. Word = 2 * Half
  BY <1>4, PowerIs DEF Word, Half
<1>10. Word \in Nat /\ Word \div 2 = Half
  BY <1>8, <1>9
<1> QED BY <1>1, <1>2, <1>3, <1>8, <1>9, <1>10 DEF MIN

\* A quotient is below a factor of what bounds the number.
LEMMA QuotientBelow ==
  ASSUME NEW u \in Nat, u >= 1, NEW m \in Nat, NEW k \in Nat, m < u * k
  PROVE  m \div u < k
PROOF
<1> DEFINE q == m \div u
<1>1. q \in Nat /\ m % u \in 0..(u - 1) /\ m = u * q + (m % u)
  BY QuotientIs
<1> HIDE DEF q
<1>2. SUFFICES ASSUME k <= q PROVE FALSE
  BY <1>1 DEF q
<1>3. u * k <= u * q
  <2>1. PICK d \in Nat : q = k + d
    BY <1>1, <1>2
  <2>2. u * q = u * k + u * d /\ u * d \in Nat /\ u * k \in Nat
    BY <2>1
  <2> QED BY <2>2
<1>4. u * q \in Nat /\ u * k \in Nat
  BY <1>1
<1> QED BY <1>1, <1>3, <1>4

\* A word is never longer than the buffer, a signed one with its sign, and the
\* half of a uint64_t than its padding.
LEMMA DigitsFit ==
  ASSUME NEW b \in Bases, NEW n \in Nat
  PROVE  /\ n < Word => Len(Digits(b, n)) <= Bits
         /\ n < Half => Len(Digits(b, n)) + 1 <= Bits
         /\ n < Word /\ b = 16 => Len(Digits(b, n)) <= MAX_LENGTH
PROOF
<1>1. /\ Bits \in Nat /\ Bits > 4 /\ Bits - 1 \in Nat /\ MAX_LENGTH \in Nat /\ MAX_LENGTH >= 1
      /\ Half \in Nat /\ Word = Power(16, MAX_LENGTH) /\ Word \in Nat
  BY WordFacts
<1>2. CASE n = 0
  <2>1. Len(Digits(b, n)) = 1
    BY <1>2 DEF Digits
  <2> QED BY <1>1, <2>1
<1>3. CASE n # 0
  <2>1. Digits(b, n) = Numeral(b, n) /\ Len(Numeral(b, n)) \in Nat
    BY <1>3, DigitsFacts DEF Digits
  <2>2. n < Word => Len(Numeral(b, n)) <= Bits
    <3> HAVE n < Word
    <3>1. Word <= Power(b, Bits) /\ Power(b, Bits) \in Nat
      BY <1>1, PowerBase, PowerNat DEF Word
    <3>2. n < Power(b, Bits)
      BY <1>1, <3>1
    <3> QED BY <1>1, <3>2, LengthBounds
  <2>3. n < Half => Len(Numeral(b, n)) <= Bits - 1
    <3> HAVE n < Half
    <3>1. Half <= Power(b, Bits - 1) /\ Power(b, Bits - 1) \in Nat
      BY <1>1, PowerBase, PowerNat DEF Half
    <3>2. n < Power(b, Bits - 1)
      BY <1>1, <3>1
    <3> QED BY <1>1, <3>2, LengthBounds
  <2>4. n < Word /\ b = 16 => Len(Numeral(b, n)) <= MAX_LENGTH
    BY <1>1, LengthBounds
  <2> QED BY <1>1, <2>1, <2>2, <2>3, <2>4
<1> QED BY <1>2, <1>3

----------------------------------------------------------------------------
(* The texts that are written into the buffer.                             *)

current == Head(args)
Written == Nat \cup {minus, dot}

Negative(n) == IF n < 0 THEN 1 ELSE 0
Size(n) == IF n < 0 THEN -n ELSE n
Minus(n) == IF n < 0 THEN <<minus>> ELSE <<>>
Signed(b, n) == Minus(n) \o Digits(b, Size(n))

\* A float with k digits behind the dot.
Integral(a) == Magnitude(a) \div Unit
Fractional(a, k) == Fraction(a) > 0 /\ k > 0
Decimals(a, k) == (Fraction(a) * Power(10, k)) \div Unit
AfterDot(a, k) == IF Fractional(a, k) THEN <<dot>> \o Digits(10, Decimals(a, k)) ELSE <<>>
FloatText(a, k) == (Minus(a.value) \o Digits(10, Integral(a))) \o AfterDot(a, k)

IntegralPiece(a) == Piece(Integral(a), Negative(a.value), Len(Digits(10, Integral(a))))
DecimalPiece(a, k) ==
    Piece(Decimals(a, k), Negative(a.value) + Len(Digits(10, Integral(a))) + 1,
          Len(Digits(10, Decimals(a, k))))

\* The text that a piece is a part of, in base b.
Target(a, b, k, p) == IF a.kind = "float" THEN FloatText(a, k) ELSE Signed(b, p.word)

\* A half as it is printed, in base b and padded if z.
InFull(b, z, n) ==
    (IF z /\ b = 16 THEN Zeros(MAX_LENGTH - Len(Digits(b, n))) ELSE <<>>) \o Digits(b, n)

\* The text s has been written into the buffer, at the places of D.
Shows(buf, s, D) == buf = [i \in 0..Bits |-> IF i + 1 \in D THEN s[i + 1] ELSE NUL]

\* What has been written when a piece is converted that starts at n, and when
\* what is left of its c characters, whose value is v, goes up to i.
Before(s, n) == {j \in 1..Len(s) : j <= n \/ s[j] = dot}
During(s, n, c, i, v) ==
    {j \in 1..Len(s) : j <= n \/ s[j] \in {minus, dot}
                              \/ (j <= n + c /\ (j > i + 1 \/ v = 0))}

\* A piece p, in base b, of a text s.
PartOf(b, s, p) ==
    /\ s \in Seq(Written) /\ Len(s) <= Bits
    /\ p.word \in (1 - Half)..(Word - 1) /\ p.start \in Nat /\ p.room \in Nat
    /\ Len(Signed(b, p.word)) <= p.room
    /\ p.start + Len(Signed(b, p.word)) <= Len(s)
    /\ \A i \in 1..Len(Signed(b, p.word)) : s[p.start + i] = Signed(b, p.word)[i]
    /\ \A j \in 1..Len(s) :
          s[j] = minus => j <= p.start \/ (j = p.start + 1 /\ p.word < 0)

LEMMA MinusFacts ==
  ASSUME NEW n \in Int
  PROVE  /\ Minus(n) \in Seq({minus}) /\ Len(Minus(n)) = Negative(n)
         /\ Size(n) \in Nat /\ Negative(n) \in 0..1
         /\ n < 0 <=> Negative(n) = 1
         /\ n < 0 => Minus(n)[1] = minus
<1>1. CASE n < 0
  <2>1. <<minus>> \in Seq({minus}) /\ Len(<<minus>>) = 1 /\ <<minus>>[1] = minus
    OBVIOUS
  <2> QED BY <1>1, <2>1 DEF Minus, Negative, Size
<1>2. CASE ~(n < 0)
  <2>1. <<>> \in Seq({minus}) /\ Len(<<>>) = 0
    OBVIOUS
  <2> QED BY <1>2, <2>1 DEF Minus, Negative, Size
<1> QED BY <1>1, <1>2

\* Sequences of one and of two, and behind each other.
LEMMA ConcatFacts ==
  ASSUME NEW Z, NEW s \in Seq(Z), NEW t \in Seq(Z)
  PROVE  /\ s \o t \in Seq(Z) /\ Len(s \o t) = Len(s) + Len(t)
         /\ Len(s) \in Nat /\ Len(t) \in Nat
         /\ \A i \in 1..Len(s) : (s \o t)[i] = s[i]
         /\ \A i \in 1..Len(t) : (s \o t)[Len(s) + i] = t[i]
         /\ \A j \in 1..Len(s \o t) : j <= Len(s) \/ \E i \in 1..Len(t) : j = Len(s) + i
<1>2. /\ s \o t \in Seq(Z) /\ Len(s \o t) = Len(s) + Len(t)
      /\ Len(s) \in Nat /\ Len(t) \in Nat
      /\ \A i \in 1..Len(s) : (s \o t)[i] = s[i]
      /\ \A i \in 1..Len(t) : (s \o t)[Len(s) + i] = t[i]
  OBVIOUS
<1>3. ASSUME NEW j \in 1..Len(s \o t) PROVE j <= Len(s) \/ \E i \in 1..Len(t) : j = Len(s) + i
  <2>1. CASE j > Len(s)
    <3>1. j - Len(s) \in 1..Len(t) /\ j = Len(s) + (j - Len(s))
      BY ONLY <1>2, <2>1, j \in 1..Len(s \o t)
    <3> QED BY <3>1
  <2> QED BY <1>2, <2>1, j \in Nat
<1> QED BY <1>2, <1>3

LEMMA SignedFacts ==
  ASSUME NEW b \in Bases, NEW n \in Int
  PROVE  /\ Size(n) \in Nat /\ Negative(n) \in 0..1 /\ Len(Digits(b, Size(n))) \in Nat
         /\ Len(Digits(b, Size(n))) >= 1
         /\ Signed(b, n) \in Seq(Nat \cup {minus})
         /\ Len(Signed(b, n)) = Negative(n) + Len(Digits(b, Size(n)))
         /\ Len(Signed(b, n)) \in Nat
         /\ n < 0 => Signed(b, n)[1] = minus
         /\ \A i \in 1..Len(Digits(b, Size(n))) :
               /\ Signed(b, n)[Negative(n) + i] = Digits(b, Size(n))[i]
               /\ Digits(b, Size(n))[i] \in Nat
         /\ \A j \in 1..Len(Signed(b, n)) :
               (n < 0 /\ j = 1) \/ \E i \in 1..Len(Digits(b, Size(n))) : j = Negative(n) + i
<1> DEFINE s == Minus(n)
           t == Digits(b, Size(n))
           Z == Nat \cup {minus}
<1>1. /\ s \in Seq({minus}) /\ Len(s) = Negative(n) /\ Negative(n) \in 0..1 /\ Size(n) \in Nat
      /\ n < 0 <=> Negative(n) = 1
      /\ n < 0 => s[1] = minus
  BY MinusFacts
<1>2. t \in Seq(Nat) /\ Len(t) \in Nat /\ Len(t) >= 1
  BY <1>1, DigitsFacts
<1>3. \A i \in 1..Len(t) : t[i] \in Nat
  BY <1>2
<1>4. {minus} \subseteq Z /\ Nat \subseteq Z
  OBVIOUS
<1> HIDE DEF s, t, Z
<1>5. /\ s \o t \in Seq(Z) /\ Len(s \o t) = Len(s) + Len(t)
      /\ \A i \in 1..Len(s) : (s \o t)[i] = s[i]
      /\ \A i \in 1..Len(t) : (s \o t)[Len(s) + i] = t[i]
      /\ \A j \in 1..Len(s \o t) : j <= Len(s) \/ \E i \in 1..Len(t) : j = Len(s) + i
  <2>1. s \in Seq(Z) /\ t \in Seq(Z)
    BY <1>1, <1>2, <1>4, SeqWithin
  <2>2. /\ s \o t \in Seq(Z) /\ Len(s \o t) = Len(s) + Len(t)
        /\ \A i \in 1..Len(s) : (s \o t)[i] = s[i]
        /\ \A i \in 1..Len(t) : (s \o t)[Len(s) + i] = t[i]
    BY ONLY <2>1
  <2>3. \A j \in 1..Len(s \o t) : j <= Len(s) \/ \E i \in 1..Len(t) : j = Len(s) + i
    BY ONLY <2>1, ConcatFacts
  <2> QED BY <2>2, <2>3
<1>6. n < 0 => (s \o t)[1] = minus
  BY <1>1, <1>5
<1>7. \A j \in 1..Len(s \o t) : (n < 0 /\ j = 1) \/ \E i \in 1..Len(t) : j = Negative(n) + i
  BY <1>1, <1>5
<1>8. Signed(b, n) = s \o t
  BY DEF Signed, s, t
<1>9. Len(s \o t) \in Nat
  BY <1>1, <1>2, <1>5
<1> QED BY <1>1, <1>2, <1>3, <1>5, <1>6, <1>7, <1>8, <1>9 DEF t, Z

\* One more place is written.
LEMMA ShowsMore ==
  ASSUME NEW buf, NEW s, NEW D, Shows(buf, s, D), NEW j \in 1..(Bits + 1)
  PROVE  Shows([buf EXCEPT ![j - 1] = s[j]], s, D \cup {j})
<1> DEFINE more == [buf EXCEPT ![j - 1] = s[j]]
<1>1. Bits \in Nat /\ j - 1 \in 0..Bits
  BY WordFacts
<1>2. ASSUME NEW i \in 0..Bits PROVE more[i] = IF i + 1 \in D \cup {j} THEN s[i + 1] ELSE NUL
  <2>1. CASE i = j - 1
    <3>1. i + 1 = j /\ more[i] = s[j]
      BY <1>1, <2>1 DEF Shows
    <3> QED BY <3>1
  <2>2. CASE i # j - 1
    <3>1. i + 1 # j /\ more[i] = buf[i]
      BY <1>1, <2>2 DEF Shows
    <3>2. buf[i] = IF i + 1 \in D THEN s[i + 1] ELSE NUL
      BY DEF Shows
    <3> QED BY <3>1, <3>2
  <2> QED BY <2>1, <2>2
<1>3. more = [i \in 0..Bits |-> more[i]]
  BY DEF Shows
<1> QED BY <1>2, <1>3 DEF Shows

\* All of a text is what is shown.
LEMMA ShownIs ==
  ASSUME NEW s \in Seq(Written), Len(s) <= Bits, Shows(buffer, s, 1..Len(s))
  PROVE  Shown = s
<1> DEFINE size == CHOOSE n \in 0..Bits :
                      buffer[n] = NUL /\ \A i \in 0..(n - 1) : buffer[i] # NUL
<1>1. Bits \in Nat /\ Len(s) \in Nat /\ Len(s) \in 0..Bits
  BY WordFacts
<1>2. \A i \in 0..Bits : buffer[i] = IF i + 1 \in 1..Len(s) THEN s[i + 1] ELSE NUL
  BY DEF Shows
<1>3. \A i \in 1..Len(s) : s[i] # NUL
  BY CharactersAssumption DEF Written
<1>4. buffer[Len(s)] = NUL /\ \A i \in 0..(Len(s) - 1) : buffer[i] # NUL
  <2>1. buffer[Len(s)] = NUL
    BY <1>1, <1>2
  <2>2. ASSUME NEW i \in 0..(Len(s) - 1) PROVE buffer[i] # NUL
    <3>1. i \in 0..Bits /\ i + 1 \in 1..Len(s)
      BY <1>1
    <3> QED BY <1>2, <1>3, <3>1
  <2> QED BY <2>1, <2>2
<1>5. size \in 0..Bits /\ buffer[size] = NUL /\ \A i \in 0..(size - 1) : buffer[i] # NUL
  BY <1>1, <1>4
<1> HIDE DEF size
<1>6. size = Len(s)
  <2>1. ~(size < Len(s))
    BY <1>1, <1>4, <1>5
  <2>2. ~(Len(s) < size)
    BY <1>1, <1>4, <1>5
  <2> QED BY <1>1, <1>5, <2>1, <2>2
<1>7. \A i \in 1..Len(s) : buffer[i - 1] = s[i]
  <2> TAKE i \in 1..Len(s)
  <2>1. i - 1 \in 0..Bits /\ (i - 1) + 1 = i
    BY <1>1
  <2> QED BY <1>2, <2>1
<1>8. Shown = [i \in 1..size |-> buffer[i - 1]]
  BY DEF Shown, size
<1>9. Shown = [i \in 1..Len(s) |-> s[i]]
  BY <1>6, <1>7, <1>8
<1>10. s = [i \in 1..Len(s) |-> s[i]]
  OBVIOUS
<1> QED BY <1>9, <1>10

----------------------------------------------------------------------------
(* One piece.                                                              *)

\* What is left of a piece's digits are the first ones of its numeral.
Progress(b, p, n, c, v, i) ==
    /\ n = p.start /\ c = Len(Signed(b, p.word)) /\ v \in 0..(Word - 1)
    /\ v # 0 => /\ Len(Numeral(b, v)) <= Len(Digits(b, Size(p.word)))
                /\ \A j \in 1..Len(Numeral(b, v)) :
                      Numeral(b, v)[j] = Digits(b, Size(p.word))[j]
                /\ i = n + Negative(p.word) + Len(Numeral(b, v)) - 1

LEMMA PartFacts ==
  ASSUME NEW b \in Bases, NEW s, NEW p, PartOf(b, s, p)
  PROVE  /\ p.word \in Int /\ p.start \in Nat /\ Size(p.word) \in Nat /\ Size(p.word) < Word
         /\ p.word < 0 => Negated(p.word) = -p.word
         /\ Len(s) \in Nat /\ Len(s) <= Bits /\ Bits \in Nat
         /\ Negative(p.word) \in 0..1
         /\ Len(Signed(b, p.word)) = Negative(p.word) + Len(Digits(b, Size(p.word)))
         /\ Len(Digits(b, Size(p.word))) \in Nat /\ Len(Digits(b, Size(p.word))) >= 1
         /\ p.start + Len(Signed(b, p.word)) <= Len(s)
         /\ p.word < 0 => s[p.start + 1] = minus
         /\ \A i \in 1..Len(Digits(b, Size(p.word))) :
               /\ s[p.start + Negative(p.word) + i] = Digits(b, Size(p.word))[i]
               /\ Digits(b, Size(p.word))[i] \in Nat
PROOF
<1> DEFINE n == p.word
           t == Signed(b, n)
           d == Digits(b, Size(n))
<1>1. /\ Half \in Nat /\ Half >= 8 /\ Word = 2 * Half /\ MIN = -Half /\ Bits \in Nat
  BY WordFacts
<1>2. /\ s \in Seq(Written) /\ Len(s) <= Bits /\ n \in (1 - Half)..(Word - 1)
      /\ p.start \in Nat /\ p.start + Len(t) <= Len(s)
      /\ \A i \in 1..Len(t) : s[p.start + i] = t[i]
  BY DEF PartOf
<1>3. n \in Int /\ Len(s) \in Nat
  BY <1>1, <1>2
<1>4. Size(n) \in Nat /\ Size(n) < Word /\ (n < 0 => Negated(n) = -n)
  BY <1>1, <1>2 DEF Size, Negated
<1>5. /\ Negative(n) \in 0..1 /\ Len(d) \in Nat /\ Len(d) >= 1
      /\ Len(t) = Negative(n) + Len(d) /\ Len(t) \in Nat
      /\ n < 0 => t[1] = minus
      /\ \A i \in 1..Len(d) : t[Negative(n) + i] = d[i] /\ d[i] \in Nat
  BY <1>3, SignedFacts
<1> HIDE DEF t, d, n
<1>6. n < 0 => s[p.start + 1] = minus
  <2> HAVE n < 0
  <2>1. 1 \in 1..Len(t)
    BY <1>5
  <2> QED BY <1>2, <1>5, <2>1
<1>7. ASSUME NEW i \in 1..Len(d) PROVE s[p.start + Negative(n) + i] = d[i]
  <2>1. Negative(n) + i \in 1..Len(t) /\ p.start + Negative(n) + i = p.start + (Negative(n) + i)
    BY <1>2, <1>5
  <2>2. s[p.start + (Negative(n) + i)] = t[Negative(n) + i]
    BY <1>2, <2>1
  <2> QED BY <1>5, <2>1, <2>2
<1> QED BY <1>1, <1>2, <1>3, <1>4, <1>5, <1>6, <1>7 DEF t, d, n

LEMMA ConvertPiece ==
  ASSUME base \in Bases, NEW s, NEW p, p = Head(pieces), PartOf(base, s, p),
         Shows(buffer, s, Before(s, p.start)), Convert
  PROVE  /\ pc' = "digits" /\ UNCHANGED <<fmt, args, base, zeros, pieces, printed>>
         /\ Progress(base, p, first', count', value', it')
         /\ Shows(buffer', s, During(s, first', count', it', value'))
PROOF
<1> DEFINE n == p.word
           start == p.start
           D == Before(s, start)
           total == Negative(n) + digits_count(Size(n))
           signed == IF n < 0 THEN [buffer EXCEPT ![start] = minus] ELSE buffer
<1>1. /\ n \in Int /\ start \in Nat /\ Size(n) \in Nat /\ Size(n) < Word
      /\ n < 0 => Negated(n) = -n
      /\ Len(s) \in Nat /\ Len(s) <= Bits /\ Bits \in Nat /\ Negative(n) \in 0..1
      /\ Len(Signed(base, n)) = Negative(n) + Len(Digits(base, Size(n)))
      /\ Len(Digits(base, Size(n))) \in Nat /\ Len(Digits(base, Size(n))) >= 1
      /\ start + Len(Signed(base, n)) <= Len(s)
      /\ n < 0 => s[start + 1] = minus
      /\ \A i \in 1..Len(Digits(base, Size(n))) :
            /\ s[start + Negative(n) + i] = Digits(base, Size(n))[i]
            /\ Digits(base, Size(n))[i] \in Nat
  <2>1. /\ n \in Int /\ start \in Nat /\ Size(n) \in Nat /\ Size(n) < Word
        /\ Len(s) \in Nat /\ Len(s) <= Bits /\ Bits \in Nat /\ Negative(n) \in 0..1
        /\ Len(Signed(base, n)) = Negative(n) + Len(Digits(base, Size(n)))
        /\ Len(Digits(base, Size(n))) \in Nat /\ Len(Digits(base, Size(n))) >= 1
        /\ start + Len(Signed(base, n)) <= Len(s)
    BY PartFacts
  <2>2. n < 0 => Negated(n) = -n
    BY PartFacts
  <2>3. n < 0 => s[start + 1] = minus
    BY PartFacts
  <2>4. \A i \in 1..Len(Digits(base, Size(n))) :
            /\ s[start + Negative(n) + i] = Digits(base, Size(n))[i]
            /\ Digits(base, Size(n))[i] \in Nat
    BY PartFacts
  <2> HIDE DEF n, start
  <2> QED BY <2>1, <2>2, <2>3, <2>4
<1>2. total = Len(Signed(base, n)) /\ total \in Nat /\ total >= 1
  <2>1. digits_count(Size(n)) = Len(Digits(base, Size(n)))
    BY <1>1, CountIs
  <2> HIDE DEF n
  <2> QED BY <1>1, <2>1
<1>3. Len(Signed(base, n)) <= p.room /\ p.room \in Nat
  BY DEF PartOf
<1>4. /\ value' = Size(n) /\ count' = total /\ it' = start + total - 1 /\ first' = start
      /\ buffer' = IF n = 0 THEN [signed EXCEPT ![start + total - 1] = 0] ELSE signed
      /\ pc' = "digits" /\ UNCHANGED <<fmt, args, base, zeros, pieces, printed>>
  <2>1. Negative(n) + digits_count(IF n < 0 THEN Negated(n) ELSE n) = total
    BY <1>1 DEF Size
  <2>2. (IF n < 0 THEN Negated(n) ELSE n) = Size(n)
    BY <1>1 DEF Size
  <2>3. ~(total > p.room)
    BY <1>2, <1>3
  <2> HIDE DEF total
  <2> QED BY <2>1, <2>2, <2>3 DEF Convert, Negative, formatter
<1> HIDE DEF total
<1>5. Bits \in Nat /\ start + 1 \in 1..(Bits + 1) /\ start + 1 <= Len(s)
  BY <1>1, <1>2
<1>6. n < 0 => Shows(signed, s, D \cup {start + 1})
  <2> HAVE n < 0
  <2>1. signed = [buffer EXCEPT ![(start + 1) - 1] = s[start + 1]]
    <3>1. (start + 1) - 1 = start
      BY <1>1
    <3> QED BY <1>1, <3>1
  <2> QED BY <1>5, <2>1, ShowsMore
<1>7. CASE n = 0
  <2>1. total = 1 /\ Size(n) = 0 /\ Negative(n) = 0 /\ Digits(base, 0) = <<0>>
    <3>1. Size(n) = 0 /\ Negative(n) = 0 /\ Digits(base, 0) = <<0>>
      BY <1>7 DEF Size, Negative, Digits
    <3>2. Len(<<0>>) = 1
      OBVIOUS
    <3> QED BY <1>1, <1>2, <3>1, <3>2
  <2>2. s[start + 1] = 0
    <3>1. 1 \in 1..Len(Digits(base, Size(n))) /\ Digits(base, Size(n))[1] = 0
      BY <2>1
    <3>2. s[start + Negative(n) + 1] = 0
      BY <1>1, <3>1
    <3> QED BY <1>1, <2>1, <3>2
  <2>3. buffer' = [buffer EXCEPT ![(start + 1) - 1] = s[start + 1]]
    <3>1. start + total - 1 = (start + 1) - 1
      BY <1>1, <2>1
    <3>2. signed = buffer
      BY <1>7
    <3> HIDE DEF signed, start, n
    <3>3. buffer' = [signed EXCEPT ![start + total - 1] = 0]
      BY <1>4, <1>7
    <3> QED BY <2>2, <3>1, <3>2, <3>3
  <2>4. Shows(buffer', s, D \cup {start + 1})
    BY <1>5, <2>3, ShowsMore
  <2>5. value' = 0 /\ first' = start /\ count' = 1
    BY <1>4, <2>1
  <2>6. D \cup {start + 1} = During(s, start, 1, it', 0)
    <3>1. ASSUME NEW j \in 1..Len(s), s[j] = minus PROVE j <= start
      BY <1>7, <3>1 DEF PartOf
    <3>2. ASSUME NEW j \in 1..Len(s)
          PROVE  j \in D \cup {start + 1} <=> j \in During(s, start, 1, it', 0)
      <4>1. j \in D <=> j <= start \/ s[j] = dot
        BY DEF Before
      <4>2. j \in During(s, start, 1, it', 0) <=>
               j <= start \/ s[j] \in {minus, dot} \/ j <= start + 1
        BY DEF During
      <4>3. j <= start + 1 <=> j <= start \/ j = start + 1
        BY <1>1
      <4> QED BY <3>1, <4>1, <4>2, <4>3
    <3>3. D \cup {start + 1} \subseteq 1..Len(s) /\ During(s, start, 1, it', 0) \subseteq 1..Len(s)
      BY <1>5 DEF Before, During
    <3> QED BY <3>2, <3>3
  <2>7. Progress(base, p, first', count', value', it')
    <3>1. 0 \in 0..(Word - 1)
      BY WordFacts
    <3> QED BY <1>2, <2>1, <2>5, <3>1 DEF Progress
  <2> QED BY <1>4, <2>4, <2>5, <2>6, <2>7
<1>8. CASE n # 0
  <2> DEFINE t == Digits(base, Size(n))
  <2>1. Size(n) # 0 /\ t = Numeral(base, Size(n))
    BY <1>1, <1>8 DEF Size, Digits
  <2>2. Progress(base, p, first', count', value', it')
    <3>1. Size(n) \in 0..(Word - 1)
      BY <1>1, WordFacts
    <3>2. start + total - 1 = start + Negative(n) + Len(t) - 1
      <4>1. /\ start \in Nat /\ Negative(n) \in 0..1 /\ Len(t) \in Nat
            /\ total = Negative(n) + Len(t)
        BY <1>1, <1>2
      <4> HIDE DEF start, n, t
      <4> QED BY ONLY <4>1
    <3> HIDE DEF t
    <3>3. Len(t) <= Len(t)
      BY <1>1 DEF t
    <3> QED BY <1>2, <1>4, <2>1, <3>1, <3>2, <3>3 DEF Progress, t
  <2>3. buffer' = signed /\ value' # 0 /\ it' = start + total - 1
    BY <1>4, <1>8, <2>1
  <2>4. \A j \in 1..Len(s) : ~(j <= start + total /\ j > (start + total - 1) + 1)
    BY <1>1, <1>2
  <2>5. CASE n < 0
    <3>1. ASSUME NEW j \in 1..Len(s), s[j] = minus PROVE j <= start \/ j = start + 1
      BY <3>1 DEF PartOf
    <3>2. ASSUME NEW j \in 1..Len(s)
          PROVE  j \in D \cup {start + 1} <=> j \in During(s, first', count', it', value')
      BY <1>1, <1>4, <2>3, <2>4, <2>5, <3>1 DEF Before, During
    <3>3. /\ D \cup {start + 1} \subseteq 1..Len(s)
          /\ During(s, first', count', it', value') \subseteq 1..Len(s)
      BY <1>5 DEF Before, During
    <3>4. D \cup {start + 1} = During(s, first', count', it', value')
      BY <3>2, <3>3
    <3> QED BY <1>4, <1>6, <2>2, <2>3, <2>5, <3>4
  <2>6. CASE ~(n < 0)
    <3>1. ASSUME NEW j \in 1..Len(s), s[j] = minus PROVE j <= start
      BY <2>6, <3>1 DEF PartOf
    <3>2. D = During(s, first', count', it', value')
      BY <1>1, <1>4, <2>3, <2>4, <3>1 DEF Before, During
    <3> QED BY <1>4, <2>2, <2>3, <2>6, <3>2
  <2> QED BY <2>5, <2>6
<1> QED BY <1>7, <1>8

LEMMA DigitOfPiece ==
  ASSUME base \in Bases, NEW s, NEW p, PartOf(base, s, p),
         Progress(base, p, first, count, value, it),
         Shows(buffer, s, During(s, first, count, it, value)), Digit
  PROVE  /\ Progress(base, p, first', count', value', it')
         /\ Shows(buffer', s, During(s, first', count', it', value'))
PROOF
<1> DEFINE n == p.word
           start == p.start
           t == Digits(base, Size(n))
           left == Numeral(base, value)
           q == value \div base
           D == During(s, first, count, it, value)
<1>1. /\ n \in Int /\ start \in Nat /\ Size(n) \in Nat
      /\ Len(s) \in Nat /\ Len(s) <= Bits /\ Bits \in Nat /\ Negative(n) \in 0..1
      /\ n < 0 => s[start + 1] = minus
      /\ Len(Signed(base, n)) = Negative(n) + Len(t) /\ Len(t) \in Nat
      /\ start + Len(Signed(base, n)) <= Len(s)
      /\ \A i \in 1..Len(t) : s[start + Negative(n) + i] = t[i]
  BY PartFacts
<1>2. /\ first = start /\ count = Negative(n) + Len(t) /\ value \in 0..(Word - 1)
      /\ value # 0 /\ Len(left) <= Len(t)
      /\ \A j \in 1..Len(left) : left[j] = t[j]
      /\ it = start + Negative(n) + Len(left) - 1
  BY <1>1 DEF Progress, Digit
<1>3. value \in Nat /\ value % Word = value /\ Word \in Nat
  BY <1>2, WordFacts
<1>4. /\ q \in Nat /\ q < value /\ Numeral(base, q) \in Seq(Nat)
      /\ left = Append(Numeral(base, q), value % base)
      /\ Len(left) = Len(Numeral(base, q)) + 1 /\ Len(Numeral(base, q)) \in Nat
  BY <1>2, <1>3, NumeralStep, Divide
<1>5. /\ left[Len(left)] = value % base
      /\ \A j \in 1..Len(Numeral(base, q)) : left[j] = Numeral(base, q)[j]
  BY <1>4
<1> DEFINE len == Len(Numeral(base, q))
<1> HIDE DEF left, q, t, n, start
<1> HIDE DEF len
<1>a. /\ start \in Nat /\ Negative(n) \in 0..1 /\ len \in Nat /\ Len(left) = len + 1
      /\ Len(t) \in Nat /\ len + 1 <= Len(t) /\ it = start + Negative(n) + Len(left) - 1
      /\ start + Negative(n) + Len(t) <= Len(s) /\ Len(s) \in Nat /\ Len(s) <= Bits
      /\ Bits \in Nat
  <2>1. /\ start \in Nat /\ Negative(n) \in 0..1 /\ len \in Nat /\ Len(left) = len + 1
        /\ Len(t) \in Nat /\ it = start + Negative(n) + Len(left) - 1
        /\ Len(s) \in Nat /\ Len(s) <= Bits /\ Bits \in Nat
    BY <1>1, <1>2, <1>4 DEF len
  <2>2. len + 1 <= Len(t)
    BY <1>2, <2>1
  <2>3. start + (Negative(n) + Len(t)) <= Len(s)
    BY <1>1
  <2> QED BY <2>1, <2>2, <2>3
<1>6. s[it + 1] = value % base /\ it \in Nat /\ it + 1 \in 1..Len(s) /\ it + 1 \in 1..(Bits + 1)
  <2>1. Len(left) \in 1..Len(left) /\ Len(left) \in 1..Len(t)
    BY ONLY <1>a
  <2>2. s[start + Negative(n) + Len(left)] = value % base
    BY <1>1, <1>2, <1>5, <2>1
  <2>3. it + 1 = start + Negative(n) + Len(left)
    BY ONLY <1>a
  <2>4. it \in Nat /\ it + 1 \in 1..Len(s) /\ it + 1 \in 1..(Bits + 1)
    BY ONLY <1>a
  <2> QED BY <2>2, <2>3, <2>4
<1>7. /\ buffer' = [buffer EXCEPT ![(it + 1) - 1] = s[it + 1]]
      /\ value' = q /\ it' = it - 1 /\ first' = first /\ count' = count
  <2>1. (it + 1) - 1 = it /\ it >= 0
    BY <1>6
  <2>2. /\ buffer' = [buffer EXCEPT ![it] = value % base]
        /\ value' = q /\ it' = it - 1 /\ first' = first /\ count' = count
    BY <1>3, <2>1 DEF Digit, q
  <2> QED BY <1>6, <2>1, <2>2
<1>8. Shows(buffer', s, D \cup {it + 1})
  BY <1>6, <1>7, ShowsMore
<1>9. it' = start + Negative(n) + len - 1 /\ it' + 1 = it
  <2>1. it' = it - 1
    BY <1>7
  <2> QED BY ONLY <1>a, <2>1
<1>10. Progress(base, p, first', count', value', it')
  <2>1. q \in 0..(Word - 1) /\ len <= Len(t)
    <3>1. q \in Nat /\ q < value
      BY <1>4 DEF q
    <3> QED BY <1>a, <1>2, <1>3, <3>1
  <2>2. \A j \in 1..len : Numeral(base, q)[j] = t[j]
    <3> TAKE j \in 1..len
    <3>1. j \in 1..Len(left)
      BY <1>a
    <3> QED BY <1>2, <1>5, <3>1 DEF len
  <2>3. first' = p.start /\ count' = Len(Signed(base, n))
    BY <1>1, <1>2, <1>7 DEF start
  <2> QED BY <1>2, <1>7, <1>9, <2>1, <2>2, <2>3 DEF Progress, t, n, len
<1>11. D \cup {it + 1} = During(s, first', count', it', value')
  <2>1. it + 1 <= start + count /\ start + count \in Nat
    BY <1>1, <1>2, <1>4
  <2>2. ASSUME NEW j \in 1..Len(s), q = 0, j <= start + count
        PROVE  j <= start \/ s[j] = minus \/ j > it
    <3>1. len = 0
      BY <2>2, NumeralFacts DEF len
    <3>2. it = start + Negative(n)
      BY ONLY <1>a, <3>1
    <3>3. CASE n < 0
      <4>1. j <= start \/ j = start + 1 \/ j > it
        BY <1>1, <3>2
      <4> QED BY <1>1, <3>3, <4>1
    <3>4. CASE ~(n < 0)
      <4>1. it = start
        BY <1>1, <3>2, <3>4 DEF Negative
      <4> QED BY <1>1, <4>1
    <3> QED BY <3>3, <3>4
  <2>3. ASSUME NEW j \in 1..Len(s)
        PROVE  j \in D \cup {it + 1} <=> j \in During(s, first', count', it', value')
    <3>1. j > it' + 1 <=> j > it + 1 \/ j = it + 1
      BY <1>6, <1>9
    <3>2. j \in D <=> j <= start \/ s[j] \in {minus, dot} \/ (j <= start + count /\ j > it + 1)
      BY <1>2 DEF During
    <3>3. j \in During(s, first', count', it', value') <=>
             j <= start \/ s[j] \in {minus, dot} \/ (j <= start + count /\ (j > it' + 1 \/ q = 0))
      BY <1>2, <1>7 DEF During
    <3>4. q = 0 /\ j <= start + count => j <= start \/ s[j] = minus \/ j > it
      BY <2>2
    <3>5. j > it <=> j > it + 1 \/ j = it + 1
      BY <1>6
    <3> QED BY <2>1, <3>1, <3>2, <3>3, <3>4, <3>5
  <2>4. D \cup {it + 1} \subseteq 1..Len(s) /\ During(s, first', count', it', value') \subseteq 1..Len(s)
    BY <1>6 DEF During
  <2> QED BY <2>3, <2>4
<1> QED BY <1>8, <1>10, <1>11

\* When nothing is left, all of the piece is written.
LEMMA PieceWritten ==
  ASSUME NEW b \in Bases, NEW s, NEW p, PartOf(b, s, p), NEW i
  PROVE  During(s, p.start, Len(Signed(b, p.word)), i, 0) =
            {j \in 1..Len(s) : j <= p.start + Len(Signed(b, p.word)) \/ s[j] = dot}
PROOF
<1> DEFINE c == Len(Signed(b, p.word))
<1>1. /\ p.start \in Nat /\ c \in Nat /\ c >= 1 /\ Len(s) \in Nat
  BY PartFacts
<1>2. ASSUME NEW j \in 1..Len(s), s[j] = minus PROVE j <= p.start + c
  <2>1. j <= p.start \/ j = p.start + 1
    BY <1>2 DEF PartOf
  <2> QED BY <1>1, <2>1
<1> QED BY <1>1, <1>2 DEF During

----------------------------------------------------------------------------
(* Arguments.                                                              *)

Halved(a, z) == a.kind = "uint64" /\ (a.value >= Word \/ z)

\* AsIs, of an argument that is printed in base b, padded if z, with k digits.
AsIsOf(a, b, z, k) ==
    CASE a.kind = "int" -> a.value # MIN
      [] a.kind = "uint64" -> a.value < Word \/ (z /\ b = 16)
      [] a.kind = "float" ->
           /\ Fractional(a, k) => Decimals(a, k) >= Power(10, k - 1)
           /\ Negative(a.value) + Len(Digits(10, Integral(a)))
                + (IF Fractional(a, k) THEN 1 + k ELSE 0) <= FloatRoom
      [] OTHER -> TRUE

\* The pieces that are left, and what has been printed.
Left(a, b, z, k, ps, out) ==
    \/ /\ a.kind = "float" /\ out = <<>>
       /\ \/ ~Fractional(a, k) /\ ps = <<IntegralPiece(a)>>
          \/ Fractional(a, k) /\ ps = <<IntegralPiece(a), DecimalPiece(a, k)>>
          \/ Fractional(a, k) /\ ps = <<DecimalPiece(a, k)>>
    \/ a.kind # "float" /\ ~Halved(a, z) /\ out = <<>> /\ ps = <<Whole(a.value)>>
    \/ /\ a.kind # "float" /\ Halved(a, z)
       /\ \/ out = <<>> /\ ps = <<Whole(a.value \div Word), Whole(a.value % Word)>>
          \/ out = InFull(b, z, a.value \div Word) /\ ps = <<Whole(a.value % Word)>>

LEMMA PrecisionFacts ==
  ASSUME NEW ch PROVE PrecisionOf(ch) \in 0..9
PROOF
<1> DEFINE digits == <<"0", "1", "2", "3", "4", "5", "6", "7", "8", "9">>
           i == SelectInSeq(digits, LAMBDA d : d = ch)
           I == {j \in 1..Len(digits) : digits[j] = ch}
<1>1. Len(digits) = 10
  OBVIOUS
<1>2. i = IF I # {} THEN Min(I) ELSE 0
  BY DEF SelectInSeq
<1>3. I \subseteq 1..10
  BY <1>1
<1> HIDE DEF I, i
<1>4. i \in 0..10
  <2>1. CASE I = {}
    BY <1>2, <2>1
  <2>2. CASE I # {}
    <3>1. I \subseteq Nat
      BY <1>3
    <3>2. PICK n \in I : \A j \in I : n <= j
      BY <2>2, <3>1, Least
    <3>3. Min(I) \in I
      BY <3>2 DEF Min
    <3>4. Min(I) \in 1..10
      BY <1>3, <3>3
    <3>5. i = Min(I)
      BY <1>2, <2>2
    <3> QED BY <3>4, <3>5
  <2> QED BY <2>1, <2>2
<1>5. PrecisionOf(ch) = IF i = 0 THEN Precision ELSE i - 1
  BY DEF PrecisionOf, i
<1> QED BY <1>4, <1>5, FloatAssumption

LEMMA FloatFacts ==
  ASSUME NEW a \in Arguments, a.kind = "float", NEW k \in 0..9, Power(10, k) <= Word
  PROVE  /\ a.value \in Int /\ Magnitude(a) \in Nat /\ Integral(a) \in Nat
         /\ Integral(a) < Half /\ Fraction(a) \in Nat
         /\ Decimals(a, k) \in Nat /\ Decimals(a, k) < Word
         /\ k > 0 /\ Decimals(a, k) >= Power(10, k - 1) =>
               Len(Digits(10, Decimals(a, k))) = k
PROOF
<1>1. Unit \in Nat /\ Unit >= 1 /\ Half \in Nat /\ MIN = -Half /\ Half >= 8 /\ Word \in Nat
  BY WordFacts, FloatAssumption
<1>2. a.value \in (Unit * (MIN + 1))..(-Unit * (MIN + 1))
  <2>1. a.value \in Inputs("float")
    BY ArgumentsAssumption
  <2> QED BY <2>1 DEF Inputs
<1> DEFINE H == Half - 1
           m == Magnitude(a)
<1>3. H \in Nat /\ MIN + 1 = -H /\ H < Half
  BY <1>1
<1>4. Unit * (MIN + 1) = -(Unit * H) /\ -Unit * (MIN + 1) = Unit * H /\ Unit * H \in Nat
  <2> HIDE DEF H
  <2>1. Unit * (-H) = -(Unit * H) /\ -Unit * (-H) = Unit * H /\ Unit * H \in Nat
    BY <1>1, <1>3
  <2> QED BY <1>3, <2>1
<1>5. a.value \in Int /\ m \in Nat /\ m <= Unit * H
  BY <1>2, <1>4 DEF Magnitude
<1> HIDE DEF H, m
<1>6. Integral(a) \in Nat /\ Fraction(a) \in 0..(Unit - 1)
  BY <1>1, <1>5, QuotientIs DEF Integral, Fraction, m
<1>7. Integral(a) < Half
  <2>1. Unit * Half = Unit * H + Unit
    <3>1. Half = H + 1
      BY <1>1 DEF H
    <3> QED BY <1>1, <1>3, <3>1
  <2>2. m < Unit * Half
    BY <1>1, <1>4, <1>5, <2>1
  <2> QED BY <1>1, <1>5, <2>2, QuotientBelow DEF Integral, m
<1>8. PICK P \in Nat : P = Power(10, k) /\ P >= 1
  BY PowerNat DEF Bases
<1>9. PICK f \in Nat : f = Fraction(a) /\ f < Unit
  BY <1>1, <1>6
<1>10. f * P \in Nat /\ f * P < Unit * P
  <2>1. PICK g \in Nat : Unit = f + g /\ g >= 1
    <3>1. Unit - f \in Nat /\ Unit = f + (Unit - f) /\ Unit - f >= 1
      BY <1>1, <1>9
    <3> QED BY <3>1
  <2>2. Unit * P = f * P + g * P /\ f * P \in Nat /\ g * P \in Nat
    BY <1>8, <1>9, <2>1
  <2>3. g * P >= 1
    <3>1. PICK h \in Nat : g = 1 + h
      <4>1. g - 1 \in Nat /\ g = 1 + (g - 1)
        BY <2>1
      <4> QED BY <4>1
    <3>2. g * P = P + h * P /\ h * P \in Nat
      BY <1>8, <3>1
    <3> QED BY <1>8, <3>2
  <2> QED BY <2>2, <2>3
<1>11. Decimals(a, k) \in Nat /\ Decimals(a, k) < P
  <2>1. Decimals(a, k) = (f * P) \div Unit
    BY <1>8, <1>9 DEF Decimals
  <2>2. (f * P) \div Unit \in Nat
    BY <1>1, <1>10, QuotientIs
  <2>3. (f * P) \div Unit < P
    BY <1>1, <1>8, <1>10, QuotientBelow
  <2> QED BY <2>1, <2>2, <2>3
<1>12. ASSUME k > 0, Decimals(a, k) >= Power(10, k - 1)
       PROVE  Len(Digits(10, Decimals(a, k))) = k
  <2> DEFINE n == Decimals(a, k)
  <2>1. k - 1 \in Nat /\ k \in Nat /\ (k - 1) + 1 = k /\ 10 \in Bases
    BY <1>12 DEF Bases
  <2>2. Power(10, k - 1) \in Nat /\ Power(10, k - 1) >= 1
    BY <2>1, PowerNat
  <2> HIDE DEF n
  <2>3. n \in Nat /\ n # 0 /\ n < Power(10, k) /\ n >= Power(10, k - 1)
    BY <1>8, <1>11, <1>12, <2>2 DEF n
  <2>4. Len(Numeral(10, n)) <= k
    BY <2>1, <2>3, LengthBounds
  <2>5. Len(Numeral(10, n)) >= (k - 1) + 1
    BY <2>1, <2>3, LengthBounds
  <2>6. Digits(10, n) = Numeral(10, n) /\ Len(Digits(10, n)) \in Nat
    BY <2>1, <2>3, DigitsFacts DEF Digits
  <2>7. Len(Digits(10, n)) = k
    BY <2>1, <2>4, <2>5, <2>6
  <2> QED BY <2>7 DEF n
<1>13. Decimals(a, k) < Word
  BY <1>1, <1>8, <1>11
<1> QED BY <1>5, <1>6, <1>7, <1>11, <1>12, <1>13 DEF m

LEMMA AsIsFacts ==
  base \in Bases /\ precision \in 0..9 =>
      \A a \in Arguments : (a.kind = "float" => base = 10 /\ Power(10, precision) <= Word) =>
          (AsIs(a) <=> AsIsOf(a, base, zeros, precision))
PROOF
<1> SUFFICES ASSUME base \in Bases, precision \in 0..9, NEW a \in Arguments,
                    a.kind = "float" => base = 10 /\ Power(10, precision) <= Word
             PROVE  AsIs(a) <=> AsIsOf(a, base, zeros, precision)
  OBVIOUS
<1>1. CASE a.kind = "float"
  <2> DEFINE k == precision
  <2>1. /\ a.value \in Int /\ Magnitude(a) \in Nat /\ Integral(a) \in Nat /\ Fraction(a) \in Nat
    BY <1>1, FloatFacts
  <2>2. digits_count(Magnitude(a) \div Unit) = Len(Digits(10, Integral(a)))
    <3>1. digits_count(Integral(a)) = Len(Digits(base, Integral(a))) /\ base = 10
      BY <1>1, <2>1, CountIs
    <3> QED BY <3>1 DEF Integral
  <2>3. FractionDigits(a) = Decimals(a, k)
    BY DEF FractionDigits, Decimals
  <2>4. Fraction(a) = 0 \/ k = 0 <=> ~Fractional(a, k)
    BY <2>1 DEF Fractional
  <2>5. AsIs(a) <=>
           /\ Fraction(a) = 0 \/ k = 0 \/ FractionDigits(a) >= Power(10, k - 1)
           /\ (IF a.value < 0 THEN 1 ELSE 0)
                 + digits_count(Magnitude(a) \div Unit)
                 + (IF Fraction(a) = 0 \/ k = 0 THEN 0 ELSE 1 + k)
              <= FloatRoom
    BY <1>1 DEF AsIs
  <2>6. AsIsOf(a, base, zeros, k) <=>
           /\ Fractional(a, k) => Decimals(a, k) >= Power(10, k - 1)
           /\ Negative(a.value) + Len(Digits(10, Integral(a)))
                + (IF Fractional(a, k) THEN 1 + k ELSE 0) <= FloatRoom
    BY <1>1 DEF AsIsOf
  <2> HIDE DEF k
  <2>7. Negative(a.value) = IF a.value < 0 THEN 1 ELSE 0
    BY DEF Negative
  <2>8. (IF Fraction(a) = 0 \/ k = 0 THEN 0 ELSE 1 + k) = IF Fractional(a, k) THEN 1 + k ELSE 0
    BY <2>4
  <2>9. AsIs(a) <=> AsIsOf(a, base, zeros, k)
    BY <2>2, <2>3, <2>4, <2>5, <2>6, <2>7, <2>8
  <2> QED BY <2>9 DEF k
<1>2. CASE a.kind # "float"
  BY <1>2 DEF AsIs, AsIsOf
<1> QED BY <1>1, <1>2

\* The text of a float: its sign, both numerals, and the dot between them.
LEMMA FloatTextFacts ==
  ASSUME NEW a \in Arguments, a.kind = "float", NEW k \in 0..9, Power(10, k) <= Word
  PROVE  LET m == Negative(a.value)
             d == Digits(10, Integral(a))
             e == Digits(10, Decimals(a, k))
             t == FloatText(a, k)
         IN  /\ t \in Seq(Written) /\ m \in 0..1
             /\ a.value < 0 <=> m = 1
             /\ Len(d) \in Nat /\ Len(d) >= 1 /\ Len(e) \in Nat /\ Len(e) >= 1
             /\ Len(t) = m + Len(d) + IF Fractional(a, k) THEN 1 + Len(e) ELSE 0
             /\ m = 1 => t[1] = minus
             /\ \A i \in 1..Len(d) : t[m + i] = d[i] /\ d[i] \in Nat
             /\ Fractional(a, k) =>
                   /\ t[m + Len(d) + 1] = dot
                   /\ \A i \in 1..Len(e) : t[m + Len(d) + 1 + i] = e[i] /\ e[i] \in Nat
PROOF
<1> DEFINE m == Negative(a.value)
           d == Digits(10, Integral(a))
           e == Digits(10, Decimals(a, k))
           t == FloatText(a, k)
           s == Minus(a.value)
           head == s \o d
<1>1. /\ a.value \in Int /\ Integral(a) \in Nat /\ Decimals(a, k) \in Nat /\ 10 \in Bases
  BY FloatFacts DEF Bases
<1>2. /\ d \in Seq(Nat) /\ Len(d) \in Nat /\ Len(d) >= 1
      /\ e \in Seq(Nat) /\ Len(e) \in Nat /\ Len(e) >= 1
  BY <1>1, DigitsFacts
<1>3. /\ s \in Seq({minus}) /\ Len(s) = m /\ m \in 0..1
      /\ a.value < 0 <=> m = 1
      /\ a.value < 0 => s[1] = minus
  BY <1>1, MinusFacts
<1>4. /\ \A i \in 1..Len(d) : d[i] \in Nat
      /\ \A i \in 1..Len(e) : e[i] \in Nat
  BY <1>2
<1>5. {minus} \subseteq Written /\ Nat \subseteq Written /\ {dot} \subseteq Written
  BY DEF Written
<1> HIDE DEF m, d, e, s, head
<1>6. s \in Seq(Written) /\ d \in Seq(Written) /\ e \in Seq(Written)
  BY <1>2, <1>3, <1>5, SeqWithin
<1>7. /\ head \in Seq(Written) /\ Len(head) = m + Len(d) /\ Len(head) \in Nat
      /\ \A i \in 1..Len(d) : head[m + i] = d[i]
      /\ m = 1 => head[1] = minus
  <2>1. /\ s \o d \in Seq(Written) /\ Len(s \o d) = Len(s) + Len(d)
        /\ \A i \in 1..Len(s) : (s \o d)[i] = s[i]
        /\ \A i \in 1..Len(d) : (s \o d)[Len(s) + i] = d[i]
    BY <1>6, ConcatFacts
  <2>2. m = 1 => (s \o d)[1] = minus
    BY <1>3, <2>1
  <2>3. Len(s \o d) \in Nat
    BY <1>2, <1>3, <2>1
  <2> QED BY <1>3, <2>1, <2>2, <2>3 DEF head
<1>8. CASE Fractional(a, k)
  <2> DEFINE u == <<dot>> \o e
  <2>1. <<dot>> \in Seq(Written) /\ Len(<<dot>>) = 1 /\ <<dot>>[1] = dot
    BY <1>5
  <2>2. /\ u \in Seq(Written) /\ Len(u) = 1 + Len(e) /\ Len(u) \in Nat
        /\ u[1] = dot
        /\ \A i \in 1..Len(e) : u[1 + i] = e[i]
    <3> DEFINE x == <<dot>>
    <3>1. x \in Seq(Written) /\ Len(x) = 1 /\ x[1] = dot
      BY <2>1
    <3> HIDE DEF x
    <3>2. /\ x \o e \in Seq(Written) /\ Len(x \o e) = Len(x) + Len(e)
          /\ \A i \in 1..Len(x) : (x \o e)[i] = x[i]
          /\ \A i \in 1..Len(e) : (x \o e)[Len(x) + i] = e[i]
      <4>1. x \in Seq(Written) /\ e \in Seq(Written)
        BY <1>6, <3>1
      <4> QED BY ONLY <4>1
    <3>3. (x \o e)[1] = dot /\ Len(x \o e) \in Nat
      BY <1>2, <3>1, <3>2
    <3>4. u = x \o e
      BY DEF x
    <3> QED BY <3>1, <3>2, <3>3, <3>4
  <2>3. t = head \o u
    BY <1>8 DEF FloatText, AfterDot, head, s, d, e
  <2> HIDE DEF u, t
  <2>4. /\ t \in Seq(Written) /\ Len(t) = Len(head) + Len(u)
        /\ \A i \in 1..Len(head) : t[i] = head[i]
        /\ \A i \in 1..Len(u) : t[Len(head) + i] = u[i]
    BY <1>7, <2>2, <2>3, ConcatFacts
  <2>5. m = 1 => t[1] = minus
    BY <1>2, <1>7, <2>4
  <2>6. \A i \in 1..Len(d) : t[m + i] = d[i]
    <3> TAKE i \in 1..Len(d)
    <3>1. m + i \in 1..Len(head)
      <4>1. Len(d) \in Nat /\ m \in 0..1 /\ Len(head) = m + Len(d) /\ i \in 1..Len(d)
        BY <1>2, <1>3, <1>7
      <4> QED BY ONLY <4>1
    <3> QED BY <1>7, <2>4, <3>1
  <2>7. t[m + Len(d) + 1] = dot
    <3>1. 1 \in 1..Len(u)
      BY <1>2, <2>2
    <3> QED BY <1>7, <2>2, <2>4, <3>1
  <2>8. \A i \in 1..Len(e) : t[m + Len(d) + 1 + i] = e[i]
    <3> TAKE i \in 1..Len(e)
    <3>1. 1 + i \in 1..Len(u) /\ u[1 + i] = e[i]
      BY <1>2, <2>2
    <3>2. t[Len(head) + (1 + i)] = e[i]
      BY <2>4, <3>1
    <3>3. m + Len(d) + 1 + i = Len(head) + (1 + i)
      BY <1>2, <1>3, <1>7
    <3> QED BY <3>2, <3>3
  <2>9. Len(t) = m + Len(d) + (1 + Len(e))
    BY <1>7, <2>2, <2>4
  <2> QED BY <1>2, <1>3, <1>4, <1>8, <2>4, <2>5, <2>6, <2>7, <2>8, <2>9 DEF t, m, d, e
<1>9. CASE ~Fractional(a, k)
  <2>1. t = head
    <3>1. t = head \o <<>>
      BY <1>9 DEF FloatText, AfterDot, head, s, d
    <3> HIDE DEF t
    <3>2. head \o <<>> = head
      BY <1>7
    <3> QED BY <3>1, <3>2
  <2>2. Len(t) = m + Len(d) + 0
    BY <1>2, <1>3, <1>7, <2>1
  <2> HIDE DEF t
  <2> QED BY <1>2, <1>3, <1>4, <1>7, <1>9, <2>1, <2>2 DEF t, m, d, e
<1> QED BY <1>8, <1>9

LEMMA BasePieces ==
  ASSUME NEW b \in Bases, NEW n \in (1 - Half)..(Word - 1)
  PROVE  /\ PartOf(b, Signed(b, n), Whole(n))
         /\ Whole(n).start + Len(Signed(b, Whole(n).word)) = Len(Signed(b, n))
PROOF
<1> DEFINE p == Whole(n)
           s == Signed(b, n)
<1>1. p.word = n /\ p.start = 0 /\ p.room = Bits
  BY DEF Whole, Piece
<1>2. /\ Half \in Nat /\ Half >= 8 /\ Word = 2 * Half /\ Word \in Nat /\ Bits \in Nat
  BY WordFacts
<1>3. n \in Int
  BY <1>2
<1>4. /\ Size(n) \in Nat /\ Negative(n) \in 0..1 /\ Len(Digits(b, Size(n))) \in Nat
      /\ Len(Digits(b, Size(n))) >= 1
      /\ s \in Seq(Nat \cup {minus}) /\ Len(s) \in Nat
      /\ Len(s) = Negative(n) + Len(Digits(b, Size(n)))
      /\ \A i \in 1..Len(Digits(b, Size(n))) :
               /\ s[Negative(n) + i] = Digits(b, Size(n))[i]
               /\ Digits(b, Size(n))[i] \in Nat
      /\ \A j \in 1..Len(s) :
               (n < 0 /\ j = 1) \/ \E i \in 1..Len(Digits(b, Size(n))) : j = Negative(n) + i
  BY <1>3, SignedFacts
<1>5. Len(s) <= Bits
  <2>1. CASE n < 0
    <3>1. Size(n) < Half /\ Negative(n) = 1
      BY <1>2, <2>1 DEF Size, Negative
    <3>2. Len(Digits(b, Size(n))) + 1 <= Bits
      BY <1>4, <3>1, DigitsFit
    <3> QED BY <1>4, <3>1, <3>2
  <2>2. CASE ~(n < 0)
    <3>1. Size(n) < Word /\ Negative(n) = 0
      BY <1>2, <2>2 DEF Size, Negative
    <3>2. Len(Digits(b, Size(n))) <= Bits
      BY <1>4, <3>1, DigitsFit
    <3> QED BY <1>4, <3>1, <3>2
  <2> QED BY <2>1, <2>2
<1>6. s \in Seq(Written)
  <2>1. Nat \cup {minus} \subseteq Written
    BY DEF Written
  <2> QED BY <1>4, <2>1, SeqWithin
<1>7. ASSUME NEW j \in 1..Len(s), s[j] = minus PROVE j = 1 /\ n < 0
  <2> SUFFICES ASSUME NEW i \in 1..Len(Digits(b, Size(n))), j = Negative(n) + i PROVE FALSE
    BY <1>4
  <2>1. s[j] \in Nat
    BY <1>4
  <2> QED BY <1>7, <2>1, CharactersAssumption
<1> HIDE DEF s, p
<1>8. 0 + Len(s) = Len(s) /\ \A i \in 1..Len(s) : 0 + i = i
  BY <1>4
<1>9. PartOf(b, s, p)
  <2>1. \A j \in 1..Len(s) : s[j] = minus => j = 0 + 1 /\ n < 0
    BY <1>7
  <2>2. /\ s \in Seq(Written) /\ Len(s) <= Bits
        /\ p.word \in (1 - Half)..(Word - 1) /\ p.start \in Nat /\ p.room \in Nat
        /\ s = Signed(b, p.word)
    BY <1>1, <1>2, <1>5, <1>6 DEF s
  <2>3. /\ Len(s) <= p.room /\ p.start + Len(s) <= Len(s)
        /\ \A i \in 1..Len(s) : s[p.start + i] = s[i]
    BY <1>1, <1>2, <1>4, <1>5, <1>8
  <2> QED BY <1>1, <2>1, <2>2, <2>3 DEF PartOf
<1> QED BY <1>1, <1>8, <1>9 DEF s, p

LEMMA UnsignedIs ==
  ASSUME NEW b \in Bases, NEW n \in Nat
  PROVE  /\ Signed(b, n) = Digits(b, n) /\ Size(n) = n /\ Negative(n) = 0
<1>1. Digits(b, n) \in Seq(Nat)
  BY DigitsFacts
<1>2. Signed(b, n) = <<>> \o Digits(b, n)
  <2>1. ~(n < 0)
    OBVIOUS
  <2> QED BY <2>1 DEF Signed, Minus, Size
<1> QED BY <1>1, <1>2 DEF Size, Negative

LEMMA FloatPieceFacts ==
  ASSUME NEW a \in Arguments, a.kind = "float", NEW k \in 0..9, Power(10, k) <= Word,
         NEW z, AsIsOf(a, 10, z, k)
  PROVE  LET t == FloatText(a, k)
             p == IntegralPiece(a)
             q == DecimalPiece(a, k)
         IN  /\ PartOf(10, t, p)
             /\ Fractional(a, k) =>
                   /\ PartOf(10, t, q)
                   /\ q.start = p.start + Len(Signed(10, p.word)) + 1
                   /\ t[p.start + Len(Signed(10, p.word)) + 1] = dot
                   /\ q.start + Len(Signed(10, q.word)) = Len(t)
             /\ ~Fractional(a, k) => p.start + Len(Signed(10, p.word)) = Len(t)
PROOF
<1> DEFINE m == Negative(a.value)
           i == Integral(a)
           n == Decimals(a, k)
           d == Digits(10, i)
           e == Digits(10, n)
           t == FloatText(a, k)
           F == Fractional(a, k)
           p == IntegralPiece(a)
           q == DecimalPiece(a, k)
<1>1. /\ t \in Seq(Written) /\ m \in 0..1
      /\ Len(d) \in Nat /\ Len(d) >= 1 /\ Len(e) \in Nat /\ Len(e) >= 1
      /\ Len(t) = m + Len(d) + IF F THEN 1 + Len(e) ELSE 0
      /\ \A j \in 1..Len(d) : t[m + j] = d[j] /\ d[j] \in Nat
      /\ F => /\ t[m + Len(d) + 1] = dot
              /\ \A j \in 1..Len(e) : t[m + Len(d) + 1 + j] = e[j] /\ e[j] \in Nat
  BY FloatTextFacts
<1>2. /\ i \in Nat /\ i < Half /\ n \in Nat /\ n < Word
      /\ k > 0 /\ n >= Power(10, k - 1) => Len(e) = k
  BY FloatFacts
<1>3. /\ F => k > 0 /\ n >= Power(10, k - 1)
      /\ m + Len(d) + (IF F THEN 1 + k ELSE 0) <= FloatRoom
  BY DEF AsIsOf, Fractional
<1>4. /\ FloatRoom \in Nat /\ FloatRoom < Bits /\ Bits \in Nat /\ Half \in Nat /\ Half >= 8
      /\ Word = 2 * Half
  BY FloatAssumption, WordFacts
<1>5. /\ p.word = i /\ p.start = m /\ p.room = Len(d)
      /\ q.word = n /\ q.start = m + Len(d) + 1 /\ q.room = Len(e)
  BY DEF IntegralPiece, DecimalPiece, Piece
<1>6. Signed(10, i) = d /\ Signed(10, n) = e
  BY <1>2, UnsignedIs DEF Bases
<1> HIDE DEF m, i, n, d, e, t, F, p, q
<1>a. m \in Nat /\ m \in 0..1 /\ Len(d) \in Nat /\ Len(e) \in Nat
  BY <1>1
<1>b. Len(t) = m + Len(d) + IF F THEN 1 + Len(e) ELSE 0
  BY <1>1
<1>15. /\ F => Len(t) = m + Len(d) + 1 + Len(e)
       /\ ~F => Len(t) = m + Len(d)
       /\ Len(t) \in Nat
  <2>1. CASE F
    <3>1. Len(t) = m + Len(d) + (1 + Len(e))
      BY <1>b, <2>1
    <3> QED BY ONLY <1>a, <2>1, <3>1
  <2>2. CASE ~F
    <3>1. Len(t) = m + Len(d) + 0
      BY <1>b, <2>2
    <3> QED BY ONLY <1>a, <2>2, <3>1
  <2> QED BY <2>1, <2>2
<1>7. Len(t) <= Bits /\ Len(t) \in Nat
  <2>1. CASE F
    <3>1. Len(e) = k /\ m + Len(d) + (1 + k) <= FloatRoom
      BY <1>2, <1>3, <2>1
    <3> QED BY <1>1, <1>4, <1>15, <2>1, <3>1
  <2>2. CASE ~F
    <3>1. m + Len(d) + 0 <= FloatRoom
      BY <1>3, <2>2
    <3> QED BY <1>1, <1>4, <1>15, <2>2, <3>1
  <2> QED BY <2>1, <2>2
<1>8. i \in (1 - Half)..(Word - 1) /\ n \in (1 - Half)..(Word - 1)
  BY <1>2, <1>4
<1>9. ASSUME NEW j \in 1..Len(t), t[j] = minus PROVE j <= m
  <2> SUFFICES ASSUME j > m PROVE FALSE
    BY <1>1
  <2>1. CASE j <= m + Len(d)
    <3>1. j - m \in 1..Len(d) /\ m + (j - m) = j
      BY <1>1, <2>1
    <3>2. t[j] \in Nat
      BY <1>1, <3>1
    <3> QED BY <1>9, <3>2, CharactersAssumption
  <2>2. CASE j = m + Len(d) + 1 /\ F
    BY <1>1, <1>9, <2>2, CharactersAssumption
  <2>3. CASE j > m + Len(d) + 1 /\ F
    <3>1. j - (m + Len(d) + 1) \in 1..Len(e) /\ m + Len(d) + 1 + (j - (m + Len(d) + 1)) = j
      BY <1>1, <2>3
    <3>2. t[j] \in Nat
      BY <1>1, <2>3, <3>1
    <3>3. minus \notin Nat
      BY CharactersAssumption
    <3> QED BY <1>9, <3>2, <3>3
  <2>4. m \in Nat /\ Len(d) \in Nat /\ Len(t) \in Nat /\ j \in Nat /\ j <= Len(t)
    BY <1>a, <1>15
  <2>5. j <= m + Len(d) \/ F
    <3>1. CASE ~F
      <4>1. Len(t) = m + Len(d)
        BY <1>15, <3>1
      <4> QED BY <2>4, <4>1
    <3> QED BY <3>1
  <2>6. j <= m + Len(d) \/ j = m + Len(d) + 1 \/ j > m + Len(d) + 1
    BY ONLY <2>4
  <2> QED BY <2>1, <2>2, <2>3, <2>5, <2>6
<1>10. m + Len(d) <= Len(t)
  <2>1. CASE F
    BY ONLY <1>a, <1>15, <2>1
  <2>2. CASE ~F
    BY ONLY <1>a, <1>15, <2>2
  <2> QED BY <2>1, <2>2
<1>11. PartOf(10, t, p)
  <2>1. \A j \in 1..Len(t) : t[j] = minus => j <= p.start
    BY <1>5, <1>9
  <2>2. /\ t \in Seq(Written) /\ Len(t) <= Bits /\ p.word \in (1 - Half)..(Word - 1)
        /\ p.start \in Nat /\ p.room \in Nat /\ Len(d) <= p.room /\ p.start + Len(d) <= Len(t)
        /\ Signed(10, p.word) = d
    <3>1. m \in Nat /\ Len(d) <= Len(d)
      BY <1>1
    <3> QED BY <1>1, <1>5, <1>6, <1>7, <1>8, <1>10, <3>1
  <2>3. \A j \in 1..Len(d) : t[p.start + j] = d[j]
    BY <1>1, <1>5
  <2> QED BY <2>1, <2>2, <2>3 DEF PartOf
<1>12. F => PartOf(10, t, q)
  <2>h. HAVE F
  <2>1. \A j \in 1..Len(t) : t[j] = minus => j <= q.start
    <3> TAKE j \in 1..Len(t)
    <3> HAVE t[j] = minus
    <3>1. j <= m /\ q.start = m + Len(d) + 1
      BY <1>5, <1>9
    <3> QED BY <1>a, <1>15, <3>1
  <2>2. /\ t \in Seq(Written) /\ Len(t) <= Bits /\ q.word \in (1 - Half)..(Word - 1)
        /\ q.start \in Nat /\ q.room \in Nat /\ Len(e) <= q.room /\ q.start + Len(e) <= Len(t)
        /\ Signed(10, q.word) = e
    <3>1. m + Len(d) + 1 \in Nat /\ Len(e) <= Len(e) /\ m + Len(d) + 1 + Len(e) <= Len(t)
      BY ONLY <1>a, <1>15, <2>h
    <3>2. q.start = m + Len(d) + 1 /\ q.room = Len(e) /\ Signed(10, q.word) = e
      BY <1>5, <1>6
    <3>3. t \in Seq(Written) /\ Len(t) <= Bits /\ q.word \in (1 - Half)..(Word - 1)
      BY <1>1, <1>5, <1>7, <1>8
    <3>4. q.start \in Nat /\ q.room \in Nat /\ Len(e) <= q.room /\ q.start + Len(e) <= Len(t)
      BY ONLY <1>a, <3>1, <3>2
    <3> QED BY <3>2, <3>3, <3>4
  <2>3. \A j \in 1..Len(e) : t[q.start + j] = e[j]
    BY <1>1, <1>5, <2>h
  <2> QED BY <2>1, <2>2, <2>3 DEF PartOf
<1>13. F => /\ q.start = p.start + Len(Signed(10, p.word)) + 1
            /\ t[p.start + Len(Signed(10, p.word)) + 1] = dot
            /\ q.start + Len(Signed(10, q.word)) = Len(t)
  BY <1>1, <1>5, <1>6, <1>15
<1>14. ~F => p.start + Len(Signed(10, p.word)) = Len(t)
  BY <1>1, <1>5, <1>6, <1>15
<1> QED BY <1>11, <1>12, <1>13, <1>14 DEF t, p, q, F

LEMMA Sequences ==
  /\ \A x : Head(<<x>>) = x /\ Tail(<<x>>) = <<>> /\ Len(<<x>>) = 1 /\ <<x>> # <<>>
  /\ \A x, y : /\ Head(<<x, y>>) = x /\ Tail(<<x, y>>) = <<y>> /\ Len(<<x, y>>) = 2
               /\ <<x, y>> # <<>> /\ <<x>> \o <<y>> = <<x, y>>
  /\ \A x : <<x>> \o <<>> = <<x>>
PROOF
<1>1. ASSUME NEW x
      PROVE  Head(<<x>>) = x /\ Tail(<<x>>) = <<>> /\ Len(<<x>>) = 1 /\ <<x>> # <<>>
  OBVIOUS
<1>2. ASSUME NEW x, NEW y
      PROVE  Head(<<x, y>>) = x /\ Tail(<<x, y>>) = <<y>> /\ Len(<<x, y>>) = 2
             /\ <<x, y>> # <<>>
  OBVIOUS
<1>3. ASSUME NEW x, NEW y PROVE <<x>> \o <<y>> = <<x, y>>
  <2>1. <<x>> \in Seq({x, y}) /\ <<y>> \in Seq({x, y}) /\ <<x, y>> \in Seq({x, y})
    OBVIOUS
  <2>2. Len(<<x>> \o <<y>>) = 2 /\ (<<x>> \o <<y>>)[1] = x /\ (<<x>> \o <<y>>)[2] = y
    BY <2>1
  <2>3. Len(<<x, y>>) = 2 /\ <<x, y>>[1] = x /\ <<x, y>>[2] = y
    OBVIOUS
  <2>4. <<x>> \o <<y>> \in Seq({x, y})
    BY <2>1
  <2>5. \A i \in 1..2 : (<<x>> \o <<y>>)[i] = <<x, y>>[i]
    BY <2>2, <2>3
  <2> QED BY <2>1, <2>2, <2>3, <2>4, <2>5, SeqEqual
<1>4. ASSUME NEW x PROVE <<x>> \o <<>> = <<x>>
  <2>1. <<x>> \in Seq({x})
    OBVIOUS
  <2> QED BY <2>1
<1> QED BY <1>1, <1>2, <1>3, <1>4

\* The words of a number fit into words.
LEMMA WordsFacts ==
  ASSUME NEW a \in Arguments, a.kind \notin {"text", "bool", "float"}, NEW z \in BOOLEAN
  PROVE  /\ a.value \in Int
         /\ a.kind = "int" => a.value \in MIN..(Half - 1)
         /\ a.kind # "int" => a.value \in Nat
         /\ a.kind \notin {"int", "uint64"} => a.value < Word
         /\ a.kind = "uint64" =>
               /\ a.value \div Word \in Nat /\ a.value \div Word < Word
               /\ a.value % Word \in Nat /\ a.value % Word < Word
               /\ a.value = Word * (a.value \div Word) + (a.value % Word)
               /\ a.value < Word => a.value \div Word = 0 /\ a.value % Word = a.value
PROOF
<1>1. /\ Half \in Nat /\ Half >= 8 /\ Word = 2 * Half /\ MIN = -Half /\ Word \in Nat
      /\ Word \div 2 = Half
  BY WordFacts
<1>2. a.value \in Inputs(a.kind) /\ a.kind \in Kinds
  BY ArgumentsAssumption
<1>3. CASE a.kind = "int"
  <2>1. a.value \in MIN..(Half - 1)
    BY <1>1, <1>2, <1>3 DEF Inputs
  <2> QED BY <1>1, <1>3, <2>1
<1>4. CASE a.kind \in {"uint", "pointer"}
  <2>1. a.value \in 0..(Word - 1)
    BY <1>2, <1>4 DEF Inputs
  <2> QED BY <1>1, <1>4, <2>1
<1>5. CASE a.kind = "uint64"
  <2> DEFINE n == a.value
             h == n \div Word
             l == n % Word
  <2>1. n \in 0..(Word * Word - 1)
    BY <1>2, <1>5 DEF Inputs
  <2>2. Word * Word \in Nat
    BY <1>1
  <2>3. n \in Nat /\ n < Word * Word /\ Word >= 1
    BY <1>1, <2>1, <2>2
  <2>4. h \in Nat /\ l \in 0..(Word - 1) /\ n = Word * h + l
    BY <1>1, <2>3, QuotientIs
  <2>5. h < Word
    BY <1>1, <2>3, QuotientBelow
  <2>6. n < Word => h = 0 /\ l = n
    <3> HAVE n < Word
    <3>1. n < Word * 1
      BY <1>1
    <3>2. h < 1
      BY <1>1, <2>3, <3>1, QuotientBelow
    <3> HIDE DEF h, l
    <3>3. h = 0
      BY <2>4, <3>2
    <3> QED BY <1>1, <2>4, <3>3
  <2> HIDE DEF h, l
  <2>7. l \in Nat /\ l < Word /\ n \in Int
    BY <1>1, <2>3, <2>4
  <2> QED BY <1>5, <2>3, <2>4, <2>5, <2>6, <2>7 DEF h, l
<1> QED BY <1>2, <1>3, <1>4, <1>5 DEF Kinds

\* The first piece is a part of the text, the last one ends it, and between the
\* two of a float is the dot.
Numeric(a, b, z, k) ==
    /\ a \in Arguments /\ a.kind \notin {"text", "bool"} /\ b \in Bases /\ z \in BOOLEAN
    /\ z => a.kind = "uint64"
    /\ a.kind = "float" => b = 10
    /\ k \in 0..9 /\ Power(10, k) <= Word
InPlace(a, b, z, k, ps, out) ==
    LET p == Head(ps)
        s == Target(a, b, k, p)
    IN  /\ PartOf(b, s, p) /\ ps # <<>>
        /\ a.kind # "float" \/ Len(ps) = 1 => p.start + Len(Signed(b, p.word)) = Len(s)
        /\ a.kind = "float" /\ Len(ps) > 1 =>
              /\ Left(a, b, z, k, Tail(ps), out)
              /\ Head(Tail(ps)).start = p.start + Len(Signed(b, p.word)) + 1
              /\ s[p.start + Len(Signed(b, p.word)) + 1] = dot
              /\ Target(a, b, k, Head(Tail(ps))) = s

LEMMA PieceFacts ==
  ASSUME NEW a, NEW b, NEW z, NEW k, NEW ps, NEW out,
         Numeric(a, b, z, k), AsIsOf(a, b, z, k), Left(a, b, z, k, ps, out)
  PROVE  InPlace(a, b, z, k, ps, out)
PROOF
<1> USE DEF InPlace
<1> DEFINE p == Head(ps)
           s == Target(a, b, k, p)
<1>0. /\ a \in Arguments /\ a.kind \notin {"text", "bool"} /\ b \in Bases /\ z \in BOOLEAN
      /\ z => a.kind = "uint64"
      /\ a.kind = "float" => b = 10
      /\ k \in 0..9 /\ Power(10, k) <= Word
  BY DEF Numeric
<1>1. CASE a.kind = "float"
  <2> DEFINE t == FloatText(a, k)
             x == IntegralPiece(a)
             y == DecimalPiece(a, k)
  <2>1. /\ PartOf(10, t, x)
        /\ Fractional(a, k) =>
              /\ PartOf(10, t, y)
              /\ y.start = x.start + Len(Signed(10, x.word)) + 1
              /\ t[x.start + Len(Signed(10, x.word)) + 1] = dot
              /\ y.start + Len(Signed(10, y.word)) = Len(t)
        /\ ~Fractional(a, k) => x.start + Len(Signed(10, x.word)) = Len(t)
    BY <1>0, <1>1, FloatPieceFacts
  <2>2. /\ out = <<>>
        /\ \/ ~Fractional(a, k) /\ ps = <<x>>
           \/ Fractional(a, k) /\ ps = <<x, y>>
           \/ Fractional(a, k) /\ ps = <<y>>
    BY <1>1 DEF Left
  <2>3. b = 10 /\ s = t /\ Target(a, b, k, Head(Tail(ps))) = t
    BY <1>0, <1>1 DEF Target
  <2> HIDE DEF t, x, y
  <2>4. CASE ~Fractional(a, k) /\ ps = <<x>>
    <3>1. p = x /\ Len(ps) = 1 /\ ps # <<>>
      BY <2>4, Sequences
    <3> QED BY <1>1, <2>1, <2>3, <2>4, <3>1
  <2>5. CASE Fractional(a, k) /\ ps = <<x, y>>
    <3>1. p = x /\ Tail(ps) = <<y>> /\ Head(Tail(ps)) = y /\ Len(ps) = 2 /\ ps # <<>>
      BY <2>5, Sequences
    <3>2. Left(a, b, z, k, Tail(ps), out)
      BY <1>1, <2>2, <2>5, <3>1 DEF Left, y
    <3> HIDE DEF p, s
    <3> QED BY <1>1, <2>1, <2>3, <2>5, <3>1, <3>2 DEF p, s
  <2>6. CASE Fractional(a, k) /\ ps = <<y>>
    <3>1. p = y /\ Len(ps) = 1 /\ ps # <<>>
      BY <2>6, Sequences
    <3> QED BY <1>1, <2>1, <2>3, <2>6, <3>1
  <2> QED BY <2>2, <2>4, <2>5, <2>6
<1>2. CASE a.kind # "float"
  <2>1. /\ Half \in Nat /\ Half >= 8 /\ Word = 2 * Half /\ MIN = -Half /\ Word \in Nat
    BY WordFacts
  <2>2. /\ a.value \in Int
        /\ a.kind = "int" => a.value \in MIN..(Half - 1)
        /\ a.kind # "int" => a.value \in Nat
        /\ a.kind \notin {"int", "uint64"} => a.value < Word
        /\ a.kind = "uint64" =>
               /\ a.value \div Word \in Nat /\ a.value \div Word < Word
               /\ a.value % Word \in Nat /\ a.value % Word < Word
    BY <1>0, <1>2, WordsFacts
  <2>3. a.kind = "int" => a.value # MIN
    BY DEF AsIsOf
  <2>4. CASE ~Halved(a, z)
    <3>1. ps = <<Whole(a.value)>>
      BY <1>2, <2>4 DEF Left
    <3>2. p = Whole(a.value) /\ ps # <<>>
      BY <3>1, Sequences
    <3>3. a.kind = "uint64" => a.value < Word
      BY <2>1, <2>2, <2>4 DEF Halved
    <3>4. a.value \in (1 - Half)..(Word - 1)
      BY <2>1, <2>2, <2>3, <3>3
    <3>5. PICK n \in (1 - Half)..(Word - 1) : p = Whole(n)
      BY <3>2, <3>4
    <3>6. /\ PartOf(b, Signed(b, n), Whole(n))
          /\ Whole(n).start + Len(Signed(b, Whole(n).word)) = Len(Signed(b, n))
      BY <1>0, BasePieces
    <3>7. s = Signed(b, n)
      BY <1>2, <3>5 DEF Target, Whole, Piece
    <3>8. ps # <<>>
      BY <3>2
    <3> HIDE DEF p, s
    <3> QED BY <1>2, <3>5, <3>6, <3>7, <3>8 DEF p, s
  <2>5. CASE Halved(a, z)
    <3> DEFINE h == a.value \div Word
               l == a.value % Word
    <3>1. h \in (1 - Half)..(Word - 1) /\ l \in (1 - Half)..(Word - 1)
      <4>1. h \in Nat /\ h < Word /\ l \in Nat /\ l < Word
        BY <2>2, <2>5 DEF Halved
      <4> HIDE DEF h, l
      <4> QED BY <2>1, <4>1
    <3>2. ps = <<Whole(h), Whole(l)>> \/ ps = <<Whole(l)>>
      BY <1>2, <2>5 DEF Left
    <3> HIDE DEF h, l
    <3>3. p \in {Whole(h), Whole(l)} /\ ps # <<>>
      BY <3>2, Sequences
    <3>4. PICK n \in (1 - Half)..(Word - 1) : p = Whole(n)
      BY <3>1, <3>3
    <3> QED BY <3>3, <3>4, BasePieces, <1>0, <1>2 DEF Target, Whole, Piece
  <2> QED BY <2>4, <2>5
<1> QED BY <1>1, <1>2

----------------------------------------------------------------------------
(* The invariant.                                                          *)

Asked == AsIsOf(current, base, zeros, precision)

FormatControl ==
    /\ fmt \in Seq(FormatCharacters) /\ args \in Seq(Arguments)
    /\ pc \in {"text", "float", "convert", "digits", "print", "skip"}
    /\ pc # "text" => args # <<>>
    /\ base \in Bases /\ zeros \in BOOLEAN
    /\ pc = "float" => current.kind = "float" /\ printed = <<>>
    /\ pc \in {"float", "convert", "digits", "print"} =>
          /\ current.kind \notin {"text", "bool"}
          /\ zeros => current.kind = "uint64"
          /\ current.kind = "float" => base = 10
    /\ pc \in {"text", "float", "skip"} => buffer = Cleared

Converting ==
    LET p == Head(pieces)
        s == Target(current, base, precision, p)
    IN  /\ Left(current, base, zeros, precision, pieces, printed)
        /\ pc = "convert" => Shows(buffer, s, Before(s, p.start))
        /\ pc = "digits" =>
              /\ Progress(base, p, first, count, value, it)
              /\ Shows(buffer, s, During(s, first, count, it, value))
        /\ pc = "print" =>
              /\ Len(pieces) = 1 \/ current.kind # "float"
              /\ value = 0 /\ count = Len(Signed(base, p.word)) /\ first + count = Len(s)
              /\ Shows(buffer, s, 1..Len(s))

FormatInv ==
    /\ FormatControl
    /\ pc \in {"convert", "digits", "print"} /\ Asked => Converting
    /\ PrintsArgument

LEMMA CurrentFacts ==
  ASSUME FormatControl, args # <<>>
  PROVE  /\ current \in Arguments
         /\ precision \in 0..9 /\ Power(10, precision) <= Word
PROOF
<1>1. current \in Arguments
  BY DEF FormatControl, current
<1>2. Character(1) \in FormatCharacters \cup {NUL}
  BY DEF FormatControl, Character
<1>3. precision \in 0..9
  BY PrecisionFacts DEF precision
<1>4. Power(10, precision) <= Word
  BY <1>2, FractionAssumption DEF precision
<1> QED BY <1>1, <1>3, <1>4

LEMMA AskedIs ==
  FormatControl /\ args # <<>> /\ (current.kind = "float" => base = 10) =>
      (AsIs(Head(args)) <=> Asked)
BY CurrentFacts, AsIsFacts DEF FormatControl, Asked, current

LEMMA InitFormat == Init => FormatInv
PROOF
<1> SUFFICES ASSUME Init PROVE FormatInv
  OBVIOUS
<1>1. PICK call \in Calls : fmt = call.fmt /\ args = call.args
  BY DEF Init
<1>2. fmt \in Seq(FormatCharacters) /\ args \in Seq(Arguments)
  BY <1>1, CallsAssumption
<1>3. pc = "text" /\ base = 10 /\ zeros = FALSE /\ buffer = Cleared
  BY DEF Init
<1> QED BY <1>2, <1>3 DEF FormatInv, FormatControl, PrintsArgument, Bases

LEMMA ControlCopy == FormatControl /\ Copy => FormatControl'
PROOF
<1> SUFFICES ASSUME FormatControl, Copy PROVE FormatControl'
  OBVIOUS
<1>1. /\ fmt \in Seq(FormatCharacters) /\ args \in Seq(Arguments) /\ base \in Bases
      /\ zeros \in BOOLEAN /\ buffer = Cleared
  BY DEF FormatControl, Copy
<1>2. pc' = "text" /\ fmt' = Tail(fmt) /\ fmt # <<>>
      /\ UNCHANGED <<args, base, zeros, buffer>>
  BY DEF Copy, formatter, conversion
<1>3. fmt' \in Seq(FormatCharacters)
  BY <1>1, <1>2
<1> QED BY <1>1, <1>2, <1>3 DEF FormatControl, Cleared

LEMMA ControlParse == FormatControl /\ Parse => FormatControl'
PROOF
<1> SUFFICES ASSUME FormatControl, Parse PROVE FormatControl'
  OBVIOUS
<1>1. /\ fmt \in Seq(FormatCharacters) /\ args \in Seq(Arguments) /\ base \in Bases
      /\ zeros \in BOOLEAN /\ buffer = Cleared
  BY DEF FormatControl, Parse
<1>2. /\ fmt' = Tail(fmt) /\ fmt # <<>> /\ args # <<>> /\ UNCHANGED <<args, buffer>>
  BY DEF Parse, conversion
<1>3. fmt' \in Seq(FormatCharacters)
  BY <1>1, <1>2
<1>4. current' = current
  BY <1>2 DEF current
<1>5. CASE current.kind \in {"text", "bool"}
  <2>1. pc' = "skip" /\ UNCHANGED <<base, zeros>>
    BY <1>5 DEF Parse, Say, current, formatter
  <2> QED BY <1>1, <1>2, <1>3, <2>1 DEF FormatControl, Cleared
<1>6. CASE current.kind \notin {"text", "bool"}
  <2>1. /\ base' = CASE current.kind = "pointer" -> 16
                     [] current.kind = "float" -> 10
                     [] OTHER -> BaseOf(Character(2))
        /\ zeros' = (current.kind = "uint64" /\ Character(3) = "0")
        /\ pc' = IF current.kind = "float" THEN "float" ELSE "convert"
        /\ printed' = <<>>
    BY <1>6 DEF Parse, current
  <2>2. BaseOf(Character(2)) \in Bases
    BY DEF BaseOf, Bases
  <2>3. /\ base' \in Bases
        /\ current.kind = "float" => base' = 10
    BY <2>1, <2>2 DEF Bases
  <2>4. /\ zeros' \in BOOLEAN
        /\ zeros' => current.kind = "uint64"
    BY <2>1
  <2> QED BY <1>1, <1>2, <1>3, <1>4, <1>6, <2>1, <2>3, <2>4 DEF FormatControl, Cleared
<1> QED BY <1>5, <1>6

LEMMA ControlSkip == FormatControl /\ Skip => FormatControl'
PROOF
<1> SUFFICES ASSUME FormatControl, Skip PROVE FormatControl'
  OBVIOUS
<1> DEFINE i == SelectInSeq(fmt, LAMBDA c : c = "}")
           I == {j \in 1..Len(fmt) : fmt[j] = "}"}
<1>1. /\ fmt \in Seq(FormatCharacters) /\ args \in Seq(Arguments) /\ base \in Bases
      /\ zeros \in BOOLEAN /\ buffer = Cleared /\ args # <<>>
  BY DEF FormatControl, Skip
<1>2. /\ fmt' = SubSeq(fmt, i + 1, Len(fmt)) /\ args' = Tail(args) /\ pc' = "text"
      /\ UNCHANGED <<base, zeros, buffer>>
  BY DEF Skip, formatter, conversion
<1>3. i = IF I # {} THEN Min(I) ELSE 0
  BY DEF SelectInSeq
<1>4. I \subseteq Nat
  <2>1. Len(fmt) \in Nat
    BY <1>1
  <2>2. 1..Len(fmt) \subseteq Nat
    BY <2>1
  <2> QED BY <2>2
<1> HIDE DEF i, I
<1>5. i \in Nat
  <2>1. CASE I # {}
    <3>1. PICK n \in I : \A j \in I : n <= j
      BY <1>4, <2>1, Least
    <3>2. Min(I) \in I
      BY <3>1 DEF Min
    <3> QED BY <1>3, <1>4, <2>1, <3>2
  <2>2. CASE I = {}
    BY <1>3, <2>2
  <2> QED BY <2>1, <2>2
<1>6. fmt' \in Seq(FormatCharacters)
  BY <1>1, <1>2, <1>5
<1>7. args' \in Seq(Arguments)
  BY <1>1, <1>2
<1> QED BY <1>1, <1>2, <1>6, <1>7 DEF FormatControl, Cleared

LEMMA ControlRest ==
  FormatControl /\ (Float \/ Convert \/ Digit \/ DigitsEnd \/ Flush \/ Returned) => FormatControl'
PROOF
<1> SUFFICES ASSUME FormatControl, Float \/ Convert \/ Digit \/ DigitsEnd \/ Flush \/ Returned
             PROVE  FormatControl'
  OBVIOUS
<1>1. CASE Returned
  <2>1. UNCHANGED <<fmt, args, pc, base, zeros, buffer, printed>>
    BY <1>1 DEF Returned, vars, formatter, conversion
  <2> QED BY <2>1 DEF FormatControl, current, Cleared
<1>2. CASE Float \/ Convert \/ Digit \/ DigitsEnd \/ Flush
  <2>1. UNCHANGED <<fmt, args, base, zeros>>
    BY <1>2 DEF Float, Convert, Digit, DigitsEnd, Flush, formatter
  <2>2. pc' \in {"convert", "digits", "print"} \/ (pc' = "skip" /\ buffer' = Cleared)
    BY <1>2 DEF Float, Convert, Digit, DigitsEnd, Flush
  <2>3. /\ fmt \in Seq(FormatCharacters) /\ args \in Seq(Arguments) /\ args # <<>>
        /\ base \in Bases /\ zeros \in BOOLEAN
        /\ current.kind \notin {"text", "bool"}
        /\ zeros => current.kind = "uint64"
        /\ current.kind = "float" => base = 10
    BY <1>2 DEF FormatControl, Float, Convert, Digit, DigitsEnd, Flush
  <2>4. current' = current
    BY <2>1 DEF current
  <2> QED BY <2>1, <2>2, <2>3, <2>4 DEF FormatControl, Cleared
<1> QED BY <1>1, <1>2

\* What does not change while an argument is converted.
LEMMA AskedSame ==
  ASSUME UNCHANGED <<fmt, args, base, zeros>>
  PROVE  /\ current' = current /\ precision' = precision /\ base' = base /\ zeros' = zeros
         /\ Asked' <=> Asked
PROOF
<1>1. current' = current /\ precision' = precision
  BY DEF current, precision, Character
<1> QED BY <1>1 DEF Asked

LEMMA NumericIs ==
  FormatControl /\ pc \in {"convert", "digits", "print"} =>
      Numeric(current, base, zeros, precision)
PROOF
<1> SUFFICES ASSUME FormatControl, pc \in {"convert", "digits", "print"}
             PROVE  Numeric(current, base, zeros, precision)
  OBVIOUS
<1>1. /\ current.kind \notin {"text", "bool"} /\ base \in Bases /\ zeros \in BOOLEAN
      /\ args # <<>>
      /\ zeros => current.kind = "uint64"
      /\ current.kind = "float" => base = 10
  BY DEF FormatControl
<1> QED BY <1>1, CurrentFacts DEF Numeric

LEMMA PartIs ==
  ASSUME FormatControl, pc \in {"convert", "digits", "print"}, Asked, Converting
  PROVE  /\ InPlace(current, base, zeros, precision, pieces, printed)
         /\ base \in Bases
BY NumericIs, PieceFacts DEF Asked, Converting, Numeric

LEMMA StepConvert ==
  ASSUME FormatInv, Convert
  PROVE  pc' # "skip" /\ (Asked' => Converting')
PROOF
<1> DEFINE p == Head(pieces)
           s == Target(current, base, precision, p)
<1>1. pc = "convert" /\ pc' # "skip" /\ UNCHANGED <<fmt, args, base, zeros, pieces, printed>>
  BY DEF Convert, formatter
<1>2. SUFFICES ASSUME Asked PROVE Converting'
  BY <1>1, AskedSame
<1>3. FormatControl /\ Converting
  BY <1>1, <1>2 DEF FormatInv
<1>4. PartOf(base, s, p) /\ base \in Bases
  BY <1>1, <1>2, <1>3, PartIs DEF InPlace
<1>5. Shows(buffer, s, Before(s, p.start)) /\ Left(current, base, zeros, precision, pieces, printed)
  BY <1>1, <1>3 DEF Converting
<1>6. /\ pc' = "digits"
      /\ Progress(base, p, first', count', value', it')
      /\ Shows(buffer', s, During(s, first', count', it', value'))
  BY <1>4, <1>5, ConvertPiece
<1>7. /\ current' = current /\ precision' = precision /\ base' = base /\ zeros' = zeros
      /\ pieces' = pieces /\ printed' = printed
  BY <1>1, AskedSame
<1> QED BY <1>5, <1>6, <1>7 DEF Converting

LEMMA StepDigit ==
  ASSUME FormatInv, Digit
  PROVE  pc' # "skip" /\ (Asked' => Converting')
PROOF
<1> DEFINE p == Head(pieces)
           s == Target(current, base, precision, p)
<1>1. /\ pc = "digits" /\ pc' = "digits"
      /\ UNCHANGED <<fmt, args, base, zeros, pieces, printed>>
  BY DEF Digit, formatter
<1>2. SUFFICES ASSUME Asked PROVE Converting'
  BY <1>1, AskedSame
<1>3. FormatControl /\ Converting
  BY <1>1, <1>2 DEF FormatInv
<1>4. PartOf(base, s, p) /\ base \in Bases
  BY <1>1, <1>2, <1>3, PartIs DEF InPlace
<1>5. /\ Progress(base, p, first, count, value, it)
      /\ Shows(buffer, s, During(s, first, count, it, value))
      /\ Left(current, base, zeros, precision, pieces, printed)
  BY <1>1, <1>3 DEF Converting
<1>6. /\ Progress(base, p, first', count', value', it')
      /\ Shows(buffer', s, During(s, first', count', it', value'))
  BY <1>4, <1>5, DigitOfPiece
<1>7. /\ current' = current /\ precision' = precision /\ base' = base /\ zeros' = zeros
      /\ pieces' = pieces /\ printed' = printed
  BY <1>1, AskedSame
<1> QED BY <1>1, <1>5, <1>6, <1>7 DEF Converting

LEMMA StepDigitsEnd ==
  ASSUME FormatInv, DigitsEnd
  PROVE  pc' # "skip" /\ (Asked' => Converting')
PROOF
<1> DEFINE p == Head(pieces)
           s == Target(current, base, precision, p)
           more == current.kind = "float" /\ Len(pieces) > 1
           len == Len(Signed(base, p.word))
<1>1. /\ pc = "digits" /\ value = 0 /\ pc' = IF more THEN "convert" ELSE "print"
      /\ pieces' = IF more THEN Tail(pieces) ELSE pieces
      /\ UNCHANGED <<fmt, args, base, zeros, printed, first, value, it, count, buffer>>
  BY DEF DigitsEnd, conversion, current
<1>2. SUFFICES ASSUME Asked PROVE Converting'
  BY <1>1, AskedSame
<1>3. FormatControl /\ Converting
  BY <1>1, <1>2 DEF FormatInv
<1>4. /\ PartOf(base, s, p) /\ pieces # <<>> /\ base \in Bases
      /\ current.kind # "float" \/ Len(pieces) = 1 => p.start + len = Len(s)
      /\ more =>
            /\ Left(current, base, zeros, precision, Tail(pieces), printed)
            /\ Head(Tail(pieces)).start = p.start + len + 1
            /\ s[p.start + len + 1] = dot
            /\ Target(current, base, precision, Head(Tail(pieces))) = s
  BY <1>1, <1>2, <1>3, PartIs DEF InPlace
<1>5. /\ Progress(base, p, first, count, value, it)
      /\ Shows(buffer, s, During(s, first, count, it, value))
      /\ Left(current, base, zeros, precision, pieces, printed)
  BY <1>1, <1>3 DEF Converting
<1>6. first = p.start /\ count = len
  BY <1>5 DEF Progress
<1>7. /\ current' = current /\ precision' = precision /\ base' = base /\ zeros' = zeros
      /\ printed' = printed
  BY <1>1, AskedSame
<1>8. /\ p.start \in Nat /\ len \in Nat /\ Len(s) \in Nat
  BY <1>4, PartFacts
<1> HIDE DEF s, len
<1>9. Shows(buffer, s, {j \in 1..Len(s) : j <= p.start + len \/ s[j] = dot})
  <2>1. During(s, first, count, it, value) = {j \in 1..Len(s) : j <= p.start + len \/ s[j] = dot}
    <3>1. During(s, p.start, len, it, 0) = {j \in 1..Len(s) : j <= p.start + len \/ s[j] = dot}
      <4>1. PartOf(base, s, p) /\ base \in Bases
        BY <1>4
      <4> QED BY ONLY <4>1, PieceWritten DEF len
    <3> QED BY <1>1, <1>6, <3>1
  <2> QED BY <1>5, <2>1
<1>10. CASE more
  <2> DEFINE q == Head(Tail(pieces))
  <2>1. Before(s, q.start) = {j \in 1..Len(s) : j <= p.start + len \/ s[j] = dot}
    <3>1. \A j \in 1..Len(s) : j <= q.start <=> j <= p.start + len \/ j = p.start + len + 1
      BY <1>4, <1>8, <1>10
    <3>2. s[p.start + len + 1] = dot
      BY <1>4, <1>10
    <3> QED BY <3>1, <3>2 DEF Before
  <2>2. Shows(buffer', s, Before(s, q.start))
    BY <1>1, <1>9, <2>1
  <2>3. pc' = "convert" /\ pieces' = Tail(pieces)
    BY <1>1, <1>10
  <2> HIDE DEF more
  <2> QED BY <1>4, <1>7, <1>10, <2>2, <2>3 DEF Converting, s
<1>11. CASE ~more
  <2>1. pc' = "print" /\ pieces' = pieces
    BY <1>1, <1>11
  <2>2. current.kind # "float" \/ Len(pieces) = 1
    <3> SUFFICES ASSUME current.kind = "float" PROVE Len(pieces) = 1
      OBVIOUS
    <3>1. \/ \E x : pieces = <<x>>
          \/ \E x, y : pieces = <<x, y>>
      BY <1>5 DEF Left
    <3>2. Len(pieces) = 1 \/ Len(pieces) = 2
      BY <3>1, Sequences
    <3> QED BY <1>11, <3>2
  <2>3. p.start + len = Len(s)
    BY <1>4, <2>2
  <2>4. {j \in 1..Len(s) : j <= p.start + len \/ s[j] = dot} = 1..Len(s)
    BY <1>8, <2>3
  <2>5. Shows(buffer', s, 1..Len(s))
    BY <1>1, <1>9, <2>4
  <2>6. value' = 0 /\ count' = len /\ first' + count' = Len(s)
    BY <1>1, <1>6, <2>3
  <2> QED BY <1>5, <1>7, <2>1, <2>2, <2>5, <2>6 DEF Converting, s, len
<1> QED BY <1>10, <1>11

\* The dot of a float is between its numerals, and nowhere else.
LEMMA FloatDot ==
  ASSUME NEW a \in Arguments, a.kind = "float", NEW k \in 0..9, Power(10, k) <= Word,
         NEW j \in 1..Len(FloatText(a, k)), FloatText(a, k)[j] = dot
  PROVE  Fractional(a, k) /\ j = Negative(a.value) + Len(Digits(10, Integral(a))) + 1
PROOF
<1> DEFINE m == Negative(a.value)
           d == Digits(10, Integral(a))
           e == Digits(10, Decimals(a, k))
           t == FloatText(a, k)
           F == Fractional(a, k)
<1>1. /\ m \in 0..1 /\ Len(d) \in Nat /\ Len(e) \in Nat
      /\ m = 1 => t[1] = minus
      /\ \A i \in 1..Len(d) : t[m + i] = d[i] /\ d[i] \in Nat
      /\ F => \A i \in 1..Len(e) : t[m + Len(d) + 1 + i] = e[i] /\ e[i] \in Nat
      /\ Len(t) = m + Len(d) + IF F THEN 1 + Len(e) ELSE 0
  BY FloatTextFacts
<1>2. dot \notin Nat /\ minus # dot
  BY CharactersAssumption
<1>3. t[j] = dot /\ j \in 1..Len(t)
  OBVIOUS
<1> HIDE DEF m, d, e, t, F
<1>6. m \in Nat /\ m \in 0..1 /\ Len(d) \in Nat /\ Len(e) \in Nat
  <2>1. m \in 0..1 /\ Len(d) \in Nat /\ Len(e) \in Nat
    BY <1>1
  <2> QED BY ONLY <2>1
<1>4. CASE F
  <2>1. Len(t) = m + Len(d) + (1 + Len(e))
    BY <1>1, <1>4
  <2>2. \/ j <= m
        \/ j > m /\ j <= m + Len(d)
        \/ j = m + Len(d) + 1
        \/ j > m + Len(d) + 1 /\ j <= m + Len(d) + 1 + Len(e)
    <3>1. j \in 1..Len(t)
      BY <1>3
    <3> QED BY ONLY <1>6, <2>1, <3>1
  <2>3. CASE j <= m
    <3>1. j = 1 /\ m = 1
      BY <1>1, <1>3, <2>3
    <3> QED BY <1>1, <1>2, <1>3, <3>1
  <2>4. CASE j > m /\ j <= m + Len(d)
    <3>1. j - m \in 1..Len(d) /\ m + (j - m) = j
      BY <1>1, <1>3, <2>4
    <3> QED BY <1>1, <1>2, <1>3, <3>1
  <2>5. CASE j > m + Len(d) + 1 /\ j <= m + Len(d) + 1 + Len(e)
    <3>1. j - (m + Len(d) + 1) \in 1..Len(e) /\ m + Len(d) + 1 + (j - (m + Len(d) + 1)) = j
      BY <1>1, <1>3, <2>5
    <3>2. t[j] \in Nat
      BY <1>1, <1>4, <3>1
    <3> QED BY <1>2, <1>3, <3>2
  <2> QED BY <1>4, <2>2, <2>3, <2>4, <2>5 DEF m, d, F
<1>5. CASE ~F
  <2>1. Len(t) = m + Len(d) + 0
    BY <1>1, <1>5
  <2>2. j <= m \/ (j > m /\ j <= m + Len(d))
    <3>1. j \in 1..Len(t)
      BY <1>3
    <3> QED BY ONLY <1>6, <2>1, <3>1
  <2>3. CASE j <= m
    <3>1. j = 1 /\ m = 1
      BY <1>1, <1>3, <2>3
    <3> QED BY <1>1, <1>2, <1>3, <3>1
  <2>4. CASE j > m /\ j <= m + Len(d)
    <3>1. j - m \in 1..Len(d) /\ m + (j - m) = j
      BY <1>1, <1>3, <2>4
    <3> QED BY <1>1, <1>2, <1>3, <3>1
  <2> QED BY <2>2, <2>3, <2>4
<1> QED BY <1>4, <1>5

LEMMA StepFloat ==
  ASSUME FormatInv, Float
  PROVE  pc' # "skip" /\ (Asked' => Converting')
PROOF
<1> DEFINE a == current
           k == precision
           m == Negative(a.value)
           i == Integral(a)
           n == Decimals(a, k)
           d == Digits(10, i)
           e == Digits(10, n)
           t == FloatText(a, k)
           F == Fractional(a, k)
           fraction == IF Magnitude(a) % Unit > 0 /\ precision > 0
                         THEN <<((Magnitude(a) % Unit) * Power(10, precision)) \div Unit>>
                         ELSE <<>>
           size == digits_count(Magnitude(a) \div Unit)
           needed == size + IF fraction = <<>> THEN 0 ELSE 1 + digits_count(fraction[1])
<1>1. /\ pc = "float" /\ pc' \in {"print", "convert"}
      /\ UNCHANGED <<fmt, args, base, zeros, printed>>
  BY DEF Float
<1>2. SUFFICES ASSUME Asked PROVE Converting'
  BY <1>1, AskedSame
<1>3. FormatControl
  BY DEF FormatInv
<1>4. /\ args # <<>> /\ a.kind = "float" /\ base = 10 /\ base \in Bases /\ printed = <<>>
      /\ buffer = Cleared
  BY <1>1, <1>3 DEF FormatControl
<1>5. a \in Arguments /\ k \in 0..9 /\ Power(10, k) <= Word
  BY <1>3, <1>4, CurrentFacts
<1>6. /\ a.value \in Int /\ i \in Nat /\ n \in Nat /\ Fraction(a) \in Nat
      /\ k > 0 /\ n >= Power(10, k - 1) => Len(e) = k
  BY <1>4, <1>5, FloatFacts
<1>7. /\ F => n >= Power(10, k - 1)
      /\ m + Len(d) + (IF F THEN 1 + k ELSE 0) <= FloatRoom
  <2>1. AsIsOf(a, base, zeros, k)
    BY <1>2 DEF Asked
  <2> QED BY <1>4, <2>1 DEF AsIsOf
<1>8. /\ m \in 0..1 /\ Len(d) \in Nat /\ Len(e) \in Nat /\ Len(d) >= 1
      /\ m = 1 => t[1] = minus
      /\ F => t[m + Len(d) + 1] = dot
      /\ Len(t) = m + Len(d) + IF F THEN 1 + Len(e) ELSE 0
  BY <1>4, <1>5, FloatTextFacts
<1>9. size = Len(d)
  BY <1>4, <1>6, CountIs DEF Integral
<1>10. fraction = IF F THEN <<n>> ELSE <<>>
  BY DEF Fractional, Fraction, Decimals
<1>11. digits_count(n) = Len(e)
  BY <1>4, <1>6, CountIs
<1>12. FloatRoom \in Nat /\ FloatRoom < Bits /\ Bits \in Nat
  BY FloatAssumption, WordFacts
<1>13. ~(needed > FloatRoom)
  <2> HIDE DEF size, fraction, m, i, n, d, e, t, F, a, k
  <2>1. CASE F
    <3>1. fraction = <<n>> /\ fraction # <<>> /\ fraction[1] = n
      BY <1>10, <2>1
    <3>2. k > 0 /\ k \in Nat
      BY <1>5, <2>1 DEF F, Fractional
    <3>3. needed = Len(d) + (1 + k)
      BY <1>6, <1>7, <1>9, <1>11, <2>1, <3>1, <3>2
    <3>4. m + Len(d) + (1 + k) <= FloatRoom
      BY <1>7, <2>1
    <3>5. m \in Nat /\ Len(d) \in Nat
      BY <1>8
    <3> QED BY ONLY <1>12, <3>2, <3>3, <3>4, <3>5
  <2>2. CASE ~F
    <3>1. fraction = <<>>
      BY <1>10, <2>2
    <3>2. needed = Len(d) + 0
      BY <1>9, <3>1
    <3>3. m + Len(d) + 0 <= FloatRoom
      BY <1>7, <2>2
    <3>5. m \in Nat /\ Len(d) \in Nat
      BY <1>8
    <3> QED BY ONLY <1>12, <3>2, <3>3, <3>5
  <2> QED BY <2>1, <2>2
<1>14. /\ pieces' = FloatPieces(Magnitude(a), fraction, m)
       /\ buffer' = [x \in 0..Bits |->
                         IF m = 1 /\ x = 0 THEN minus
                         ELSE IF fraction # <<>> /\ x = m + size THEN dot
                         ELSE buffer[x]]
       /\ pc' = "convert"
  <2>1. IF needed > FloatRoom
          THEN pc' = "print" /\ UNCHANGED <<pieces, conversion>>
          ELSE /\ pieces' = FloatPieces(Magnitude(a), fraction, m)
               /\ buffer' = [x \in 0..Bits |->
                         IF m = 1 /\ x = 0 THEN minus
                         ELSE IF fraction # <<>> /\ x = m + size THEN dot
                         ELSE buffer[x]]
               /\ pc' = "convert" /\ UNCHANGED <<first, value, it, count>>
    BY DEF Float, Magnitude, Negative, current
  <2> HIDE DEF needed, size, fraction, m, a
  <2> QED BY <1>13, <2>1
<1>15. /\ FloatPieces(Magnitude(a), fraction, m) =
             <<IntegralPiece(a)>> \o IF fraction = <<>> THEN <<>> ELSE <<DecimalPiece(a, k)>>
  <2>1. CASE F
    <3>1. fraction = <<n>> /\ fraction # <<>> /\ fraction[1] = n
      BY <1>10, <2>1
    <3>2. /\ Piece(Magnitude(a) \div Unit, m, size) = IntegralPiece(a)
          /\ Piece(n, m + size + 1, digits_count(n)) = DecimalPiece(a, k)
      BY <1>9, <1>11 DEF IntegralPiece, DecimalPiece, Integral
    <3> HIDE DEF size, fraction, m, n, a, k
    <3> QED BY <3>1, <3>2 DEF FloatPieces, size
  <2>2. CASE ~F
    <3>1. fraction = <<>>
      BY <1>10, <2>2
    <3>2. Piece(Magnitude(a) \div Unit, m, size) = IntegralPiece(a)
      BY <1>9 DEF IntegralPiece, Integral
    <3> HIDE DEF size, fraction, m, n, a, k
    <3> QED BY <3>1, <3>2 DEF FloatPieces, size
  <2> QED BY <2>1, <2>2
<1>16. pieces' = IF F THEN <<IntegralPiece(a), DecimalPiece(a, k)>> ELSE <<IntegralPiece(a)>>
  <2> HIDE DEF size, fraction, m, a, k, F
  <2>1. CASE F
    <3>1. fraction # <<>>
      BY <1>10, <2>1
    <3> QED BY <1>14, <1>15, <2>1, <3>1, Sequences
  <2>2. CASE ~F
    <3>1. fraction = <<>>
      BY <1>10, <2>2
    <3> QED BY <1>14, <1>15, <2>2, <3>1, Sequences
  <2> QED BY <2>1, <2>2
<1>17. Shows(buffer', t, Before(t, m))
  <2>1. \A j \in 1..Len(t) : t[j] = dot => F /\ j = m + Len(d) + 1
    BY <1>4, <1>5, FloatDot
  <2>2. fraction # <<>> <=> F
    BY <1>10
  <2> HIDE DEF size, fraction, m, i, n, d, e, t, F, a, k
  <2>3. buffer' = [x \in 0..Bits |->
                         IF m = 1 /\ x = 0 THEN minus
                         ELSE IF F /\ x = m + Len(d) THEN dot ELSE NUL]
    BY <1>4, <1>9, <1>14, <2>2 DEF Cleared
  <2>4. /\ F => m + Len(d) + 1 \in 1..Len(t)
        /\ 1 \in 1..Len(t) /\ Len(t) \in Nat
    <3>1. CASE F
      <4>1. Len(t) = m + Len(d) + (1 + Len(e))
        BY <1>8, <3>1
      <4>2. m \in Nat /\ Len(d) \in Nat /\ Len(e) \in Nat
        BY <1>8
      <4> QED BY ONLY <4>1, <4>2
    <3>2. CASE ~F
      <4>1. Len(t) = m + Len(d) + 0
        BY <1>8, <3>2
      <4>2. m \in Nat /\ Len(d) \in Nat /\ Len(d) >= 1
        BY <1>8
      <4> QED BY ONLY <4>1, <4>2, <3>2
    <3> QED BY <3>1, <3>2
  <2>5. ASSUME NEW x \in 0..Bits
        PROVE  (IF m = 1 /\ x = 0 THEN minus ELSE IF F /\ x = m + Len(d) THEN dot ELSE NUL) =
               IF x + 1 \in Before(t, m) THEN t[x + 1] ELSE NUL
    <3>1. x \in Nat /\ m \in Nat /\ Len(d) \in Nat
      BY <1>8, <1>12
    <3>2. CASE m = 1 /\ x = 0
      <4>1. x + 1 = 1 /\ 1 <= m
        BY <3>2
      <4>2. 1 \in Before(t, m)
        BY <2>4, <4>1 DEF Before
      <4>3. t[1] = minus
        BY <1>8, <3>2
      <4> QED BY <3>2, <4>1, <4>2, <4>3
    <3>3. CASE ~(m = 1 /\ x = 0) /\ F /\ x = m + Len(d)
      <4>1. x + 1 = m + Len(d) + 1 /\ x + 1 \in Before(t, m) /\ t[x + 1] = dot
        BY <1>8, <2>4, <3>3 DEF Before
      <4> QED BY <3>3, <4>1
    <3>4. CASE ~(m = 1 /\ x = 0) /\ ~(F /\ x = m + Len(d))
      <4>1. ~(x + 1 <= m)
        BY <1>8, <3>1, <3>4
      <4>2. ~(F /\ x + 1 = m + Len(d) + 1)
        BY <3>1, <3>4
      <4>3. x + 1 \notin Before(t, m)
        BY <2>1, <4>1, <4>2 DEF Before
      <4> QED BY <3>4, <4>3
    <3> QED BY <3>2, <3>3, <3>4
  <2> QED BY <2>3, <2>5 DEF Shows
<1>18. /\ current' = a /\ precision' = k /\ base' = base /\ zeros' = zeros /\ printed' = <<>>
       /\ pc' = "convert"
  BY <1>1, <1>4, <1>14, AskedSame
<1>19. Head(pieces') = IntegralPiece(a) /\ IntegralPiece(a).start = m
  <2>1. IntegralPiece(a).start = m
    BY DEF IntegralPiece, Piece
  <2> HIDE DEF m, a, k, F
  <2> QED BY <1>16, <2>1, Sequences
<1>20. Left(a, base, zeros, k, pieces', <<>>)
  <2> HIDE DEF a, k
  <2> QED BY <1>4, <1>16 DEF Left
<1>21. \A p : Target(a, base, k, p) = t
  BY <1>4 DEF Target
<1> HIDE DEF a, k, t, m
<1> QED BY <1>17, <1>18, <1>19, <1>20, <1>21 DEF Converting

----------------------------------------------------------------------------
(* What is printed.                                                        *)

NumeralIn(b, z, d) ==
    /\ d # <<>> /\ \A i \in DOMAIN d : d[i] \in 0..(b - 1)
    /\ d[1] = 0 => Len(d) = 1 \/ z
NumberIs(b, z, s, n) ==
    /\ NumeralIn(b, z, Unsigned(s))
    /\ n = IF Head(s) = minus THEN -ValueOf(b, Unsigned(s)) ELSE ValueOf(b, Unsigned(s))
FloatIs(b, z, k, s, a) ==
    LET i == SelectInSeq(s, LAMBDA c : c = dot)
        whole == Unsigned(IF i = 0 THEN s ELSE SubSeq(s, 1, i - 1))
    IN  /\ NumeralIn(b, z, whole) /\ ValueOf(b, whole) = Integral(a)
        /\ (Head(s) = minus) = (a.value < 0)
        /\ (i = 0) = (Fraction(a) = 0 \/ k = 0)
        /\ i # 0 => LET digits == SubSeq(s, i + 1, Len(s))
                    IN  Len(digits) = k /\ ValueOf(b, digits) = Decimals(a, k)
Prints(b, z, k, s, a, ch) ==
    CASE a.kind \in {"text", "bool"} -> s = Text(a, ch)
      [] a.kind = "float" -> FloatIs(b, z, k, s, a)
      [] OTHER -> NumberIs(b, z, s, a.value)

LEMMA PrintsIs ==
  PrintsArgument <=>
      (pc = "skip" /\ AsIs(Head(args)) =>
           Prints(base, zeros, precision, printed, Head(args), Character(1)))
PROOF
<1>1. \A s : Denotes(s) = ValueOf(base, s)
  BY DEF Denotes, ValueOf, Sum, IsSums
<1>2. \A s : IsNumeral(s) <=> NumeralIn(base, zeros, s)
  BY DEF IsNumeral, NumeralIn
<1>3. \A s, n : ReadsAs(s, n) <=> NumberIs(base, zeros, s, n)
  BY <1>1, <1>2 DEF ReadsAs, NumberIs
<1>4. ASSUME NEW s, NEW a
      PROVE  ReadsAsFloat(s, a) <=> FloatIs(base, zeros, precision, s, a)
  <2> DEFINE i == SelectInSeq(s, LAMBDA c : c = dot)
             whole == Unsigned(IF i = 0 THEN s ELSE SubSeq(s, 1, i - 1))
             digits == SubSeq(s, i + 1, Len(s))
             k == precision
  <2>1. ReadsAsFloat(s, a) <=>
          /\ IsNumeral(whole) /\ Denotes(whole) = Magnitude(a) \div Unit
          /\ (Head(s) = minus) = (a.value < 0)
          /\ (i = 0) = (Fraction(a) = 0 \/ k = 0)
          /\ i # 0 => Len(digits) = k /\ Denotes(digits) = FractionDigits(a)
    BY DEF ReadsAsFloat
  <2>2. FloatIs(base, zeros, k, s, a) <=>
          /\ NumeralIn(base, zeros, whole) /\ ValueOf(base, whole) = Integral(a)
          /\ (Head(s) = minus) = (a.value < 0)
          /\ (i = 0) = (Fraction(a) = 0 \/ k = 0)
          /\ i # 0 => Len(digits) = k /\ ValueOf(base, digits) = Decimals(a, k)
    BY DEF FloatIs
  <2>3. FractionDigits(a) = Decimals(a, k) /\ Magnitude(a) \div Unit = Integral(a)
    BY DEF FractionDigits, Decimals, Integral
  <2> HIDE DEF i, whole, digits, k
  <2>4. ReadsAsFloat(s, a) <=> FloatIs(base, zeros, k, s, a)
    BY <1>1, <1>2, <2>1, <2>2, <2>3
  <2> QED BY <2>4 DEF k
<1>5. \A a : a.kind \in {"text", "bool"} \/ a.kind = "float" \/ a.kind \notin {"text", "bool", "float"}
  OBVIOUS
<1> QED BY <1>3, <1>4, <1>5 DEF PrintsArgument, Prints

LEMMA StepParse ==
  ASSUME FormatInv, Parse, FormatControl'
  PROVE  /\ pc' \in {"convert", "digits", "print"} /\ Asked' => Converting'
         /\ PrintsArgument'
PROOF
<1> DEFINE a == current
<1>1. FormatControl /\ pc = "text" /\ args # <<>> /\ fmt # <<>>
  BY DEF FormatInv, Parse
<1>2. fmt' = Tail(fmt) /\ UNCHANGED <<args, buffer>> /\ buffer = Cleared
  BY <1>1 DEF Parse, conversion, FormatControl
<1>3. current' = a /\ Head(args) = a /\ Head(args)' = a
  BY <1>2 DEF current
<1>4. a \in Arguments
  BY <1>1, CurrentFacts
<1>5. CASE a.kind \in {"text", "bool"}
  <2>1. pc' = "skip" /\ printed' = Text(a, Character(2))
    BY <1>5 DEF Parse, Say, current
  <2>2. Character(2) = Character(1)'
    <3>1. fmt \in Seq(FormatCharacters) /\ Len(fmt) \in Nat /\ Len(fmt) >= 1
      BY <1>1 DEF FormatControl
    <3>2. Len(fmt') = Len(fmt) - 1 /\ (2 <= Len(fmt) => fmt'[1] = fmt[2])
      BY <1>2, <3>1
    <3> QED BY <3>1, <3>2 DEF Character
  <2>3. Prints(base, zeros, precision, printed, Head(args), Character(1))'
    BY <1>3, <1>5, <2>1, <2>2 DEF Prints
  <2>4. PrintsArgument'
    BY <2>3, PrintsIs, PTL
  <2> QED BY <2>1, <2>4
<1>6. CASE a.kind = "float"
  <2>1. pc' = "float"
    BY <1>6 DEF Parse, current
  <2> QED BY <2>1 DEF PrintsArgument
<1>7. CASE a.kind \notin {"text", "bool", "float"}
  <2>1. /\ pc' = "convert" /\ printed' = <<>> /\ pieces' = Words(a, zeros')
        /\ zeros' = (a.kind = "uint64" /\ Character(3) = "0")
    BY <1>7 DEF Parse, current
  <2>2. base' \in Bases /\ zeros' \in BOOLEAN
    BY DEF FormatControl
  <2>3. PrintsArgument'
    BY <2>1 DEF PrintsArgument
  <2> SUFFICES ASSUME Asked' PROVE Converting'
    BY <2>3
  <2> DEFINE p == Head(pieces')
             s == Signed(base', p.word)
  <2>4. Left(a, base', zeros', precision', pieces', printed')
    BY <1>7, <2>1 DEF Left, Words, Halved
  <2>5. AsIsOf(a, base', zeros', precision')
    BY <1>3 DEF Asked
  <2>6. Numeric(a, base', zeros', precision')
    <3>1. FormatControl' /\ pc' \in {"convert", "digits", "print"}
      BY <2>1
    <3>2. Numeric(current, base, zeros, precision)'
      <4>1. (pc \in {"convert", "digits", "print"})'
        BY <3>1
      <4> QED BY <3>1, <4>1, NumericIs, PTL
    <3> QED BY <1>3, <3>2
  <2>7. InPlace(a, base', zeros', precision', pieces', printed')
    BY <2>4, <2>5, <2>6, PieceFacts
  <2>8. Target(a, base', precision', p) = s
    BY <1>7 DEF Target
  <2>9. PartOf(base', s, p) /\ pieces' # <<>>
    BY <2>7, <2>8 DEF InPlace
  <2>10. p.start = 0
    <3>1. pieces' \in {<<Whole(a.value)>>, <<Whole(a.value \div Word), Whole(a.value % Word)>>}
      BY <2>1 DEF Words
    <3>2. p \in {Whole(a.value), Whole(a.value \div Word)}
      BY <3>1, Sequences
    <3> QED BY <3>2 DEF Whole, Piece
  <2>11. \A j \in 1..Len(s) : s[j] # dot
    <3>1. p.word \in Int
      BY <2>2, <2>9, PartFacts
    <3>2. s \in Seq(Nat \cup {minus})
      BY <2>2, <3>1, SignedFacts
    <3>3. dot \notin Nat \cup {minus}
      BY CharactersAssumption
    <3> QED BY <3>2, <3>3
  <2>12. Shows(buffer', s, Before(s, p.start))
    <3>1. Before(s, 0) = {}
      BY <2>11 DEF Before
    <3> HIDE DEF s
    <3> QED BY <1>2, <2>10, <3>1 DEF Shows, Cleared
  <2> HIDE DEF s, p, a
  <2> QED BY <1>3, <2>1, <2>4, <2>8, <2>12 DEF Converting, p
<1> QED BY <1>5, <1>6, <1>7

LEMMA UnsignedFacts ==
  ASSUME NEW d \in Seq(Nat), Len(d) >= 1, NEW n \in Int
  PROVE  Unsigned(Minus(n) \o d) = d /\ (Head(Minus(n) \o d) = minus <=> n < 0)
PROOF
<1>1. minus \notin Nat /\ d[1] \in Nat /\ Len(d) \in Nat
  BY CharactersAssumption
<1>2. CASE n < 0
  <2> DEFINE s == <<minus>> \o d
  <2>1. Minus(n) = <<minus>>
    BY <1>2 DEF Minus
  <2>2. <<minus>> \in Seq(Written) /\ d \in Seq(Written)
    <3>1. Nat \subseteq Written /\ minus \in Written
      BY DEF Written
    <3> QED BY <3>1, SeqWithin
  <2>3. Head(s) = minus /\ Tail(s) = d
    BY <2>2
  <2> HIDE DEF s
  <2>4. Unsigned(s) = d
    BY <2>3 DEF Unsigned
  <2> QED BY <1>2, <2>1, <2>3, <2>4 DEF s
<1>3. CASE ~(n < 0)
  <2>1. Minus(n) \o d = d
    <3>1. Minus(n) = <<>>
      BY <1>3 DEF Minus
    <3>2. <<>> \o d = d
      OBVIOUS
    <3> QED BY <3>1, <3>2
  <2>2. Head(d) = d[1] /\ d[1] # minus
    BY <1>1
  <2>3. Unsigned(d) = d
    BY <2>2 DEF Unsigned
  <2> QED BY <1>3, <2>1, <2>2, <2>3
<1> QED BY <1>2, <1>3

LEMMA NumeralOfDigits ==
  ASSUME NEW b \in Bases, NEW n \in Nat, NEW z PROVE NumeralIn(b, z, Digits(b, n))
PROOF
<1> DEFINE d == Digits(b, n)
<1>1. /\ d \in Seq(0..(b - 1)) /\ Len(d) \in Nat /\ Len(d) >= 1
      /\ n # 0 => d[1] # 0
      /\ n = 0 => d = <<0>>
  BY DigitsFacts
<1>2. d[1] = 0 => Len(d) = 1
  <2>1. Len(<<0>>) = 1
    OBVIOUS
  <2> QED BY <1>1, <2>1
<1> DEFINE B == 0..(b - 1)
<1>3. d # <<>> /\ \A i \in DOMAIN d : d[i] \in B
  <2>1. d \in Seq(B) /\ Len(d) >= 1
    BY <1>1
  <2> HIDE DEF d, B
  <2> QED BY <2>1
<1> QED BY <1>2, <1>3 DEF NumeralIn

\* A number is read as what it is.
LEMMA SignedIs ==
  ASSUME NEW b \in Bases, NEW n \in Int, NEW z PROVE NumberIs(b, z, Signed(b, n), n)
PROOF
<1> DEFINE d == Digits(b, Size(n))
<1>1. Size(n) \in Nat
  BY MinusFacts
<1>2. d \in Seq(Nat) /\ Len(d) >= 1
  BY <1>1, DigitsFacts
<1>3. NumeralIn(b, z, d) /\ ValueOf(b, d) = Size(n)
  BY <1>1, NumeralOfDigits, DigitsValue
<1> HIDE DEF d
<1>4. /\ Unsigned(Minus(n) \o d) = d
      /\ Head(Minus(n) \o d) = minus <=> n < 0
  BY <1>2, UnsignedFacts
<1>5. n = IF n < 0 THEN -Size(n) ELSE Size(n)
  BY DEF Size
<1> DEFINE s == Minus(n) \o d
<1>6. Signed(b, n) = s
  BY DEF Signed, d
<1> HIDE DEF s
<1> QED BY <1>3, <1>4, <1>5, <1>6 DEF NumberIs, s

LEMMA InFullFacts ==
  ASSUME NEW b \in Bases, NEW z \in BOOLEAN, NEW n \in Nat, n < Word
  PROVE  /\ InFull(b, z, n) \in Seq(0..(b - 1)) /\ InFull(b, z, n) \in Seq(Nat)
         /\ Len(InFull(b, z, n)) \in Nat /\ Len(InFull(b, z, n)) >= 1
         /\ ValueOf(b, InFull(b, z, n)) = n
         /\ z /\ b = 16 => Len(InFull(b, z, n)) = MAX_LENGTH
PROOF
<1> DEFINE d == Digits(b, n)
           gap == MAX_LENGTH - Len(d)
           front == IF z /\ b = 16 THEN Zeros(gap) ELSE <<>>
           s == front \o d
           B == 0..(b - 1)
<1>1. d \in Seq(B) /\ d \in Seq(Nat) /\ Len(d) \in Nat /\ Len(d) >= 1
  BY DigitsFacts
<1>2. MAX_LENGTH \in Nat /\ (b = 16 => Len(d) <= MAX_LENGTH)
  BY DigitsFit, WordFacts
<1>3. 0 \in B
  BY DEF Bases
<1> HIDE DEF d, B
<1>4. gap \in Int
  BY <1>1, <1>2
<1>5. /\ Zeros(gap) \in Seq({0}) /\ Len(Zeros(gap)) = IF gap >= 0 THEN gap ELSE 0
      /\ ValueOf(b, Zeros(gap)) = 0
  BY <1>4, ZerosFacts, ZerosValue
<1>6. /\ front \in Seq({0}) /\ ValueOf(b, front) = 0
      /\ z /\ b = 16 => Len(front) + Len(d) = MAX_LENGTH
  <2>1. CASE z /\ b = 16
    <3>1. gap >= 0 /\ gap + Len(d) = MAX_LENGTH
      BY <1>1, <1>2, <2>1
    <3> HIDE DEF gap
    <3> QED BY <1>5, <2>1, <3>1
  <2>2. CASE ~(z /\ b = 16)
    <3>1. front = <<>> /\ Len(<<>>) = 0 /\ <<>> \in Seq({0})
      BY <2>2
    <3>2. ValueOf(b, <<>>) = 0
      BY <3>1, SumIs DEF ValueOf
    <3> QED BY <2>2, <3>1, <3>2
  <2> QED BY <2>1, <2>2
<1> HIDE DEF front
<1>7. front \in Seq(B) /\ front \in Seq(Nat) /\ Len(front) \in Nat
  <2>1. {0} \subseteq B /\ {0} \subseteq Nat
    BY <1>3
  <2> QED BY <1>6, <2>1, SeqWithin
<1>8. s \in Seq(B) /\ s \in Seq(Nat) /\ Len(s) = Len(front) + Len(d)
  BY ONLY <1>1, <1>7
<1>9. ValueOf(b, s) = n
  <2>1. ValueOf(b, s) = ValueOf(b, front) * Power(b, Len(d)) + ValueOf(b, d)
    BY <1>1, <1>7, ValueConcat
  <2>2. Power(b, Len(d)) \in Nat /\ ValueOf(b, d) = n
    BY <1>1, PowerNat, DigitsValue DEF d
  <2> HIDE DEF s
  <2> QED BY <1>6, <2>1, <2>2
<1>10. Len(s) \in Nat /\ Len(s) >= 1
  BY <1>1, <1>7, <1>8
<1>11. InFull(b, z, n) = s
  BY DEF InFull, front, d
<1> HIDE DEF s
<1> QED BY <1>6, <1>8, <1>9, <1>10, <1>11 DEF B

\* Two halves are read as one number, if the second one is padded or the first
\* one is zero.
LEMMA HalvesAre ==
  ASSUME NEW b \in Bases, NEW h \in Nat, h < Word, NEW l \in Nat, l < Word,
         b = 16 \/ h = 0
  PROVE  NumberIs(b, TRUE, InFull(b, TRUE, h) \o InFull(b, TRUE, l), Word * h + l)
PROOF
<1> DEFINE u == InFull(b, TRUE, h)
           v == InFull(b, TRUE, l)
           s == u \o v
           B == 0..(b - 1)
<1>1. /\ u \in Seq(B) /\ u \in Seq(Nat) /\ Len(u) \in Nat /\ Len(u) >= 1 /\ ValueOf(b, u) = h
      /\ v \in Seq(B) /\ v \in Seq(Nat) /\ Len(v) \in Nat /\ Len(v) >= 1 /\ ValueOf(b, v) = l
      /\ b = 16 => Len(v) = MAX_LENGTH
  BY InFullFacts
<1> HIDE DEF u, v, B
<1>2. /\ s \in Seq(B) /\ s \in Seq(Nat) /\ Len(s) = Len(u) + Len(v)
  BY ONLY <1>1
<1>3. Len(s) \in Nat /\ Len(s) >= 1
  BY <1>1, <1>2
<1>4. ValueOf(b, s) = h * Power(b, Len(v)) + l
  BY <1>1, ValueConcat
<1>5. h * Power(b, Len(v)) = Word * h
  <2>1. Word \in Nat /\ Word = Power(16, MAX_LENGTH)
    BY WordFacts
  <2>2. CASE b = 16
    BY <1>1, <2>1, <2>2
  <2>3. CASE h = 0
    <3>1. Power(b, Len(v)) \in Nat
      BY <1>1, PowerNat
    <3> QED BY <2>1, <2>3, <3>1
  <2> QED BY <2>2, <2>3
<1> HIDE DEF s
<1>6. minus \notin Nat /\ s[1] \in Nat /\ Head(s) = s[1]
  BY <1>2, <1>3, CharactersAssumption
<1>7. Unsigned(s) = s /\ Head(s) # minus
  BY <1>6 DEF Unsigned
<1>8. NumeralIn(b, TRUE, s)
  <2>1. s # <<>> /\ \A i \in DOMAIN s : s[i] \in B
    BY <1>2, <1>3
  <2> QED BY <2>1 DEF NumeralIn, B
<1>9. NumberIs(b, TRUE, s, Word * h + l)
  BY <1>4, <1>5, <1>7, <1>8 DEF NumberIs
<1> QED BY <1>9 DEF s, u, v

LEMMA SplitFacts ==
  ASSUME NEW Z, NEW c \in Seq(Z), NEW x \in Z, NEW e \in Seq(Z)
  PROVE  LET t == c \o (<<x>> \o e)
         IN  /\ Len(t) = Len(c) + 1 + Len(e)
             /\ SubSeq(t, 1, Len(c)) = c
             /\ SubSeq(t, Len(c) + 2, Len(t)) = e
             /\ Len(c) >= 1 => Head(t) = Head(c)
PROOF
<1> DEFINE u == <<x>> \o e
           t == c \o u
<1>1. <<x>> \in Seq(Z) /\ Len(<<x>>) = 1
  OBVIOUS
<1>2. u \in Seq(Z) /\ Len(u) = 1 + Len(e) /\ \A i \in 1..Len(e) : u[1 + i] = e[i]
  BY <1>1, ConcatFacts
<1> HIDE DEF u
<1>3. /\ t \in Seq(Z) /\ Len(t) = Len(c) + Len(u) /\ Len(c) \in Nat /\ Len(e) \in Nat
      /\ \A i \in 1..Len(c) : t[i] = c[i]
      /\ \A i \in 1..Len(u) : t[Len(c) + i] = u[i]
  <2>1. u \in Seq(Z) /\ c \in Seq(Z) /\ Len(e) \in Nat
    BY <1>2
  <2> QED BY ONLY <2>1, ConcatFacts
<1> HIDE DEF t
<1>4. Len(t) = Len(c) + 1 + Len(e)
  BY <1>2, <1>3
<1>5. SubSeq(t, 1, Len(c)) = c
  <2> DEFINE w == SubSeq(t, 1, Len(c))
  <2>1. w \in Seq(Z) /\ Len(w) = Len(c) /\ \A i \in 1..Len(c) : w[i] = t[i]
    BY <1>3, <1>4
  <2> HIDE DEF w
  <2>2. w = c
    BY <1>3, <2>1, SeqEqual
  <2> QED BY <2>2 DEF w
<1>6. SubSeq(t, Len(c) + 2, Len(t)) = e
  <2> DEFINE w == SubSeq(t, Len(c) + 2, Len(t))
  <2>1. /\ w \in Seq(Z) /\ Len(w) = Len(e)
        /\ \A i \in 1..Len(e) : w[i] = t[Len(c) + (1 + i)]
    BY <1>3, <1>4
  <2> HIDE DEF w
  <2>2. \A i \in 1..Len(e) : 1 + i \in 1..Len(u)
    BY <1>2, <1>3
  <2>3. \A i \in 1..Len(e) : w[i] = e[i]
    BY <1>2, <1>3, <2>1, <2>2
  <2>4. w = e
    BY <2>1, <2>3, SeqEqual
  <2> QED BY <2>4 DEF w
<1>7. Len(c) >= 1 => Head(t) = Head(c)
  <2> HAVE Len(c) >= 1
  <2>1. 1 \in 1..Len(c) /\ Head(t) = t[1] /\ Head(c) = c[1]
    BY <1>3, <1>4
  <2> QED BY <1>3, <2>1
<1> QED BY <1>4, <1>5, <1>6, <1>7 DEF t, u

\* A float is read as what it is, up to its precision.
LEMMA FloatTextIs ==
  ASSUME NEW a \in Arguments, a.kind = "float", NEW k \in 0..9, Power(10, k) <= Word,
         NEW z, AsIsOf(a, 10, z, k)
  PROVE  FloatIs(10, z, k, FloatText(a, k), a)
PROOF
<1> DEFINE m == Negative(a.value)
           d == Digits(10, Integral(a))
           e == Digits(10, Decimals(a, k))
           c == Minus(a.value) \o d
           t == FloatText(a, k)
           F == Fractional(a, k)
           I == {j \in 1..Len(t) : t[j] = dot}
           i == SelectInSeq(t, LAMBDA x : x = dot)
           whole == Unsigned(IF i = 0 THEN t ELSE SubSeq(t, 1, i - 1))
           decimals == SubSeq(t, i + 1, Len(t))
<1>1. /\ a.value \in Int /\ Integral(a) \in Nat /\ Decimals(a, k) \in Nat /\ Fraction(a) \in Nat
      /\ k > 0 /\ Decimals(a, k) >= Power(10, k - 1) => Len(e) = k
  BY FloatFacts
<1>2. 10 \in Bases
  BY DEF Bases
<1>3. /\ d \in Seq(Nat) /\ Len(d) \in Nat /\ Len(d) >= 1 /\ e \in Seq(Nat) /\ Len(e) \in Nat
      /\ NumeralIn(10, z, d) /\ ValueOf(10, d) = Integral(a) /\ ValueOf(10, e) = Decimals(a, k)
  BY <1>1, <1>2, DigitsFacts, NumeralOfDigits, DigitsValue
<1>4. F => Len(e) = k
  BY <1>1 DEF AsIsOf, Fractional
<1>5. /\ m \in 0..1
      /\ F => t[m + Len(d) + 1] = dot
      /\ Len(t) = m + Len(d) + IF F THEN 1 + Len(e) ELSE 0
  BY FloatTextFacts
<1>6. \A j \in I : F /\ j = m + Len(d) + 1
  BY FloatDot
<1>7. i = IF I # {} THEN Min(I) ELSE 0
  BY DEF SelectInSeq
<1>8. c \in Seq(Written) /\ Len(c) = m + Len(d) /\ Unsigned(c) = d
      /\ (Head(c) = minus <=> a.value < 0)
  <2>1. Minus(a.value) \in Seq({minus}) /\ Len(Minus(a.value)) = m
    BY <1>1, MinusFacts
  <2>2. Minus(a.value) \in Seq(Written) /\ d \in Seq(Written)
    <3>1. Nat \subseteq Written /\ {minus} \subseteq Written
      BY DEF Written
    <3> QED BY <1>3, <2>1, <3>1, SeqWithin
  <2>3. c \in Seq(Written) /\ Len(c) = m + Len(d)
    <3> HIDE DEF d, m
    <3> QED BY <2>1, <2>2, ConcatFacts
  <2>4. Unsigned(c) = d /\ (Head(c) = minus <=> a.value < 0)
    BY <1>1, <1>3, UnsignedFacts
  <2> QED BY <2>3, <2>4
<1>9. t = c \o IF F THEN <<dot>> \o e ELSE <<>>
  BY DEF FloatText, AfterDot
<1>10. F <=> ~(Fraction(a) = 0 \/ k = 0)
  BY <1>1 DEF Fractional
<1> HIDE DEF m, d, e, c, t, F, I, i
<1>11. CASE F
  <2>1. e \in Seq(Written) /\ dot \in Written
    <3>1. Nat \subseteq Written /\ dot \in Written
      BY DEF Written
    <3> QED BY <1>3, <3>1, SeqWithin
  <2>2. t = c \o (<<dot>> \o e)
    BY <1>9, <1>11
  <2>3. /\ Len(t) = Len(c) + 1 + Len(e) /\ SubSeq(t, 1, Len(c)) = c
        /\ SubSeq(t, Len(c) + 2, Len(t)) = e
        /\ Len(c) >= 1 => Head(t) = Head(c)
    <3>1. c \in Seq(Written)
      BY <1>8
    <3> QED BY ONLY <2>1, <2>2, <3>1, SplitFacts
  <2>4. m \in Nat /\ Len(c) \in Nat /\ Len(c) >= 1
    <3>1. Len(c) = m + Len(d) /\ m \in 0..1 /\ Len(d) \in Nat /\ Len(d) >= 1
      BY <1>3, <1>5, <1>8
    <3> QED BY ONLY <3>1
  <2>5. i = Len(c) + 1
    <3>1. Len(c) + 1 \in 1..Len(t)
      BY <1>3, <2>3, <2>4
    <3>5. t[Len(c) + 1] = dot
      BY <1>5, <1>8, <1>11
    <3>2. Len(c) + 1 \in I
      BY <3>1, <3>5 DEF I
    <3>3. I = {Len(c) + 1}
      BY <1>6, <1>8, <3>2
    <3>4. Min({Len(c) + 1}) = Len(c) + 1
      BY <2>4 DEF Min
    <3> QED BY <1>7, <3>3, <3>4
  <2>6. i # 0 /\ i - 1 = Len(c) /\ i + 1 = Len(c) + 2
    BY <2>4, <2>5
  <2>7. whole = d /\ decimals = e /\ (Head(t) = minus <=> a.value < 0)
    BY <1>8, <2>3, <2>4, <2>6
  <2> HIDE DEF whole, decimals
  <2>8. /\ NumeralIn(10, z, whole) /\ ValueOf(10, whole) = Integral(a)
        /\ (Head(t) = minus) = (a.value < 0)
        /\ (i = 0) = (Fraction(a) = 0 \/ k = 0)
        /\ i # 0 => Len(decimals) = k /\ ValueOf(10, decimals) = Decimals(a, k)
    BY <1>3, <1>4, <1>10, <1>11, <2>6, <2>7
  <2> QED BY <2>8 DEF FloatIs, whole, decimals, i, t
<1>12. CASE ~F
  <2>1. t = c
    BY <1>8, <1>9, <1>12
  <2>2. i = 0
    <3>1. I = {}
      BY <1>6, <1>12
    <3> QED BY <1>7, <3>1
  <2>3. whole = d /\ (Head(t) = minus <=> a.value < 0)
    BY <1>8, <2>1, <2>2
  <2> HIDE DEF whole, decimals
  <2>4. /\ NumeralIn(10, z, whole) /\ ValueOf(10, whole) = Integral(a)
        /\ (Head(t) = minus) = (a.value < 0)
        /\ (i = 0) = (Fraction(a) = 0 \/ k = 0)
        /\ i # 0 => Len(decimals) = k /\ ValueOf(10, decimals) = Decimals(a, k)
    BY <1>3, <1>10, <1>12, <2>2, <2>3
  <2> QED BY <2>4 DEF FloatIs, whole, decimals, i, t
<1> QED BY <1>11, <1>12

----------------------------------------------------------------------------
(* What is printed is the argument.                                        *)

LEMMA StartsClear ==
  ASSUME NEW b \in Bases, NEW n \in Int, NEW buf, buf = Cleared
  PROVE  Shows(buf, Signed(b, n), Before(Signed(b, n), 0))
PROOF
<1> DEFINE s == Signed(b, n)
<1>1. s \in Seq(Nat \cup {minus})
  BY SignedFacts
<1>2. dot \notin Nat \cup {minus}
  BY CharactersAssumption
<1>3. Len(s) \in Nat /\ \A j \in 1..Len(s) : s[j] # dot
  BY <1>1, <1>2
<1> HIDE DEF s
<1>4. Before(s, 0) = {}
  BY <1>3 DEF Before
<1>5. Shows(buf, s, Before(s, 0))
  BY <1>4 DEF Shows, Cleared
<1> QED BY <1>5 DEF s

\* Both halves, and how they are read.
HalvesRead(a, b, z) ==
    /\ a.value \div Word \in Nat /\ a.value \div Word < Word
    /\ a.value % Word \in Nat /\ a.value % Word < Word
    /\ z = TRUE /\ a.kind = "uint64"
    /\ NumberIs(b, z, InFull(b, z, a.value \div Word) \o InFull(b, z, a.value % Word), a.value)

LEMMA HalfFacts ==
  ASSUME NEW a, NEW b, NEW z, NEW k, Numeric(a, b, z, k), AsIsOf(a, b, z, k), Halved(a, z)
  PROVE  HalvesRead(a, b, z)
PROOF
<1> DEFINE h == a.value \div Word
           l == a.value % Word
<1>1. /\ a \in Arguments /\ b \in Bases /\ z \in BOOLEAN /\ a.kind = "uint64"
  BY DEF Numeric, Halved
<1>2. a.kind \notin {"text", "bool", "float"}
  BY <1>1
<1>3. /\ h \in Nat /\ h < Word /\ l \in Nat /\ l < Word /\ a.value = Word * h + l
      /\ a.value < Word => h = 0
      /\ a.value \in Nat
  BY <1>1, <1>2, WordsFacts
<1>4. a.value < Word \/ (z /\ b = 16)
  BY <1>1 DEF AsIsOf
<1>5. z = TRUE
  <2>1. a.value >= Word \/ z
    BY DEF Halved
  <2>2. ~(a.value >= Word /\ a.value < Word)
    BY <1>3, WordFacts
  <2>3. z
    BY <1>4, <2>1, <2>2
  <2> QED BY <1>1, <2>3
<1>6. b = 16 \/ h = 0
  BY <1>3, <1>4
<1> HIDE DEF h, l
<1>7. NumberIs(b, TRUE, InFull(b, TRUE, h) \o InFull(b, TRUE, l), Word * h + l)
  BY <1>1, <1>3, <1>6, HalvesAre
<1> QED BY <1>1, <1>3, <1>5, <1>7 DEF HalvesRead, h, l

LEMMA StepFlush ==
  ASSUME FormatInv, Flush, FormatControl'
  PROVE  /\ pc' \in {"convert", "digits", "print"} /\ Asked' => Converting'
         /\ PrintsArgument'
PROOF
<1> DEFINE a == current
           b == base
           z == zeros
           k == precision
           p == Head(pieces)
           s == Target(a, b, k, p)
           h == a.value \div Word
           l == a.value % Word
           out == printed \o Padding \o Shown
<1>1. /\ pc = "print" /\ printed' = out
      /\ pieces' = IF pieces = <<>> THEN <<>> ELSE Tail(pieces)
      /\ pc' = IF Len(pieces) > 1 THEN "convert" ELSE "skip"
      /\ buffer' = Cleared /\ UNCHANGED <<fmt, args, base, zeros>>
  BY DEF Flush
<1>2. /\ current' = a /\ precision' = k /\ base' = b /\ zeros' = z
      /\ Asked' <=> Asked
  BY <1>1, AskedSame
<1>3. FormatControl /\ args # <<>> /\ a.kind = "float" => b = 10
  BY <1>1 DEF FormatInv, FormatControl
<1>4. AsIs(Head(args))' <=> Asked'
  <2>1. (FormatControl /\ args # <<>> /\ (current.kind = "float" => base = 10))'
    BY <1>1, <1>2, <1>3 DEF FormatInv, FormatControl
  <2> QED BY <2>1, AskedIs, PTL
<1>5. /\ PrintsArgument' <=>
           (pc' = "skip" /\ AsIs(Head(args))' =>
                Prints(b, z, k, printed', a, Character(1)'))
  <2>1. PrintsArgument' <=>
           (pc = "skip" /\ AsIs(Head(args)) =>
                Prints(base, zeros, precision, printed, Head(args), Character(1)))'
    BY PrintsIs, PTL
  <2>2. Head(args)' = a
    BY <1>1 DEF current
  <2> QED BY <1>2, <2>1, <2>2
<1>6. CASE ~Asked
  BY <1>2, <1>4, <1>5, <1>6
<1>7. CASE Asked
  <2>1. Converting /\ FormatControl
    BY <1>1, <1>7 DEF FormatInv
  <2>2. PartOf(b, s, p) /\ b \in Bases
    BY <1>1, <1>7, <2>1, PartIs DEF InPlace
  <2>3. /\ Left(a, b, z, k, pieces, printed)
        /\ Len(pieces) = 1 \/ a.kind # "float"
        /\ count = Len(Signed(b, p.word))
        /\ Shows(buffer, s, 1..Len(s))
    BY <1>1, <2>1 DEF Converting
  <2>4. Shown = s
    BY <2>2, <2>3, ShownIs DEF PartOf
  <2>5. Numeric(a, b, z, k) /\ AsIsOf(a, b, z, k)
    BY <1>1, <1>7, <2>1, NumericIs DEF Asked
  <2>6. /\ a \in Arguments /\ a.kind \notin {"text", "bool"} /\ z \in BOOLEAN
        /\ z => a.kind = "uint64"
        /\ a.kind = "float" => b = 10
        /\ k \in 0..9 /\ Power(10, k) <= Word
    BY <2>5 DEF Numeric
  <2>7. CASE a.kind = "float"
    <3>1. \/ \E x : pieces = <<x>>
          \/ \E x, y : pieces = <<x, y>>
      BY <2>3, <2>7 DEF Left
    <3>2. pc' = "skip" /\ printed = <<>>
      BY <1>1, <2>3, <2>7, Sequences DEF Left
    <3>3. Padding = <<>>
      BY <2>6, <2>7 DEF Padding
    <3>4. s = FloatText(a, k) /\ s \in Seq(Written)
      BY <2>2, <2>7 DEF Target, PartOf
    <3>5. printed' = s
      <4>1. printed' = <<>> \o <<>> \o s
        BY <1>1, <2>4, <3>2, <3>3
      <4> QED BY <3>4, <4>1
    <3>6. FloatIs(b, z, k, s, a)
      BY <2>5, <2>6, <2>7, <3>4, FloatTextIs
    <3> QED BY <1>5, <2>7, <3>2, <3>5, <3>6 DEF Prints
  <2>8. CASE a.kind # "float" /\ ~Halved(a, z)
    <3>1. printed = <<>> /\ pieces = <<Whole(a.value)>>
      BY <2>3, <2>8 DEF Left
    <3>2. pc' = "skip" /\ p = Whole(a.value)
      BY <1>1, <3>1, Sequences
    <3>3. Padding = <<>>
      BY <2>6, <2>8 DEF Padding, Halved
    <3>4. s = Signed(b, a.value) /\ s \in Seq(Written)
      BY <2>2, <2>8, <3>2 DEF Target, PartOf, Whole, Piece
    <3>5. printed' = s
      <4>1. printed' = <<>> \o <<>> \o s
        BY <1>1, <2>4, <3>1, <3>3
      <4> QED BY <3>4, <4>1
    <3>6. a.value \in Int
      BY <2>6, <2>8, WordsFacts
    <3>7. NumberIs(b, z, s, a.value)
      BY <2>2, <3>4, <3>6, SignedIs
    <3> QED BY <1>5, <2>6, <2>8, <3>2, <3>5, <3>7 DEF Prints
  <2>9. CASE a.kind # "float" /\ Halved(a, z)
    <3>1. /\ h \in Nat /\ h < Word /\ l \in Nat /\ l < Word /\ z = TRUE /\ a.kind = "uint64"
          /\ NumberIs(b, z, InFull(b, z, h) \o InFull(b, z, l), a.value)
        <4>1. HalvesRead(a, b, z)
        BY <2>5, <2>9, HalfFacts
      <4> QED BY <4>1 DEF HalvesRead
    <3> HIDE DEF h, l
    <3>2. ASSUME NEW n \in Nat, p = Whole(n)
          PROVE  Padding \o Shown = InFull(b, z, n)
      <4>1. p.word = n
        BY <3>2 DEF Whole, Piece
      <4>2. Signed(b, n) = Digits(b, n)
        BY <2>2, UnsignedIs
      <4>3. Shown = Digits(b, n) /\ count = Len(Digits(b, n))
        BY <2>3, <2>4, <2>9, <4>1, <4>2 DEF Target
      <4> QED BY <4>3 DEF Padding, InFull, Zeros
    <3>3. Padding \in Seq(Nat) /\ Shown \in Seq(Written)
      <4>1. Padding \in Seq({0})
        <5>1. CASE z /\ b = 16
          <6>1. MAX_LENGTH \in Nat /\ count \in Int
            BY <2>2, <2>3, WordFacts, PartFacts
          <6>2. Zeros(MAX_LENGTH - count) \in Seq({0})
            BY <6>1, ZerosFacts
          <6> QED BY <5>1, <6>2 DEF Padding, Zeros
        <5>2. CASE ~(z /\ b = 16)
          BY <5>2 DEF Padding
        <5> QED BY <5>1, <5>2
      <4> QED BY <2>2, <2>4, <4>1, SeqWithin DEF PartOf
    <3>4. CASE printed = <<>> /\ pieces = <<Whole(h), Whole(l)>>
      <4>1. /\ pc' = "convert" /\ pieces' = <<Whole(l)>> /\ p = Whole(h)
        BY <1>1, <3>4, Sequences
      <4>2. printed' = InFull(b, z, h)
        <5>1. printed' = <<>> \o Padding \o Shown
          BY <1>1, <3>4
        <5>2. <<>> \o Padding = Padding
          BY <3>3
        <5> QED BY <3>1, <3>2, <4>1, <5>1, <5>2
      <4>3. Left(a, b, z, k, pieces', printed')
        BY <2>9, <4>1, <4>2 DEF Left, h, l
      <4>4. Head(pieces') = Whole(l) /\ Whole(l).start = 0 /\ Whole(l).word = l
        BY <4>1, Sequences DEF Whole, Piece
      <4>5. Target(a, b, k, Whole(l)) = Signed(b, l)
        BY <2>9, <4>4 DEF Target
      <4>6. Shows(buffer', Signed(b, l), Before(Signed(b, l), 0))
        BY <1>1, <2>2, <3>1, StartsClear
      <4>7. Converting'
        <5> HIDE DEF a, b, z, k
        <5> QED BY <1>2, <4>1, <4>3, <4>4, <4>5, <4>6 DEF Converting
      <4> QED BY <1>5, <4>1, <4>7
    <3>5. CASE printed = InFull(b, z, h) /\ pieces = <<Whole(l)>>
      <4>1. pc' = "skip" /\ p = Whole(l)
        BY <1>1, <3>5, Sequences
      <4>2. printed' = InFull(b, z, h) \o InFull(b, z, l)
        <5>1. InFull(b, z, h) \in Seq(Nat)
          BY <2>2, <2>6, <3>1, InFullFacts
        <5>2. printed \in Seq(Written) /\ Padding \in Seq(Written) /\ Shown \in Seq(Written)
          <6>1. Nat \subseteq Written
            BY DEF Written
          <6> QED BY <3>3, <3>5, <5>1, <6>1, SeqWithin
        <5>3. (printed \o Padding) \o Shown = printed \o (Padding \o Shown)
          BY ONLY <5>2, ConcatAssociative
        <5>4. Padding \o Shown = InFull(b, z, l)
          BY <3>1, <3>2, <4>1
        <5> QED BY <1>1, <3>5, <5>3, <5>4
      <4>3. NumberIs(b, z, printed', a.value)
        BY <3>1, <4>2
      <4> QED BY <1>5, <2>9, <3>1, <4>1, <4>3 DEF Prints
    <3> QED BY <2>3, <2>9, <3>4, <3>5 DEF Left, h, l
  <2> QED BY <2>7, <2>8, <2>9
<1> QED BY <1>6, <1>7

LEMMA StepFormat == FormatInv /\ [Next]_vars => FormatInv'
PROOF
<1> SUFFICES ASSUME FormatInv, [Next]_vars PROVE FormatInv'
  OBVIOUS
<1>1. FormatControl
  BY DEF FormatInv
<1>2. CASE Copy
  <2>1. FormatControl'
    BY <1>1, <1>2, ControlCopy
  <2>2. pc' = "text"
    BY <1>2 DEF Copy
  <2> QED BY <2>1, <2>2 DEF FormatInv, PrintsArgument
<1>3. CASE Parse
  BY <1>1, <1>3, ControlParse, StepParse DEF FormatInv
<1>4. CASE Skip
  <2>1. FormatControl'
    BY <1>1, <1>4, ControlSkip
  <2>2. pc' = "text"
    BY <1>4 DEF Skip
  <2> QED BY <2>1, <2>2 DEF FormatInv, PrintsArgument
<1>5. CASE Float \/ Convert \/ Digit \/ DigitsEnd
  <2>1. FormatControl'
    BY <1>1, <1>5, ControlRest
  <2>2. pc' # "skip" /\ (Asked' => Converting')
    BY <1>5, StepFloat, StepConvert, StepDigit, StepDigitsEnd
  <2> QED BY <2>1, <2>2 DEF FormatInv, PrintsArgument
<1>6. CASE Flush
  <2>1. FormatControl'
    BY <1>1, <1>6, ControlRest
  <2> QED BY <1>6, <2>1, StepFlush DEF FormatInv
<1>7. CASE Returned \/ UNCHANGED vars
  <2>1. /\ UNCHANGED <<fmt, args, pc, base, zeros, pieces, printed>>
        /\ UNCHANGED <<first, value, it, count, buffer>>
    BY <1>7 DEF Returned, vars, formatter, conversion
  <2>2. FormatControl'
    BY <1>1, <2>1 DEF FormatControl, current, Cleared
  <2>3. /\ current' = current /\ precision' = precision /\ base' = base /\ zeros' = zeros
        /\ Asked' <=> Asked
    BY <2>1, AskedSame
  <2>4. Converting' <=> Converting
    BY <2>1, <2>3 DEF Converting
  <2>5. PrintsArgument' <=> PrintsArgument
    <3>1. (PrintsArgument <=>
             (pc = "skip" /\ AsIs(Head(args)) =>
                  Prints(base, zeros, precision, printed, Head(args), Character(1))))'
      BY PrintsIs, PTL
    <3>2. AsIs(Head(args))' <=> AsIs(Head(args))
      BY <2>1, <2>3 DEF AsIs, Fraction, FractionDigits, Magnitude, digits_count
    <3>3. Character(1)' = Character(1)
      BY <2>1 DEF Character
    <3> QED BY <2>1, <2>3, <3>1, <3>2, <3>3, PrintsIs
  <2> QED BY <2>1, <2>2, <2>3, <2>4, <2>5 DEF FormatInv
<1> QED BY <1>2, <1>3, <1>4, <1>5, <1>6, <1>7 DEF Next

LEMMA FormatFills == FormatInv => FillsBuffer
PROOF
<1> SUFFICES ASSUME FormatInv, pc \in {"digits", "print"}, AsIs(Head(args))
             PROVE  /\ value # 0 => it >= first
                    /\ pc = "print" => Len(Shown) = first + count
  BY DEF FillsBuffer
<1> DEFINE p == Head(pieces)
           s == Target(current, base, precision, p)
<1>1. FormatControl /\ Asked
  <2>1. FormatControl /\ args # <<>> /\ (current.kind = "float" => base = 10)
    BY DEF FormatInv, FormatControl
  <2> QED BY <2>1, AskedIs
<1>2. Converting
  BY <1>1 DEF FormatInv
<1>3. PartOf(base, s, p) /\ base \in Bases
  BY <1>1, <1>2, PartIs DEF InPlace
<1>4. CASE pc = "digits"
  <2>1. Progress(base, p, first, count, value, it)
    BY <1>2, <1>4 DEF Converting
  <2> SUFFICES ASSUME value # 0 PROVE it >= first
    BY <1>4
  <2> DEFINE len == Len(Numeral(base, value))
             sign == Negative(p.word)
  <2>2. value \in Nat /\ first = p.start /\ it = first + sign + len - 1
    <3>1. value \in 0..(Word - 1) /\ Word \in Nat
      BY <2>1, WordFacts DEF Progress
    <3>2. value \in Nat
      BY ONLY <3>1
    <3> QED BY <2>1, <3>2 DEF Progress
  <2>3. p.start \in Nat /\ sign \in 0..1
    BY <1>3, PartFacts
  <2>4. len \in Nat /\ len >= 1
    BY <1>3, <2>2, NumeralFacts
  <2> HIDE DEF p, len, sign
  <2>5. first \in Nat
    BY <2>2, <2>3
  <2> QED BY ONLY <2>2, <2>3, <2>4, <2>5
<1>5. CASE pc = "print"
  <2>1. value = 0 /\ first + count = Len(s) /\ Shows(buffer, s, 1..Len(s))
    BY <1>2, <1>5 DEF Converting
  <2>2. Shown = s
    BY <1>3, <2>1, ShownIs DEF PartOf
  <2> QED BY <2>1, <2>2
<1> QED BY <1>4, <1>5

\* The conversion holds what is left of the word, and has written what is not
\* left of it, all the time, for every call.
THEOREM FormatInvariance == Spec => []FormatInv
PROOF
<1>1. Init => FormatInv
  BY InitFormat
<1>2. FormatInv /\ [Next]_vars => FormatInv'
  BY StepFormat
<1> QED BY <1>1, <1>2, PTL DEF Spec

\* to_chars counts as many digits as it writes (charconv.cpp): the last digit
\* that is converted gets the first place, and format prints up to the last one.
THEOREM CountedIsWritten == Spec => []FillsBuffer
BY FormatInvariance, FormatFills, PTL

\* What format_to prints for an argument is read as the argument, whatever the
\* width of a word, the format and the arguments, but for those of AsIs.
THEOREM ArgumentIsPrinted == Spec => []PrintsArgument
PROOF
<1>1. FormatInv => PrintsArgument
  BY DEF FormatInv
<1> QED BY <1>1, FormatInvariance, PTL

----------------------------------------------------------------------------
(* Types: what to_chars is given fits, also of the arguments that are not  *)
(* printed as what they are.                                               *)

Fitting == {p \in [word : MIN..(Word - 1), start : 0..Bits, room : 0..Bits] :
                p.start + p.room <= Bits}
TypeInv ==
    /\ FormatControl /\ TypeOK
    /\ pieces \in Seq(Fitting)
    /\ pc = "convert" => pieces # <<>>
    /\ IF pc = "digits" THEN it - Len(Numeral(base, value % Word)) >= -Bits
                        ELSE value = 0

\* A word as a number of size_t.
LEMMA ModWord ==
  ASSUME NEW n \in MIN..(Word - 1)
  PROVE  /\ n % Word \in 0..(Word - 1) /\ n % Word \in Nat /\ n % Word < Word
         /\ n # 0 => n % Word # 0
         /\ n >= 0 => n % Word = n
PROOF
<1> DEFINE q == n \div Word
           r == n % Word
<1>1. Word \in Nat /\ Half \in Nat /\ Word = 2 * Half /\ MIN = -Half /\ Half >= 8
  BY WordFacts
<1>2. n \in Int /\ n >= -Half /\ n < Word
  BY <1>1
<1>3. q \in Int /\ r \in 0..(Word - 1) /\ n = Word * q + r
  <2> DEFINE w == Word
  <2>1. w \in Nat /\ w >= 1 /\ n \in Int
    BY <1>1, <1>2
  <2> HIDE DEF w
  <2>2. n \div w \in Int
    BY ONLY <2>1
  <2>3. n % w \in 0..(w - 1)
    BY ONLY <2>1
  <2>4. n = w * (n \div w) + (n % w)
    BY ONLY <2>1
  <2> QED BY <2>2, <2>3, <2>4 DEF w
<1> HIDE DEF q, r
<1>4. r \in Nat /\ r < Word
  BY <1>1, <1>3
<1>5. CASE q = 0
  <2>1. n = r
    BY <1>1, <1>3, <1>5
  <2> QED BY <1>3, <1>4, <2>1 DEF r
<1>6. CASE q >= 1
  <2>1. PICK c \in Nat : c = Word * q /\ c >= Word
    BY <1>1, <1>3, <1>6
  <2>2. n = c + r
    BY <1>3, <2>1
  <2> QED BY ONLY <1>1, <1>2, <1>4, <2>1, <2>2
<1>7. CASE q <= -1
  <2>1. PICK c \in Int : c = Word * q /\ c <= -Word
    BY <1>1, <1>3, <1>7
  <2>2. n = c + r
    BY <1>3, <2>1
  <2>3. n < 0 /\ r # 0
    BY ONLY <1>1, <1>2, <1>4, <2>1, <2>2
  <2>4. ~(n >= 0)
    BY <1>2, <2>3
  <2> QED BY <1>3, <1>4, <2>3, <2>4 DEF r
<1> QED BY <1>3, <1>5, <1>6, <1>7

LEMMA NumeralFits ==
  ASSUME NEW b \in Bases, NEW n \in Nat, n < Word
  PROVE  Len(Numeral(b, n)) \in 0..Bits
PROOF
<1>1. Bits \in Nat /\ Numeral(b, n) \in Seq(0..(b - 1)) /\ Len(Numeral(b, n)) \in Nat
  BY WordFacts, NumeralFacts
<1>2. CASE n = 0
  <2>1. Numeral(b, n) = <<>> /\ Len(<<>>) = 0
    BY <1>2, NumeralFacts
  <2> QED BY <1>1, <2>1
<1>3. CASE n # 0
  <2>1. Len(Digits(b, n)) <= Bits
    BY DigitsFit
  <2> QED BY <1>1, <1>3, <2>1 DEF Digits
<1> QED BY <1>2, <1>3

LEMMA PieceFits ==
  ASSUME NEW w \in MIN..(Word - 1), NEW n \in Nat, NEW c \in Nat, n + c <= Bits
  PROVE  Piece(w, n, c) \in Fitting
PROOF
<1>1. Bits \in Nat
  BY WordFacts
<1>2. n \in 0..Bits /\ c \in 0..Bits
  BY <1>1
<1> QED BY <1>2 DEF Piece, Fitting

\* A number has one digit at least, and the smallest one is counted as if it had
\* one.
LEMMA SomeDigits ==
  base \in Bases => \A n \in MIN..(Word - 1) :
      n = MIN \/ n \in Nat => digits_count(n) \in Nat /\ digits_count(n) >= 1
PROOF
<1> SUFFICES ASSUME base \in Bases, NEW n \in MIN..(Word - 1), n = MIN \/ n \in Nat
             PROVE  digits_count(n) \in Nat /\ digits_count(n) >= 1
  OBVIOUS
<1>1. CASE n \in Nat
  BY <1>1, CountIs, DigitsFacts
<1>2. CASE n = MIN
  <2>1. n < base
    BY <1>2, WordFacts DEF Bases
  <2> QED BY <2>1 DEF digits_count
<1> QED BY <1>1, <1>2

LEMMA InitTypes == Init => TypeInv
PROOF
<1> SUFFICES ASSUME Init PROVE TypeInv
  OBVIOUS
<1>1. FormatControl
  BY InitFormat DEF FormatInv
<1>2. /\ pc = "text" /\ base = 10 /\ zeros = FALSE /\ pieces = <<>> /\ first = 0
      /\ value = 0 /\ it = 0 /\ count = 0 /\ buffer = Cleared
  BY DEF Init
<1>3. Bits \in Nat /\ Word \in Nat /\ Half \in Nat /\ Half >= 8 /\ Word = 2 * Half /\ MIN = -Half
  BY WordFacts
<1>4. 0 \in MIN..(Word - 1) /\ 0 \in 0..Bits /\ 0 \in -Bits..Bits /\ 0 \in 0..(Bits + 1)
  BY <1>3
<1>5. TypeOK
  BY <1>2, <1>4 DEF TypeOK, Cleared
<1> QED BY <1>1, <1>2, <1>5 DEF TypeInv

LEMMA TypeParse ==
  ASSUME TypeInv, Parse, FormatControl'
  PROVE  TypeInv'
PROOF
<1> DEFINE a == current
<1>1. FormatControl /\ TypeOK /\ pieces \in Seq(Fitting) /\ value = 0 /\ args # <<>>
  BY DEF TypeInv, Parse
<1>2. /\ UNCHANGED <<first, value, it, count, buffer>>
      /\ pc' \in {"skip", "float", "convert"}
  BY DEF Parse, Say, conversion
<1>3. TypeOK'
  BY <1>1, <1>2 DEF TypeOK, FormatControl, Bases
<1>4. a \in Arguments
  BY <1>1, CurrentFacts
<1>5. pieces' \in Seq(Fitting) /\ (pc' = "convert" => pieces' # <<>>)
  <2>1. CASE a.kind \in {"text", "bool"}
    BY <1>1, <2>1 DEF Parse, Say, formatter, current
  <2>2. CASE a.kind = "float"
    <3>1. pieces' = <<>> /\ pc' = "float"
      BY <2>2 DEF Parse, current
    <3> QED BY <3>1
  <2>3. CASE a.kind \notin {"text", "bool", "float"}
    <3> DEFINE z == a.kind = "uint64" /\ Character(3) = "0"
    <3>1. pieces' = Words(a, z)
      BY <2>3 DEF Parse, current
    <3>2. /\ Half \in Nat /\ Half >= 8 /\ Word = 2 * Half /\ MIN = -Half /\ Word \in Nat
          /\ Bits \in Nat
      BY WordFacts
    <3>3. \A w \in MIN..(Word - 1) : Whole(w) \in Fitting
      BY <3>2, PieceFits DEF Whole
    <3>4. CASE a.kind = "uint64" /\ (a.value >= Word \/ z)
      <4>1. /\ a.value \div Word \in Nat /\ a.value \div Word < Word
            /\ a.value % Word \in Nat /\ a.value % Word < Word
        BY <1>4, <2>3, <3>4, WordsFacts
      <4> DEFINE h == a.value \div Word
                 l == a.value % Word
      <4> HIDE DEF h, l
      <4>2. h \in MIN..(Word - 1) /\ l \in MIN..(Word - 1)
        <5>1. h \in Nat /\ h < Word /\ l \in Nat /\ l < Word
          BY <4>1 DEF h, l
        <5> QED BY ONLY <3>2, <5>1
      <4>3. pieces' = <<Whole(h), Whole(l)>>
        BY <3>1, <3>4 DEF Words, h, l
      <4> QED BY <3>3, <4>2, <4>3
    <3>5. CASE ~(a.kind = "uint64" /\ (a.value >= Word \/ z))
      <4>1. a.value \in MIN..(Word - 1)
        <5>1. /\ a.value \in Int
              /\ a.kind = "int" => a.value \in MIN..(Half - 1)
              /\ a.kind # "int" => a.value \in Nat
              /\ a.kind \notin {"int", "uint64"} => a.value < Word
          BY <1>4, <2>3, WordsFacts
        <5>2. a.kind = "uint64" => a.value < Word
          BY <3>2, <3>5, <5>1
        <5> QED BY <3>2, <5>1, <5>2
      <4>2. pieces' = <<Whole(a.value)>>
        BY <3>1, <3>5 DEF Words
      <4> QED BY <3>3, <4>1, <4>2
    <3> QED BY <3>4, <3>5
  <2> QED BY <2>1, <2>2, <2>3
<1>6. value' = 0 /\ pc' # "digits"
  BY <1>1, <1>2
<1> QED BY <1>3, <1>5, <1>6 DEF TypeInv

LEMMA TypeConvert ==
  ASSUME TypeInv, Convert, FormatControl'
  PROVE  TypeInv'
PROOF
<1> DEFINE p == Head(pieces)
           n == p.word
           m == IF n < 0 THEN Negated(n) ELSE n
           sign == IF n < 0 THEN 1 ELSE 0
           total == sign + digits_count(m)
<1>1. /\ FormatControl /\ TypeOK /\ pieces \in Seq(Fitting) /\ pieces # <<>> /\ value = 0
      /\ pc = "convert"
  BY DEF TypeInv, Convert
<1>2. base \in Bases
  BY <1>1 DEF FormatControl
<1>3. p \in Fitting
  BY <1>1
<1>4. /\ n \in MIN..(Word - 1) /\ p.start \in Nat /\ p.room \in Nat
      /\ p.start + p.room <= Bits
  BY <1>3, WordFacts DEF Fitting
<1>5. /\ Half \in Nat /\ Half >= 8 /\ Word = 2 * Half /\ MIN = -Half /\ Bits \in Nat
  BY WordFacts
<1>6. m \in MIN..(Word - 1) /\ (m = MIN \/ m \in Nat)
  BY <1>4, <1>5 DEF Negated
<1>7. digits_count(m) \in Nat /\ digits_count(m) >= 1 /\ sign \in 0..1
  BY <1>2, <1>6, SomeDigits
<1>8. total \in Nat /\ total >= 1
  BY <1>7
<1>9. /\ IF total > p.room
           THEN count' = 0 /\ pc' = "print" /\ UNCHANGED <<first, value, it>>
           ELSE /\ value' = m /\ count' = total /\ it' = p.start + total - 1
                /\ first' = p.start /\ pc' = "digits"
      /\ DOMAIN buffer' = DOMAIN buffer
      /\ UNCHANGED <<base, zeros, pieces>>
  BY DEF Convert, formatter
<1> HIDE DEF p, n, m, sign, total
<1>10. CASE total > p.room
  <2>1. 0 \in 0..(Bits + 1)
    BY <1>5
  <2>2. TypeOK'
    BY <1>1, <1>9, <1>10, <2>1 DEF TypeOK
  <2> QED BY <1>1, <1>9, <1>10, <2>2 DEF TypeInv
<1>11. CASE ~(total > p.room)
  <2>1. /\ p.start \in 0..Bits /\ total \in 0..(Bits + 1)
        /\ p.start + total - 1 \in -Bits..Bits /\ p.start + total - 1 >= 0
    <3>1. p.start \in Nat /\ p.room \in Nat /\ p.start + p.room <= Bits
      BY <1>4
    <3> QED BY ONLY <1>5, <1>8, <1>11, <3>1
  <2>2. TypeOK'
    BY <1>1, <1>6, <1>9, <1>11, <2>1 DEF TypeOK
  <2>3. m % Word \in Nat /\ m % Word < Word
    BY <1>6, ModWord
  <2>4. Len(Numeral(base, m % Word)) \in 0..Bits
    BY <1>2, <2>3, NumeralFits
  <2>5. (p.start + total - 1) - Len(Numeral(base, m % Word)) >= -Bits
    <3> DEFINE len == Len(Numeral(base, m % Word))
               start == p.start + total - 1
    <3>1. start \in -Bits..Bits /\ start >= 0
      BY <2>1
    <3>2. len \in 0..Bits
      BY <2>4
    <3>3. Bits \in Nat
      BY <1>5
    <3> HIDE DEF start, len
    <3>4. start - len >= -Bits
      BY ONLY <3>1, <3>2, <3>3
    <3> QED BY <3>4 DEF start, len
  <2> QED BY <1>1, <1>9, <1>11, <2>2, <2>5 DEF TypeInv
<1> QED BY <1>10, <1>11

LEMMA TypeDigit ==
  ASSUME TypeInv, Digit, FormatControl'
  PROVE  TypeInv'
PROOF
<1> DEFINE v == value % Word
           len == Len(Numeral(base, v))
           q == v \div base
<1>1. /\ FormatControl /\ TypeOK /\ pieces \in Seq(Fitting) /\ pc = "digits" /\ value # 0
      /\ it - len >= -Bits
  BY DEF TypeInv, Digit
<1>2. base \in Bases
  BY <1>1 DEF FormatControl
<1>3. /\ value' = q /\ it' = it - 1 /\ pc' = "digits" /\ DOMAIN buffer' = DOMAIN buffer
      /\ UNCHANGED <<base, zeros, pieces, first, count>>
  BY DEF Digit, formatter
<1>4. v \in Nat /\ v < Word /\ v # 0
  BY <1>1, ModWord DEF TypeOK
<1>5. /\ q \in Nat /\ q < v /\ Len(Numeral(base, q)) \in Nat
      /\ len = Len(Numeral(base, q)) + 1
  BY <1>2, <1>4, Divide, NumeralStep
<1>6. /\ Half \in Nat /\ Half >= 8 /\ Word = 2 * Half /\ MIN = -Half /\ Bits \in Nat
  BY WordFacts
<1>7. it \in -Bits..Bits
  BY <1>1 DEF TypeOK
<1> HIDE DEF v, len, q
<1>8. q \in MIN..(Word - 1)
  BY ONLY <1>4, <1>5, <1>6
<1>9. it - 1 \in -Bits..Bits /\ it - 1 - Len(Numeral(base, q)) >= -Bits
  <2> DEFINE rest == Len(Numeral(base, q))
  <2>1. rest \in Nat /\ len = rest + 1 /\ it - len >= -Bits
    BY <1>1, <1>5
  <2> HIDE DEF rest
  <2>2. it - 1 \in -Bits..Bits /\ it - 1 - rest >= -Bits
    BY ONLY <1>6, <1>7, <2>1
  <2> QED BY <2>2 DEF rest
<1>10. TypeOK'
  BY <1>1, <1>3, <1>8, <1>9 DEF TypeOK
<1>11. q % Word = q
  <2>1. q >= 0
    BY <1>5
  <2> QED BY <1>8, <2>1, ModWord
<1> QED BY <1>1, <1>3, <1>9, <1>10, <1>11 DEF TypeInv

LEMMA TypeFloat ==
  ASSUME TypeInv, Float, FormatControl'
  PROVE  TypeInv'
PROOF
<1> DEFINE a == current
           k == precision
           sign == Negative(a.value)
           i == Integral(a)
           n == Decimals(a, k)
           F == Fractional(a, k)
           fraction == IF Magnitude(a) % Unit > 0 /\ precision > 0
                         THEN <<((Magnitude(a) % Unit) * Power(10, precision)) \div Unit>>
                         ELSE <<>>
           size == digits_count(Magnitude(a) \div Unit)
           needed == size + IF fraction = <<>> THEN 0 ELSE 1 + digits_count(fraction[1])
<1>1. /\ FormatControl /\ TypeOK /\ pieces \in Seq(Fitting) /\ pc = "float" /\ value = 0
  BY DEF TypeInv, Float
<1>2. /\ args # <<>> /\ a.kind = "float" /\ base \in Bases
  BY <1>1 DEF FormatControl
<1>3. /\ IF needed > FloatRoom
           THEN pc' = "print" /\ UNCHANGED <<pieces, first, value, it, count, buffer>>
           ELSE /\ pieces' = FloatPieces(Magnitude(a), fraction, sign)
                /\ DOMAIN buffer' = 0..Bits
                /\ pc' = "convert" /\ UNCHANGED <<first, value, it, count>>
      /\ UNCHANGED <<base, zeros>>
  BY DEF Float, Magnitude, Negative, current, conversion
<1>4. a \in Arguments /\ k \in 0..9 /\ Power(10, k) <= Word
  BY <1>1, <1>2, CurrentFacts
<1>5. /\ a.value \in Int /\ i \in Nat /\ i < Half /\ n \in Nat /\ n < Word
  BY <1>2, <1>4, FloatFacts
<1>6. /\ Half \in Nat /\ Half >= 8 /\ Word = 2 * Half /\ MIN = -Half /\ Bits \in Nat
      /\ FloatRoom \in Nat /\ FloatRoom < Bits
  BY WordFacts, FloatAssumption
<1>7. i \in MIN..(Word - 1) /\ n \in MIN..(Word - 1)
  BY <1>5, <1>6
<1>8. /\ size \in Nat /\ size >= 1 /\ digits_count(n) \in Nat /\ sign \in 0..1
  BY <1>2, <1>5, <1>7, SomeDigits, MinusFacts DEF Integral
<1>9. fraction = IF F THEN <<n>> ELSE <<>>
  BY DEF Fractional, Fraction, Decimals
<1>10. CASE needed > FloatRoom
  <2> HIDE DEF needed
  <2>1. TypeOK'
    BY <1>1, <1>3, <1>10 DEF TypeOK
  <2> QED BY <1>1, <1>3, <1>10, <2>1 DEF TypeInv
<1>11. CASE ~(needed > FloatRoom)
  <2>1. pieces' = FloatPieces(Magnitude(a), fraction, sign) /\ pc' = "convert"
    BY <1>3, <1>11
  <2>2. TypeOK'
    <3> HIDE DEF needed
    <3> QED BY <1>1, <1>3, <1>11 DEF TypeOK
  <2>3. pieces' \in Seq(Fitting) /\ pieces' # <<>>
    <3> HIDE DEF F, sign, n, fraction, size, a, k
    <3>1. FloatPieces(Magnitude(a), fraction, sign) =
             <<Piece(i, sign, size)>>
               \o IF fraction = <<>> THEN <<>>
                  ELSE <<Piece(fraction[1], sign + size + 1, digits_count(fraction[1]))>>
      BY DEF FloatPieces, Integral, size
    <3> HIDE DEF i
    <3>2. CASE F
      <4>1. fraction = <<n>> /\ fraction # <<>> /\ fraction[1] = n
        BY <1>9, <3>2
      <4>2. needed = size + (1 + digits_count(n))
        BY <4>1
      <4>3. /\ sign + size <= Bits /\ sign + size + 1 + digits_count(n) <= Bits
            /\ sign \in Nat /\ sign + size + 1 \in Nat
        <5> DEFINE c == digits_count(n)
        <5>1. size + (1 + c) <= FloatRoom /\ c \in Nat /\ size \in Nat
          <6>1. needed <= FloatRoom
            <7>1. needed \in Nat
              BY <1>8, <4>2
            <7> QED BY <1>6, <1>11, <7>1
          <6> QED BY <1>8, <4>2, <6>1
        <5> HIDE DEF c
        <5>2. /\ sign + size <= Bits /\ sign + size + 1 + c <= Bits
              /\ sign \in Nat /\ sign + size + 1 \in Nat
          BY ONLY <1>6, <1>8, <5>1
        <5> QED BY <5>2 DEF c
      <4>4. Piece(i, sign, size) \in Fitting
        BY <1>7, <1>8, <4>3, PieceFits
      <4>5. Piece(n, sign + size + 1, digits_count(n)) \in Fitting
        BY <1>7, <1>8, <4>3, PieceFits
      <4>6. pieces' = <<Piece(i, sign, size), Piece(n, sign + size + 1, digits_count(n))>>
        BY <2>1, <3>1, <4>1, Sequences
      <4> QED BY <4>4, <4>5, <4>6
    <3>3. CASE ~F
      <4>1. fraction = <<>>
        BY <1>9, <3>3
      <4>2. size <= FloatRoom
        BY <1>6, <1>8, <1>11, <4>1
      <4>3. sign + size <= Bits /\ sign \in Nat
        BY ONLY <1>6, <1>8, <4>2
      <4>4. Piece(i, sign, size) \in Fitting
        BY <1>7, <1>8, <4>3, PieceFits
      <4>5. pieces' = <<Piece(i, sign, size)>>
        BY <2>1, <3>1, <4>1, Sequences
      <4> QED BY <4>4, <4>5
    <3> QED BY <3>2, <3>3
  <2>4. value' = 0
    BY <1>1, <1>3, <1>11
  <2> QED BY <2>1, <2>2, <2>3, <2>4 DEF TypeInv
<1> QED BY <1>10, <1>11

LEMMA TypeRest ==
  ASSUME TypeInv, Copy \/ Skip \/ DigitsEnd \/ Flush \/ Returned \/ UNCHANGED vars,
         FormatControl'
  PROVE  TypeInv'
PROOF
<1>1. /\ TypeOK /\ pieces \in Seq(Fitting)
      /\ UNCHANGED <<base, zeros, first, value, it, count>>
  BY DEF TypeInv, Copy, Skip, DigitsEnd, Flush, Returned, vars, formatter, conversion
<1>2. pc' \in {"text", "float", "convert", "digits", "print", "skip"}
  BY DEF FormatControl
<1>3. TypeOK'
  <2>1. buffer' = buffer \/ buffer' = Cleared
    BY DEF Copy, Skip, DigitsEnd, Flush, Returned, vars, conversion
  <2> QED BY <1>1, <1>2, <2>1 DEF TypeOK, Cleared
<1>4. pieces' = pieces \/ (pieces # <<>> /\ pieces' = Tail(pieces))
  <2>1. Len(pieces) > 1 => pieces # <<>>
    BY <1>1
  <2> QED BY <2>1 DEF Copy, Skip, DigitsEnd, Flush, Returned, vars, formatter
<1>5. pieces' \in Seq(Fitting)
  BY <1>1, <1>4
<1>6. CASE DigitsEnd \/ Flush
  <2>1. value' = 0 /\ pc' # "digits"
    BY <1>1, <1>6 DEF TypeInv, DigitsEnd, Flush
  <2>2. pc' = "convert" => Len(pieces) > 1 /\ pieces' = Tail(pieces)
    BY <1>6 DEF DigitsEnd, Flush
  <2>3. pc' = "convert" => pieces' # <<>>
    BY <1>1, <2>2
  <2> QED BY <1>3, <1>5, <2>1, <2>3 DEF TypeInv
<1>7. CASE Copy \/ Skip
  <2>1. value' = 0 /\ pc' = "text"
    BY <1>1, <1>7 DEF TypeInv, Copy, Skip
  <2> QED BY <1>3, <1>5, <2>1 DEF TypeInv
<1>8. CASE Returned \/ UNCHANGED vars
  <2>1. UNCHANGED <<pc, pieces, base, value, it>>
    BY <1>8 DEF Returned, vars, formatter, conversion
  <2> QED BY <1>3, <1>5, <2>1 DEF TypeInv
<1> QED BY <1>6, <1>7, <1>8

\* to_chars never writes above the buffer or below it by more than the digits of a
\* word, and is given room that the buffer has, for every argument: also for those
\* that are not printed as what they are.
THEOREM FormatTypes == Spec => []TypeOK
PROOF
<1>1. TypeInv /\ [Next]_vars => TypeInv'
  <2> SUFFICES ASSUME TypeInv, [Next]_vars PROVE TypeInv'
    OBVIOUS
  <2>1. FormatControl
    BY DEF TypeInv
  <2>2. FormatControl'
    <3>1. CASE UNCHANGED vars
      <4>1. UNCHANGED <<fmt, args, pc, base, zeros, buffer, printed>>
        BY <3>1 DEF vars, formatter, conversion
      <4> QED BY <2>1, <4>1 DEF FormatControl, current, Cleared
    <3> QED BY <2>1, <3>1, ControlCopy, ControlParse, ControlSkip, ControlRest DEF Next
  <2>3. CASE Copy \/ Skip \/ DigitsEnd \/ Flush \/ Returned \/ UNCHANGED vars
    BY <2>2, <2>3, TypeRest
  <2> QED BY <2>2, <2>3, TypeParse, TypeFloat, TypeConvert, TypeDigit DEF Next
<1>2. TypeInv => TypeOK
  BY DEF TypeInv
<1> QED BY <1>1, <1>2, InitTypes, PTL DEF Spec
=============================================================================
