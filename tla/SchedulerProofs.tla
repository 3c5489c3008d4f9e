--------------------------- MODULE SchedulerProofs ---------------------------
(***************************************************************************)
(* Proofs that the safety properties of Scheduler hold for every number of *)
(* processes, every set of sleep times and every size of the key buffer.   *)
(*                                                                         *)
(* RescheduleCases says which lists, states and current process reschedule *)
(* leaves, RescheduleKeeps what that preserves; the inductive invariant    *)
(* IInv is then carried through each action in a lemma of its own.         *)
(***************************************************************************)
EXTENDS Scheduler, ProcessListsProofs

Records == [type : DataTypes, value : Int]

\* The processes reschedule can switch to.
Candidates(ls, st, d) == ToSet(ls["ready"]) \cup Expired(ls, st, d)

ListsOf(ls, st) ==
    \A q \in Queues : IsInjective(ls[q]) /\ \A p \in ToSet(ls[q]) : st[p] = q

\* What reschedule leaves, W being the sleepers it wakes.
Leaves(r, ls, st, W, Ready, pre, cur) ==
    /\ r.lists \in [Queues -> Seq(Pids)]
    /\ r.state \in [Pids -> States]
    /\ \A q \in Queues : IsInjective(r.lists[q])
    /\ ToSet(r.lists["sleeping"]) = ToSet(ls["sleeping"]) \ W
    /\ \A q \in {"waiting", "blocked"} : r.lists[q] = ls[q]
    /\ \/ /\ Ready = {} /\ r.current = cur /\ r.state = st
          /\ ToSet(r.lists["ready"]) = {}
       \/ /\ cur \in Ready /\ r.current = cur
          /\ r.state = WithState(st, W, "ready")
          /\ ToSet(r.lists["ready"]) = Ready \ {cur}
       \/ /\ r.current \in Ready \ {cur}
          /\ r.state = [p \in Pids |-> IF p = r.current THEN "running"
                                       ELSE IF p \in W \cup pre THEN "ready"
                                       ELSE st[p]]
          /\ ToSet(r.lists["ready"]) = (Ready \ {r.current}) \cup pre

\* reschedule finds nothing to run, finds the current process at the front
\* and keeps it, or switches to another one and puts a running one back.
LEMMA RescheduleCases ==
  ASSUME NEW ls \in [Queues -> Seq(Pids)], NEW st \in [Pids -> States],
         NEW d, NEW cur \in Pids \cup {nullptr}, ListsOf(ls, st),
         NEW r, r = Rescheduled(ls, st, d, cur),
         NEW W, W = Expired(ls, st, d),
         NEW Ready, Ready = Candidates(ls, st, d),
         NEW pre, pre = Preempted(st, cur)
  PROVE  Leaves(r, ls, st, W, Ready, pre, cur)
PROOF
<1> USE DEF Leaves
<1> DEFINE ls1 == MoveToFront(ls, "sleeping", "ready", W)
           st1 == WithState(st, W, "ready")
           next == Head(ls1["ready"])
           ls2 == [ls1 EXCEPT !["ready"] = Tail(@)]
           ls3 == IF pre = {} THEN ls2
                  ELSE [ls2 EXCEPT !["ready"] = Append(@, cur)]
           st3 == WithState(st1, pre, "ready")
<1>q. /\ "ready" \in Queues /\ "sleeping" \in Queues /\ "waiting" \in Queues
      /\ "blocked" \in Queues /\ "ready" \in States /\ "running" \in States
      /\ Queues = {"ready", "sleeping", "waiting", "blocked"}
      /\ "ready" # "sleeping"
  BY DEF Queues, States
<1>w. /\ W \subseteq ToSet(ls["sleeping"]) /\ W \subseteq Pids
      /\ \A p \in W : st[p] = "sleeping"
  BY <1>q DEF Expired, ToSet
<1>d. ToSet(ls["sleeping"]) \cap ToSet(ls["ready"]) = {}
  BY <1>q DEF ListsOf
<1>0. ToSet(ls["ready"]) \subseteq Pids /\ Ready = ToSet(ls["ready"]) \cup W
  BY <1>q DEF ToSet, Candidates
<1>1. /\ ls1 \in [Queues -> Seq(Pids)]
      /\ ToSet(ls1["sleeping"]) = ToSet(ls["sleeping"]) \ W
      /\ ToSet(ls1["ready"]) = Ready
      /\ \A q \in {"waiting", "blocked"} : ls1[q] = ls[q]
      /\ \A q \in Queues : IsInjective(ls1[q])
  <2>1. \A q \in Queues : IsInjective(ls[q])
    BY DEF ListsOf
  <2>2. /\ ls1 \in [Queues -> Seq(Pids)]
        /\ ToSet(ls1["sleeping"]) = ToSet(ls["sleeping"]) \ W
        /\ ToSet(ls1["ready"]) = ToSet(ls["ready"]) \cup (ToSet(ls["sleeping"]) \cap W)
        /\ \A q \in Queues \ {"sleeping", "ready"} : ls1[q] = ls[q]
        /\ \A q \in Queues : IsInjective(ls1[q])
    <3> DEFINE front == Reverse(Picked(ls["sleeping"], W)) \o ls["ready"]
               kept == Kept(ls["sleeping"], W)
    <3>1. ls1 = [ls EXCEPT !["sleeping"] = kept, !["ready"] = front]
      BY DEF MoveToFront
    <3>2. ls["sleeping"] \in Seq(Pids) /\ ls["ready"] \in Seq(Pids)
      BY <1>q
    <3>3. /\ kept \in Seq(Pids) /\ ToSet(kept) = ToSet(ls["sleeping"]) \ W
          /\ IsInjective(ls["sleeping"]) => IsInjective(kept)
      BY <3>2, KeptElements
    <3>4. /\ front \in Seq(Pids)
          /\ ToSet(front) = ToSet(ls["ready"]) \cup (ToSet(ls["sleeping"]) \cap W)
          /\ IsInjective(ls["sleeping"]) /\ IsInjective(ls["ready"])
             /\ ToSet(ls["sleeping"]) \cap ToSet(ls["ready"]) = {}
             => IsInjective(front)
      BY <3>2, MoveElements
    <3> HIDE DEF ls1, front, kept
    <3>5. /\ ls1["sleeping"] = kept /\ ls1["ready"] = front
          /\ \A q \in Queues \ {"sleeping", "ready"} : ls1[q] = ls[q]
          /\ ls1 \in [Queues -> Seq(Pids)]
      BY <3>1, <3>3, <3>4, <1>q
    <3>6. IsInjective(kept) /\ IsInjective(front)
      BY <3>3, <3>4, <2>1, <1>d, <1>q
    <3> QED BY <3>3, <3>4, <3>5, <3>6, <2>1, <1>q
  <2> QED BY <2>2, <1>w, <1>0, <1>q
<1> HIDE DEF ls1
<1>2. st1 \in [Pids -> States]
  BY <1>q DEF WithState
<1>p. /\ pre = Preempted(st1, cur)
      /\ pre \subseteq Pids
  <2>1. cur \in Pids => (st1[cur] = "running" <=> st[cur] = "running")
    BY <1>w DEF WithState
  <2> QED BY <2>1 DEF Preempted
<1>3. r = IF ls1["ready"] = <<>>
            THEN [lists |-> ls1, state |-> st1, current |-> cur]
          ELSE IF next = cur
            THEN [lists |-> ls2, state |-> st1, current |-> cur]
          ELSE IF st3[next] = "ready"
            THEN [lists |-> ls3, state |-> [st3 EXCEPT ![next] = "running"],
                  current |-> next]
            ELSE [lists |-> ls3, state |-> st3, current |-> cur]
  <2> HIDE DEF next, ls2, ls3, st3
  <2> QED BY <1>p DEF Rescheduled, ls1, st1, next, ls2, ls3, st3
<1>4. CASE ls1["ready"] = <<>>
  <2>1. r.lists = ls1 /\ r.state = st1 /\ r.current = cur
    BY <1>3, <1>4
  <2>2. Ready = {} /\ W = {}
    <3>1. ToSet(<<>>) = {}
      BY DEF ToSet
    <3> QED BY <3>1, <1>4, <1>1, <1>0
  <2>3. st1 = st
    BY <2>2 DEF WithState
  <2> QED BY <2>1, <2>2, <2>3, <1>1
<1>5. CASE ls1["ready"] # <<>>
  <2>1. /\ next \in Ready /\ Tail(ls1["ready"]) \in Seq(Pids)
        /\ ToSet(Tail(ls1["ready"])) = Ready \ {next}
        /\ IsInjective(Tail(ls1["ready"]))
    BY <1>1, <1>5, <1>q, TailElements
  <2>2. /\ ls2 \in [Queues -> Seq(Pids)]
        /\ ls2["ready"] = Tail(ls1["ready"])
        /\ \A q \in Queues \ {"ready"} : ls2[q] = ls1[q]
    BY <2>1, <1>1, <1>q
  <2>3. next \in Pids
    BY <2>1, <1>0, <1>w
  <2> HIDE DEF next, ls2
  <2>4. CASE next = cur
    <3>1. r.lists = ls2 /\ r.state = st1 /\ r.current = cur
      BY <1>3, <1>5, <2>4
    <3>2. \A q \in Queues : IsInjective(ls2[q])
      BY <2>1, <2>2, <1>1
    <3> QED BY <3>1, <3>2, <2>1, <2>2, <2>4, <1>1, <1>2, <1>q
  <2>5. CASE next # cur
    <3>1. st1[next] = "ready"
      <4>1. next \in ToSet(ls["ready"]) => st[next] = "ready"
        BY <1>q DEF ListsOf
      <4> QED BY <4>1, <2>1, <2>3, <1>0 DEF WithState
    <3>2. st3 \in [Pids -> States] /\ st3[next] = "ready"
      BY <3>1, <2>3, <1>2, <1>q DEF WithState
    <3>3. /\ r.lists = ls3 /\ r.state = [st3 EXCEPT ![next] = "running"]
          /\ r.current = next
      <4> HIDE DEF ls3, st3, st1
      <4> QED BY <1>3, <1>5, <2>5, <3>2
    <3>4. r.state = [p \in Pids |-> IF p = next THEN "running"
                                    ELSE IF p \in W \cup pre THEN "ready"
                                    ELSE st[p]]
      BY <3>2, <3>3 DEF WithState
    <3>5. r.state \in [Pids -> States]
      BY <3>3, <3>2, <1>q
    <3>6. cur \in pre => cur \notin Ready
      <4>1. cur \in pre => cur \in Pids /\ st[cur] = "running"
        BY <1>p DEF Preempted
      <4>2. \A p \in Ready : st[p] # "running"
        BY <1>0, <1>w, <1>q DEF ListsOf
      <4> QED BY <4>1, <4>2
    <3>7. /\ ls3 \in [Queues -> Seq(Pids)]
          /\ ToSet(ls3["ready"]) = (Ready \ {next}) \cup pre
          /\ IsInjective(ls3["ready"])
          /\ \A q \in Queues \ {"ready"} : ls3[q] = ls2[q]
      <4>1. CASE pre = {}
        BY <4>1, <2>1, <2>2
      <4>2. CASE pre # {}
        <5>1. pre = {cur} /\ cur \in Pids
          BY <4>2 DEF Preempted
        <5>2. ls3 = [ls2 EXCEPT !["ready"] = Append(ls2["ready"], cur)]
          BY <4>2, <2>2, <1>q
        <5>3. /\ Append(ls2["ready"], cur) \in Seq(Pids)
              /\ ToSet(Append(ls2["ready"], cur)) = (Ready \ {next}) \cup {cur}
              /\ IsInjective(Append(ls2["ready"], cur))
          <6>1. /\ ls2["ready"] \in Seq(Pids) /\ IsInjective(ls2["ready"])
                /\ ToSet(ls2["ready"]) = Ready \ {next}
            BY <2>1, <2>2
          <6>2. cur \notin ToSet(ls2["ready"])
            BY <5>1, <6>1, <3>6
          <6> QED BY <5>1, <6>1, <6>2, AppendElements
        <5> QED BY <5>1, <5>2, <5>3, <2>2, <1>q
      <4> QED BY <4>1, <4>2
    <3>8. \A q \in Queues : IsInjective(ls3[q])
      BY <3>7, <2>2, <1>1
    <3> HIDE DEF ls3, st3
    <3> QED BY <3>3, <3>4, <3>5, <3>7, <3>8, <2>1, <2>2, <2>5, <1>1, <1>q
  <2> QED BY <2>4, <2>5
<1> QED BY <1>4, <1>5

----------------------------------------------------------------------------
(* The initial state and the steps that leave every list alone.            *)

LEMMA PidFacts ==
  /\ Terminal \in Pids /\ Idle \in Pids /\ Terminal # Idle
  /\ nullptr \notin Pids /\ 0 \in 0..(MaxPid + 1)
BY PidAssumption DEF Terminal, Idle, Pids, nullptr

LEMMA InitIInv == Init => IInv
PROOF
<1> SUFFICES ASSUME Init PROVE IInv
  OBVIOUS
<1>1. TypeOK
  <2>1. /\ phase \in {"command_line", "scheduler", "late", "running"}
        /\ processes \subseteq Pids /\ next_pid \in 0..(MaxPid + 1)
        /\ current \in Pids \cup {nullptr}
        /\ iflag \in BOOLEAN /\ enabled \in BOOLEAN /\ exposed \in BOOLEAN
    BY PidFacts DEF Init
  <2>2. keys \in 0..KeyCapacity
    BY KeyAssumption DEF Init
  <2>3. lists \in [Queues -> Seq(Pids)]
    BY DEF Init
  <2>4. data \in [Pids -> [type : DataTypes, value : Int]]
    BY DEF Init, Unset, DataTypes
  <2>5. /\ state \in [Pids -> States] /\ pc \in [Pids -> ProgramPoints]
        /\ ctx \in [Pids -> Contexts] /\ was \in [Pids -> BOOLEAN]
    BY DEF Init, States, ProgramPoints, Contexts
  <2> QED BY <2>1, <2>2, <2>3, <2>4, <2>5 DEF TypeOK
<1>2. ListsSound
  BY DEF Init, ListsSound, ToSet, IsInjective
<1>3. RunningIsCurrent /\ InvPids /\ InvBoot /\ InvQueued
  BY PidAssumption
  DEF Init, RunningIsCurrent, InvPids, InvBoot, InvQueued, nullptr, Terminal, Idle,
      Pids
<1>4. InvRoles /\ InvData /\ InvKeys
  BY PidAssumption
  DEF Init, InvRoles, InvData, InvKeys, Unset, Terminal, Idle, Pids, Suspended
<1>5. InvFlags
  BY DEF Init, InvFlags
<1> QED BY <1>1, <1>2, <1>3, <1>4, <1>5 DEF IInv

LEMMA PullKeyIInv == ASSUME IInv, PullKey PROVE IInv'
PROOF
<1> USE PullKey DEF PullKey
<1>0. /\ TypeOK /\ current = Terminal /\ current \in Pids
      /\ Idle \in Pids /\ Terminal # Idle
  BY PidFacts DEF IInv
<1>1. TypeOK'
  <2>1. keys' \in 0..KeyCapacity
    BY <1>0, KeyAssumption DEF TypeOK
  <2>2. pc' \in [Pids -> ProgramPoints]
    BY <1>0 DEF TypeOK, Goto, ProgramPoints
  <2> QED BY <1>0, <2>1, <2>2 DEF TypeOK, queueing, cpu
<1>2. ListsSound' /\ RunningIsCurrent' /\ InvPids' /\ InvBoot'
  BY DEF IInv, ListsSound, RunningIsCurrent, InvPids, InvBoot, queueing, cpu
<1>3. InvQueued'
  BY <1>0 DEF IInv, InvQueued, At, Goto, queueing, TypeOK
<1>4. InvRoles'
  BY <1>0 DEF IInv, InvRoles, Goto, queueing, TypeOK
<1>5. InvData'
  BY DEF IInv, InvData, queueing
<1>6. InvKeys'
  BY <1>0 DEF IInv, InvKeys, Goto, At, queueing, TypeOK
<1>7. InvFlags'
  BY <1>0 DEF IInv, InvFlags, At, Goto, queueing, cpu, TypeOK, Sections
<1> QED BY <1>1, <1>2, <1>3, <1>4, <1>5, <1>6, <1>7 DEF IInv

\* A step that only moves the program point of the terminal on, and takes at
\* most a key.
LEMMA PopKeyIInv == ASSUME IInv, PopKey PROVE IInv'
PROOF
<1> USE PopKey DEF PopKey
<1>0. /\ TypeOK /\ current \in Pids /\ Idle \in Pids /\ Terminal # Idle
      /\ current = Terminal
  BY PidFacts DEF IInv, At, TypeOK, InvRoles
<1>1. TypeOK'
  <2>1. keys' \in 0..KeyCapacity
    BY <1>0, KeyAssumption DEF TypeOK
  <2>2. pc' \in [Pids -> ProgramPoints]
    BY <1>0 DEF TypeOK, Goto, ProgramPoints
  <2> QED BY <1>0, <2>1, <2>2 DEF TypeOK, queueing, cpu
<1>2. ListsSound' /\ RunningIsCurrent' /\ InvPids' /\ InvBoot'
  BY DEF IInv, ListsSound, RunningIsCurrent, InvPids, InvBoot, queueing, cpu
<1>3. InvQueued'
  BY <1>0 DEF IInv, InvQueued, At, Goto, queueing, TypeOK
<1>4. InvRoles'
  BY <1>0 DEF IInv, InvRoles, Goto, queueing, TypeOK
<1>5. InvData'
  BY DEF IInv, InvData, queueing
<1>6. InvKeys'
  BY <1>0 DEF IInv, InvKeys, Goto, At, queueing, TypeOK
<1>7. InvFlags'
  BY <1>0 DEF IInv, InvFlags, At, Goto, queueing, cpu, TypeOK, Sections
<1> QED BY <1>1, <1>2, <1>3, <1>4, <1>5, <1>6, <1>7 DEF IInv

LEMMA HandleKeyIInv == ASSUME IInv, HandleKey PROVE IInv'
PROOF
<1> USE HandleKey DEF HandleKey
<1>0. /\ TypeOK /\ current \in Pids /\ Idle \in Pids /\ Terminal # Idle
      /\ current = Terminal
  BY PidFacts DEF IInv, At, TypeOK, InvRoles
<1>1. TypeOK'
  <2>1. pc' \in [Pids -> ProgramPoints]
    BY <1>0 DEF TypeOK, Goto, ProgramPoints
  <2> QED BY <1>0, <2>1 DEF TypeOK, queueing, cpu
<1>2. ListsSound' /\ RunningIsCurrent' /\ InvPids' /\ InvBoot'
  BY DEF IInv, ListsSound, RunningIsCurrent, InvPids, InvBoot, queueing, cpu
<1>3. InvQueued'
  BY <1>0 DEF IInv, InvQueued, At, Goto, queueing, TypeOK
<1>4. InvRoles'
  BY <1>0 DEF IInv, InvRoles, Goto, queueing, TypeOK
<1>5. InvData' /\ InvKeys'
  BY <1>0 DEF IInv, InvData, InvKeys, Goto, queueing, TypeOK
<1>6. InvFlags'
  BY <1>0 DEF IInv, InvFlags, At, Goto, queueing, cpu, TypeOK, Sections
<1> QED BY <1>1, <1>2, <1>3, <1>4, <1>5, <1>6 DEF IInv

\* The first half of a lock, in code that the process may be running.
LEMMA EnterIInv ==
  ASSUME IInv, phase = "running", ~exposed, current # nullptr,
         pc[current] \notin {"yield", "reschedule"},
         NEW section \in Sections, Enter(section), current # Idle,
         current = Terminal <=> section \notin {"sleep", "exit"}
  PROVE  IInv'
PROOF
<1> USE DEF Enter
<1>0. /\ TypeOK /\ current \in Pids /\ Idle \in Pids /\ Terminal # Idle
  BY PidFacts DEF IInv, TypeOK
<1>1. TypeOK'
  <2>1. pc' \in [Pids -> ProgramPoints]
    BY <1>0 DEF TypeOK, Goto, ProgramPoints
  <2> QED BY <1>0, <2>1 DEF TypeOK, queueing
<1>2. ListsSound' /\ RunningIsCurrent' /\ InvPids' /\ InvBoot'
  BY DEF IInv, ListsSound, RunningIsCurrent, InvPids, InvBoot, queueing
<1>3. InvQueued'
  BY <1>0 DEF IInv, InvQueued, Goto, queueing, TypeOK
<1>4. InvRoles'
  BY <1>0 DEF IInv, InvRoles, Goto, queueing, TypeOK, Sections
<1>5. InvData' /\ InvKeys'
  BY <1>0 DEF IInv, InvData, InvKeys, Goto, queueing, TypeOK, Sections
<1>6. InvFlags'
  BY <1>0 DEF IInv, InvFlags, Goto, queueing, TypeOK, Sections
<1> QED BY <1>1, <1>2, <1>3, <1>4, <1>5, <1>6 DEF IInv

LEMMA EnterSectionIInv ==
  ASSUME IInv, EnterBlock \/ EnterCreate \/ EnterWait \/ EnterSleep \/ EnterExit
  PROVE  IInv'
PROOF
<1> USE DEF At
<1>0. /\ TypeOK /\ InvRoles /\ Terminal # Idle
      /\ current \in Pids \cup {nullptr}
  BY PidFacts DEF IInv, TypeOK
<1>1. CASE EnterBlock
  <2>1. "block" \in Sections /\ current = Terminal
    BY <1>0, <1>1 DEF EnterBlock, InvRoles, Sections
  <2> QED BY <1>0, <1>1, <2>1, EnterIInv DEF EnterBlock
<1>2. CASE EnterCreate
  <2>1. PICK section \in {"create", "createWait"} : Enter(section)
    BY <1>2 DEF EnterCreate
  <2>2. section \in Sections /\ current = Terminal
    BY <1>0, <1>2 DEF EnterCreate, InvRoles, Sections
  <2> QED BY <1>0, <1>2, <2>1, <2>2, EnterIInv DEF EnterCreate
<1>3. CASE EnterWait
  <2>1. "wait" \in Sections /\ current = Terminal
    BY <1>0, <1>3 DEF EnterWait, InvRoles, Sections
  <2> QED BY <1>0, <1>3, <2>1, EnterIInv DEF EnterWait
<1>4. CASE EnterSleep
  <2>1. "sleep" \in Sections
    BY DEF Sections
  <2> QED BY <1>0, <1>4, <2>1, EnterIInv DEF EnterSleep
<1>5. CASE EnterExit
  <2>1. "exit" \in Sections
    BY DEF Sections
  <2> QED BY <1>0, <1>5, <2>1, EnterIInv DEF EnterExit
<1> QED BY <1>1, <1>2, <1>3, <1>4, <1>5

LEMMA EnterRescheduleIInv == ASSUME IInv, EnterReschedule PROVE IInv'
PROOF
<1> USE EnterReschedule DEF EnterReschedule
<1>0. /\ TypeOK /\ current \in Pids /\ Idle \in Pids /\ Terminal # Idle
  BY PidFacts DEF IInv, TypeOK, At
<1>1. TypeOK'
  <2>1. pc' \in [Pids -> ProgramPoints] /\ was' \in [Pids -> BOOLEAN]
    BY <1>0 DEF TypeOK, Goto, ProgramPoints
  <2> QED BY <1>0, <2>1 DEF TypeOK, queueing
<1>2. ListsSound' /\ RunningIsCurrent' /\ InvPids' /\ InvBoot'
  BY DEF IInv, ListsSound, RunningIsCurrent, InvPids, InvBoot, queueing
<1>3. InvQueued'
  BY <1>0 DEF IInv, InvQueued, Goto, queueing, TypeOK, At
<1>4. InvRoles'
  BY <1>0 DEF IInv, InvRoles, Goto, queueing, TypeOK, At
<1>5. InvData' /\ InvKeys'
  BY <1>0 DEF IInv, InvData, InvKeys, Goto, queueing, TypeOK, At
<1>6. InvFlags'
  BY <1>0 DEF IInv, InvFlags, Goto, queueing, TypeOK, Sections, At
<1> QED BY <1>1, <1>2, <1>3, <1>4, <1>5, <1>6 DEF IInv

LEMMA HeapUnmasksIInv == ASSUME IInv, HeapUnmasks PROVE IInv'
PROOF
<1> USE HeapUnmasks DEF HeapUnmasks
<1>1. TypeOK'
  BY DEF IInv, TypeOK, queueing, frames
<1>2. ListsSound' /\ RunningIsCurrent' /\ InvPids' /\ InvBoot' /\ InvQueued'
  BY DEF IInv, ListsSound, RunningIsCurrent, InvPids, InvBoot, InvQueued,
         queueing, frames
<1>3. InvRoles' /\ InvData' /\ InvKeys' /\ InvFlags'
  BY DEF IInv, InvRoles, InvData, InvKeys, InvFlags, queueing, frames
<1> QED BY <1>1, <1>2, <1>3 DEF IInv

LEMMA StutterIInv == ASSUME IInv, UNCHANGED vars PROVE IInv'
BY DEF vars, IInv, TypeOK, ListsSound, RunningIsCurrent, InvPids, InvBoot,
       InvQueued, InvRoles, InvData, InvKeys, InvFlags

----------------------------------------------------------------------------
(* Suspending the current process, creating one, and the keyboard's irq.   *)

LEMMA SuspendIInv ==
  ASSUME IInv, phase = "running", current \in Pids,
         pc[current] \notin {"yield", "reschedule"}, NEW s, NEW d,
         \/ /\ current = Terminal
            /\ \/ s = "blocked" /\ d = [type |-> "io", value |-> 0]
               \/ s = "waiting" /\ d = [type |-> "waiting", value |-> next_pid - 1]
         \/ /\ current \notin {Terminal, Idle}
            /\ \E t \in SleepTimes :
                  s = "sleeping" /\ d = [type |-> "sleep", value |-> t],
         Suspend(s, d)
  PROVE  IInv'
PROOF
<1> USE Suspend(s, d) DEF Suspend
<1>0. /\ TypeOK /\ ListsSound /\ Idle \in Pids /\ Terminal \in Pids /\ Terminal # Idle
      /\ current # nullptr /\ current \in processes
      /\ current # Idle
  BY PidFacts DEF IInv, RunningIsCurrent
<1>s. /\ s \in Suspended /\ s \in Queues /\ s \in States /\ s # "ready" /\ s # "running"
      /\ s # "empty"
  BY DEF Suspended, Queues, States
<1>d. /\ d \in Records
      /\ s = "sleeping" => d.type = "sleep" /\ d.value >= 1
      /\ s = "waiting" => d.type = "waiting" /\ d.value < next_pid
      /\ s = "blocked" => d.type = "io"
      /\ d.type \in {"sleep", "waiting", "io"}
      /\ d.type = "sleep" <=> s = "sleeping"
      /\ d.type = "waiting" <=> s = "waiting"
      /\ s = "sleeping" <=> current # Terminal
  <2>1. next_pid \in Int
    BY <1>0 DEF TypeOK
  <2>2. CASE current = Terminal /\ s = "blocked" /\ d = [type |-> "io", value |-> 0]
    BY <2>2 DEF Records, DataTypes
  <2>3. CASE /\ current = Terminal /\ s = "waiting"
             /\ d = [type |-> "waiting", value |-> next_pid - 1]
    BY <2>1, <2>3 DEF Records, DataTypes
  <2>4. CASE current \notin {Terminal, Idle}
    <3>1. PICK t \in SleepTimes : s = "sleeping" /\ d = [type |-> "sleep", value |-> t]
      BY <2>4
    <3>2. t \in Int /\ t >= 1
      BY SleepAssumption
    <3> QED BY <2>4, <3>1, <3>2 DEF Records, DataTypes
  <2> QED BY <2>2, <2>3, <2>4
<1>l. /\ lists' \in [Queues -> Seq(Pids)]
      /\ ToSet(lists'[s]) = ToSet(lists[s]) \cup {current}
      /\ IsInjective(lists'[s])
      /\ \A q \in Queues \ {s} : lists'[q] = lists[q]
  <2>1. lists \in [Queues -> Seq(Pids)] /\ lists[s] \in Seq(Pids)
    BY <1>0, <1>s DEF TypeOK
  <2>2. current \notin ToSet(lists[s])
    BY <1>0, <1>s DEF IInv, ListsSound, InvQueued
  <2>3. IsInjective(lists[s])
    BY <1>0, <1>s DEF ListsSound
  <2>4. /\ Append(lists[s], current) \in Seq(Pids)
        /\ ToSet(Append(lists[s], current)) = ToSet(lists[s]) \cup {current}
        /\ IsInjective(Append(lists[s], current))
    BY <2>1, <2>2, <2>3, AppendElements
  <2>5. lists' = [lists EXCEPT ![s] = Append(lists[s], current)]
    OBVIOUS
  <2> QED BY <2>1, <2>4, <2>5, <1>s
<1>q. /\ state' = [state EXCEPT ![current] = s] /\ state \in [Pids -> States]
      /\ data' = [data EXCEPT ![current] = d] /\ data \in [Pids -> Records]
      /\ pc' = [pc EXCEPT ![current] = "yield"] /\ pc \in [Pids -> ProgramPoints]
  BY <1>0 DEF TypeOK, Goto, Records
<1> HIDE DEF Suspend
<1>u. UNCHANGED <<phase, processes, next_pid, current, keys, ctx, was, exposed>>
      /\ iflag' = TRUE /\ enabled' = TRUE
  BY DEF Suspend, Unlock, interrupts_lock
<1>1. TypeOK'
  <2>1. /\ state' \in [Pids -> States] /\ data' \in [Pids -> Records]
        /\ pc' \in [Pids -> ProgramPoints]
    BY <1>q, <1>s, <1>d DEF ProgramPoints
  <2> QED BY <1>0, <1>u, <1>l, <2>1 DEF TypeOK, Records
<1>2. ListsSound'
  <2>1. \A q \in Queues : q = "ready" \/ q \in Suspended
    BY DEF Queues, Suspended
  <2>2. \A q \in Queues : current \notin ToSet(lists[q])
    BY <1>0, <2>1 DEF IInv, ListsSound, InvQueued
  <2>3. \A q \in Queues : IsInjective(lists'[q])
    BY <1>0, <1>l DEF ListsSound
  <2>4. ASSUME NEW q \in Queues, NEW p \in ToSet(lists'[q])
        PROVE  p \in processes /\ state'[p] = q
    <3>1. CASE p = current
      BY <3>1, <2>2, <2>4, <1>0, <1>l, <1>q
    <3>2. CASE p # current
      <4>1. p \in ToSet(lists[q])
        BY <3>2, <2>4, <1>l
      <4>2. p \in processes /\ state[p] = q
        BY <4>1, <1>0 DEF ListsSound
      <4> QED BY <3>2, <4>2, <1>0, <1>q DEF TypeOK
    <3> QED BY <3>1, <3>2
  <2> QED BY <1>u, <2>3, <2>4 DEF ListsSound
<1>3. RunningIsCurrent' /\ InvPids' /\ InvBoot'
  BY <1>0, <1>q, <1>u, <1>s DEF IInv, RunningIsCurrent, InvPids, InvBoot
<1>4. InvQueued'
  <2>1. \A p \in processes : p \in Pids
    BY <1>0 DEF TypeOK
  <2>2. \A p \in Pids \ {current} : state'[p] = state[p] /\ pc'[p] = pc[p] /\ data'[p] = data[p]
    BY <1>q
  <2>3. state'[current] = s /\ pc'[current] = "yield" /\ data'[current] = d
    BY <1>q
  <2>4. "ready" \in Queues /\ Suspended \subseteq Queues
    BY DEF Queues, Suspended
  <2>5. \A q \in Queues : ToSet(lists[q]) \subseteq ToSet(lists'[q])
    BY <1>l
  <2>6. ToSet(lists'["ready"]) = ToSet(lists["ready"])
    BY <1>l, <1>s, <2>4
  <2>7. \A p \in processes : state'[p] \in Suspended => p \in ToSet(lists'[state'[p]])
    BY <1>l, <2>1, <2>2, <2>3, <2>4, <2>5 DEF IInv, InvQueued
  <2> QED BY <1>0, <1>u, <1>s, <1>d, <2>1, <2>2, <2>3, <2>6, <2>7 DEF IInv, InvQueued
<1>5. InvRoles'
  BY <1>0, <1>q, <1>u, <1>s, <1>d DEF IInv, InvRoles, Suspended
<1>6. InvData'
  BY <1>0, <1>q, <1>u, <1>s, <1>d DEF IInv, InvData, Suspended
<1>7. InvKeys'
  BY <1>0, <1>q, <1>u, <1>s, <1>d DEF IInv, InvKeys, Suspended
<1>8. InvFlags'
  BY <1>0, <1>q, <1>u DEF IInv, InvFlags
<1> QED BY <1>1, <1>2, <1>3, <1>4, <1>5, <1>6, <1>7, <1>8 DEF IInv

LEMMA SuspendersIInv == ASSUME IInv, Block \/ Sleep \/ Wait PROVE IInv'
PROOF
<1> USE DEF At
<1>0. current \in Pids \cup {nullptr} /\ InvRoles /\ Terminal # Idle
  BY PidFacts DEF IInv, TypeOK
<1>1. CASE Block
  <2>1. current = Terminal
    BY <1>0, <1>1 DEF Block, InvRoles
  <2> QED BY <1>0, <1>1, <2>1, SuspendIInv DEF Block
<1>2. CASE Sleep
  <2>1. PICK t \in SleepTimes : Suspend("sleeping", [type |-> "sleep", value |-> t])
    BY <1>2 DEF Sleep
  <2>2. current \notin {Terminal, Idle}
    BY <1>0, <1>2 DEF Sleep, InvRoles
  <2> QED BY <1>0, <1>2, <2>1, <2>2, SuspendIInv DEF Sleep
<1>3. CASE Wait
  <2>1. current = Terminal
    BY <1>0, <1>3 DEF Wait, InvRoles
  <2> QED BY <1>0, <1>3, <2>1, SuspendIInv DEF Wait
<1> QED BY <1>1, <1>2, <1>3

LEMMA NewProcessIInv ==
  ASSUME IInv, NewProcess,
         \/ CommandLineInit \/ SchedulerInit
         \/ Create
  PROVE  IInv'
PROOF
<1> USE NewProcess DEF NewProcess
<1>0. /\ TypeOK /\ ListsSound /\ InvPids /\ Terminal \in Pids /\ Idle \in Pids
      /\ Terminal # Idle /\ Pids \subseteq Int
  BY PidFacts DEF IInv, Pids
<1>n. /\ next_pid \in Pids /\ next_pid \in Int /\ next_pid \notin processes
      /\ state[next_pid] = "empty"
  BY <1>0 DEF InvPids, TypeOK
<1>c. /\ current # next_pid /\ (Create => phase = "running" /\ current = Terminal)
      /\ (Create => pc[current] \in {"create", "createWait"})
      /\ (~Create => phase # "running" /\ current = nullptr /\ ~exposed)
  <2>1. current # next_pid
    BY <1>n, PidFacts DEF IInv, RunningIsCurrent
  <2>2. Create => /\ phase = "running" /\ current = Terminal
                  /\ pc[current] \in {"create", "createWait"}
    BY <1>0 DEF Create, At, IInv, InvRoles, TypeOK
  <2>3. ~Create => phase # "running"
    BY DEF CommandLineInit, SchedulerInit
  <2> QED BY <2>1, <2>2, <2>3 DEF IInv, InvBoot
<1>p. \/ pc' = pc /\ ~Create
      \/ Create /\ \E x \in {"task", "joining"} : pc' = [pc EXCEPT ![current] = x]
  BY DEF CommandLineInit, SchedulerInit, Create, Goto
<1>l. /\ lists' \in [Queues -> Seq(Pids)]
      /\ ToSet(lists'["ready"]) = ToSet(lists["ready"]) \cup {next_pid}
      /\ IsInjective(lists'["ready"])
      /\ \A q \in Queues \ {"ready"} : lists'[q] = lists[q]
  <2>0. "ready" \in Queues
    BY DEF Queues
  <2>1. lists \in [Queues -> Seq(Pids)] /\ lists["ready"] \in Seq(Pids)
    BY <1>0, <2>0 DEF TypeOK
  <2>2. next_pid \notin ToSet(lists["ready"]) /\ IsInjective(lists["ready"])
    BY <1>0, <1>n, <2>0 DEF ListsSound
  <2>4. /\ Append(lists["ready"], next_pid) \in Seq(Pids)
        /\ ToSet(Append(lists["ready"], next_pid)) = ToSet(lists["ready"]) \cup {next_pid}
        /\ IsInjective(Append(lists["ready"], next_pid))
    BY <2>1, <2>2, <1>n, AppendElements
  <2>5. lists' = [lists EXCEPT !["ready"] = Append(lists["ready"], next_pid)]
    OBVIOUS
  <2> QED BY <2>0, <2>1, <2>4, <2>5
<1>q. /\ state' = [state EXCEPT ![next_pid] = "ready"] /\ state \in [Pids -> States]
      /\ processes' = processes \cup {next_pid} /\ next_pid' = next_pid + 1
      /\ UNCHANGED <<data, current, keys, ctx, was, exposed>>
      /\ pc \in [Pids -> ProgramPoints]
      /\ iflag' = (phase # "running" => iflag)
      /\ enabled' = (phase # "running" => enabled)
  BY <1>0 DEF TypeOK, Unlock, interrupts_lock
<1> HIDE DEF NewProcess
<1>h. \/ phase = "command_line" /\ phase' = "scheduler" /\ ~Create
      \/ phase = "scheduler" /\ phase' = "late" /\ ~Create
      \/ phase = "running" /\ phase' = phase /\ Create
  BY <1>c DEF CommandLineInit, SchedulerInit, Create
<1>1. TypeOK'
  <2>1. state' \in [Pids -> States] /\ pc' \in [Pids -> ProgramPoints]
    BY <1>q, <1>p, <1>n DEF States, ProgramPoints
  <2>2. next_pid' \in 0..(MaxPid + 1) /\ processes' \subseteq Pids
    BY <1>q, <1>n, <1>0, PidAssumption DEF Pids, TypeOK
  <2>3. iflag' \in BOOLEAN /\ enabled' \in BOOLEAN
    BY <1>q, <1>0 DEF TypeOK
  <2> QED BY <1>0, <1>q, <1>l, <1>h, <2>1, <2>2, <2>3 DEF TypeOK
<1>2. ListsSound'
  <2>1. \A q \in Queues : next_pid \notin ToSet(lists[q])
    BY <1>0, <1>n DEF ListsSound
  <2>2. \A q \in Queues : IsInjective(lists'[q])
    BY <1>0, <1>l DEF ListsSound
  <2>3. ASSUME NEW q \in Queues, NEW p \in ToSet(lists'[q])
        PROVE  p \in processes' /\ state'[p] = q
    <3>1. CASE p = next_pid
      BY <3>1, <2>1, <2>3, <1>l, <1>q, <1>n
    <3>2. CASE p # next_pid
      <4>1. p \in ToSet(lists[q])
        BY <3>2, <2>3, <1>l
      <4>2. p \in processes /\ state[p] = q
        BY <4>1, <1>0 DEF ListsSound
      <4> QED BY <3>2, <4>2, <1>0, <1>q DEF TypeOK
    <3> QED BY <3>1, <3>2
  <2> QED BY <2>2, <2>3 DEF ListsSound
<1>3. RunningIsCurrent'
  BY <1>0, <1>q, <1>n DEF IInv, RunningIsCurrent
<1>4. InvPids'
  <2>1. \A p \in Pids : p \in processes' <=> state'[p] # "empty"
    BY <1>0, <1>q, <1>n DEF InvPids
  <2>2. \A p \in processes' : p < next_pid'
    BY <1>0, <1>q, <1>n DEF InvPids, TypeOK
  <2>3. /\ Terminal < next_pid' => Terminal \in processes'
        /\ Idle < next_pid' => Idle \in processes'
    BY <1>0, <1>q, <1>n DEF InvPids
  <2>4. /\ phase' = "command_line" => next_pid' = 0
        /\ phase' = "scheduler" => next_pid' = 1
        /\ phase' = "late" => next_pid' = 2
        /\ phase' = "running" => next_pid' >= 2
    BY <1>0, <1>q, <1>n, <1>h DEF InvPids
  <2> QED BY <2>1, <2>2, <2>3, <2>4 DEF InvPids
<1>5. InvBoot'
  BY <1>0, <1>q, <1>n, <1>h DEF IInv, InvBoot, TypeOK
<1>6. InvQueued'
  <2>1. \A p \in processes : p \in Pids /\ p # next_pid /\ state'[p] = state[p]
    BY <1>0, <1>q, <1>n DEF TypeOK
  <2>2. state'[next_pid] = "ready" /\ next_pid \in ToSet(lists'["ready"])
        /\ "ready" \notin Suspended
    BY <1>q, <1>n, <1>l DEF Suspended
  <2>3. \A q \in Suspended : lists'[q] = lists[q]
    BY <1>l DEF Suspended, Queues
  <2>4. \A p \in processes' : state'[p] \in Suspended => p \in ToSet(lists'[state'[p]])
    BY <2>1, <2>2, <2>3, <1>q DEF IInv, InvQueued
  <2>5. current # nullptr => current \in processes /\ state'[current] = state[current]
    BY <2>1 DEF IInv, RunningIsCurrent
  <2>6. current # nullptr => pc[current] \notin {"yield", "reschedule"}
    BY <1>c
  <2>7. /\ current # nullptr => state[current] \notin Suspended
        /\ current # nullptr => current \notin ToSet(lists["ready"])
    BY <2>6 DEF IInv, InvQueued
  <2>8. ASSUME NEW p \in processes' \ {Terminal}
        PROVE  /\ p = current => state'[p] # "ready"
               /\ p # current /\ state'[p] = "ready" => p \in ToSet(lists'["ready"])
               /\ p = current /\ state'[p] = "sleeping" => data[p].value >= 1
    BY <2>1, <2>2, <2>8, <1>l, <1>q, <1>c DEF IInv, InvQueued
  <2> QED BY <2>4, <2>5, <2>7, <2>8, <1>l, <1>c, <1>q DEF InvQueued
<1>7. InvRoles'
  BY <1>0, <1>q, <1>p, <1>n, <1>c DEF IInv, InvRoles, Suspended
<1>8. InvData'
  BY <1>0, <1>q, <1>n DEF IInv, InvData, TypeOK
<1>9. InvKeys'
  <2>1. pc'[Terminal] \in {"yield", "reschedule", "pop"} =>
           pc'[Terminal] = pc[Terminal]
    BY <1>0, <1>q, <1>p, <1>c
  <2>2. state'[Terminal] # "blocked" /\ data[Terminal].type = "io" =>
           state[Terminal] # "blocked"
    BY <1>0, <1>q, <1>n
  <2> QED BY <2>1, <2>2, <1>q DEF IInv, InvKeys
<1>10. InvFlags'
  BY <1>0, <1>q, <1>p, <1>c, <1>h DEF IInv, InvFlags, Sections
<1> QED BY <1>1, <1>2, <1>3, <1>4, <1>5, <1>6, <1>7, <1>8, <1>9, <1>10 DEF IInv

LEMMA KeyIInv == ASSUME IInv, Key PROVE IInv'
PROOF
<1> USE DEF Key
<1> DEFINE readers == {p \in ToSet(lists["blocked"]) :
                          state[p] = "blocked" /\ data[p].type = "io"}
           front == Reverse(Picked(lists["blocked"], readers)) \o lists["ready"]
           kept == Kept(lists["blocked"], readers)
<1>0. /\ TypeOK /\ ListsSound /\ Idle \in Pids /\ Terminal \in Pids /\ Terminal # Idle
      /\ "ready" \in Queues /\ "blocked" \in Queues /\ "blocked" # "ready"
      /\ phase = "running" /\ iflag /\ ~exposed /\ "ready" \notin Suspended
      /\ "blocked" \in Suspended /\ Suspended \subseteq Queues
  BY Key, PidFacts DEF IInv, Queues, Interruptible, Suspended
<1>r. /\ readers \subseteq ToSet(lists["blocked"]) /\ readers \subseteq processes
      /\ readers \subseteq Pids
      /\ \A p \in readers : state[p] = "blocked"
      /\ readers \subseteq {Terminal}
  <2>1. readers \subseteq processes
    BY <1>0 DEF ListsSound
  <2>2. \A p \in processes : state[p] = "blocked" => p = Terminal
    BY <1>0 DEF IInv, InvRoles, Suspended, TypeOK
  <2> QED BY <2>1, <2>2, <1>0 DEF TypeOK
<1>a. lists' = [lists EXCEPT !["blocked"] = kept, !["ready"] = front]
  BY Key DEF MoveToFront
<1>b. state' = WithState(state, readers, "ready")
  BY Key
<1>c. /\ keys' = (IF keys < KeyCapacity THEN keys + 1 ELSE keys)
      /\ enabled' = TRUE
      /\ UNCHANGED <<phase, processes, next_pid, data, current, iflag, pc, ctx,
                     was, exposed>>
  BY Key DEF frames, Pushed
<1>d. lists["blocked"] \in Seq(Pids) /\ lists["ready"] \in Seq(Pids)
  BY <1>0 DEF TypeOK
<1>e. /\ kept \in Seq(Pids) /\ ToSet(kept) = ToSet(lists["blocked"]) \ readers
      /\ IsInjective(lists["blocked"]) => IsInjective(kept)
  BY <1>d, KeptElements
<1>f. /\ front \in Seq(Pids)
      /\ ToSet(front) = ToSet(lists["ready"]) \cup (ToSet(lists["blocked"]) \cap readers)
      /\ IsInjective(lists["blocked"]) /\ IsInjective(lists["ready"])
         /\ ToSet(lists["blocked"]) \cap ToSet(lists["ready"]) = {}
         => IsInjective(front)
  BY <1>d, MoveElements
<1> HIDE DEF readers, front, kept
<1>g. ToSet(lists["blocked"]) \cap ToSet(lists["ready"]) = {}
  BY <1>0 DEF ListsSound
<1>l. /\ lists' \in [Queues -> Seq(Pids)]
      /\ ToSet(lists'["blocked"]) = ToSet(lists["blocked"]) \ readers
      /\ ToSet(lists'["ready"]) = ToSet(lists["ready"]) \cup readers
      /\ \A q \in Queues \ {"blocked", "ready"} : lists'[q] = lists[q]
      /\ \A q \in Queues : IsInjective(lists'[q])
  <2>1. /\ lists'["blocked"] = kept /\ lists'["ready"] = front
        /\ \A q \in Queues \ {"blocked", "ready"} : lists'[q] = lists[q]
        /\ lists' \in [Queues -> Seq(Pids)]
    BY <1>a, <1>e, <1>f, <1>0 DEF TypeOK
  <2>2. IsInjective(kept) /\ IsInjective(front)
    BY <1>e, <1>f, <1>g, <1>0 DEF ListsSound
  <2>3. ToSet(lists["blocked"]) \cap readers = readers
    BY <1>r
  <2> QED BY <2>1, <2>2, <2>3, <1>e, <1>f, <1>0 DEF ListsSound
<1>q. /\ \A p \in Pids : state'[p] = IF p \in readers THEN "ready" ELSE state[p]
      /\ state' \in [Pids -> States]
  BY <1>0, <1>b DEF WithState, TypeOK, States
<1> HIDE DEF Key
<1>k. keys' \in 0..KeyCapacity /\ keys' > 0
  BY <1>0, <1>c, KeyAssumption DEF TypeOK
<1>1. TypeOK'
  BY <1>0, <1>c, <1>l, <1>q, <1>k DEF TypeOK
<1>2. ListsSound'
  <2>1. ASSUME NEW q \in Queues, NEW p \in ToSet(lists'[q])
        PROVE  p \in processes /\ state'[p] = q
    <3>1. CASE p \in readers
      <4>1. q \in Queues \ {"blocked", "ready"} => p \in ToSet(lists[q])
        BY <2>1, <1>l
      <4>2. q = "ready"
        BY <4>1, <3>1, <2>1, <1>l, <1>r, <1>0 DEF ListsSound
      <4> QED BY <4>2, <3>1, <1>q, <1>r
    <3>2. CASE p \notin readers
      <4>1. p \in ToSet(lists[q])
        BY <3>2, <2>1, <1>l
      <4>2. p \in processes /\ state[p] = q
        BY <4>1, <1>0 DEF ListsSound
      <4> QED BY <3>2, <4>2, <1>0, <1>q DEF TypeOK
    <3> QED BY <3>1, <3>2
  <2> QED BY <2>1, <1>l, <1>c DEF ListsSound
<1>3. RunningIsCurrent' /\ InvBoot'
  BY <1>0, <1>c, <1>q DEF IInv, RunningIsCurrent, InvBoot
<1>4. InvPids'
  BY <1>0, <1>c, <1>q, <1>r DEF IInv, InvPids
<1>5. InvQueued'
  <2>1. \A p \in processes : p \in Pids
    BY <1>0 DEF TypeOK
  <2>2. ASSUME NEW p \in processes, state'[p] \in Suspended
        PROVE  p \in ToSet(lists'[state'[p]])
    <3>1. p \notin readers /\ state'[p] = state[p]
      BY <2>1, <2>2, <1>q, <1>0
    <3>2. p \in ToSet(lists[state[p]])
      BY <3>1, <2>2 DEF IInv, InvQueued
    <3>3. state[p] \in Queues \ {"ready"}
      BY <3>1, <2>2, <1>0
    <3> QED BY <3>1, <3>2, <3>3, <1>l
  <2>3. current # nullptr /\ pc[current] \notin {"yield", "reschedule"} =>
           /\ state'[current] \notin Suspended
           /\ current \notin ToSet(lists'["ready"])
    <3>1. SUFFICES ASSUME current # nullptr, pc[current] \notin {"yield", "reschedule"}
                   PROVE  /\ state'[current] \notin Suspended
                          /\ current \notin ToSet(lists'["ready"])
      OBVIOUS
    <3>2. state[current] \notin Suspended /\ current \notin ToSet(lists["ready"])
      BY <3>1 DEF IInv, InvQueued
    <3>3. current \notin readers /\ current \in Pids
      BY <3>1, <3>2, <1>r, <1>0 DEF TypeOK
    <3> QED BY <3>2, <3>3, <1>q, <1>l
  <2>4. \A p \in processes \ {Terminal} : state'[p] = state[p]
    BY <2>1, <1>q, <1>r
  <2>5. ToSet(lists["ready"]) \subseteq ToSet(lists'["ready"])
    BY <1>l
  <2>6. \A p \in processes \ {Terminal} :
           /\ p = current => state'[p] # "ready"
           /\ p # current /\ state'[p] = "ready" => p \in ToSet(lists'["ready"])
           /\ p = current /\ state'[p] = "sleeping" => data[p].value >= 1
    BY <2>4, <2>5 DEF IInv, InvQueued
  <2> QED BY <2>2, <2>3, <2>6, <1>c DEF InvQueued
<1>6. InvRoles'
  BY <1>0, <1>c, <1>q, <1>r DEF IInv, InvRoles, Suspended
<1>7. InvData'
  BY <1>0, <1>c, <1>q, <1>r DEF IInv, InvData
<1>8. InvKeys'
  BY <1>c, <1>k DEF IInv, InvKeys
<1>9. InvFlags'
  BY <1>c DEF IInv, InvFlags
<1> QED BY <1>1, <1>2, <1>3, <1>4, <1>5, <1>6, <1>7, <1>8, <1>9 DEF IInv

----------------------------------------------------------------------------
(* The steps that reschedule.                                              *)

\* What reschedule is entered with, and what it leaves.
Switchable(ls, st, d, cur, ps) ==
    /\ ls \in [Queues -> Seq(Pids)] /\ st \in [Pids -> States]
    /\ d \in [Pids -> Records] /\ ps \subseteq Pids /\ cur \in ps \cup {nullptr}
    /\ \A q \in Queues :
          IsInjective(ls[q]) /\ \A p \in ToSet(ls[q]) : p \in ps /\ st[p] = q
    /\ \A p \in Pids : st[p] = "running" => p = cur
    /\ \A p \in Pids : p \in ps <=> st[p] # "empty"
    /\ \A p \in ps : st[p] \in Suspended => p \in ToSet(ls[st[p]])
    /\ st[Terminal] # "sleeping"
    /\ Idle \in ps /\ st[Idle] \notin Suspended
    /\ \A p \in ps \ {Terminal} :
          /\ p = cur => st[p] # "ready"
          /\ p # cur /\ st[p] = "ready" => p \in ToSet(ls["ready"])
          /\ p = cur /\ st[p] = "sleeping" => d[p].value >= 0

Switched(r, st, d, cur, ps) ==
    /\ r.lists \in [Queues -> Seq(Pids)] /\ r.state \in [Pids -> States]
    /\ r.current \in ps
    /\ \A q \in Queues :
          IsInjective(r.lists[q]) /\ \A p \in ToSet(r.lists[q]) : p \in ps /\ r.state[p] = q
    /\ \A p \in Pids : r.state[p] = "running" => p = r.current
    /\ \A p \in Pids : p \in ps <=> r.state[p] # "empty"
    /\ \A p \in ps : r.state[p] \in Suspended => p \in ToSet(r.lists[r.state[p]])
    /\ r.state[r.current] \notin Suspended /\ r.current \notin ToSet(r.lists["ready"])
    /\ \A p \in ps \ {Terminal} :
          /\ p = r.current => r.state[p] # "ready"
          /\ p # r.current /\ r.state[p] = "ready" => p \in ToSet(r.lists["ready"])
    /\ \A p \in Pids :
          /\ r.state[p] \in Suspended => st[p] = r.state[p]
          /\ st[p] \in {"waiting", "blocked"} => r.state[p] = st[p]
          /\ st[p] = "sleeping" /\ r.state[p] # "sleeping" => d[p].value < 0

LEMMA RescheduleKeeps ==
  ASSUME NEW ls, NEW st, NEW d, NEW cur, NEW ps, Switchable(ls, st, d, cur, ps),
         NEW r, r = Rescheduled(ls, st, d, cur)
  PROVE  Switched(r, st, d, cur, ps)
PROOF
<1> DEFINE W == Expired(ls, st, d)
           Ready == Candidates(ls, st, d)
           pre == Preempted(st, cur)
<1>0. /\ ls \in [Queues -> Seq(Pids)] /\ st \in [Pids -> States]
      /\ d \in [Pids -> Records] /\ ps \subseteq Pids /\ cur \in Pids \cup {nullptr}
      /\ cur \in ps \cup {nullptr} /\ Idle \in ps /\ Idle \in Pids /\ Idle # Terminal
      /\ nullptr \notin Pids
  BY PidFacts DEF Switchable
<1>q. /\ Queues = {"ready", "sleeping", "waiting", "blocked"}
      /\ Suspended = {"sleeping", "waiting", "blocked"}
  BY DEF Queues, Suspended
<1>s. \A q \in Queues : IsInjective(ls[q]) /\ \A p \in ToSet(ls[q]) : p \in ps /\ st[p] = q
  BY DEF Switchable
<1>l. ListsOf(ls, st)
  BY <1>s DEF ListsOf
<1>w. /\ W \subseteq ToSet(ls["sleeping"]) /\ W \subseteq ps
      /\ \A p \in W : st[p] = "sleeping" /\ d[p].value < 0 /\ p # Terminal
      /\ cur \notin W
  <2>1. W \subseteq ToSet(ls["sleeping"]) /\ W \subseteq ps
    BY <1>s, <1>q DEF Expired
  <2>2. \A p \in W : st[p] = "sleeping" /\ d[p].value < 0
    BY DEF Expired
  <2>3. Terminal \notin W
    BY <2>2 DEF Switchable
  <2>4. ASSUME cur \in W PROVE FALSE
    <3>1. cur \in ps \ {Terminal} /\ st[cur] = "sleeping" /\ d[cur].value < 0
      BY <2>1, <2>2, <2>3, <2>4
    <3>2. d[cur].value >= 0 /\ d[cur].value \in Int
      BY <3>1, <1>0 DEF Switchable, Records
    <3> QED BY <3>1, <3>2
  <2> QED BY <2>1, <2>2, <2>3, <2>4
<1>r. /\ Ready = ToSet(ls["ready"]) \cup W /\ Ready \subseteq ps
      /\ \A p \in ToSet(ls["ready"]) : st[p] = "ready"
  BY <1>s, <1>q, <1>w DEF Candidates
<1>p. /\ pre \subseteq ps /\ pre \subseteq {cur}
      /\ cur \in pre <=> cur # nullptr /\ st[cur] = "running"
      /\ \A p \in pre : st[p] = "running"
  BY <1>0 DEF Preempted
<1> HIDE DEF W, Ready, pre
<1>d. Leaves(r, ls, st, W, Ready, pre, cur)
  BY <1>0, <1>l, RescheduleCases DEF W, Ready, pre
<1>c. /\ r.lists \in [Queues -> Seq(Pids)]
      /\ r.state \in [Pids -> States]
      /\ \A q \in Queues : IsInjective(r.lists[q])
      /\ ToSet(r.lists["sleeping"]) = ToSet(ls["sleeping"]) \ W
      /\ \A q \in {"waiting", "blocked"} : r.lists[q] = ls[q]
      /\ \/ /\ Ready = {} /\ r.current = cur /\ r.state = st
            /\ ToSet(r.lists["ready"]) = {}
         \/ /\ cur \in Ready /\ r.current = cur
            /\ r.state = WithState(st, W, "ready")
            /\ ToSet(r.lists["ready"]) = Ready \ {cur}
         \/ /\ r.current \in Ready \ {cur}
            /\ r.state = [p \in Pids |-> IF p = r.current THEN "running"
                                         ELSE IF p \in W \cup pre THEN "ready"
                                         ELSE st[p]]
            /\ ToSet(r.lists["ready"]) = (Ready \ {r.current}) \cup pre
  BY <1>d DEF Leaves
<1>i. cur = Idle \/ Idle \in Ready
  <2>1. st[Idle] \in {"running", "ready"}
    BY <1>0, <1>q DEF Switchable, States
  <2> QED BY <2>1, <1>0, <1>r DEF Switchable
<1>1. CASE /\ Ready = {} /\ r.current = cur /\ r.state = st
           /\ ToSet(r.lists["ready"]) = {}
  <2>1. cur = Idle /\ W = {} /\ ToSet(ls["ready"]) = {}
    BY <1>1, <1>i, <1>r
  <2>2. \A q \in Queues : ToSet(r.lists[q]) = ToSet(ls[q])
    BY <1>1, <1>c, <1>q, <2>1
  <2>3. \A q \in Queues : \A p \in ToSet(r.lists[q]) : p \in ps /\ r.state[p] = q
    BY <1>1, <1>s, <2>2
  <2>4. \A p \in ps : r.state[p] \in Suspended => p \in ToSet(r.lists[r.state[p]])
    BY <1>1, <1>q, <2>2 DEF Switchable
  <2> QED BY <1>0, <1>1, <1>c, <1>q, <2>1, <2>2, <2>3, <2>4 DEF Switchable, Switched
<1>2. CASE /\ cur \in Ready /\ r.current = cur
           /\ r.state = WithState(st, W, "ready")
           /\ ToSet(r.lists["ready"]) = Ready \ {cur}
  <2>0. \A p \in Pids : r.state[p] = IF p \in W THEN "ready" ELSE st[p]
    BY <1>2 DEF WithState
  <2>1. cur = Terminal /\ st[cur] = "ready" /\ cur \in ps
    BY <1>2, <1>r, <1>w DEF Switchable
  <2>2. \A q \in Queues : \A p \in ToSet(r.lists[q]) : p \in ps /\ r.state[p] = q
    BY <1>0, <1>2, <1>c, <1>q, <1>r, <1>s, <1>w, <2>0
  <2>3. \A p \in Pids : r.state[p] = "running" => p = r.current
    BY <1>2, <2>0 DEF Switchable
  <2>4. \A p \in Pids : p \in ps <=> r.state[p] # "empty"
    BY <1>w, <2>0 DEF Switchable
  <2>5. \A p \in ps : r.state[p] \in Suspended => p \in ToSet(r.lists[r.state[p]])
    <3> SUFFICES ASSUME NEW p \in ps, r.state[p] \in Suspended
                 PROVE  p \in ToSet(r.lists[r.state[p]])
      OBVIOUS
    <3>1. p \in Pids /\ p \notin W /\ r.state[p] = st[p]
      BY <1>0, <1>q, <2>0
    <3>2. p \in ToSet(ls[st[p]])
      BY <3>1 DEF Switchable
    <3> QED BY <3>1, <3>2, <1>c, <1>q
  <2>6. \A p \in ps \ {Terminal} :
          /\ p = r.current => r.state[p] # "ready"
          /\ p # r.current /\ r.state[p] = "ready" => p \in ToSet(r.lists["ready"])
    BY <1>0, <1>2, <1>r, <2>0, <2>1 DEF Switchable
  <2>7. \A p \in Pids :
          /\ r.state[p] \in Suspended => st[p] = r.state[p]
          /\ st[p] \in {"waiting", "blocked"} => r.state[p] = st[p]
          /\ st[p] = "sleeping" /\ r.state[p] # "sleeping" => d[p].value < 0
    BY <1>q, <1>w, <2>0
  <2>8. r.state[r.current] \notin Suspended /\ r.current \notin ToSet(r.lists["ready"])
    BY <1>0, <1>2, <1>q, <1>w, <2>0, <2>1
  <2> QED BY <1>2, <1>c, <2>1, <2>2, <2>3, <2>4, <2>5, <2>6, <2>7, <2>8 DEF Switched
<1>3. CASE /\ r.current \in Ready \ {cur}
           /\ r.state = [p \in Pids |-> IF p = r.current THEN "running"
                                        ELSE IF p \in W \cup pre THEN "ready"
                                        ELSE st[p]]
           /\ ToSet(r.lists["ready"]) = (Ready \ {r.current}) \cup pre
  <2>0. \A p \in Pids : r.state[p] = IF p = r.current THEN "running"
                                     ELSE IF p \in W \cup pre THEN "ready"
                                     ELSE st[p]
    BY <1>3
  <2>1. /\ r.current \in ps /\ r.current \in Pids /\ r.current \notin pre
        /\ r.current \in ToSet(ls["ready"]) \/ r.current \in W
        /\ st[r.current] \in {"ready", "sleeping"}
    BY <1>0, <1>3, <1>r, <1>p, <1>w
  <2>2. \A q \in Queues : \A p \in ToSet(r.lists[q]) : p \in ps /\ r.state[p] = q
    <3>1. ASSUME NEW p \in ToSet(r.lists["ready"])
          PROVE  p \in ps /\ r.state[p] = "ready"
      BY <1>0, <1>3, <1>r, <1>p, <1>w, <2>0, <2>1, <3>1
    <3>2. ASSUME NEW p \in ToSet(r.lists["sleeping"])
          PROVE  p \in ps /\ r.state[p] = "sleeping"
      <4>1. p \in ps /\ st[p] = "sleeping" /\ p \notin W
        BY <1>c, <1>q, <1>s, <3>2
      <4>2. p # r.current
        BY <4>1, <1>r, <1>3
      <4> QED BY <4>1, <4>2, <1>0, <1>p, <2>0
    <3>3. ASSUME NEW q \in {"waiting", "blocked"}, NEW p \in ToSet(r.lists[q])
          PROVE  p \in ps /\ r.state[p] = q
      <4>1. p \in ps /\ st[p] = q
        BY <1>c, <1>q, <1>s, <3>3
      <4> QED BY <4>1, <1>0, <1>p, <1>w, <2>0, <2>1
    <3> QED BY <3>1, <3>2, <3>3, <1>q
  <2>3. \A p \in Pids : r.state[p] = "running" => p = r.current
    <3>1. \A p \in Pids : st[p] = "running" => p = cur
      BY DEF Switchable
    <3> QED BY <3>1, <1>p, <1>0, <2>0
  <2>4. \A p \in Pids : p \in ps <=> r.state[p] # "empty"
    BY <1>w, <1>p, <2>0, <2>1 DEF Switchable
  <2>5. \A p \in ps : r.state[p] \in Suspended => p \in ToSet(r.lists[r.state[p]])
    <3> SUFFICES ASSUME NEW p \in ps, r.state[p] \in Suspended
                 PROVE  p \in ToSet(r.lists[r.state[p]])
      OBVIOUS
    <3>1. p \in Pids /\ p \notin W /\ r.state[p] = st[p]
      BY <1>0, <1>q, <2>0
    <3>2. p \in ToSet(ls[st[p]])
      BY <3>1 DEF Switchable
    <3> QED BY <3>1, <3>2, <1>c, <1>q
  <2>6. \A p \in ps \ {Terminal} :
          /\ p = r.current => r.state[p] # "ready"
          /\ p # r.current /\ r.state[p] = "ready" => p \in ToSet(r.lists["ready"])
    <3>1. r.state[r.current] = "running"
      BY <2>0, <2>1
    <3>2. ASSUME NEW p \in ps \ {Terminal}, p # r.current, r.state[p] = "ready"
          PROVE  p \in ToSet(r.lists["ready"])
      <4>1. CASE p \in W \cup pre
        BY <4>1, <3>2, <1>3, <1>r
      <4>2. CASE p \notin W \cup pre
        <5>1. st[p] = "ready"
          BY <4>2, <3>2, <2>0, <1>0
        <5>2. p \in ToSet(ls["ready"])
          BY <5>1, <3>2 DEF Switchable
        <5> QED BY <5>2, <3>2, <1>3, <1>r
      <4> QED BY <4>1, <4>2
    <3> QED BY <3>1, <3>2
  <2>7. \A p \in Pids :
          /\ r.state[p] \in Suspended => st[p] = r.state[p]
          /\ st[p] \in {"waiting", "blocked"} => r.state[p] = st[p]
          /\ st[p] = "sleeping" /\ r.state[p] # "sleeping" => d[p].value < 0
    <3>1. r.current \in W \/ st[r.current] = "ready"
      BY <2>1, <1>r
    <3> QED BY <3>1, <1>q, <1>w, <1>p, <2>0, <2>1
  <2>8. r.state[r.current] \notin Suspended /\ r.current \notin ToSet(r.lists["ready"])
    BY <1>q, <1>3, <2>0, <2>1
  <2> QED BY <1>c, <2>1, <2>2, <2>3, <2>4, <2>5, <2>6, <2>7, <2>8 DEF Switched
<1> QED BY <1>c, <1>1, <1>2, <1>3

\* Between two steps, reschedule can be called.
LEMMA IInvSwitchable ==
  ASSUME IInv, phase \in {"late", "running"}, NEW d \in [Pids -> Records],
         \A p \in processes \ {Terminal} :
            p = current /\ state[p] = "sleeping" => d[p].value >= 0
  PROVE  Switchable(lists, state, d, current, processes)
PROOF
<1>1. /\ lists \in [Queues -> Seq(Pids)] /\ state \in [Pids -> States]
      /\ processes \subseteq Pids
  BY DEF IInv, TypeOK
<1>2. current \in processes \cup {nullptr} /\ \A p \in Pids : state[p] = "running" => p = current
  BY DEF IInv, RunningIsCurrent
<1>3. \A q \in Queues :
         IsInjective(lists[q]) /\ \A p \in ToSet(lists[q]) : p \in processes /\ state[p] = q
  BY DEF IInv, ListsSound
<1>4. (\A p \in Pids : p \in processes <=> state[p] # "empty") /\ Idle \in processes
  BY PidAssumption DEF IInv, InvPids, TypeOK, Idle, Pids
<1>5. state[Terminal] # "sleeping" /\ state[Idle] \notin Suspended
  BY DEF IInv, InvRoles
<1>6. /\ \A p \in processes : state[p] \in Suspended => p \in ToSet(lists[state[p]])
      /\ \A p \in processes \ {Terminal} :
            /\ p = current => state[p] # "ready"
            /\ p # current /\ state[p] = "ready" => p \in ToSet(lists["ready"])
  BY DEF IInv, InvQueued
<1> QED BY <1>1, <1>2, <1>3, <1>4, <1>5, <1>6 DEF Switchable

\* What reschedule leaves satisfies the parts of IInv that are about the lists.
LEMMA SwitchedLists ==
  ASSUME NEW r, NEW st, NEW d, NEW cur, Switched(r, st, d, cur, processes'), Becomes(r)
  PROVE  /\ ListsSound' /\ RunningIsCurrent' /\ InvQueued'
         /\ lists' \in [Queues -> Seq(Pids)] /\ state' \in [Pids -> States]
         /\ current' \in processes'
         /\ \A p \in Pids : p \in processes' <=> state'[p] # "empty"
         /\ \A p \in Pids :
              /\ state'[p] \in Suspended => st[p] = state'[p]
              /\ st[p] \in {"waiting", "blocked"} => state'[p] = st[p]
              /\ st[p] = "sleeping" /\ state'[p] # "sleeping" => d[p].value < 0
PROOF
<1>1. lists' = r.lists /\ state' = r.state /\ current' = r.current
  BY DEF Becomes
<1>2. ListsSound' /\ RunningIsCurrent'
  BY <1>1 DEF Switched, ListsSound, RunningIsCurrent
<1>3. state'[current'] \notin Suspended /\ current' \notin ToSet(lists'["ready"])
  BY <1>1 DEF Switched
<1>4. \A p \in processes' : state'[p] \in Suspended => p \in ToSet(lists'[state'[p]])
  BY <1>1 DEF Switched
<1>5. \A p \in processes' \ {Terminal} :
          /\ p = current' => state'[p] # "ready"
          /\ p # current' /\ state'[p] = "ready" => p \in ToSet(lists'["ready"])
  BY <1>1 DEF Switched
<1>6. InvQueued'
  BY <1>3, <1>4, <1>5 DEF InvQueued, Suspended
<1> QED BY <1>1, <1>2, <1>6 DEF Switched

\* Wherever the process p is resumed, interrupts are on.
LEMMA ResumedOn ==
  ASSUME IInv, NEW p \in Pids, ResumedWith(p)
  PROVE  iflag' = TRUE /\ enabled' = TRUE
BY DEF IInv, TypeOK, InvFlags, ResumedWith, Contexts

LEMMA FirstRescheduleIInv == ASSUME IInv, FirstReschedule PROVE IInv'
PROOF
<1> DEFINE r == Rescheduled(lists, state, data, current)
<1>0. /\ TypeOK /\ phase = "late" /\ current = nullptr /\ ~exposed
      /\ \A p \in processes : state[p] = "ready"
  BY DEF IInv, InvBoot, FirstReschedule
<1>1. Switched(r, state, data, current, processes)
  <2>1. data \in [Pids -> Records]
    BY <1>0 DEF TypeOK, Records
  <2>2. Switchable(lists, state, data, current, processes)
    BY <1>0, <2>1, IInvSwitchable
  <2> QED BY <2>2, RescheduleKeeps
<1>c. /\ phase' = "running"
      /\ UNCHANGED <<processes, next_pid, data, keys, pc, ctx, was, exposed>>
      /\ Becomes(r) /\ ResumedWith(r.current) /\ r.current = current'
  BY DEF FirstReschedule, frames, Becomes
<1> HIDE DEF r
<1>2. /\ ListsSound' /\ RunningIsCurrent' /\ InvQueued'
      /\ lists' \in [Queues -> Seq(Pids)] /\ state' \in [Pids -> States]
      /\ current' \in processes
      /\ \A p \in Pids : p \in processes <=> state'[p] # "empty"
      /\ \A p \in Pids :
           /\ state'[p] \in Suspended => state[p] = state'[p]
           /\ state[p] \in {"waiting", "blocked"} => state'[p] = state[p]
           /\ state[p] = "sleeping" /\ state'[p] # "sleeping" => data[p].value < 0
  BY <1>1, <1>c, SwitchedLists
<1>3. current' \in Pids /\ iflag' = TRUE /\ enabled' = TRUE
  BY <1>0, <1>2, <1>c, ResumedOn DEF TypeOK
<1>4. TypeOK'
  BY <1>0, <1>2, <1>3, <1>c DEF TypeOK
<1>5. InvPids' /\ InvBoot'
  BY <1>0, <1>2, <1>3, <1>c, PidFacts DEF IInv, InvPids, InvBoot
<1>6. InvRoles' /\ InvData'
  BY <1>0, <1>2, <1>c, PidFacts DEF IInv, InvRoles, InvData, Suspended
<1>7. InvKeys'
  BY <1>0, <1>2, <1>c, PidFacts DEF IInv, InvKeys
<1>8. InvFlags'
  BY <1>3, <1>c DEF IInv, InvFlags
<1> QED BY <1>2, <1>4, <1>5, <1>6, <1>7, <1>8 DEF IInv

LEMMA TickIInv == ASSUME IInv, Tick PROVE IInv'
PROOF
<1> DEFINE r == Rescheduled(lists, state, data', current)
<1>0. /\ TypeOK /\ phase = "running" /\ ~exposed /\ iflag = TRUE
      /\ current \in Pids /\ Idle \in Pids /\ Terminal # Idle /\ Terminal \in Pids
  BY PidFacts DEF IInv, InvBoot, Tick, Interruptible, TypeOK
<1>d. /\ data' \in [Pids -> Records]
      /\ \A p \in Pids :
           /\ data'[p].type = data[p].type
           /\ data[p].type # "sleep" => data'[p].value = data[p].value
           /\ data[p].type = "sleep" /\ data[p].value >= 1 => data'[p].value >= 0
           /\ data[p].type = "sleep" /\ data[p].value < 0 => data'[p].value < 0
  <2>1. data' = [p \in Pids |-> Elapsed(p)]
    BY DEF Tick
  <2>2. ASSUME NEW p \in Pids
        PROVE  /\ Elapsed(p) \in Records
               /\ Elapsed(p).type = data[p].type
               /\ data[p].type # "sleep" => Elapsed(p).value = data[p].value
               /\ data[p].type = "sleep" /\ data[p].value >= 1 => Elapsed(p).value >= 0
               /\ data[p].type = "sleep" /\ data[p].value < 0 => Elapsed(p).value < 0
    <3>1. data[p] \in Records
      BY <1>0 DEF TypeOK, Records
    <3> QED BY <3>1 DEF Elapsed, Records
  <2> QED BY <2>1, <2>2
<1>1. Switched(r, state, data', current, processes)
  <2>1. ASSUME NEW p \in processes \ {Terminal}, p = current, state[p] = "sleeping"
        PROVE  data'[p].value >= 0
    <3>1. data[p].value >= 1 /\ data[p].type = "sleep" /\ p \in Pids
      BY <2>1, <1>0 DEF IInv, InvQueued, InvData
    <3> QED BY <3>1, <1>d
  <2>2. Switchable(lists, state, data', current, processes)
    BY <1>0, <1>d, <2>1, IInvSwitchable
  <2> QED BY <2>2, RescheduleKeeps
<1>c. /\ UNCHANGED <<phase, processes, next_pid, keys, pc, was, exposed>>
      /\ Becomes(r) /\ r.current = current'
      /\ \/ r.current = current /\ iflag' = TRUE /\ enabled' = TRUE /\ ctx' = ctx
         \/ ResumedWith(r.current) /\ ctx' = [ctx EXCEPT ![current] = "irq"]
  BY DEF Tick, Becomes
<1> HIDE DEF r
<1>2. /\ ListsSound' /\ RunningIsCurrent' /\ InvQueued'
      /\ lists' \in [Queues -> Seq(Pids)] /\ state' \in [Pids -> States]
      /\ current' \in processes
      /\ \A p \in Pids : p \in processes <=> state'[p] # "empty"
      /\ \A p \in Pids :
           /\ state'[p] \in Suspended => state[p] = state'[p]
           /\ state[p] \in {"waiting", "blocked"} => state'[p] = state[p]
           /\ state[p] = "sleeping" /\ state'[p] # "sleeping" => data'[p].value < 0
  BY <1>1, <1>c, SwitchedLists
<1>3. current' \in Pids /\ iflag' = TRUE /\ enabled' = TRUE
  BY <1>0, <1>2, <1>c, ResumedOn DEF TypeOK
<1>x. /\ ctx' \in [Pids -> Contexts]
      /\ \A p \in Pids : ctx'[p] = "call" => ctx[p] = "call"
  BY <1>0, <1>c DEF TypeOK, Contexts
<1>4. TypeOK'
  BY <1>0, <1>2, <1>3, <1>c, <1>d, <1>x DEF TypeOK, Records
<1>5. InvPids' /\ InvBoot'
  BY <1>0, <1>2, <1>3, <1>c, PidFacts DEF IInv, InvPids, InvBoot
<1>6. InvRoles'
  BY <1>0, <1>2, <1>c, <1>d DEF IInv, InvRoles, Suspended
<1>7. InvData'
  <2> SUFFICES ASSUME NEW p \in Pids
               PROVE  /\ state'[p] = "sleeping" => data'[p].type = "sleep"
                      /\ state'[p] = "waiting" => data'[p].type = "waiting"
                      /\ state'[p] = "blocked" => data'[p].type = "io"
                      /\ data'[p].type = "sleep" /\ state'[p] # "sleeping" =>
                            data'[p].value < 0
                      /\ data'[p].type = "waiting" => data'[p].value < next_pid
                      /\ data'[p].type = "waiting" /\ state'[p] # "waiting" =>
                            data'[p].value \notin processes
    BY <1>c DEF InvData
  <2> QED BY <1>2, <1>d DEF IInv, InvData, Suspended
<1>8. InvKeys'
  BY <1>0, <1>2, <1>c, <1>d DEF IInv, InvKeys
<1>9. InvFlags'
  BY <1>0, <1>3, <1>c, <1>x DEF IInv, InvFlags
<1> QED BY <1>2, <1>4, <1>5, <1>6, <1>7, <1>8, <1>9 DEF IInv

LEMMA RescheduleIInv == ASSUME IInv, Reschedule PROVE IInv'
PROOF
<1> DEFINE r == Rescheduled(lists, state, data, current)
<1>0. /\ TypeOK /\ phase = "running" /\ ~exposed /\ pc[current] = "reschedule"
      /\ current \in Pids /\ Idle \in Pids /\ Terminal # Idle /\ Terminal \in Pids
      /\ was[current] = TRUE
  BY PidFacts DEF IInv, InvBoot, InvFlags, Reschedule, At, TypeOK
<1>1. Switched(r, state, data, current, processes)
  <2>1. data \in [Pids -> Records]
    BY <1>0 DEF TypeOK, Records
  <2>2. ASSUME NEW p \in processes \ {Terminal}, p = current, state[p] = "sleeping"
        PROVE  data[p].value >= 0
    <3>1. data[p].value >= 1 /\ data[p].value \in Int
      BY <2>1, <2>2, <1>0 DEF IInv, InvQueued, Records
    <3> QED BY <3>1
  <2>3. Switchable(lists, state, data, current, processes)
    BY <1>0, <2>1, <2>2, IInvSwitchable
  <2> QED BY <2>3, RescheduleKeeps
<1>c. /\ UNCHANGED <<phase, processes, next_pid, data, keys, was, exposed>>
      /\ pc' = [pc EXCEPT ![current] = AfterCall(current)]
      /\ Becomes(r) /\ r.current = current'
      /\ \/ /\ r.current = current /\ ctx' = ctx
            /\ iflag' = was[current] /\ enabled' = was[current]
         \/ ResumedWith(r.current) /\ ctx' = [ctx EXCEPT ![current] = "call"]
  BY DEF Reschedule, Becomes, Goto
<1> HIDE DEF r
<1>2. /\ ListsSound' /\ RunningIsCurrent' /\ InvQueued'
      /\ lists' \in [Queues -> Seq(Pids)] /\ state' \in [Pids -> States]
      /\ current' \in processes
      /\ \A p \in Pids : p \in processes <=> state'[p] # "empty"
      /\ \A p \in Pids :
           /\ state'[p] \in Suspended => state[p] = state'[p]
           /\ state[p] \in {"waiting", "blocked"} => state'[p] = state[p]
           /\ state[p] = "sleeping" /\ state'[p] # "sleeping" => data[p].value < 0
  BY <1>1, <1>c, SwitchedLists
<1>3. current' \in Pids /\ iflag' = TRUE /\ enabled' = TRUE
  BY <1>0, <1>2, <1>c, ResumedOn DEF TypeOK
<1>x. /\ ctx' \in [Pids -> Contexts]
      /\ \A p \in Pids : ctx'[p] = "call" => ctx[p] = "call" \/ p = current
  BY <1>0, <1>c DEF TypeOK, Contexts
<1>p. /\ pc' \in [Pids -> ProgramPoints]
      /\ \A p \in Pids \ {current} : pc'[p] = pc[p]
      /\ pc'[current] \in {"pop", "task"}
      /\ pc'[current] = "pop" <=> data[current].type = "io"
  BY <1>0, <1>c DEF TypeOK, AfterCall, ProgramPoints
<1>4. TypeOK'
  BY <1>0, <1>2, <1>3, <1>c, <1>x, <1>p DEF TypeOK
<1>5. InvPids' /\ InvBoot'
  BY <1>0, <1>2, <1>3, <1>c, PidFacts DEF IInv, InvPids, InvBoot
<1>6. InvRoles'
  <2>1. current # Idle /\ (data[current].type = "io" => current = Terminal)
    BY <1>0 DEF IInv, InvRoles
  <2> QED BY <1>0, <1>2, <1>c, <1>p, <2>1 DEF IInv, InvRoles, Suspended
<1>7. InvData'
  BY <1>0, <1>2, <1>c DEF IInv, InvData, Suspended
<1>8. InvKeys'
  BY <1>0, <1>2, <1>c, <1>p DEF IInv, InvKeys
<1>9. InvFlags'
  BY <1>0, <1>3, <1>c, <1>x, <1>p DEF IInv, InvFlags
<1> QED BY <1>2, <1>4, <1>5, <1>6, <1>7, <1>8, <1>9 DEF IInv

\* What reschedule is entered with when a process ends.
LEMMA ExitSwitchable ==
  ASSUME IInv, Exit,
         NEW waiters, waiters = Waiters,
         NEW woken, woken = MoveToBack(lists, "waiting", "ready", waiters),
         NEW erased, erased = WithState(WithState(state, waiters, "ready"),
                                        {current}, "empty")
  PROVE  /\ Switchable(woken, erased, data, nullptr, processes \ {current})
         /\ erased = [p \in Pids |-> IF p = current THEN "empty"
                                     ELSE IF p \in waiters THEN "ready" ELSE state[p]]
PROOF
<1>0. /\ TypeOK /\ phase = "running" /\ ~exposed /\ pc[current] = "exit"
      /\ current \in Pids /\ Idle \in Pids /\ Terminal # Idle /\ Terminal \in Pids
      /\ current # Terminal /\ current # Idle /\ nullptr \notin Pids
  BY PidFacts DEF IInv, InvBoot, InvRoles, Exit, At, TypeOK
<1>q. /\ Queues = {"ready", "sleeping", "waiting", "blocked"}
      /\ Suspended = {"sleeping", "waiting", "blocked"}
      /\ "ready" \in States /\ "empty" \in States
  BY DEF Queues, Suspended, States
<1>s. \A q \in Queues :
         IsInjective(lists[q]) /\ \A p \in ToSet(lists[q]) : p \in processes /\ state[p] = q
  BY DEF IInv, ListsSound
<1>t. lists \in [Queues -> Seq(Pids)] /\ state \in [Pids -> States] /\ processes \subseteq Pids
  BY <1>0 DEF TypeOK
<1>w. /\ waiters \subseteq ToSet(lists["waiting"]) /\ waiters \subseteq processes
      /\ \A p \in waiters : state[p] = "waiting"
  BY <1>s, <1>q DEF Waiters
<1>e. erased = [p \in Pids |-> IF p = current THEN "empty"
                               ELSE IF p \in waiters THEN "ready" ELSE state[p]]
  BY DEF WithState
<1>f. \A p \in Pids : erased[p] = IF p = current THEN "empty"
                                  ELSE IF p \in waiters THEN "ready" ELSE state[p]
  BY <1>e
<1>c. \A q \in Queues : current \notin ToSet(lists[q])
  <2>1. state[current] \notin Suspended /\ current \notin ToSet(lists["ready"])
    BY <1>0 DEF IInv, InvQueued
  <2> QED BY <2>1, <1>s, <1>q
<1>n. current \notin waiters
  BY <1>c, <1>w, <1>q
<1>1. /\ woken \in [Queues -> Seq(Pids)]
      /\ ToSet(woken["waiting"]) = ToSet(lists["waiting"]) \ waiters
      /\ ToSet(woken["ready"]) = ToSet(lists["ready"]) \cup waiters
      /\ \A q \in {"sleeping", "blocked"} : woken[q] = lists[q]
      /\ \A q \in Queues : IsInjective(woken[q])
  <2> DEFINE back == lists["ready"] \o Picked(lists["waiting"], waiters)
             kept == Kept(lists["waiting"], waiters)
  <2>1. woken = [lists EXCEPT !["waiting"] = kept, !["ready"] = back]
    BY DEF MoveToBack
  <2>2. lists["waiting"] \in Seq(Pids) /\ lists["ready"] \in Seq(Pids)
    BY <1>q, <1>t
  <2>3. /\ kept \in Seq(Pids) /\ ToSet(kept) = ToSet(lists["waiting"]) \ waiters
        /\ IsInjective(lists["waiting"]) => IsInjective(kept)
    BY <2>2, KeptElements
  <2>4. /\ back \in Seq(Pids)
        /\ ToSet(back) = ToSet(lists["ready"]) \cup (ToSet(lists["waiting"]) \cap waiters)
        /\ IsInjective(lists["waiting"]) /\ IsInjective(lists["ready"])
           /\ ToSet(lists["waiting"]) \cap ToSet(lists["ready"]) = {}
           => IsInjective(back)
    BY <2>2, MoveElements
  <2>5. ToSet(lists["waiting"]) \cap ToSet(lists["ready"]) = {}
    BY <1>s, <1>q
  <2> HIDE DEF back, kept
  <2>6. /\ woken["waiting"] = kept /\ woken["ready"] = back
        /\ \A q \in {"sleeping", "blocked"} : woken[q] = lists[q]
        /\ woken \in [Queues -> Seq(Pids)]
    <3>1. kept \in Seq(Pids) /\ back \in Seq(Pids)
      BY <2>3, <2>4
    <3> QED BY <2>1, <3>1, <1>q, <1>t
  <2>7. IsInjective(kept) /\ IsInjective(back)
    BY <2>3, <2>4, <2>5, <1>s, <1>q
  <2> QED BY <2>3, <2>4, <2>6, <2>7, <1>s, <1>q, <1>w
<1> DEFINE ps == processes \ {current}
<1>2. erased \in [Pids -> States] /\ ps \subseteq Pids /\ nullptr \in ps \cup {nullptr}
  BY <1>e, <1>t, <1>q
<1>3. \A q \in Queues : \A p \in ToSet(woken[q]) : p \in ps /\ erased[p] = q
  <2>1. ASSUME NEW p \in ToSet(woken["ready"]) PROVE p \in ps /\ erased[p] = "ready"
    <3>1. CASE p \in waiters
      <4>1. p \in processes /\ p \in Pids /\ p # current
        BY <3>1, <1>w, <1>n, <1>t
      <4> QED BY <4>1, <3>1, <1>f
    <3>2. CASE p \notin waiters
      <4>1. p \in ToSet(lists["ready"])
        BY <3>2, <2>1, <1>1
      <4>2. p \in processes /\ p \in Pids /\ state[p] = "ready" /\ p # current
        BY <4>1, <1>s, <1>q, <1>c, <1>t
      <4> QED BY <4>2, <3>2, <1>f
    <3> QED BY <3>1, <3>2
  <2>2. ASSUME NEW q \in {"sleeping", "waiting", "blocked"}, NEW p \in ToSet(woken[q])
        PROVE  p \in ps /\ erased[p] = q
    <3>1. p \in ToSet(lists[q]) /\ p \notin waiters
      <4>1. CASE q = "waiting"
        BY <4>1, <2>2, <1>1
      <4>2. CASE q # "waiting"
        <5>1. q \in {"sleeping", "blocked"} /\ q \in Queues
          BY <4>2, <2>2, <1>q
        <5>2. p \in ToSet(lists[q])
          BY <5>1, <2>2, <1>1
        <5>3. state[p] # "waiting"
          BY <5>1, <5>2, <4>2, <1>s
        <5> QED BY <5>2, <5>3, <1>w
      <4> QED BY <4>1, <4>2
    <3> QED BY <3>1, <2>2, <1>s, <1>q, <1>c, <1>f, <1>t
  <2> QED BY <2>1, <2>2, <1>q
<1>4. \A p \in Pids : erased[p] = "running" => p = nullptr
  <2>1. \A p \in Pids : state[p] = "running" => p = current
    BY DEF IInv, RunningIsCurrent
  <2> QED BY <2>1, <1>f
<1>5. \A p \in Pids : p \in ps <=> erased[p] # "empty"
  <2>1. \A p \in Pids : p \in processes <=> state[p] # "empty"
    BY DEF IInv, InvPids
  <2> QED BY <2>1, <1>f, <1>w
<1>6. \A p \in ps : erased[p] \in Suspended => p \in ToSet(woken[erased[p]])
  <2> SUFFICES ASSUME NEW p \in ps, erased[p] \in Suspended
               PROVE  p \in ToSet(woken[erased[p]])
    OBVIOUS
  <2>1. p \in Pids /\ p \in processes /\ p \notin waiters /\ erased[p] = state[p]
    BY <1>f, <1>q, <1>t
  <2>2. p \in ToSet(lists[state[p]])
    BY <2>1 DEF IInv, InvQueued
  <2> QED BY <2>1, <2>2, <1>1, <1>q
<1>7. erased[Terminal] # "sleeping" /\ Idle \in ps /\ erased[Idle] \notin Suspended
  <2>1. state[Terminal] # "sleeping" /\ state[Idle] \notin Suspended
    BY DEF IInv, InvRoles
  <2>2. Idle \in processes
    BY <1>0, PidAssumption DEF IInv, InvPids, TypeOK, Idle, Pids
  <2> QED BY <2>1, <2>2, <1>0, <1>f, <1>q
<1>8. \A p \in ps \ {Terminal} : erased[p] = "ready" => p \in ToSet(woken["ready"])
  <2> SUFFICES ASSUME NEW p \in ps \ {Terminal}, erased[p] = "ready"
               PROVE  p \in ToSet(woken["ready"])
    OBVIOUS
  <2>1. CASE p \in waiters
    BY <2>1, <1>1
  <2>2. CASE p \notin waiters
    <3>1. state[p] = "ready" /\ p # current /\ p \in processes
      BY <2>2, <1>f, <1>t
    <3>2. p \in ToSet(lists["ready"])
      BY <3>1 DEF IInv, InvQueued
    <3> QED BY <3>2, <1>1
  <2> QED BY <2>1, <2>2
<1>9. data \in [Pids -> Records] /\ nullptr \notin ps
  BY <1>0, <1>t DEF TypeOK, Records
<1> HIDE DEF ps
<1>10. \A q \in Queues :
         IsInjective(woken[q]) /\ \A p \in ToSet(woken[q]) : p \in ps /\ erased[p] = q
  BY <1>1, <1>3
<1>11. \A p \in ps \ {Terminal} :
          /\ p = nullptr => erased[p] # "ready"
          /\ p # nullptr /\ erased[p] = "ready" => p \in ToSet(woken["ready"])
          /\ p = nullptr /\ erased[p] = "sleeping" => data[p].value >= 0
  BY <1>8, <1>9
<1>12. woken \in [Queues -> Seq(Pids)]
  BY <1>1
<1>13. Switchable(woken, erased, data, nullptr, ps)
  BY <1>12, <1>2, <1>10, <1>4, <1>5, <1>6, <1>7, <1>11, <1>9, Zenon DEF Switchable
<1> QED BY <1>13, <1>e DEF ps

LEMMA ExitIInv ==
  ASSUME IInv, Exit
  PROVE  /\ IInv'
         /\ \A p \in processes : state[p] = "waiting" /\ data[p].value = current
                                 => state'[p] # "waiting"
PROOF
<1> DEFINE waiters == Waiters
           woken == MoveToBack(lists, "waiting", "ready", waiters)
           erased == WithState(WithState(state, waiters, "ready"), {current}, "empty")
           r == Rescheduled(woken, erased, data, nullptr)
<1>0. /\ TypeOK /\ phase = "running" /\ ~exposed /\ pc[current] = "exit"
      /\ current \in Pids /\ Idle \in Pids /\ Terminal # Idle /\ Terminal \in Pids
      /\ current # Terminal /\ current # Idle
  BY PidFacts DEF IInv, InvBoot, InvRoles, Exit, At, TypeOK
<1>c. /\ UNCHANGED <<phase, next_pid, keys, ctx, was, exposed>>
      /\ processes' = processes \ {current}
      /\ data' = [data EXCEPT ![current] = Unset]
      /\ pc' = [pc EXCEPT ![current] = "task"]
      /\ Becomes(r) /\ r.current = current' /\ ResumedWith(r.current)
  BY DEF Exit, Becomes, Goto
<1>1. /\ Switchable(woken, erased, data, nullptr, processes \ {current})
      /\ erased = [p \in Pids |-> IF p = current THEN "empty"
                                  ELSE IF p \in waiters THEN "ready" ELSE state[p]]
  BY ExitSwitchable
<1>w. \A p \in Pids : p \in waiters <=> /\ p \in ToSet(lists["waiting"])
                                        /\ state[p] = "waiting" /\ data[p].value = current
  BY DEF Waiters
<1> HIDE DEF waiters, woken, erased
<1>2. Switched(r, erased, data, nullptr, processes \ {current})
  BY <1>1, RescheduleKeeps
<1> HIDE DEF r
<1>3. /\ ListsSound' /\ RunningIsCurrent' /\ InvQueued'
      /\ lists' \in [Queues -> Seq(Pids)] /\ state' \in [Pids -> States]
      /\ current' \in processes'
      /\ \A p \in Pids : p \in processes' <=> state'[p] # "empty"
      /\ \A p \in Pids :
           /\ state'[p] \in Suspended => erased[p] = state'[p]
           /\ erased[p] \in {"waiting", "blocked"} => state'[p] = erased[p]
           /\ erased[p] = "sleeping" /\ state'[p] # "sleeping" => data[p].value < 0
  BY <1>2, <1>c, SwitchedLists
<1>f. \A p \in Pids : erased[p] = IF p = current THEN "empty"
                                  ELSE IF p \in waiters THEN "ready" ELSE state[p]
  BY <1>1
<1>4. current' \in Pids /\ iflag' = TRUE /\ enabled' = TRUE
  BY <1>0, <1>3, <1>c, ResumedOn DEF TypeOK
<1>d. /\ data' \in [Pids -> Records]
      /\ \A p \in Pids \ {current} : data'[p] = data[p]
      /\ data'[current].type = "none"
  <2>1. Unset \in Records
    BY DEF Unset, Records, DataTypes
  <2>2. data \in [Pids -> Records]
    BY <1>0 DEF TypeOK, Records
  <2> QED BY <2>1, <2>2, <1>0, <1>c DEF Unset
<1>p. /\ pc' \in [Pids -> ProgramPoints]
      /\ \A p \in Pids \ {current} : pc'[p] = pc[p]
      /\ pc'[current] = "task"
  BY <1>0, <1>c DEF TypeOK, ProgramPoints
<1>5. TypeOK'
  BY <1>0, <1>3, <1>4, <1>c, <1>d, <1>p DEF TypeOK, Records
<1>6. InvPids' /\ InvBoot'
  BY <1>0, <1>3, <1>4, <1>c, PidFacts DEF IInv, InvPids, InvBoot
<1>g. \A p \in Pids : state'[p] \in Suspended => state[p] = state'[p] /\ p # current
  BY <1>3, <1>f DEF Suspended
<1>7. InvRoles'
  BY <1>0, <1>c, <1>d, <1>p, <1>g DEF IInv, InvRoles, Suspended
<1>8. InvData'
  <2> SUFFICES ASSUME NEW p \in Pids
               PROVE  /\ state'[p] = "sleeping" => data'[p].type = "sleep"
                      /\ state'[p] = "waiting" => data'[p].type = "waiting"
                      /\ state'[p] = "blocked" => data'[p].type = "io"
                      /\ data'[p].type = "sleep" /\ state'[p] # "sleeping" =>
                            data'[p].value < 0
                      /\ data'[p].type = "waiting" => data'[p].value < next_pid
                      /\ data'[p].type = "waiting" /\ state'[p] # "waiting" =>
                            data'[p].value \notin processes'
    BY <1>c DEF InvData
  <2>1. CASE p = current
    BY <2>1, <1>d, <1>g DEF Suspended
  <2>2. CASE p # current
    <3>1. data'[p] = data[p]
      BY <2>2, <1>d
    <3>2. data[p].type = "sleep" /\ state'[p] # "sleeping" => data[p].value < 0
      <4>1. erased[p] # "sleeping" => state[p] # "sleeping"
        BY <2>2, <1>f, <1>w
      <4> QED BY <4>1, <1>3 DEF IInv, InvData
    <3>3. data[p].type = "waiting" /\ state'[p] # "waiting" => data[p].value \notin processes'
      <4>1. erased[p] # "waiting"
            => state[p] # "waiting" \/ data[p].value = current
        BY <2>2, <1>f, <1>w
      <4> QED BY <4>1, <1>3, <1>c DEF IInv, InvData
    <3> QED BY <3>1, <3>2, <3>3, <1>g DEF IInv, InvData, Suspended
  <2> QED BY <2>1, <2>2
<1>9. InvKeys'
  <2>1. state[Terminal] = "blocked" => state'[Terminal] = "blocked"
    BY <1>0, <1>3, <1>f, <1>w
  <2> QED BY <2>1, <1>0, <1>c, <1>d, <1>p DEF IInv, InvKeys
<1>10. InvFlags'
  BY <1>0, <1>4, <1>c, <1>p DEF IInv, InvFlags
<1>11. ASSUME NEW p \in processes, state[p] = "waiting", data[p].value = current
       PROVE  state'[p] # "waiting"
  <2>1. p \in ToSet(lists["waiting"]) /\ p \in Pids
    BY <1>0, <1>11 DEF IInv, InvQueued, Suspended, TypeOK
  <2>2. erased[p] # "waiting"
    BY <2>1, <1>11, <1>f, <1>w
  <2> QED BY <2>1, <2>2, <1>3 DEF Suspended
<1> QED BY <1>3, <1>5, <1>6, <1>7, <1>8, <1>9, <1>10, <1>11 DEF IInv

----------------------------------------------------------------------------
(* The theorems.                                                           *)

\* Every step of the kernel preserves the inductive invariant.
LEMMA StepIInv == ASSUME IInv, [Next]_vars PROVE IInv'
PROOF
<1>1. CASE CommandLineInit \/ SchedulerInit
  BY <1>1, NewProcessIInv DEF CommandLineInit, SchedulerInit
<1>2. CASE Create
  BY <1>2, NewProcessIInv DEF Create
<1>3. CASE FirstReschedule
  BY <1>3, FirstRescheduleIInv
<1>4. CASE Tick
  BY <1>4, TickIInv
<1>5. CASE Key
  BY <1>5, KeyIInv
<1>6. CASE PullKey \/ PopKey \/ HandleKey
  BY <1>6, PullKeyIInv, PopKeyIInv, HandleKeyIInv
<1>7. CASE EnterBlock \/ EnterCreate \/ EnterWait \/ EnterSleep \/ EnterExit
  BY <1>7, EnterSectionIInv
<1>8. CASE Block \/ Sleep \/ Wait
  BY <1>8, SuspendersIInv
<1>9. CASE EnterReschedule
  BY <1>9, EnterRescheduleIInv
<1>10. CASE Reschedule
  BY <1>10, RescheduleIInv
<1>11. CASE Exit
  BY <1>11, ExitIInv
<1>12. CASE HeapUnmasks
  BY <1>12, HeapUnmasksIInv
<1>13. CASE Unfollowed \/ UNCHANGED vars
  BY <1>13, StutterIInv DEF Unfollowed
<1> QED BY <1>1, <1>2, <1>3, <1>4, <1>5, <1>6, <1>7, <1>8, <1>9, <1>10, <1>11,
           <1>12, <1>13 DEF Next, Boot, Proceed, Choose

\* The inductive invariant holds in every state before exposure (HeapUnmasks, where
\* the executions of Spec end), and so does what follows from it.
THEOREM Invariance == Spec => []IInv
PROOF
<1>1. Init => IInv
  BY InitIInv
<1>2. IInv /\ [Next]_vars => IInv'
  BY StepIInv
<1> QED BY <1>1, <1>2, PTL DEF Spec

\* Every variable keeps its type: pids, queues, the key buffer and the
\* interrupt flags stay in their ranges.
THEOREM TypeCorrect == Spec => []TypeOK
PROOF
<1>1. IInv => TypeOK
  BY DEF IInv
<1> QED BY <1>1, Invariance, PTL

\* Before exposure, move_to_if, push and pop keep every process in at most one
\* list, at most once, and delete leaves no list with a dead process.
THEOREM ListsStaySound == Spec => []ListsSound
PROOF
<1>1. IInv => ListsSound
  BY DEF IInv
<1> QED BY <1>1, Invariance, PTL

\* The assertions of process_starter: whoever is on the CPU exists, and only
\* it is running.
THEOREM CurrentRuns == Spec => []RunningIsCurrent
PROOF
<1>1. IInv => RunningIsCurrent
  BY DEF IInv
<1> QED BY <1>1, Invariance, PTL

\* From its creation on, the idle process is on the CPU or ready in the list.
THEOREM IdleStaysRunnable == Spec => []IdleRunnable
PROOF
<1>1. ASSUME IInv PROVE IdleRunnable
  <2>1. phase = "running" => current # nullptr
    BY <1>1 DEF IInv, InvBoot
  <2>2. ASSUME Idle \in processes, current # Idle PROVE Idle \in ToSet(lists["ready"])
    <3>1. Idle \in Pids /\ Idle # Terminal
      BY PidFacts
    <3>2. state[Idle] = "ready"
      BY <1>1, <2>2, <3>1
      DEF IInv, TypeOK, InvPids, InvRoles, RunningIsCurrent, States, Suspended
    <3> QED BY <1>1, <2>2, <3>1, <3>2 DEF IInv, InvQueued
  <2> QED BY <2>1, <2>2 DEF IdleRunnable
<1> QED BY <1>1, Invariance, PTL

\* pull_key never takes the value of an empty optional after it was blocked.
THEOREM PullFindsAKey == Spec => []PullNeverEmpty
PROOF
<1>1. ASSUME IInv, At("pop") PROVE keys > 0
  <2>1. current = Terminal /\ state[current] # "blocked"
    <3>1. current \in Pids
      BY <1>1 DEF IInv, TypeOK, At
    <3>2. current = Terminal
      BY <1>1, <3>1 DEF IInv, InvRoles, At
    <3> QED BY <1>1, <3>2 DEF IInv, InvQueued, Suspended, At
  <2> QED BY <1>1, <2>1 DEF IInv, InvKeys, At
<1>2. IInv => PullNeverEmpty
  BY <1>1 DEF PullNeverEmpty
<1> QED BY <1>2, Invariance, PTL

\* Before exposure, no process but the keyboard's reader can be missing from its
\* list.
THEOREM NonReadersKept == Spec => []NonReadersNeverLost
PROOF
<1>1. ASSUME IInv, NEW p \in processes \ {Terminal}, p # current
      PROVE  state[p] \in Queues /\ p \in ToSet(lists[state[p]])
  <2>1. p \in Pids /\ state[p] \in States /\ state[p] # "empty" /\ state[p] # "running"
    BY <1>1 DEF IInv, TypeOK, InvPids, RunningIsCurrent
  <2>2. state[p] \in Suspended \cup {"ready"}
    BY <2>1 DEF States, Suspended
  <2> QED BY <1>1, <2>2 DEF IInv, InvQueued, Queues, Suspended
<1>2. IInv => NonReadersNeverLost
  BY <1>1 DEF NonReadersNeverLost
<1> QED BY <1>2, Invariance, PTL

\* Interrupts are off during boot and on wherever a process can be
\* interrupted, however locks and context switches have been nested.
THEOREM InterruptsStayRestored == Spec => []InterruptsRestored
PROOF
<1>1. IInv => InterruptsRestored
  BY DEF IInv, InvFlags, InterruptsRestored
<1> QED BY <1>1, Invariance, PTL

\* A process whose last sleep was sleep_ms(t) runs its own code again only
\* after more than t ticks.
THEOREM SleepLastsLongEnough == Spec => []SleepReturnsLate
PROOF
<1>1. ASSUME IInv, At("task"), data[current].type = "sleep"
      PROVE  data[current].value < 0
  <2>1. current \in Pids /\ state[current] \notin Suspended
    BY <1>1 DEF IInv, TypeOK, InvQueued, At
  <2> QED BY <1>1, <2>1 DEF IInv, InvData, Suspended
<1>2. IInv => SleepReturnsLate
  BY <1>1 DEF SleepReturnsLate
<1> QED BY <1>2, Invariance, PTL

\* A process that called wait_for(pid) goes on only when pid is deleted.
THEOREM WaitLastsToExit == Spec => []WaitReturnsAfterExit
PROOF
<1>1. ASSUME IInv, At("task") \/ At("handle"), data[current].type = "waiting"
      PROVE  data[current].value \notin processes
  <2>1. current \in Pids /\ state[current] \notin Suspended
    BY <1>1 DEF IInv, TypeOK, InvQueued, At
  <2> QED BY <1>1, <2>1 DEF IInv, InvData, Suspended
<1>2. IInv => WaitReturnsAfterExit
  BY <1>1 DEF WaitReturnsAfterExit
<1> QED BY <1>2, Invariance, PTL

\* The step that deletes a process makes ready everything waiting for it.
THEOREM ExitsWake == Spec => ExitWakesWaiters
PROOF
<1> DEFINE Wakes == \A p \in processes :
                       state[p] = "waiting" /\ data[p].value \in processes \ processes'
                       => state'[p] # "waiting"
<1>1. ASSUME IInv, Next PROVE Wakes
  <2>1. CASE Exit
    <3>1. processes \ processes' \subseteq {current}
      BY <2>1 DEF Exit
    <3> QED BY <1>1, <2>1, <3>1, ExitIInv
  <2>2. CASE ~Exit
    <3>1. processes \subseteq processes'
      BY <1>1, <2>2
      DEF Next, Boot, Proceed, Choose, CommandLineInit, SchedulerInit, FirstReschedule,
          NewProcess, Tick, Key, PullKey, EnterBlock, PopKey, Create, EnterWait, Block,
          Sleep, Wait, Suspend, EnterReschedule, Reschedule, HandleKey, EnterCreate,
          EnterSleep, EnterExit, Enter, HeapUnmasks, Unfollowed, vars
    <3> QED BY <3>1
  <2> QED BY <2>1, <2>2
<1>2. IInv /\ [Next]_vars => [Wakes]_vars
  BY <1>1
<1> HIDE DEF Wakes
<1>3. Spec => [][Wakes]_vars
  BY <1>2, Invariance, PTL DEF Spec
<1> QED BY <1>3 DEF ExitWakesWaiters, Wakes
==============================================================================
