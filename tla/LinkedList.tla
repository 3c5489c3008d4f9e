----------------------------- MODULE LinkedList -----------------------------
(***************************************************************************)
(* hlib::list as the scheduler uses it: doubly linked nodes, a stack of    *)
(* erased nodes for the lists that keep them, and erase_if, whose callback *)
(* pushes what it erases to another list (move_to_if).                     *)
(*                                                                         *)
(* The scheduler calls the lists with interrupts masked, so an operation   *)
(* is one step; erase_if is one step per test and per erased node, since   *)
(* what matters is what its iterator points to in between.                 *)
(***************************************************************************)
EXTENDS ProcessLists

CONSTANTS
    Nodes,     \* addresses the heap has for nodes
    Values,    \* what the lists hold: processes
    Lists,     \* the lists
    Storing,   \* the lists declared with StoreErased
    null,      \* nullptr
    deleted,   \* what is found in a node that was given back to the heap
    nowhere    \* erase_if without a list to move to

ASSUME ListsAssumption == Storing \subseteq Lists /\ nowhere \notin Lists
ASSUME NodesAssumption ==
    null \notin Nodes /\ deleted \notin Nodes /\ null # deleted

VARIABLES
    head, tail, free,   \* head_, tail_ and free_ of each list
    next, prev, value,  \* the fields of each node
    unused,             \* the nodes the heap has not handed out
    pc, job, it,        \* the erase_if in progress: its arguments, iterator
    order, spare        \* history: the nodes of each list and of its free_

pointers == <<head, tail, free, next, prev, value, unused>>
vars == <<pointers, pc, job, it, order, spare>>

Jobs == [from : Lists, to : Lists \cup {nowhere}, front : BOOLEAN,
         picks : SUBSET Values]

ASSUME JobsAssumption == null \notin Jobs

TypeOK ==
    /\ head \in [Lists -> Nodes \cup {null}]
    /\ tail \in [Lists -> Nodes \cup {null}]
    /\ free \in [Lists -> Nodes \cup {null}]
    /\ next \in [Nodes -> Nodes \cup {null, deleted}]
    /\ prev \in [Nodes -> Nodes \cup {null, deleted}]
    /\ value \in [Nodes -> Values \cup {deleted}]
    /\ unused \subseteq Nodes
    /\ pc \in {"idle", "test", "erase"} /\ it \in Nodes \cup {null}
    /\ job \in Jobs \cup {null} /\ (pc = "idle" <=> job = null)
    /\ order \in [Lists -> Seq(Nodes)] /\ spare \in [Lists -> Seq(Nodes)]

Init ==
    /\ head = [l \in Lists |-> null] /\ tail = [l \in Lists |-> null]
    /\ free = [l \in Lists |-> null]
    /\ next = [n \in Nodes |-> deleted] /\ prev = [n \in Nodes |-> deleted]
    /\ value = [n \in Nodes |-> deleted]
    /\ unused = Nodes
    /\ pc = "idle" /\ job = null /\ it = null
    /\ order = [l \in Lists |-> <<>>] /\ spare = [l \in Lists |-> <<>>]

----------------------------------------------------------------------------
(* The member functions.                                                   *)

\* The nodes get_free_node can return: the last one erased, or a new one.
AlwaysNew(l) == unused   \* mutant: the erased nodes are never used again
get_free_node(l) ==
    IF l \in Storing /\ free[l] # null THEN {free[l]} ELSE unused

\* What taking n leaves of free_ and of the heap.
Take(l, n) ==
    /\ free' = IF n \in unused THEN free ELSE [free EXCEPT ![l] = next[n]]
    /\ spare' = IF n \in unused THEN spare ELSE [spare EXCEPT ![l] = Tail(@)]
    /\ unused' = unused \ {n}

push_back(l, v) ==
    \E n \in get_free_node(l) :
        /\ Take(l, n)
        /\ value' = [value EXCEPT ![n] = v]
        /\ prev' = [prev EXCEPT ![n] = tail[l]]
        /\ next' = [m \in Nodes |->
               IF m = n THEN null ELSE IF m = tail[l] THEN n ELSE next[m]]
        /\ head' = IF tail[l] = null THEN [head EXCEPT ![l] = n] ELSE head
        /\ tail' = [tail EXCEPT ![l] = n]
        /\ order' = [order EXCEPT ![l] = Append(@, n)]

push_front(l, v) ==
    \E n \in get_free_node(l) :
        /\ Take(l, n)
        /\ value' = [value EXCEPT ![n] = v]
        /\ next' = [next EXCEPT ![n] = head[l]]
        /\ prev' = [m \in Nodes |->
               IF m = n THEN null ELSE IF m = head[l] THEN n ELSE prev[m]]
        /\ tail' = IF head[l] = null THEN [tail EXCEPT ![l] = n] ELSE tail
        /\ head' = [head EXCEPT ![l] = n]
        /\ order' = [order EXCEPT ![l] = <<n>> \o @]

tail_after(l, n) == IF n = tail[l] THEN prev[n] ELSE tail[l]

\* A node that is not stored is deleted: the heap may do with it what it likes.
erase(l, n) ==
    /\ head' = IF n = head[l] THEN [head EXCEPT ![l] = next[n]] ELSE head
    /\ tail' = [tail EXCEPT ![l] = tail_after(l, n)]
    /\ next' = [m \in Nodes |->
           IF m = n THEN IF l \in Storing THEN free[l] ELSE deleted
           ELSE IF m = prev[n] THEN next[n] ELSE next[m]]
    /\ prev' = [m \in Nodes |->
           IF m = n THEN IF l \in Storing THEN null ELSE deleted
           ELSE IF m = next[n] THEN prev[n] ELSE prev[m]]
    /\ order' = [order EXCEPT ![l] = RemoveFirst(@, n)]
    /\ IF l \in Storing
         THEN /\ free' = [free EXCEPT ![l] = n]
              /\ spare' = [spare EXCEPT ![l] = <<n>> \o @]
              /\ UNCHANGED <<unused, value>>
         ELSE /\ unused' = unused \cup {n}
              /\ value' = [value EXCEPT ![n] = deleted]
              /\ UNCHANGED <<free, spare>>

end(l) == IF tail[l] = null THEN null ELSE next[tail[l]]

empty(l) == head[l] = null \/ tail[l] = null

----------------------------------------------------------------------------
(* What the scheduler does with them.                                      *)

\* A process is in the list of its state only, and once.
content(l) == [i \in DOMAIN order[l] |-> value[order[l][i]]]
Held(l) ==
    UNION {ToSet(content(k)) : k \in IF l \in Storing THEN Storing ELSE {l}}

\* create_process, block_current_process, sleep_ms, wait_for, reschedule.
PushBack(l, v) ==
    /\ pc = "idle" /\ v \notin Held(l)
    /\ push_back(l, v)
    /\ UNCHANGED <<pc, job, it>>

\* reschedule: never of an empty list.
PopFront(l) ==
    /\ pc = "idle" /\ l \in Storing /\ ~empty(l)
    /\ erase(l, head[l])
    /\ UNCHANGED <<pc, job, it>>

\* move_to_if from one state to another, or processes.erase_if.
erase_if(j) ==
    /\ pc = "idle"
    /\ \/ j.from \in Storing /\ j.to \in Storing \ {j.from}
       \/ j.from \notin Storing /\ j.to = nowhere
    /\ pc' = "test" /\ job' = j /\ it' = head[j.from]
    /\ UNCHANGED <<pointers, order, spare>>

\* The loop's test fails.
EraseIfEnds ==
    /\ pc = "test" /\ it = end(job.from)
    /\ pc' = "idle" /\ job' = null /\ it' = null
    /\ UNCHANGED <<pointers, order, spare>>

\* The callback says no.
Skip ==
    /\ pc = "test" /\ it # end(job.from) /\ value[it] \notin job.picks
    /\ it' = next[it]
    /\ UNCHANGED <<pointers, pc, job, order, spare>>

\* The callback says yes, after it has pushed the process.
Pick ==
    /\ pc = "test" /\ it # end(job.from) /\ value[it] \in job.picks
    /\ pc' = "erase"
    /\ \/ job.to = nowhere /\ UNCHANGED <<pointers, order, spare>>
       \/ job.to # nowhere /\ ~job.front /\ push_back(job.to, value[it])
       \/ job.to # nowhere /\ job.front /\ push_front(job.to, value[it])
    /\ UNCHANGED <<job, it>>

\* kheap::allocate halts when there is no memory for a node.
Halt ==
    /\ pc = "test" /\ it # end(job.from) /\ value[it] \in job.picks
    /\ job.to # nowhere /\ get_free_node(job.to) = {}
    /\ UNCHANGED vars

\* The iterator moves on before the node it was at is erased.
EraseStoredThenAdvance ==   \* mutant: only where the node is not deleted
    /\ pc = "erase" /\ erase(job.from, it)
    /\ it' = IF job.from \in Storing THEN next'[it] ELSE next[it]
    /\ pc' = "test" /\ UNCHANGED job
EraseAdvanceTwice ==   \* mutant: no continue
    /\ pc = "erase" /\ erase(job.from, it)
    /\ it' = IF next[it] = null THEN null ELSE next[next[it]]
    /\ pc' = "test" /\ UNCHANGED job
Erase ==
    /\ pc = "erase"
    /\ it' = next[it] /\ erase(job.from, it)
    /\ pc' = "test" /\ UNCHANGED job

Next ==
    \/ \E l \in Lists : PopFront(l) \/ \E v \in Values : PushBack(l, v)
    \/ \E j \in Jobs : erase_if(j)
    \/ EraseIfEnds \/ Skip \/ Pick \/ Halt \/ Erase

Spec == Init /\ [][Next]_vars

----------------------------------------------------------------------------
(* What holds of the nodes.                                                *)

\* The nodes from p on are the sequence s, linked by next.
IsChain(p, s) ==
    /\ p = IF s = <<>> THEN null ELSE s[1]
    /\ \A i \in DOMAIN s : next[s[i]] = IF i = Len(s) THEN null ELSE s[i + 1]

\* Walking a list forwards and backwards visits the same nodes, and both ends
\* are its ends: what erase leaves of the neighbours of the node it unlinks,
\* whichever of the four cases (first, last, only, inner) it is.
Linked ==
    \A l \in Lists :
        /\ IsChain(head[l], order[l])
        /\ tail[l] = IF order[l] = <<>> THEN null ELSE Last(order[l])
        /\ \A i \in DOMAIN order[l] :
               prev[order[l][i]] = IF i = 1 THEN null ELSE order[l][i - 1]

\* The erased nodes of a list are a stack that ends, and the lists that do not
\* store have none.
SparesLinked ==
    \A l \in Lists :
        /\ IsChain(free[l], spare[l])
        /\ l \notin Storing => spare[l] = <<>>

\* Every node is at one place: in the heap, in one list, or among the erased
\* nodes of one list.  No node is lost and none is used twice.
NodesAreKept ==
    LET places == [l \in Lists |-> order[l] \o spare[l]]
    IN  /\ \A l \in Lists : IsInjective(places[l])
        /\ \A l \in Lists : ToSet(places[l]) \cap unused = {}
        /\ \A l, k \in Lists : l # k => ToSet(places[l]) \cap ToSet(places[k]) = {}
        /\ unused \cup UNION {ToSet(places[l]) : l \in Lists} = Nodes

\* erase_if's iterator is in the list it walks, or past its end: it never
\* reads a node that was erased, be it stored or deleted.
IteratorStays ==
    /\ pc = "erase" => it \in ToSet(order[job.from]) /\ value[it] \in job.picks
    /\ pc = "test" => it = null \/ it \in ToSet(order[job.from])

\* The invariant of the nodes.
IInv == TypeOK /\ Linked /\ SparesLinked /\ NodesAreKept /\ IteratorStays

\* An erase_if that still has to visit rest will move what it picks of it.
rest ==
    LET s == content(job.from)
        I == {i \in DOMAIN s : order[job.from][i] = it}
    IN  IF I = {} THEN <<>>
        ELSE SubSeq(s, (CHOOSE i \in I : TRUE) + IF pc = "erase" THEN 1 ELSE 0, Len(s))

outcome ==
    LET s == content(job.from)
        visited == SubSeq(s, 1, Len(s) - Len(rest) - IF pc = "erase" THEN 1 ELSE 0)
        picked == Picked(rest, job.picks)
    IN  [l \in Lists |->
            IF l = job.from THEN visited \o Kept(rest, job.picks)
            ELSE IF l # job.to THEN content(l)
            ELSE IF job.front THEN Reverse(picked) \o content(l)
            ELSE content(l) \o picked]

\* The lists are the sequences the scheduler takes them for: move_to_if moves
\* exactly the processes its predicate accepts, in the order it should, and what
\* it will have moved is settled when it starts.
Sequences ==
    INSTANCE MovingLists WITH
        lists <- IF pc = "idle" THEN [l \in Lists |-> content(l)] ELSE outcome,
        moving <- pc # "idle"
AreSequences == Sequences!Spec

\* A state list asks the heap for a node only when all its nodes are in use:
\* moving processes between states does not use up memory.
SparesUsedFirst ==
    [][\A n \in unused \ unused' :
           \A l \in Storing : n \in ToSet(order'[l]) => spare[l] = <<>>]_vars
=============================================================================
