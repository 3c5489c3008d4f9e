------------------------------- MODULE Tasks -------------------------------
(***************************************************************************)
(* The processes of kernel.cpp that print: a timer (task) shows its clock  *)
(* at its own place and puts the cursor back, a sleeper (spanko) prints a  *)
(* line, sleeps and prints another.  They exclude each other with          *)
(* terminal_mutex, a spin lock, and can be preempted between any two calls.*)
(***************************************************************************)
EXTENDS Screen, FiniteSets, Functions

CONSTANTS
    Tasks,                  \* the processes that may be created
    InRow,                  \* places in a row (7)
    FirstColumn, Distance,  \* of the places (10, 10)
    nothing                 \* no place, no saved cursor

VARIABLES
    terminal_mutex,   \* its flag
    task_count,       \* timers that have taken a place
    calls,            \* what a process has yet to do, <<>> before it is created
    pos,              \* the number of a timer's place
    cursor_pos        \* the cursor a timer saved

task_vars == <<terminal_mutex, task_count, calls, pos, cursor_pos>>

Place(n) == <<FirstColumn + Distance * (n % InRow), n \div InRow>>

\* A place and a clock are in one row of the screen.  On the framebuffer that is
\* so for 259 timers; then rows end, and nothing in the code looks.
ASSUME PlacesFit ==
    /\ Tasks # {} /\ IsFiniteSet(Tasks) /\ nothing \notin Cells
    /\ \A n \in 0..(Cardinality(Tasks) - 1) :
           Place(n) \in Cells /\ Place(n)[1] + 1 \in Columns

\* task and the loop of task_base; spanko.
TakePlace == <<"load_count", "store_count">>
Round == <<"lock", "get_cursor_pos", "move_cursor", "print", "move_back",
           "unlock">>
SayInHalf ==   \* mutant: another task can come between a text and its new line
    <<"lock", "print", "unlock", "next_line">>
Say == <<"lock", "print", "next_line", "unlock">>

TasksTypeOK ==
    /\ terminal_mutex \in BOOLEAN
    /\ task_count \in 0..Cardinality(Tasks)
    /\ calls \in [Tasks -> Seq(Range(TakePlace \o Round \o Say) \cup {"end"})]
    /\ pos \in [Tasks -> 0..Cardinality(Tasks) \cup {nothing}]
    /\ cursor_pos \in [Tasks -> Cells \cup {nothing}]

TasksInit ==
    /\ terminal_mutex = FALSE /\ task_count = 0
    /\ calls = [t \in Tasks |-> <<>>]
    /\ pos = [t \in Tasks |-> nothing]
    /\ cursor_pos = [t \in Tasks |-> nothing]

\* create_process by the shell.
Create(t, program) ==
    /\ calls[t] = <<>>
    /\ calls' = [calls EXCEPT ![t] = program]
    /\ UNCHANGED <<terminal_mutex, task_count, pos, cursor_pos>>

Ended(t) == calls[t] = <<"end">>

----------------------------------------------------------------------------
(* The next call of t.                                                     *)

NextIs(t, call) == calls[t] # <<>> /\ Head(calls[t]) = call
Goes(t, call) ==
    NextIs(t, call) /\ calls' = [calls EXCEPT ![t] = Tail(@)]

\* task_count++ is a load and a store, with interrupts on.
LoadCount(t) ==
    /\ Goes(t, "load_count")
    /\ pos' = [pos EXCEPT ![t] = task_count]
    /\ UNCHANGED <<screen, terminal_mutex, task_count, cursor_pos>>

\* The build stores what was loaded plus one, or increments in memory.
StoreCount(t) ==
    /\ Goes(t, "store_count")
    /\ task_count' \in {pos[t] + 1, task_count + 1}
    /\ UNCHANGED <<screen, terminal_mutex, pos, cursor_pos>>

\* The test-and-set that finds the flag clear; the ones before it, and the sleep
\* before them, change nothing.
LockAnyway(t) ==   \* mutant: does not look at what the flag was
    /\ Goes(t, "lock")
    /\ terminal_mutex' = TRUE
    /\ UNCHANGED <<screen, task_count, pos, cursor_pos>>
Lock(t) ==
    /\ Goes(t, "lock")
    /\ ~terminal_mutex /\ terminal_mutex' = TRUE
    /\ UNCHANGED <<screen, task_count, pos, cursor_pos>>

\* A timer begins its next round.
Unlock(t) ==
    /\ NextIs(t, "unlock")
    /\ calls' = [calls EXCEPT ![t] = IF Len(@) = 1 THEN Round ELSE Tail(@)]
    /\ terminal_mutex' = FALSE
    /\ UNCHANGED <<screen, task_count, pos, cursor_pos>>

SaveCursor(t) ==
    /\ Goes(t, "get_cursor_pos")
    /\ cursor_pos' = [cursor_pos EXCEPT ![t] = screen.cursor]
    /\ UNCHANGED <<screen, terminal_mutex, task_count, pos>>

ToPlace(t) ==
    /\ Goes(t, "move_cursor") /\ MoveCursor(Place(pos[t]))
    /\ UNCHANGED <<terminal_mutex, task_count, pos, cursor_pos>>

\* A clock and a line are one character here.
Show(t) ==
    /\ Goes(t, "print") /\ PutChar(text)
    /\ UNCHANGED <<terminal_mutex, task_count, pos, cursor_pos>>

EndLine(t) ==
    /\ Goes(t, "next_line") /\ NextLine
    /\ UNCHANGED <<terminal_mutex, task_count, pos, cursor_pos>>

\* The saved cursor is not used again.
MoveBack(t) ==
    /\ Goes(t, "move_back") /\ MoveCursor(cursor_pos[t])
    /\ cursor_pos' = [cursor_pos EXCEPT ![t] = nothing]
    /\ UNCHANGED <<terminal_mutex, task_count, pos>>

TaskStep(t) ==
    \/ LoadCount(t) \/ StoreCount(t) \/ Lock(t) \/ Unlock(t)
    \/ SaveCursor(t) \/ ToPlace(t) \/ Show(t) \/ EndLine(t) \/ MoveBack(t)

\* The timers that have the cursor away from where it belongs.
Away == {t \in Tasks : cursor_pos[t] # nothing}
=============================================================================
