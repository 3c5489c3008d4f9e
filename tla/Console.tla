------------------------------ MODULE Console ------------------------------
(***************************************************************************)
(* The shell and the printing tasks on one screen.  The tasks hold         *)
(* terminal_mutex while they print, the shell never does: a task can be in *)
(* a call of the terminal while the shell is in one.  Executions are       *)
(* followed up to there (Overlap).                                         *)
(***************************************************************************)
EXTENDS CommandLine, Tasks

CONSTANT MaxMixed   \* bound: calls the shell makes while a timer has the cursor

ASSUME MixedAssumption == MaxMixed \in Nat

VARIABLES
    child,      \* the process the shell waits for
    mixed,      \* how many there were
    disturbed   \* history: another process printed in or below the line, or the
                \* shell itself while a timer had the cursor, or both at once

vars == <<shell_vars, task_vars, child, mixed, disturbed>>

TypeOK ==
    /\ OnScreen /\ ShellTypeOK /\ TasksTypeOK
    /\ child \in Tasks \cup {nothing}
    /\ mixed \in 0..MaxMixed /\ disturbed \in BOOLEAN

Init ==
    /\ ShellInit /\ TasksInit
    /\ child = nothing /\ mixed = 0 /\ disturbed = FALSE

\* Where the shell's next character belongs.
home == IF Away = {} THEN screen.cursor
        ELSE cursor_pos[CHOOSE t \in Away : TRUE]
LineCells == {<<Prompt + i, home[2]>> : i \in 0..(input_buffer_index - 1)}

\* A line starts with its prompt.
Starts == todo = print_prompt \o <<"clear_buffer">> /\ home[1] = 0

\* The processes not yet created; the user starts no more than Tasks.
Free == {t \in Tasks : calls[t] = <<>>}

\* The shell and the terminal.
ShellPrints ==
    /\ \/ \E key \in Key, state \in States : send_input(key, state)
       \/ Output \/ FinishBackspace
    /\ \/ /\ Away = {}
          /\ disturbed' = (disturbed /\ ~Starts) /\ UNCHANGED mixed
       \/ /\ Away # {} /\ mixed < MaxMixed
          /\ disturbed' = TRUE /\ mixed' = mixed + 1
    /\ Free = {} => Range(todo') \cap {"create_timer", "create_sleeper"} = {}
    /\ UNCHANGED <<task_vars, child>>

ShellFinishes == FinishLine /\ UNCHANGED <<task_vars, child, mixed, disturbed>>

\* rt, sleep and wait; the last one goes on with the pid it got.
ShellCreates ==
    /\ \E t \in Free :
           /\ \/ Doing("create_timer") /\ Create(t, TakePlace \o Round)
              \/ Doing("create_sleeper") /\ Create(t, Say \o Say \o <<"end">>)
           /\ child' = IF Head(todo') = "wait_for" THEN t ELSE child
    /\ UNCHANGED <<screen, buffer_vars, off, mixed, disturbed>>

\* What happens when the child has ended before the wait is in Scheduler.
ShellWaits ==
    /\ Doing("wait_for")
    /\ Ended(child) /\ child' = nothing
    /\ UNCHANGED <<screen, buffer_vars, off, task_vars, mixed, disturbed>>

InLine(t) ==
    \/ NextIs(t, "next_line")
    \/ /\ NextIs(t, "print")
       /\ pos[t] = nothing \/ screen.cursor \in LineCells

TaskRuns(t) ==
    /\ ~off /\ TaskStep(t)
    /\ disturbed' = (disturbed \/ InLine(t))
    /\ UNCHANGED <<buffer_vars, todo, off, child, mixed>>

\* Who is at a call of the terminal, before it or in it.  There may be a key for
\* the shell whenever it has nothing to do.
Calling == {t \in Tasks : \E call \in {"get_cursor_pos", "move_cursor", "print",
                                      "next_line", "move_back"} : NextIs(t, call)}
ShellCalling ==
    todo # <<>> => Head(todo) \in {"text", "next_line", "clear_screen", "move_left"}

\* One of the two is preempted in its call and the other begins one.  Within
\* next_line cursor_pos.y is the height while the rows are moved, and the y--
\* that comes then is applied to where the other has put the cursor, which can
\* be row 0: the cursor may be anywhere, and buffered_screen is written there.
Overlap ==
    /\ ~off /\ ShellCalling /\ Calling # {}
    /\ off' = TRUE /\ disturbed' = TRUE
    /\ UNCHANGED <<screen, buffer_vars, todo, task_vars, child, mixed>>

\* What is drawn beside the screen is not followed.
Unfollowed == off /\ UNCHANGED vars

Next ==
    \/ ShellPrints \/ ShellFinishes \/ ShellCreates \/ ShellWaits
    \/ \E t \in Tasks : TaskRuns(t)
    \/ Overlap \/ Unfollowed

Spec == Init /\ [][Next]_vars

----------------------------------------------------------------------------
(* What holds of the console, between whole calls and until two of them    *)
(* overlap.                                                                *)

\* Two tasks are never in the terminal together, so it takes the shell to
\* overlap a call.  Until it does, or takes back a character in column 0, the
\* cursor is on the screen, and so is where the task in the terminal puts it:
\* its place, increments of task_count lost or not, and what it saved.
\* buffered_screen is written at the cursor without a check (vesa_impl.cpp:54).
CursorKept ==
    /\ \A t, u \in Calling : t = u
    /\ ~off =>
        /\ screen.cursor \in Cells
        /\ \A t \in Calling :
               /\ NextIs(t, "move_cursor") => Place(pos[t]) \in Cells
               /\ NextIs(t, "move_back") => cursor_pos[t] \in Cells

\* What is seen of the line is what is in the buffer, from the prompt to the
\* cursor, and a clock comes and goes without moving it; unless another process
\* has printed in the line, or the shell while a clock was being shown, or a
\* call of the shell overlapped one of theirs.  In all other lines backspace,
\* which does not check the column, does not take the cursor off the screen: the
\* prompt stands before every character.
EchoIsInput ==
    todo = <<>> /\ ~disturbed =>
        /\ ~off
        /\ home[1] = Prompt + input_buffer_index
        /\ \A i \in 0..(input_buffer_index - 1) :
               screen.buffer[<<Prompt + i, home[2]>>] = input_buffer[i]

\* A clock is at its own place, and one at a time has the cursor, unless the
\* shell printed since the cursor was saved, or a call of it overlapped.
ClockInPlace ==
    /\ Cardinality(Away) <= 1
    /\ \A t \in Away :
           NextIs(t, "move_back") /\ ~disturbed =>
               /\ screen.buffer[Place(pos[t])] = text
               /\ screen.cursor = <<Place(pos[t])[1] + 1, Place(pos[t])[2]>>
=============================================================================
