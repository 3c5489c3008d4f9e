---------------------------- MODULE CommandLine ----------------------------
(***************************************************************************)
(* The shell (command_line.cpp): its input buffer, the search for a        *)
(* command, and the calls with which it writes on the Screen, between any  *)
(* two of which it can be preempted.                                       *)
(***************************************************************************)
EXTENDS Screen, Functions

CONSTANTS
    MAX_BUFFER_SIZE,   \* of the input buffer (32)
    Prompt,            \* how many characters print_prompt prints (2)
    Letters,           \* the characters map_key_to_ascii knows
    NUL,               \* the character that ends a string
    COMMANDS_ARRAY_SIZE,
    Registered,        \* the names in the order they are registered
    nobody             \* call_callback found no command

Key == Letters \cup {"enter", "backspace", "other"}
States == {"pressed", "released"}

ASSUME CharsAssumption == Chars = Letters \cup {text}
\* On the 100 columns of the framebuffer a full line does not wrap.
ASSUME LineFits ==
    /\ Prompt \in Nat \ {0} /\ MAX_BUFFER_SIZE \in Nat
    /\ Prompt + MAX_BUFFER_SIZE < Width
\* Names are literals of less than 32 characters, so that the compare stays in
\* the buffer.
ASSUME NamesFit ==
    /\ Registered \in Seq(Range(Registered)) /\ COMMANDS_ARRAY_SIZE \in Nat \ {0}
    /\ \A name \in Range(Registered) :
           /\ name \in Seq(Range(name)) /\ NUL \notin Range(name)
           /\ Len(name) < MAX_BUFFER_SIZE
ASSUME LettersAssumption == NUL \notin Letters

\* register_command, which the drivers call before the first key: the last
\* entry of the table stays empty and what comes then is not taken.
commands ==
    SubSeq(Registered, 1, IF Len(Registered) < COMMANDS_ARRAY_SIZE
                            THEN Len(Registered) ELSE COMMANDS_ARRAY_SIZE - 1)

VARIABLES
    input_buffer,
    input_buffer_index,
    ran,                  \* the command the last enter has run
    todo,                 \* the calls the shell has yet to make for this key
    off                   \* the cursor may have left the screen

buffer_vars == <<input_buffer, input_buffer_index, ran>>
shell_vars == <<screen, buffer_vars, todo, off>>

Positions == 0..(MAX_BUFFER_SIZE - 1)

\* What the shell does: print a character of the prompt or of an output, call
\* the terminal, create or wait for a process, finish a line or a backspace.
Calls == {"text", "next_line", "clear_screen", "create_timer",
          "create_sleeper", "wait_for", "clear_buffer", "move_left"}

ShellTypeOK ==
    /\ input_buffer \in [Positions -> Letters \cup {NUL}]
    /\ input_buffer_index \in 0..MAX_BUFFER_SIZE
    /\ ran \in DOMAIN commands \cup {nobody}
    /\ todo \in Seq(Calls) /\ off \in BOOLEAN

\* An output is one character here, and a line of it stands for any number.  What
\* it says is left out: so is that of an unknown command the input buffer is
\* printed up to a NUL, which is behind its end when all slots are full.
print_line == <<"text", "next_line">>
print_prompt == [i \in 1..Prompt |-> "text"]

\* kernel_main prints its name and command_line::init the prompt.
ShellInit ==
    /\ screen = started
    /\ input_buffer = [i \in Positions |-> NUL]
    /\ input_buffer_index = 0
    /\ ran = nobody
    /\ todo = print_line \o print_prompt
    /\ off = FALSE

----------------------------------------------------------------------------
(* send_input, when the shell has no more to do for the key before.        *)

Ready == todo = <<>> /\ ~off

map_key_to_ascii(key) == IF key \in Letters THEN key ELSE NUL

EchoAll(key) ==   \* mutant: shows what a full buffer does not take
    /\ Ready /\ map_key_to_ascii(key) # NUL
    /\ PutChar(key)
    /\ IF input_buffer_index < MAX_BUFFER_SIZE
         THEN /\ input_buffer' = [input_buffer EXCEPT ![input_buffer_index] = key]
              /\ input_buffer_index' = input_buffer_index + 1
         ELSE UNCHANGED <<input_buffer, input_buffer_index>>
    /\ UNCHANGED <<ran, todo, off>>
Type(key) ==
    /\ Ready
    /\ input_buffer_index < MAX_BUFFER_SIZE /\ map_key_to_ascii(key) # NUL
    /\ PutChar(map_key_to_ascii(key))
    /\ input_buffer' =
           [input_buffer EXCEPT ![input_buffer_index] = map_key_to_ascii(key)]
    /\ input_buffer_index' = input_buffer_index + 1
    /\ UNCHANGED <<ran, todo, off>>

\* cstring_compare(input_buffer, name) == 0: up to the name's terminator.
PrefixSame(name) ==   \* mutant: the terminator is not compared
    \A i \in 1..Len(name) : input_buffer[i - 1] = name[i]
Same(name) ==
    \A i \in 1..(Len(name) + 1) :
        input_buffer[i - 1] = IF i > Len(name) THEN NUL ELSE name[i]

\* call_callback, which finds the first of them.
call_callback ==
    LET found == {i \in DOMAIN commands : Same(commands[i])}
    IN  IF found = {} THEN nobody
        ELSE CHOOSE i \in found : \A j \in found : i <= j

\* What a command calls: cls, list and uptime, rt, sleep, wait.
Callbacks == {<<"clear_screen">>, print_line, <<"create_timer">>,
              <<"create_sleeper">>, <<"create_sleeper", "wait_for">>}

Enter ==
    /\ Ready
    /\ NextLine
    /\ \E output \in IF call_callback = nobody THEN {print_line}
                     ELSE Callbacks :
           todo' = output \o <<"next_line">> \o print_prompt
                          \o <<"clear_buffer">>
    /\ UNCHANGED <<buffer_vars, off>>

\* The two arguments { cursor_pos.x - 1, cursor_pos.y } of a backspace, read
\* from the terminal's own variable each time.
Left == <<screen.cursor[1] - 1, screen.cursor[2]>>

Backspace ==
    /\ Ready
    /\ input_buffer_index > 0
    /\ IF screen.cursor[1] > 0
         THEN PutCharAt(blank, Left) /\ todo' = <<"move_left">> /\ UNCHANGED off
         ELSE off' = TRUE /\ UNCHANGED <<screen, todo>>   \* column 2^32 - 1
    /\ UNCHANGED buffer_vars

\* The key event that pull_key returns.
send_input(key, state) ==
    \/ state = "released" /\ Type(key)
    \/ state = "released" /\ key = "enter" /\ Enter
    \/ state = "pressed" /\ key = "backspace" /\ Backspace

----------------------------------------------------------------------------
(* The calls.                                                              *)

Doing(call) ==
    /\ todo # <<>> /\ Head(todo) = call /\ ~off
    /\ todo' = Tail(todo)

Output ==
    /\ \/ Doing("text") /\ PutChar(text)
       \/ Doing("next_line") /\ NextLine
       \/ Doing("clear_screen") /\ ClearScreen
    /\ UNCHANGED <<buffer_vars, off>>

\* The loop that clears the buffer runs before the index is reset.
cleared == [i \in Positions |-> IF i < input_buffer_index THEN NUL
                                ELSE input_buffer[i]]

FinishLine ==
    /\ Doing("clear_buffer")
    /\ input_buffer' = cleared
    /\ input_buffer_index' = 0
    /\ ran' = call_callback
    /\ UNCHANGED <<screen, off>>

FinishBackspace ==
    /\ IF screen.cursor[1] > 0
         THEN Doing("move_left") /\ MoveCursor(Left) /\ UNCHANGED off
         ELSE /\ todo # <<>> /\ Head(todo) = "move_left" /\ ~off
              /\ off' = TRUE /\ UNCHANGED <<screen, todo>>
    /\ input_buffer_index' = input_buffer_index - 1
    /\ input_buffer' = [input_buffer EXCEPT ![input_buffer_index - 1] = NUL]
    /\ UNCHANGED ran

----------------------------------------------------------------------------
(* What holds of the shell.                                                *)

\* The buffer is a line editor that runs the first command with the name that
\* was typed: nothing of a longer line before, or of what was taken back, is
\* ever part of a name.
line == [i \in 1..input_buffer_index |-> input_buffer[i - 1]]
Editor == INSTANCE LineEditor WITH
    Limit <- MAX_BUFFER_SIZE, Names <- commands
EditsLine == Editor!Spec
=============================================================================
