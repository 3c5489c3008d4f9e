------------------------------- MODULE Screen -------------------------------
(***************************************************************************)
(* The terminal (terminal.cpp) on the framebuffer (vesa_impl.cpp), one     *)
(* call at a time: a call is one step here.  The code runs it with         *)
(* interrupts on, and its users see to it that no other call begins before *)
(* it ends, or do not (Overlap in Console).                                *)
(*                                                                         *)
(* The text is in two places: buffered_screen, which has no cursor, and    *)
(* the display, where the cursor is one column of pixels of its cell,      *)
(* inverted.  Pixels are abstracted to whose glyph they belong to.         *)
(***************************************************************************)
EXTENDS Integers, Sequences

CONSTANTS
    Width, Height,   \* of the screen in characters (100 and 37)
    Chars,           \* what is printed
    text,            \* what the output of a program is made of
    blank,           \* a cell without ink
    noise            \* what the display shows before it is cleared

ASSUME SizeAssumption == Width \in Nat \ {0} /\ Height \in Nat \ {0}

VARIABLE screen      \* the terminal's state, see Screens

Columns == 0..(Width - 1)
Rows == 0..(Height - 1)
Cells == Columns \X Rows
Glyphs == Chars \cup {blank, noise}

Screens == [
    cursor : Cells,                          \* cursor_pos
    last : Cells,                            \* last_cursor_text_pos
    buffer : [Cells -> Glyphs],              \* buffered_screen
    display : [Cells -> Glyphs],             \* the display, but for
    stripe : [Cells -> Glyphs],              \* the pixels a cursor can invert:
    inverted : [Cells -> BOOLEAN]]           \* whose they are, if inverted

----------------------------------------------------------------------------
(* vesa_impl.cpp.                                                          *)

\* reset_char and the glyph's pixels, in both places.
impl_put_char_at(s, ch, p) ==
    [s EXCEPT !.buffer[p] = ch, !.display[p] = ch,
              !.stripe[p] = ch, !.inverted[p] = FALSE]

set_cursor_at(s, p) ==
    [s EXCEPT !.stripe = [@ EXCEPT ![s.last] = s.buffer[s.last],
                                   ![p] = s.buffer[p]],
              !.inverted = [@ EXCEPT ![s.last] = FALSE, ![p] = TRUE],
              !.last = p]

\* Both places take the buffer's rows, so the display loses its cursor.
ScrollDisplay(s) ==   \* mutant: the display takes its own rows
    LET below(f, none) == [c \in Cells |->
            IF c[2] = Height - 1 THEN none ELSE f[<<c[1], c[2] + 1>>]]
    IN  [s EXCEPT !.buffer = below(@, blank), !.display = below(@, blank),
                  !.stripe = below(@, blank), !.inverted = below(@, FALSE)]
impl_scroll_down(s) ==
    LET up == [c \in Cells |-> IF c[2] = Height - 1 THEN blank
                               ELSE s.buffer[<<c[1], c[2] + 1>>]]
    IN  [s EXCEPT !.buffer = up, !.display = up, !.stripe = up,
                  !.inverted = [c \in Cells |-> FALSE]]

impl_clear_screen(s) ==
    LET empty == [c \in Cells |-> blank]
    IN  [s EXCEPT !.buffer = empty, !.display = empty, !.stripe = empty,
                  !.inverted = [c \in Cells |-> FALSE]]

----------------------------------------------------------------------------
(* terminal.cpp.                                                           *)

move_cursor(s, p) == set_cursor_at([s EXCEPT !.cursor = p], p)

\* scroll_down leaves the cursor in the last row.
next_line(s) ==
    LET y == s.cursor[2] + 1
    IN  IF y = Height
          THEN move_cursor(impl_scroll_down(s), <<0, y - 1>>)
          ELSE move_cursor(s, <<0, y>>)

ClipLine(s, ch) ==   \* mutant: the last column is written over
    LET t == impl_put_char_at(s, ch, s.cursor)
    IN  IF s.cursor[1] + 1 >= Width THEN move_cursor(t, s.cursor)
        ELSE move_cursor(t, <<s.cursor[1] + 1, s.cursor[2]>>)
put_char(s, ch) ==
    LET t == impl_put_char_at(s, ch, s.cursor)
        x == s.cursor[1] + 1
    IN  IF x >= Width THEN next_line(t) ELSE move_cursor(t, <<x, s.cursor[2]>>)

clear_screen(s) == move_cursor(impl_clear_screen(s), <<0, 0>>)

\* impl::init, which inverts a cursor on the uncleared display, and then
\* kernel_main's clear_screen.
started ==
    clear_screen([
        cursor |-> <<0, 0>>, last |-> <<0, 0>>,
        buffer |-> [c \in Cells |-> blank],
        display |-> [c \in Cells |-> noise],
        stripe |-> [c \in Cells |-> noise],
        inverted |-> [c \in Cells |-> c = <<0, 0>>]])


\* The calls.
PutChar(ch) == screen' = put_char(screen, ch)
PutCharAt(ch, p) == screen' = impl_put_char_at(screen, ch, p)
NextLine == screen' = next_line(screen)
MoveCursor(p) == screen' = move_cursor(screen, p)
ClearScreen == screen' = clear_screen(screen)

----------------------------------------------------------------------------
(* What holds of the screen between two calls, none of which has           *)
(* overlapped another.                                                     *)

\* The type of the screen.  It says nothing about the middle of a call, where
\* next_line leaves the cursor below the last row for a while.
OnScreen == screen \in Screens

\* After each call the display shows the buffered text with one cursor, at the
\* cursor: what set_cursor_at restores, scroll_down overwrites and put_char_at
\* draws over leaves no second cursor and no hole behind.
OneCursor ==
    /\ screen.display = screen.buffer /\ screen.stripe = screen.buffer
    /\ screen.last = screen.cursor
    /\ screen.inverted = [c \in Cells |-> c = screen.cursor]

\* Call by call the screen is a sheet of paper: a line that wraps goes on in the
\* next row, the rows move up only when the last one is full, and nothing else
\* moves or is lost.
Roll ==
    INSTANCE Paper WITH
        rows <- [y \in Rows |-> [x \in Columns |-> screen.buffer[<<x, y>>]]],
        column <- screen.cursor[1], row <- screen.cursor[2]
ShowsPaper == Roll!Spec
=============================================================================
