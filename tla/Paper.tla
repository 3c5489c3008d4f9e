------------------------------- MODULE Paper -------------------------------
(***************************************************************************)
(* What printing means: a sheet of paper that moves up when the last of    *)
(* its rows is full.                                                       *)
(***************************************************************************)
EXTENDS Integers

CONSTANTS Width, Height, Chars, blank

VARIABLES
    rows,      \* the rows in sight, from the top
    column,    \* where the next character goes: its column
    row        \* and its row

vars == <<rows, column, row>>

Columns == 0..(Width - 1)
Rows == 0..(Height - 1)
BlankRow == [x \in Columns |-> blank]
Blank == [y \in Rows |-> BlankRow]

Init == rows = Blank /\ column = 0 /\ row = 0

\* The next row, on fresh paper if it was the last one.
Feed(written) ==
    /\ column' = 0
    /\ IF row = Height - 1
         THEN /\ rows' = [y \in Rows |-> IF y = row THEN BlankRow
                                         ELSE written[y + 1]]
              /\ row' = row
         ELSE rows' = written /\ row' = row + 1

Type(ch) ==
    LET written == [rows EXCEPT ![row][column] = ch]
    IN  IF column = Width - 1
          THEN Feed(written)
          ELSE rows' = written /\ column' = column + 1 /\ row' = row

Enter == Feed(rows)

\* A character away from the cursor is taken back.
Rub(x, y) ==
    /\ <<x, y>> # <<column, row>>
    /\ rows' = [rows EXCEPT ![y][x] = blank]
    /\ UNCHANGED <<column, row>>

Move(x, y) == column' = x /\ row' = y /\ UNCHANGED rows

Wipe == rows' = Blank /\ column' = 0 /\ row' = 0

Next ==
    \/ \E ch \in Chars : Type(ch)
    \/ Enter \/ Wipe
    \/ \E x \in Columns, y \in Rows : Rub(x, y) \/ Move(x, y)

Spec == Init /\ [][Next]_vars
=============================================================================
