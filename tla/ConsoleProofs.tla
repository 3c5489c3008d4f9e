---------------------------- MODULE ConsoleProofs ----------------------------
(***************************************************************************)
(* Proofs about the console for every size of the screen and the buffer,   *)
(* every table of commands and every number of tasks: one cursor, where    *)
(* the next character goes; what is seen of an undisturbed line is what is *)
(* in the buffer; and the refinements of Paper and LineEditor.             *)
(***************************************************************************)
EXTENDS Console, FiniteSetTheorems, SequenceTheorems, WellFoundedInduction, TLAPS

----------------------------------------------------------------------------
(* The screen between two calls, and within one.                           *)

\* One cursor, where the next character goes.
Drawn(s) ==
    /\ s \in Screens
    /\ s.display = s.buffer /\ s.stripe = s.buffer /\ s.last = s.cursor
    /\ s.inverted = [c \in Cells |-> c = s.cursor]

\* The display shows the text, but for the cell where the cursor was.
Undrawn(s) ==
    /\ s \in Screens
    /\ s.display = s.buffer
    /\ \A c \in Cells : c # s.last => s.stripe[c] = s.buffer[c] /\ ~s.inverted[c]

LEMMA CellIs ==
  /\ \A c \in Cells : c = <<c[1], c[2]>> /\ c[1] \in Columns /\ c[2] \in Rows
  /\ \A x \in Columns, y \in Rows : <<x, y>> \in Cells
BY DEF Cells

LEMMA Edges ==
  /\ Width \in Nat /\ Height \in Nat /\ Width > 0 /\ Height > 0
  /\ 0 \in Columns /\ 0 \in Rows /\ Width - 1 \in Columns /\ Height - 1 \in Rows
  /\ \A x \in Columns : x \in Nat /\ x < Width
  /\ \A y \in Rows : y \in Nat /\ y < Height
BY SizeAssumption DEF Columns, Rows

LEMMA DrawnIsUndrawn == ASSUME NEW s, Drawn(s) PROVE Undrawn(s)
BY DEF Drawn, Undrawn

LEMMA MoveDraws ==
  ASSUME NEW s, Undrawn(s), NEW p \in Cells
  PROVE  /\ Drawn(move_cursor(s, p))
         /\ move_cursor(s, p).cursor = p
         /\ move_cursor(s, p).buffer = s.buffer
PROOF
<1> DEFINE t == move_cursor(s, p)
<1>1. /\ s.buffer \in [Cells -> Glyphs] /\ s.display \in [Cells -> Glyphs]
      /\ s.stripe \in [Cells -> Glyphs] /\ s.inverted \in [Cells -> BOOLEAN]
      /\ s.last \in Cells /\ s.cursor \in Cells
  BY DEF Undrawn, Screens
<1>2. /\ t.cursor = p /\ t.last = p /\ t.buffer = s.buffer /\ t.display = s.display
      /\ t.stripe = [s.stripe EXCEPT ![s.last] = s.buffer[s.last], ![p] = s.buffer[p]]
      /\ t.inverted = [s.inverted EXCEPT ![s.last] = FALSE, ![p] = TRUE]
  BY DEF move_cursor, set_cursor_at, Undrawn, Screens
<1>3. t.stripe \in [Cells -> Glyphs] /\ t.inverted \in [Cells -> BOOLEAN]
  BY <1>1, <1>2
<1>6. t \in Screens
  BY <1>1, <1>2, <1>3 DEF Screens, Undrawn, move_cursor, set_cursor_at
<1>4. t.stripe = s.buffer
  <2>1. \A c \in Cells : t.stripe[c] = s.buffer[c]
    BY <1>1, <1>2 DEF Undrawn
  <2> QED BY <2>1, <1>1, <1>3
<1>5. t.inverted = [c \in Cells |-> c = p]
  <2>1. \A c \in Cells : t.inverted[c] = (c = p)
    BY <1>1, <1>2 DEF Undrawn
  <2> QED BY <2>1, <1>3
<1> HIDE DEF t
<1>7. Drawn(t)
  BY <1>2, <1>4, <1>5, <1>6 DEF Drawn, Undrawn
<1> QED BY <1>2, <1>7 DEF t

LEMMA PutFields ==
  ASSUME NEW s \in Screens, NEW ch \in Glyphs, NEW p \in Cells
  PROVE  LET t == impl_put_char_at(s, ch, p)
         IN  /\ t \in Screens /\ t.cursor = s.cursor /\ t.last = s.last
             /\ t.buffer = [s.buffer EXCEPT ![p] = ch]
             /\ t.display = [s.display EXCEPT ![p] = ch]
             /\ t.stripe = [s.stripe EXCEPT ![p] = ch]
             /\ t.inverted = [s.inverted EXCEPT ![p] = FALSE]
BY DEF impl_put_char_at, Screens

LEMMA PutDraws ==
  ASSUME NEW s, Drawn(s), NEW ch \in Glyphs, NEW p \in Cells
  PROVE  LET t == impl_put_char_at(s, ch, p)
         IN  /\ Undrawn(t) /\ (p # s.cursor => Drawn(t))
             /\ t.cursor = s.cursor /\ t.buffer = [s.buffer EXCEPT ![p] = ch]
PROOF
<1> DEFINE t == impl_put_char_at(s, ch, p)
<1>1. /\ t \in Screens /\ t.cursor = s.cursor /\ t.last = s.last
      /\ t.buffer = [s.buffer EXCEPT ![p] = ch]
      /\ t.display = [s.display EXCEPT ![p] = ch]
      /\ t.stripe = [s.stripe EXCEPT ![p] = ch]
      /\ t.inverted = [s.inverted EXCEPT ![p] = FALSE]
  <2> s \in Screens
    BY DEF Drawn
  <2> QED BY PutFields
<1> HIDE DEF t
<1>2. /\ s.display = s.buffer /\ s.stripe = s.buffer /\ s.last = s.cursor
      /\ s.inverted = [c \in Cells |-> c = s.cursor]
  BY DEF Drawn
<1>3. t.display = t.buffer /\ t.stripe = t.buffer
  BY <1>1, <1>2
<1>4. \A c \in Cells : c # t.last => ~t.inverted[c]
  BY <1>1, <1>2
<1>5. p # s.cursor => t.inverted = [c \in Cells |-> c = t.cursor]
  <2> SUFFICES ASSUME p # s.cursor PROVE t.inverted = [c \in Cells |-> c = t.cursor]
    OBVIOUS
  <2>1. t.inverted \in [Cells -> BOOLEAN] /\ s.inverted \in [Cells -> BOOLEAN]
    BY <1>1 DEF Screens, Drawn
  <2>2. \A c \in Cells : t.inverted[c] <=> c = t.cursor
    BY <1>1, <1>2, <2>1
  <2> QED BY <2>1, <2>2
<1>6. Undrawn(t)
  BY <1>1, <1>3, <1>4 DEF Undrawn
<1>7. p # s.cursor => Drawn(t)
  BY <1>1, <1>2, <1>3, <1>5 DEF Drawn
<1> QED BY <1>1, <1>6, <1>7 DEF t

\* The text, one row up.
RowsUp(b) ==
    [c \in Cells |-> IF c[2] = Height - 1 THEN blank ELSE b[<<c[1], c[2] + 1>>]]

LEMMA RowsUpIs ==
  ASSUME NEW b \in [Cells -> Glyphs]
  PROVE  RowsUp(b) \in [Cells -> Glyphs]
PROOF
<1>1. \A c \in Cells : c[2] # Height - 1 => <<c[1], c[2] + 1>> \in Cells
  BY CellIs, Edges DEF Rows
<1> QED BY <1>1 DEF RowsUp, Glyphs

LEMMA ScrollDraws ==
  ASSUME NEW s \in Screens
  PROVE  LET t == impl_scroll_down(s)
         IN  Undrawn(t) /\ t.cursor = s.cursor /\ t.buffer = RowsUp(s.buffer)
PROOF
<1> DEFINE t == impl_scroll_down(s)
<1>1. /\ t.cursor = s.cursor /\ t.last = s.last
      /\ t.buffer = RowsUp(s.buffer) /\ t.display = RowsUp(s.buffer)
      /\ t.stripe = RowsUp(s.buffer) /\ t.inverted = [c \in Cells |-> FALSE]
  BY DEF impl_scroll_down, RowsUp, Screens
<1>2. RowsUp(s.buffer) \in [Cells -> Glyphs]
  BY RowsUpIs DEF Screens
<1>3. s.cursor \in Cells /\ s.last \in Cells
  BY DEF Screens
<1>6. [c \in Cells |-> FALSE] \in [Cells -> BOOLEAN]
  OBVIOUS
<1>4. t \in Screens
  BY <1>1, <1>2, <1>3, <1>6 DEF Screens, impl_scroll_down
<1> HIDE DEF t
<1>5. Undrawn(t)
  BY <1>1, <1>4 DEF Undrawn
<1> QED BY <1>1, <1>5 DEF t

LEMMA ClearDraws ==
  ASSUME NEW s \in Screens
  PROVE  LET t == clear_screen(s)
         IN  /\ Drawn(t) /\ t.cursor = <<0, 0>>
             /\ t.buffer = [c \in Cells |-> blank]
PROOF
<1> DEFINE u == impl_clear_screen(s)
           empty == [c \in Cells |-> blank]
<1>1. /\ u.cursor = s.cursor /\ u.last = s.last
      /\ u.buffer = empty /\ u.display = empty
      /\ u.stripe = empty /\ u.inverted = [c \in Cells |-> FALSE]
  BY DEF impl_clear_screen, Screens
<1>2. empty \in [Cells -> Glyphs]
  BY DEF Glyphs
<1>3. s.cursor \in Cells /\ s.last \in Cells
  BY DEF Screens
<1>4. clear_screen(s) = move_cursor(u, <<0, 0>>)
  BY DEF clear_screen
<1>8. [c \in Cells |-> FALSE] \in [Cells -> BOOLEAN]
  OBVIOUS
<1>5. u \in Screens
  BY <1>1, <1>2, <1>3, <1>8 DEF Screens, impl_clear_screen
<1> HIDE DEF u, empty
<1>6. Undrawn(u)
  BY <1>1, <1>5 DEF Undrawn
<1>7. <<0, 0>> \in Cells
  BY CellIs, Edges
<1> QED BY <1>1, <1>4, <1>6, <1>7, MoveDraws DEF empty

\* What next_line does to the cursor and the text.
Below(b, y) == IF y = Height - 1 THEN RowsUp(b) ELSE b
RowBelow(y) == IF y = Height - 1 THEN y ELSE y + 1

LEMMA NextLineDraws ==
  ASSUME NEW s, Undrawn(s)
  PROVE  LET t == next_line(s)
         IN  /\ Drawn(t) /\ t.cursor = <<0, RowBelow(s.cursor[2])>>
             /\ t.buffer = Below(s.buffer, s.cursor[2])
PROOF
<1> DEFINE y == s.cursor[2]
<1>1. s \in Screens /\ y \in Rows
  BY CellIs DEF Undrawn, Screens
<1>2. CASE y = Height - 1
  <2>1. next_line(s) = move_cursor(impl_scroll_down(s), <<0, y>>)
    BY <1>1, <1>2, Edges DEF next_line
  <2>2. Undrawn(impl_scroll_down(s)) /\ impl_scroll_down(s).buffer = RowsUp(s.buffer)
    BY <1>1, ScrollDraws
  <2>3. <<0, y>> \in Cells
    BY <1>1, CellIs, Edges
  <2> QED BY <1>2, <2>1, <2>2, <2>3, MoveDraws DEF Below, RowBelow
<1>3. CASE y # Height - 1
  <2>1. y + 1 # Height /\ y + 1 \in Rows
    BY <1>1, <1>3, Edges DEF Rows
  <2>2. next_line(s) = move_cursor(s, <<0, y + 1>>)
    BY <2>1 DEF next_line
  <2>3. <<0, y + 1>> \in Cells
    BY <2>1, CellIs, Edges
  <2> QED BY <1>3, <2>2, <2>3, MoveDraws DEF Below, RowBelow
<1> QED BY <1>2, <1>3

\* What put_char does to the cursor and the text.
Ends(c) == c[1] = Width - 1
Written(b, c, ch) == [b EXCEPT ![c] = ch]
Typed(b, c, ch) ==
    IF Ends(c) THEN Below(Written(b, c, ch), c[2]) ELSE Written(b, c, ch)
After(c) == IF Ends(c) THEN <<0, RowBelow(c[2])>> ELSE <<c[1] + 1, c[2]>>

LEMMA PutCharDraws ==
  ASSUME NEW s, Drawn(s), NEW ch \in Glyphs
  PROVE  LET t == put_char(s, ch)
         IN  /\ Drawn(t) /\ t.cursor = After(s.cursor)
             /\ t.buffer = Typed(s.buffer, s.cursor, ch)
PROOF
<1> DEFINE c == s.cursor
           u == impl_put_char_at(s, ch, c)
<1>1. s \in Screens /\ c \in Cells /\ c[1] \in Columns /\ c[2] \in Rows
  BY CellIs DEF Drawn, Screens
<1>2. Undrawn(u) /\ u.cursor = c /\ u.buffer = Written(s.buffer, c, ch)
  BY <1>1, PutDraws DEF Written
<1>3. put_char(s, ch) =
        IF c[1] + 1 >= Width THEN next_line(u) ELSE move_cursor(u, <<c[1] + 1, c[2]>>)
  BY DEF put_char
<1> HIDE DEF u, c
<1>4. CASE Ends(c)
  <2>1. put_char(s, ch) = next_line(u)
    BY <1>1, <1>3, <1>4, Edges DEF Ends
  <2> QED BY <1>2, <1>4, <2>1, NextLineDraws DEF Typed, After, c
<1>5. CASE ~Ends(c)
  <2>1. ~(c[1] + 1 >= Width) /\ c[1] + 1 \in Columns
    BY <1>1, <1>5, Edges DEF Ends, Columns
  <2>2. put_char(s, ch) = move_cursor(u, <<c[1] + 1, c[2]>>)
    BY <1>3, <2>1
  <2>3. <<c[1] + 1, c[2]>> \in Cells
    BY <1>1, <2>1, CellIs
  <2> QED BY <1>2, <1>5, <2>2, <2>3, MoveDraws DEF Typed, After, c
<1> QED BY <1>4, <1>5

LEMMA StartedDraws ==
  /\ Drawn(started) /\ started.cursor = <<0, 0>>
  /\ started.buffer = [c \in Cells |-> blank]
PROOF
<1> DEFINE s == [
        cursor |-> <<0, 0>>, last |-> <<0, 0>>,
        buffer |-> [c \in Cells |-> blank],
        display |-> [c \in Cells |-> noise],
        stripe |-> [c \in Cells |-> noise],
        inverted |-> [c \in Cells |-> c = <<0, 0>>]]
<1>1. /\ [c \in Cells |-> blank] \in [Cells -> Glyphs]
      /\ [c \in Cells |-> noise] \in [Cells -> Glyphs]
      /\ [c \in Cells |-> c = <<0, 0>>] \in [Cells -> BOOLEAN]
      /\ <<0, 0>> \in Cells
  BY CellIs, Edges DEF Glyphs
<1>2. s \in Screens
  BY <1>1 DEF Screens
<1>3. started = clear_screen(s)
  BY DEF started
<1> HIDE DEF s
<1> QED BY <1>2, <1>3, ClearDraws

\* The calls of the terminal.
LEMMA Draws ==
  ASSUME Drawn(screen)
  PROVE  /\ \A ch \in Glyphs :
              PutChar(ch) =>
                /\ Drawn(screen') /\ screen'.cursor = After(screen.cursor)
                /\ screen'.buffer = Typed(screen.buffer, screen.cursor, ch)
         /\ \A ch \in Glyphs, p \in Cells \ {screen.cursor} :
              PutCharAt(ch, p) =>
                /\ Drawn(screen') /\ screen'.cursor = screen.cursor
                /\ screen'.buffer = Written(screen.buffer, p, ch)
         /\ NextLine =>
              /\ Drawn(screen') /\ screen'.cursor = <<0, RowBelow(screen.cursor[2])>>
              /\ screen'.buffer = Below(screen.buffer, screen.cursor[2])
         /\ \A p \in Cells :
              MoveCursor(p) =>
                /\ Drawn(screen') /\ screen'.cursor = p
                /\ screen'.buffer = screen.buffer
         /\ ClearScreen =>
              /\ Drawn(screen') /\ screen'.cursor = <<0, 0>>
              /\ screen'.buffer = [c \in Cells |-> blank]
PROOF
<1>1. ASSUME NEW ch \in Glyphs, PutChar(ch)
      PROVE  /\ Drawn(screen') /\ screen'.cursor = After(screen.cursor)
             /\ screen'.buffer = Typed(screen.buffer, screen.cursor, ch)
  BY <1>1, PutCharDraws DEF PutChar
<1>2. ASSUME NEW ch \in Glyphs, NEW p \in Cells \ {screen.cursor}, PutCharAt(ch, p)
      PROVE  /\ Drawn(screen') /\ screen'.cursor = screen.cursor
             /\ screen'.buffer = Written(screen.buffer, p, ch)
  BY <1>2, PutDraws DEF PutCharAt, Written
<1>3. ASSUME NextLine
      PROVE  /\ Drawn(screen') /\ screen'.cursor = <<0, RowBelow(screen.cursor[2])>>
             /\ screen'.buffer = Below(screen.buffer, screen.cursor[2])
  BY <1>3, NextLineDraws, DrawnIsUndrawn DEF NextLine
<1>4. ASSUME NEW p \in Cells, MoveCursor(p)
      PROVE  /\ Drawn(screen') /\ screen'.cursor = p
             /\ screen'.buffer = screen.buffer
  BY <1>4, MoveDraws, DrawnIsUndrawn DEF MoveCursor
<1>5. ASSUME ClearScreen
      PROVE  /\ Drawn(screen') /\ screen'.cursor = <<0, 0>>
             /\ screen'.buffer = [c \in Cells |-> blank]
  BY <1>5, ClearDraws DEF ClearScreen, Drawn
<1> QED BY <1>1, <1>2, <1>3, <1>4, <1>5

----------------------------------------------------------------------------
(* The inductive invariant.                                                *)

Then(call, rest) == <<call>> \o rest

\* Where a task can be: the calls of a timer, from its end, and of a sleeper.
ToUnlock == <<"unlock">>
ToMoveBack == Then("move_back", ToUnlock)
ToPrint == Then("print", ToMoveBack)
ToMove == Then("move_cursor", ToPrint)
ToSave == Then("get_cursor_pos", ToMove)
ToLock == Then("lock", ToSave)
ToStore == Then("store_count", ToLock)
ToLoad == Then("load_count", ToStore)

ToEnd == <<"end">>
ToUnlock2 == Then("unlock", ToEnd)
ToNext2 == Then("next_line", ToUnlock2)
ToSay2 == Then("print", ToNext2)
ToLock2 == Then("lock", ToSay2)
ToUnlock1 == Then("unlock", ToLock2)
ToNext1 == Then("next_line", ToUnlock1)
ToSay1 == Then("print", ToNext1)
ToLock1 == Then("lock", ToSay1)

CursorAway == {ToMove, ToPrint, ToMoveBack}
InRound == {ToLock, ToSave, ToUnlock} \cup CursorAway
InSaying == {ToLock1, ToSay1, ToNext1, ToUnlock1,
             ToLock2, ToSay2, ToNext2, ToUnlock2, ToEnd}
Holding == {ToSave, ToUnlock} \cup CursorAway \cup
           {ToSay1, ToNext1, ToUnlock1, ToSay2, ToNext2, ToUnlock2}
Everywhere == {<<>>, ToLoad, ToStore} \cup InRound \cup InSaying

\* The timers that have their place for good.
Placed == {t \in Tasks : calls[t] \in InRound}

TaskIs(t) ==
    /\ calls[t] \in Everywhere
    /\ cursor_pos[t] \in Cells \cup {nothing}
    /\ cursor_pos[t] # nothing <=> calls[t] \in CursorAway
    /\ IF calls[t] \in InRound THEN pos[t] \in 0..(Cardinality(Placed) - 1)
       ELSE IF calls[t] = ToStore THEN pos[t] \in 0..Cardinality(Placed)
       ELSE pos[t] = nothing

\* Every place is below the number of timers that have one, although an
\* increment can be lost; and one task at a time holds the mutex.
TasksInv ==
    /\ calls = [t \in Tasks |-> calls[t]] /\ pos = [t \in Tasks |-> pos[t]]
    /\ cursor_pos = [t \in Tasks |-> cursor_pos[t]]
    /\ \A t \in Tasks : TaskIs(t)
    /\ task_count \in 0..Cardinality(Placed)
    /\ terminal_mutex \in BOOLEAN
    /\ \A t \in Tasks : calls[t] \in Holding => terminal_mutex
    /\ \A t, u \in Tasks : calls[t] \in Holding /\ calls[u] \in Holding => t = u

\* A NUL ends what was typed, as long as it fits.
BufferInv ==
    /\ ShellTypeOK
    /\ \A i \in Positions : i < input_buffer_index <=> input_buffer[i] # NUL

\* Of the calls s the last but e are the prompt, after a new line or what is
\* left of it; then (e = 1) the buffer is cleared.
Prompting(s, n, e) ==
    /\ n \in Nat /\ Len(s) = n + e
    /\ e = 1 => s[n + 1] = "clear_buffer"
    /\ \A i \in 1..n :
           /\ s[i] \notin {"clear_buffer", "move_left"}
           /\ i > n - Prompt => s[i] = "text"
           /\ i = n - Prompt => s[i] = "next_line"

Prompted(n, e) ==
    /\ Prompting(todo, n, e)
    /\ e = 0 /\ n > 0 => input_buffer_index = 0
    /\ ~disturbed /\ n <= Prompt =>
           home[1] = Prompt - n + IF e = 0 THEN input_buffer_index ELSE 0
TakingBack ==
    /\ todo = <<"move_left">>
    /\ ~off => input_buffer_index > 0
    /\ ~disturbed => home[1] = Prompt + input_buffer_index
LineInv ==
    /\ TakingBack \/ \E e \in {0, 1} : Prompted(Len(todo) - e, e)
    /\ off => disturbed

\* How much of the line can be seen.
Seen == IF todo = <<>> THEN input_buffer_index ELSE input_buffer_index - 1
EchoInv ==
    ~disturbed /\ todo \in {<<>>, <<"move_left">>} =>
        \A i \in 0..(Seen - 1) :
            screen.buffer[<<Prompt + i, home[2]>>] = input_buffer[i]

ClockInv ==
    ~disturbed => \A t \in Tasks :
        /\ calls[t] = ToPrint => screen.cursor = Place(pos[t])
        /\ calls[t] = ToMoveBack =>
               /\ screen.cursor = <<Place(pos[t])[1] + 1, Place(pos[t])[2]>>
               /\ screen.buffer[Place(pos[t])] = text

IInv ==
    /\ Drawn(screen)
    /\ TasksInv /\ BufferInv /\ LineInv /\ EchoInv /\ ClockInv
    /\ child \in Tasks \cup {nothing} /\ mixed \in 0..MaxMixed
    /\ disturbed \in BOOLEAN

----------------------------------------------------------------------------
(* The calls of the tasks.                                                 *)

CallNames == Range(TakePlace \o Round \o Say) \cup {"end"}

LEMMA ThenIs ==
  ASSUME NEW x \in CallNames, NEW s \in Seq(CallNames)
  PROVE  /\ Then(x, s) \in Seq(CallNames) /\ Then(x, s) # <<>>
         /\ Head(Then(x, s)) = x /\ Tail(Then(x, s)) = s
         /\ Len(Then(x, s)) = Len(s) + 1
BY ConcatProperties, HeadTailProperties, SMTT(30) DEF Then

LEMMA TheNames ==
  CallNames = {"load_count", "store_count", "lock", "get_cursor_pos",
               "move_cursor", "print", "move_back", "unlock", "next_line", "end"}
BY DEF CallNames, TakePlace, Round, Say, Range

\* Round is where a round begins, and so on.
LEMMA Programs ==
  /\ Round = ToLock
  /\ TakePlace \o Round = ToLoad
  /\ Say \o Say \o <<"end">> = ToLock1
BY DEF Round, TakePlace, Say, Then, ToLock, ToSave, ToMove, ToPrint, ToMoveBack, ToUnlock,
       ToLoad, ToStore, ToLock1, ToSay1, ToNext1, ToUnlock1,
       ToLock2, ToSay2, ToNext2, ToUnlock2, ToEnd

LEMMA PointsAreCalls == Everywhere \subseteq Seq(CallNames)
<1>1. {ToEnd, ToUnlock, <<>>} \subseteq Seq(CallNames)
  BY TheNames DEF ToEnd, ToUnlock
<1>2. {ToMoveBack, ToUnlock2} \subseteq Seq(CallNames)
  BY <1>1, ThenIs, TheNames DEF ToMoveBack, ToUnlock2
<1>3. {ToPrint, ToNext2} \subseteq Seq(CallNames)
  BY <1>2, ThenIs, TheNames DEF ToPrint, ToNext2
<1>4. {ToMove, ToSay2} \subseteq Seq(CallNames)
  BY <1>3, ThenIs, TheNames DEF ToMove, ToSay2
<1>5. {ToSave, ToLock2} \subseteq Seq(CallNames)
  BY <1>4, ThenIs, TheNames DEF ToSave, ToLock2
<1>6. {ToLock, ToUnlock1} \subseteq Seq(CallNames)
  BY <1>5, ThenIs, TheNames DEF ToLock, ToUnlock1
<1>7. {ToStore, ToNext1} \subseteq Seq(CallNames)
  BY <1>6, ThenIs, TheNames DEF ToStore, ToNext1
<1>8. {ToLoad, ToSay1} \subseteq Seq(CallNames)
  BY <1>7, ThenIs, TheNames DEF ToLoad, ToSay1
<1>9. ToLock1 \in Seq(CallNames)
  BY <1>8, ThenIs, TheNames DEF ToLock1
<1> QED
  BY <1>1, <1>2, <1>3, <1>4, <1>5, <1>6, <1>7, <1>8, <1>9
  DEF Everywhere, InRound, InSaying, CursorAway

\* A point is given by its length and its first call.
LEMMA Points ==
  /\ ToLoad # <<>> /\ Head(ToLoad) = "load_count" /\ Tail(ToLoad) = ToStore
  /\ ToStore # <<>> /\ Head(ToStore) = "store_count" /\ Tail(ToStore) = ToLock
  /\ ToLock # <<>> /\ Head(ToLock) = "lock" /\ Tail(ToLock) = ToSave
  /\ ToSave # <<>> /\ Head(ToSave) = "get_cursor_pos" /\ Tail(ToSave) = ToMove
  /\ ToMove # <<>> /\ Head(ToMove) = "move_cursor" /\ Tail(ToMove) = ToPrint
  /\ ToPrint # <<>> /\ Head(ToPrint) = "print" /\ Tail(ToPrint) = ToMoveBack
  /\ ToMoveBack # <<>> /\ Head(ToMoveBack) = "move_back" /\ Tail(ToMoveBack) = ToUnlock
  /\ ToUnlock # <<>> /\ Head(ToUnlock) = "unlock"
  /\ ToLock1 # <<>> /\ Head(ToLock1) = "lock" /\ Tail(ToLock1) = ToSay1
  /\ ToSay1 # <<>> /\ Head(ToSay1) = "print" /\ Tail(ToSay1) = ToNext1
  /\ ToNext1 # <<>> /\ Head(ToNext1) = "next_line" /\ Tail(ToNext1) = ToUnlock1
  /\ ToUnlock1 # <<>> /\ Head(ToUnlock1) = "unlock" /\ Tail(ToUnlock1) = ToLock2
  /\ ToLock2 # <<>> /\ Head(ToLock2) = "lock" /\ Tail(ToLock2) = ToSay2
  /\ ToSay2 # <<>> /\ Head(ToSay2) = "print" /\ Tail(ToSay2) = ToNext2
  /\ ToNext2 # <<>> /\ Head(ToNext2) = "next_line" /\ Tail(ToNext2) = ToUnlock2
  /\ ToUnlock2 # <<>> /\ Head(ToUnlock2) = "unlock" /\ Tail(ToUnlock2) = ToEnd
  /\ ToEnd # <<>> /\ Head(ToEnd) = "end"
<1>0. {ToLoad, ToStore, ToLock, ToSave, ToMove, ToPrint, ToMoveBack, ToUnlock, ToLock1,
       ToSay1, ToNext1, ToUnlock1, ToLock2, ToSay2, ToNext2, ToUnlock2, ToEnd} \subseteq Seq(CallNames)
  BY PointsAreCalls DEF Everywhere, InRound, InSaying, CursorAway
<1>1. ToLoad # <<>> /\ Head(ToLoad) = "load_count" /\ Tail(ToLoad) = ToStore
  BY <1>0, ThenIs, TheNames DEF ToLoad
<1>2. ToStore # <<>> /\ Head(ToStore) = "store_count" /\ Tail(ToStore) = ToLock
  BY <1>0, ThenIs, TheNames DEF ToStore
<1>3. ToLock # <<>> /\ Head(ToLock) = "lock" /\ Tail(ToLock) = ToSave
  BY <1>0, ThenIs, TheNames DEF ToLock
<1>4. ToSave # <<>> /\ Head(ToSave) = "get_cursor_pos" /\ Tail(ToSave) = ToMove
  BY <1>0, ThenIs, TheNames DEF ToSave
<1>5. ToMove # <<>> /\ Head(ToMove) = "move_cursor" /\ Tail(ToMove) = ToPrint
  BY <1>0, ThenIs, TheNames DEF ToMove
<1>6. ToPrint # <<>> /\ Head(ToPrint) = "print" /\ Tail(ToPrint) = ToMoveBack
  BY <1>0, ThenIs, TheNames DEF ToPrint
<1>7. ToMoveBack # <<>> /\ Head(ToMoveBack) = "move_back" /\ Tail(ToMoveBack) = ToUnlock
  BY <1>0, ThenIs, TheNames DEF ToMoveBack
<1>8. ToUnlock # <<>> /\ Head(ToUnlock) = "unlock"
  BY DEF ToUnlock
<1>9. ToLock1 # <<>> /\ Head(ToLock1) = "lock" /\ Tail(ToLock1) = ToSay1
  BY <1>0, ThenIs, TheNames DEF ToLock1
<1>10. ToSay1 # <<>> /\ Head(ToSay1) = "print" /\ Tail(ToSay1) = ToNext1
  BY <1>0, ThenIs, TheNames DEF ToSay1
<1>11. ToNext1 # <<>> /\ Head(ToNext1) = "next_line" /\ Tail(ToNext1) = ToUnlock1
  BY <1>0, ThenIs, TheNames DEF ToNext1
<1>12. ToUnlock1 # <<>> /\ Head(ToUnlock1) = "unlock" /\ Tail(ToUnlock1) = ToLock2
  BY <1>0, ThenIs, TheNames DEF ToUnlock1
<1>13. ToLock2 # <<>> /\ Head(ToLock2) = "lock" /\ Tail(ToLock2) = ToSay2
  BY <1>0, ThenIs, TheNames DEF ToLock2
<1>14. ToSay2 # <<>> /\ Head(ToSay2) = "print" /\ Tail(ToSay2) = ToNext2
  BY <1>0, ThenIs, TheNames DEF ToSay2
<1>15. ToNext2 # <<>> /\ Head(ToNext2) = "next_line" /\ Tail(ToNext2) = ToUnlock2
  BY <1>0, ThenIs, TheNames DEF ToNext2
<1>16. ToUnlock2 # <<>> /\ Head(ToUnlock2) = "unlock" /\ Tail(ToUnlock2) = ToEnd
  BY <1>0, ThenIs, TheNames DEF ToUnlock2
<1>17. ToEnd # <<>> /\ Head(ToEnd) = "end"
  BY DEF ToEnd
<1> QED
  BY <1>1, <1>2, <1>3, <1>4, <1>5, <1>6, <1>7, <1>8, <1>9,
     <1>10, <1>11, <1>12, <1>13, <1>14, <1>15, <1>16, <1>17

LEMMA Lengths ==
  /\ Len(ToLoad) = 8 /\ Len(ToStore) = 7 /\ Len(ToLock) = 6 /\ Len(ToSave) = 5
  /\ Len(ToMove) = 4 /\ Len(ToPrint) = 3 /\ Len(ToMoveBack) = 2 /\ Len(ToUnlock) = 1
  /\ Len(ToLock1) = 9 /\ Len(ToSay1) = 8 /\ Len(ToNext1) = 7 /\ Len(ToUnlock1) = 6
  /\ Len(ToLock2) = 5 /\ Len(ToSay2) = 4 /\ Len(ToNext2) = 3 /\ Len(ToUnlock2) = 2
  /\ Len(ToEnd) = 1
BY DEF Then, ToLock, ToSave, ToMove, ToPrint, ToMoveBack, ToUnlock,
       ToLoad, ToStore, ToLock1, ToSay1, ToNext1, ToUnlock1,
       ToLock2, ToSay2, ToNext2, ToUnlock2, ToEnd

\* Which call a task makes says where it is.
LEMMA Advance ==
  ASSUME NEW c \in Everywhere, c # <<>>
  PROVE  /\ Head(c) = "load_count" => c = ToLoad /\ Tail(c) = ToStore
         /\ Head(c) = "store_count" => c = ToStore /\ Tail(c) = ToLock
         /\ Head(c) = "lock" =>
              \/ c = ToLock /\ Tail(c) = ToSave
              \/ c \in {ToLock1, ToLock2} /\ Tail(c) \in {ToSay1, ToSay2}
         /\ Head(c) = "get_cursor_pos" => c = ToSave /\ Tail(c) = ToMove
         /\ Head(c) = "move_cursor" => c = ToMove /\ Tail(c) = ToPrint
         /\ Head(c) = "print" =>
              \/ c = ToPrint /\ Tail(c) = ToMoveBack
              \/ c \in {ToSay1, ToSay2} /\ Tail(c) \in {ToNext1, ToNext2}
         /\ Head(c) = "move_back" => c = ToMoveBack /\ Tail(c) = ToUnlock
         /\ Head(c) = "next_line" =>
              c \in {ToNext1, ToNext2} /\ Tail(c) \in {ToUnlock1, ToUnlock2}
         /\ Head(c) = "unlock" =>
              \/ c = ToUnlock /\ Len(c) = 1
              \/ /\ c \in {ToUnlock1, ToUnlock2} /\ Len(c) # 1
                 /\ Tail(c) \in {ToLock2, ToEnd}
<1>1. CASE c = ToLoad
  BY <1>1, Points, Lengths
<1>2. CASE c = ToStore
  BY <1>2, Points, Lengths
<1>3. CASE c = ToLock
  BY <1>3, Points, Lengths
<1>4. CASE c = ToSave
  BY <1>4, Points, Lengths
<1>5. CASE c = ToMove
  BY <1>5, Points, Lengths
<1>6. CASE c = ToPrint
  BY <1>6, Points, Lengths
<1>7. CASE c = ToMoveBack
  BY <1>7, Points, Lengths
<1>8. CASE c = ToUnlock
  BY <1>8, Points, Lengths
<1>9. CASE c = ToLock1
  BY <1>9, Points, Lengths
<1>10. CASE c = ToSay1
  BY <1>10, Points, Lengths
<1>11. CASE c = ToNext1
  BY <1>11, Points, Lengths
<1>12. CASE c = ToUnlock1
  BY <1>12, Points, Lengths
<1>13. CASE c = ToLock2
  BY <1>13, Points, Lengths
<1>14. CASE c = ToSay2
  BY <1>14, Points, Lengths
<1>15. CASE c = ToNext2
  BY <1>15, Points, Lengths
<1>16. CASE c = ToUnlock2
  BY <1>16, Points, Lengths
<1>17. CASE c = ToEnd
  BY <1>17, Points, Lengths
<1> QED
  BY <1>1, <1>2, <1>3, <1>4, <1>5, <1>6, <1>7, <1>8, <1>9,
     <1>10, <1>11, <1>12, <1>13, <1>14, <1>15, <1>16, <1>17
  DEF Everywhere, InRound, InSaying, CursorAway

LEMMA PointSets ==
  /\ CursorAway \subseteq InRound /\ CursorAway \subseteq Holding
  /\ InRound \cap InSaying = {} /\ ToStore \notin InRound \cup InSaying
  /\ ToLoad \notin InRound \cup InSaying /\ ToLoad # ToStore
  /\ <<>> \notin {ToLoad, ToStore} \cup InRound \cup InSaying
  /\ Holding \subseteq InRound \cup InSaying
  /\ Holding \cap {ToLock, ToLock1, ToLock2, ToEnd} = {}
  /\ CursorAway \cap {ToLock, ToSave, ToUnlock} = {}
  /\ ToPrint # ToMoveBack /\ ToMove \notin {ToPrint, ToMoveBack}
<1>1. /\ CursorAway \subseteq InRound /\ CursorAway \subseteq Holding
      /\ Holding \subseteq InRound \cup InSaying
  BY DEF CursorAway, InRound, Holding, InSaying
<1>2. InRound \cap InSaying = {}
  BY Points, Lengths DEF CursorAway, InRound, Holding, InSaying
<1>3. /\ ToStore \notin InRound \cup InSaying
      /\ ToLoad \notin InRound \cup InSaying /\ ToLoad # ToStore
  BY Points, Lengths DEF CursorAway, InRound, Holding, InSaying
<1>4. <<>> \notin {ToLoad, ToStore} \cup InRound \cup InSaying
  BY Points DEF CursorAway, InRound, Holding, InSaying
<1>5. Holding \cap {ToLock, ToLock1, ToLock2, ToEnd} = {}
  BY Points, Lengths DEF CursorAway, InRound, Holding, InSaying
<1>6. /\ CursorAway \cap {ToLock, ToSave, ToUnlock} = {}
      /\ ToPrint # ToMoveBack /\ ToMove \notin {ToPrint, ToMoveBack}
  BY Points, Lengths DEF CursorAway, InRound, Holding, InSaying
<1> QED BY <1>1, <1>2, <1>3, <1>4, <1>5, <1>6


\* A task that goes on to d, with its place and its saved cursor.
GoesTo(t, d, p, q) ==
    /\ calls' = [calls EXCEPT ![t] = d]
    /\ pos' = [pos EXCEPT ![t] = p]
    /\ cursor_pos' = [cursor_pos EXCEPT ![t] = q]

\* A timer that has its place keeps it.
LEMMA PlacedGrows ==
  ASSUME TasksInv, NEW t \in Tasks, NEW d, NEW p, NEW q, GoesTo(t, d, p, q),
         calls[t] \in InRound => d \in InRound
  PROVE  /\ Cardinality(Placed) \in Nat /\ Cardinality(Placed)' \in Nat
         /\ Cardinality(Placed) <= Cardinality(Placed)'
         /\ d \in InRound /\ calls[t] \notin InRound =>
                Cardinality(Placed)' = Cardinality(Placed) + 1
PROOF
<1>1. IsFiniteSet(Placed)
  BY PlacesFit, FS_Subset DEF Placed
<1>2. CASE calls[t] \in InRound \/ d \notin InRound
  <2>1. Placed' = Placed
    BY <1>2 DEF Placed, GoesTo, TasksInv
  <2> QED BY <1>1, <1>2, <2>1, FS_CardinalityType
<1>3. CASE calls[t] \notin InRound /\ d \in InRound
  <2>2. calls'[t] = d /\ \A u \in Tasks \ {t} : calls'[u] = calls[u]
    BY DEF GoesTo, TasksInv
  <2>1. Placed' = Placed \cup {t} /\ t \notin Placed
    <3>1. \A u \in Tasks : u \in Placed' <=> calls'[u] \in InRound
      BY DEF Placed
    <3>2. \A u \in Tasks : u \in Placed <=> calls[u] \in InRound
      BY DEF Placed
    <3>3. Placed' \subseteq Tasks /\ Placed \subseteq Tasks
      BY DEF Placed
    <3>4. ASSUME NEW u \in Tasks PROVE u \in Placed' <=> u \in Placed \/ u = t
      BY <1>3, <2>2, <3>1, <3>2
    <3>5. t \notin Placed
      BY <1>3, <3>2
    <3> QED BY <3>3, <3>4, <3>5
  <2>3. /\ Cardinality(Placed) \in Nat
        /\ Cardinality(Placed \cup {t}) = Cardinality(Placed) + 1
    BY <1>1, <2>1, FS_CardinalityType, FS_AddElement
  <2>4. Cardinality(Placed') = Cardinality(Placed) + 1
    BY <2>1, <2>3
  <2> QED BY <1>3, <2>3, <2>4
<1> QED BY <1>2, <1>3

LEMMA TaskKeeps ==
  ASSUME TasksInv, NEW t \in Tasks, NEW d \in Everywhere, NEW p, NEW q,
         GoesTo(t, d, p, q),
         calls[t] \in InRound => d \in InRound,
         q \in Cells \cup {nothing}, q # nothing <=> d \in CursorAway,
         IF d \in InRound THEN p \in 0..(Cardinality(Placed)' - 1)
         ELSE IF d = ToStore THEN p \in 0..Cardinality(Placed)'
         ELSE p = nothing,
         task_count' \in 0..Cardinality(Placed)',
         terminal_mutex' \in BOOLEAN,
         d \in Holding => terminal_mutex' /\ (calls[t] \in Holding \/ ~terminal_mutex),
         d \notin Holding /\ calls[t] \notin Holding => terminal_mutex' = terminal_mutex
  PROVE  TasksInv'
PROOF
<1>1. /\ Cardinality(Placed) \in Nat /\ Cardinality(Placed)' \in Nat
      /\ Cardinality(Placed) <= Cardinality(Placed)'
  BY PlacedGrows
<1>2. /\ calls' = [u \in Tasks |-> calls'[u]] /\ pos' = [u \in Tasks |-> pos'[u]]
      /\ cursor_pos' = [u \in Tasks |-> cursor_pos'[u]]
      /\ calls'[t] = d /\ pos'[t] = p /\ cursor_pos'[t] = q
      /\ \A u \in Tasks \ {t} :
             calls'[u] = calls[u] /\ pos'[u] = pos[u] /\ cursor_pos'[u] = cursor_pos[u]
  BY DEF TasksInv, GoesTo
<1>3. TaskIs(t)'
  BY <1>2 DEF TaskIs
<1>4. ASSUME NEW u \in Tasks \ {t} PROVE TaskIs(u)'
  <2>1. TaskIs(u)
    BY DEF TasksInv
  <2> QED BY <1>1, <1>2, <2>1 DEF TaskIs
<1>5. \A u \in Tasks : calls'[u] \in Holding => terminal_mutex'
  BY <1>2 DEF TasksInv
<1>6. \A u, v \in Tasks : calls'[u] \in Holding /\ calls'[v] \in Holding => u = v
  BY <1>2 DEF TasksInv
<1> QED BY <1>2, <1>3, <1>4, <1>5, <1>6 DEF TasksInv

\* A task that keeps its place and its saved cursor.
LEMMA QuietKeeps ==
  ASSUME TasksInv, NEW t \in Tasks, NEW d \in Everywhere,
         calls' = [calls EXCEPT ![t] = d], UNCHANGED <<pos, cursor_pos, task_count>>,
         calls[t] \in InRound <=> d \in InRound,
         calls[t] \in CursorAway <=> d \in CursorAway,
         calls[t] # ToStore, d # ToStore,
         terminal_mutex' \in BOOLEAN,
         d \in Holding => terminal_mutex' /\ (calls[t] \in Holding \/ ~terminal_mutex),
         d \notin Holding /\ calls[t] \notin Holding => terminal_mutex' = terminal_mutex
  PROVE  TasksInv' /\ GoesTo(t, d, pos[t], cursor_pos[t])
PROOF
<1>1. GoesTo(t, d, pos[t], cursor_pos[t])
  BY DEF GoesTo, TasksInv
<1>2. /\ Cardinality(Placed) <= Cardinality(Placed)' /\ Cardinality(Placed)' \in Nat
      /\ Cardinality(Placed) \in Nat
  BY <1>1, PlacedGrows
<1>3. TaskIs(t) /\ task_count \in 0..Cardinality(Placed)
  BY DEF TasksInv
<1>4. IF d \in InRound THEN pos[t] \in 0..(Cardinality(Placed)' - 1)
      ELSE IF d = ToStore THEN pos[t] \in 0..Cardinality(Placed)'
      ELSE pos[t] = nothing
  BY <1>2, <1>3 DEF TaskIs
<1>5. /\ cursor_pos[t] \in Cells \cup {nothing}
      /\ cursor_pos[t] # nothing <=> d \in CursorAway
      /\ task_count' \in 0..Cardinality(Placed)'
  BY <1>2, <1>3 DEF TaskIs
<1> QED BY <1>1, <1>4, <1>5, TaskKeeps

LEMMA CreateKeeps ==
  ASSUME TasksInv, NEW t \in Tasks,
         Create(t, TakePlace \o Round) \/ Create(t, Say \o Say \o <<"end">>)
  PROVE  /\ TasksInv' /\ UNCHANGED <<pos, cursor_pos>>
         /\ \E d \in {ToLoad, ToLock1} : calls' = [calls EXCEPT ![t] = d]
         /\ calls[t] = <<>>
PROOF
<1>1. /\ calls[t] = <<>>
      /\ UNCHANGED <<terminal_mutex, task_count, pos, cursor_pos>>
      /\ \E d \in {ToLoad, ToLock1} : calls' = [calls EXCEPT ![t] = d]
  BY Programs DEF Create
<1>2. PICK d \in {ToLoad, ToLock1} : calls' = [calls EXCEPT ![t] = d]
  BY <1>1
<1>3. GoesTo(t, d, pos[t], cursor_pos[t])
  BY <1>1, <1>2 DEF GoesTo, TasksInv
<1>4. /\ d \in Everywhere /\ d \notin InRound /\ d # ToStore /\ d \notin CursorAway
      /\ d \notin Holding /\ calls[t] \notin InRound /\ calls[t] \notin Holding
      /\ calls[t] # ToStore /\ calls[t] \notin CursorAway
  BY <1>1, PointSets DEF Everywhere, InSaying
<1>5. pos[t] = nothing /\ cursor_pos[t] = nothing
  BY <1>4 DEF TasksInv, TaskIs
<1>6. task_count' \in 0..Cardinality(Placed)'
  BY <1>1, <1>3, <1>4, PlacedGrows DEF TasksInv
<1>7. TasksInv'
  <2>1. terminal_mutex' = terminal_mutex /\ terminal_mutex \in BOOLEAN
    BY <1>1 DEF TasksInv
  <2> QED BY <1>3, <1>4, <1>5, <1>6, <2>1, TaskKeeps
<1> QED BY <1>1, <1>7

\* What a task that goes on changes.
LEMMA StepKeeps ==
  ASSUME TasksInv, Drawn(screen), NEW t \in Tasks, TaskStep(t)
  PROVE  /\ TasksInv'
         /\ \E d \in Everywhere : \E p, q : GoesTo(t, d, p, q)
         /\ \/ /\ screen' = screen /\ cursor_pos' = cursor_pos
               /\ calls'[t] \notin {ToPrint, ToMoveBack}
            \/ /\ calls[t] = ToSave /\ screen' = screen /\ calls'[t] = ToMove
               /\ cursor_pos' = [cursor_pos EXCEPT ![t] = screen.cursor] /\ pos' = pos
            \/ /\ calls[t] = ToMove /\ calls'[t] = ToPrint
               /\ MoveCursor(Place(pos[t])) /\ UNCHANGED <<pos, cursor_pos>>
            \/ /\ calls[t] = ToPrint /\ calls'[t] = ToMoveBack
               /\ NextIs(t, "print") /\ PutChar(text) /\ UNCHANGED <<pos, cursor_pos>>
            \/ /\ calls[t] \in Holding \ InRound /\ InLine(t)
               /\ calls'[t] \notin {ToPrint, ToMoveBack}
               /\ PutChar(text) \/ NextLine
               /\ UNCHANGED <<pos, cursor_pos>>
            \/ /\ calls[t] = ToMoveBack /\ calls'[t] = ToUnlock
               /\ MoveCursor(cursor_pos[t]) /\ pos' = pos
               /\ cursor_pos' = [cursor_pos EXCEPT ![t] = nothing]
PROOF
<1>0. /\ calls[t] \in Everywhere /\ TaskIs(t)
      /\ task_count \in 0..Cardinality(Placed) /\ terminal_mutex \in BOOLEAN
      /\ calls[t] \in Holding => terminal_mutex
      /\ DOMAIN calls = Tasks /\ DOMAIN pos = Tasks /\ DOMAIN cursor_pos = Tasks
  BY DEF TasksInv, TaskIs
<1>1. CASE LoadCount(t)
  <2>1. /\ calls[t] = ToLoad /\ calls' = [calls EXCEPT ![t] = ToStore]
        /\ pos' = [pos EXCEPT ![t] = task_count] /\ cursor_pos' = cursor_pos
        /\ screen' = screen /\ task_count' = task_count
        /\ terminal_mutex' = terminal_mutex
    BY <1>0, <1>1, Advance DEF LoadCount, Goes, NextIs
  <2>2. GoesTo(t, ToStore, task_count, cursor_pos[t])
    BY <2>1 DEF GoesTo, TasksInv
  <2>3. /\ ToStore \in Everywhere /\ ToStore \notin InRound /\ ToStore \notin CursorAway
        /\ ToStore \notin Holding /\ ToLoad \notin InRound \cup Holding \cup CursorAway
        /\ ToStore \notin {ToPrint, ToMoveBack}
    BY PointSets DEF Everywhere, InRound, CursorAway
  <2>4. Cardinality(Placed) <= Cardinality(Placed)' /\ Cardinality(Placed)' \in Nat
        /\ Cardinality(Placed) \in Nat
    BY <2>1, <2>2, <2>3, PlacedGrows
  <2>5. task_count' \in 0..Cardinality(Placed)' /\ task_count \in 0..Cardinality(Placed)'
    BY <1>0, <2>1, <2>4
  <2>6. cursor_pos[t] = nothing
    BY <1>0, <2>1, <2>3 DEF TaskIs
  <2>7. TasksInv'
    BY <1>0, <2>1, <2>2, <2>3, <2>5, <2>6, TaskKeeps
  <2> QED BY <1>0, <2>1, <2>2, <2>3, <2>7
<1>2. CASE StoreCount(t)
  <2>1. /\ calls[t] = ToStore /\ calls' = [calls EXCEPT ![t] = ToLock]
        /\ pos' = pos /\ cursor_pos' = cursor_pos /\ screen' = screen
        /\ task_count' \in {pos[t] + 1, task_count + 1}
        /\ terminal_mutex' = terminal_mutex
    BY <1>0, <1>2, Advance DEF StoreCount, Goes, NextIs
  <2>2. GoesTo(t, ToLock, pos[t], cursor_pos[t])
    BY <2>1 DEF GoesTo, TasksInv
  <2>3. /\ ToLock \in Everywhere /\ ToLock \in InRound /\ ToLock \notin CursorAway
        /\ ToLock \notin Holding /\ ToStore \notin InRound \cup Holding \cup CursorAway
        /\ ToLock \notin {ToPrint, ToMoveBack}
    BY PointSets DEF Everywhere, InRound, CursorAway
  <2>4. Cardinality(Placed)' = Cardinality(Placed) + 1 /\ Cardinality(Placed) \in Nat
    BY <2>1, <2>2, <2>3, PlacedGrows
  <2>5. pos[t] \in 0..Cardinality(Placed) /\ cursor_pos[t] = nothing
    BY <1>0, <2>1, <2>3 DEF TaskIs
  <2>6. task_count' \in 0..Cardinality(Placed)' /\ pos[t] \in 0..(Cardinality(Placed)' - 1)
    BY <1>0, <2>1, <2>4, <2>5
  <2>7. TasksInv'
    BY <1>0, <2>1, <2>2, <2>3, <2>5, <2>6, TaskKeeps
  <2> QED BY <1>0, <2>1, <2>2, <2>3, <2>7
<1>3. CASE Lock(t)
  <2>1. PICK d \in {ToSave, ToSay1, ToSay2} :
          /\ \/ calls[t] = ToLock /\ d = ToSave
             \/ calls[t] \in {ToLock1, ToLock2} /\ d \in {ToSay1, ToSay2}
          /\ calls' = [calls EXCEPT ![t] = d]
    <3>1. /\ calls[t] # <<>> /\ Head(calls[t]) = "lock"
          /\ calls' = [calls EXCEPT ![t] = Tail(calls[t])]
      BY <1>3 DEF Lock, Goes, NextIs
    <3>2. \/ calls[t] = ToLock /\ Tail(calls[t]) = ToSave
          \/ calls[t] \in {ToLock1, ToLock2} /\ Tail(calls[t]) \in {ToSay1, ToSay2}
      BY <1>0, <3>1, Advance
    <3> QED BY <3>1, <3>2
  <2>2. /\ UNCHANGED <<pos, cursor_pos, task_count>> /\ screen' = screen
        /\ ~terminal_mutex /\ terminal_mutex' = TRUE
    BY <1>3 DEF Lock
  <2>3. /\ d \in Everywhere /\ d \in Holding /\ d # ToStore /\ calls[t] # ToStore
        /\ calls[t] \in InRound <=> d \in InRound
        /\ calls[t] \notin CursorAway /\ d \notin CursorAway
        /\ d \notin {ToPrint, ToMoveBack}
    BY <2>1, PointSets DEF Everywhere, InRound, InSaying, Holding, CursorAway
  <2>4. TasksInv' /\ GoesTo(t, d, pos[t], cursor_pos[t])
    BY <2>1, <2>2, <2>3, QuietKeeps
  <2> QED BY <1>0, <2>1, <2>2, <2>3, <2>4
<1>4. CASE Unlock(t)
  <2>1. PICK d \in {ToLock, ToLock2, ToEnd} :
          /\ \/ calls[t] = ToUnlock /\ d = ToLock
             \/ calls[t] \in {ToUnlock1, ToUnlock2} /\ d \in {ToLock2, ToEnd}
          /\ calls' = [calls EXCEPT ![t] = d]
    <3>1. /\ calls[t] # <<>> /\ Head(calls[t]) = "unlock"
          /\ calls' = [calls EXCEPT ![t] = IF Len(calls[t]) = 1 THEN ToLock
                                           ELSE Tail(calls[t])]
      BY <1>4, Programs DEF Unlock, NextIs
    <3>2. \/ calls[t] = ToUnlock /\ Len(calls[t]) = 1
          \/ /\ calls[t] \in {ToUnlock1, ToUnlock2} /\ Len(calls[t]) # 1
             /\ Tail(calls[t]) \in {ToLock2, ToEnd}
      BY <1>0, <3>1, Advance
    <3> QED BY <3>1, <3>2
  <2>2. /\ UNCHANGED <<pos, cursor_pos, task_count>> /\ screen' = screen
        /\ terminal_mutex' = FALSE
    BY <1>4 DEF Unlock
  <2>3. /\ d \in Everywhere /\ d \notin Holding /\ calls[t] \in Holding
        /\ d # ToStore /\ calls[t] # ToStore
        /\ calls[t] \in InRound <=> d \in InRound
        /\ calls[t] \notin CursorAway /\ d \notin CursorAway
        /\ d \notin {ToPrint, ToMoveBack}
    BY <2>1, PointSets DEF Everywhere, InRound, InSaying, Holding, CursorAway
  <2>4. TasksInv' /\ GoesTo(t, d, pos[t], cursor_pos[t])
    BY <2>1, <2>2, <2>3, QuietKeeps
  <2> QED BY <1>0, <2>1, <2>2, <2>3, <2>4
<1>5. CASE SaveCursor(t)
  <2>1. /\ calls[t] = ToSave /\ calls' = [calls EXCEPT ![t] = ToMove]
        /\ pos' = pos /\ cursor_pos' = [cursor_pos EXCEPT ![t] = screen.cursor]
        /\ screen' = screen /\ task_count' = task_count
        /\ terminal_mutex' = terminal_mutex
    BY <1>0, <1>5, Advance DEF SaveCursor, Goes, NextIs
  <2>2. GoesTo(t, ToMove, pos[t], screen.cursor)
    BY <2>1 DEF GoesTo, TasksInv
  <2>3. /\ ToMove \in Everywhere /\ ToMove \in InRound /\ ToMove \in CursorAway
        /\ ToMove \in Holding /\ ToSave \in InRound /\ ToSave \in Holding
    BY PointSets DEF Everywhere, InRound, CursorAway, Holding
  <2>4. screen.cursor \in Cells /\ screen.cursor # nothing
    BY PlacesFit DEF Drawn, Screens
  <2>5. Cardinality(Placed) <= Cardinality(Placed)' /\ Cardinality(Placed)' \in Nat
        /\ Cardinality(Placed) \in Nat
    BY <2>1, <2>2, <2>3, PlacedGrows
  <2>6. task_count' \in 0..Cardinality(Placed)' /\ pos[t] \in 0..(Cardinality(Placed)' - 1)
    BY <1>0, <2>1, <2>3, <2>5 DEF TaskIs
  <2>7. TasksInv'
    BY <1>0, <2>1, <2>2, <2>3, <2>4, <2>6, TaskKeeps
  <2> QED BY <1>0, <2>1, <2>2, <2>3, <2>7
<1>6. CASE MoveBack(t)
  <2>1. /\ calls[t] = ToMoveBack /\ calls' = [calls EXCEPT ![t] = ToUnlock]
        /\ pos' = pos /\ cursor_pos' = [cursor_pos EXCEPT ![t] = nothing]
        /\ MoveCursor(cursor_pos[t]) /\ task_count' = task_count
        /\ terminal_mutex' = terminal_mutex
    BY <1>0, <1>6, Advance DEF MoveBack, Goes, NextIs
  <2>2. GoesTo(t, ToUnlock, pos[t], nothing)
    BY <2>1 DEF GoesTo, TasksInv
  <2>3. /\ ToUnlock \in Everywhere /\ ToUnlock \in InRound /\ ToUnlock \notin CursorAway
        /\ ToUnlock \in Holding /\ ToMoveBack \in InRound /\ ToMoveBack \in Holding
    BY PointSets DEF Everywhere, InRound, CursorAway, Holding
  <2>5. Cardinality(Placed) <= Cardinality(Placed)' /\ Cardinality(Placed)' \in Nat
        /\ Cardinality(Placed) \in Nat
    BY <2>1, <2>2, <2>3, PlacedGrows
  <2>6. task_count' \in 0..Cardinality(Placed)' /\ pos[t] \in 0..(Cardinality(Placed)' - 1)
    BY <1>0, <2>1, <2>3, <2>5 DEF TaskIs
  <2>7. TasksInv'
    BY <1>0, <2>1, <2>2, <2>3, <2>6, TaskKeeps
  <2> QED BY <1>0, <2>1, <2>2, <2>3, <2>7
<1>7. CASE ToPlace(t)
  <2>1. /\ calls[t] = ToMove /\ calls' = [calls EXCEPT ![t] = ToPrint]
        /\ UNCHANGED <<pos, cursor_pos, task_count, terminal_mutex>>
        /\ MoveCursor(Place(pos[t]))
    BY <1>0, <1>7, Advance DEF ToPlace, Goes, NextIs
  <2>2. /\ ToPrint \in Everywhere /\ {ToPrint, ToMove} \subseteq InRound
        /\ {ToPrint, ToMove} \subseteq CursorAway /\ {ToPrint, ToMove} \subseteq Holding
        /\ ToStore \notin InRound
    BY PointSets DEF Everywhere, InRound, CursorAway, Holding
  <2>3. TasksInv' /\ GoesTo(t, ToPrint, pos[t], cursor_pos[t])
    BY <1>0, <2>1, <2>2, QuietKeeps
  <2> QED BY <1>0, <2>1, <2>2, <2>3
<1>8. CASE Show(t) \/ EndLine(t)
  <2>1. PICK d \in {ToMoveBack, ToNext1, ToNext2, ToUnlock1, ToUnlock2} :
          /\ \/ /\ calls[t] = ToPrint /\ d = ToMoveBack
                /\ NextIs(t, "print") /\ PutChar(text)
             \/ /\ calls[t] \in {ToSay1, ToSay2} /\ d \in {ToNext1, ToNext2}
                /\ NextIs(t, "print") /\ PutChar(text)
             \/ /\ calls[t] \in {ToNext1, ToNext2} /\ d \in {ToUnlock1, ToUnlock2}
                /\ NextIs(t, "next_line") /\ NextLine
          /\ calls' = [calls EXCEPT ![t] = d]
    BY <1>0, <1>8, Advance DEF Show, EndLine, Goes, NextIs
  <2>2. UNCHANGED <<pos, cursor_pos, task_count, terminal_mutex>>
    BY <1>8 DEF Show, EndLine
  <2>3. /\ d \in Everywhere /\ d \in Holding /\ calls[t] \in Holding
        /\ d # ToStore /\ calls[t] # ToStore
        /\ calls[t] \in InRound <=> d \in InRound
        /\ calls[t] \in CursorAway <=> d \in CursorAway
        /\ \/ calls[t] = ToPrint
           \/ calls[t] \notin InRound /\ d \notin CursorAway
    <3>1. CASE calls[t] = ToPrint /\ d = ToMoveBack
      <4>1. {ToPrint, ToMoveBack} \subseteq CursorAway
        BY DEF CursorAway
      <4>2. calls[t] \in CursorAway /\ d \in CursorAway
        BY <3>1, <4>1
      <4>3. /\ CursorAway \subseteq InRound /\ CursorAway \subseteq Holding
            /\ ToStore \notin InRound
        BY PointSets
      <4>4. InRound \subseteq Everywhere
        BY DEF Everywhere
      <4>5. /\ calls[t] \in InRound /\ d \in InRound
            /\ calls[t] \in Holding /\ d \in Holding
        BY <4>2, <4>3
      <4>6. d # ToStore /\ calls[t] # ToStore
        BY <4>3, <4>5
      <4>7. d \in Everywhere
        BY <4>4, <4>5
      <4> QED BY <3>1, <4>2, <4>5, <4>6, <4>7, Zenon
    <3>2. CASE {calls[t], d} \subseteq {ToSay1, ToSay2, ToNext1, ToNext2, ToUnlock1, ToUnlock2}
      <4>1. {calls[t], d} \subseteq InSaying /\ {calls[t], d} \subseteq Holding
        BY <3>2 DEF InSaying, Holding
      <4> QED BY <4>1, PointSets DEF Everywhere
    <3> QED BY <2>1, <3>1, <3>2
  <2>4. TasksInv' /\ GoesTo(t, d, pos[t], cursor_pos[t])
    BY <1>0, <2>1, <2>2, <2>3, QuietKeeps
  <2>5. calls[t] \notin InRound => pos[t] = nothing
    BY <1>0, <2>3 DEF TaskIs
  <2>6. d \notin CursorAway => d \notin {ToPrint, ToMoveBack}
    BY DEF CursorAway
  <2>7. calls'[t] = d
    BY <1>0, <2>1
  <2>8. CASE calls[t] = ToPrint
    <3>1. d = ToMoveBack /\ NextIs(t, "print") /\ PutChar(text)
      BY <2>1, <2>8, PointSets DEF InRound, CursorAway, InSaying
    <3> QED BY <2>2, <2>3, <2>4, <2>7, <2>8, <3>1
  <2>9. CASE calls[t] # ToPrint
    <3>1. InLine(t) /\ (PutChar(text) \/ NextLine)
      BY <2>1, <2>3, <2>5, <2>9 DEF InLine
    <3> QED BY <2>2, <2>3, <2>4, <2>6, <2>7, <2>9, <3>1
  <2> QED BY <2>8, <2>9
<1> QED
  BY <1>1, <1>2, <1>3, <1>4, <1>5, <1>6, <1>7, <1>8 DEF TaskStep

----------------------------------------------------------------------------
(* The calls of the shell.                                                 *)

LEMMA PromptIs ==
  /\ Prompt \in Nat /\ Prompt > 0 /\ MAX_BUFFER_SIZE \in Nat
  /\ Prompt + MAX_BUFFER_SIZE < Width
  /\ print_prompt \in Seq(Calls) /\ Len(print_prompt) = Prompt
  /\ \A i \in 1..Prompt : print_prompt[i] = "text"
BY LineFits DEF print_prompt, Calls

LEMMA ConcatIs ==
  ASSUME NEW S, NEW a \in Seq(S), NEW b \in Seq(S)
  PROVE  /\ a \o b \in Seq(S) /\ Len(a \o b) = Len(a) + Len(b)
         /\ \A k \in 1..(Len(a) + Len(b)) :
                (a \o b)[k] = IF k <= Len(a) THEN a[k] ELSE b[k - Len(a)]
BY ConcatProperties, SMTT(60)

LEMMA LengthZero ==
  ASSUME NEW S, NEW s \in Seq(S), Len(s) = 0
  PROVE  s = <<>>
OBVIOUS

LEMMA PromptingTail ==
  ASSUME NEW s \in Seq(Calls), s # <<>>, NEW n, NEW e \in {0, 1}, Prompting(s, n, e)
  PROVE  \/ /\ n > 0 /\ Prompting(Tail(s), n - 1, e)
            /\ Head(s) \notin {"clear_buffer", "move_left"}
            /\ n <= Prompt => Head(s) = "text"
            /\ n = Prompt + 1 => Head(s) = "next_line"
         \/ n = 0 /\ e = 1 /\ Head(s) = "clear_buffer" /\ Tail(s) = <<>>
PROOF
<1>1. /\ n \in Nat /\ Len(s) = n + e /\ Prompt \in Nat
      /\ Head(s) = s[1] /\ Tail(s) \in Seq(Calls) /\ Len(Tail(s)) = Len(s) - 1
      /\ \A i \in 1..(Len(s) - 1) : Tail(s)[i] = s[i + 1]
  BY PromptIs DEF Prompting
<1>2. CASE n = 0
  <2>1. e = 1 /\ Len(Tail(s)) = 0
    BY <1>1, <1>2
  <2>2. Tail(s) = <<>>
    BY <1>1, <2>1, LengthZero, Zenon
  <2>3. Head(s) = "clear_buffer"
    BY <1>1, <1>2, <2>1 DEF Prompting
  <2> QED BY <1>2, <2>1, <2>2, <2>3
<1>3. CASE n > 0
  <2>1. /\ Head(s) \notin {"clear_buffer", "move_left"}
        /\ n <= Prompt => Head(s) = "text"
        /\ n = Prompt + 1 => Head(s) = "next_line"
    BY <1>1, <1>3 DEF Prompting
  <2>2. /\ n - 1 \in Nat /\ Len(Tail(s)) = (n - 1) + e
        /\ e = 1 => Tail(s)[(n - 1) + 1] = "clear_buffer"
    BY <1>1, <1>3 DEF Prompting
  <2>3. ASSUME NEW i \in 1..(n - 1)
        PROVE  /\ Tail(s)[i] \notin {"clear_buffer", "move_left"}
               /\ i > (n - 1) - Prompt => Tail(s)[i] = "text"
               /\ i = (n - 1) - Prompt => Tail(s)[i] = "next_line"
    <3>1. Tail(s)[i] = s[i + 1] /\ i + 1 \in 1..n
      BY <1>1, <1>3
    <3> QED BY <1>1, <3>1 DEF Prompting
  <2> QED BY <1>3, <2>1, <2>2, <2>3 DEF Prompting
<1> QED BY <1>1, <1>2, <1>3

\* Two sequences of calls, one after the other.
LEMMA PromptingStarts ==
  ASSUME NEW output \in Seq(Calls), Range(output) \cap {"clear_buffer", "move_left"} = {}
  PROVE  LET s == output \o <<"next_line">> \o print_prompt \o <<"clear_buffer">>
         IN  /\ s \in Seq(Calls) /\ Len(s) = Len(output) + Prompt + 2
             /\ Prompting(s, Len(output) + Prompt + 1, 1)
PROOF
<1> DEFINE s1 == output \o <<"next_line">>
           s2 == s1 \o print_prompt
           s == s2 \o <<"clear_buffer">>
           m == Len(output)
<1>1. /\ m \in Nat /\ Prompt \in Nat
      /\ <<"next_line">> \in Seq(Calls) /\ <<"clear_buffer">> \in Seq(Calls)
      /\ Len(<<"next_line">>) = 1 /\ Len(<<"clear_buffer">>) = 1
      /\ <<"next_line">>[1] = "next_line" /\ <<"clear_buffer">>[1] = "clear_buffer"
  BY PromptIs DEF Calls
<1>2. /\ s1 \in Seq(Calls) /\ Len(s1) = m + 1
      /\ \A i \in 1..(m + 1) : s1[i] = IF i <= m THEN output[i] ELSE "next_line"
  BY <1>1, ConcatProperties
<1> HIDE DEF s1
<1>3. /\ s2 \in Seq(Calls) /\ Len(s2) = m + 1 + Prompt
      /\ \A i \in 1..(m + 1 + Prompt) :
             s2[i] = IF i <= m + 1 THEN s1[i] ELSE print_prompt[i - (m + 1)]
  <2>1. print_prompt \in Seq(Calls) /\ Len(print_prompt) = Prompt
    BY PromptIs
  <2> HIDE DEF s2
  <2>2. /\ s1 \o print_prompt \in Seq(Calls)
        /\ Len(s1 \o print_prompt) = Len(s1) + Len(print_prompt)
        /\ \A i \in 1..(Len(s1) + Len(print_prompt)) :
               (s1 \o print_prompt)[i] =
                   IF i <= Len(s1) THEN s1[i] ELSE print_prompt[i - Len(s1)]
    BY <1>2, <2>1, ConcatIs, Zenon
  <2> QED BY <1>1, <1>2, <2>1, <2>2 DEF s2
<1> HIDE DEF s2
<1>4. /\ s \in Seq(Calls) /\ Len(s) = m + 1 + Prompt + 1
      /\ \A i \in 1..(m + 1 + Prompt + 1) :
             s[i] = IF i <= m + 1 + Prompt THEN s2[i] ELSE "clear_buffer"
  BY <1>1, <1>3, ConcatProperties
<1> HIDE DEF s
<1>5. /\ s[m + 1 + Prompt + 1] = "clear_buffer"
      /\ \A i \in 1..m : s[i] = output[i]
      /\ s[m + 1] = "next_line"
      /\ \A i \in (m + 2)..(m + 1 + Prompt) : s[i] = "text"
  <2>1. s[m + 1 + Prompt + 1] = "clear_buffer"
    BY <1>1, <1>4
  <2>2. \A i \in 1..m : s[i] = output[i]
    BY <1>1, <1>2, <1>3, <1>4
  <2>3. s[m + 1] = "next_line"
    BY <1>1, <1>2, <1>3, <1>4
  <2>4. ASSUME NEW i \in (m + 2)..(m + 1 + Prompt) PROVE s[i] = "text"
    <3>1. s[i] = print_prompt[i - (m + 1)] /\ i - (m + 1) \in 1..Prompt
      BY <1>1, <1>3, <1>4
    <3> QED BY <3>1, PromptIs
  <2> QED BY <2>1, <2>2, <2>3, <2>4
<1>6. \A i \in 1..m : output[i] \notin {"clear_buffer", "move_left"}
  <2>1. \A i \in 1..m : output[i] \in Range(output)
    BY DEF Range
  <2> QED BY <2>1
<1>7. Prompting(s, m + 1 + Prompt, 1)
  <2>1. ASSUME NEW i \in 1..(m + 1 + Prompt)
        PROVE  /\ s[i] \notin {"clear_buffer", "move_left"}
               /\ i > (m + 1 + Prompt) - Prompt => s[i] = "text"
               /\ i = (m + 1 + Prompt) - Prompt => s[i] = "next_line"
    BY <1>1, <1>5, <1>6
  <2> QED BY <1>1, <1>4, <1>5, <2>1 DEF Prompting
<1>8. s = output \o <<"next_line">> \o print_prompt \o <<"clear_buffer">>
  BY DEF s, s1, s2
<1>9. m + 1 + Prompt = m + Prompt + 1 /\ m + 1 + Prompt + 1 = m + Prompt + 2
  BY <1>1
<1> QED BY <1>4, <1>7, <1>8, <1>9

\* Where the shell's next character belongs: at the cursor, or where the one
\* timer that took it away found it.
HomeFacts ==
    /\ Away = {} => home = screen.cursor
    /\ \A t \in Tasks : calls[t] \in CursorAway =>
           Away = {t} /\ home = cursor_pos[t] /\ home \in Cells
    /\ \A t \in Tasks : t \in Away <=> calls[t] \in CursorAway

LEMMA HomeIs == TasksInv => HomeFacts
<1> SUFFICES ASSUME TasksInv PROVE HomeFacts
  OBVIOUS
<1>1. \A t \in Tasks : t \in Away <=> calls[t] \in CursorAway
  BY DEF Away, TasksInv, TaskIs
<1>2. ASSUME NEW t \in Tasks, calls[t] \in CursorAway
      PROVE  Away = {t} /\ home = cursor_pos[t] /\ home \in Cells
  <2>1. \A u \in Tasks : calls[u] \in CursorAway => u = t
    BY <1>2, PointSets DEF TasksInv
  <2>2. Away = {t}
    BY <1>1, <1>2, <2>1 DEF Away
  <2>3. (CHOOSE u \in {t} : TRUE) = t
    OBVIOUS
  <2>4. home = cursor_pos[t]
    BY <2>2, <2>3 DEF home
  <2>5. TaskIs(t)
    BY DEF TasksInv
  <2> QED BY <1>2, <2>2, <2>4, <2>5 DEF TaskIs
<1>3. Away = {} => home = screen.cursor
  BY DEF home
<1> QED BY <1>1, <1>2, <1>3 DEF HomeFacts

\* What the shell's own calls do to the history.
Disturbs ==
    \/ Away = {} /\ disturbed' = (disturbed /\ ~Starts)
    \/ Away # {} /\ disturbed' = TRUE

LEMMA Undisturbed ==
  ASSUME IInv, UNCHANGED <<task_vars, child>>, Disturbs
  PROVE  /\ disturbed' \in BOOLEAN /\ TasksInv'
         /\ ~disturbed' =>
               /\ Away = {} /\ home = screen.cursor /\ home' = screen'.cursor
               /\ ~disturbed \/ Starts
         /\ ClockInv'
PROOF
<1>1. TasksInv'
  BY DEF IInv, TasksInv, TaskIs, task_vars, Placed
<1>2. Away' = Away
  BY DEF Away, task_vars
<1>3. ~disturbed' => Away = {} /\ home = screen.cursor /\ home' = screen'.cursor
  BY <1>2 DEF Disturbs, home
<1>4. ClockInv'
  <2> SUFFICES ASSUME ~disturbed', NEW t \in Tasks
               PROVE  calls'[t] \notin {ToPrint, ToMoveBack}
    BY DEF ClockInv
  <2>1. calls' = calls /\ Away = {}
    BY <1>3 DEF task_vars
  <2>2. calls[t] \notin CursorAway
    BY <2>1, HomeIs DEF IInv, HomeFacts
  <2> QED BY <2>1, <2>2 DEF CursorAway
<1> QED BY <1>1, <1>3, <1>4 DEF Disturbs, IInv

\* A new line has a call to make.
LEMMA StartsIs ==
  Starts => /\ todo # <<>> /\ todo # <<"move_left">> /\ Len(todo) = Prompt + 1
            /\ todo[1] = "text" /\ home[1] = 0
PROOF
<1>1. <<"clear_buffer">> \in Seq(Calls) /\ Len(<<"clear_buffer">>) = 1
  BY DEF Calls
<1>2. /\ Len(print_prompt \o <<"clear_buffer">>) = Prompt + 1
      /\ \A i \in 1..(Prompt + 1) : i <= Prompt =>
             (print_prompt \o <<"clear_buffer">>)[i] = print_prompt[i]
  BY <1>1, PromptIs, ConcatIs
<1>3. (print_prompt \o <<"clear_buffer">>)[1] = "text"
  BY <1>2, PromptIs
<1> QED BY <1>2, <1>3, PromptIs DEF Starts

LEMMA TheGlyphs ==
  /\ Letters \subseteq Glyphs /\ text \in Glyphs /\ blank \in Glyphs
  /\ text \in Chars /\ Letters \subseteq Chars
BY CharsAssumption DEF Glyphs

\* The facts about the shell that every call starts from.
LEMMA ShellFacts ==
  ASSUME IInv
  PROVE  /\ Drawn(screen) /\ screen.cursor \in Cells
         /\ screen.cursor = <<screen.cursor[1], screen.cursor[2]>>
         /\ screen.cursor[1] \in Nat /\ screen.cursor[1] < Width
         /\ screen.cursor[1] \in Columns /\ screen.cursor[2] \in Rows
         /\ DOMAIN screen.buffer = Cells
         /\ input_buffer \in [Positions -> Letters \cup {NUL}]
         /\ input_buffer_index \in 0..MAX_BUFFER_SIZE
         /\ todo \in Seq(Calls) /\ off \in BOOLEAN
         /\ disturbed \in BOOLEAN /\ TasksInv
BY CellIs, Edges DEF IInv, Drawn, Screens, BufferInv, ShellTypeOK

\* Between two keys the cursor is behind what was typed.
LEMMA ReadyFacts ==
  ASSUME IInv, todo = <<>>
  PROVE  /\ ~Starts
         /\ ~disturbed =>
               /\ home[1] = Prompt + input_buffer_index
               /\ \A i \in 0..(input_buffer_index - 1) :
                      screen.buffer[<<Prompt + i, home[2]>>] = input_buffer[i]
PROOF
<1>1. ~Starts
  BY StartsIs
<1>2. ~TakingBack
  BY DEF TakingBack
<1>3. Len(todo) = 0
  OBVIOUS
<1>4. PICK e \in {0, 1} : Prompted(Len(todo) - e, e)
  BY <1>2 DEF IInv, LineInv
<1>5. e = 0
  BY <1>3, <1>4 DEF Prompted, Prompting
<1>6. ~disturbed => home[1] = Prompt + input_buffer_index
  BY <1>3, <1>4, <1>5, PromptIs, ShellFacts DEF Prompted, Prompting
<1>7. ~disturbed => \A i \in 0..(input_buffer_index - 1) :
                      screen.buffer[<<Prompt + i, home[2]>>] = input_buffer[i]
  BY DEF IInv, EchoInv, Seen
<1> QED BY <1>1, <1>6, <1>7

\* A full line does not wrap.
LEMMA OnTheLine ==
  ASSUME NEW i \in Nat, i < MAX_BUFFER_SIZE
  PROVE  /\ Prompt + i \in Columns /\ Prompt + i < Width - 1
         /\ \A y \in Rows : <<Prompt + i, y>> \in Cells
PROOF
<1>1. /\ Prompt + i \in Nat /\ Prompt + i < Width - 1 /\ Width \in Nat
  BY PromptIs, Edges
<1>2. Prompt + i \in Columns
  BY <1>1 DEF Columns
<1> QED BY <1>1, <1>2, CellIs

LEMMA TypeStep ==
  ASSUME IInv, UNCHANGED <<task_vars, child>>, Disturbs, NEW key, Type(key)
  PROVE  Drawn(screen)' /\ BufferInv' /\ LineInv' /\ EchoInv'
PROOF
<1> DEFINE c == screen.cursor
           n == input_buffer_index
<1>1. /\ todo = <<>> /\ ~off /\ n < MAX_BUFFER_SIZE
      /\ key \in Letters /\ PutChar(key)
      /\ input_buffer' = [input_buffer EXCEPT ![n] = key]
      /\ input_buffer_index' = n + 1
      /\ ran' = ran /\ todo' = todo /\ off' = off
  BY DEF Type, Ready, map_key_to_ascii
<1>2. /\ Drawn(screen') /\ screen'.cursor = After(c)
      /\ screen'.buffer = Typed(screen.buffer, c, key)
  BY <1>1, ShellFacts, Draws, TheGlyphs
<1>3. n \in Positions /\ n \in Nat /\ n + 1 \in 0..MAX_BUFFER_SIZE
  BY <1>1, ShellFacts, PromptIs DEF Positions
<1>4. BufferInv'
  <2>1. input_buffer' \in [Positions -> Letters \cup {NUL}]
    BY <1>1, <1>3, ShellFacts
  <2>2. \A i \in Positions : i < n <=> input_buffer[i] # NUL
    BY DEF IInv, BufferInv
  <2>3. ASSUME NEW i \in Positions
        PROVE  i < n + 1 <=> input_buffer'[i] # NUL
    <3>1. CASE i = n
      BY <1>1, <1>3, <3>1, ShellFacts, LettersAssumption
    <3>2. CASE i # n
      BY <1>1, <1>3, <2>2, <3>2, ShellFacts DEF Positions
    <3> QED BY <3>1, <3>2
  <2>4. ran' \in DOMAIN commands \cup {nobody}
    BY <1>1 DEF IInv, BufferInv, ShellTypeOK
  <2> QED BY <1>1, <1>3, <2>1, <2>3, <2>4, ShellFacts DEF BufferInv, ShellTypeOK
<1>5. ASSUME ~disturbed'
      PROVE  /\ home'[1] = Prompt + n + 1
             /\ \A i \in 0..n :
                    screen'.buffer[<<Prompt + i, home'[2]>>] = input_buffer'[i]
  <2>1. /\ ~disturbed /\ home = c /\ home' = screen'.cursor
        /\ c[1] = Prompt + n
        /\ \A i \in 0..(n - 1) :
               screen.buffer[<<Prompt + i, c[2]>>] = input_buffer[i]
    BY <1>1, <1>5, Undisturbed, ReadyFacts
  <2>2. ~Ends(c)
    BY <1>1, <1>3, <2>1, PromptIs, Edges DEF Ends
  <2>3. /\ home' = <<c[1] + 1, c[2]>>
        /\ screen'.buffer = [screen.buffer EXCEPT ![c] = key]
    BY <1>2, <2>1, <2>2 DEF After, Typed, Written
  <2>4. ASSUME NEW i \in 0..n
        PROVE  screen'.buffer[<<Prompt + i, c[2]>>] = input_buffer'[i]
    <3>1. Prompt + i \in Columns /\ <<Prompt + i, c[2]>> \in Cells
      <4>1. c[2] \in Rows
        BY ShellFacts
      <4>2. i \in Nat /\ i < MAX_BUFFER_SIZE
        BY <1>1, <1>3, PromptIs
      <4> QED BY <4>1, <4>2, OnTheLine
    <3>2. CASE i = n
      <4>1. <<Prompt + i, c[2]>> = c
        BY <2>1, <3>2, ShellFacts
      <4> QED BY <1>1, <1>3, <2>3, <3>1, <3>2, <4>1, ShellFacts
    <3>3. CASE i # n
      <4>1. <<Prompt + i, c[2]>> # c /\ i \in 0..(n - 1) /\ i \in Positions
        BY <1>3, <2>1, <3>3, ShellFacts, PromptIs DEF Positions
      <4>2. screen'.buffer[<<Prompt + i, c[2]>>] = screen.buffer[<<Prompt + i, c[2]>>]
        BY <2>3, <3>1, <4>1, ShellFacts
      <4>3. input_buffer'[i] = input_buffer[i]
        BY <1>1, <3>3, <4>1, ShellFacts
      <4> QED BY <2>1, <4>1, <4>2, <4>3
    <3> QED BY <3>2, <3>3
  <2>5. home'[1] = Prompt + n + 1 /\ home'[2] = c[2]
    BY <2>1, <2>3
  <2> QED BY <2>4, <2>5
<1>6. LineInv'
  <2>1. Prompting(<<>>, 0, 0)
    BY DEF Prompting
  <2>2. Prompted(0, 0)'
    BY <1>1, <1>3, <1>5, <2>1, PromptIs DEF Prompted
  <2>3. Len(todo') - 0 = 0
    BY <1>1
  <2> QED BY <1>1, <2>2, <2>3, Undisturbed DEF LineInv
<1>7. EchoInv'
  BY <1>1, <1>3, <1>5 DEF EchoInv, Seen
<1> QED BY <1>2, <1>4, <1>6, <1>7

LEMMA OutputsAre ==
  ASSUME NEW output \in Callbacks
  PROVE  /\ output \in Seq(Calls) /\ Len(output) \in Nat
         /\ Range(output) \cap {"clear_buffer", "move_left"} = {}
PROOF
<1>1. \/ output = <<"clear_screen">> \/ output = <<"text", "next_line">>
      \/ output = <<"create_timer">> \/ output = <<"create_sleeper">>
      \/ output = <<"create_sleeper", "wait_for">>
  BY DEF Callbacks, print_line
<1>2. output \in Seq(Calls)
  <2>1. /\ <<"clear_screen">> \in Seq(Calls) /\ <<"create_timer">> \in Seq(Calls)
        /\ <<"create_sleeper">> \in Seq(Calls)
    BY DEF Calls
  <2>2. <<"text", "next_line">> \in Seq(Calls)
    BY DEF Calls
  <2>3. <<"create_sleeper", "wait_for">> \in Seq(Calls)
    BY DEF Calls
  <2> QED BY <1>1, <2>1, <2>2, <2>3, Zenon
<1>3. \A i \in DOMAIN output : output[i] \notin {"clear_buffer", "move_left"}
  BY <1>1
<1> QED BY <1>2, <1>3 DEF Range

LEMMA EnterStep ==
  ASSUME IInv, UNCHANGED <<task_vars, child>>, Disturbs, Enter
  PROVE  Drawn(screen)' /\ BufferInv' /\ LineInv' /\ EchoInv'
PROOF
<1>1. /\ ~off /\ off' = off /\ NextLine
      /\ UNCHANGED <<input_buffer, input_buffer_index, ran>>
  BY DEF Enter, Ready, buffer_vars
<1>2. PICK output \in Callbacks :
        todo' = output \o <<"next_line">> \o print_prompt \o <<"clear_buffer">>
  BY DEF Enter, Callbacks
<1> DEFINE n == Len(output) + Prompt + 1
<1>3. /\ todo' \in Seq(Calls) /\ Len(todo') = n + 1
      /\ Prompting(todo', n, 1)
      /\ Len(output) \in Nat /\ Prompt \in Nat
  BY <1>2, OutputsAre, PromptingStarts, PromptIs
<1>4. Drawn(screen')
  BY <1>1, ShellFacts, Draws
<1>5. BufferInv'
  BY <1>1, <1>3 DEF IInv, BufferInv, ShellTypeOK
<1>6. LineInv'
  <2>1. n \in Nat /\ ~(n <= Prompt) /\ Len(todo') - 1 = n
    BY <1>3
  <2>2. Prompted(n, 1)'
    BY <1>3, <2>1 DEF Prompted
  <2> QED BY <1>1, <2>1, <2>2 DEF LineInv
<1>7. EchoInv'
  <2>1. todo' # <<>> /\ todo' # <<"move_left">>
    <3>1. Len(todo') # 0 /\ Len(todo') # 1
      BY <1>3, PromptIs
    <3>2. Len(<<>>) = 0 /\ Len(<<"move_left">>) = 1
      OBVIOUS
    <3> QED BY <3>1, <3>2
  <2> QED BY <2>1 DEF EchoInv
<1> QED BY <1>4, <1>5, <1>6, <1>7

\* What stands before the cursor.
LEMMA LeftIs ==
  ASSUME Drawn(screen), screen.cursor[1] > 0
  PROVE  /\ Left \in Cells \ {screen.cursor}
         /\ Left[1] = screen.cursor[1] - 1 /\ Left[2] = screen.cursor[2]
PROOF
<1>1. /\ screen.cursor \in Cells
      /\ screen.cursor[1] \in Columns /\ screen.cursor[2] \in Rows
  BY CellIs DEF Drawn, Screens
<1>2. screen.cursor[1] - 1 \in Columns /\ screen.cursor[1] - 1 # screen.cursor[1]
  BY <1>1, Edges DEF Columns
<1>3. Left = <<screen.cursor[1] - 1, screen.cursor[2]>>
  BY DEF Left
<1> QED BY <1>1, <1>2, <1>3, CellIs

LEMMA BackspaceStep ==
  ASSUME IInv, UNCHANGED <<task_vars, child>>, Disturbs, Backspace
  PROVE  Drawn(screen)' /\ BufferInv' /\ LineInv' /\ EchoInv'
PROOF
<1> DEFINE c == screen.cursor
           n == input_buffer_index
<1>1. /\ todo = <<>> /\ ~off /\ n > 0 /\ n \in 0..MAX_BUFFER_SIZE
      /\ input_buffer' = input_buffer /\ input_buffer_index' = n /\ ran' = ran
  BY ShellFacts DEF Backspace, Ready, buffer_vars
<1>2. ~disturbed' => /\ ~disturbed /\ home = c /\ home' = screen'.cursor
                     /\ c[1] = Prompt + n
  BY <1>1, Undisturbed, ReadyFacts
<1>3. CASE c[1] > 0
  <2>1. PutCharAt(blank, Left) /\ todo' = <<"move_left">> /\ off' = off
    BY <1>3 DEF Backspace
  <2>2. /\ Left \in Cells \ {c} /\ Left[1] = c[1] - 1 /\ Left[2] = c[2]
    BY <1>3, ShellFacts, LeftIs
  <2>3. /\ Drawn(screen') /\ screen'.cursor = c
        /\ screen'.buffer = [screen.buffer EXCEPT ![Left] = blank]
    BY <2>1, <2>2, ShellFacts, Draws, TheGlyphs DEF Written
  <2>4. BufferInv'
    <3>1. todo' \in Seq(Calls)
      BY <2>1 DEF Calls
    <3> QED BY <1>1, <2>1, <3>1 DEF IInv, BufferInv, ShellTypeOK
  <2>5. LineInv'
    <3>1. TakingBack'
      BY <1>1, <1>2, <2>1, <2>3 DEF TakingBack
    <3> QED BY <1>1, <2>1, <3>1 DEF LineInv
  <2>6. EchoInv'
    <3> SUFFICES ASSUME ~disturbed', NEW i \in 0..(n - 2)
                 PROVE  screen'.buffer[<<Prompt + i, c[2]>>] = input_buffer[i]
      <4>1. todo' # <<>> /\ Seen' = n - 1
        BY <1>1, <2>1 DEF Seen
      <4> QED BY <1>1, <1>2, <2>3, <4>1 DEF EchoInv
    <3>1. /\ i \in Nat /\ i < MAX_BUFFER_SIZE /\ c[2] \in Rows
          /\ Prompt + i # c[1] - 1
      BY <1>1, <1>2, PromptIs, ShellFacts
    <3>2. <<Prompt + i, c[2]>> \in Cells /\ <<Prompt + i, c[2]>> # Left
      BY <2>2, <3>1, OnTheLine
    <3>3. screen'.buffer[<<Prompt + i, c[2]>>] = screen.buffer[<<Prompt + i, c[2]>>]
      BY <2>3, <3>2, ShellFacts
    <3>4. screen.buffer[<<Prompt + i, c[2]>>] = input_buffer[i]
      BY <1>1, <1>2, ReadyFacts
    <3> QED BY <3>3, <3>4
  <2> QED BY <2>3, <2>4, <2>5, <2>6
<1>4. CASE ~(c[1] > 0)
  <2>1. off' = TRUE /\ screen' = screen /\ todo' = todo
    BY <1>4 DEF Backspace
  <2>2. disturbed'
    BY <1>1, <1>2, <1>4, PromptIs, ShellFacts DEF Disturbs
  <2>3. BufferInv'
    BY <1>1, <2>1 DEF IInv, BufferInv, ShellTypeOK
  <2>4. LineInv'
    <3>1. Prompting(<<>>, 0, 0)
      BY DEF Prompting
    <3>2. Prompted(0, 0)'
      BY <1>1, <2>1, <2>2, <3>1 DEF Prompted
    <3>3. Len(todo') - 0 = 0
      BY <1>1, <2>1
    <3> QED BY <2>2, <3>2, <3>3 DEF LineInv
  <2>5. EchoInv'
    BY <2>2 DEF EchoInv
  <2> QED BY <2>1, <2>3, <2>4, <2>5, ShellFacts
<1> QED BY <1>3, <1>4

LEMMA OutputStep ==
  ASSUME IInv, UNCHANGED <<task_vars, child>>, Disturbs, Output
  PROVE  Drawn(screen)' /\ BufferInv' /\ LineInv' /\ EchoInv'
PROOF
<1> DEFINE c == screen.cursor
<1>1. /\ todo # <<>> /\ ~off /\ todo' = Tail(todo)
      /\ \/ Head(todo) = "text" /\ PutChar(text)
         \/ Head(todo) = "next_line" /\ NextLine
         \/ Head(todo) = "clear_screen" /\ ClearScreen
      /\ input_buffer' = input_buffer /\ input_buffer_index' = input_buffer_index
      /\ ran' = ran /\ off' = off
  BY DEF Output, Doing, buffer_vars
<1>2. /\ Drawn(screen')
      /\ Head(todo) = "text" => screen'.cursor = After(c)
      /\ Head(todo) = "next_line" => screen'.cursor[1] = 0
  BY <1>1, ShellFacts, Draws, TheGlyphs
<1>3. todo' \in Seq(Calls)
  BY <1>1, ShellFacts
<1>4. ~TakingBack
  BY <1>1 DEF TakingBack
<1>5. PICK e \in {0, 1} : Prompted(Len(todo) - e, e)
  BY <1>4 DEF IInv, LineInv
<1> DEFINE n == Len(todo) - e
<1>6. n \in Nat /\ Prompting(todo, n, e)
  BY <1>5 DEF Prompted, Prompting
<1>7. /\ n > 0 /\ Prompting(todo', n - 1, e)
      /\ n <= Prompt => Head(todo) = "text"
      /\ n = Prompt + 1 => Head(todo) = "next_line"
  <2>1. Head(todo) # "clear_buffer"
    BY <1>1
  <2> HIDE DEF n
  <2> QED BY <1>1, <1>6, <2>1, ShellFacts, PromptingTail
<1>8. Len(todo') - e = n - 1 /\ n - 1 \in Nat
  BY <1>7 DEF Prompting
<1>9. /\ e = 0 => input_buffer_index = 0
      /\ ~disturbed /\ n <= Prompt => home[1] = Prompt - n
  <2>1. e = 0 => input_buffer_index = 0
    BY <1>5, <1>7 DEF Prompted
  <2>2. ~disturbed /\ n <= Prompt =>
            home[1] = Prompt - n + IF e = 0 THEN input_buffer_index ELSE 0
    BY <1>5 DEF Prompted
  <2> QED BY <1>6, <2>1, <2>2, PromptIs
<1>10. Starts /\ n <= Prompt => home[1] = Prompt - n
  BY <1>6, StartsIs, PromptIs
<1>11. BufferInv'
  BY <1>1, <1>3 DEF IInv, BufferInv, ShellTypeOK
<1>12. ASSUME ~disturbed', n - 1 <= Prompt
       PROVE  home'[1] = Prompt - (n - 1)
  <2>1. home = c /\ home' = screen'.cursor /\ (~disturbed \/ Starts)
    BY <1>12, Undisturbed
  <2>2. CASE n - 1 = Prompt
    <3>1. screen'.cursor[1] = 0
      BY <1>2, <1>6, <1>7, <2>2
    <3> QED BY <2>1, <2>2, <3>1, PromptIs
  <2>3. CASE n - 1 # Prompt
    <3>1. n <= Prompt /\ n \in Nat /\ n > 0
      BY <1>6, <1>7, <1>12, <2>3, PromptIs
    <3>2. c[1] = Prompt - n /\ c[1] # Width - 1
      BY <1>9, <1>10, <2>1, <3>1, PromptIs, Edges
    <3>3. screen'.cursor[1] = c[1] + 1
      BY <1>2, <1>7, <3>1, <3>2 DEF After, Ends
    <3> QED BY <2>1, <3>1, <3>2, <3>3, PromptIs
  <2> QED BY <2>2, <2>3
<1>13. LineInv'
  <2>1. \/ n - 1 > Prompt
        \/ disturbed' \/ home'[1] = Prompt - (n - 1)
    BY <1>8, <1>12, PromptIs
  <2>2. PICK m \in Nat : m = n - 1
    BY <1>8
  <2>3. (IF e = 0 THEN input_buffer_index' ELSE 0) = 0
    BY <1>1, <1>9
  <2> HIDE DEF n
  <2>4. ~disturbed' /\ m <= Prompt =>
            home'[1] = Prompt - m + IF e = 0 THEN input_buffer_index' ELSE 0
    BY <2>1, <2>2, <2>3, PromptIs
  <2>5. e = 0 => input_buffer_index' = 0
    BY <1>1, <1>9
  <2>6. Prompted(m, e)'
    BY <1>7, <2>2, <2>4, <2>5 DEF Prompted
  <2>7. Len(todo') - e = m
    BY <1>8, <2>2
  <2> QED BY <1>1, <2>6, <2>7 DEF LineInv
<1>14. EchoInv'
  <2>1. todo' # <<"move_left">>
    <3> SUFFICES ASSUME todo' = <<"move_left">> PROVE FALSE
      OBVIOUS
    <3>1. Len(todo') = 1 /\ todo'[1] = "move_left"
      BY Zenon
    <3>2. CASE e = 0
      BY <1>7, <1>8, <3>1, <3>2 DEF Prompting
    <3>3. CASE e = 1
      BY <1>7, <1>8, <3>1, <3>3 DEF Prompting
    <3> QED BY <3>2, <3>3
  <2>2. todo' = <<>> => Seen' = 0
    <3> SUFFICES ASSUME todo' = <<>> PROVE Seen' = 0
      OBVIOUS
    <3>1. Len(todo') = 0
      OBVIOUS
    <3>2. e = 0
      BY <1>8, <3>1
    <3> QED BY <1>1, <1>9, <3>2 DEF Seen
  <2> QED BY <2>1, <2>2 DEF EchoInv
<1> QED BY <1>2, <1>11, <1>13, <1>14

\* The cursor goes back over the last character, which is taken out.
LEMMA FinishBackspaceStep ==
  ASSUME IInv, UNCHANGED <<task_vars, child>>, Disturbs, FinishBackspace
  PROVE  Drawn(screen)' /\ BufferInv' /\ LineInv' /\ EchoInv'
PROOF
<1> DEFINE c == screen.cursor
           n == input_buffer_index
<1>1. /\ todo # <<>> /\ Head(todo) = "move_left" /\ ~off
      /\ input_buffer' = [input_buffer EXCEPT ![n - 1] = NUL]
      /\ input_buffer_index' = n - 1 /\ ran' = ran
  BY DEF FinishBackspace, Doing
<1>2. TakingBack
  <2> SUFFICES ASSUME NEW e \in {0, 1}, Prompted(Len(todo) - e, e) PROVE FALSE
    BY DEF IInv, LineInv
  <2>1. Prompting(todo, Len(todo) - e, e)
    BY DEF Prompted
  <2> QED BY <1>1, <2>1, ShellFacts, PromptingTail
<1>3. /\ todo = <<"move_left">> /\ n > 0 /\ n \in 0..MAX_BUFFER_SIZE
      /\ n - 1 \in Positions /\ MAX_BUFFER_SIZE \in Nat
      /\ ~disturbed => home[1] = Prompt + n
  BY <1>1, <1>2, ShellFacts, PromptIs DEF TakingBack, Positions
<1>4. ~disturbed' => /\ ~disturbed /\ home = c /\ home' = screen'.cursor
                     /\ c[1] = Prompt + n
  BY <1>3, Undisturbed, StartsIs
<1>5. /\ input_buffer' \in [Positions -> Letters \cup {NUL}]
      /\ n - 1 \in 0..MAX_BUFFER_SIZE
      /\ \A i \in Positions : i < n - 1 <=> input_buffer'[i] # NUL
  <2>1. \A i \in Positions : i < n <=> input_buffer[i] # NUL
    BY DEF IInv, BufferInv
  <2>2. ASSUME NEW i \in Positions PROVE i < n - 1 <=> input_buffer'[i] # NUL
    <3>1. CASE i = n - 1
      BY <1>1, <1>3, <3>1, ShellFacts
    <3>2. CASE i # n - 1
      <4>1. input_buffer'[i] = input_buffer[i]
        BY <1>1, <3>2, ShellFacts
      <4>2. i < n - 1 <=> i < n
        BY <1>3, <3>2 DEF Positions
      <4> QED BY <2>1, <4>1, <4>2
    <3> QED BY <3>1, <3>2
  <2>3. input_buffer' \in [Positions -> Letters \cup {NUL}]
    BY <1>1, ShellFacts
  <2> QED BY <1>3, <2>2, <2>3
<1>6. ASSUME todo' \in Seq(Calls), off' \in BOOLEAN PROVE BufferInv'
  <2>1. ran' \in DOMAIN commands \cup {nobody}
    BY <1>1 DEF IInv, BufferInv, ShellTypeOK
  <2> QED BY <1>1, <1>5, <1>6, <2>1 DEF BufferInv, ShellTypeOK
<1>7. CASE c[1] > 0
  <2>1. MoveCursor(Left) /\ todo' = <<>> /\ off' = off
    BY <1>3, <1>7 DEF FinishBackspace, Doing
  <2>2. /\ Left \in Cells /\ Left[1] = c[1] - 1 /\ Left[2] = c[2]
    BY <1>7, ShellFacts, LeftIs
  <2>3. Drawn(screen') /\ screen'.cursor = Left /\ screen'.buffer = screen.buffer
    BY <2>1, <2>2, ShellFacts, Draws
  <2>4. BufferInv'
    <3>1. todo' \in Seq(Calls)
      BY <2>1
    <3>2. off' \in BOOLEAN
      BY <2>1, ShellFacts
    <3> QED BY <1>6, <3>1, <3>2
  <2>5. LineInv'
    <3>1. Prompting(<<>>, 0, 0)
      BY DEF Prompting
    <3>2. ~disturbed' => home'[1] = Prompt - 0 + (n - 1)
      BY <1>3, <1>4, <2>2, <2>3, PromptIs
    <3>3. Prompted(0, 0)'
      BY <1>1, <2>1, <3>1, <3>2 DEF Prompted
    <3>4. Len(todo') - 0 = 0
      BY <2>1
    <3> QED BY <1>1, <2>1, <3>3, <3>4 DEF LineInv
  <2>6. EchoInv'
    <3> SUFFICES ASSUME ~disturbed', NEW i \in 0..(n - 2)
                 PROVE  screen'.buffer[<<Prompt + i, c[2]>>] = input_buffer'[i]
      <4>1. Seen' = n - 1
        BY <1>1, <2>1 DEF Seen
      <4> QED BY <1>3, <1>4, <2>2, <2>3, <4>1 DEF EchoInv
    <3>1. screen.buffer[<<Prompt + i, c[2]>>] = input_buffer[i]
      <4>1. Seen = n - 1 /\ i \in 0..(Seen - 1)
        BY <1>3 DEF Seen
      <4> QED BY <1>3, <1>4, <4>1 DEF IInv, EchoInv
    <3>2. input_buffer'[i] = input_buffer[i]
      <4>1. i \in Positions /\ i # n - 1
        BY <1>3 DEF Positions
      <4> QED BY <1>1, <4>1, ShellFacts
    <3> QED BY <2>3, <3>1, <3>2
  <2> QED BY <2>3, <2>4, <2>5, <2>6
<1>8. CASE ~(c[1] > 0)
  <2>1. off' = TRUE /\ screen' = screen /\ todo' = todo
    BY <1>8 DEF FinishBackspace
  <2>2. disturbed'
    BY <1>3, <1>4, <1>8, PromptIs, ShellFacts DEF Disturbs
  <2>3. BufferInv'
    BY <1>6, <2>1, ShellFacts
  <2>4. LineInv'
    BY <1>3, <2>1, <2>2 DEF LineInv, TakingBack
  <2>5. EchoInv'
    BY <2>2 DEF EchoInv
  <2> QED BY <2>1, <2>3, <2>4, <2>5, ShellFacts
<1> QED BY <1>7, <1>8

\* Whatever the shell prints.
LEMMA PrintsKeep == ASSUME IInv, ShellPrints PROVE IInv'
<1>1. UNCHANGED <<task_vars, child>> /\ Disturbs
  BY DEF ShellPrints, Disturbs
<1>2. \/ \E key \in Key : Type(key) \/ Enter \/ Backspace
      \/ Output \/ FinishBackspace
  BY DEF ShellPrints, send_input
<1>3. Drawn(screen)' /\ BufferInv' /\ LineInv' /\ EchoInv'
  <2>1. CASE \E key \in Key : Type(key)
    BY <1>1, <2>1, TypeStep, Zenon
  <2>2. CASE Enter
    BY <1>1, <2>2, EnterStep, Zenon
  <2>3. CASE Backspace
    BY <1>1, <2>3, BackspaceStep, Zenon
  <2>4. CASE Output
    BY <1>1, <2>4, OutputStep, Zenon
  <2>5. CASE FinishBackspace
    BY <1>1, <2>5, FinishBackspaceStep, Zenon
  <2> QED BY <1>2, <2>1, <2>2, <2>3, <2>4, <2>5, Zenon
<1>4. disturbed' \in BOOLEAN /\ TasksInv' /\ ClockInv'
  BY <1>1, Undisturbed
<1>5. child' \in Tasks \cup {nothing}
  BY <1>1 DEF IInv
<1>6. mixed' \in 0..MaxMixed
  BY MixedAssumption DEF ShellPrints, IInv
<1> QED BY <1>3, <1>4, <1>5, <1>6 DEF IInv

\* What the shell does to a place of its own is not seen on the screen.
LEMMA HomeStays ==
  ASSUME UNCHANGED <<screen, cursor_pos>>
  PROVE  Away' = Away /\ home' = home
BY DEF Away, home

LEMMA Least ==
  ASSUME NEW F, F \subseteq Nat, F # {}
  PROVE  \E i \in F : \A j \in F : i <= j
PROOF
<1> DEFINE R == {ss \in Nat \X Nat : ss[1] < ss[2]}
<1>1. IsWellFoundedOn(R, Nat)
  BY NatLessThanWellFounded DEF OpToRel
<1>2. \A x, y \in Nat : y < x => <<y, x>> \in R
  OBVIOUS
<1> HIDE DEF R
<1>3. \E x \in F : \A y \in F : ~(<<y, x>> \in R)
  BY <1>1, WFMin, Zenon
<1>4. PICK x \in F : \A y \in F : ~(<<y, x>> \in R)
  BY <1>3
<1>5. ASSUME NEW y \in F PROVE x <= y
  <2>1. x \in Nat /\ y \in Nat
    OBVIOUS
  <2>2. ~(y < x)
    BY <1>2, <1>4, <2>1, Zenon
  <2> QED BY <2>1, <2>2
<1> QED BY <1>5

LEMMA CommandsAre ==
  /\ commands \in Seq(Range(Registered))
  /\ DOMAIN commands = 1..Len(commands) /\ Len(commands) \in Nat
  /\ \A i \in DOMAIN commands : commands[i] \in Range(Registered)
PROOF
<1> DEFINE n == IF Len(Registered) < COMMANDS_ARRAY_SIZE
                  THEN Len(Registered) ELSE COMMANDS_ARRAY_SIZE - 1
<1>1. /\ Registered \in Seq(Range(Registered)) /\ Len(Registered) \in Nat
      /\ COMMANDS_ARRAY_SIZE \in Nat \ {0}
  BY NamesFit
<1>2. n \in 0..Len(Registered)
  BY <1>1
<1>3. commands = SubSeq(Registered, 1, n)
  BY DEF commands
<1> HIDE DEF n
<1>4. commands \in Seq(Range(Registered))
  BY <1>1, <1>2, <1>3, SubSeqProperties
<1> QED BY <1>4

\* call_callback runs the first of the commands with the name.
LEMMA CallbackIs ==
  \/ /\ call_callback = nobody /\ \A i \in DOMAIN commands : ~Same(commands[i])
  \/ /\ call_callback \in DOMAIN commands /\ Same(commands[call_callback])
     /\ \A j \in DOMAIN commands : Same(commands[j]) => call_callback <= j
PROOF
<1> DEFINE found == {i \in DOMAIN commands : Same(commands[i])}
<1>1. call_callback = IF found = {} THEN nobody
                      ELSE CHOOSE i \in found : \A j \in found : i <= j
  BY DEF call_callback
<1>2. CASE found = {}
  BY <1>1, <1>2
<1>3. CASE found # {}
  <2>1. found \subseteq Nat
    BY CommandsAre
  <2>2. call_callback \in found /\ \A j \in found : call_callback <= j
    BY <1>1, <1>3, <2>1, Least
  <2> QED BY <2>2
<1> QED BY <1>2, <1>3

LEMMA FinishKeeps == ASSUME IInv, ShellFinishes PROVE IInv'
<1>1. /\ todo # <<>> /\ Head(todo) = "clear_buffer" /\ ~off /\ todo' = Tail(todo)
      /\ input_buffer' = cleared /\ input_buffer_index' = 0
      /\ ran' = call_callback /\ screen' = screen /\ off' = off
      /\ UNCHANGED <<task_vars, child, mixed, disturbed>>
  BY DEF ShellFinishes, FinishLine, Doing
<1>2. PICK e \in {0, 1} : Prompted(Len(todo) - e, e)
  BY <1>1 DEF IInv, LineInv, TakingBack
<1>3. e = 1 /\ Len(todo) - e = 0 /\ todo' = <<>>
  <2>1. Prompting(todo, Len(todo) - e, e)
    BY <1>2 DEF Prompted
  <2> QED BY <1>1, <2>1, ShellFacts, PromptingTail
<1>4. home' = home /\ Away' = Away
  BY <1>1, HomeStays DEF task_vars
<1>5. TasksInv'
  BY <1>1 DEF IInv, TasksInv, TaskIs, task_vars, Placed
<1>6. BufferInv'
  <2>1. \A i \in Positions : i < input_buffer_index <=> input_buffer[i] # NUL
    BY DEF IInv, BufferInv
  <2>2. \A i \in Positions : cleared[i] = NUL
    BY <2>1 DEF cleared
  <2>3. cleared \in [Positions -> Letters \cup {NUL}]
    BY <2>2 DEF cleared
  <2>4. call_callback \in DOMAIN commands \cup {nobody}
    BY CallbackIs
  <2>5. todo' \in Seq(Calls) /\ 0 \in 0..MAX_BUFFER_SIZE /\ \A i \in Positions : ~(i < 0)
    BY <1>3, PromptIs DEF Positions
  <2> QED BY <1>1, <2>2, <2>3, <2>4, <2>5, ShellFacts DEF BufferInv, ShellTypeOK
<1>7. LineInv'
  <2>1. ~disturbed => home[1] = Prompt
    <3>1. Prompted(0, 1)
      BY <1>2, <1>3
    <3>2. ~disturbed => home[1] = Prompt - 0 + 0
      BY <3>1, PromptIs DEF Prompted
    <3> QED BY <3>2, PromptIs
  <2>2. Prompting(<<>>, 0, 0)
    BY DEF Prompting
  <2>3. ~disturbed' => home'[1] = Prompt - 0 + 0
    BY <1>1, <1>4, <2>1, PromptIs
  <2>4. Prompted(0, 0)'
    BY <1>1, <1>3, <2>2, <2>3 DEF Prompted
  <2>5. Len(todo') - 0 = 0
    BY <1>3
  <2> QED BY <1>1, <2>4, <2>5 DEF LineInv
<1>8. EchoInv'
  BY <1>1, <1>3 DEF EchoInv, Seen
<1>9. ClockInv'
  BY <1>1 DEF IInv, ClockInv, task_vars
<1> QED BY <1>1, <1>5, <1>6, <1>7, <1>8, <1>9 DEF IInv

\* A call that leaves the screen as it is comes before the new line.
LEMMA QuietCall ==
  ASSUME IInv, todo # <<>>, ~off, todo' = Tail(todo),
         Head(todo) \in {"create_timer", "create_sleeper", "wait_for"},
         UNCHANGED <<screen, buffer_vars, off, cursor_pos, disturbed>>
  PROVE  Drawn(screen)' /\ BufferInv' /\ LineInv' /\ EchoInv'
PROOF
<1>1. /\ screen' = screen /\ input_buffer' = input_buffer
      /\ input_buffer_index' = input_buffer_index /\ ran' = ran /\ off' = off
      /\ disturbed' = disturbed
  BY DEF buffer_vars
<1>2. PICK e \in {0, 1} : Prompted(Len(todo) - e, e)
  BY DEF IInv, LineInv, TakingBack
<1>3. PICK n \in Nat : n = Len(todo) - e
  BY <1>2 DEF Prompted, Prompting
<1>4. /\ Prompting(todo, n, e)
      /\ e = 0 /\ n > 0 => input_buffer_index = 0
  BY <1>2, <1>3 DEF Prompted
<1>5. n > 0 /\ Prompting(todo', n - 1, e) /\ n > Prompt + 1
  <2>1. Prompting(todo, n, e)
    BY <1>4
  <2>2. /\ n > 0 /\ Prompting(Tail(todo), n - 1, e)
        /\ n <= Prompt => Head(todo) = "text"
        /\ n = Prompt + 1 => Head(todo) = "next_line"
    BY <2>1, ShellFacts, PromptingTail
  <2> QED BY <2>2, PromptIs
<1>6. BufferInv'
  <2>1. todo' \in Seq(Calls)
    BY ShellFacts
  <2> QED BY <1>1, <2>1 DEF IInv, BufferInv, ShellTypeOK
<1>7. LineInv'
  <2>1. ~(n - 1 <= Prompt)
    BY <1>5, PromptIs
  <2>2. Prompted(n - 1, e)'
    BY <1>1, <1>2, <1>3, <1>5, <2>1 DEF Prompted
  <2>3. Len(todo') - e = n - 1
    BY <1>5 DEF Prompting
  <2> QED BY <1>1, <2>2, <2>3 DEF LineInv
<1>8. EchoInv'
  <2>1. todo' # <<>> /\ todo' # <<"move_left">>
    <3>1. Len(todo') = (n - 1) + e /\ n - 1 >= 2
      BY <1>5, PromptIs DEF Prompting
    <3>3. Len(todo') >= 2
      <4>1. CASE e = 0
        BY <3>1, <4>1
      <4>2. CASE e = 1
        BY <3>1, <4>2
      <4> QED BY <4>1, <4>2
    <3>2. Len(<<>>) = 0 /\ Len(<<"move_left">>) = 1
      OBVIOUS
    <3> QED BY <3>2, <3>3
  <2> QED BY <2>1 DEF EchoInv
<1> QED BY <1>1, <1>6, <1>7, <1>8, ShellFacts

LEMMA CreatesKeep == ASSUME IInv, ShellCreates PROVE IInv'
<1>1. PICK t \in Free :
        /\ \/ Doing("create_timer") /\ Create(t, TakePlace \o Round)
           \/ Doing("create_sleeper") /\ Create(t, Say \o Say \o <<"end">>)
        /\ child' = IF Head(todo') = "wait_for" THEN t ELSE child
  BY DEF ShellCreates
<1>2. UNCHANGED <<screen, buffer_vars, off, mixed, disturbed>>
  BY DEF ShellCreates
<1>3. t \in Tasks /\ TasksInv
  BY ShellFacts DEF Free
<1>4. /\ TasksInv' /\ UNCHANGED <<pos, cursor_pos>>
      /\ \E d \in {ToLoad, ToLock1} : calls' = [calls EXCEPT ![t] = d]
  BY <1>1, <1>3, CreateKeeps
<1>5. Drawn(screen)' /\ BufferInv' /\ LineInv' /\ EchoInv'
  <2>1. /\ todo # <<>> /\ ~off /\ todo' = Tail(todo)
        /\ Head(todo) \in {"create_timer", "create_sleeper", "wait_for"}
    BY <1>1 DEF Doing
  <2> QED BY <1>2, <1>4, <2>1, QuietCall
<1>6. ClockInv'
  <2>1. \A u \in Tasks : calls'[u] \in {ToPrint, ToMoveBack} => calls'[u] = calls[u]
    BY <1>4, <1>3, Points, Lengths, PointSets DEF TasksInv, CursorAway
  <2> QED BY <1>2, <1>4, <2>1 DEF IInv, ClockInv
<1>7. child' \in Tasks \cup {nothing} /\ mixed' = mixed /\ disturbed' = disturbed
  BY <1>1, <1>2, <1>3 DEF IInv
<1> QED BY <1>4, <1>5, <1>6, <1>7 DEF IInv

LEMMA WaitsKeep == ASSUME IInv, ShellWaits PROVE IInv'
<1>1. /\ todo # <<>> /\ ~off /\ todo' = Tail(todo) /\ Head(todo) = "wait_for"
      /\ child' = nothing
      /\ UNCHANGED <<screen, buffer_vars, off, task_vars, mixed, disturbed>>
  BY DEF ShellWaits, Doing
<1>2. Drawn(screen)' /\ BufferInv' /\ LineInv' /\ EchoInv'
  BY <1>1, QuietCall DEF task_vars
<1>3. TasksInv'
  BY <1>1 DEF IInv, TasksInv, TaskIs, task_vars, Placed
<1>4. ClockInv'
  BY <1>1 DEF IInv, ClockInv, task_vars
<1> QED BY <1>1, <1>2, <1>3, <1>4 DEF IInv

\* A place is on the screen, and so is the column behind it.
LEMMA PlaceIs ==
  ASSUME TasksInv, NEW t \in Tasks, calls[t] \in InRound
  PROVE  /\ Place(pos[t]) \in Cells
         /\ Place(pos[t])[1] + 1 \in Columns /\ ~Ends(Place(pos[t]))
PROOF
<1>1. Placed \subseteq Tasks /\ IsFiniteSet(Tasks)
  BY PlacesFit DEF Placed
<1>2. /\ Cardinality(Placed) \in Nat /\ Cardinality(Tasks) \in Nat
      /\ Cardinality(Placed) <= Cardinality(Tasks)
  BY <1>1, FS_Subset, FS_CardinalityType
<1>3. pos[t] \in 0..(Cardinality(Placed) - 1)
  BY DEF TasksInv, TaskIs
<1>4. pos[t] \in 0..(Cardinality(Tasks) - 1)
  BY <1>2, <1>3
<1>5. Place(pos[t]) \in Cells /\ Place(pos[t])[1] + 1 \in Columns
  BY <1>4, PlacesFit
<1>6. ~Ends(Place(pos[t]))
  BY <1>5, Edges, CellIs DEF Ends
<1> QED BY <1>5, <1>6

\* What a task may do to the screen: while the line is undisturbed it leaves
\* alone what is seen of it, and where the shell's next character goes.
LEMMA RunKeeps ==
  ASSUME IInv, NEW t \in Tasks, TaskRuns(t), TasksInv', Drawn(screen'),
         ~disturbed' =>
             /\ home' = home
             /\ \A i \in 0..(input_buffer_index - 1) :
                    screen'.buffer[<<Prompt + i, home[2]>>]
                      = screen.buffer[<<Prompt + i, home[2]>>],
         ClockInv'
  PROVE  IInv'
PROOF
<1>1. /\ input_buffer' = input_buffer /\ input_buffer_index' = input_buffer_index
      /\ ran' = ran /\ todo' = todo /\ off' = off /\ child' = child /\ mixed' = mixed
      /\ disturbed' = (disturbed \/ InLine(t)) /\ ~off
  BY DEF TaskRuns, buffer_vars
<1>2. ~disturbed' => ~disturbed
  BY <1>1
<1>3. BufferInv'
  BY <1>1 DEF IInv, BufferInv, ShellTypeOK
<1>4. LineInv'
  <2>0. ~disturbed' => home'[1] = home[1]
    OBVIOUS
  <2>1. ASSUME NEW e \in {0, 1}, Prompted(Len(todo) - e, e)
        PROVE  Prompted(Len(todo) - e, e)'
    BY <1>1, <1>2, <2>0, <2>1 DEF Prompted
  <2>2. TakingBack => TakingBack'
    BY <1>1, <1>2, <2>0 DEF TakingBack
  <2> QED BY <1>1, <2>1, <2>2 DEF IInv, LineInv
<1>5. EchoInv'
  <2> SUFFICES ASSUME ~disturbed', todo \in {<<>>, <<"move_left">>}, NEW i \in 0..(Seen - 1)
               PROVE  screen'.buffer[<<Prompt + i, home[2]>>] = input_buffer[i]
    BY <1>1 DEF EchoInv, Seen
  <2>1. screen.buffer[<<Prompt + i, home[2]>>] = input_buffer[i]
    BY <1>2 DEF IInv, EchoInv
  <2>2. i \in 0..(input_buffer_index - 1)
    BY ShellFacts DEF Seen
  <2> QED BY <2>1, <2>2
<1>6. disturbed' \in BOOLEAN /\ child' \in Tasks \cup {nothing} /\ mixed' \in 0..MaxMixed
  BY <1>1 DEF IInv
<1> QED BY <1>3, <1>4, <1>5, <1>6 DEF IInv

\* While one task has the mutex no other one is about to show or has shown.
LEMMA NoOther ==
  ASSUME IInv, NEW t \in Tasks, calls[t] \in Holding,
         \E d \in Everywhere : \E p, q : GoesTo(t, d, p, q)
  PROVE  \A u \in Tasks \ {t} : calls'[u] \notin CursorAway
PROOF
<1>1. PICK d \in Everywhere : \E p, q : GoesTo(t, d, p, q)
  OBVIOUS
<1>2. \A u \in Tasks \ {t} : calls'[u] = calls[u]
  BY <1>1 DEF IInv, TasksInv, GoesTo
<1>3. \A u \in Tasks \ {t} : calls[u] \notin Holding
  BY DEF IInv, TasksInv
<1> QED BY <1>2, <1>3, PointSets

LEMMA ClockOf ==
  ASSUME NEW t \in Tasks, \A u \in Tasks \ {t} : calls'[u] \notin CursorAway,
         ~disturbed' =>
             /\ calls'[t] = ToPrint => screen'.cursor = Place(pos'[t])
             /\ calls'[t] = ToMoveBack =>
                    /\ screen'.cursor = <<Place(pos'[t])[1] + 1, Place(pos'[t])[2]>>
                    /\ screen'.buffer[Place(pos'[t])] = text
  PROVE  ClockInv'
PROOF
<1> SUFFICES ASSUME ~disturbed', NEW u \in Tasks
    PROVE  /\ calls'[u] = ToPrint => screen'.cursor = Place(pos'[u])
           /\ calls'[u] = ToMoveBack =>
                  /\ screen'.cursor = <<Place(pos'[u])[1] + 1, Place(pos'[u])[2]>>
                  /\ screen'.buffer[Place(pos'[u])] = text
  BY DEF ClockInv, Place
<1>1. CASE u = t
  BY <1>1
<1>2. CASE u # t
  BY <1>2 DEF CursorAway
<1> QED BY <1>1, <1>2

LEMMA TaskRunKeeps == ASSUME IInv, NEW t \in Tasks, TaskRuns(t) PROVE IInv'
PROOF
<1>1. TasksInv /\ Drawn(screen) /\ TaskStep(t)
  BY DEF IInv, TaskRuns
<1>2. TasksInv' /\ \E d \in Everywhere : \E p, q : GoesTo(t, d, p, q)
  BY <1>1, StepKeeps
<1>3. HomeFacts /\ HomeFacts'
  <2>1. HomeFacts
    BY <1>1, HomeIs
  <2>2. HomeFacts'
    BY <1>2, HomeIs, PTL
  <2> QED BY <2>1, <2>2
<1>4. /\ disturbed' = (disturbed \/ InLine(t)) /\ input_buffer_index' = input_buffer_index
      /\ disturbed \in BOOLEAN /\ disturbed' \in BOOLEAN
  BY DEF TaskRuns, buffer_vars, IInv
<1>5. CASE /\ screen' = screen /\ cursor_pos' = cursor_pos
           /\ calls'[t] \notin {ToPrint, ToMoveBack}
  <2>1. home' = home
    BY <1>5, HomeStays
  <2>2. ClockInv'
    <3>1. PICK d \in Everywhere : \E p, q : GoesTo(t, d, p, q)
      BY <1>2
    <3>2. \A u \in Tasks \ {t} : calls'[u] = calls[u] /\ pos'[u] = pos[u]
      BY <1>1, <3>1 DEF TasksInv, GoesTo
    <3> SUFFICES ASSUME ~disturbed', NEW u \in Tasks, calls'[u] \in {ToPrint, ToMoveBack}
        PROVE  /\ calls'[u] = ToPrint => screen'.cursor = Place(pos'[u])
               /\ calls'[u] = ToMoveBack =>
                      /\ screen'.cursor = <<Place(pos'[u])[1] + 1, Place(pos'[u])[2]>>
                      /\ screen'.buffer[Place(pos'[u])] = text
      BY DEF ClockInv, Place
    <3>3. u # t /\ ~disturbed
      BY <1>4, <1>5
    <3>4. calls'[u] = calls[u] /\ pos'[u] = pos[u]
      BY <3>2, <3>3
    <3> QED BY <1>5, <3>3, <3>4 DEF IInv, ClockInv
  <2> QED BY <1>1, <1>2, <1>5, <2>1, <2>2, RunKeeps
<1>6. CASE /\ calls[t] = ToSave /\ screen' = screen /\ calls'[t] = ToMove
           /\ cursor_pos' = [cursor_pos EXCEPT ![t] = screen.cursor] /\ pos' = pos
  <2>1. calls[t] \in Holding
    BY <1>6 DEF Holding
  <2>2. Away = {}
    <3>1. \A u \in Tasks : calls[u] \in CursorAway => u = t
      BY <1>1, <2>1, PointSets DEF TasksInv
    <3>2. calls[t] \notin CursorAway
      BY <1>6, PointSets
    <3> QED BY <1>3, <3>1, <3>2 DEF HomeFacts, Away
  <2>3. home = screen.cursor
    BY <1>3, <2>2 DEF HomeFacts
  <2>4. home' = cursor_pos'[t]
    BY <1>3, <1>6 DEF HomeFacts, CursorAway
  <2>5. home' = home
    BY <1>1, <1>6, <2>3, <2>4 DEF TasksInv
  <2>6. ClockInv'
    <3>1. calls'[t] \notin {ToPrint, ToMoveBack}
      BY <1>6, PointSets
    <3> QED BY <1>2, <2>1, <3>1, NoOther, ClockOf
  <2> QED BY <1>1, <1>2, <1>6, <2>5, <2>6, RunKeeps
<1>7. CASE /\ calls[t] = ToMove /\ calls'[t] = ToPrint
           /\ MoveCursor(Place(pos[t])) /\ UNCHANGED <<pos, cursor_pos>>
  <2>1. calls[t] \in Holding /\ calls[t] \in InRound /\ calls[t] \in CursorAway
    BY <1>7, PointSets DEF CursorAway
  <2>2. /\ Drawn(screen') /\ screen'.cursor = Place(pos[t])
        /\ screen'.buffer = screen.buffer
    BY <1>1, <1>7, <2>1, PlaceIs, Draws
  <2>3. home' = home
    <3>1. calls'[t] \in CursorAway
      BY <1>7 DEF CursorAway
    <3> QED BY <1>3, <1>7, <2>1, <3>1 DEF HomeFacts
  <2>4. ClockInv'
    <3>1. calls'[t] # ToMoveBack /\ pos'[t] = pos[t]
      BY <1>7, PointSets
    <3> QED BY <1>2, <1>7, <2>1, <2>2, <3>1, NoOther, ClockOf
  <2> QED BY <1>2, <2>2, <2>3, <2>4, RunKeeps
<1>8. CASE /\ calls[t] = ToPrint /\ calls'[t] = ToMoveBack
           /\ NextIs(t, "print") /\ PutChar(text) /\ UNCHANGED <<pos, cursor_pos>>
  <2>1. calls[t] \in Holding /\ calls[t] \in InRound /\ calls[t] \in CursorAway
    BY <1>8, PointSets DEF CursorAway
  <2>2. /\ Drawn(screen') /\ screen'.cursor = After(screen.cursor)
        /\ screen'.buffer = Typed(screen.buffer, screen.cursor, text)
    BY <1>1, <1>8, TheGlyphs, Draws
  <2>3. home' = home
    <3>1. calls'[t] \in CursorAway
      BY <1>8 DEF CursorAway
    <3> QED BY <1>3, <1>8, <2>1, <3>1 DEF HomeFacts
  <2>4. ASSUME ~disturbed'
        PROVE  /\ screen.cursor = Place(pos[t]) /\ screen.cursor \notin LineCells
               /\ screen'.cursor = <<Place(pos[t])[1] + 1, Place(pos[t])[2]>>
               /\ screen'.buffer = [screen.buffer EXCEPT ![screen.cursor] = text]
    <3>1. ~disturbed /\ ~InLine(t)
      BY <1>4, <2>4
    <3>2. screen.cursor = Place(pos[t])
      BY <1>8, <3>1 DEF IInv, ClockInv
    <3>3. screen.cursor \notin LineCells
      BY <1>8, <3>1 DEF InLine
    <3>4. ~Ends(screen.cursor)
      BY <1>1, <2>1, <3>2, PlaceIs
    <3>5. screen'.cursor = <<screen.cursor[1] + 1, screen.cursor[2]>>
      BY <2>2, <3>4 DEF After
    <3>6. screen'.buffer = [screen.buffer EXCEPT ![screen.cursor] = text]
      BY <2>2, <3>4 DEF Typed, Written
    <3> QED BY <3>2, <3>3, <3>5, <3>6
  <2>5. ASSUME ~disturbed', NEW i \in 0..(input_buffer_index - 1)
        PROVE  screen'.buffer[<<Prompt + i, home[2]>>]
                 = screen.buffer[<<Prompt + i, home[2]>>]
    <3>1. <<Prompt + i, home[2]>> \in LineCells
      BY DEF LineCells
    <3>2. <<Prompt + i, home[2]>> # screen.cursor
      BY <2>4, <2>5, <3>1
    <3>3. <<Prompt + i, home[2]>> \in Cells
      <4>1. home[2] \in Rows
        BY <1>3, <2>1, CellIs DEF HomeFacts
      <4>2. i \in Nat /\ i < MAX_BUFFER_SIZE
        BY ShellFacts, PromptIs
      <4> QED BY <4>1, <4>2, OnTheLine
    <3> QED BY <2>4, <2>5, <3>2, <3>3, ShellFacts
  <2>6. ClockInv'
    <3>1. calls'[t] # ToPrint /\ pos'[t] = pos[t]
      BY <1>8, PointSets
    <3>2. ~disturbed' => screen'.buffer[Place(pos[t])] = text
      BY <2>4, ShellFacts
    <3> QED BY <1>2, <2>1, <2>4, <3>1, <3>2, NoOther, ClockOf
  <2> QED BY <1>2, <2>2, <2>3, <2>5, <2>6, RunKeeps
<1>9. CASE /\ calls[t] \in Holding \ InRound /\ InLine(t)
           /\ calls'[t] \notin {ToPrint, ToMoveBack}
           /\ PutChar(text) \/ NextLine
           /\ UNCHANGED <<pos, cursor_pos>>
  <2>1. disturbed'
    BY <1>4, <1>9
  <2>2. Drawn(screen')
    BY <1>1, <1>9, TheGlyphs, Draws
  <2>3. ClockInv'
    BY <2>1 DEF ClockInv
  <2> QED BY <1>2, <2>1, <2>2, <2>3, RunKeeps
<1>10. CASE /\ calls[t] = ToMoveBack /\ calls'[t] = ToUnlock
            /\ MoveCursor(cursor_pos[t]) /\ pos' = pos
            /\ cursor_pos' = [cursor_pos EXCEPT ![t] = nothing]
  <2>1. calls[t] \in Holding /\ calls[t] \in CursorAway
    BY <1>10, PointSets DEF CursorAway
  <2>2. home = cursor_pos[t] /\ home \in Cells
    BY <1>3, <2>1 DEF HomeFacts
  <2>3. Drawn(screen') /\ screen'.cursor = home /\ screen'.buffer = screen.buffer
    BY <1>1, <1>10, <2>2, Draws
  <2>4. \A u \in Tasks : calls'[u] \notin CursorAway
    <3>1. calls'[t] \notin CursorAway
      BY <1>10, PointSets
    <3> QED BY <1>2, <2>1, <3>1, NoOther
  <2>5. home' = home
    <3>1. Away' = {}
      BY <1>3, <2>4 DEF HomeFacts, Away
    <3> QED BY <1>3, <2>3, <3>1 DEF HomeFacts
  <2>6. ClockInv'
    BY <2>4 DEF ClockInv, CursorAway
  <2> QED BY <1>2, <2>3, <2>5, <2>6, RunKeeps
<1> QED
  BY <1>1, <1>5, <1>6, <1>7, <1>8, <1>9, <1>10, StepKeeps

LEMMA TasksStart == ASSUME TasksInit PROVE TasksInv /\ \A t \in Tasks : calls[t] = <<>>
<1>1. /\ calls = [t \in Tasks |-> <<>>] /\ pos = [t \in Tasks |-> nothing]
      /\ cursor_pos = [t \in Tasks |-> nothing]
      /\ terminal_mutex = FALSE /\ task_count = 0
  BY DEF TasksInit
<1>2. <<>> \notin InRound /\ <<>> # ToStore /\ <<>> \notin CursorAway /\ <<>> \notin Holding
  BY PointSets
<1>3. Placed = {}
  BY <1>1, <1>2 DEF Placed
<1>4. Cardinality(Placed) = 0
  BY <1>3, FS_EmptySet
<1>5. \A t \in Tasks : TaskIs(t)
  BY <1>1, <1>2 DEF TaskIs, Everywhere
<1>6. \A t \in Tasks : calls[t] = <<>>
  BY <1>1
<1>7. /\ calls = [t \in Tasks |-> calls[t]] /\ pos = [t \in Tasks |-> pos[t]]
      /\ cursor_pos = [t \in Tasks |-> cursor_pos[t]]
  BY <1>1
<1>8. \A t \in Tasks : calls[t] \notin Holding
  BY <1>2, <1>6
<1>9. task_count \in 0..Cardinality(Placed) /\ terminal_mutex \in BOOLEAN
  <2>1. 0 \in 0..0
    OBVIOUS
  <2>2. task_count \in 0..Cardinality(Placed)
    BY <1>1, <1>4, <2>1, Zenon
  <2> QED BY <1>1, <2>2, Zenon
<1> QED BY <1>5, <1>6, <1>7, <1>8, <1>9 DEF TasksInv

LEMMA StartingCalls ==
  /\ print_line \o print_prompt \in Seq(Calls)
  /\ Len(print_line \o print_prompt) = Prompt + 2
  /\ Prompting(print_line \o print_prompt, Prompt + 2, 0)
PROOF
<1> DEFINE s == print_line \o print_prompt
<1>1. /\ print_line \in Seq(Calls) /\ Len(print_line) = 2
      /\ print_line[1] = "text" /\ print_line[2] = "next_line"
  BY DEF print_line, Calls
<1>2. /\ print_prompt \in Seq(Calls) /\ Len(print_prompt) = Prompt /\ Prompt \in Nat
      /\ \A i \in 1..Prompt : print_prompt[i] = "text"
  BY PromptIs
<1>3. /\ s \in Seq(Calls) /\ Len(s) = Len(print_line) + Len(print_prompt)
      /\ \A k \in 1..(Len(print_line) + Len(print_prompt)) :
             s[k] = IF k <= Len(print_line) THEN print_line[k]
                    ELSE print_prompt[k - Len(print_line)]
  BY <1>1, <1>2, ConcatIs, Zenon
<1> HIDE DEF s
<1>4. Len(s) = Prompt + 2
  BY <1>1, <1>2, <1>3
<1>5. ASSUME NEW i \in 1..(Prompt + 2)
      PROVE  /\ i = 2 => s[i] = "next_line"
             /\ i # 2 => s[i] = "text"
  <2>1. s[i] = IF i <= 2 THEN print_line[i] ELSE print_prompt[i - 2]
    BY <1>1, <1>2, <1>3
  <2>2. CASE i <= 2
    BY <1>1, <2>1, <2>2
  <2>3. CASE i > 2
    <3>1. i - 2 \in 1..Prompt
      BY <1>2, <2>3
    <3> QED BY <1>2, <2>1, <2>3, <3>1
  <2> QED BY <1>2, <2>2, <2>3
<1>6. Prompting(s, Prompt + 2, 0)
  BY <1>2, <1>4, <1>5 DEF Prompting
<1> QED BY <1>3, <1>4, <1>6 DEF s

LEMMA InitIs == Init => IInv
<1> SUFFICES ASSUME Init PROVE IInv
  OBVIOUS
<1>1. /\ screen = started /\ input_buffer = [i \in Positions |-> NUL]
      /\ input_buffer_index = 0 /\ ran = nobody
      /\ todo = print_line \o print_prompt /\ off = FALSE
      /\ child = nothing /\ mixed = 0 /\ disturbed = FALSE
  BY DEF Init, ShellInit
<1>2. TasksInv /\ \A t \in Tasks : calls[t] = <<>>
  BY TasksStart DEF Init
<1>3. /\ todo \in Seq(Calls) /\ Len(todo) = Prompt + 2
      /\ Prompting(todo, Prompt + 2, 0) /\ Prompt \in Nat /\ MAX_BUFFER_SIZE \in Nat
  BY <1>1, StartingCalls, PromptIs
<1>4. Drawn(screen)
  BY <1>1, StartedDraws
<1>5. BufferInv
  <2>1. input_buffer \in [Positions -> Letters \cup {NUL}]
    BY <1>1
  <2>2. \A i \in Positions : ~(i < 0) /\ input_buffer[i] = NUL
    BY <1>1, <1>3 DEF Positions
  <2>3. 0 \in 0..MAX_BUFFER_SIZE
    BY <1>3
  <2> QED BY <1>1, <1>3, <2>1, <2>2, <2>3 DEF BufferInv, ShellTypeOK
<1>6. LineInv
  <2>1. Prompted(Prompt + 2, 0)
    BY <1>1, <1>3 DEF Prompted
  <2>2. Len(todo) - 0 = Prompt + 2
    BY <1>3
  <2> QED BY <1>1, <2>1, <2>2 DEF LineInv
<1>7. EchoInv
  <2>1. Len(todo) # 0 /\ Len(todo) # 1
    BY <1>3
  <2>2. Len(<<>>) = 0 /\ Len(<<"move_left">>) = 1
    OBVIOUS
  <2>3. todo # <<>> /\ todo # <<"move_left">>
    BY <2>1, <2>2
  <2> QED BY <2>3 DEF EchoInv
<1>8. ClockInv
  BY <1>2, Points DEF ClockInv
<1>9. mixed \in 0..MaxMixed
  BY <1>1, MixedAssumption
<1> QED BY <1>1, <1>2, <1>4, <1>5, <1>6, <1>7, <1>8, <1>9 DEF IInv

LEMMA OverlapKeeps == ASSUME IInv, Overlap PROVE IInv'
<1>1. /\ off' = TRUE /\ disturbed' = TRUE
      /\ UNCHANGED <<screen, buffer_vars, todo, task_vars, child, mixed>>
  BY DEF Overlap
<1>2. TasksInv'
  BY <1>1 DEF IInv, TasksInv, TaskIs, task_vars, Placed
<1>3. BufferInv'
  BY <1>1 DEF IInv, BufferInv, ShellTypeOK, buffer_vars
<1>4. LineInv'
  BY <1>1 DEF IInv, LineInv, TakingBack, Prompted, buffer_vars
<1> QED BY <1>1, <1>2, <1>3, <1>4 DEF IInv, EchoInv, ClockInv

LEMMA StepIs == IInv /\ [Next]_vars => IInv'
<1> SUFFICES ASSUME IInv, [Next]_vars PROVE IInv'
  OBVIOUS
<1>1. CASE ShellPrints
  BY <1>1, PrintsKeep
<1>2. CASE ShellFinishes
  BY <1>2, FinishKeeps
<1>3. CASE ShellCreates
  BY <1>3, CreatesKeep
<1>4. CASE ShellWaits
  BY <1>4, WaitsKeep
<1>5. ASSUME NEW t \in Tasks, TaskRuns(t) PROVE IInv'
  BY <1>5, TaskRunKeeps
<1>6. CASE UNCHANGED vars
  <2>1. /\ screen' = screen /\ input_buffer' = input_buffer
        /\ input_buffer_index' = input_buffer_index /\ ran' = ran
        /\ todo' = todo /\ off' = off /\ child' = child /\ mixed' = mixed
        /\ disturbed' = disturbed /\ UNCHANGED task_vars
    BY <1>6 DEF vars, shell_vars, buffer_vars
  <2>2. home' = home
    BY <2>1, HomeStays DEF task_vars
  <2>3. TasksInv'
    BY <2>1 DEF IInv, TasksInv, TaskIs, task_vars, Placed
  <2>4. BufferInv'
    BY <2>1 DEF IInv, BufferInv, ShellTypeOK
  <2>5. LineInv'
    BY <2>1, <2>2 DEF IInv, LineInv, TakingBack, Prompted
  <2>6. EchoInv'
    BY <2>1, <2>2 DEF IInv, EchoInv, Seen
  <2>7. ClockInv'
    BY <2>1 DEF IInv, ClockInv, task_vars
  <2> QED BY <2>1, <2>3, <2>4, <2>5, <2>6, <2>7 DEF IInv
<1>7. CASE Unfollowed
  BY <1>6, <1>7 DEF Unfollowed
<1>8. CASE Overlap
  BY <1>8, OverlapKeeps
<1> QED BY <1>1, <1>2, <1>3, <1>4, <1>5, <1>6, <1>7, <1>8 DEF Next

----------------------------------------------------------------------------
(* What follows.                                                           *)

\* The invariant holds between whole calls, until two overlap: what is seen, what is buffered and which call of the
\* shell and of every task comes next agree (command_line.cpp, terminal.cpp,
\* kernel.cpp).
THEOREM Invariance == Spec => []IInv
BY InitIs, StepIs, PTL DEF Spec

\* The types, between whole calls: in particular the index is in the input buffer
\* (send_input), and every place that a timer takes is below the number of tasks
\* (task).
THEOREM TypeCorrect == Spec => []TypeOK
<1>1. IInv => TypeOK
  <2> SUFFICES ASSUME IInv PROVE TypeOK
    OBVIOUS
  <2>1. OnScreen /\ ShellTypeOK
    BY DEF IInv, Drawn, OnScreen, BufferInv
  <2>2. TasksTypeOK
    <3>1. /\ IsFiniteSet(Tasks) /\ Placed \subseteq Tasks /\ TasksInv
      BY PlacesFit DEF Placed, IInv
    <3>2. /\ Cardinality(Placed) \in Nat /\ Cardinality(Tasks) \in Nat
          /\ Cardinality(Placed) <= Cardinality(Tasks)
      BY <3>1, FS_Subset, FS_CardinalityType
    <3>3. \A t \in Tasks : TaskIs(t)
      BY <3>1 DEF TasksInv
    <3>4. \A t \in Tasks : /\ calls[t] \in Seq(CallNames)
                           /\ cursor_pos[t] \in Cells \cup {nothing}
      BY <3>3, PointsAreCalls DEF TaskIs
    <3>5. \A t \in Tasks : pos[t] \in 0..Cardinality(Tasks) \cup {nothing}
      BY <3>2, <3>3 DEF TaskIs
    <3>6. terminal_mutex \in BOOLEAN /\ task_count \in 0..Cardinality(Tasks)
      BY <3>1, <3>2 DEF TasksInv
    <3>7. /\ calls \in [Tasks -> Seq(CallNames)]
          /\ pos \in [Tasks -> 0..Cardinality(Tasks) \cup {nothing}]
          /\ cursor_pos \in [Tasks -> Cells \cup {nothing}]
      BY <3>1, <3>4, <3>5 DEF TasksInv
    <3> QED BY <3>6, <3>7 DEF TasksTypeOK, CallNames
  <2> QED BY <2>1, <2>2 DEF TypeOK, IInv
<1> QED BY <1>1, Invariance, PTL

\* Every task that is in the terminal holds terminal_mutex, for any number of
\* tasks and any order they run in, so that no two of their calls overlap; and
\* until the shell, which does not take it, overlaps a call, or takes back a
\* character in column 0, the cursor is on the screen and is put back on it
\* (task_base, next_line, put_char).
THEOREM CursorStaysKept == Spec => []CursorKept
<1>1. IInv => CursorKept
  <2> SUFFICES ASSUME IInv PROVE CursorKept
    OBVIOUS
  <2>1. /\ \A t \in Tasks : TaskIs(t)
        /\ \A t, u \in Tasks : calls[t] \in Holding /\ calls[u] \in Holding => t = u
    BY DEF IInv, TasksInv
  <2>2. ASSUME NEW t \in Calling
        PROVE  /\ t \in Tasks /\ calls[t] \in Holding
               /\ NextIs(t, "move_cursor") => calls[t] \in InRound
               /\ NextIs(t, "move_back") => calls[t] \in CursorAway
    <3>1. t \in Tasks /\ calls[t] # <<>> /\ calls[t] \in Everywhere
      BY <2>1 DEF Calling, NextIs, TaskIs
    <3>2. Head(calls[t]) \in {"get_cursor_pos", "move_cursor", "print",
                              "next_line", "move_back"}
      BY DEF Calling, NextIs
    <3>3. calls[t] \in {ToSave, ToMove, ToPrint, ToMoveBack,
                        ToSay1, ToSay2, ToNext1, ToNext2}
      BY <3>1, <3>2, Advance
    <3>4. /\ NextIs(t, "move_cursor") => calls[t] = ToMove
          /\ NextIs(t, "move_back") => calls[t] = ToMoveBack
      BY <3>1, Advance DEF NextIs
    <3> QED BY <3>1, <3>3, <3>4 DEF Holding, CursorAway, InRound
  <2>3. screen.cursor \in Cells
    BY ShellFacts
  <2>4. ASSUME NEW t \in Calling, NextIs(t, "move_cursor") PROVE Place(pos[t]) \in Cells
    BY <2>2, <2>4, PlaceIs DEF IInv
  <2>5. ASSUME NEW t \in Calling, NextIs(t, "move_back") PROVE cursor_pos[t] \in Cells
    BY <2>1, <2>2, <2>5 DEF TaskIs
  <2> QED BY <2>1, <2>2, <2>3, <2>4, <2>5 DEF CursorKept
<1> QED BY <1>1, Invariance, PTL

\* After each call the display shows the text with one cursor, where the next character goes,
\* whoever prints, and wherever in the row or the screen (set_cursor_at,
\* impl::scroll_down, put_char).
THEOREM OneCursorShown == Spec => []OneCursor
<1>1. IInv => OneCursor
  BY DEF IInv, Drawn, OneCursor
<1> QED BY <1>1, Invariance, PTL

\* What is seen of an undisturbed line is what is in the input buffer, and the
\* clocks leave it and the cursor as they were (send_input, task).
THEOREM EchoIsTheInput == Spec => []EchoIsInput
<1>1. IInv => EchoIsInput
  <2> SUFFICES ASSUME IInv, todo = <<>>, ~disturbed
               PROVE  /\ ~off
                      /\ home[1] = Prompt + input_buffer_index
                      /\ \A i \in 0..(input_buffer_index - 1) :
                             screen.buffer[<<Prompt + i, home[2]>>] = input_buffer[i]
    BY DEF EchoIsInput
  <2>1. ~off
    BY DEF IInv, LineInv
  <2> QED BY <2>1, ReadyFacts
<1> QED BY <1>1, Invariance, PTL

\* One timer at a time has the cursor, and its clock is at its own place, for any
\* number of timers that fit the screen, with a lost increment of task_count or
\* without (task).
THEOREM ClocksInPlace == Spec => []ClockInPlace
<1>1. IInv => ClockInPlace
  <2> SUFFICES ASSUME IInv PROVE ClockInPlace
    OBVIOUS
  <2>1. HomeFacts
    BY HomeIs DEF IInv
  <2>2. Cardinality(Away) <= 1
    <3>1. CASE Away = {}
      <4>1. Cardinality(Away) = 0
        BY <3>1, FS_EmptySet
      <4> QED BY <4>1
    <3>2. CASE Away # {}
      <4>1. PICK t \in Tasks : t \in Away
        BY <3>2 DEF Away
      <4>2. Away = {t}
        BY <2>1, <4>1 DEF HomeFacts
      <4>3. Cardinality(Away) = 1
        BY <4>2, FS_Singleton
      <4> QED BY <4>3
    <3> QED BY <3>1, <3>2
  <2>3. ASSUME NEW t \in Away, NextIs(t, "move_back"), ~disturbed
        PROVE  /\ screen.buffer[Place(pos[t])] = text
               /\ screen.cursor = <<Place(pos[t])[1] + 1, Place(pos[t])[2]>>
    <3>1. t \in Tasks /\ TaskIs(t)
      BY DEF Away, IInv, TasksInv
    <3>2. calls[t] = ToMoveBack
      BY <2>3, <3>1, Advance DEF NextIs, TaskIs
    <3> QED BY <2>3, <3>1, <3>2 DEF IInv, ClockInv
  <2> QED BY <2>2, <2>3 DEF ClockInPlace
<1> QED BY <1>1, Invariance, PTL

----------------------------------------------------------------------------
(* The shell is a LineEditor.                                              *)

LineFacts ==
    /\ line \in Seq(Letters) /\ Len(line) = input_buffer_index
    /\ input_buffer_index \in 0..MAX_BUFFER_SIZE
    /\ \A i \in 1..input_buffer_index : line[i] = input_buffer[i - 1]

LEMMA LineIs == IInv => LineFacts
<1> SUFFICES ASSUME IInv PROVE LineFacts
  OBVIOUS
<1>1. /\ input_buffer \in [Positions -> Letters \cup {NUL}]
      /\ input_buffer_index \in 0..MAX_BUFFER_SIZE /\ MAX_BUFFER_SIZE \in Nat
      /\ \A i \in Positions : i < input_buffer_index <=> input_buffer[i] # NUL
  BY ShellFacts, PromptIs DEF IInv, BufferInv
<1>2. ASSUME NEW i \in 1..input_buffer_index PROVE input_buffer[i - 1] \in Letters
  <2>1. i - 1 \in Positions /\ i - 1 < input_buffer_index
    BY <1>1 DEF Positions
  <2> QED BY <1>1, <2>1
<1>3. line \in Seq(Letters) /\ Len(line) = input_buffer_index
  BY <1>1, <1>2 DEF line
<1>4. \A i \in 1..input_buffer_index : line[i] = input_buffer[i - 1]
  BY DEF line
<1> QED BY <1>1, <1>3, <1>4 DEF LineFacts

\* The compare with a name, up to its NUL, is a compare of the line with it.
LEMMA SameIs ==
  ASSUME IInv, NEW name \in Range(Registered)
  PROVE  Same(name) <=> name = line
PROOF
<1>1. /\ name \in Seq(Range(name)) /\ NUL \notin Range(name)
      /\ Len(name) < MAX_BUFFER_SIZE
  BY NamesFit
<1>2. /\ Len(name) \in Nat /\ MAX_BUFFER_SIZE \in Nat
      /\ \A i \in 1..Len(name) : name[i] # NUL
  BY <1>1, PromptIs DEF Range
<1>3. /\ line \in Seq(Letters) /\ Len(line) = input_buffer_index
      /\ input_buffer_index \in 0..MAX_BUFFER_SIZE
      /\ \A i \in 1..input_buffer_index : line[i] = input_buffer[i - 1]
  BY LineIs DEF LineFacts
<1>4. \A i \in Positions : i < input_buffer_index <=> input_buffer[i] # NUL
  BY DEF IInv, BufferInv
<1>5. Len(name) \in Positions
  BY <1>1, <1>2 DEF Positions
<1>6. ASSUME Same(name) PROVE name = line
  <2>1. /\ input_buffer[Len(name)] = NUL
        /\ \A i \in 1..Len(name) : input_buffer[i - 1] = name[i]
    <3>1. \A i \in 1..(Len(name) + 1) :
              input_buffer[i - 1] = IF i > Len(name) THEN NUL ELSE name[i]
      BY <1>6 DEF Same
    <3>2. /\ Len(name) + 1 \in 1..(Len(name) + 1) /\ Len(name) + 1 - 1 = Len(name)
          /\ Len(name) + 1 > Len(name)
      BY <1>2
    <3>3. input_buffer[Len(name)] = NUL
      BY <3>1, <3>2
    <3>4. ASSUME NEW i \in 1..Len(name) PROVE input_buffer[i - 1] = name[i]
      BY <1>2, <3>1
    <3> QED BY <3>3, <3>4
  <2>2. input_buffer_index <= Len(name)
    BY <1>2, <1>3, <1>4, <1>5, <2>1
  <2>3. Len(name) <= input_buffer_index
    <3>1. CASE Len(name) = 0
      BY <1>3, <3>1
    <3>2. CASE Len(name) > 0
      <4>1. Len(name) \in 1..Len(name) /\ Len(name) - 1 \in Positions
        BY <1>2, <1>5, <3>2 DEF Positions
      <4>2. input_buffer[Len(name) - 1] # NUL
        BY <1>2, <2>1, <4>1
      <4>3. Len(name) - 1 < input_buffer_index
        BY <1>4, <4>1, <4>2
      <4> QED BY <1>2, <1>3, <4>3
    <3> QED BY <1>2, <3>1, <3>2
  <2>4. Len(name) = Len(line)
    BY <1>2, <1>3, <2>2, <2>3
  <2>5. \A i \in 1..Len(name) : name[i] = line[i]
    BY <1>3, <2>1, <2>4
  <2>6. name \in Seq(Range(name) \cup Letters) /\ line \in Seq(Range(name) \cup Letters)
    BY <1>1, <1>3
  <2> QED BY <2>4, <2>5, <2>6, SeqEqual
<1>7. ASSUME name = line PROVE Same(name)
  <2>1. Len(name) = input_buffer_index
    BY <1>3, <1>7
  <2>2. input_buffer[Len(name)] = NUL
    BY <1>2, <1>4, <1>5, <2>1
  <2>3. \A i \in 1..Len(name) : input_buffer[i - 1] = name[i]
    BY <1>3, <1>7, <2>1
  <2>4. ASSUME NEW i \in 1..(Len(name) + 1)
        PROVE  input_buffer[i - 1] = IF i > Len(name) THEN NUL ELSE name[i]
    <3>1. CASE i <= Len(name)
      BY <1>2, <2>3, <3>1
    <3>2. CASE i > Len(name)
      <4>1. i - 1 = Len(name)
        BY <1>2, <3>2
      <4> QED BY <2>2, <3>2, <4>1
    <3> QED BY <1>2, <3>1, <3>2
  <2> QED BY <2>4 DEF Same
<1> QED BY <1>6, <1>7

LEMMA EditorAdds ==
  ASSUME IInv, IInv', NEW key, Type(key)
  PROVE  Editor!Next
PROOF
<1> DEFINE n == input_buffer_index
<1>1. /\ n < MAX_BUFFER_SIZE /\ key \in Letters
      /\ input_buffer' = [input_buffer EXCEPT ![n] = key]
      /\ input_buffer_index' = n + 1 /\ ran' = ran
  BY DEF Type, Ready, map_key_to_ascii
<1>2. LineFacts /\ LineFacts'
  <2>1. LineFacts
    BY LineIs
  <2>2. LineFacts'
    BY LineIs, PTL
  <2> QED BY <2>1, <2>2
<1>3. /\ n \in Nat /\ line \in Seq(Letters) /\ Len(line) = n
      /\ \A i \in 1..n : line[i] = input_buffer[i - 1]
      /\ line' \in Seq(Letters) /\ Len(line') = n + 1
      /\ \A i \in 1..(n + 1) : line'[i] = input_buffer'[i - 1]
  BY <1>1, <1>2 DEF LineFacts
<1>4. n \in Positions
  BY <1>1, <1>3, PromptIs DEF Positions
<1>5. /\ Append(line, key) \in Seq(Letters) /\ Len(Append(line, key)) = n + 1
      /\ \A i \in 1..n : Append(line, key)[i] = line[i]
      /\ Append(line, key)[n + 1] = key
  BY <1>1, <1>3, AppendProperties
<1>6. ASSUME NEW i \in 1..(n + 1) PROVE line'[i] = Append(line, key)[i]
  <2>1. CASE i = n + 1
    <3>1. line'[i] = input_buffer'[n]
      BY <1>3, <2>1
    <3>2. input_buffer'[n] = key
      BY <1>1, <1>4, ShellFacts
    <3> QED BY <1>5, <2>1, <3>1, <3>2
  <2>2. CASE i # n + 1
    <3>1. i \in 1..n /\ i - 1 # n /\ i - 1 \in Positions
      <4>1. i \in 1..n /\ i - 1 # n
        BY <1>3, <2>2
      <4>2. i - 1 \in 0..(MAX_BUFFER_SIZE - 1)
        BY <1>1, <1>3, <4>1, PromptIs
      <4> QED BY <4>1, <4>2 DEF Positions
    <3>2. input_buffer'[i - 1] = input_buffer[i - 1]
      BY <1>1, <3>1, ShellFacts
    <3> QED BY <1>3, <1>5, <3>1, <3>2
  <2> QED BY <2>1, <2>2
<1>7. line' = Append(line, key)
  BY <1>3, <1>5, <1>6, SeqEqual
<1>8. Editor!Add(key)
  BY <1>1, <1>3, <1>7 DEF Editor!Add
<1> QED BY <1>1, <1>8 DEF Editor!Next

LEMMA EditorDrops ==
  ASSUME IInv, IInv', FinishBackspace
  PROVE  Editor!Next
PROOF
<1> DEFINE n == input_buffer_index
<1>1. /\ todo # <<>> /\ Head(todo) = "move_left" /\ ~off
      /\ input_buffer' = [input_buffer EXCEPT ![n - 1] = NUL]
      /\ input_buffer_index' = n - 1 /\ ran' = ran
  BY DEF FinishBackspace, Doing
<1>2. LineFacts /\ LineFacts'
  <2>1. LineFacts
    BY LineIs
  <2>2. LineFacts'
    BY LineIs, PTL
  <2> QED BY <2>1, <2>2
<1>3. /\ n \in 0..MAX_BUFFER_SIZE /\ line \in Seq(Letters) /\ Len(line) = n
      /\ \A i \in 1..n : line[i] = input_buffer[i - 1]
      /\ line' \in Seq(Letters) /\ Len(line') = n - 1
      /\ \A i \in 1..(n - 1) : line'[i] = input_buffer'[i - 1]
      /\ n - 1 \in 0..MAX_BUFFER_SIZE /\ MAX_BUFFER_SIZE \in Nat
  BY <1>1, <1>2, PromptIs DEF LineFacts
<1>4. n > 0 /\ line # <<>>
  BY <1>3
<1>5. /\ SubSeq(line, 1, n - 1) \in Seq(Letters)
      /\ Len(SubSeq(line, 1, n - 1)) = n - 1
      /\ \A i \in 1..(n - 1) : SubSeq(line, 1, n - 1)[i] = line[i]
  BY <1>3, <1>4, SubSeqProperties
<1>6. ASSUME NEW i \in 1..(n - 1) PROVE line'[i] = line[i]
  <2>1. i \in 1..n /\ i - 1 # n - 1 /\ i - 1 \in Positions
    BY <1>3 DEF Positions
  <2>2. input_buffer'[i - 1] = input_buffer[i - 1]
    BY <1>1, <2>1, ShellFacts
  <2> QED BY <1>3, <2>1, <2>2
<1>7. line' = SubSeq(line, 1, n - 1)
  BY <1>3, <1>5, <1>6, SeqEqual
<1>8. Editor!Drop
  BY <1>1, <1>3, <1>4, <1>7 DEF Editor!Drop
<1> QED BY <1>8 DEF Editor!Next

LEMMA EditorRuns ==
  ASSUME IInv, IInv', FinishLine
  PROVE  Editor!Next
PROOF
<1>1. input_buffer_index' = 0 /\ ran' = call_callback
  BY DEF FinishLine
<1>2. LineFacts'
  BY LineIs, PTL
<1>3. line' = <<>>
  <2>1. line' \in Seq(Letters) /\ Len(line') = 0
    BY <1>1, <1>2 DEF LineFacts
  <2> QED BY <2>1, LengthZero
<1>4. \A i \in DOMAIN commands : Same(commands[i]) <=> commands[i] = line
  BY SameIs, CommandsAre
<1>5. Editor!Run
  <2>1. CASE /\ call_callback = nobody
             /\ \A i \in DOMAIN commands : ~Same(commands[i])
    BY <1>1, <1>3, <1>4, <2>1 DEF Editor!Run
  <2>2. CASE /\ call_callback \in DOMAIN commands /\ Same(commands[call_callback])
             /\ \A j \in DOMAIN commands : Same(commands[j]) => call_callback <= j
    <3> DEFINE k == call_callback
    <3>1. k \in DOMAIN commands /\ commands[k] = line
      BY <1>4, <2>2
    <3>2. ASSUME NEW j \in 1..(k - 1) PROVE commands[j] # line
      <4>1. j \in DOMAIN commands /\ ~(k <= j)
        BY <3>1, CommandsAre
      <4> QED BY <1>4, <2>2, <4>1
    <3> HIDE DEF k
    <3>3. k \in {i \in DOMAIN commands :
                    commands[i] = line /\ \A j \in 1..(i - 1) : commands[j] # line}
      BY <3>1, <3>2
    <3> QED BY <1>1, <1>3, <3>1, <3>3 DEF Editor!Run, k
  <2> QED BY <2>1, <2>2, CallbackIs
<1> QED BY <1>5 DEF Editor!Next

LEMMA EditorStep == IInv /\ IInv' /\ [Next]_vars => [Editor!Next]_(Editor!vars)
<1> SUFFICES ASSUME IInv, IInv', [Next]_vars PROVE [Editor!Next]_(Editor!vars)
  OBVIOUS
<1>1. ASSUME UNCHANGED buffer_vars PROVE [Editor!Next]_(Editor!vars)
  <2>1. line' = line /\ ran' = ran
    BY <1>1 DEF buffer_vars, line
  <2> QED BY <2>1 DEF Editor!vars
<1>2. CASE ShellPrints
  <2>1. \/ \E key \in Key : Type(key) \/ Enter \/ Backspace
        \/ Output \/ FinishBackspace
    BY <1>2 DEF ShellPrints, send_input
  <2>2. CASE Enter \/ Backspace \/ Output
    BY <1>1, <2>2 DEF Enter, Backspace, Output
  <2>3. CASE FinishBackspace
    BY <2>3, EditorDrops
  <2>4. CASE \E key \in Key : Type(key)
    BY <2>4, EditorAdds
  <2> QED BY <2>1, <2>2, <2>3, <2>4
<1>3. CASE ShellFinishes
  BY <1>3, EditorRuns DEF ShellFinishes
<1>4. CASE ShellCreates \/ ShellWaits
  BY <1>1, <1>4 DEF ShellCreates, ShellWaits
<1>5. CASE \E t \in Tasks : TaskRuns(t)
  BY <1>1, <1>5 DEF TaskRuns
<1>6. CASE Unfollowed \/ UNCHANGED vars
  BY <1>1, <1>6 DEF Unfollowed, vars, shell_vars
<1>7. CASE Overlap
  BY <1>1, <1>7 DEF Overlap
<1> QED BY <1>2, <1>3, <1>4, <1>5, <1>6, <1>7 DEF Next

LEMMA EditorInit == Init => Editor!Init
<1> SUFFICES ASSUME Init PROVE Editor!Init
  OBVIOUS
<1>1. input_buffer_index = 0 /\ ran = nobody
  BY DEF Init, ShellInit
<1>2. LineFacts
  BY InitIs, LineIs
<1>3. line = <<>>
  BY <1>1, <1>2, LengthZero DEF LineFacts
<1> QED BY <1>1, <1>3 DEF Editor!Init

\* The shell is a line editor: for every table of commands and every length of
\* the buffer, the line that enter runs is what was typed and not taken back, and
\* the command that runs is the first with that name (send_input,
\* call_callback).
THEOREM LineEdited == Spec => EditsLine
<1>1. IInv /\ [Next]_vars => IInv'
  BY StepIs
<1> QED BY <1>1, InitIs, EditorInit, EditorStep, PTL DEF Spec, EditsLine, Editor!Spec

----------------------------------------------------------------------------
(* The screen is a sheet of Paper.                                         *)

Sheet(b) == [y \in Rows |-> [x \in Columns |-> b[<<x, y>>]]]

LEMMA SheetWritten ==
  ASSUME NEW b \in [Cells -> Glyphs], NEW p \in Cells, NEW ch
  PROVE  Sheet(Written(b, p, ch)) = [Sheet(b) EXCEPT ![p[2]][p[1]] = ch]
PROOF
<1>1. p = <<p[1], p[2]>> /\ p[1] \in Columns /\ p[2] \in Rows
  BY CellIs
<1> DEFINE s == Sheet(b)
           w == [s EXCEPT ![p[2]] = [s[p[2]] EXCEPT ![p[1]] = ch]]
<1>2. ASSUME NEW y \in Rows
      PROVE  w[y] = [x \in Columns |-> Written(b, p, ch)[<<x, y>>]]
  <2>1. \A x \in Columns : /\ <<x, y>> \in Cells
                           /\ s[y][x] = b[<<x, y>>]
                           /\ <<x, y>> = p <=> x = p[1] /\ y = p[2]
    BY <1>1, CellIs DEF Sheet
  <2>2. s[y] = [x \in Columns |-> b[<<x, y>>]]
    BY DEF Sheet
  <2>3. CASE y = p[2]
    <3>1. w[y] = [s[y] EXCEPT ![p[1]] = ch]
      BY <1>1, <2>3 DEF Sheet
    <3> HIDE DEF s, w
    <3>2. \A x \in Columns : w[y][x] = IF x = p[1] THEN ch ELSE b[<<x, y>>]
      BY <2>2, <3>1
    <3>3. \A x \in Columns :
              Written(b, p, ch)[<<x, y>>] = IF x = p[1] THEN ch ELSE b[<<x, y>>]
      BY <2>1, <2>3 DEF Written
    <3>4. w[y] = [x \in Columns |-> w[y][x]]
      BY <2>2, <3>1
    <3> QED BY <3>2, <3>3, <3>4
  <2>4. CASE y # p[2]
    <3>1. w[y] = s[y]
      BY <1>1, <2>4 DEF Sheet
    <3>2. \A x \in Columns : Written(b, p, ch)[<<x, y>>] = b[<<x, y>>]
      BY <2>1, <2>4 DEF Written
    <3> HIDE DEF s, w
    <3> QED BY <2>2, <3>1, <3>2
  <2> QED BY <2>3, <2>4
<1>3. w = [y \in Rows |-> w[y]]
  BY DEF Sheet
<1>4. Sheet(Written(b, p, ch)) = [y \in Rows |-> [x \in Columns |-> Written(b, p, ch)[<<x, y>>]]]
  BY DEF Sheet
<1> HIDE DEF w
<1>5. Sheet(Written(b, p, ch)) = w
  BY <1>2, <1>3, <1>4
<1> QED BY <1>5 DEF w

BlankSheet == [y \in Rows |-> [x \in Columns |-> blank]]

LEMMA SheetBlank == Sheet([c \in Cells |-> blank]) = BlankSheet
<1>1. \A x \in Columns, y \in Rows : [c \in Cells |-> blank][<<x, y>>] = blank
  BY CellIs
<1> QED BY <1>1 DEF Sheet, BlankSheet

LEMMA SheetUp ==
  ASSUME NEW b
  PROVE  Sheet(RowsUp(b)) =
           [y \in Rows |-> IF y = Height - 1 THEN [x \in Columns |-> blank]
                           ELSE Sheet(b)[y + 1]]
PROOF
<1>1. ASSUME NEW y \in Rows
      PROVE  [x \in Columns |-> RowsUp(b)[<<x, y>>]] =
               IF y = Height - 1 THEN [x \in Columns |-> blank] ELSE Sheet(b)[y + 1]
  <2>1. \A x \in Columns : /\ <<x, y>> \in Cells
                           /\ <<x, y>>[1] = x /\ <<x, y>>[2] = y
    BY CellIs
  <2>2. CASE y = Height - 1
    <3>1. \A x \in Columns : RowsUp(b)[<<x, y>>] = blank
      BY <2>1, <2>2 DEF RowsUp
    <3> QED BY <2>2, <3>1
  <2>3. CASE y # Height - 1
    <3>1. \A x \in Columns : RowsUp(b)[<<x, y>>] = b[<<x, y + 1>>]
      BY <2>1, <2>3 DEF RowsUp
    <3>2. y + 1 \in Rows
      BY <2>3, Edges DEF Rows
    <3>3. Sheet(b)[y + 1] = [x \in Columns |-> b[<<x, y + 1>>]]
      BY <3>2 DEF Sheet
    <3> QED BY <2>3, <3>1, <3>3
  <2> QED BY <2>2, <2>3
<1>2. Sheet(RowsUp(b)) = [y \in Rows |-> [x \in Columns |-> RowsUp(b)[<<x, y>>]]]
  BY DEF Sheet
<1> QED BY <1>1, <1>2

\* The names of Paper, for the screen.
LEMMA RollIs ==
  /\ Roll!Columns = Columns /\ Roll!Rows = Rows
  /\ Roll!Blank = BlankSheet /\ Roll!BlankRow = [x \in Columns |-> blank]
BY DEF Roll!Columns, Roll!Rows, Roll!Blank, Roll!BlankRow, Columns, Rows, BlankSheet

\* What a new line does to the sheet with the text b.
LEMMA RollFeeds ==
  ASSUME Drawn(screen), NEW b, screen'.cursor = <<0, RowBelow(screen.cursor[2])>>,
         screen'.buffer = Below(b, screen.cursor[2])
  PROVE  /\ screen'.cursor[1] = 0
         /\ screen.cursor[2] = Height - 1 =>
                /\ Sheet(screen'.buffer) =
                     [z \in Rows |-> IF z = screen.cursor[2] THEN [x \in Columns |-> blank]
                                     ELSE Sheet(b)[z + 1]]
                /\ screen'.cursor[2] = screen.cursor[2]
         /\ screen.cursor[2] # Height - 1 =>
                /\ Sheet(screen'.buffer) = Sheet(b)
                /\ screen'.cursor[2] = screen.cursor[2] + 1
PROOF
<1>1. CASE screen.cursor[2] = Height - 1
  <2>1. /\ screen'.buffer = RowsUp(b) /\ screen'.cursor[1] = 0
        /\ screen'.cursor[2] = screen.cursor[2]
    BY <1>1 DEF Below, RowBelow
  <2>2. Sheet(screen'.buffer) =
          [z \in Rows |-> IF z = screen.cursor[2] THEN [x \in Columns |-> blank]
                          ELSE Sheet(b)[z + 1]]
    BY <1>1, <2>1, SheetUp
  <2> QED BY <1>1, <2>1, <2>2
<1>2. CASE screen.cursor[2] # Height - 1
  <2>1. /\ screen'.buffer = b /\ screen'.cursor[1] = 0
        /\ screen'.cursor[2] = screen.cursor[2] + 1
    BY <1>2 DEF Below, RowBelow
  <2> QED BY <1>2, <2>1
<1> QED BY <1>1, <1>2

\* Every call of the terminal is a step of the Paper.
LEMMA RollTypes ==
  ASSUME Drawn(screen), NEW ch \in Chars, PutChar(ch)
  PROVE  Roll!Next
PROOF
<1> DEFINE c == screen.cursor
           b == Written(screen.buffer, c, ch)
<1>1. /\ screen.buffer \in [Cells -> Glyphs] /\ c \in Cells /\ ch \in Glyphs
      /\ c[1] \in Columns /\ c[2] \in Rows
  BY CellIs DEF Drawn, Screens, Glyphs
<1>2. /\ screen'.cursor = After(c) /\ screen'.buffer = Typed(screen.buffer, c, ch)
  BY <1>1, Draws
<1>3. Sheet(b) = [Sheet(screen.buffer) EXCEPT ![c[2]][c[1]] = ch]
  BY <1>1, SheetWritten
<1> HIDE DEF b
<1>4. CASE Ends(c)
  <2>1. screen'.cursor = <<0, RowBelow(c[2])>> /\ screen'.buffer = Below(b, c[2])
    BY <1>2, <1>4 DEF After, Typed, b
  <2>2. /\ screen'.cursor[1] = 0
        /\ c[2] = Height - 1 =>
               /\ Sheet(screen'.buffer) =
                    [z \in Rows |-> IF z = c[2] THEN Roll!BlankRow ELSE Sheet(b)[z + 1]]
               /\ screen'.cursor[2] = c[2]
        /\ c[2] # Height - 1 =>
               /\ Sheet(screen'.buffer) = Sheet(b)
               /\ screen'.cursor[2] = c[2] + 1
    BY <2>1, RollFeeds, RollIs
  <2>3. c[1] = Width - 1
    BY <1>4 DEF Ends
  <2>4. Roll!Type(ch)
    <3> DEFINE w == [Sheet(screen.buffer) EXCEPT ![c[2]][c[1]] = ch]
    <3>1. /\ c[2] = Height - 1 =>
                 Sheet(screen'.buffer) =
                     [z \in Rows |-> IF z = c[2] THEN Roll!BlankRow ELSE w[z + 1]]
          /\ c[2] # Height - 1 => Sheet(screen'.buffer) = w
      BY <1>3, <2>2
    <3>2. /\ screen'.cursor[1] = 0
          /\ IF c[2] = Height - 1
               THEN /\ Sheet(screen'.buffer) =
                         [z \in Roll!Rows |-> IF z = c[2] THEN Roll!BlankRow
                                              ELSE w[z + 1]]
                    /\ screen'.cursor[2] = c[2]
               ELSE Sheet(screen'.buffer) = w /\ screen'.cursor[2] = c[2] + 1
      <4> HIDE DEF w
      <4> QED BY <2>2, <3>1, RollIs
    <3> QED BY <2>3, <3>2, Zenon DEF Roll!Type, Roll!Feed, Sheet
  <2> QED BY <2>4 DEF Roll!Next
<1>5. CASE ~Ends(c)
  <2>1. /\ screen'.cursor[1] = c[1] + 1 /\ screen'.cursor[2] = c[2]
        /\ screen'.buffer = b
    BY <1>2, <1>5 DEF After, Typed, b
  <2>2. Sheet(screen'.buffer) = [Sheet(screen.buffer) EXCEPT ![c[2]][c[1]] = ch]
    BY <1>3, <2>1
  <2>3. c[1] # Width - 1
    BY <1>5 DEF Ends
  <2>4. Roll!Type(ch)
    BY <2>1, <2>2, <2>3 DEF Roll!Type, Sheet
  <2> QED BY <2>4 DEF Roll!Next
<1> QED BY <1>4, <1>5

LEMMA RollRubs ==
  ASSUME Drawn(screen), NEW p \in Cells \ {screen.cursor}, PutCharAt(blank, p)
  PROVE  Roll!Next
PROOF
<1>1. /\ screen.buffer \in [Cells -> Glyphs] /\ screen.cursor \in Cells
      /\ p \in Cells /\ p = <<p[1], p[2]>> /\ p[1] \in Columns /\ p[2] \in Rows
      /\ screen.cursor = <<screen.cursor[1], screen.cursor[2]>>
  BY CellIs DEF Drawn, Screens
<1>2. /\ screen'.cursor = screen.cursor
      /\ screen'.buffer = Written(screen.buffer, p, blank)
  BY Draws, TheGlyphs
<1>3. Sheet(screen'.buffer) = [Sheet(screen.buffer) EXCEPT ![p[2]][p[1]] = blank]
  <2>1. Sheet(Written(screen.buffer, p, blank))
          = [Sheet(screen.buffer) EXCEPT ![p[2]][p[1]] = blank]
    <3>1. p \in Cells /\ screen.buffer \in [Cells -> Glyphs]
      BY <1>1
    <3>2. \A ch : Sheet(Written(screen.buffer, p, ch))
                    = [Sheet(screen.buffer) EXCEPT ![p[2]][p[1]] = ch]
      BY <3>1, SheetWritten
    <3> QED BY <3>2
  <2> QED BY <1>2, <2>1
<1>4. <<p[1], p[2]>> # <<screen.cursor[1], screen.cursor[2]>>
  BY <1>1
<1>5. Roll!Rub(p[1], p[2])
  BY <1>2, <1>3, <1>4 DEF Roll!Rub, Sheet
<1> QED BY <1>1, <1>5, RollIs DEF Roll!Next

LEMMA RollFollows ==
  ASSUME Drawn(screen)
  PROVE  /\ NextLine => Roll!Next
         /\ \A p \in Cells : MoveCursor(p) => Roll!Next
         /\ ClearScreen => Roll!Next
PROOF
<1>1. ASSUME NextLine PROVE Roll!Next
  <2>1. /\ screen'.cursor = <<0, RowBelow(screen.cursor[2])>>
        /\ screen'.buffer = Below(screen.buffer, screen.cursor[2])
    BY <1>1, Draws
  <2>2. /\ screen'.cursor[1] = 0
        /\ screen.cursor[2] = Height - 1 =>
               /\ Sheet(screen'.buffer) =
                    [z \in Rows |-> IF z = screen.cursor[2] THEN Roll!BlankRow
                                    ELSE Sheet(screen.buffer)[z + 1]]
               /\ screen'.cursor[2] = screen.cursor[2]
        /\ screen.cursor[2] # Height - 1 =>
               /\ Sheet(screen'.buffer) = Sheet(screen.buffer)
               /\ screen'.cursor[2] = screen.cursor[2] + 1
    BY <2>1, RollFeeds, RollIs
  <2>3. Roll!Enter
    BY <2>2, RollIs DEF Roll!Enter, Roll!Feed, Sheet
  <2> QED BY <2>3 DEF Roll!Next
<1>2. ASSUME NEW p \in Cells, MoveCursor(p) PROVE Roll!Next
  <2>1. screen'.cursor = p /\ screen'.buffer = screen.buffer
    BY <1>2, Draws
  <2>2. Roll!Move(p[1], p[2])
    BY <2>1 DEF Roll!Move
  <2>3. p[1] \in Columns /\ p[2] \in Rows
    BY CellIs
  <2> QED BY <2>2, <2>3, RollIs DEF Roll!Next
<1>3. ASSUME ClearScreen PROVE Roll!Next
  <2>1. screen'.cursor = <<0, 0>> /\ screen'.buffer = [c \in Cells |-> blank]
    BY <1>3, Draws
  <2>2. Sheet(screen'.buffer) = Roll!Blank
    BY <2>1, SheetBlank, RollIs
  <2>3. Roll!Wipe
    BY <2>1, <2>2 DEF Roll!Wipe, Sheet
  <2> QED BY <2>3 DEF Roll!Next
<1> QED BY <1>1, <1>2, <1>3

LEMMA RollStep == IInv /\ [Next]_vars => [Roll!Next]_(Roll!vars)
<1> SUFFICES ASSUME IInv, [Next]_vars PROVE [Roll!Next]_(Roll!vars)
  OBVIOUS
<1>1. Drawn(screen) /\ TasksInv /\ todo \in Seq(Calls)
  BY ShellFacts
<1>2. ASSUME UNCHANGED screen PROVE [Roll!Next]_(Roll!vars)
  BY <1>2 DEF Roll!vars
<1>3. CASE ShellPrints
  <2>1. ASSUME NEW key, Type(key) PROVE Roll!Next
    <3>1. key \in Chars /\ PutChar(key)
      BY <2>1, TheGlyphs DEF Type, map_key_to_ascii
    <3> QED BY <1>1, <3>1, RollTypes
  <2>2. CASE Enter
    BY <1>1, <2>2, RollFollows DEF Enter
  <2>3. CASE Backspace
    <3>1. CASE screen.cursor[1] > 0
      BY <1>1, <2>3, <3>1, LeftIs, RollRubs DEF Backspace
    <3>2. CASE ~(screen.cursor[1] > 0)
      BY <1>2, <2>3, <3>2 DEF Backspace
    <3> QED BY <3>1, <3>2
  <2>4. CASE Output
    <3>1. text \in Chars
      BY TheGlyphs
    <3> QED BY <1>1, <2>4, <3>1, RollTypes, RollFollows DEF Output
  <2>5. CASE FinishBackspace
    <3>1. CASE screen.cursor[1] > 0
      BY <1>1, <2>5, <3>1, LeftIs, RollFollows DEF FinishBackspace
    <3>2. CASE ~(screen.cursor[1] > 0)
      BY <1>2, <2>5, <3>2 DEF FinishBackspace
    <3> QED BY <3>1, <3>2
  <2>6. \/ \E key \in Key : Type(key) \/ Enter \/ Backspace
        \/ Output \/ FinishBackspace
    BY <1>3 DEF ShellPrints, send_input
  <2> QED BY <2>1, <2>2, <2>3, <2>4, <2>5, <2>6
<1>4. CASE ShellFinishes \/ ShellCreates \/ ShellWaits
  BY <1>2, <1>4 DEF ShellFinishes, FinishLine, ShellCreates, ShellWaits
<1>5. ASSUME NEW t \in Tasks, TaskRuns(t) PROVE [Roll!Next]_(Roll!vars)
  <2>1. TaskStep(t) /\ TaskIs(t)
    BY <1>1, <1>5 DEF TaskRuns, TasksInv
  <2>2. \/ screen' = screen
        \/ calls[t] = ToMove /\ MoveCursor(Place(pos[t]))
        \/ PutChar(text) \/ NextLine
        \/ calls[t] = ToMoveBack /\ MoveCursor(cursor_pos[t])
    BY <1>1, <2>1, StepKeeps
  <2>3. CASE calls[t] = ToMove /\ MoveCursor(Place(pos[t]))
    <3>1. Place(pos[t]) \in Cells
      BY <1>1, <2>3, PlaceIs DEF InRound, CursorAway
    <3> QED BY <1>1, <2>3, <3>1, RollFollows
  <2>4. CASE PutChar(text) \/ NextLine
    <3>1. text \in Chars
      BY TheGlyphs
    <3> QED BY <1>1, <2>4, <3>1, RollTypes, RollFollows
  <2>5. CASE calls[t] = ToMoveBack /\ MoveCursor(cursor_pos[t])
    <3>1. cursor_pos[t] \in Cells
      BY <2>1, <2>5 DEF TaskIs, CursorAway
    <3> QED BY <1>1, <2>5, <3>1, RollFollows
  <2> QED BY <1>2, <2>2, <2>3, <2>4, <2>5
<1>6. CASE Unfollowed \/ UNCHANGED vars
  BY <1>2, <1>6 DEF Unfollowed, vars, shell_vars
<1>7. CASE Overlap
  BY <1>2, <1>7 DEF Overlap
<1> QED BY <1>3, <1>4, <1>5, <1>6, <1>7 DEF Next

LEMMA RollInit == Init => Roll!Init
<1> SUFFICES ASSUME Init PROVE Roll!Init
  OBVIOUS
<1>1. screen = started
  BY DEF Init, ShellInit
<1>2. /\ Sheet(screen.buffer) = Roll!Blank
      /\ screen.cursor[1] = 0 /\ screen.cursor[2] = 0
  BY <1>1, StartedDraws, SheetBlank, RollIs
<1> QED BY <1>2 DEF Roll!Init, Sheet

\* Call by call the screen is a sheet of paper, for every width and height, whoever of the
\* shell and the tasks prints: a line that wraps goes on in the next row, the
\* rows move up only when the last one is full, and nothing else moves or is lost
\* (terminal.cpp, vesa_impl.cpp).
THEOREM PaperShown == Spec => ShowsPaper
<1>1. IInv /\ [Next]_vars => IInv'
  BY StepIs
<1> QED BY <1>1, InitIs, RollInit, RollStep, PTL DEF Spec, ShowsPaper, Roll!Spec
=============================================================================
