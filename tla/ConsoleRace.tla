---------------------------- MODULE ConsoleRace -----------------------------
(***************************************************************************)
(* logf on the thread against the keyboard handler.  The handler's putch   *)
(* runs to its end (interrupt gates); the thread's is interrupted between  *)
(* any two accesses to struct Sconsole, each of which is a load or a store *)
(* of its own (-O0).  A glyph is drawn, and a page is moved up, in one     *)
(* step: the framebuffer is not what this is about.                        *)
(*                                                                         *)
(* The thread prints characters and newlines; a key is any character that  *)
(* putch takes, or an arrow.                                               *)
(***************************************************************************)
EXTENDS Console

CONSTANTS
  LogChar,     \* what logf prints: letters, spaces and newlines
  KeyChar,     \* what is typed
  MaxDrift,    \* bound of the model: how far the two cursors may be apart when
               \* another key comes
  MaxPushed    \* bound of the model: the arrows between two margin tests

VARIABLES
  at,     \* the access the thread makes next, or "idle"
  ch,     \* the character it prints
  reg,    \* what it has loaded and not yet used, and the row for bitmapPC
  pushed  \* history: the arrows since the thread last knew its column

vars == <<console, at, ch, reg, pushed>>

Access == {"idle", "margin", "nl_row", "nl_row_store", "nl_offset_y",
           "nl_offset_y_store", "nl_column", "nl_offset_x", "scroll", "move",
           "up_row", "up_row_store", "up_offset_y", "up_offset_y_store",
           "args_row", "args_column", "draw", "column", "column_store",
           "offset_x", "offset_x_store"}

TypeOK ==
  /\ ConsoleType
  /\ at \in Access
  /\ ch \in LogChar
  /\ reg \in [value : 0..(U32 - 1), row : 0..(U32 - 1), drawn : BOOLEAN]
  /\ pushed \in 0..MaxPushed

Init ==
  /\ ConsoleInit
  /\ at = "idle"
  /\ ch \in LogChar
  /\ reg = [value |-> 0, row |-> 0, drawn |-> FALSE]
  /\ pushed = 0

\* The thread moves from one access to the next.
Go(from, to) == at = from /\ at' = to /\ UNCHANGED ch
Load(x) == reg' = [reg EXCEPT !.value = x] /\ UNCHANGED console
Store(s) == console' = s /\ reg' = [reg EXCEPT !.value = 0]

\* putch of a newline, alone or for a character at the margin.
Begin ==
  /\ at = "idle"
  /\ ch' \in LogChar
  /\ at' = IF ch' = NL THEN "nl_row" ELSE "margin"
  /\ reg' = [reg EXCEPT !.drawn = FALSE]
  /\ UNCHANGED console

NewlineSteps ==
  \/ Go("nl_row", "nl_row_store") /\ Load(console.row)
  \/ /\ Go("nl_row_store", "nl_offset_y")
     /\ Store([console EXCEPT !.row = Plus(reg.value, PITCH)])
  \/ Go("nl_offset_y", "nl_offset_y_store") /\ Load(console.offset_y)
  \/ /\ Go("nl_offset_y_store", "nl_column")
     /\ Store([console EXCEPT !.offset_y = Plus(reg.value, 1)])
  \/ Go("nl_column", "nl_offset_x") /\ Store([console EXCEPT !.column = 0])
  \/ Go("nl_offset_x", "scroll") /\ Store([console EXCEPT !.offset_x = 0])

\* Where putch goes on after scroll: the newline of a wrap is followed by the
\* character.
Scrolled == IF ch = NL \/ reg.drawn THEN "idle" ELSE "args_row"

ScrollSteps ==
  \/ Go("scroll", IF Scrolls(console) THEN "move" ELSE Scrolled)
       /\ UNCHANGED <<console, reg>>
  \/ /\ Go("move", "up_row")
     /\ Store([console EXCEPT !.screen = MovedUp(@), !.prompt = PromptUp(@)])
  \/ Go("up_row", "up_row_store") /\ Load(console.row)
  \/ /\ Go("up_row_store", "up_offset_y")
     /\ Store([console EXCEPT !.row = Plus(reg.value, -PITCH)])
  \/ Go("up_offset_y", "up_offset_y_store") /\ Load(console.offset_y)
  \/ /\ Go("up_offset_y_store", Scrolled)
     /\ Store([console EXCEPT !.offset_y = Plus(reg.value, -1)])

\* A character: the arguments of bitmapPC are loaded, the glyph is drawn, then
\* column and offset_x are counted up.  Here inside tells of the handler's
\* glyphs; where the thread's go is said by DrawnNear.
GlyphSteps ==
  \/ Go("margin", IF AtMargin(console) THEN "nl_row" ELSE "args_row")
       /\ UNCHANGED <<console, reg>>
  \/ /\ Go("args_row", "args_column")
     /\ reg' = [reg EXCEPT !.row = console.row]
     /\ UNCHANGED console
  \/ Go("args_column", "draw") /\ Load(console.column)
  \/ /\ Go("draw", "column")
     /\ console' = [Drawn(console, reg.value, reg.row, ch) EXCEPT !.inside = console.inside]
     /\ reg' = [value |-> 0, row |-> 0, drawn |-> TRUE]
  \/ Go("column", "column_store") /\ Load(console.column)
  \/ /\ Go("column_store", "offset_x")
     /\ Store([console EXCEPT !.column = Plus(reg.value, PITCH)])
  \/ Go("offset_x", "offset_x_store") /\ Load(console.offset_x)
  \/ /\ Go("offset_x_store", "scroll")
     /\ Store([console EXCEPT !.offset_x = Plus(reg.value, 1)])

Near(offset, pixels) ==
  Plus(offset - pixels \div PITCH, MaxDrift) <= 2 * MaxDrift

\* Counted beside the thread's steps: the margin test, and the store of 0, tell
\* it where the cursor is.
Thread ==
  /\ Begin \/ NewlineSteps \/ ScrollSteps \/ GlyphSteps
  /\ pushed' = IF at \in {"margin", "nl_column"} THEN 0 ELSE pushed

\* An interrupt of a key that prints, or of an arrow.
Key(k) ==
  /\ Near(console.offset_x, console.column) /\ Near(console.offset_y, console.row)
  /\ console' = putch(console, k)
  /\ UNCHANGED <<at, ch, reg, pushed>>

Arrow(i) ==
  /\ Near(console.offset_x, console.column) /\ pushed < MaxPushed
  /\ console' = MVCURSORC(console, i)
  /\ pushed' = pushed + 1
  /\ UNCHANGED <<at, ch, reg>>

Next ==
  \/ Thread
  \/ \E k \in KeyChar : Key(k)
  \/ Arrow(1) \/ Arrow(-1)

Spec == Init /\ [][Next]_vars

-----------------------------------------------------------------------------
\* However the thread was interrupted, every glyph of the handler is drawn within
\* its line.
DrawnInside == console.inside

\* A glyph of the thread may leave its line, for the column may have moved since
\* the margin test: by one pixel behind a key, and by PITCH more for every arrow.
\* It is drawn in a row of the text, with lines of the framebuffer below it.
DrawnNear ==
  at = "draw" =>
    /\ reg.value + BITMAP_SIZE <= WIDTH + PITCH * pushed
    /\ reg.row \div PITCH \in TextRows

\* The row the next character goes to is one that the page has.
RowOnPage == at = "idle" => console.row \div PITCH \in TextRows
=============================================================================
