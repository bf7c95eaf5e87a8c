------------------------------ MODULE Console -------------------------------
(***************************************************************************)
(* kernel/drivers/console/framebuffer/console.c: the text on the           *)
(* framebuffer, in glyphs of BITMAP_SIZE pixels with a gap of one.  Who    *)
(* calls it is left to the modules that extend this one: putch is called   *)
(* by logf and by the keyboard handler, the barrier is set by a reader.    *)
(*                                                                         *)
(* The cursor is kept twice, in pixels (column, row) and in characters     *)
(* (offset_x, offset_y).  A place on the screen is one glyph and its gap;  *)
(* places are BLANK, show a character in a colour, or are MIXED when parts *)
(* of several glyphs overlap in them.                                      *)
(***************************************************************************)
EXTENDS Integers, Sequences, FiniteSets

CONSTANTS
  Letter,             \* the characters that are printed
  Colour, WHITE,      \* \001 to \004
  NL, BS, TAB, CR, SPACE,
  WIDTH, HEIGHT,      \* of the framebuffer, in pixels
  BITMAP_SIZE,
  U32                 \* 2^32; a smaller one will do, far above WIDTH and HEIGHT

PITCH == BITMAP_SIZE + 1

ASSUME ConsoleAssumption ==
  /\ BITMAP_SIZE \in Nat /\ BITMAP_SIZE > 0
  /\ WIDTH \in Nat /\ WIDTH > 2 * BITMAP_SIZE
  /\ HEIGHT \in Nat /\ HEIGHT > 2 * BITMAP_SIZE + 2
  /\ U32 \in Nat /\ U32 > 4 * WIDTH /\ U32 > 4 * HEIGHT
  /\ WHITE \in Colour

\* The characters that putch tells apart are different ones.
ASSUME CharAssumption ==
  /\ NL \notin {BS, TAB, CR} /\ BS \notin {TAB, CR} /\ TAB # CR
  /\ {NL, BS, TAB, CR} \cap (Colour \cup Letter \cup {SPACE}) = {}

\* Where a glyph fits, and where one begins before putch goes on to the next
\* line, or scrolls.
Columns == {k \in 0..(WIDTH \div PITCH) : k * PITCH + BITMAP_SIZE < WIDTH}
Rows == {k \in 0..(HEIGHT \div PITCH) : k * PITCH + BITMAP_SIZE <= HEIGHT}
TextColumns == {k \in Columns : k * PITCH < WIDTH - 2 * BITMAP_SIZE}
TextRows == {k \in Rows : k * PITCH < HEIGHT - 2 * BITMAP_SIZE - 2}

BLANK == <<SPACE, SPACE>>
MIXED == <<NL, NL>>
Glyph(ch, colour) == IF ch = SPACE THEN BLANK ELSE <<ch, colour>>

Place == {BLANK, MIXED} \cup ((Letter \cup {BS, TAB, CR}) \X Colour)
NONE == [text |-> <<>>]

VARIABLE console     \* struct Sconsole and what the framebuffer shows

Number == 0..(U32 - 1)

ConsoleRecord ==
  [offset_x : Number, offset_y : Number, barrier : Number \X Number,
   column : Number, row : Number, color : Colour,
   screen : [Rows -> [Columns -> Place]],
   inside : BOOLEAN,
   prompt : [row : Rows, text : Seq(Place)] \cup {NONE}]

ConsoleType == console \in ConsoleRecord

\* console_require.  Two fields are history: inside, every glyph was drawn within
\* the framebuffer; prompt, what stood before the cursor when the barrier was
\* set, and the row it stands in now.
ConsoleInit ==
  console = [offset_x |-> 0, offset_y |-> 0, barrier |-> <<0, 0>>,
             column |-> 0, row |-> 0, color |-> WHITE,
             screen |-> [r \in Rows |-> [c \in Columns |-> BLANK]],
             inside |-> TRUE, prompt |-> NONE]

-----------------------------------------------------------------------------
Plus(n, i) == (n + i) % U32

\* The places that a glyph at that pixel column shows in.
Shown(column) ==
  {k \in Columns : /\ k * PITCH < column + BITMAP_SIZE
                   /\ column < k * PITCH + BITMAP_SIZE}

\* bitmapPC: the pixels column + 1 to column + 8, from the row on.
Drawn(s, column, row, ch) ==
  [s EXCEPT
     !.screen = [r \in Rows |-> [c \in Columns |->
        IF r * PITCH # row \/ c \notin Shown(column) THEN @[r][c]
        ELSE IF column % PITCH = 0 THEN Glyph(ch, s.color) ELSE MIXED]],
     !.inside = @ /\ column + BITMAP_SIZE < WIDTH /\ row + BITMAP_SIZE <= HEIGHT]

\* Fault: room for one line is kept free, not for two.
ScrollsLate(s) == s.row >= HEIGHT - BITMAP_SIZE - 2

Scrolls(s) == s.row >= HEIGHT - 2 * BITMAP_SIZE - 2

\* The memcpy; the lines below the last one it copies stay as they are.
MovedUp(screen) ==
  [r \in Rows |-> IF r + 1 \in Rows THEN screen[r + 1] ELSE screen[r]]

\* The prompt goes up with its row, and off the screen.
PromptUp(prompt) ==
  IF prompt = NONE \/ prompt.row = 0 THEN NONE ELSE [prompt EXCEPT !.row = @ - 1]

scroll(s) ==
  IF Scrolls(s)
  THEN [s EXCEPT !.screen = MovedUp(@),
                 !.prompt = PromptUp(@),
                 !.row = Plus(@, -PITCH),
                 !.offset_y = Plus(@, -1)]
  ELSE s

putchat(s, ch) ==
  [Drawn(s, s.column, s.row, ch) EXCEPT !.column = Plus(@, PITCH)]

Newline(s) ==
  [s EXCEPT !.row = Plus(@, PITCH), !.offset_y = Plus(@, 1),
            !.column = 0, !.offset_x = 0]

\* Fault: the size of the glyph is forgotten.
AtMarginLate(s) == s.column >= WIDTH

AtMargin(s) == s.column >= WIDTH - 2 * BITMAP_SIZE

\* putch of a character that is printed, or of any other at the margin.
Printed(s, ch) ==
  LET t == IF AtMargin(s) THEN scroll(Newline(s)) ELSE s
  IN  scroll([putchat(t, ch) EXCEPT !.offset_x = Plus(@, 1)])

Back(s) == [s EXCEPT !.column = Plus(@, -PITCH), !.offset_x = Plus(@, -1)]

\* Fault: the barrier is one character further left.
GuardedLess(s) ==
  /\ s.barrier # <<0, 0>>
  /\ s.barrier[1] > s.offset_x /\ s.barrier[2] = s.offset_y

Guarded(s) ==
  /\ s.barrier # <<0, 0>>
  /\ s.barrier[1] >= s.offset_x /\ s.barrier[2] = s.offset_y

Erased(s) == Back(Printed(Back(s), SPACE))

putch(s, ch) ==
  CASE ch = NL -> scroll(Newline(s))
    [] ch \in Colour -> scroll([s EXCEPT !.color = ch])
    [] ~AtMargin(s) /\ ch = BS ->
         scroll(IF s.column = 0 \/ Guarded(s) THEN s ELSE Erased(s))
    [] ~AtMargin(s) /\ ch = TAB ->
         scroll(Printed(Printed(Printed(Printed(s, SPACE), SPACE), SPACE), SPACE))
    [] ~AtMargin(s) /\ ch = CR -> scroll([s EXCEPT !.column = 0, !.offset_x = 0])
    [] OTHER -> Printed(s, ch)

MVCURSORC(s, i) == [s EXCEPT !.column = Plus(@, BITMAP_SIZE + i)]

\* The prompt: the places before the cursor in its row.
Prompt(s) ==
  LET row == s.row \div PITCH
      places == {c \in Columns : (c + 1) * PITCH <= s.column}
  IN  [row |-> row, text |-> [i \in 1..Cardinality(places) |-> s.screen[row][i - 1]]]

ConsoleSetBarrier(s) ==
  [s EXCEPT !.barrier = <<s.offset_x, s.offset_y>>, !.prompt = Prompt(s)]
ConsoleRemBarrier(s) == [s EXCEPT !.barrier = <<0, 0>>, !.prompt = NONE]
=============================================================================
