------------------------------ MODULE Terminal ------------------------------
(***************************************************************************)
(* What those who write to the console count on: a page of lines, a cursor *)
(* that goes on to the next line at the right margin, a page that moves up *)
(* when its last line is left, and a backspace that erases at most the     *)
(* character before the cursor.  Once the cursor has been moved by hand    *)
(* nothing is promised.                                                    *)
(***************************************************************************)
EXTENDS Integers, Sequences

CONSTANTS
  Colour,             \* the characters that choose the colour of the next ones
  WHITE,              \* the one that is chosen at first
  NL, BS, TAB, CR,    \* newline, backspace, tab, carriage return
  SPACE,
  ROWS, COLS          \* the size of the page

VARIABLES
  page,         \* the lines: the character and colour in each place
  line, pos,    \* the cursor: its line, and the characters before it
  colour,
  guarded,      \* a backspace may be refused
  last,         \* the last request, and the character
  moved         \* the cursor has been moved by hand

vars == <<page, line, pos, colour, guarded, last, moved>>

BLANK == <<SPACE, SPACE>>
Empty == [c \in 1..COLS |-> BLANK]

Glyph(ch, col) == IF ch = SPACE THEN BLANK ELSE <<ch, col>>

State == [page |-> page, line |-> line, pos |-> pos]

Down(s) ==
  IF s.line < ROWS
  THEN [s EXCEPT !.line = @ + 1, !.pos = 0]
  ELSE [s EXCEPT !.page = Append(Tail(@), Empty), !.pos = 0]

Show(s, g) ==
  LET t == IF s.pos = COLS THEN Down(s) ELSE s
  IN  [t EXCEPT !.page[t.line][t.pos + 1] = g, !.pos = @ + 1]

Erased(s) == [s EXCEPT !.page[s.line][s.pos] = BLANK, !.pos = @ - 1]

\* At the margin only the newline and the colours keep their meaning; what
\* else comes is printed, on the next line.
After(ch) ==
  CASE ch = NL -> {Down(State)}
    [] ch \in Colour -> {State}
    [] pos < COLS /\ ch = BS ->
         (IF pos > 0 THEN {Erased(State)} ELSE {State})
           \cup (IF guarded THEN {State} ELSE {})
    [] pos < COLS /\ ch = TAB ->
         {Show(Show(Show(Show(State, BLANK), BLANK), BLANK), BLANK)}
    [] pos < COLS /\ ch = CR -> {[State EXCEPT !.pos = 0]}
    [] OTHER -> {Show(State, Glyph(ch, colour))}

Init ==
  /\ page = [l \in 1..ROWS |-> Empty]
  /\ line = 1 /\ pos = 0
  /\ colour = WHITE
  /\ guarded = FALSE
  /\ last = <<"require">>
  /\ moved = FALSE

Put ==
  /\ last'[1] = "put"
  /\ \E s \in After(last'[2]) : page' = s.page /\ line' = s.line /\ pos' = s.pos
  /\ colour' = IF last'[2] \in Colour THEN last'[2] ELSE colour
  /\ UNCHANGED guarded

Guard ==
  /\ last' \in {<<"set">>, <<"remove">>}
  /\ guarded' = (last' = <<"set">>)
  /\ UNCHANGED <<page, line, pos, colour>>

Next ==
  \/ ~moved /\ UNCHANGED moved /\ (Put \/ Guard)
  \/ moved'

Spec == Init /\ [][Next]_vars
=============================================================================
