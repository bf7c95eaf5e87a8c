------------------------------- MODULE Typing -------------------------------
(***************************************************************************)
(* The console between those who use it, one call after the other: logf    *)
(* of kernel/log.c, the keyboard handler of kernel/drivers/kb/kb.c, and a  *)
(* reader that guards its prompt (input_readln of kernel/input.c).  While  *)
(* the reader waits, only keys reach the console.                          *)
(***************************************************************************)
EXTENDS Console

CONSTANTS
  LogChar,      \* what logf prints
  Small, Upper, \* the letters caps lock changes, and into what
  KeyChar,      \* what the keys stand for, keys released and unused aside
  MaxAhead      \* bound of the model: how far the arrows move the cursor away
                \* from where offset_x says it is, in places

ASSUME TypingAssumption ==
  /\ LogChar \subseteq Letter \cup Colour \cup {NL, BS, TAB, CR, SPACE}
  /\ KeyChar \subseteq Letter \cup {NL, BS, TAB, SPACE}
  /\ Small \subseteq Letter /\ Upper \in [Small -> Letter]
  /\ MaxAhead \in Nat

VARIABLES
  capslock,
  reading,     \* a reader has set the barrier
  last,        \* history: the last call
  moved        \* history: an arrow has moved the cursor

vars == <<console, capslock, reading, last, moved>>

TypeOK ==
  /\ ConsoleType
  /\ {capslock, reading, moved} \subseteq BOOLEAN

Init ==
  /\ ConsoleInit
  /\ capslock = FALSE /\ reading = FALSE /\ moved = FALSE
  /\ last = <<"require">>

Puts(ch) ==
  /\ console' = putch(console, ch)
  /\ last' = <<"put", ch>>
  /\ UNCHANGED moved

\* logfc
Log(ch) ==
  /\ ~reading
  /\ Puts(ch)
  /\ UNCHANGED <<capslock, reading>>

Capital(ch) == IF capslock /\ ch \in Small THEN Upper[ch] ELSE ch

\* keyboard_handler
Key(ch) ==
  /\ Puts(Capital(ch))
  /\ UNCHANGED <<capslock, reading>>

CapsLock ==
  /\ capslock' = ~capslock
  /\ UNCHANGED <<console, reading, last, moved>>

Arrow(i) ==
  /\ Plus(console.column \div PITCH, -console.offset_x) < MaxAhead
  /\ console' = MVCURSORC(console, i)
  /\ moved' = TRUE
  /\ last' = <<"arrow", i>>
  /\ UNCHANGED <<capslock, reading>>

SetBarrier ==
  /\ ~reading
  /\ reading' = TRUE
  /\ console' = ConsoleSetBarrier(console)
  /\ last' = <<"set">>
  /\ UNCHANGED <<capslock, moved>>

RemBarrier ==
  /\ reading
  /\ reading' = FALSE
  /\ console' = ConsoleRemBarrier(console)
  /\ last' = <<"remove">>
  /\ UNCHANGED <<capslock, moved>>

Next ==
  \/ \E ch \in LogChar : Log(ch)
  \/ \E ch \in KeyChar : Key(ch)
  \/ CapsLock
  \/ Arrow(1) \/ Arrow(-1)
  \/ SetBarrier
  \/ RemBarrier

Spec == Init /\ [][Next]_vars

-----------------------------------------------------------------------------
\* As long as nobody moves the cursor with the arrows, the screen shows what was
\* printed, line by line.
Page ==
  [l \in 1..Cardinality(TextRows) |->
     [c \in 1..Cardinality(TextColumns) |-> console.screen[l - 1][c - 1]]]

User == INSTANCE Terminal WITH
  ROWS <- Cardinality(TextRows), COLS <- Cardinality(TextColumns),
  page <- Page, line <- console.row \div PITCH + 1, pos <- console.offset_x,
  colour <- console.color, guarded <- reading

RefinesTerminal == User!Spec

\* Nothing that is typed, not even a backspace, touches the prompt on its way up
\* the screen; after an arrow offset_x no longer tells where the prompt ends.
PromptStays ==
  ~moved =>
    \A i \in DOMAIN console.prompt.text :
      console.screen[console.prompt.row][i - 1] = console.prompt.text[i]

\* Every glyph is drawn within the framebuffer, wherever the arrows have moved
\* the cursor and however u32 arithmetic wraps.
DrawnInside == console.inside
=============================================================================
