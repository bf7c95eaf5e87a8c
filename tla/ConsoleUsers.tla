---------------------------- MODULE ConsoleUsers ----------------------------
(***************************************************************************)
(* Three views of the console, which share no state: of those who use it   *)
(* one call after the other (Typing), of a thread that keys interrupt      *)
(* between any two accesses (ConsoleRace), and of pixels (Framebuffer).    *)
(***************************************************************************)
EXTENDS Typing

CONSTANTS RaceLog, RaceKeys, MaxDrift, MaxPushed    \* of ConsoleRace

ASSUME RaceAssumption ==
  /\ RaceLog \subseteq Letter \cup {NL, SPACE}
  /\ RaceKeys \subseteq Letter \cup Colour \cup {NL, BS, TAB, CR, SPACE}
  /\ MaxPushed \in Nat

CONSTANTS font, Pixel, DrawAt, MaxDraws, pitch    \* of Framebuffer

\* font.h has eight bytes for a character and leaves the space blank; a pixel is
\* three bytes. The sizes of the framebuffer are u16, and no glyph leaves it
\* (DrawnInside). The boot loader chooses pitch; the lines begin at multiples of the
\* four bytes of a pixel, as the memcpy of scroll takes for granted.
ASSUME ScreenAssumption ==
  /\ DOMAIN font \subseteq Letter \cup {BS, TAB, CR, SPACE}
  /\ Pixel \in [Colour -> [red : 0..255, green : 0..255, blue : 0..255]]
  /\ \A column \in DrawAt : column \in Nat /\ column + BITMAP_SIZE < WIDTH
  /\ 4 * WIDTH < 65536 /\ HEIGHT < 65536
  /\ pitch \in Nat /\ pitch >= 4 * WIDTH /\ pitch % 4 = 0

VARIABLES raced, at, char, reg, pushed

Race == INSTANCE ConsoleRace WITH
  console <- raced, ch <- char, LogChar <- RaceLog, KeyChar <- RaceKeys

VARIABLES display, buffer, draws

Screen == INSTANCE Framebuffer WITH console <- display, At <- DrawAt

\* The rows of the space have no bit set.
ASSUME SpaceAssumption ==
  SPACE \in DOMAIN font =>
    \A i \in 1..BITMAP_SIZE, j \in 0..(BITMAP_SIZE - 1) : ~Screen!Bit(font[SPACE][i], j)

\* The framebuffer has room for two lines.
TwoLines == Cardinality(TextRows) >= 2

\* However keys and arrows interrupt the thread, the row stays on the page, the
\* handler's glyphs stay in their line, and the thread's leave it by no more than
\* what came in since the margin test.
RacedOnPage == Race!RowOnPage /\ Race!DrawnInside /\ Race!DrawnNear

\* The bytes of the framebuffer, where there is one, are the pixels of the places.
PixelsRight == buffer # <<>> => Screen!PixelsRight
=============================================================================
