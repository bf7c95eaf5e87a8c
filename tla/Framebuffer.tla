----------------------------- MODULE Framebuffer -----------------------------
(***************************************************************************)
(* kernel/drivers/graphics: the bytes of the framebuffer under the places  *)
(* of module Console.  Each glyph is put there pixel by pixel (bitmap.c,   *)
(* framebuffer.c), and the page is moved up by the memcpy of scroll in     *)
(* console.c.  Where glyphs are drawn is left to putch; here they are      *)
(* drawn in any order at some columns, between places too.                 *)
(***************************************************************************)
EXTENDS Console, SequencesExt

CONSTANTS
  font,          \* of each character the rows of its glyph, as bytes
  Pixel,         \* of each colour the pixel, as GeneratePixelFG makes it
  pitch,         \* framebuffer.pitch: the bytes from one line to the next
  At,            \* the pixel columns glyphs are drawn at
  MaxDraws       \* bound of the model: glyphs drawn

VARIABLES
  buffer,        \* the bytes, one after the other
  draws          \* history: glyphs drawn

fbvars == <<console, buffer, draws>>

\* framebuffer.bpp: the boot loader is asked for 32 bits.
bpp == 32

GeneratePixelFG(red, green, blue) == [blue |-> blue, green |-> green, red |-> red]
black_pixel == GeneratePixelFG(0, 0, 0)

\* u16 x and y.
U16 == 65536
PutPixel(b, x, y, pixel) ==
  LET location == (y % U16) * pitch + (x % U16) * (bpp \div 8)
  IN  [b EXCEPT ![location] = pixel.red,
                ![location + 1] = pixel.green,
                ![location + 2] = pixel.blue]

Bit(byte, j) == (byte \div 2^j) % 2 = 1

\* Every row from its last bit on, from x + 8 down to x + 1.
DrawAlphaBitmap(b, ch, x, y, pixel) ==
  FoldLeft(LAMBDA t, k :
             LET i == (k - 1) \div BITMAP_SIZE
                 j == (k - 1) % BITMAP_SIZE
             IN  PutPixel(t, x + BITMAP_SIZE - j, y + i,
                          IF Bit(font[ch][i + 1], j) THEN pixel ELSE black_pixel),
           b, [k \in 1..(BITMAP_SIZE * BITMAP_SIZE) |-> k])

\* Fault: the gap below the glyphs is left out.
MemoryUpShort(b) ==
  [p \in DOMAIN b |-> IF p < pitch * (HEIGHT - PITCH)
                      THEN b[p + 4 * (pitch \div 4) * BITMAP_SIZE] ELSE b[p]]

\* The memcpy, which goes from the first byte on: its target lies below its source,
\* so that every byte it reads is one it has not written yet (what an ascending
\* memcpy leaves otherwise is said by MemoryRight of module Memory).
MemoryUp(b) ==
  [p \in DOMAIN b |-> IF p < pitch * (HEIGHT - PITCH)
                      THEN b[p + 4 * (pitch \div 4) * PITCH] ELSE b[p]]

\* framebufferInit, on a screen that is black.
Init ==
  /\ ConsoleInit
  /\ buffer = [p \in 0..(pitch * HEIGHT - 1) |-> 0]
  /\ draws = 0

\* bitmapPC
Draw(column, row, ch) ==
  /\ draws < MaxDraws
  /\ console' = Drawn(console, column, row, ch)
  /\ buffer' = DrawAlphaBitmap(buffer, ch, column, row, Pixel[console.color])
  /\ draws' = draws + 1

Scroll ==
  /\ console' = [console EXCEPT !.screen = MovedUp(@)]
  /\ buffer' = MemoryUp(buffer)
  /\ UNCHANGED draws

SetColor(colour) ==
  /\ console' = [console EXCEPT !.color = colour]
  /\ UNCHANGED <<buffer, draws>>

Next ==
  \/ \E column \in At, row \in TextRows, ch \in DOMAIN font : Draw(column, row * PITCH, ch)
  \/ Scroll
  \/ \E colour \in Colour : SetColor(colour)

Spec == Init /\ [][Next]_fbvars

-----------------------------------------------------------------------------
\* The bytes of a pixel, and those it has in a glyph.
BytesAt(x, y) == [i \in 0..2 |-> buffer[y * pitch + x * 4 + i]]
Wanted(place, i, j) ==
  LET pixel == IF Bit(font[place[1]][j + 1], BITMAP_SIZE - 1 - i)
               THEN Pixel[place[2]] ELSE black_pixel
  IN  <<pixel.red, pixel.green, pixel.blue>>

\* A place of the console shows its glyph, in its colour, pixel by pixel and not
\* mirrored, wherever glyphs are drawn before and however often the page moves
\* up; a blank place is black.  Only places with parts of several glyphs may
\* show anything.
PixelsRight ==
  \A r \in Rows, c \in Columns :
    LET place == console.screen[r][c]
    IN  place # MIXED =>
          \A i, j \in 0..(BITMAP_SIZE - 1), k \in 0..2 :
            BytesAt(c * PITCH + 1 + i, r * PITCH + j)[k] =
              IF place = BLANK THEN 0 ELSE Wanted(place, i, j)[k + 1]
=============================================================================
