--------------------------- MODULE Console_proofs ---------------------------
(***************************************************************************)
(* The console, for every size of the framebuffer and of the glyphs: where *)
(* it draws, what it shows, to the byte, and that a prompt stays.          *)
(***************************************************************************)
EXTENDS ConsoleUsers, SequenceTheorems, ArithmeticLemmas

-----------------------------------------------------------------------------
(* Places and pixels.                                                      *)

Cols == Cardinality(TextColumns)
Lines == Cardinality(TextRows)

LEMMA SizeFacts ==
  /\ BITMAP_SIZE \in Nat /\ BITMAP_SIZE > 0
  /\ PITCH \in Nat /\ PITCH > 0 /\ PITCH = BITMAP_SIZE + 1
  /\ WIDTH \in Nat /\ WIDTH > 2 * BITMAP_SIZE
  /\ HEIGHT \in Nat /\ HEIGHT > 2 * BITMAP_SIZE + 2
  /\ U32 \in Nat /\ U32 > 4 * WIDTH /\ U32 > 4 * HEIGHT
BY ConsoleAssumption DEF PITCH

\* A place that begins before the last pixel is counted among the places.
LEMMA PlacesBefore ==
  ASSUME NEW b \in Nat, b > 0, NEW w \in Nat, NEW k \in Nat, k * b <= w
  PROVE  k \in 0..(w \div b)
<1>. DEFINE q == w \div b
<1>1. q \in Nat /\ w < (q + 1) * b
  BY SMT
<1>. HIDE DEF q
<1>2. q + 1 <= k => (q + 1) * b <= k * b
  BY <1>1, MultiplyMonotone
<1>3. k * b \in Nat /\ (q + 1) * b \in Nat
  BY <1>1
<1>. QED
  BY <1>1, <1>2, <1>3 DEF q

LEMMA FirstNaturals ==
  ASSUME NEW n \in Nat, NEW S, S \subseteq Nat,
         \A k \in Nat : k \in S <=> k < n
  PROVE  S = 0..(n - 1)
<1>1. ASSUME NEW k \in S PROVE k \in 0..(n - 1)
  <2>1. k \in Nat /\ k < n
    OBVIOUS
  <2>. QED
    BY <2>1
<1>2. ASSUME NEW k \in 0..(n - 1) PROVE k \in S
  <2>1. k \in Nat /\ k < n
    OBVIOUS
  <2>. QED
    BY <2>1
<1>. QED
  BY <1>1, <1>2

LEMMA CountTo ==
  ASSUME NEW n \in Nat
  PROVE  IsFiniteSet(0..(n - 1)) /\ Cardinality(0..(n - 1)) = n
BY FS_Interval

LEMMA ColumnsFacts ==
  \E n \in Nat : /\ Columns = 0..(n - 1)
                 /\ \A k \in Nat : k * PITCH + BITMAP_SIZE < WIDTH <=> k < n
<1>. DEFINE m == WIDTH - BITMAP_SIZE
<1>1. m \in Nat /\ m > 0 /\ m <= WIDTH + 1 /\ PITCH \in Nat /\ PITCH > 0 /\ WIDTH \in Nat
      /\ BITMAP_SIZE \in Nat
  BY SizeFacts
<1>2. \A k \in Nat : k * PITCH \in Nat /\ (k * PITCH + BITMAP_SIZE < WIDTH <=> k * PITCH < m)
  BY <1>1
<1>3. PICK n \in Nat : /\ n > 0 /\ n * PITCH >= m
                       /\ \A k \in Nat : k * PITCH < m <=> k < n
  <2>. HIDE DEF m
  <2>. QED
    BY <1>1, MultiplesBelow
<1>4. ASSUME NEW k \in Nat PROVE k \in Columns <=> k < n
  <2>1. k * PITCH < m => k * PITCH <= WIDTH
    BY <1>1, <1>2
  <2>2. k * PITCH < m => k \in 0..(WIDTH \div PITCH)
    BY <1>1, <2>1, PlacesBefore
  <2>. QED
    BY <1>2, <1>3, <2>2 DEF Columns
<1>5. Columns \subseteq Nat
  BY <1>1 DEF Columns
<1>6. Columns = 0..(n - 1)
  BY <1>3, <1>4, <1>5, FirstNaturals
<1>. QED
  BY <1>2, <1>3, <1>6

LEMMA RowsFacts ==
  \E n \in Nat : /\ Rows = 0..(n - 1)
                 /\ \A k \in Nat : k * PITCH + BITMAP_SIZE <= HEIGHT <=> k < n
<1>. DEFINE m == HEIGHT - BITMAP_SIZE + 1
<1>1. m \in Nat /\ m > 0 /\ m <= HEIGHT + 1 /\ PITCH \in Nat /\ PITCH > 0 /\ HEIGHT \in Nat
      /\ BITMAP_SIZE \in Nat
  BY SizeFacts
<1>2. \A k \in Nat : k * PITCH \in Nat /\ (k * PITCH + BITMAP_SIZE <= HEIGHT <=> k * PITCH < m)
  BY <1>1
<1>3. PICK n \in Nat : /\ n > 0 /\ n * PITCH >= m
                       /\ \A k \in Nat : k * PITCH < m <=> k < n
  <2>. HIDE DEF m
  <2>. QED
    BY <1>1, MultiplesBelow
<1>4. ASSUME NEW k \in Nat PROVE k \in Rows <=> k < n
  <2>1. k * PITCH < m => k * PITCH <= HEIGHT
    BY <1>1, <1>2
  <2>2. k * PITCH < m => k \in 0..(HEIGHT \div PITCH)
    BY <1>1, <2>1, PlacesBefore
  <2>. QED
    BY <1>2, <1>3, <2>2 DEF Rows
<1>5. Rows \subseteq Nat
  BY <1>1 DEF Rows
<1>6. Rows = 0..(n - 1)
  BY <1>3, <1>4, <1>5, FirstNaturals
<1>. QED
  BY <1>2, <1>3, <1>6

\* putch goes on to the next line behind the last of these columns.
LEMMA ColsFacts ==
  /\ Cols \in Nat /\ Cols > 0
  /\ TextColumns = 0..(Cols - 1)
  /\ TextColumns \subseteq Columns
  /\ \A k \in Nat : k * PITCH < WIDTH - 2 * BITMAP_SIZE <=> k < Cols
  /\ Cols * PITCH + PITCH < U32
<1>. DEFINE m == WIDTH - 2 * BITMAP_SIZE
<1>1. m \in Nat /\ m > 0 /\ m <= WIDTH + 1 /\ PITCH \in Nat /\ PITCH > 0 /\ WIDTH \in Nat
      /\ BITMAP_SIZE \in Nat /\ BITMAP_SIZE > 0
  BY SizeFacts
<1>2. PICK n \in Nat : /\ n > 0 /\ n * PITCH >= m
                       /\ \A k \in Nat : k * PITCH < m <=> k < n
  <2>. HIDE DEF m
  <2>. QED
    BY <1>1, MultiplesBelow
<1>3. ASSUME NEW k \in Nat, k < n PROVE k \in Columns
  <2>1. PICK c \in Nat : /\ Columns = 0..(c - 1)
                         /\ \A j \in Nat : j * PITCH + BITMAP_SIZE < WIDTH <=> j < c
    BY ColumnsFacts
  <2>2. k * PITCH < m /\ k * PITCH \in Nat
    BY <1>1, <1>2, <1>3
  <2>3. k * PITCH + BITMAP_SIZE < WIDTH
    BY <1>1, <2>2
  <2>4. k < c
    BY <2>1, <2>3
  <2>. QED
    BY <2>1, <2>4
<1>4. TextColumns = 0..(n - 1)
  <2>1. Columns \subseteq Nat
    BY ColumnsFacts
  <2>2. TextColumns = {k \in Columns : k * PITCH < m}
    BY DEF TextColumns
  <2>. HIDE DEF m
  <2>3. ASSUME NEW k \in Nat PROVE k \in TextColumns <=> k < n
    BY <1>2, <1>3, <2>2
  <2>4. n \in Nat /\ TextColumns \subseteq Nat
    BY <2>1, <2>2
  <2>. QED
    BY <2>3, <2>4, FirstNaturals
<1>5. Cols = n
  BY <1>4, CountTo DEF Cols
<1>6. n * PITCH + PITCH < U32
  <2>1. (n - 1) * PITCH < m
    BY <1>2
  <2>2. n * PITCH = (n - 1) * PITCH + PITCH /\ (n - 1) * PITCH \in Nat
    BY <1>1, <1>2
  <2>. HIDE DEF m
  <2>3. m <= WIDTH - 2
    BY <1>1 DEF m
  <2>4. n * PITCH + PITCH < WIDTH + PITCH + PITCH
    BY <1>1, <2>1, <2>2, <2>3
  <2>5. PITCH + PITCH <= WIDTH + WIDTH
    BY SizeFacts
  <2>6. n * PITCH \in Nat
    BY <1>1, <1>2
  <2>. QED
    BY <1>1, <2>4, <2>5, <2>6, SizeFacts
<1>7. \A k \in Nat : k * PITCH < WIDTH - 2 * BITMAP_SIZE <=> k < n
  BY <1>2
<1>. QED
  BY <1>2, <1>3, <1>4, <1>5, <1>6, <1>7

\* scroll brings the cursor back from the row below these, which is a row of
\* the framebuffer, too.
LEMMA LinesFacts ==
  /\ Lines \in Nat /\ Lines > 0
  /\ TextRows = 0..(Lines - 1)
  /\ 0..Lines \subseteq Rows
  /\ \A k \in Nat : k * PITCH < HEIGHT - 2 * BITMAP_SIZE - 2 <=> k < Lines
  /\ \A k \in Nat : k < Lines => k * PITCH + BITMAP_SIZE <= HEIGHT
  /\ Lines * PITCH + PITCH < U32
<1>. DEFINE m == HEIGHT - 2 * BITMAP_SIZE - 2
<1>1. m \in Nat /\ m > 0 /\ m <= HEIGHT + 1 /\ PITCH \in Nat /\ PITCH > 0 /\ HEIGHT \in Nat
      /\ BITMAP_SIZE \in Nat /\ BITMAP_SIZE > 0 /\ PITCH = BITMAP_SIZE + 1
  BY SizeFacts
<1>2. PICK n \in Nat : /\ n > 0 /\ n * PITCH >= m
                       /\ \A k \in Nat : k * PITCH < m <=> k < n
  <2>. HIDE DEF m
  <2>. QED
    BY <1>1, MultiplesBelow
<1>a. n * PITCH = (n - 1) * PITCH + PITCH /\ (n - 1) * PITCH \in Nat /\ (n - 1) * PITCH < m
      /\ n * PITCH \in Nat
  BY <1>1, <1>2
<1>3. ASSUME NEW k \in Nat, k <= n PROVE k \in Rows /\ k * PITCH + BITMAP_SIZE <= HEIGHT
  <2>1. PICK c \in Nat : /\ Rows = 0..(c - 1)
                         /\ \A j \in Nat : j * PITCH + BITMAP_SIZE <= HEIGHT <=> j < c
    BY RowsFacts
  <2>2. k * PITCH <= n * PITCH /\ k * PITCH \in Nat
    BY <1>1, <1>2, <1>3, MultiplyMonotone
  <2>3. k * PITCH + BITMAP_SIZE <= HEIGHT
    BY <1>1, <1>a, <2>2
  <2>4. k < c
    BY <2>1, <2>3
  <2>. QED
    BY <2>1, <2>3, <2>4
<1>4. TextRows = 0..(n - 1)
  <2>1. Rows \subseteq Nat
    BY RowsFacts
  <2>2. TextRows = {k \in Rows : k * PITCH < m}
    BY DEF TextRows
  <2>3. \A k \in Nat : k * PITCH < m => k \in Rows
    BY <1>2, <1>3
  <2>. HIDE DEF m
  <2>4. ASSUME NEW k \in Nat PROVE k \in TextRows <=> k < n
    BY <1>2, <2>2, <2>3
  <2>5. n \in Nat /\ TextRows \subseteq Nat
    BY <2>1, <2>2
  <2>. QED
    BY <2>4, <2>5, FirstNaturals
<1>5. Lines = n
  BY <1>4, CountTo DEF Lines
<1>6. n * PITCH + PITCH < U32
  <2>. HIDE DEF m
  <2>1. m <= HEIGHT
    BY <1>1 DEF m
  <2>2. n * PITCH + PITCH < HEIGHT + PITCH + PITCH
    BY <1>1, <1>a, <2>1
  <2>3. PITCH + PITCH <= HEIGHT + HEIGHT
    BY SizeFacts
  <2>. QED
    BY <1>1, <1>a, <2>2, <2>3, SizeFacts
<1>7. \A k \in Nat : k * PITCH < HEIGHT - 2 * BITMAP_SIZE - 2 <=> k < n
  BY <1>2
<1>8. 0..n \subseteq Rows /\ \A k \in Nat : k < n => k * PITCH + BITMAP_SIZE <= HEIGHT
  BY <1>2, <1>3
<1>. QED
  BY <1>2, <1>4, <1>5, <1>6, <1>7, <1>8

\* u32 arithmetic that does not wrap.
LEMMA PlusSmall ==
  ASSUME NEW n \in Int, NEW i \in Int, n + i \in Number
  PROVE  Plus(n, i) = n + i
<1>1. U32 \in Nat /\ n + i >= 0 /\ n + i < U32
  BY SizeFacts DEF Number
<1>2. (n + i) % U32 = n + i
  BY <1>1
<1>. QED
  BY <1>2 DEF Plus

LEMMA PlusType == ASSUME NEW n \in Int, NEW i \in Int PROVE Plus(n, i) \in Number
<1>1. U32 \in Nat /\ U32 > 0 /\ n + i \in Int
  BY SizeFacts
<1>2. (n + i) % U32 \in 0..(U32 - 1)
  BY <1>1
<1>. QED
  BY <1>2 DEF Plus, Number

-----------------------------------------------------------------------------
(* What putch is made of.                                                  *)

\* What can be drawn.
Shape == Letter \cup {BS, TAB, CR, SPACE}

\* The cursor is on a row of the page, in pixels and in characters, and nothing
\* was drawn outside.  This holds wherever the arrows have moved the column.
Sound(s) ==
  /\ s \in ConsoleRecord
  /\ s.inside
  /\ s.offset_y \in 0..(Lines - 1)
  /\ s.row = s.offset_y * PITCH

LEMMA RowFacts ==
  ASSUME NEW s, Sound(s)
  PROVE  /\ s.offset_y \in Nat /\ s.row \in Nat /\ s.column \in Nat /\ s.offset_x \in Nat
         /\ s.row < HEIGHT - 2 * BITMAP_SIZE - 2
         /\ s.row + BITMAP_SIZE <= HEIGHT
         /\ s.offset_y \in Rows
         /\ s.row \div PITCH = s.offset_y
<1>1. s.offset_y \in Nat /\ s.offset_y < Lines /\ s.row = s.offset_y * PITCH
  BY LinesFacts DEF Sound
<1>2. s.row \in Nat /\ s.column \in Nat /\ s.offset_x \in Nat
  BY SizeFacts DEF Sound, ConsoleRecord, Number
<1>3. s.row \div PITCH = s.offset_y
  BY <1>1, DivMultiple, SizeFacts
<1>4. s.offset_y \in Rows
  BY <1>1, LinesFacts
<1>. QED
  BY <1>1, <1>2, <1>3, <1>4, LinesFacts

LEMMA GlyphIsPlace ==
  ASSUME NEW ch \in Shape, NEW colour \in Colour
  PROVE  Glyph(ch, colour) \in Place
BY DEF Shape, Glyph, Place

LEMMA DrawnFacts ==
  ASSUME NEW s \in ConsoleRecord, NEW column, NEW row, NEW ch \in Shape
  PROVE  LET d == Drawn(s, column, row, ch)
         IN  /\ d.screen \in [Rows -> [Columns -> Place]]
             /\ d.inside = (s.inside /\ column + BITMAP_SIZE < WIDTH /\ row + BITMAP_SIZE <= HEIGHT)
             /\ d = [s EXCEPT !.screen = d.screen, !.inside = d.inside]
<1>. DEFINE pic == [r \in Rows |-> [c \in Columns |->
                      IF r * PITCH # row \/ c \notin Shown(column) THEN s.screen[r][c]
                      ELSE IF column % PITCH = 0 THEN Glyph(ch, s.color) ELSE MIXED]]
            ins == s.inside /\ column + BITMAP_SIZE < WIDTH /\ row + BITMAP_SIZE <= HEIGHT
<1>1. s.color \in Colour /\ s.screen \in [Rows -> [Columns -> Place]]
  BY DEF ConsoleRecord
<1>2. pic \in [Rows -> [Columns -> Place]]
  <2>1. Glyph(ch, s.color) \in Place /\ MIXED \in Place
    BY <1>1, GlyphIsPlace DEF Place
  <2>2. ASSUME NEW r \in Rows, NEW c \in Columns PROVE s.screen[r][c] \in Place
    BY <1>1
  <2>. QED
    BY <2>1, <2>2
<1>3. Drawn(s, column, row, ch) = [s EXCEPT !.screen = pic, !.inside = ins]
  BY DEF Drawn
<1>. HIDE DEF pic, ins
<1>4. /\ Drawn(s, column, row, ch).screen = pic
      /\ Drawn(s, column, row, ch).inside = ins
  BY <1>3 DEF ConsoleRecord
<1>. QED
  BY <1>2, <1>3, <1>4 DEF ins

LEMMA DrawnPlaces ==
  ASSUME NEW s \in ConsoleRecord, NEW column, NEW row, NEW ch \in Shape
  PROVE  \A r \in Rows, c \in Columns :
           Drawn(s, column, row, ch).screen[r][c] =
             IF r * PITCH # row \/ c \notin Shown(column) THEN s.screen[r][c]
             ELSE IF column % PITCH = 0 THEN Glyph(ch, s.color) ELSE MIXED
<1>. DEFINE pic == [r \in Rows |-> [c \in Columns |->
                      IF r * PITCH # row \/ c \notin Shown(column) THEN s.screen[r][c]
                      ELSE IF column % PITCH = 0 THEN Glyph(ch, s.color) ELSE MIXED]]
            ins == s.inside /\ column + BITMAP_SIZE < WIDTH /\ row + BITMAP_SIZE <= HEIGHT
<1>1. \A r \in Rows, c \in Columns :
        pic[r][c] = IF r * PITCH # row \/ c \notin Shown(column) THEN s.screen[r][c]
                    ELSE IF column % PITCH = 0 THEN Glyph(ch, s.color) ELSE MIXED
  OBVIOUS
<1>2. Drawn(s, column, row, ch) = [s EXCEPT !.screen = pic, !.inside = ins]
  BY DEF Drawn
<1>. HIDE DEF pic, ins
<1>3. Drawn(s, column, row, ch).screen = pic
  BY <1>2 DEF ConsoleRecord
<1>. QED
  BY <1>1, <1>3

\* The same of a picture that is drawn within the framebuffer.
LEMMA DrawnWithin ==
  ASSUME NEW s \in ConsoleRecord, s.inside, NEW column, NEW row, NEW ch \in Shape,
         column + BITMAP_SIZE < WIDTH, row + BITMAP_SIZE <= HEIGHT
  PROVE  /\ Drawn(s, column, row, ch).screen \in [Rows -> [Columns -> Place]]
         /\ Drawn(s, column, row, ch) = [s EXCEPT !.screen = Drawn(s, column, row, ch).screen]
<1>. DEFINE d == Drawn(s, column, row, ch)
            pic == d.screen
<1>1. /\ d.screen \in [Rows -> [Columns -> Place]]
      /\ d.inside = (s.inside /\ column + BITMAP_SIZE < WIDTH /\ row + BITMAP_SIZE <= HEIGHT)
      /\ d = [s EXCEPT !.screen = pic, !.inside = d.inside]
  BY DrawnFacts
<1>. HIDE DEF d
<1>2. d.inside = TRUE /\ s.inside = TRUE
  BY <1>1 DEF ConsoleRecord
<1>. HIDE DEF pic
<1>3. d = [s EXCEPT !.screen = pic]
  BY <1>1, <1>2 DEF ConsoleRecord
<1>. QED
  BY <1>1, <1>3 DEF d, pic

LEMMA PromptUpType ==
  ASSUME NEW p \in [row : Rows, text : Seq(Place)] \cup {NONE}
  PROVE  PromptUp(p) \in [row : Rows, text : Seq(Place)] \cup {NONE}
<1>1. CASE p = NONE \/ p.row = 0
  BY <1>1 DEF PromptUp
<1>2. CASE p # NONE /\ p.row # 0
  <2>1. p \in [row : Rows, text : Seq(Place)]
    BY <1>2
  <2>2. p.row - 1 \in Rows
    BY <1>2, <2>1, RowsFacts
  <2>3. PromptUp(p) = [p EXCEPT !.row = p.row - 1]
    BY <1>2 DEF PromptUp
  <2>. QED
    BY <2>1, <2>2, <2>3
<1>. QED
  BY <1>1, <1>2

LEMMA MovedUpType ==
  ASSUME NEW pic \in [Rows -> [Columns -> Place]]
  PROVE  MovedUp(pic) \in [Rows -> [Columns -> Place]]
BY DEF MovedUp

\* The next line, below or after the page has moved up.
LEMMA NextLine ==
  ASSUME NEW s, Sound(s)
  PROVE  LET t == scroll(Newline(s))
             bottom == s.offset_y = Lines - 1
         IN  /\ Sound(t)
             /\ t.column = 0 /\ t.offset_x = 0
             /\ t.barrier = s.barrier /\ t.color = s.color
             /\ t.offset_y = IF bottom THEN s.offset_y ELSE s.offset_y + 1
             /\ t.screen = IF bottom THEN MovedUp(s.screen) ELSE s.screen
             /\ t.prompt = IF bottom THEN PromptUp(s.prompt) ELSE s.prompt
<1>. DEFINE y == s.offset_y
            n == Newline(s)
<1>1. /\ y \in Nat /\ y < Lines /\ s.row = y * PITCH /\ s \in ConsoleRecord /\ s.inside
      /\ Lines \in Nat /\ Lines > 0 /\ PITCH \in Nat /\ PITCH > 0 /\ U32 \in Nat
  BY LinesFacts, SizeFacts DEF Sound
<1>2. (y + 1) * PITCH = y * PITCH + PITCH /\ y * PITCH \in Nat
  BY <1>1
<1>3. (y + 1) * PITCH <= Lines * PITCH /\ y + 1 <= Lines * PITCH /\ Lines * PITCH \in Nat
  <2>1. y + 1 <= Lines
    BY <1>1
  <2>2. (y + 1) * PITCH <= Lines * PITCH
    BY <1>1, <2>1, MultiplyMonotone
  <2>3. (y + 1) * 1 <= (y + 1) * PITCH
    <3>1. 1 * (y + 1) <= PITCH * (y + 1)
      BY <1>1, MultiplyMonotone
    <3>2. PITCH * (y + 1) = (y + 1) * PITCH
      BY <1>1
    <3>. QED
      BY <1>1, <3>1, <3>2
  <2>. QED
    BY <1>1, <2>2, <2>3
<1>4. (y + 1) * PITCH \in Number /\ y + 1 \in Number /\ 0 \in Number
  BY <1>1, <1>3, LinesFacts DEF Number
<1>5. Plus(s.row, PITCH) = (y + 1) * PITCH /\ Plus(s.offset_y, 1) = y + 1
  BY <1>1, <1>2, <1>4, PlusSmall
<1>6. n = [s EXCEPT !.row = (y + 1) * PITCH, !.offset_y = y + 1, !.column = 0, !.offset_x = 0]
  BY <1>5 DEF Newline
<1>7. /\ n \in ConsoleRecord
      /\ n.row = (y + 1) * PITCH /\ n.offset_y = y + 1 /\ n.column = 0 /\ n.offset_x = 0
      /\ n.barrier = s.barrier /\ n.color = s.color /\ n.screen = s.screen
      /\ n.prompt = s.prompt /\ n.inside = s.inside
  BY <1>1, <1>4, <1>6 DEF ConsoleRecord
<1>. HIDE DEF n
<1>8. CASE y # Lines - 1
  <2>1. y + 1 < Lines /\ y + 1 \in Nat
    BY <1>1, <1>8
  <2>2. (y + 1) * PITCH < HEIGHT - 2 * BITMAP_SIZE - 2
    BY <2>1, LinesFacts
  <2>3. ~Scrolls(n)
    <3>1. (y + 1) * PITCH \in Nat
      BY <1>1, <1>2
    <3>. QED
      BY <1>7, <2>2, <3>1, SizeFacts DEF Scrolls
  <2>4. scroll(n) = n
    BY <2>3 DEF scroll
  <2>5. Sound(n)
    BY <1>1, <1>7, <2>1 DEF Sound
  <2>. QED
    BY <1>7, <1>8, <2>4, <2>5 DEF n
<1>9. CASE y = Lines - 1
  <2>1. ~((y + 1) * PITCH < HEIGHT - 2 * BITMAP_SIZE - 2)
    <3>1. y + 1 \in Nat /\ ~(y + 1 < Lines)
      BY <1>1, <1>9
    <3>. QED
      BY <3>1, LinesFacts
  <2>2. Scrolls(n)
    <3>1. (y + 1) * PITCH \in Nat
      BY <1>1, <1>2
    <3>. QED
      BY <1>7, <2>1, <3>1, SizeFacts DEF Scrolls
  <2>3. Plus(n.row, -PITCH) = y * PITCH /\ Plus(n.offset_y, -1) = y
    <3>1. y * PITCH \in Number /\ y \in Number
      BY <1>1, <1>2, <1>4 DEF Number
    <3>2. n.row + (-PITCH) = y * PITCH /\ n.offset_y + (-1) = y /\ n.row \in Int /\ n.offset_y \in Int
      BY <1>1, <1>2, <1>7
    <3>. QED
      BY <1>1, <3>1, <3>2, PlusSmall
  <2>. DEFINE t == scroll(n)
  <2>4. t = [n EXCEPT !.screen = MovedUp(n.screen), !.prompt = PromptUp(n.prompt),
                      !.row = y * PITCH, !.offset_y = y]
    BY <2>2, <2>3 DEF scroll
  <2>5. /\ MovedUp(n.screen) \in [Rows -> [Columns -> Place]]
        /\ PromptUp(n.prompt) \in [row : Rows, text : Seq(Place)] \cup {NONE}
        /\ y * PITCH \in Number /\ y \in Number
    BY <1>1, <1>2, <1>4, <1>7, MovedUpType, PromptUpType DEF ConsoleRecord, Number
  <2>. HIDE DEF t
  <2>6. /\ t \in ConsoleRecord
        /\ t.row = y * PITCH /\ t.offset_y = y /\ t.column = 0 /\ t.offset_x = 0
        /\ t.barrier = s.barrier /\ t.color = s.color /\ t.inside = s.inside
        /\ t.screen = MovedUp(s.screen) /\ t.prompt = PromptUp(s.prompt)
    BY <1>7, <2>4, <2>5 DEF ConsoleRecord
  <2>7. Sound(t)
    BY <1>1, <2>6 DEF Sound
  <2>. QED
    BY <1>9, <2>6, <2>7 DEF t, n
<1>. QED
  BY <1>8, <1>9

\* Before a glyph is drawn putch has left the margin, whatever the column was.
AtText(s) == IF AtMargin(s) THEN scroll(Newline(s)) ELSE s

LEMMA TextColumn ==
  ASSUME NEW s, Sound(s)
  PROVE  /\ Sound(AtText(s))
         /\ AtText(s).column < WIDTH - 2 * BITMAP_SIZE
         /\ AtText(s).color = s.color /\ AtText(s).barrier = s.barrier
<1>1. CASE AtMargin(s)
  <2>. DEFINE t == scroll(Newline(s))
  <2>1. Sound(t) /\ t.column = 0 /\ t.color = s.color /\ t.barrier = s.barrier
    BY NextLine
  <2>. HIDE DEF t
  <2>2. 0 < WIDTH - 2 * BITMAP_SIZE
    BY SizeFacts
  <2>3. AtText(s) = t
    BY <1>1 DEF AtText, t
  <2>. QED
    BY <2>1, <2>2, <2>3
<1>2. CASE ~AtMargin(s)
  BY <1>2, RowFacts, SizeFacts DEF AtText, AtMargin
<1>. QED
  BY <1>1, <1>2

\* A character is drawn where AtText leaves the cursor.
LEMMA PrintedFacts ==
  ASSUME NEW s, Sound(s), NEW ch \in Shape
  PROVE  LET m == AtText(s)
             t == Printed(s, ch)
         IN  /\ Sound(t)
             /\ t.offset_y = m.offset_y /\ t.prompt = m.prompt
             /\ t.color = s.color /\ t.barrier = s.barrier
             /\ t.column = Plus(m.column, PITCH)
             /\ t.offset_x = Plus(m.offset_x, 1)
             /\ t.screen = Drawn(m, m.column, m.row, ch).screen
<1>. DEFINE m == AtText(s)
            d == Drawn(m, m.column, m.row, ch)
            u == [d EXCEPT !.column = Plus(d.column, PITCH)]
            v == [u EXCEPT !.offset_x = Plus(u.offset_x, 1)]
<1>1. /\ Sound(m) /\ m.column < WIDTH - 2 * BITMAP_SIZE
      /\ m.color = s.color /\ m.barrier = s.barrier
  BY TextColumn
<1>. HIDE DEF m
<1>2. /\ m \in ConsoleRecord /\ m.inside
      /\ m.column \in Nat /\ m.offset_x \in Nat
      /\ m.row + BITMAP_SIZE <= HEIGHT /\ m.row < HEIGHT - 2 * BITMAP_SIZE - 2 /\ m.row \in Nat
  BY <1>1, RowFacts DEF Sound
<1>3. m.column + BITMAP_SIZE < WIDTH
  BY <1>1, <1>2, SizeFacts
<1>4. /\ d.screen \in [Rows -> [Columns -> Place]]
      /\ d = [m EXCEPT !.screen = d.screen]
  BY <1>2, <1>3, DrawnWithin
<1>. HIDE DEF d
<1>5. /\ d \in ConsoleRecord /\ d.column = m.column /\ d.offset_x = m.offset_x
      /\ d.row = m.row /\ d.offset_y = m.offset_y /\ d.prompt = m.prompt
      /\ d.color = m.color /\ d.barrier = m.barrier /\ d.inside
  BY <1>2, <1>4 DEF ConsoleRecord
<1>6. Plus(m.column, PITCH) \in Number /\ Plus(m.offset_x, 1) \in Number
  BY <1>2, SizeFacts, PlusType
<1>7. /\ u \in ConsoleRecord /\ u.offset_x = m.offset_x /\ u.column = Plus(m.column, PITCH)
      /\ u.row = m.row /\ u.offset_y = m.offset_y /\ u.prompt = m.prompt
      /\ u.color = m.color /\ u.barrier = m.barrier /\ u.screen = d.screen /\ u.inside
  BY <1>4, <1>5, <1>6 DEF ConsoleRecord
<1>8. putchat(m, ch) = u
  BY DEF putchat, d, u
<1>. HIDE DEF u
<1>9. /\ v \in ConsoleRecord /\ v.offset_x = Plus(m.offset_x, 1)
      /\ v.column = Plus(m.column, PITCH)
      /\ v.row = m.row /\ v.offset_y = m.offset_y /\ v.prompt = m.prompt
      /\ v.color = m.color /\ v.barrier = m.barrier /\ v.screen = d.screen /\ v.inside
  BY <1>6, <1>7 DEF ConsoleRecord
<1>. HIDE DEF v
<1>10. scroll(v) = v
  BY <1>2, <1>9, SizeFacts DEF scroll, Scrolls
<1>11. Printed(s, ch) = v
  BY <1>8, <1>10 DEF Printed, m, v, AtText
<1>12. Sound(v)
  BY <1>1, <1>9 DEF Sound
<1>. QED
  BY <1>1, <1>9, <1>11, <1>12 DEF m, d

LEMMA BackFacts ==
  ASSUME NEW s, Sound(s)
  PROVE  LET t == Back(s)
         IN  /\ Sound(t)
             /\ t.column = Plus(s.column, -PITCH) /\ t.offset_x = Plus(s.offset_x, -1)
             /\ t.offset_y = s.offset_y /\ t.row = s.row /\ t.prompt = s.prompt
             /\ t.color = s.color /\ t.barrier = s.barrier /\ t.screen = s.screen
<1>1. /\ Plus(s.column, -PITCH) \in Number /\ Plus(s.offset_x, -1) \in Number
      /\ s \in ConsoleRecord
  BY RowFacts, SizeFacts, PlusType DEF Sound
<1>2. Back(s) = [s EXCEPT !.column = Plus(s.column, -PITCH), !.offset_x = Plus(s.offset_x, -1)]
  BY DEF Back
<1>. QED
  BY <1>1, <1>2 DEF ConsoleRecord, Sound

\* On a row of the page there is nothing to scroll.
LEMMA NoScroll == ASSUME NEW s, Sound(s) PROVE scroll(s) = s
BY RowFacts, SizeFacts DEF scroll, Scrolls

LEMMA ColouredFacts ==
  ASSUME NEW s, Sound(s), NEW ch \in Colour
  PROVE  LET t == [s EXCEPT !.color = ch]
         IN  /\ Sound(t) /\ t.color = ch
             /\ t.column = s.column /\ t.offset_x = s.offset_x
             /\ t.offset_y = s.offset_y /\ t.prompt = s.prompt
             /\ t.barrier = s.barrier /\ t.screen = s.screen
BY DEF Sound, ConsoleRecord

LEMMA ReturnFacts ==
  ASSUME NEW s, Sound(s)
  PROVE  LET t == [s EXCEPT !.column = 0, !.offset_x = 0]
         IN  /\ Sound(t) /\ t.color = s.color
             /\ t.column = 0 /\ t.offset_x = 0
             /\ t.offset_y = s.offset_y /\ t.prompt = s.prompt
             /\ t.barrier = s.barrier /\ t.screen = s.screen
<1>1. 0 \in Number
  BY SizeFacts DEF Number
<1>. QED
  BY <1>1 DEF Sound, ConsoleRecord

-----------------------------------------------------------------------------
(* putch, by the kind of character.                                        *)

Character == Letter \cup Colour \cup {NL, BS, TAB, CR, SPACE}

Tabbed(s) == Printed(Printed(Printed(Printed(s, SPACE), SPACE), SPACE), SPACE)

LEMMA putchCases ==
  ASSUME NEW s, NEW ch \in Character
  PROVE  /\ ch = NL => putch(s, ch) = scroll(Newline(s))
         /\ ch \in Colour => putch(s, ch) = scroll([s EXCEPT !.color = ch])
         /\ ch = BS /\ ~AtMargin(s) =>
              putch(s, ch) = scroll(IF s.column = 0 \/ Guarded(s) THEN s ELSE Erased(s))
         /\ ch = TAB /\ ~AtMargin(s) => putch(s, ch) = scroll(Tabbed(s))
         /\ ch = CR /\ ~AtMargin(s) =>
              putch(s, ch) = scroll([s EXCEPT !.column = 0, !.offset_x = 0])
         /\ ch \in Shape /\ ch \notin Colour /\ (AtMargin(s) \/ ch \notin {BS, TAB, CR}) =>
              putch(s, ch) = Printed(s, ch)
<1>1. /\ NL \notin {BS, TAB, CR} /\ BS \notin {TAB, CR} /\ TAB # CR
      /\ NL \notin Colour /\ BS \notin Colour /\ TAB \notin Colour /\ CR \notin Colour
      /\ NL \notin Letter /\ NL # SPACE
  BY CharAssumption
<1>2. ch = NL => putch(s, ch) = scroll(Newline(s))
  BY <1>1 DEF putch
<1>3. ch \in Colour => putch(s, ch) = scroll([s EXCEPT !.color = ch])
  BY <1>1 DEF putch
<1>4. ch = BS /\ ~AtMargin(s) =>
        putch(s, ch) = scroll(IF s.column = 0 \/ Guarded(s) THEN s ELSE Erased(s))
  BY <1>1 DEF putch
<1>5. ch = TAB /\ ~AtMargin(s) => putch(s, ch) = scroll(Tabbed(s))
  BY <1>1 DEF putch, Tabbed
<1>6. ch = CR /\ ~AtMargin(s) =>
        putch(s, ch) = scroll([s EXCEPT !.column = 0, !.offset_x = 0])
  BY <1>1 DEF putch
<1>7. ch \in Shape /\ ch \notin Colour /\ (AtMargin(s) \/ ch \notin {BS, TAB, CR}) =>
        putch(s, ch) = Printed(s, ch)
  <2>. SUFFICES ASSUME ch \in Shape, ch \notin Colour, AtMargin(s) \/ ch \notin {BS, TAB, CR}
                PROVE  putch(s, ch) = Printed(s, ch)
    OBVIOUS
  <2>1. ch # NL
    BY <1>1 DEF Shape
  <2>. QED
    BY <2>1 DEF putch
<1>. QED
  BY <1>2, <1>3, <1>4, <1>5, <1>6, <1>7

LEMMA TabbedSound == ASSUME NEW s, Sound(s) PROVE Sound(Tabbed(s))
<1>. DEFINE a == Printed(s, SPACE)
            b == Printed(a, SPACE)
            c == Printed(b, SPACE)
<1>1. SPACE \in Shape
  BY DEF Shape
<1>2. Sound(a)
  BY <1>1, PrintedFacts
<1>. HIDE DEF a
<1>3. Sound(b)
  BY <1>1, <1>2, PrintedFacts
<1>. HIDE DEF b
<1>4. Sound(c)
  BY <1>1, <1>3, PrintedFacts
<1>. HIDE DEF c
<1>5. Sound(Printed(c, SPACE))
  BY <1>1, <1>4, PrintedFacts
<1>. QED
  BY <1>5 DEF Tabbed, a, b, c

LEMMA ErasedSound == ASSUME NEW s, Sound(s) PROVE Sound(Erased(s))
<1>1. SPACE \in Shape
  BY DEF Shape
<1>. DEFINE a == Back(s)
            b == Printed(a, SPACE)
<1>2. Sound(a)
  BY BackFacts
<1>. HIDE DEF a
<1>3. Sound(b)
  BY <1>1, <1>2, PrintedFacts
<1>. HIDE DEF b
<1>4. Sound(Back(b))
  BY <1>3, BackFacts
<1>. QED
  BY <1>4 DEF Erased, a, b

LEMMA CharacterCases ==
  ASSUME NEW s, NEW ch \in Character
  PROVE  \/ ch = NL \/ ch \in Colour
         \/ ~AtMargin(s) /\ ch \in {BS, TAB, CR}
         \/ ch \in Shape /\ ch \notin Colour /\ (AtMargin(s) \/ ch \notin {BS, TAB, CR})
BY DEF Character, Shape

\* putch keeps the cursor on the page and draws inside.
LEMMA putchSound ==
  ASSUME NEW s, Sound(s), NEW ch \in Character
  PROVE  Sound(putch(s, ch))
<1>1. CASE ch = NL
  <2>1. Sound(scroll(Newline(s)))
    BY NextLine
  <2>2. putch(s, ch) = scroll(Newline(s))
    BY <1>1, putchCases
  <2>. QED
    BY <2>1, <2>2
<1>2. CASE ch \in Colour
  <2>. DEFINE t == [s EXCEPT !.color = ch]
  <2>1. Sound(t)
    BY <1>2, ColouredFacts
  <2>2. putch(s, ch) = scroll(t)
    BY <1>2, putchCases
  <2>. HIDE DEF t
  <2>. QED
    BY <2>1, <2>2, NoScroll
<1>3. CASE ~AtMargin(s) /\ ch = BS
  <2>. DEFINE t == IF s.column = 0 \/ Guarded(s) THEN s ELSE Erased(s)
  <2>1. Sound(t)
    BY ErasedSound
  <2>2. putch(s, ch) = scroll(t)
    BY <1>3, putchCases
  <2>. HIDE DEF t
  <2>. QED
    BY <2>1, <2>2, NoScroll
<1>4. CASE ~AtMargin(s) /\ ch = TAB
  <2>1. Sound(Tabbed(s))
    BY TabbedSound
  <2>2. putch(s, ch) = scroll(Tabbed(s))
    BY <1>4, putchCases
  <2>. QED
    BY <2>1, <2>2, NoScroll
<1>5. CASE ~AtMargin(s) /\ ch = CR
  <2>. DEFINE t == [s EXCEPT !.column = 0, !.offset_x = 0]
  <2>1. Sound(t)
    BY ReturnFacts
  <2>2. putch(s, ch) = scroll(t)
    BY <1>5, putchCases
  <2>. HIDE DEF t
  <2>. QED
    BY <2>1, <2>2, NoScroll
<1>6. CASE ch \in Shape /\ ch \notin Colour /\ (AtMargin(s) \/ ch \notin {BS, TAB, CR})
  <2>1. Sound(Printed(s, ch))
    BY <1>6, PrintedFacts
  <2>2. putch(s, ch) = Printed(s, ch)
    BY <1>6, putchCases
  <2>. QED
    BY <2>1, <2>2
<1>. QED
  BY <1>1, <1>2, <1>3, <1>4, <1>5, <1>6, CharacterCases

-----------------------------------------------------------------------------
(* Who calls it.                                                           *)

LEMMA Keys ==
  ASSUME NEW k \in KeyChar, TypeOK
  PROVE  Capital(k) \in Character
BY TypingAssumption DEF Capital, Character

\* The prompt is made of places of the page.
LEMMA PromptType ==
  ASSUME NEW s, Sound(s)
  PROVE  Prompt(s) \in [row : Rows, text : Seq(Place)]
<1>. DEFINE row == s.row \div PITCH
            places == {c \in Columns : (c + 1) * PITCH <= s.column}
            n == Cardinality(places)
            text == [i \in 1..n |-> s.screen[row][i - 1]]
<1>1. PICK m \in Nat : Columns = 0..(m - 1)
  BY ColumnsFacts
<1>2. IsFiniteSet(Columns) /\ Cardinality(Columns) = m
  BY <1>1, CountTo
<1>3. n \in Nat /\ n <= m
  BY <1>2, FS_Subset, FS_CardinalityType
<1>. HIDE DEF n
<1>4. row \in Rows /\ s.screen \in [Rows -> [Columns -> Place]]
  BY RowFacts DEF Sound, ConsoleRecord
<1>. HIDE DEF row
<1>5. ASSUME NEW i \in 1..n PROVE s.screen[row][i - 1] \in Place
  <2>1. i - 1 \in Columns
    BY <1>1, <1>3
  <2>. QED
    BY <1>4, <2>1
<1>6. text \in Seq(Place)
  BY <1>3, <1>5
<1>. HIDE DEF text
<1>7. Prompt(s) = [row |-> row, text |-> text]
  BY DEF Prompt, row, text, n
<1>. QED
  BY <1>4, <1>6, <1>7

LEMMA BarrierSound ==
  ASSUME NEW s, Sound(s)
  PROVE  Sound(ConsoleSetBarrier(s)) /\ Sound(ConsoleRemBarrier(s))
<1>1. /\ s \in ConsoleRecord /\ 0 \in Number
      /\ Prompt(s) \in [row : Rows, text : Seq(Place)]
  BY PromptType, SizeFacts DEF Sound, Number
<1>. DEFINE p == Prompt(s)
<1>. HIDE DEF p
<1>2. ConsoleSetBarrier(s) = [s EXCEPT !.barrier = <<s.offset_x, s.offset_y>>, !.prompt = p]
  BY DEF ConsoleSetBarrier, p
<1>3. /\ p \in [row : Rows, text : Seq(Place)]
      /\ <<s.offset_x, s.offset_y>> \in Number \X Number /\ <<0, 0>> \in Number \X Number
  BY <1>1 DEF ConsoleRecord, p
<1>4. Sound(ConsoleSetBarrier(s))
  BY <1>1, <1>2, <1>3 DEF Sound, ConsoleRecord
<1>5. Sound(ConsoleRemBarrier(s))
  BY <1>1, <1>3 DEF Sound, ConsoleRecord, ConsoleRemBarrier
<1>. QED
  BY <1>4, <1>5

LEMMA ArrowSound ==
  ASSUME NEW s, Sound(s), NEW i \in {1, -1}
  PROVE  Sound(MVCURSORC(s, i))
<1>1. BITMAP_SIZE + i \in Int /\ s.column \in Int
  BY RowFacts, SizeFacts
<1>2. Plus(s.column, BITMAP_SIZE + i) \in Number
  BY <1>1, PlusType
<1>. QED
  BY <1>2 DEF Sound, ConsoleRecord, MVCURSORC

\* The framebuffer begins empty.
LEMMA InitSound == ConsoleInit => Sound(console)
<1>. SUFFICES ASSUME ConsoleInit PROVE Sound(console)
  OBVIOUS
<1>1. 0 \in Number /\ WHITE \in Colour /\ 0 \in 0..(Lines - 1) /\ 0 = 0 * PITCH
  BY LinesFacts, SizeFacts, ConsoleAssumption DEF Number
<1>. DEFINE pic == [r \in Rows |-> [c \in Columns |-> BLANK]]
<1>2. pic \in [Rows -> [Columns -> Place]]
  BY DEF Place
<1>. HIDE DEF pic
<1>3. console = [offset_x |-> 0, offset_y |-> 0, barrier |-> <<0, 0>>,
                 column |-> 0, row |-> 0, color |-> WHITE, screen |-> pic,
                 inside |-> TRUE, prompt |-> NONE]
  BY DEF ConsoleInit, pic
<1>. QED
  BY <1>1, <1>2, <1>3 DEF Sound, ConsoleRecord

Inv ==
  /\ Sound(console)
  /\ {capslock, reading, moved} \subseteq BOOLEAN

LEMMA InvStep == Inv /\ [Next]_vars => Inv'
<1>. SUFFICES ASSUME Inv, [Next]_vars PROVE Inv'
  OBVIOUS
<1>1. Sound(console) /\ TypeOK
  BY DEF Inv, Sound, TypeOK, ConsoleType
<1>2. ASSUME NEW c \in LogChar, Log(c) PROVE Inv'
  <2>1. c \in Character
    BY TypingAssumption DEF Character
  <2>2. Sound(putch(console, c))
    BY <1>1, <2>1, putchSound
  <2>. QED
    BY <1>2, <2>2 DEF Inv, Log, Puts
<1>3. ASSUME NEW k \in KeyChar, Key(k) PROVE Inv'
  <2>1. Sound(putch(console, Capital(k)))
    BY <1>1, Keys, putchSound
  <2>. QED
    BY <1>3, <2>1 DEF Inv, Key, Puts
<1>4. CASE CapsLock
  BY <1>4 DEF CapsLock, Inv
<1>5. ASSUME NEW i \in {1, -1}, Arrow(i) PROVE Inv'
  <2>1. Sound(MVCURSORC(console, i))
    BY <1>1, ArrowSound
  <2>. QED
    BY <1>5, <2>1 DEF Inv, Arrow
<1>6. CASE SetBarrier
  BY <1>1, <1>6, BarrierSound DEF SetBarrier, Inv
<1>7. CASE RemBarrier
  BY <1>1, <1>7, BarrierSound DEF RemBarrier, Inv
<1>8. CASE UNCHANGED vars
  BY <1>8 DEF vars, Inv
<1>. QED
  BY <1>2, <1>3, <1>4, <1>5, <1>6, <1>7, <1>8 DEF Next

LEMMA Invariant == Spec => []Inv
<1>1. Init => Inv
  BY InitSound DEF Init, Inv
<1>. QED
  BY <1>1, InvStep, PTL DEF Spec

\* The console keeps the types of its fields whoever calls it, and whatever the
\* arrows and the wrap of u32 have made of the cursor.
THEOREM TypingTyped == Spec => []TypeOK
<1>1. Inv => TypeOK
  BY DEF Inv, Sound, TypeOK, ConsoleType
<1>. QED
  BY <1>1, Invariant, PTL

\* No glyph leaves the framebuffer: putch leaves the margin before it draws, and
\* scroll brings the row back to the page before putch returns.
THEOREM GlyphsAreInside == Spec => []DrawnInside
<1>1. Inv => DrawnInside
  BY DEF Inv, Sound, DrawnInside
<1>. QED
  BY <1>1, Invariant, PTL

-----------------------------------------------------------------------------
(* Before an arrow has moved the cursor: column and offset_x say the same. *)

Straight(s) ==
  /\ Sound(s)
  /\ s.offset_x \in 0..Cols
  /\ s.column = s.offset_x * PITCH
  /\ \A r \in Rows, c \in Columns : r >= Lines => s.screen[r][c] = BLANK

LEMMA MarginAt ==
  ASSUME NEW s, Straight(s)
  PROVE  AtMargin(s) <=> s.offset_x = Cols
<1>1. s.offset_x \in Nat /\ s.offset_x <= Cols /\ s.column = s.offset_x * PITCH
  BY ColsFacts DEF Straight
<1>2. s.offset_x * PITCH < WIDTH - 2 * BITMAP_SIZE <=> s.offset_x < Cols
  BY <1>1, ColsFacts
<1>3. s.column \in Nat
  BY <1>1, SizeFacts
<1>4. AtMargin(s) <=> ~(s.offset_x < Cols)
  BY <1>1, <1>2, <1>3, SizeFacts DEF AtMargin
<1>. QED
  BY <1>1, <1>4, ColsFacts

LEMMA MovedUpAt ==
  ASSUME NEW pic, NEW r \in Rows, NEW c \in Columns
  PROVE  MovedUp(pic)[r][c] = IF r + 1 \in Rows THEN pic[r + 1][c] ELSE pic[r][c]
BY DEF MovedUp

LEMMA StraightDown ==
  ASSUME NEW s, Straight(s)
  PROVE  Straight(scroll(Newline(s)))
<1>. DEFINE t == scroll(Newline(s))
            bottom == s.offset_y = Lines - 1
<1>1. Sound(s)
  BY DEF Straight
<1>2. /\ Sound(t) /\ t.column = 0 /\ t.offset_x = 0
      /\ t.screen = IF bottom THEN MovedUp(s.screen) ELSE s.screen
  BY <1>1, NextLine
<1>. HIDE DEF t
<1>3. ASSUME NEW r \in Rows, NEW c \in Columns, r >= Lines
      PROVE  t.screen[r][c] = BLANK
  <2>1. s.screen[r][c] = BLANK
    BY <1>3 DEF Straight
  <2>2. r + 1 \in Rows => s.screen[r + 1][c] = BLANK
    <3>1. r \in Int /\ r + 1 >= Lines
      BY <1>3, RowsFacts, LinesFacts
    <3>. QED
      BY <3>1 DEF Straight
  <2>. QED
    BY <1>2, <2>1, <2>2, MovedUpAt
<1>4. 0 \in 0..Cols /\ 0 = 0 * PITCH
  BY ColsFacts, SizeFacts
<1>5. Straight(t)
  BY <1>2, <1>3, <1>4 DEF Straight
<1>. QED
  BY <1>5 DEF t

LEMMA TextAt ==
  ASSUME NEW s, Straight(s)
  PROVE  /\ Straight(AtText(s))
         /\ AtText(s).offset_x \in 0..(Cols - 1)
         /\ s.offset_x # Cols => AtText(s) = s
         /\ s.offset_x = Cols => AtText(s) = scroll(Newline(s)) /\ AtText(s).offset_x = 0
<1>. DEFINE t == scroll(Newline(s))
<1>1. CASE s.offset_x = Cols
  <2>1. AtText(s) = t
    BY <1>1, MarginAt DEF AtText
  <2>2. Straight(t)
    BY StraightDown
  <2>3. t.offset_x = 0
    BY NextLine DEF Straight
  <2>. HIDE DEF t
  <2>4. 0 \in 0..(Cols - 1)
    BY ColsFacts
  <2>5. AtText(s) = scroll(Newline(s))
    BY <2>1 DEF t
  <2>. QED
    BY <1>1, <2>1, <2>2, <2>3, <2>4, <2>5
<1>2. CASE s.offset_x # Cols
  <2>1. AtText(s) = s
    BY <1>2, MarginAt DEF AtText
  <2>2. s.offset_x \in 0..(Cols - 1)
    BY <1>2, ColsFacts DEF Straight
  <2>. QED
    BY <1>2, <2>1, <2>2
<1>. QED
  BY <1>1, <1>2

\* On its place a glyph shows in one place only.
LEMMA ShownAt ==
  ASSUME NEW k \in Columns
  PROVE  Shown(k * PITCH) = {k} /\ (k * PITCH) % PITCH = 0
<1>1. /\ k \in Nat /\ PITCH \in Nat /\ PITCH = BITMAP_SIZE + 1 /\ PITCH > 0
      /\ BITMAP_SIZE \in Nat /\ BITMAP_SIZE > 0 /\ k * PITCH \in Nat
  BY ColumnsFacts, SizeFacts
<1>2. ASSUME NEW j \in Columns, j # k PROVE j \notin Shown(k * PITCH)
  <2>1. j \in Nat /\ j * PITCH \in Nat
    BY <1>1, ColumnsFacts
  <2>2. CASE j < k
    <3>1. (j + 1) * PITCH <= k * PITCH
      BY <1>1, <2>1, <2>2, MultiplyMonotone
    <3>2. (j + 1) * PITCH = j * PITCH + PITCH
      BY <1>1, <2>1
    <3>3. ~(k * PITCH < j * PITCH + BITMAP_SIZE)
      BY <1>1, <2>1, <3>1, <3>2
    <3>. QED
      BY <3>3 DEF Shown
  <2>3. CASE k < j
    <3>1. (k + 1) * PITCH <= j * PITCH
      BY <1>1, <2>1, <2>3, MultiplyMonotone
    <3>2. (k + 1) * PITCH = k * PITCH + PITCH
      BY <1>1, <2>1
    <3>3. ~(j * PITCH < k * PITCH + BITMAP_SIZE)
      BY <1>1, <2>1, <3>1, <3>2
    <3>. QED
      BY <3>3 DEF Shown
  <2>. QED
    BY <1>1, <1>2, <2>1, <2>2, <2>3
<1>3. k \in Shown(k * PITCH)
  BY <1>1 DEF Shown
<1>4. Shown(k * PITCH) \subseteq Columns
  BY DEF Shown
<1>5. (k * PITCH) \div PITCH = k
  BY <1>1, DivMultiple
<1>6. (k * PITCH) % PITCH = 0
  <2>. DEFINE x == k * PITCH
  <2>1. x = PITCH * (x \div PITCH) + (x % PITCH)
    BY <1>1
  <2>2. PITCH * (x \div PITCH) = x
    BY <1>1, <1>5
  <2>3. x \in Nat /\ x % PITCH \in Nat
    BY <1>1
  <2>. HIDE DEF x
  <2>4. x % PITCH = 0
    BY <2>1, <2>2, <2>3
  <2>. QED
    BY <2>4 DEF x
<1>. QED
  BY <1>2, <1>3, <1>4, <1>6

\* Rows and their first pixels.
LEMMA RowAt ==
  ASSUME NEW r \in Int, NEW y \in Int
  PROVE  r * PITCH = y * PITCH <=> r = y
BY DivMultiple, SizeFacts

\* What a character leaves behind.
LEMMA PrintedAt ==
  ASSUME NEW s, Straight(s), NEW ch \in Shape
  PROVE  /\ Straight(Printed(s, ch))
         /\ Printed(s, ch).offset_x = AtText(s).offset_x + 1
         /\ Printed(s, ch).offset_y = AtText(s).offset_y
         /\ Printed(s, ch).prompt = AtText(s).prompt
         /\ Printed(s, ch).color = s.color
         /\ Printed(s, ch).barrier = s.barrier
         /\ \A r \in Rows, c \in Columns :
              Printed(s, ch).screen[r][c] =
                IF r = AtText(s).offset_y /\ c = AtText(s).offset_x THEN Glyph(ch, s.color)
                ELSE AtText(s).screen[r][c]
<1>. DEFINE m == AtText(s)
            t == Printed(s, ch)
            d == Drawn(m, m.column, m.row, ch)
            x == m.offset_x
            y == m.offset_y
<1>1. Sound(s)
  BY DEF Straight
<1>2. /\ Sound(t) /\ t.offset_y = y /\ t.prompt = m.prompt
      /\ t.color = s.color /\ t.barrier = s.barrier
      /\ t.column = Plus(m.column, PITCH) /\ t.offset_x = Plus(x, 1)
      /\ t.screen = d.screen
  BY <1>1, PrintedFacts
<1>3. Straight(m) /\ x \in 0..(Cols - 1) /\ m.color = s.color
  BY <1>1, TextAt, TextColumn
<1>. HIDE DEF t, m
<1>4. /\ x \in Nat /\ x < Cols /\ x \in Columns /\ m.column = x * PITCH
      /\ m.row = y * PITCH /\ y \in Nat /\ y < Lines /\ m \in ConsoleRecord
  BY <1>3, ColsFacts, LinesFacts DEF Straight, Sound
<1>5. \A r \in Rows, c \in Columns :
        d.screen[r][c] =
          IF r * PITCH # m.row \/ c \notin Shown(m.column) THEN m.screen[r][c]
          ELSE IF m.column % PITCH = 0 THEN Glyph(ch, m.color) ELSE MIXED
  BY <1>4, DrawnPlaces
<1>6. Shown(m.column) = {x} /\ m.column % PITCH = 0
  BY <1>4, ShownAt
<1>7. ASSUME NEW r \in Rows, NEW c \in Columns
      PROVE  t.screen[r][c] = IF r = y /\ c = x THEN Glyph(ch, s.color) ELSE m.screen[r][c]
  <2>1. r * PITCH # m.row <=> r # y
    <3>1. r \in Int
      BY RowsFacts
    <3>. QED
      BY <1>4, <3>1, RowAt
  <2>2. d.screen[r][c] =
          IF r * PITCH # m.row \/ c \notin Shown(m.column) THEN m.screen[r][c]
          ELSE IF m.column % PITCH = 0 THEN Glyph(ch, m.color) ELSE MIXED
    BY <1>5
  <2>. HIDE DEF d
  <2>. QED
    BY <1>2, <1>3, <1>6, <2>1, <2>2
<1>. HIDE DEF d
<1>8. (x + 1) * PITCH = x * PITCH + PITCH /\ (x + 1) * PITCH \in Nat /\ x + 1 \in Nat
  BY <1>4, SizeFacts
<1>9. (x + 1) * PITCH <= Cols * PITCH /\ Cols * PITCH \in Nat /\ Cols <= Cols * PITCH
  <2>1. (x + 1) * PITCH <= Cols * PITCH
    <3>1. x + 1 \in Int /\ Cols \in Int /\ x + 1 <= Cols /\ PITCH \in Nat
      BY <1>4, ColsFacts, SizeFacts
    <3>. QED
      BY <3>1, MultiplyMonotone
  <2>2. 1 * Cols <= PITCH * Cols
    BY ColsFacts, SizeFacts, MultiplyMonotone
  <2>3. PITCH * Cols = Cols * PITCH /\ 1 * Cols = Cols /\ Cols * PITCH \in Nat
    BY ColsFacts, SizeFacts
  <2>. QED
    BY <2>1, <2>2, <2>3
<1>10. (x + 1) * PITCH \in Number /\ x + 1 \in Number
  BY SMTT(30), <1>4, <1>8, <1>9, ColsFacts, SizeFacts DEF Number
<1>11. t.column = (x + 1) * PITCH /\ t.offset_x = x + 1
  <2>1. Plus(m.column, PITCH) = m.column + PITCH
    BY <1>4, <1>8, <1>10, SizeFacts, PlusSmall
  <2>2. Plus(x, 1) = x + 1
    BY <1>4, <1>10, PlusSmall
  <2>. QED
    BY <1>2, <1>4, <1>8, <2>1, <2>2
<1>12. ASSUME NEW r \in Rows, NEW c \in Columns, r >= Lines
       PROVE  t.screen[r][c] = BLANK
  <2>1. r # y
    BY <1>4, <1>12, RowsFacts, LinesFacts
  <2>2. m.screen[r][c] = BLANK
    BY <1>3, <1>12 DEF Straight
  <2>. QED
    BY <1>7, <2>1, <2>2
<1>13. Straight(t)
  <2>1. x + 1 \in 0..Cols
    BY <1>4, ColsFacts
  <2>. QED
    BY <1>2, <1>11, <1>12, <2>1 DEF Straight
<1>. QED
  BY <1>2, <1>7, <1>11, <1>13 DEF t, m

-----------------------------------------------------------------------------
(* The prompt.                                                             *)

\* The prompt stands where it was, or further up, and as long as it is in the
\* row of the cursor the barrier is its end.
Kept(s) ==
  \/ s.prompt = NONE
  \/ /\ s.prompt \in [row : Rows, text : Seq(Place)]
     /\ s.prompt.row <= s.offset_y
     /\ Len(s.prompt.text) <= Cols
     /\ \A i \in 1..Len(s.prompt.text) :
          s.screen[s.prompt.row][i - 1] = s.prompt.text[i]
     /\ s.prompt.row = s.offset_y =>
          /\ Len(s.prompt.text) <= s.offset_x
          /\ s.barrier = <<Len(s.prompt.text), s.offset_y>>

\* A backspace does not reach it.
Room(s) ==
  s.prompt = NONE \/ s.prompt.row # s.offset_y \/ Len(s.prompt.text) < s.offset_x

Orderly(s) == Straight(s) /\ Kept(s)

LEMMA KeptDown ==
  ASSUME NEW s, Orderly(s)
  PROVE  /\ Orderly(scroll(Newline(s)))
         /\ s.prompt = NONE => scroll(Newline(s)).prompt = NONE
<1>. DEFINE t == scroll(Newline(s))
            bottom == s.offset_y = Lines - 1
            p == s.prompt
            y == s.offset_y
<1>1. Straight(s) /\ Sound(s) /\ Kept(s)
  BY DEF Orderly, Straight
<1>2. /\ t.offset_y = IF bottom THEN y ELSE y + 1
      /\ t.screen = IF bottom THEN MovedUp(s.screen) ELSE s.screen
      /\ t.prompt = IF bottom THEN PromptUp(p) ELSE p
  BY <1>1, NextLine
<1>3. Straight(t)
  BY <1>1, StraightDown
<1>. HIDE DEF t
<1>4. CASE p = NONE
  <2>1. t.prompt = NONE
    BY <1>2, <1>4 DEF PromptUp
  <2>. QED
    BY <1>3, <2>1 DEF Orderly, Kept, t
<1>5. CASE p # NONE
  <2>1. /\ p \in [row : Rows, text : Seq(Place)]
        /\ p.row <= y /\ Len(p.text) <= Cols
        /\ \A i \in 1..Len(p.text) : s.screen[p.row][i - 1] = p.text[i]
    BY <1>1, <1>5 DEF Kept
  <2>2. y \in Nat /\ p.row \in Nat /\ Len(p.text) \in Nat /\ p.row \in Rows
    BY <1>1, <2>1, RowFacts, RowsFacts
  <2>3. CASE ~bottom
    <3>1. t.offset_y = y + 1 /\ t.screen = s.screen /\ t.prompt = p
      BY <1>2, <2>3
    <3>2. p.row < y + 1
      BY <2>1, <2>2
    <3>3. Kept(t)
      BY <2>1, <2>2, <3>1, <3>2 DEF Kept
    <3>. QED
      BY <1>3, <1>5, <3>3 DEF Orderly, t
  <2>4. CASE bottom /\ p.row = 0
    <3>1. t.prompt = NONE
      BY <1>2, <2>4 DEF PromptUp
    <3>. QED
      BY <1>3, <3>1 DEF Orderly, Kept, t
  <2>5. CASE bottom /\ p.row # 0
    <3>1. t.offset_y = y /\ t.screen = MovedUp(s.screen) /\ t.prompt = [p EXCEPT !.row = p.row - 1]
      BY <1>2, <1>5, <2>5 DEF PromptUp
    <3>2. p.row - 1 \in Rows /\ p.row - 1 < y /\ (p.row - 1) + 1 = p.row
      BY <2>1, <2>2, <2>5, RowsFacts
    <3>3. /\ t.prompt \in [row : Rows, text : Seq(Place)]
          /\ t.prompt.row = p.row - 1 /\ t.prompt.text = p.text
      BY <2>1, <3>1, <3>2
    <3>4. ASSUME NEW i \in 1..Len(p.text)
          PROVE  t.screen[p.row - 1][i - 1] = p.text[i]
      <4>1. i - 1 \in Columns
        BY <2>1, <2>2, ColsFacts
      <4>2. MovedUp(s.screen)[p.row - 1][i - 1] = s.screen[p.row][i - 1]
        BY <2>2, <3>2, <4>1, MovedUpAt
      <4>. QED
        BY <2>1, <3>1, <4>2
    <3>5. Kept(t)
      BY <2>1, <2>2, <3>1, <3>2, <3>3, <3>4 DEF Kept
    <3>. QED
      BY <1>3, <1>5, <3>5 DEF Orderly, t
  <2>. QED
    BY <2>3, <2>4, <2>5
<1>. QED
  BY <1>4, <1>5

LEMMA KeptAtText ==
  ASSUME NEW s, Orderly(s)
  PROVE  /\ Orderly(AtText(s)) /\ AtText(s).barrier = s.barrier
         /\ s.prompt = NONE => AtText(s).prompt = NONE
<1>1. Straight(s) /\ Sound(s) /\ Kept(s)
  BY DEF Orderly, Straight
<1>2. AtText(s).barrier = s.barrier
  BY <1>1, TextColumn
<1>3. CASE s.offset_x = Cols
  <2>1. AtText(s) = scroll(Newline(s))
    BY <1>1, <1>3, TextAt
  <2>. QED
    BY <1>2, <2>1, KeptDown
<1>4. CASE s.offset_x # Cols
  <2>1. AtText(s) = s
    BY <1>1, <1>4, TextAt
  <2>. QED
    BY <1>2, <2>1
<1>. QED
  BY <1>3, <1>4

LEMMA KeptPrinted ==
  ASSUME NEW s, Orderly(s), NEW ch \in Shape
  PROVE  /\ Orderly(Printed(s, ch))
         /\ s.prompt = NONE => Printed(s, ch).prompt = NONE
<1>. DEFINE m == AtText(s)
            t == Printed(s, ch)
            p == m.prompt
<1>1. Straight(s)
  BY DEF Orderly
<1>2. /\ Straight(t) /\ t.offset_x = m.offset_x + 1 /\ t.offset_y = m.offset_y
      /\ t.prompt = p /\ t.barrier = s.barrier
      /\ \A r \in Rows, c \in Columns :
           t.screen[r][c] = IF r = m.offset_y /\ c = m.offset_x THEN Glyph(ch, s.color)
                            ELSE m.screen[r][c]
  BY <1>1, PrintedAt
<1>3. Straight(m) /\ Kept(m) /\ m.barrier = s.barrier /\ (s.prompt = NONE => p = NONE)
  BY KeptAtText DEF Orderly
<1>. HIDE DEF t, m
<1>4. CASE p = NONE
  BY <1>2, <1>4 DEF Orderly, Kept, t
<1>5. CASE p # NONE
  <2>1. /\ p \in [row : Rows, text : Seq(Place)]
        /\ p.row <= m.offset_y /\ Len(p.text) <= Cols
        /\ \A i \in 1..Len(p.text) : m.screen[p.row][i - 1] = p.text[i]
        /\ p.row = m.offset_y => /\ Len(p.text) <= m.offset_x
                                /\ m.barrier = <<Len(p.text), m.offset_y>>
    BY <1>3, <1>5 DEF Kept
  <2>2. /\ m.offset_x \in Nat /\ m.offset_y \in Nat /\ p.row \in Rows /\ p.row \in Nat
        /\ Len(p.text) \in Nat
    BY <1>3, <2>1, RowFacts, RowsFacts DEF Straight
  <2>3. ASSUME NEW i \in 1..Len(p.text)
        PROVE  t.screen[p.row][i - 1] = p.text[i]
    <3>1. i - 1 \in Columns
      BY <2>1, <2>2, ColsFacts
    <3>2. ~(p.row = m.offset_y /\ i - 1 = m.offset_x)
      BY <2>1, <2>2
    <3>3. t.screen[p.row][i - 1] = m.screen[p.row][i - 1]
      BY <1>2, <2>2, <3>1, <3>2, SMTT(30)
    <3>. QED
      BY <2>1, <3>3
  <2>4. p.row = m.offset_y => Len(p.text) <= m.offset_x + 1
    BY <2>1, <2>2
  <2>5. Kept(t)
    BY <1>2, <1>3, <2>1, <2>3, <2>4 DEF Kept
  <2>. QED
    BY <1>2, <1>3, <1>5, <2>5 DEF Orderly, t
<1>. QED
  BY <1>4, <1>5

LEMMA KeptBack ==
  ASSUME NEW s, Orderly(s), s.offset_x > 0, Room(s)
  PROVE  /\ Orderly(Back(s))
         /\ Back(s).offset_x = s.offset_x - 1 /\ Back(s).offset_y = s.offset_y
         /\ Back(s).prompt = s.prompt /\ Back(s).barrier = s.barrier
         /\ Back(s).screen = s.screen /\ Back(s).color = s.color
<1>. DEFINE t == Back(s)
            x == s.offset_x
<1>1. Straight(s) /\ Sound(s) /\ Kept(s)
  BY DEF Orderly, Straight
<1>2. /\ Sound(t) /\ t.column = Plus(s.column, -PITCH) /\ t.offset_x = Plus(x, -1)
      /\ t.offset_y = s.offset_y /\ t.prompt = s.prompt
      /\ t.color = s.color /\ t.barrier = s.barrier /\ t.screen = s.screen
  BY <1>1, BackFacts
<1>. HIDE DEF t
<1>3. /\ x \in Nat /\ x > 0 /\ x <= Cols /\ Cols \in Nat /\ s.column = x * PITCH
      /\ x * PITCH \in Number /\ x \in Number /\ PITCH \in Nat
  BY <1>1, ColsFacts, SizeFacts DEF Straight, Sound, ConsoleRecord
<1>4. x * PITCH = (x - 1) * PITCH + PITCH /\ (x - 1) * PITCH \in Nat /\ x - 1 \in Nat
  BY <1>3
<1>5. (x - 1) * PITCH \in Number /\ x - 1 \in Number
  BY <1>3, <1>4, SizeFacts DEF Number
<1>6. t.column = (x - 1) * PITCH /\ t.offset_x = x - 1
  <2>1. x + (-1) = x - 1 /\ s.column + (-PITCH) = (x - 1) * PITCH
    BY <1>3, <1>4
  <2>2. Plus(x, -1) = x + (-1)
    BY <1>3, <1>5, <2>1, PlusSmall
  <2>3. -PITCH \in Int /\ s.column \in Int
    BY <1>3, <1>4
  <2>4. Plus(s.column, -PITCH) = s.column + (-PITCH)
    BY <1>5, <2>1, <2>3, PlusSmall
  <2>. QED
    BY <1>2, <2>1, <2>2, <2>4
<1>7. x - 1 \in 0..Cols
  BY <1>3
<1>8. Straight(t)
  BY <1>1, <1>2, <1>6, <1>7 DEF Straight
<1>9. Kept(t)
  <2>1. CASE s.prompt = NONE
    BY <1>2, <2>1 DEF Kept
  <2>2. CASE s.prompt # NONE
    <3>1. s.prompt \in [row : Rows, text : Seq(Place)]
      BY <1>1, <2>2 DEF Kept
    <3>2. Len(s.prompt.text) \in Nat
      BY <3>1
    <3>3. s.prompt.row = s.offset_y => Len(s.prompt.text) <= x - 1
      BY <1>3, <2>2, <3>2 DEF Room
    <3>. QED
      BY <1>1, <1>2, <1>6, <2>2, <3>3 DEF Kept
  <2>. QED
    BY <2>1, <2>2
<1>. QED
  BY <1>2, <1>6, <1>8, <1>9 DEF Orderly, t

LEMMA RoomIsLeft ==
  ASSUME NEW s, Orderly(s), s.offset_x > 0, ~Guarded(s)
  PROVE  Room(s)
<1>. SUFFICES ASSUME s.prompt # NONE, s.prompt.row = s.offset_y
              PROVE  Len(s.prompt.text) < s.offset_x
  BY DEF Room
<1>1. /\ s.prompt \in [row : Rows, text : Seq(Place)]
      /\ s.barrier = <<Len(s.prompt.text), s.offset_y>>
  BY DEF Orderly, Kept
<1>2. Len(s.prompt.text) \in Nat /\ s.offset_x \in Nat /\ s.offset_y \in Nat
  BY <1>1, RowFacts DEF Orderly, Straight
<1>3. s.barrier[1] = Len(s.prompt.text) /\ s.barrier[2] = s.offset_y
  BY <1>1
<1>4. CASE s.barrier = <<0, 0>>
  BY <1>2, <1>3, <1>4
<1>5. CASE s.barrier # <<0, 0>>
  <2>1. ~(Len(s.prompt.text) >= s.offset_x)
    BY <1>3, <1>5 DEF Guarded
  <2>. QED
    BY <1>2, <2>1
<1>. QED
  BY <1>4, <1>5

LEMMA KeptErased ==
  ASSUME NEW s, Orderly(s), s.offset_x > 0, s.offset_x # Cols, ~Guarded(s)
  PROVE  /\ Orderly(Erased(s))
         /\ s.prompt = NONE => Erased(s).prompt = NONE
         /\ Erased(s).offset_x = s.offset_x - 1 /\ Erased(s).offset_y = s.offset_y
         /\ Erased(s).color = s.color
         /\ \A r \in Rows, c \in Columns :
              Erased(s).screen[r][c] =
                IF r = s.offset_y /\ c = s.offset_x - 1 THEN BLANK ELSE s.screen[r][c]
<1>. DEFINE a == Back(s)
            b == Printed(a, SPACE)
            t == Back(b)
            x == s.offset_x
<1>1. Room(s) /\ SPACE \in Shape
  BY RoomIsLeft DEF Shape
<1>2. /\ Orderly(a) /\ a.offset_x = x - 1 /\ a.offset_y = s.offset_y
      /\ a.prompt = s.prompt /\ a.barrier = s.barrier /\ a.screen = s.screen
      /\ a.color = s.color
  BY <1>1, KeptBack
<1>. HIDE DEF a
<1>3. x \in Nat /\ x <= Cols /\ Cols \in Nat /\ s.offset_y \in Nat
  BY ColsFacts, RowFacts DEF Orderly, Straight
<1>4. AtText(a) = a
  <2>1. a.offset_x # Cols /\ Straight(a)
    BY <1>2, <1>3 DEF Orderly
  <2>. QED
    BY <2>1, TextAt
<1>5. /\ Orderly(b) /\ b.offset_x = x /\ b.offset_y = s.offset_y /\ b.prompt = s.prompt
      /\ b.color = s.color
      /\ \A r \in Rows, c \in Columns :
           b.screen[r][c] = IF r = s.offset_y /\ c = x - 1 THEN BLANK ELSE s.screen[r][c]
  <2>1. Straight(a) /\ Glyph(SPACE, a.color) = BLANK
    BY <1>2 DEF Orderly, Glyph
  <2>2. Orderly(b)
    BY <1>1, <1>2, KeptPrinted
  <2>3. /\ b.offset_x = a.offset_x + 1 /\ b.offset_y = a.offset_y /\ b.prompt = a.prompt
        /\ b.color = a.color
        /\ \A r \in Rows, c \in Columns :
             b.screen[r][c] = IF r = a.offset_y /\ c = a.offset_x THEN Glyph(SPACE, a.color)
                              ELSE a.screen[r][c]
    BY <1>1, <1>4, <2>1, PrintedAt
  <2>. HIDE DEF b
  <2>4. b.offset_x = x
    BY <1>2, <1>3, <2>3
  <2>. QED
    BY <1>2, <2>1, <2>2, <2>3, <2>4
<1>. HIDE DEF b
<1>6. Room(b) /\ b.offset_x > 0
  BY <1>1, <1>5 DEF Room
<1>7. /\ Orderly(t) /\ t.offset_x = x - 1 /\ t.offset_y = s.offset_y
      /\ t.prompt = s.prompt /\ t.screen = b.screen /\ t.color = s.color
  BY <1>5, <1>6, KeptBack
<1>. HIDE DEF t
<1>8. Erased(s) = t
  BY DEF Erased, a, b, t
<1>. QED
  BY <1>5, <1>7, <1>8

LEMMA KeptTabbed ==
  ASSUME NEW s, Orderly(s)
  PROVE  /\ Orderly(Tabbed(s))
         /\ s.prompt = NONE => Tabbed(s).prompt = NONE
<1>. DEFINE a == Printed(s, SPACE)
            b == Printed(a, SPACE)
            c == Printed(b, SPACE)
            d == Printed(c, SPACE)
<1>1. SPACE \in Shape
  BY DEF Shape
<1>2. Orderly(a) /\ (s.prompt = NONE => a.prompt = NONE)
  BY <1>1, KeptPrinted
<1>. HIDE DEF a
<1>3. Orderly(b) /\ (a.prompt = NONE => b.prompt = NONE)
  BY <1>1, <1>2, KeptPrinted
<1>. HIDE DEF b
<1>4. Orderly(c) /\ (b.prompt = NONE => c.prompt = NONE)
  BY <1>1, <1>3, KeptPrinted
<1>. HIDE DEF c
<1>5. Orderly(d) /\ (c.prompt = NONE => d.prompt = NONE)
  BY <1>1, <1>4, KeptPrinted
<1>. HIDE DEF d
<1>6. Tabbed(s) = d
  BY DEF Tabbed, a, b, c, d
<1>. QED
  BY <1>2, <1>3, <1>4, <1>5, <1>6

\* Every character keeps the prompt.  A carriage return is printed by logf only,
\* and logf waits while a prompt is guarded.
LEMMA putchKeeps ==
  ASSUME NEW s, Orderly(s), NEW ch \in Character, ch # CR \/ s.prompt = NONE
  PROVE  /\ Orderly(putch(s, ch))
         /\ s.prompt = NONE => putch(s, ch).prompt = NONE
<1>0. Straight(s) /\ Sound(s) /\ Kept(s)
  BY DEF Orderly, Straight
<1>1. CASE ch = NL
  <2>1. putch(s, ch) = scroll(Newline(s))
    BY <1>1, putchCases
  <2>. QED
    BY <2>1, KeptDown
<1>2. CASE ch \in Colour
  <2>. DEFINE t == [s EXCEPT !.color = ch]
  <2>1. /\ Sound(t) /\ t.column = s.column /\ t.offset_x = s.offset_x
        /\ t.offset_y = s.offset_y /\ t.prompt = s.prompt
        /\ t.barrier = s.barrier /\ t.screen = s.screen
    BY <1>0, <1>2, ColouredFacts
  <2>2. putch(s, ch) = scroll(t)
    BY <1>2, putchCases
  <2>. HIDE DEF t
  <2>3. Orderly(t)
    BY <1>0, <2>1 DEF Orderly, Straight, Kept
  <2>. QED
    BY <2>1, <2>2, <2>3, NoScroll
<1>3. CASE ~AtMargin(s) /\ ch = BS
  <2>1. putch(s, ch) = scroll(IF s.column = 0 \/ Guarded(s) THEN s ELSE Erased(s))
    BY <1>3, putchCases
  <2>2. CASE s.column = 0 \/ Guarded(s)
    BY <1>0, <2>1, <2>2, NoScroll
  <2>3. CASE ~(s.column = 0 \/ Guarded(s))
    <3>1. s.offset_x > 0 /\ s.offset_x # Cols
      <4>1. s.offset_x # Cols
        BY <1>0, <1>3, MarginAt
      <4>2. s.offset_x # 0
        BY <1>0, <2>3, SizeFacts DEF Straight
      <4>. QED
        BY <1>0, <4>1, <4>2, RowFacts
    <3>2. /\ Orderly(Erased(s))
          /\ s.prompt = NONE => Erased(s).prompt = NONE
      BY <2>3, <3>1, KeptErased
    <3>3. scroll(Erased(s)) = Erased(s)
      BY <3>2, NoScroll DEF Orderly, Straight
    <3>. QED
      BY <2>1, <2>3, <3>2, <3>3
  <2>. QED
    BY <2>2, <2>3
<1>4. CASE ~AtMargin(s) /\ ch = TAB
  <2>1. putch(s, ch) = scroll(Tabbed(s))
    BY <1>4, putchCases
  <2>2. scroll(Tabbed(s)) = Tabbed(s)
    BY KeptTabbed, NoScroll DEF Orderly, Straight
  <2>. QED
    BY <2>1, <2>2, KeptTabbed
<1>5. CASE ~AtMargin(s) /\ ch = CR
  <2>. DEFINE t == [s EXCEPT !.column = 0, !.offset_x = 0]
  <2>1. /\ Sound(t) /\ t.column = 0 /\ t.offset_x = 0
        /\ t.prompt = s.prompt /\ t.screen = s.screen
    BY <1>0, ReturnFacts
  <2>2. putch(s, ch) = scroll(t)
    BY <1>5, putchCases
  <2>. HIDE DEF t
  <2>3. CR \notin {NL, BS, TAB}
    BY CharAssumption
  <2>4. s.prompt = NONE
    BY <1>5
  <2>5. 0 \in 0..Cols /\ 0 = 0 * PITCH
    BY ColsFacts, SizeFacts
  <2>6. Orderly(t)
    BY <1>0, <2>1, <2>4, <2>5 DEF Orderly, Straight, Kept
  <2>. QED
    BY <2>1, <2>2, <2>4, <2>6, NoScroll
<1>6. CASE ch \in Shape /\ ch \notin Colour /\ (AtMargin(s) \/ ch \notin {BS, TAB, CR})
  <2>1. putch(s, ch) = Printed(s, ch)
    BY <1>6, putchCases
  <2>. QED
    BY <1>6, <2>1, KeptPrinted
<1>. QED
  BY <1>1, <1>2, <1>3, <1>4, <1>5, <1>6, CharacterCases

\* The barrier is set where the prompt ends.
LEMMA BarrierKeeps ==
  ASSUME NEW s, Straight(s)
  PROVE  Orderly(ConsoleSetBarrier(s))
<1>. DEFINE t == ConsoleSetBarrier(s)
            x == s.offset_x
            places == {c \in Columns : (c + 1) * PITCH <= s.column}
<1>1. Sound(s) /\ s.column = x * PITCH /\ x \in Nat /\ x <= Cols
  BY ColsFacts DEF Straight
<1>2. places = 0..(x - 1)
  <2>1. ASSUME NEW k \in Nat PROVE k \in places <=> k < x
    <3>1. (k + 1) * PITCH <= x * PITCH <=> k + 1 <= x
      <4>1. k + 1 <= x => (k + 1) * PITCH <= x * PITCH
        BY <1>1, SizeFacts, MultiplyMonotone
      <4>2. x < k + 1 => x * PITCH + PITCH <= (k + 1) * PITCH
        <5>1. x < k + 1 => x * PITCH <= k * PITCH
          BY <1>1, SizeFacts, MultiplyMonotone
        <5>2. (k + 1) * PITCH = k * PITCH + PITCH /\ k * PITCH \in Nat /\ x * PITCH \in Nat
          BY <1>1, SizeFacts
        <5>. QED
          BY <5>1, <5>2, SizeFacts
      <4>3. (k + 1) * PITCH \in Nat /\ x * PITCH \in Nat
        BY <1>1, SizeFacts
      <4>. QED
        BY <1>1, <4>1, <4>2, <4>3, SizeFacts
    <3>2. k < x => k \in Columns
      BY <1>1, ColsFacts
    <3>. QED
      BY <1>1, <3>1, <3>2
  <2>2. places \subseteq Nat
    BY ColumnsFacts
  <2>. HIDE DEF places
  <2>. QED
    BY <1>1, <2>1, <2>2, FirstNaturals
<1>3. Cardinality(places) = x
  BY <1>1, <1>2, CountTo
<1>. HIDE DEF places
<1>4. s.row \div PITCH = s.offset_y /\ s.offset_y \in Rows /\ s.offset_y \in Nat
  BY <1>1, RowFacts
<1>. DEFINE text == [i \in 1..x |-> s.screen[s.offset_y][i - 1]]
<1>5. Prompt(s) = [row |-> s.offset_y, text |-> text]
  BY <1>3, <1>4 DEF Prompt, places
<1>6. Prompt(s) \in [row : Rows, text : Seq(Place)]
  BY <1>1, PromptType
<1>7. Len(text) = x /\ \A i \in 1..x : s.screen[s.offset_y][i - 1] = text[i]
  <2>1. text \in Seq(Place)
    BY <1>5, <1>6
  <2>. QED
    BY <1>1, <2>1
<1>. HIDE DEF text
<1>8. /\ t.prompt = [row |-> s.offset_y, text |-> text]
      /\ t.barrier = <<x, s.offset_y>>
      /\ t.offset_x = x /\ t.offset_y = s.offset_y /\ t.screen = s.screen
      /\ t.column = s.column
  BY <1>1, <1>5 DEF ConsoleSetBarrier, Sound, ConsoleRecord
<1>9. Sound(t)
  BY <1>1, BarrierSound
<1>. HIDE DEF t
<1>10. Straight(t)
  BY <1>8, <1>9 DEF Straight
<1>11. Kept(t)
  BY <1>1, <1>4, <1>5, <1>6, <1>7, <1>8 DEF Kept
<1>. QED
  BY <1>10, <1>11 DEF Orderly, t

LEMMA RemovedKeeps ==
  ASSUME NEW s, Straight(s)
  PROVE  /\ Orderly(ConsoleRemBarrier(s))
         /\ ConsoleRemBarrier(s).prompt = NONE /\ ConsoleRemBarrier(s).barrier = <<0, 0>>
<1>. DEFINE t == ConsoleRemBarrier(s)
<1>1. Sound(s) /\ Sound(t)
  BY BarrierSound DEF Straight
<1>2. /\ t.prompt = NONE /\ t.barrier = <<0, 0>>
      /\ t.offset_x = s.offset_x /\ t.screen = s.screen /\ t.column = s.column
  BY <1>1 DEF ConsoleRemBarrier, Sound, ConsoleRecord
<1>. HIDE DEF t
<1>3. Orderly(t)
  BY <1>1, <1>2 DEF Orderly, Straight, Kept
<1>. QED
  BY <1>2, <1>3 DEF t

LEMMA InitStraight == ConsoleInit => Straight(console)
<1>. SUFFICES ASSUME ConsoleInit PROVE Straight(console)
  OBVIOUS
<1>1. 0 \in 0..Cols /\ 0 = 0 * PITCH
  BY ColsFacts, SizeFacts
<1>2. Sound(console)
  BY InitSound
<1>3. /\ console.offset_x = 0 /\ console.column = 0
      /\ console.screen = [r \in Rows |-> [c \in Columns |-> BLANK]]
  BY DEF ConsoleInit
<1>. QED
  BY <1>1, <1>2, <1>3 DEF Straight

\* What putch does not change, and when it changes the colour.
LEMMA putchLeaves ==
  ASSUME NEW s, Sound(s), NEW ch \in Character
  PROVE  /\ putch(s, ch).barrier = s.barrier
         /\ putch(s, ch).color = IF ch \in Colour THEN ch ELSE s.color
<1>0. SPACE \in Shape /\ {NL, BS, TAB, CR} \cap Colour = {}
  BY CharAssumption DEF Shape
<1>1. CASE ch = NL
  <2>. DEFINE t == scroll(Newline(s))
  <2>1. t.barrier = s.barrier /\ t.color = s.color
    BY NextLine
  <2>2. putch(s, ch) = t
    BY <1>1, putchCases
  <2>. HIDE DEF t
  <2>. QED
    BY <1>0, <1>1, <2>1, <2>2
<1>2. CASE ch \in Colour
  <2>. DEFINE t == [s EXCEPT !.color = ch]
  <2>1. Sound(t) /\ t.color = ch /\ t.barrier = s.barrier
    BY <1>2, ColouredFacts
  <2>2. putch(s, ch) = scroll(t)
    BY <1>2, putchCases
  <2>. HIDE DEF t
  <2>. QED
    BY <1>2, <2>1, <2>2, NoScroll
<1>3. CASE ~AtMargin(s) /\ ch = BS
  <2>. DEFINE a == Back(s)
              b == Printed(a, SPACE)
              c == Back(b)
              t == IF s.column = 0 \/ Guarded(s) THEN s ELSE Erased(s)
  <2>1. Sound(a) /\ a.barrier = s.barrier /\ a.color = s.color
    BY BackFacts
  <2>. HIDE DEF a
  <2>2. Sound(b) /\ b.barrier = a.barrier /\ b.color = a.color
    BY <1>0, <2>1, PrintedFacts
  <2>. HIDE DEF b
  <2>3. Sound(c) /\ c.barrier = b.barrier /\ c.color = b.color
    BY <2>2, BackFacts
  <2>. HIDE DEF c
  <2>4. Erased(s) = c
    BY DEF Erased, a, b, c
  <2>5. Sound(t) /\ t.barrier = s.barrier /\ t.color = s.color
    BY <2>1, <2>2, <2>3, <2>4
  <2>6. putch(s, ch) = scroll(t)
    BY <1>3, putchCases
  <2>. HIDE DEF t
  <2>. QED
    BY <1>0, <1>3, <2>5, <2>6, NoScroll
<1>4. CASE ~AtMargin(s) /\ ch = TAB
  <2>. DEFINE a == Printed(s, SPACE)
              b == Printed(a, SPACE)
              c == Printed(b, SPACE)
              d == Printed(c, SPACE)
  <2>1. Sound(a) /\ a.barrier = s.barrier /\ a.color = s.color
    BY <1>0, PrintedFacts
  <2>. HIDE DEF a
  <2>2. Sound(b) /\ b.barrier = a.barrier /\ b.color = a.color
    BY <1>0, <2>1, PrintedFacts
  <2>. HIDE DEF b
  <2>3. Sound(c) /\ c.barrier = b.barrier /\ c.color = b.color
    BY <1>0, <2>2, PrintedFacts
  <2>. HIDE DEF c
  <2>4. Sound(d) /\ d.barrier = c.barrier /\ d.color = c.color
    BY <1>0, <2>3, PrintedFacts
  <2>. HIDE DEF d
  <2>5. Tabbed(s) = d
    BY DEF Tabbed, a, b, c, d
  <2>6. putch(s, ch) = scroll(Tabbed(s))
    BY <1>4, putchCases
  <2>. QED
    BY <1>0, <1>4, <2>1, <2>2, <2>3, <2>4, <2>5, <2>6, NoScroll
<1>5. CASE ~AtMargin(s) /\ ch = CR
  <2>. DEFINE t == [s EXCEPT !.column = 0, !.offset_x = 0]
  <2>1. Sound(t) /\ t.color = s.color /\ t.barrier = s.barrier
    BY ReturnFacts
  <2>2. putch(s, ch) = scroll(t)
    BY <1>5, putchCases
  <2>. HIDE DEF t
  <2>. QED
    BY <1>0, <1>5, <2>1, <2>2, NoScroll
<1>6. CASE ch \in Shape /\ ch \notin Colour /\ (AtMargin(s) \/ ch \notin {BS, TAB, CR})
  <2>. DEFINE t == Printed(s, ch)
  <2>1. t.barrier = s.barrier /\ t.color = s.color
    BY <1>6, PrintedFacts
  <2>2. putch(s, ch) = t
    BY <1>6, putchCases
  <2>. HIDE DEF t
  <2>. QED
    BY <1>6, <2>1, <2>2
<1>. QED
  BY <1>1, <1>2, <1>3, <1>4, <1>5, <1>6, CharacterCases

\* Until an arrow is pressed, and without a reader there is no prompt.
OrderlyInv ==
  ~moved =>
    /\ Orderly(console)
    /\ ~reading => console.prompt = NONE /\ console.barrier = <<0, 0>>

LEMMA OrderlyStep == Inv /\ OrderlyInv /\ [Next]_vars => OrderlyInv'
<1>. SUFFICES ASSUME Inv, OrderlyInv, [Next]_vars, ~moved'
              PROVE  /\ Orderly(console')
                     /\ ~reading' => console'.prompt = NONE /\ console'.barrier = <<0, 0>>
  BY DEF OrderlyInv
<1>1. Sound(console) /\ TypeOK
  BY DEF Inv, Sound, TypeOK, ConsoleType
<1>2. ASSUME NEW c \in LogChar, Log(c)
      PROVE  /\ Orderly(console')
             /\ ~reading' => console'.prompt = NONE /\ console'.barrier = <<0, 0>>
  <2>1. c \in Character
    BY TypingAssumption DEF Character
  <2>2. /\ Orderly(console) /\ console.prompt = NONE /\ console.barrier = <<0, 0>>
        /\ console' = putch(console, c)
    BY <1>2 DEF OrderlyInv, Log, Puts
  <2>3. Orderly(putch(console, c)) /\ putch(console, c).prompt = NONE
    BY <2>1, <2>2, putchKeeps
  <2>4. putch(console, c).barrier = <<0, 0>>
    BY <1>1, <2>1, <2>2, putchLeaves
  <2>. QED
    BY <2>2, <2>3, <2>4
<1>3. ASSUME NEW k \in KeyChar, Key(k)
      PROVE  /\ Orderly(console')
             /\ ~reading' => console'.prompt = NONE /\ console'.barrier = <<0, 0>>
  <2>. DEFINE c == Capital(k)
  <2>1. c \in Character
    BY <1>1, Keys
  <2>2. c # CR
    BY TypingAssumption, CharAssumption DEF Capital
  <2>3. /\ Orderly(console) /\ console' = putch(console, c) /\ reading' = reading
        /\ ~reading => console.prompt = NONE /\ console.barrier = <<0, 0>>
    BY <1>3 DEF OrderlyInv, Key, Puts
  <2>. HIDE DEF c
  <2>4. /\ Orderly(putch(console, c))
        /\ console.prompt = NONE => putch(console, c).prompt = NONE
    BY <2>1, <2>2, <2>3, putchKeeps
  <2>5. putch(console, c).barrier = console.barrier
    BY <1>1, <2>1, putchLeaves
  <2>. QED
    BY <2>3, <2>4, <2>5
<1>4. CASE CapsLock
  BY <1>4 DEF CapsLock, OrderlyInv
<1>5. CASE Arrow(1) \/ Arrow(-1)
  BY <1>5 DEF Arrow
<1>6. CASE SetBarrier
  <2>1. Straight(console) /\ console' = ConsoleSetBarrier(console) /\ reading'
    BY <1>6 DEF OrderlyInv, Orderly, SetBarrier
  <2>. QED
    BY <2>1, BarrierKeeps
<1>7. CASE RemBarrier
  <2>1. Straight(console) /\ console' = ConsoleRemBarrier(console)
    BY <1>7 DEF OrderlyInv, Orderly, RemBarrier
  <2>. QED
    BY <2>1, RemovedKeeps
<1>8. CASE UNCHANGED vars
  BY <1>8 DEF vars, OrderlyInv
<1>. QED
  BY <1>2, <1>3, <1>4, <1>5, <1>6, <1>7, <1>8 DEF Next

LEMMA OrderlyInvariant == Spec => []OrderlyInv
<1>1. Init => OrderlyInv
  <2>1. ConsoleInit => console.prompt = NONE /\ console.barrier = <<0, 0>>
    BY DEF ConsoleInit
  <2>2. ConsoleInit => Kept(console)
    BY <2>1 DEF Kept
  <2>. QED
    BY <2>1, <2>2, InitStraight DEF Init, OrderlyInv, Orderly
<1>. QED
  BY <1>1, OrderlyStep, Invariant, PTL DEF Spec

\* Whatever is typed, on whatever line of the page, the prompt of the reader
\* stays as it was printed while it moves up the screen.
THEOREM PromptIsSafe == Spec => []PromptStays
<1>1. OrderlyInv => PromptStays
  <2>. SUFFICES ASSUME OrderlyInv, ~moved, NEW i \in DOMAIN console.prompt.text
                PROVE  console.screen[console.prompt.row][i - 1] = console.prompt.text[i]
    BY DEF PromptStays
  <2>1. Kept(console)
    BY DEF OrderlyInv, Orderly
  <2>2. CASE console.prompt = NONE
    <3>1. DOMAIN console.prompt.text = {}
      BY <2>2 DEF NONE
    <3>. QED
      BY <3>1
  <2>3. CASE console.prompt # NONE
    <3>1. console.prompt.text \in Seq(Place)
      BY <2>1, <2>3 DEF Kept
    <3>2. DOMAIN console.prompt.text = 1..Len(console.prompt.text)
      BY <3>1
    <3>. QED
      BY <2>1, <2>3, <3>2 DEF Kept
  <2>. QED
    BY <2>2, <2>3
<1>. QED
  BY <1>1, OrderlyInvariant, PTL

-----------------------------------------------------------------------------
(* The page of the abstract terminal.                                      *)

Lined(pic) == [l \in 1..Lines |-> [c \in 1..Cols |-> pic[l - 1][c - 1]]]

Abs(s) == [page |-> Lined(s.screen), line |-> s.offset_y + 1, pos |-> s.offset_x]

LEMMA LinedType ==
  ASSUME NEW pic \in [Rows -> [Columns -> Place]]
  PROVE  Lined(pic) \in [1..Lines -> [1..Cols -> Place]]
<1>1. ASSUME NEW l \in 1..Lines, NEW c \in 1..Cols PROVE pic[l - 1][c - 1] \in Place
  <2>1. l - 1 \in Rows /\ c - 1 \in Columns
    BY LinesFacts, ColsFacts
  <2>. QED
    BY <2>1
<1>. QED
  BY <1>1 DEF Lined

PutAt(page, l, c, g) == [page EXCEPT ![l][c] = g]

Painting(old, new, y, x, g) ==
  \A r \in Rows, c \in Columns : new[r][c] = IF r = y /\ c = x THEN g ELSE old[r][c]

\* One place is changed in both.
LEMMA Painted ==
  ASSUME NEW old \in [Rows -> [Columns -> Place]],
         NEW new \in [Rows -> [Columns -> Place]],
         NEW y \in 0..(Lines - 1), NEW x \in 0..(Cols - 1), NEW g,
         Painting(old, new, y, x, g)
  PROVE  Lined(new) = PutAt(Lined(old), y + 1, x + 1, g)
<1>. DEFINE P == Lined(old)
            Q == [P EXCEPT ![y + 1][x + 1] = g]
<1>1. P \in [1..Lines -> [1..Cols -> Place]] /\ Lined(new) \in [1..Lines -> [1..Cols -> Place]]
  BY LinedType
<1>2. /\ \A l \in 1..Lines, c \in 1..Cols : P[l][c] = old[l - 1][c - 1]
      /\ \A l \in 1..Lines, c \in 1..Cols : Lined(new)[l][c] = new[l - 1][c - 1]
  BY DEF Lined
<1>3. /\ y \in Int /\ x \in Int /\ y + 1 \in 1..Lines /\ x + 1 \in 1..Cols
  BY LinesFacts, ColsFacts
<1>. HIDE DEF P
<1>4. ASSUME NEW l \in 1..Lines, NEW c \in 1..Cols
      PROVE  Q[l][c] = IF l = y + 1 /\ c = x + 1 THEN g ELSE P[l][c]
  BY <1>1, <1>3
<1>5. ASSUME NEW l \in 1..Lines, NEW c \in 1..Cols
      PROVE  Lined(new)[l][c] = Q[l][c]
  <2>1. /\ l - 1 \in Rows /\ c - 1 \in Columns /\ l \in Int /\ c \in Int
        /\ (l - 1 = y <=> l = y + 1) /\ (c - 1 = x <=> c = x + 1)
    BY <1>3, LinesFacts, ColsFacts
  <2>2. new[l - 1][c - 1] = IF l - 1 = y /\ c - 1 = x THEN g ELSE old[l - 1][c - 1]
    BY <2>1 DEF Painting
  <2>3. Lined(new)[l][c] = new[l - 1][c - 1] /\ P[l][c] = old[l - 1][c - 1]
    BY <1>2
  <2>. HIDE DEF Q
  <2>. QED
    BY <1>4, <2>1, <2>2, <2>3
<1>6. /\ DOMAIN Q = 1..Lines /\ Q = [l \in 1..Lines |-> Q[l]]
      /\ \A l \in 1..Lines : DOMAIN Q[l] = 1..Cols /\ Q[l] = [c \in 1..Cols |-> Q[l][c]]
  BY <1>1, <1>3
<1>7. /\ Lined(new) = [l \in 1..Lines |-> Lined(new)[l]]
      /\ \A l \in 1..Lines : Lined(new)[l] = [c \in 1..Cols |-> Lined(new)[l][c]]
  BY <1>1
<1>. HIDE DEF Q
<1>8. ASSUME NEW l \in 1..Lines PROVE Lined(new)[l] = Q[l]
  <2>1. \A c \in 1..Cols : Lined(new)[l][c] = Q[l][c]
    BY <1>5
  <2>2. Lined(new)[l] = [c \in 1..Cols |-> Lined(new)[l][c]] /\ Q[l] = [c \in 1..Cols |-> Q[l][c]]
    BY <1>6, <1>7
  <2>. QED
    BY <2>1, <2>2
<1>9. Lined(new) = Q
  BY <1>6, <1>7, <1>8
<1>. QED
  BY <1>9 DEF Q, P, PutAt

\* The last line is left: every line moves up and an empty one comes in below.
LEMMA LinesUp ==
  ASSUME NEW pic \in [Rows -> [Columns -> Place]],
         \A r \in Rows, c \in Columns : r >= Lines => pic[r][c] = BLANK
  PROVE  Lined(MovedUp(pic)) = Append(Tail(Lined(pic)), User!Empty)
<1>. DEFINE P == Lined(pic)
            E == [c \in 1..Cols |-> BLANK]
            Q == Append(Tail(P), E)
            M == Lined(MovedUp(pic))
            Line == [1..Cols -> Place]
<1>1. User!Empty = E
  BY DEF User!Empty, User!BLANK, Cols, BLANK
<1>2. P \in [1..Lines -> Line] /\ M \in [1..Lines -> Line] /\ E \in Line
  BY LinedType, MovedUpType DEF Place
<1>3. Lines \in Nat /\ Lines > 0
  BY LinesFacts
<1>4. P \in Seq(Line) /\ Len(P) = Lines
  <2>. HIDE DEF P, Line
  <2>. QED
    BY <1>2, <1>3
<1>5. /\ \A l \in 1..Lines, c \in 1..Cols : P[l][c] = pic[l - 1][c - 1]
      /\ \A l \in 1..Lines, c \in 1..Cols : M[l][c] = MovedUp(pic)[l - 1][c - 1]
      /\ \A c \in 1..Cols : E[c] = BLANK
  BY DEF Lined
<1>6. ASSUME NEW l \in 1..Lines, NEW c \in 1..Cols
      PROVE  M[l][c] = IF l < Lines THEN P[l + 1][c] ELSE E[c]
  <2>1. l - 1 \in Rows /\ c - 1 \in Columns /\ l \in Rows /\ (l - 1) + 1 = l /\ l \in Nat
    BY <1>3, LinesFacts, ColsFacts
  <2>2. MovedUp(pic)[l - 1][c - 1] = pic[l][c - 1]
    BY <2>1, MovedUpAt
  <2>3. M[l][c] = pic[l][c - 1]
    BY <1>5, <2>2
  <2>4. CASE l < Lines
    <3>1. l + 1 \in 1..Lines /\ (l + 1) - 1 = l
      BY <1>3, <2>1, <2>4
    <3>2. P[l + 1][c] = pic[l][c - 1]
      BY <1>5, <3>1
    <3>. HIDE DEF M, P, E
    <3>. QED
      BY <2>3, <2>4, <3>2
  <2>5. CASE ~(l < Lines)
    <3>1. l >= Lines
      BY <1>3, <2>1, <2>5
    <3>2. pic[l][c - 1] = BLANK
      BY <2>1, <3>1
    <3>. HIDE DEF M, P
    <3>. QED
      BY <2>3, <2>5, <3>2
  <2>. QED
    BY <2>4, <2>5
<1>. HIDE DEF P, M, E, Line
<1>7. Tail(P) \in Seq(Line) /\ Len(Tail(P)) = Lines - 1
      /\ \A l \in 1..(Lines - 1) : Tail(P)[l] = P[l + 1]
  <2>1. P # <<>>
    BY <1>3, <1>4
  <2>. QED
    BY <1>3, <1>4, <2>1, HeadTailProperties
<1>8. /\ Q \in Seq(Line) /\ Len(Q) = Lines
      /\ \A l \in 1..(Lines - 1) : Q[l] = P[l + 1]
      /\ Q[Lines] = E
  BY <1>2, <1>3, <1>7, AppendProperties
<1>. HIDE DEF Q
<1>9. ASSUME NEW l \in 1..Lines PROVE M[l] = Q[l]
  <2>1. M[l] = [c \in 1..Cols |-> M[l][c]]
    BY <1>2 DEF Line
  <2>2. CASE l < Lines
    <3>1. l \in 1..(Lines - 1) /\ l + 1 \in 1..Lines
      BY <1>3, <2>2
    <3>2. Q[l] = P[l + 1] /\ P[l + 1] = [c \in 1..Cols |-> P[l + 1][c]]
      BY <1>2, <1>8, <3>1 DEF Line
    <3>3. \A c \in 1..Cols : M[l][c] = P[l + 1][c]
      BY <1>6, <2>2
    <3>. QED
      BY <2>1, <3>2, <3>3
  <2>3. CASE ~(l < Lines)
    <3>1. l = Lines
      BY <1>3, <2>3
    <3>2. Q[l] = E /\ E = [c \in 1..Cols |-> E[c]]
      BY <1>2, <1>8, <3>1 DEF Line
    <3>3. \A c \in 1..Cols : M[l][c] = E[c]
      BY <1>6, <2>3
    <3>. QED
      BY <2>1, <3>2, <3>3
  <2>. QED
    BY <2>2, <2>3
<1>10. M = [l \in 1..Lines |-> M[l]] /\ Q = [l \in 1..Lines |-> Q[l]]
  BY <1>2, <1>8
<1>11. M = Q
  BY <1>9, <1>10
<1>. QED
  BY <1>1, <1>11 DEF M, Q, P

LEMMA ScreenType ==
  ASSUME NEW s, Straight(s)
  PROVE  /\ s.screen \in [Rows -> [Columns -> Place]]
         /\ s.offset_y \in 0..(Lines - 1) /\ s.offset_y \in Nat
         /\ s.offset_x \in 0..Cols /\ s.offset_x \in Nat
         /\ \A r \in Rows, c \in Columns : r >= Lines => s.screen[r][c] = BLANK
BY LinesFacts, ColsFacts DEF Straight, Sound, ConsoleRecord

LEMMA DownIs ==
  ASSUME NEW s, Straight(s)
  PROVE  Abs(scroll(Newline(s))) = User!Down(Abs(s))
<1>. DEFINE t == scroll(Newline(s))
            bottom == s.offset_y = Lines - 1
            y == s.offset_y
            a == Abs(s)
<1>1. /\ s.screen \in [Rows -> [Columns -> Place]]
      /\ y \in 0..(Lines - 1) /\ y \in Nat
      /\ \A r \in Rows, c \in Columns : r >= Lines => s.screen[r][c] = BLANK
  BY ScreenType
<1>2. /\ t.offset_x = 0
      /\ t.offset_y = IF bottom THEN y ELSE y + 1
      /\ t.screen = IF bottom THEN MovedUp(s.screen) ELSE s.screen
  <2>1. Sound(s)
    BY DEF Straight
  <2>. QED
    BY <2>1, NextLine
<1>. HIDE DEF t
<1>3. a.line = y + 1 /\ a.page = Lined(s.screen) /\ a = [page |-> a.page, line |-> a.line, pos |-> a.pos]
  BY DEF Abs
<1>4. a.line < Lines <=> ~bottom
  BY <1>1, <1>3, LinesFacts
<1>5. CASE ~bottom
  <2>1. User!Down(a) = [a EXCEPT !.line = a.line + 1, !.pos = 0]
    BY <1>4, <1>5 DEF User!Down, Lines
  <2>2. User!Down(a) = [page |-> Lined(s.screen), line |-> (y + 1) + 1, pos |-> 0]
    BY <2>1 DEF Abs
  <2>3. Abs(t) = [page |-> Lined(s.screen), line |-> (y + 1) + 1, pos |-> 0]
    BY <1>2, <1>5 DEF Abs
  <2>. QED
    BY <2>2, <2>3 DEF t
<1>6. CASE bottom
  <2>1. User!Down(a) = [a EXCEPT !.page = Append(Tail(a.page), User!Empty), !.pos = 0]
    BY <1>4, <1>6 DEF User!Down, Lines
  <2>2. Append(Tail(a.page), User!Empty) = Lined(MovedUp(s.screen))
    BY <1>1, <1>3, LinesUp
  <2>3. User!Down(a) = [page |-> Lined(MovedUp(s.screen)), line |-> y + 1, pos |-> 0]
    BY <2>1, <2>2 DEF Abs
  <2>4. Abs(t) = [page |-> Lined(MovedUp(s.screen)), line |-> y + 1, pos |-> 0]
    BY <1>2, <1>6 DEF Abs
  <2>. QED
    BY <2>3, <2>4 DEF t
<1>. QED
  BY <1>5, <1>6

LEMMA ShowIs ==
  ASSUME NEW s, Straight(s), NEW ch \in Shape
  PROVE  Abs(Printed(s, ch)) = User!Show(Abs(s), Glyph(ch, s.color))
<1>. DEFINE m == AtText(s)
            t == Printed(s, ch)
            g == Glyph(ch, s.color)
            a == Abs(m)
            b == IF Abs(s).pos = Cols THEN User!Down(Abs(s)) ELSE Abs(s)
<1>1. Straight(m) /\ m.offset_x \in 0..(Cols - 1)
  BY TextAt
<1>2. a = b
  <2>1. Abs(s).pos = s.offset_x
    BY DEF Abs
  <2>2. CASE s.offset_x = Cols
    <3>1. m = scroll(Newline(s))
      BY <2>2, TextAt
    <3>. QED
      BY <2>1, <2>2, <3>1, DownIs
  <2>3. CASE s.offset_x # Cols
    <3>1. m = s
      BY SMTT(30), <2>3, TextAt
    <3>. QED
      BY <2>1, <2>3, <3>1
  <2>. QED
    BY <2>2, <2>3
<1>3. User!Show(Abs(s), g) = [b EXCEPT !.page[b.line][b.pos + 1] = g, !.pos = @ + 1]
  BY DEF User!Show, Cols
<1>4. /\ Straight(t) /\ t.offset_x = m.offset_x + 1 /\ t.offset_y = m.offset_y
      /\ \A r \in Rows, c \in Columns :
           t.screen[r][c] = IF r = m.offset_y /\ c = m.offset_x THEN g ELSE m.screen[r][c]
  BY PrintedAt
<1>. HIDE DEF m, t, b, g
<1>5. User!Show(Abs(s), g) = [a EXCEPT !.page[a.line][a.pos + 1] = g, !.pos = @ + 1]
  BY <1>2, <1>3
<1>6. Lined(t.screen) = [Lined(m.screen) EXCEPT ![m.offset_y + 1][m.offset_x + 1] = g]
  <2>. DEFINE new == t.screen
              old == m.screen
              y == m.offset_y
              x == m.offset_x
  <2>1. /\ new \in [Rows -> [Columns -> Place]] /\ old \in [Rows -> [Columns -> Place]]
        /\ y \in 0..(Lines - 1) /\ x \in 0..(Cols - 1)
        /\ Painting(old, new, y, x, g)
    BY <1>1, <1>4, ScreenType DEF Painting
  <2>. HIDE DEF new, old, y, x
  <2>2. Lined(new) = PutAt(Lined(old), y + 1, x + 1, g)
    BY <2>1, Painted
  <2>. QED
    BY <2>2 DEF PutAt, new, old, y, x
<1>7. /\ a = [page |-> Lined(m.screen), line |-> m.offset_y + 1, pos |-> m.offset_x]
      /\ a.page = Lined(m.screen) /\ a.line = m.offset_y + 1 /\ a.pos = m.offset_x
  BY DEF Abs
<1>8. User!Show(Abs(s), g) =
        [page |-> [Lined(m.screen) EXCEPT ![m.offset_y + 1][m.offset_x + 1] = g],
         line |-> m.offset_y + 1, pos |-> m.offset_x + 1]
  BY <1>5, <1>7
<1>9. Abs(t) = [page |-> Lined(t.screen), line |-> m.offset_y + 1, pos |-> m.offset_x + 1]
  BY <1>4 DEF Abs
<1>10. Abs(t) = User!Show(Abs(s), g)
  BY <1>6, <1>8, <1>9
<1>. QED
  BY <1>10 DEF t, g

LEMMA ErasedIs ==
  ASSUME NEW s, Orderly(s), s.offset_x > 0, s.offset_x # Cols, ~Guarded(s)
  PROVE  Abs(Erased(s)) = User!Erased(Abs(s))
<1>. DEFINE t == Erased(s)
            a == Abs(s)
            x == s.offset_x
            y == s.offset_y
<1>1. /\ Orderly(t) /\ t.offset_x = x - 1 /\ t.offset_y = y
      /\ \A r \in Rows, c \in Columns :
           t.screen[r][c] = IF r = y /\ c = x - 1 THEN BLANK ELSE s.screen[r][c]
  BY KeptErased
<1>. HIDE DEF t
<1>2. Straight(s) /\ Straight(t)
  BY <1>1 DEF Orderly
<1>3. x - 1 \in 0..(Cols - 1) /\ (x - 1) + 1 = x
  BY <1>2, ScreenType, ColsFacts
<1>4. Lined(t.screen) = [Lined(s.screen) EXCEPT ![y + 1][(x - 1) + 1] = BLANK]
  <2>. DEFINE new == t.screen
              old == s.screen
              z == x - 1
  <2>1. /\ new \in [Rows -> [Columns -> Place]] /\ old \in [Rows -> [Columns -> Place]]
        /\ y \in 0..(Lines - 1) /\ z \in 0..(Cols - 1)
        /\ Painting(old, new, y, z, BLANK)
    BY <1>1, <1>2, <1>3, ScreenType DEF Painting
  <2>. HIDE DEF new, old, y, z
  <2>2. Lined(new) = PutAt(Lined(old), y + 1, z + 1, BLANK)
    BY <2>1, Painted
  <2>. QED
    BY <2>2 DEF PutAt, new, old, z
<1>5. /\ a = [page |-> Lined(s.screen), line |-> y + 1, pos |-> x]
      /\ a.page = Lined(s.screen) /\ a.line = y + 1 /\ a.pos = x
  BY DEF Abs
<1>6. User!Erased(a) = [a EXCEPT !.page[a.line][a.pos] = BLANK, !.pos = @ - 1]
  BY DEF User!Erased, User!BLANK, BLANK
<1>7. User!Erased(a) = [page |-> [Lined(s.screen) EXCEPT ![y + 1][x] = BLANK],
                        line |-> y + 1, pos |-> x - 1]
  BY <1>5, <1>6
<1>8. Abs(t) = [page |-> Lined(t.screen), line |-> y + 1, pos |-> x - 1]
  BY <1>1 DEF Abs
<1>. QED
  BY <1>3, <1>4, <1>7, <1>8 DEF t

LEMMA TabbedIs ==
  ASSUME NEW s, Straight(s)
  PROVE  Abs(Tabbed(s)) =
           User!Show(User!Show(User!Show(User!Show(Abs(s), BLANK), BLANK), BLANK), BLANK)
<1>. DEFINE a == Printed(s, SPACE)
            b == Printed(a, SPACE)
            c == Printed(b, SPACE)
            d == Printed(c, SPACE)
<1>1. SPACE \in Shape /\ \A colour : Glyph(SPACE, colour) = BLANK
  BY DEF Shape, Glyph
<1>2. Straight(a) /\ Abs(a) = User!Show(Abs(s), BLANK)
  BY <1>1, PrintedAt, ShowIs
<1>. HIDE DEF a
<1>3. Straight(b) /\ Abs(b) = User!Show(Abs(a), BLANK)
  BY <1>1, <1>2, PrintedAt, ShowIs
<1>. HIDE DEF b
<1>4. Straight(c) /\ Abs(c) = User!Show(Abs(b), BLANK)
  BY <1>1, <1>3, PrintedAt, ShowIs
<1>. HIDE DEF c
<1>5. Abs(d) = User!Show(Abs(c), BLANK)
  BY <1>1, <1>4, ShowIs
<1>. HIDE DEF d
<1>6. Tabbed(s) = d
  BY DEF Tabbed, a, b, c, d
<1>. QED
  BY <1>2, <1>3, <1>4, <1>5, <1>6

LEMMA StateIs ==
  ASSUME Sound(console)
  PROVE  User!State = Abs(console)
<1>1. console.row \div PITCH = console.offset_y
  BY RowFacts
<1>. QED
  BY <1>1 DEF User!State, Page, Abs, Lined, Lines, Cols

LEMMA AfterCases ==
  ASSUME NEW ch \in Character
  PROVE  LET S == User!State
             text == console.offset_x < Cols
         IN  /\ ch = NL => User!After(ch) = {User!Down(S)}
             /\ ch \in Colour => User!After(ch) = {S}
             /\ text /\ ch = BS =>
                  User!After(ch) = (IF console.offset_x > 0 THEN {User!Erased(S)} ELSE {S})
                                     \cup (IF reading THEN {S} ELSE {})
             /\ text /\ ch = TAB =>
                  User!After(ch) =
                    {User!Show(User!Show(User!Show(User!Show(S, BLANK), BLANK), BLANK), BLANK)}
             /\ text /\ ch = CR => User!After(ch) = {[S EXCEPT !.pos = 0]}
             /\ ch \in Shape /\ ch \notin Colour /\ (~text \/ ch \notin {BS, TAB, CR}) =>
                  User!After(ch) = {User!Show(S, Glyph(ch, console.color))}
<1>. DEFINE S == User!State
            text == console.offset_x < Cols
<1>1. /\ NL \notin {BS, TAB, CR} /\ BS \notin {TAB, CR} /\ TAB # CR
      /\ NL \notin Colour /\ BS \notin Colour /\ TAB \notin Colour /\ CR \notin Colour
      /\ NL \notin Letter /\ NL # SPACE
  BY CharAssumption
<1>2. text <=> console.offset_x < Cardinality(TextColumns)
  BY DEF Cols
<1>. HIDE DEF S, text
<1>3. ch = NL => User!After(ch) = {User!Down(S)}
  BY <1>1 DEF User!After, S
<1>4. ch \in Colour => User!After(ch) = {S}
  BY <1>1 DEF User!After, S
<1>5. text /\ ch = BS =>
        User!After(ch) = (IF console.offset_x > 0 THEN {User!Erased(S)} ELSE {S})
                           \cup (IF reading THEN {S} ELSE {})
  BY <1>1, <1>2 DEF User!After, S
<1>6. text /\ ch = TAB =>
        User!After(ch) =
          {User!Show(User!Show(User!Show(User!Show(S, BLANK), BLANK), BLANK), BLANK)}
  BY <1>1, <1>2 DEF User!After, S, User!BLANK, BLANK
<1>7. text /\ ch = CR => User!After(ch) = {[S EXCEPT !.pos = 0]}
  BY <1>1, <1>2 DEF User!After, S
<1>8. ch \in Shape /\ ch \notin Colour /\ (~text \/ ch \notin {BS, TAB, CR}) =>
        User!After(ch) = {User!Show(S, Glyph(ch, console.color))}
  <2>. SUFFICES ASSUME ch \in Shape, ch \notin Colour, ~text \/ ch \notin {BS, TAB, CR}
                PROVE  User!After(ch) = {User!Show(S, Glyph(ch, console.color))}
    OBVIOUS
  <2>1. ch # NL
    BY <1>1 DEF Shape
  <2>2. User!Glyph(ch, console.color) = Glyph(ch, console.color)
    BY DEF User!Glyph, Glyph, User!BLANK, BLANK
  <2>. QED
    BY <1>2, <2>1, <2>2 DEF User!After, S
<1>. QED
  BY <1>3, <1>4, <1>5, <1>6, <1>7, <1>8 DEF S, text

\* What putch leaves is one of the pages the terminal allows.
LEMMA putchIs ==
  ASSUME Orderly(console), Guarded(console) => reading, NEW ch \in Character
  PROVE  Abs(putch(console, ch)) \in User!After(ch)
<1>. DEFINE s == console
            S == User!State
            text == s.offset_x < Cols
            After == User!After(ch)
<1>0. /\ Straight(s) /\ Sound(s) /\ S = Abs(s)
      /\ text <=> ~AtMargin(s)
      /\ s.offset_x \in Nat /\ (s.offset_x = Cols <=> ~text)
  <2>1. Straight(s) /\ Sound(s)
    BY DEF Orderly, Straight
  <2>2. s.offset_x \in Nat /\ s.offset_x <= Cols /\ Cols \in Nat
    BY <2>1, ScreenType, ColsFacts
  <2>. QED
    BY <2>1, <2>2, MarginAt, StateIs
<1>. HIDE DEF S
<1>1. CASE ch = NL
  <2>1. putch(s, ch) = scroll(Newline(s))
    BY <1>1, putchCases
  <2>2. After = {User!Down(S)}
    BY <1>1, AfterCases DEF S
  <2>. QED
    BY <1>0, <2>1, <2>2, DownIs
<1>2. CASE ch \in Colour
  <2>. DEFINE t == [s EXCEPT !.color = ch]
  <2>1. /\ Sound(t) /\ t.offset_x = s.offset_x
        /\ t.offset_y = s.offset_y /\ t.screen = s.screen
    BY <1>0, <1>2, ColouredFacts
  <2>2. putch(s, ch) = scroll(t)
    BY <1>2, putchCases
  <2>. HIDE DEF t
  <2>3. putch(s, ch) = t
    BY <2>1, <2>2, NoScroll
  <2>4. After = {S}
    BY <1>2, AfterCases DEF S
  <2>. QED
    BY <1>0, <2>1, <2>3, <2>4 DEF Abs
<1>3. CASE text /\ ch = BS
  <2>1. putch(s, ch) = scroll(IF s.column = 0 \/ Guarded(s) THEN s ELSE Erased(s))
    BY <1>0, <1>3, putchCases
  <2>2. After = (IF s.offset_x > 0 THEN {User!Erased(S)} ELSE {S})
                  \cup (IF reading THEN {S} ELSE {})
    BY <1>3, AfterCases DEF S
  <2>3. s.column = 0 <=> ~(s.offset_x > 0)
    <3>1. s.column = s.offset_x * PITCH /\ PITCH \in Nat /\ PITCH > 0
      BY <1>0, SizeFacts DEF Straight
    <3>2. s.offset_x > 0 => 1 * PITCH <= s.offset_x * PITCH
      BY <1>0, <3>1, MultiplyMonotone
    <3>3. s.offset_x = 0 => s.offset_x * PITCH = 0
      BY <3>1
    <3>4. s.offset_x * PITCH \in Nat /\ 1 * PITCH = PITCH
      BY <1>0, <3>1
    <3>. QED
      BY <1>0, <3>1, <3>2, <3>3, <3>4
  <2>4. CASE s.column = 0 \/ Guarded(s)
    <3>1. putch(s, ch) = s
      BY <1>0, <2>1, <2>4, NoScroll
    <3>. QED
      BY <1>0, <2>2, <2>3, <2>4, <3>1
  <2>5. CASE ~(s.column = 0 \/ Guarded(s))
    <3>1. Abs(Erased(s)) = User!Erased(Abs(s)) /\ Orderly(Erased(s))
      BY <1>0, <1>3, <2>3, <2>5, ErasedIs, KeptErased
    <3>2. putch(s, ch) = Erased(s)
      BY <2>1, <2>5, <3>1, NoScroll DEF Orderly, Straight
    <3>. QED
      BY <1>0, <2>2, <2>3, <2>5, <3>1, <3>2
  <2>. QED
    BY <2>4, <2>5
<1>4. CASE text /\ ch = TAB
  <2>1. putch(s, ch) = scroll(Tabbed(s))
    BY <1>0, <1>4, putchCases
  <2>2. scroll(Tabbed(s)) = Tabbed(s)
    BY KeptTabbed, NoScroll DEF Orderly, Straight
  <2>3. After = {User!Show(User!Show(User!Show(User!Show(S, BLANK), BLANK), BLANK), BLANK)}
    BY <1>4, AfterCases DEF S
  <2>. QED
    BY <1>0, <2>1, <2>2, <2>3, TabbedIs
<1>5. CASE text /\ ch = CR
  <2>. DEFINE t == [s EXCEPT !.column = 0, !.offset_x = 0]
  <2>1. /\ Sound(t) /\ t.offset_x = 0
        /\ t.offset_y = s.offset_y /\ t.screen = s.screen
    BY <1>0, ReturnFacts
  <2>2. putch(s, ch) = scroll(t)
    BY <1>0, <1>5, putchCases
  <2>. HIDE DEF t
  <2>3. putch(s, ch) = t
    BY <2>1, <2>2, NoScroll
  <2>4. After = {[S EXCEPT !.pos = 0]}
    BY <1>5, AfterCases DEF S
  <2>. QED
    BY <1>0, <2>1, <2>3, <2>4 DEF Abs
<1>6. CASE ch \in Shape /\ ch \notin Colour /\ (~text \/ ch \notin {BS, TAB, CR})
  <2>1. putch(s, ch) = Printed(s, ch)
    BY <1>0, <1>6, putchCases
  <2>2. After = {User!Show(S, Glyph(ch, s.color))}
    BY <1>6, AfterCases DEF S
  <2>3. Abs(Printed(s, ch)) = User!Show(Abs(s), Glyph(ch, s.color))
    BY <1>0, <1>6, ShowIs
  <2>. QED
    BY <1>0, <2>1, <2>2, <2>3
<1>7. \/ ch = NL \/ ch \in Colour
      \/ text /\ ch \in {BS, TAB, CR}
      \/ ch \in Shape /\ ch \notin Colour /\ (~text \/ ch \notin {BS, TAB, CR})
  BY DEF Character, Shape
<1>. HIDE DEF text, After
<1>. QED
  BY <1>1, <1>2, <1>3, <1>4, <1>5, <1>6, <1>7 DEF After

\* A call of putch is a request of the terminal.
LEMMA PutsStep ==
  ASSUME Inv, Inv', OrderlyInv, ~moved, NEW ch \in Character, Puts(ch), UNCHANGED reading
  PROVE  User!Put
<1>1. /\ Sound(console) /\ Sound(console') /\ Orderly(console)
      /\ console' = putch(console, ch) /\ last' = <<"put", ch>>
  BY DEF Inv, OrderlyInv, Puts
<1>2. Guarded(console) => reading
  BY DEF OrderlyInv, Guarded
<1>. DEFINE a == Abs(putch(console, ch))
<1>3. a \in User!After(ch)
  BY <1>1, <1>2, putchIs
<1>. HIDE DEF a
<1>4. /\ last'[1] = "put" /\ last'[2] = ch
  BY <1>1
<1>5. Page' = a.page /\ (console.row \div PITCH + 1)' = a.line /\ console'.offset_x = a.pos
  <2>1. console'.row \div PITCH = console'.offset_y
    BY <1>1, RowFacts
  <2>. QED
    BY <1>1, <2>1 DEF a, Page, Abs, Lined, Lines, Cols
<1>6. console'.color = IF ch \in Colour THEN ch ELSE console.color
  BY <1>1, putchLeaves
<1>. QED
  BY <1>3, <1>4, <1>5, <1>6 DEF User!Put

LEMMA BarrierStep ==
  ASSUME Inv, Inv', ~moved, SetBarrier \/ RemBarrier
  PROVE  User!Guard
<1>. DEFINE set == ConsoleSetBarrier(console)
            rem == ConsoleRemBarrier(console)
<1>1. console \in ConsoleRecord
  BY DEF Inv, Sound
<1>2. /\ set.screen = console.screen /\ set.row = console.row
      /\ set.offset_x = console.offset_x /\ set.color = console.color
  BY <1>1 DEF ConsoleSetBarrier, ConsoleRecord
<1>3. /\ rem.screen = console.screen /\ rem.row = console.row
      /\ rem.offset_x = console.offset_x /\ rem.color = console.color
  BY <1>1 DEF ConsoleRemBarrier, ConsoleRecord
<1>. HIDE DEF set, rem
<1>4. \/ console' = set /\ last' = <<"set">> /\ reading' = TRUE
      \/ console' = rem /\ last' = <<"remove">> /\ reading' = FALSE
  BY DEF SetBarrier, RemBarrier, set, rem
<1>5. /\ console'.screen = console.screen /\ console'.row = console.row
      /\ console'.offset_x = console.offset_x /\ console'.color = console.color
  BY <1>2, <1>3, <1>4
<1>6. /\ last' \in {<<"set">>, <<"remove">>}
      /\ reading' = (last' = <<"set">>)
  <2>1. <<"set">> # <<"remove">>
    OBVIOUS
  <2>. QED
    BY <1>4, <2>1
<1>7. Page' = Page
  BY <1>5 DEF Page
<1>. QED
  BY <1>5, <1>6, <1>7 DEF User!Guard

LEMMA TerminalStep ==
  Inv /\ Inv' /\ OrderlyInv /\ [Next]_vars => [User!Next]_(User!vars)
<1>. SUFFICES ASSUME Inv, Inv', OrderlyInv, [Next]_vars
              PROVE  User!Next \/ UNCHANGED User!vars
  OBVIOUS
<1>0. TypeOK
  BY DEF Inv, Sound, TypeOK, ConsoleType
<1>1. ASSUME NEW ch \in Character, Puts(ch), UNCHANGED reading
      PROVE  User!Next
  <2>1. CASE moved
    BY <1>1, <2>1 DEF Puts, User!Next
  <2>2. CASE ~moved
    <3>1. User!Put
      BY <1>1, <2>2, PutsStep
    <3>. QED
      BY <1>1, <2>2, <3>1 DEF Puts, User!Next
  <2>. QED
    BY <2>1, <2>2
<1>2. ASSUME NEW c \in LogChar, Log(c) PROVE User!Next
  <2>1. c \in Character
    BY TypingAssumption DEF Character
  <2>. QED
    BY <1>1, <1>2, <2>1 DEF Log
<1>3. ASSUME NEW k \in KeyChar, Key(k) PROVE User!Next
  BY <1>0, <1>1, <1>3, Keys DEF Key
<1>4. CASE CapsLock \/ UNCHANGED vars
  BY <1>4 DEF CapsLock, vars, User!vars, Page
<1>5. CASE Arrow(1) \/ Arrow(-1)
  BY <1>5 DEF Arrow, User!Next
<1>6. CASE SetBarrier \/ RemBarrier
  <2>1. moved' = moved
    BY <1>6 DEF SetBarrier, RemBarrier
  <2>2. CASE moved
    BY <2>1, <2>2 DEF User!Next
  <2>3. CASE ~moved
    <3>1. User!Guard
      BY <1>6, <2>3, BarrierStep
    <3>. QED
      BY <2>1, <2>3, <3>1 DEF User!Next
  <2>. QED
    BY <2>2, <2>3
<1>. QED
  BY <1>2, <1>3, <1>4, <1>5, <1>6 DEF Next

LEMMA TerminalInit == Init => User!Init
<1>. SUFFICES ASSUME Init PROVE User!Init
  OBVIOUS
<1>1. /\ console.row = 0 /\ console.offset_x = 0 /\ console.color = WHITE
      /\ console.screen = [r \in Rows |-> [c \in Columns |-> BLANK]]
  BY DEF Init, ConsoleInit
<1>2. 0 \div PITCH + 1 = 1
  BY SizeFacts
<1>3. Page = [l \in 1..Cardinality(TextRows) |-> User!Empty]
  <2>1. ASSUME NEW l \in 1..Lines, NEW c \in 1..Cols
        PROVE  console.screen[l - 1][c - 1] = BLANK
    <3>1. l - 1 \in Rows /\ c - 1 \in Columns
      BY LinesFacts, ColsFacts
    <3>. QED
      BY <1>1, <3>1
  <2>2. User!Empty = [c \in 1..Cols |-> BLANK]
    BY DEF User!Empty, User!BLANK, BLANK, Cols
  <2>3. Page = [l \in 1..Lines |-> [c \in 1..Cols |-> console.screen[l - 1][c - 1]]]
    BY DEF Page, Lines, Cols
  <2>4. Page = [l \in 1..Lines |-> User!Empty]
    BY <2>1, <2>2, <2>3
  <2>. QED
    BY <2>4 DEF Lines
<1>. QED
  BY <1>1, <1>2, <1>3 DEF User!Init, Init

\* The console is the terminal its users count on: wherever the two cursors, the
\* margin, the scroll and the barrier stand, every character does to the page
\* what Terminal says, until an arrow moves the cursor.
THEOREM ConsoleIsTerminal == Spec => RefinesTerminal
<1>. QED
  BY Invariant, OrderlyInvariant, TerminalInit, TerminalStep, PTL
     DEF Spec, RefinesTerminal, User!Spec

-----------------------------------------------------------------------------
(* The handler's putch, from wherever the interrupted thread has left the  *)
(* cursor.                                                                 *)

\* The first pixels of the places, or of the lines, up to the n-th.
Steps(n) == {k * PITCH : k \in 0..n}

\* Where the row is while the page moves up.
Last == {(Lines - 1) * PITCH, Lines * PITCH}

Loose(s) ==
  /\ s \in ConsoleRecord
  /\ s.row \in Steps(Lines)

\* A row of the page stays one, and the last one and the one below do, too.
RowKept(s, t) ==
  /\ s.row \in Steps(Lines - 1) => t.row \in Steps(Lines - 1)
  /\ s.row \in Last => t.row \in Last

LEMMA RowKeptTwice ==
  ASSUME NEW s, NEW t, NEW u, RowKept(s, t), RowKept(t, u)
  PROVE  RowKept(s, u)
BY DEF RowKept

LEMMA StepsFacts ==
  ASSUME NEW n \in Nat, NEW x \in Steps(n)
  PROVE  /\ x \in Nat
         /\ \E k \in 0..n : x = k * PITCH
         /\ x = 0 \/ \E k \in 1..n : x = k * PITCH
<1>1. PICK k \in 0..n : x = k * PITCH
  BY DEF Steps
<1>2. k \in Nat /\ PITCH \in Nat
  BY <1>1, SizeFacts
<1>3. x \in Nat
  BY <1>1, <1>2
<1>4. k = 0 => x = 0
  BY <1>1, <1>2
<1>5. k # 0 => k \in 1..n
  BY <1>1
<1>. QED
  BY <1>1, <1>3, <1>4, <1>5

LEMMA StepsMore ==
  ASSUME NEW n \in Int, NEW m \in Int, n <= m
  PROVE  Steps(n) \subseteq Steps(m)
BY DEF Steps

LEMMA StepsNumber == Steps(Lines + 1) \subseteq Number
<1>1. ASSUME NEW n \in Nat, n * PITCH + PITCH < U32, NEW k \in 0..(n + 1)
      PROVE  k * PITCH \in Number
  <2>1. k \in Nat /\ k <= n + 1 /\ PITCH \in Nat /\ U32 \in Nat
    BY SizeFacts
  <2>2. k * PITCH <= (n + 1) * PITCH
    BY <2>1, MultiplyMonotone
  <2>3. (n + 1) * PITCH = n * PITCH + PITCH /\ k * PITCH \in Nat /\ n * PITCH \in Nat
    BY <2>1
  <2>. QED
    BY <1>1, <2>1, <2>2, <2>3 DEF Number
<1>. QED
  BY <1>1, LinesFacts DEF Steps

\* Where scroll goes to work.
LEMMA ScrollsAt ==
  ASSUME NEW s, NEW k \in Nat, s.row = k * PITCH
  PROVE  Scrolls(s) <=> k >= Lines
<1>1. k * PITCH < HEIGHT - 2 * BITMAP_SIZE - 2 <=> k < Lines
  BY LinesFacts
<1>2. k * PITCH \in Nat
  BY SizeFacts
<1>. QED
  BY <1>1, <1>2, LinesFacts, SizeFacts DEF Scrolls

LEMMA PlusStep ==
  ASSUME NEW k \in Nat, (k + 1) * PITCH \in Number
  PROVE  /\ Plus(k * PITCH, PITCH) = (k + 1) * PITCH
         /\ Plus((k + 1) * PITCH, -PITCH) = k * PITCH
<1>1. /\ PITCH \in Nat /\ k * PITCH \in Nat /\ U32 \in Nat
      /\ (k + 1) * PITCH = k * PITCH + PITCH
  BY SizeFacts
<1>2. k * PITCH \in Number
  BY <1>1 DEF Number
<1>3. (k + 1) * PITCH + (-PITCH) = k * PITCH /\ -PITCH \in Int /\ (k + 1) * PITCH \in Int
  BY <1>1
<1>. QED
  BY <1>1, <1>2, <1>3, PlusSmall

\* scroll takes the row back once.
LEMMA scrollLoose ==
  ASSUME NEW s \in ConsoleRecord, NEW k \in 0..(Lines + 1), s.row = k * PITCH
  PROVE  /\ scroll(s) \in ConsoleRecord
         /\ scroll(s).row = (IF k >= Lines THEN k - 1 ELSE k) * PITCH
         /\ scroll(s).column = s.column /\ scroll(s).inside = s.inside
         /\ scroll(s).offset_x = s.offset_x
<1>1. k \in Nat /\ Lines \in Nat /\ Lines > 0
  BY LinesFacts
<1>2. CASE k < Lines
  <2>1. ~Scrolls(s)
    <3>1. ~(k >= Lines)
      BY <1>1, <1>2
    <3>. QED
      BY <1>1, <3>1, ScrollsAt
  <2>2. scroll(s) = s
    BY <2>1 DEF scroll
  <2>. QED
    BY <1>1, <1>2, <2>2
<1>3. CASE k >= Lines
  <2>. DEFINE t == scroll(s)
              l == k - 1
  <2>1. l \in Nat /\ l + 1 = k
    BY <1>1, <1>3
  <2>2. k * PITCH \in Number
    <3>1. k * PITCH \in Steps(Lines + 1)
      BY DEF Steps
    <3>. QED
      BY <3>1, StepsNumber
  <2>. HIDE DEF l
  <2>3. Plus(s.row, -PITCH) = l * PITCH
    BY <2>1, <2>2, PlusStep
  <2>4. l * PITCH \in Number
    <3>1. l * PITCH \in Steps(Lines + 1)
      BY <1>1, <2>1 DEF Steps
    <3>. QED
      BY <3>1, StepsNumber
  <2>5. s.offset_y \in Nat
    BY SizeFacts DEF ConsoleRecord, Number
  <2>6. Plus(s.offset_y, -1) \in Number
    BY <2>5, PlusType
  <2>7. /\ MovedUp(s.screen) \in [Rows -> [Columns -> Place]]
        /\ PromptUp(s.prompt) \in [row : Rows, text : Seq(Place)] \cup {NONE}
    BY MovedUpType, PromptUpType DEF ConsoleRecord
  <2>8. Scrolls(s)
    BY <1>1, <1>3, ScrollsAt
  <2>9. t = [s EXCEPT !.screen = MovedUp(s.screen), !.prompt = PromptUp(s.prompt),
                      !.row = l * PITCH, !.offset_y = Plus(s.offset_y, -1)]
    BY <2>3, <2>8 DEF scroll
  <2>. HIDE DEF t
  <2>10. /\ t \in ConsoleRecord /\ t.row = l * PITCH
         /\ t.column = s.column /\ t.inside = s.inside /\ t.offset_x = s.offset_x
    BY <2>4, <2>6, <2>7, <2>9 DEF ConsoleRecord
  <2>11. (IF k >= Lines THEN k - 1 ELSE k) = l
    BY <1>3 DEF l
  <2>. QED
    BY <2>10, <2>11 DEF t
<1>. QED
  BY <1>1, <1>2, <1>3

\* A row that was taken back once: on the page, and RowKept.
LEMMA RowBack ==
  ASSUME NEW s, NEW t, NEW k \in 0..Lines, s.row = k * PITCH,
         \/ t.row = k * PITCH /\ k < Lines
         \/ k > 0 /\ k >= Lines /\ t.row = (k - 1) * PITCH
         \/ k + 1 < Lines /\ t.row = (k + 1) * PITCH
         \/ k >= Lines /\ t.row = k * PITCH
  PROVE  t.row \in Steps(Lines) /\ RowKept(s, t)
<1>1. Lines \in Nat /\ Lines > 0 /\ k \in Nat /\ k <= Lines
  BY LinesFacts
<1>2. ASSUME NEW m \in Int, NEW n \in Int, m * PITCH = n * PITCH PROVE m = n
  BY <1>2, RowAt
<1>3. s.row \in Steps(Lines - 1) => k <= Lines - 1
  <2>. SUFFICES ASSUME s.row \in Steps(Lines - 1) PROVE k <= Lines - 1
    OBVIOUS
  <2>1. PICK m \in 0..(Lines - 1) : k * PITCH = m * PITCH
    BY DEF Steps
  <2>. QED
    BY <1>1, <1>2, <2>1
<1>4. s.row \in Last => k \in {Lines - 1, Lines}
  BY <1>1, <1>2 DEF Last
<1>5. CASE t.row = k * PITCH /\ k < Lines
  <2>1. k \in 0..(Lines - 1) /\ k \in 0..Lines
    BY <1>1, <1>5
  <2>. QED
    BY <1>5, <2>1 DEF RowKept, Steps
<1>6. CASE k >= Lines /\ t.row = (k - 1) * PITCH
  <2>1. k = Lines /\ k - 1 \in 0..(Lines - 1) /\ k - 1 \in 0..Lines
    BY <1>1, <1>6
  <2>. QED
    BY <1>6, <2>1 DEF RowKept, Steps, Last
<1>7. CASE k + 1 < Lines /\ t.row = (k + 1) * PITCH
  <2>1. k + 1 \in 0..(Lines - 1) /\ k + 1 \in 0..Lines /\ k \notin {Lines - 1, Lines}
    BY <1>1, <1>7
  <2>. QED
    BY <1>4, <1>7, <2>1 DEF RowKept, Steps
<1>8. CASE k >= Lines /\ t.row = k * PITCH
  <2>1. k = Lines /\ ~(k <= Lines - 1)
    BY <1>1, <1>8
  <2>2. t.row \in Steps(Lines) /\ t.row \in Last
    BY <1>8, <2>1 DEF Steps, Last
  <2>. QED
    BY <1>3, <2>1, <2>2 DEF RowKept
<1>. QED
  BY <1>5, <1>6, <1>7, <1>8

LEMMA DownLoose ==
  ASSUME NEW s, Loose(s)
  PROVE  /\ Loose(scroll(Newline(s))) /\ RowKept(s, scroll(Newline(s)))
         /\ scroll(Newline(s)).column = 0
         /\ scroll(Newline(s)).inside = s.inside
<1>. DEFINE n == Newline(s)
            t == scroll(n)
<1>1. s \in ConsoleRecord /\ s.row \in Steps(Lines) /\ Lines \in Nat /\ Lines > 0
  BY LinesFacts DEF Loose
<1>2. PICK k \in 0..Lines : s.row = k * PITCH
  BY <1>1, StepsFacts
<1>3. k \in Nat /\ k + 1 \in 0..(Lines + 1) /\ k <= Lines /\ (k + 1) - 1 = k
  BY <1>1
<1>4. (k + 1) * PITCH \in Number
  <2>1. (k + 1) * PITCH \in Steps(Lines + 1)
    BY <1>3 DEF Steps
  <2>. QED
    BY <2>1, StepsNumber
<1>5. Plus(s.row, PITCH) = (k + 1) * PITCH
  BY <1>2, <1>3, <1>4, PlusStep
<1>6. 0 \in Number /\ Plus(s.offset_y, 1) \in Number
  <2>1. s.offset_y \in Int /\ 0 \in Number
    BY <1>1, SizeFacts DEF ConsoleRecord, Number
  <2>. QED
    BY <2>1, PlusType
<1>7. /\ n \in ConsoleRecord /\ n.row = (k + 1) * PITCH /\ n.column = 0
      /\ n.inside = s.inside
  BY <1>1, <1>4, <1>5, <1>6 DEF Newline, ConsoleRecord
<1>. HIDE DEF n
<1>8. /\ t \in ConsoleRecord /\ t.column = 0 /\ t.inside = s.inside
      /\ t.row = (IF k + 1 >= Lines THEN (k + 1) - 1 ELSE k + 1) * PITCH
  BY <1>3, <1>7, scrollLoose
<1>. HIDE DEF t
<1>9. \/ k + 1 >= Lines /\ t.row = k * PITCH
      \/ k + 1 < Lines /\ t.row = (k + 1) * PITCH
  BY <1>1, <1>3, <1>8
<1>10. \/ t.row = k * PITCH /\ k < Lines
       \/ k + 1 < Lines /\ t.row = (k + 1) * PITCH
       \/ k >= Lines /\ t.row = k * PITCH
  BY <1>1, <1>3, <1>9
<1>11. t.row \in Steps(Lines) /\ RowKept(s, t)
  BY <1>2, <1>10, RowBack
<1>. QED
  BY <1>8, <1>11 DEF Loose, t, n

LEMMA scrollKeeps ==
  ASSUME NEW s, Loose(s)
  PROVE  /\ Loose(scroll(s)) /\ RowKept(s, scroll(s))
         /\ scroll(s).column = s.column /\ scroll(s).inside = s.inside
         /\ scroll(s).row \in Steps(Lines - 1)
<1>. DEFINE t == scroll(s)
<1>1. s \in ConsoleRecord /\ s.row \in Steps(Lines) /\ Lines \in Nat /\ Lines > 0
  BY LinesFacts DEF Loose
<1>2. PICK k \in 0..Lines : s.row = k * PITCH
  BY <1>1, StepsFacts
<1>3. k \in 0..(Lines + 1) /\ k \in Nat
  BY <1>1
<1>4. /\ t \in ConsoleRecord
      /\ t.row = (IF k >= Lines THEN k - 1 ELSE k) * PITCH
      /\ t.column = s.column /\ t.inside = s.inside
  BY <1>1, <1>2, <1>3, scrollLoose
<1>. HIDE DEF t
<1>5. \/ t.row = k * PITCH /\ k < Lines
      \/ k > 0 /\ k >= Lines /\ t.row = (k - 1) * PITCH
  BY <1>1, <1>3, <1>4
<1>6. t.row \in Steps(Lines) /\ RowKept(s, t)
  BY <1>2, <1>5, RowBack
<1>7. t.row \in Steps(Lines - 1)
  <2>1. k < Lines => k \in 0..(Lines - 1)
    BY <1>1, <1>3
  <2>2. k > 0 /\ k >= Lines => k - 1 \in 0..(Lines - 1)
    BY <1>1, <1>3
  <2>. QED
    BY <1>5, <2>1, <2>2 DEF Steps
<1>. QED
  BY <1>4, <1>6, <1>7 DEF Loose, t

\* On these rows a glyph fits.
LEMMA GlyphFits ==
  ASSUME NEW row \in Steps(Lines)
  PROVE  row + BITMAP_SIZE <= HEIGHT
<1>1. PICK k \in 0..Lines : row = k * PITCH
  BY DEF Steps
<1>2. PICK n \in Nat : /\ Rows = 0..(n - 1)
                       /\ \A j \in Nat : j * PITCH + BITMAP_SIZE <= HEIGHT <=> j < n
  BY RowsFacts
<1>3. k \in Rows
  BY LinesFacts
<1>4. k \in Nat /\ k < n
  BY <1>2, <1>3
<1>. QED
  BY <1>1, <1>2, <1>4

LEMMA DrawnLoose ==
  ASSUME NEW s \in ConsoleRecord, NEW column, NEW row, NEW c \in Shape
  PROVE  /\ Drawn(s, column, row, c) \in ConsoleRecord
         /\ Drawn(s, column, row, c).row = s.row
         /\ Drawn(s, column, row, c).column = s.column
         /\ Drawn(s, column, row, c).offset_x = s.offset_x
         /\ s.inside /\ column + BITMAP_SIZE < WIDTH /\ row + BITMAP_SIZE <= HEIGHT =>
              Drawn(s, column, row, c).inside
<1>. DEFINE pic == Drawn(s, column, row, c).screen
            ins == s.inside /\ column + BITMAP_SIZE < WIDTH /\ row + BITMAP_SIZE <= HEIGHT
<1>1. pic \in [Rows -> [Columns -> Place]]
  BY DrawnFacts
<1>2. Drawn(s, column, row, c) = [s EXCEPT !.screen = pic, !.inside = ins]
  BY DEF Drawn, ConsoleRecord
<1>3. ins \in BOOLEAN
  OBVIOUS
<1>. HIDE DEF pic
<1>4. ASSUME NEW b \in BOOLEAN, NEW t, t = [s EXCEPT !.screen = pic, !.inside = b]
      PROVE  /\ t \in ConsoleRecord /\ t.row = s.row /\ t.column = s.column
             /\ t.offset_x = s.offset_x /\ t.inside = b
  BY <1>1, <1>4 DEF ConsoleRecord
<1>. HIDE DEF ins
<1>5. /\ Drawn(s, column, row, c) \in ConsoleRecord
      /\ Drawn(s, column, row, c).row = s.row
      /\ Drawn(s, column, row, c).column = s.column
      /\ Drawn(s, column, row, c).offset_x = s.offset_x
      /\ Drawn(s, column, row, c).inside = ins
  BY <1>2, <1>3, <1>4
<1>. QED
  BY <1>5 DEF ins

\* A character is drawn before the margin, and leaves the cursor a place further.
LEMMA PrintedLoose ==
  ASSUME NEW s, Loose(s), NEW c \in Shape
  PROVE  /\ Loose(Printed(s, c)) /\ RowKept(s, Printed(s, c))
         /\ Printed(s, c).column >= PITCH
         /\ Printed(s, c).column + BITMAP_SIZE <= WIDTH
         /\ s.inside => Printed(s, c).inside
<1>. DEFINE m == AtText(s)
            d == Drawn(m, m.column, m.row, c)
            u == [d EXCEPT !.column = Plus(d.column, PITCH)]
            v == [u EXCEPT !.offset_x = Plus(u.offset_x, 1)]
            t == scroll(v)
<1>0. s \in ConsoleRecord /\ s.column \in Nat
  BY SizeFacts DEF Loose, ConsoleRecord, Number
<1>1. /\ Loose(m) /\ RowKept(s, m) /\ (s.inside => m.inside)
      /\ m.column < WIDTH - 2 * BITMAP_SIZE
  <2>1. CASE AtMargin(s)
    <3>1. m = scroll(Newline(s))
      BY <2>1 DEF AtText
    <3>. HIDE DEF m
    <3>2. Loose(m) /\ RowKept(s, m) /\ m.column = 0 /\ m.inside = s.inside
      BY <3>1, DownLoose
    <3>3. 0 < WIDTH - 2 * BITMAP_SIZE
      BY SizeFacts
    <3>. QED
      BY <3>2, <3>3
  <2>2. CASE ~AtMargin(s)
    <3>1. m = s
      BY <2>2 DEF AtText
    <3>2. s.column < WIDTH - 2 * BITMAP_SIZE
      BY <1>0, <2>2, SizeFacts DEF AtMargin
    <3>. HIDE DEF m
    <3>. QED
      BY <3>1, <3>2 DEF RowKept
  <2>. QED
    BY <2>1, <2>2
<1>. HIDE DEF m
<1>2. m \in ConsoleRecord /\ m.row \in Steps(Lines) /\ m.column \in Nat
  BY <1>1, SizeFacts DEF Loose, ConsoleRecord, Number
<1>. DEFINE n == m.column + PITCH
<1>3. /\ Plus(m.column, PITCH) = n /\ n \in Number /\ n >= PITCH
      /\ n + BITMAP_SIZE <= WIDTH /\ m.column + BITMAP_SIZE < WIDTH
  <2>1. /\ n \in Nat /\ n < U32 /\ n >= PITCH
        /\ n + BITMAP_SIZE <= WIDTH /\ m.column + BITMAP_SIZE < WIDTH
    BY <1>1, <1>2, SizeFacts
  <2>2. n \in Number
    BY <2>1, SizeFacts DEF Number
  <2>. QED
    BY <1>2, <2>1, <2>2, PlusSmall, SizeFacts
<1>. HIDE DEF n
<1>4. m.inside => d.inside
  BY <1>2, <1>3, GlyphFits, DrawnLoose
<1>5. /\ d \in ConsoleRecord /\ d.row = m.row /\ d.column = m.column
      /\ d.offset_x = m.offset_x
  BY <1>2, DrawnLoose
<1>. HIDE DEF d
<1>6. /\ u \in ConsoleRecord /\ u.row = m.row /\ u.column = n
      /\ u.offset_x = m.offset_x /\ u.inside = d.inside
  BY <1>3, <1>5 DEF ConsoleRecord
<1>7. putchat(m, c) = u
  BY DEF putchat, d, u
<1>. HIDE DEF u
<1>8. Plus(u.offset_x, 1) \in Number
  <2>1. u.offset_x \in Int
    BY <1>6, SizeFacts DEF ConsoleRecord, Number
  <2>. QED
    BY <2>1, PlusType
<1>9. v \in ConsoleRecord /\ v.row = m.row /\ v.column = n /\ v.inside = d.inside
  BY <1>6, <1>8 DEF ConsoleRecord
<1>. HIDE DEF v
<1>10. Loose(v) /\ RowKept(m, v)
  BY <1>2, <1>9 DEF Loose, RowKept
<1>11. /\ Loose(t) /\ RowKept(v, t) /\ t.column = n /\ t.inside = d.inside
  BY <1>9, <1>10, scrollKeeps
<1>12. Printed(s, c) = t
  BY <1>7 DEF Printed, m, v, t, AtText
<1>. HIDE DEF t
<1>13. RowKept(s, t)
  BY <1>1, <1>10, <1>11, RowKeptTwice
<1>14. s.inside => t.inside
  BY <1>1, <1>4, <1>11
<1>. QED
  BY <1>3, <1>11, <1>12, <1>13, <1>14

LEMMA BackLoose ==
  ASSUME NEW s, Loose(s)
  PROVE  /\ Loose(Back(s)) /\ RowKept(s, Back(s))
         /\ Back(s).column = Plus(s.column, -PITCH) /\ Back(s).inside = s.inside
<1>1. s \in ConsoleRecord /\ s.offset_x \in Int /\ s.column \in Int /\ -PITCH \in Int
  BY SizeFacts DEF Loose, ConsoleRecord, Number
<1>2. Plus(s.offset_x, -1) \in Number /\ Plus(s.column, -PITCH) \in Number
  BY <1>1, PlusType
<1>. DEFINE t == Back(s)
<1>3. t = [s EXCEPT !.column = Plus(s.column, -PITCH), !.offset_x = Plus(s.offset_x, -1)]
  BY DEF Back
<1>. HIDE DEF t
<1>4. /\ t \in ConsoleRecord /\ t.row = s.row /\ t.column = Plus(s.column, -PITCH)
      /\ t.inside = s.inside
  BY <1>1, <1>2, <1>3 DEF ConsoleRecord
<1>. QED
  BY <1>4 DEF Loose, RowKept, t

\* putch leaves the column alone, or where at most one pixel of a glyph leaves the
\* line: a glyph takes the pixels behind its column.
ColumnKept(s, t) == t.column = s.column \/ t.column + BITMAP_SIZE <= WIDTH

Kind(s, t) ==
  /\ Loose(t) /\ RowKept(s, t) /\ ColumnKept(s, t)
  /\ s.inside => t.inside

LEMMA KindTwice ==
  ASSUME NEW s, NEW t, NEW u, Kind(s, t), Kind(t, u)
  PROVE  Kind(s, u)
BY DEF Kind, RowKept, ColumnKept

LEMMA PrintedKind ==
  ASSUME NEW s, Loose(s), NEW c \in Shape
  PROVE  Kind(s, Printed(s, c))
BY PrintedLoose DEF Kind, ColumnKept

LEMMA TabbedKind ==
  ASSUME NEW s, Loose(s)
  PROVE  Kind(s, Tabbed(s))
<1>. DEFINE a == Printed(s, SPACE)
            b == Printed(a, SPACE)
            c == Printed(b, SPACE)
            d == Printed(c, SPACE)
<1>1. SPACE \in Shape
  BY DEF Shape
<1>2. Kind(s, a)
  BY <1>1, PrintedKind
<1>3. Kind(a, b)
  <2>. HIDE DEF a
  <2>. QED
    BY <1>1, <1>2, PrintedKind DEF Kind
<1>. HIDE DEF a
<1>4. Kind(b, c)
  <2>. HIDE DEF b
  <2>. QED
    BY <1>1, <1>3, PrintedKind DEF Kind
<1>. HIDE DEF b
<1>5. Kind(c, d)
  <2>. HIDE DEF c
  <2>. QED
    BY <1>1, <1>4, PrintedKind DEF Kind
<1>. HIDE DEF c, d
<1>6. Kind(s, d)
  <2>1. Kind(s, b)
    BY <1>2, <1>3, KindTwice
  <2>2. Kind(s, c)
    BY <1>4, <2>1, KindTwice
  <2>. QED
    BY <1>5, <2>2, KindTwice
<1>. QED
  BY <1>6 DEF Tabbed, a, b, c, d

\* A backspace: the space it prints brings the cursor back before the margin, even
\* when the column has wrapped.
LEMMA ErasedKind ==
  ASSUME NEW s, Loose(s)
  PROVE  Kind(s, Erased(s))
<1>. DEFINE a == Back(s)
            b == Printed(a, SPACE)
            c == Back(b)
<1>1. Loose(a) /\ RowKept(s, a) /\ a.inside = s.inside
  BY BackLoose
<1>. HIDE DEF a
<1>2. /\ Loose(b) /\ RowKept(a, b) /\ (a.inside => b.inside)
      /\ b.column >= PITCH /\ b.column + BITMAP_SIZE <= WIDTH
  <2>1. SPACE \in Shape
    BY DEF Shape
  <2>. QED
    BY <1>1, <2>1, PrintedLoose
<1>. HIDE DEF b
<1>3. /\ Loose(c) /\ RowKept(b, c) /\ c.inside = b.inside
      /\ c.column = Plus(b.column, -PITCH)
  BY <1>2, BackLoose
<1>4. b.column \in Nat
  BY <1>2, SizeFacts DEF Loose, ConsoleRecord, Number
<1>. DEFINE n == b.column - PITCH
<1>5. b.column + (-PITCH) = n /\ n \in Number /\ -PITCH \in Int /\ n + BITMAP_SIZE <= WIDTH
  BY <1>2, <1>4, SizeFacts DEF Number
<1>6. c.column = n
  BY <1>3, <1>4, <1>5, PlusSmall
<1>. HIDE DEF c
<1>7. RowKept(s, c)
  BY <1>1, <1>2, <1>3, RowKeptTwice, SMTT(30)
<1>. QED
  BY <1>1, <1>2, <1>3, <1>5, <1>6, <1>7 DEF Erased, a, b, c, Kind, ColumnKept

LEMMA scrollKind == ASSUME NEW s, Loose(s) PROVE Kind(s, scroll(s))
BY scrollKeeps DEF Kind, ColumnKept

LEMMA SameKind ==
  ASSUME NEW s, Loose(s)
  PROVE  /\ Kind(s, s)
         /\ \A ch \in Colour : Kind(s, [s EXCEPT !.color = ch])
         /\ Kind(s, [s EXCEPT !.column = 0, !.offset_x = 0])
<1>1. 0 \in Number /\ 0 + BITMAP_SIZE <= WIDTH
  BY SizeFacts DEF Number
<1>2. Kind(s, s)
  BY DEF Kind, RowKept, ColumnKept
<1>3. ASSUME NEW ch \in Colour PROVE Kind(s, [s EXCEPT !.color = ch])
  BY DEF Kind, RowKept, ColumnKept, Loose, ConsoleRecord
<1>4. Kind(s, [s EXCEPT !.column = 0, !.offset_x = 0])
  BY <1>1 DEF Kind, RowKept, ColumnKept, Loose, ConsoleRecord
<1>. QED
  BY <1>2, <1>3, <1>4

\* putch, whatever the key.
LEMMA putchKind ==
  ASSUME NEW s, Loose(s), NEW ch \in Character
  PROVE  Kind(s, putch(s, ch))
<1>0. ASSUME NEW t, Kind(s, t), putch(s, ch) = scroll(t)
      PROVE  Kind(s, putch(s, ch))
  BY <1>0, scrollKind, KindTwice DEF Kind
<1>1. CASE ch = NL
  <2>. DEFINE t == scroll(Newline(s))
  <2>1. Loose(t) /\ RowKept(s, t) /\ t.column = 0 /\ t.inside = s.inside
    BY DownLoose
  <2>2. putch(s, ch) = t
    BY <1>1, putchCases
  <2>3. 0 + BITMAP_SIZE <= WIDTH
    BY SizeFacts
  <2>. HIDE DEF t
  <2>. QED
    BY <2>1, <2>2, <2>3 DEF Kind, ColumnKept
<1>2. CASE ch \in Colour
  <2>. DEFINE t == [s EXCEPT !.color = ch]
  <2>1. Kind(s, t)
    BY <1>2, SameKind
  <2>2. putch(s, ch) = scroll(t)
    BY <1>2, putchCases
  <2>. HIDE DEF t
  <2>. QED
    BY <1>0, <2>1, <2>2
<1>3. CASE ~AtMargin(s) /\ ch = BS
  <2>. DEFINE t == IF s.column = 0 \/ Guarded(s) THEN s ELSE Erased(s)
  <2>1. Kind(s, t)
    BY <1>3, SameKind, ErasedKind
  <2>2. putch(s, ch) = scroll(t)
    BY <1>3, putchCases
  <2>. HIDE DEF t
  <2>. QED
    BY <1>0, <2>1, <2>2
<1>4. CASE ~AtMargin(s) /\ ch = TAB
  <2>1. Kind(s, Tabbed(s))
    BY TabbedKind
  <2>2. putch(s, ch) = scroll(Tabbed(s))
    BY <1>4, putchCases
  <2>. QED
    BY <1>0, <2>1, <2>2
<1>5. CASE ~AtMargin(s) /\ ch = CR
  <2>. DEFINE t == [s EXCEPT !.column = 0, !.offset_x = 0]
  <2>1. Kind(s, t)
    BY SameKind
  <2>2. putch(s, ch) = scroll(t)
    BY <1>5, putchCases
  <2>. HIDE DEF t
  <2>. QED
    BY <1>0, <2>1, <2>2
<1>6. CASE ch \in Shape /\ ch \notin Colour /\ (AtMargin(s) \/ ch \notin {BS, TAB, CR})
  <2>1. putch(s, ch) = Printed(s, ch)
    BY <1>6, putchCases
  <2>2. Kind(s, Printed(s, ch))
    BY <1>6, PrintedKind
  <2>. QED
    BY <2>1, <2>2
<1>. QED
  BY <1>1, <1>2, <1>3, <1>4, <1>5, <1>6, CharacterCases

-----------------------------------------------------------------------------
(* The console of ConsoleRace is the same one.                             *)

LEMMA SameSizes ==
  /\ Race!PITCH = PITCH /\ Race!Columns = Columns /\ Race!Rows = Rows
  /\ Race!BLANK = BLANK /\ Race!MIXED = MIXED /\ Race!NONE = NONE
  /\ Race!TextRows = TextRows /\ Race!Number = Number
BY DEF PITCH, Columns, Rows, TextRows, BLANK, MIXED, NONE, Number,
       Race!PITCH, Race!Columns, Race!Rows, Race!TextRows, Race!BLANK, Race!MIXED,
       Race!NONE, Race!Number

LEMMA SameRecord ==
  /\ Race!ConsoleType <=> raced \in ConsoleRecord
  /\ Race!ConsoleInit <=>
       raced = [offset_x |-> 0, offset_y |-> 0, barrier |-> <<0, 0>>,
                column |-> 0, row |-> 0, color |-> WHITE,
                screen |-> [r \in Rows |-> [c \in Columns |-> BLANK]],
                inside |-> TRUE, prompt |-> NONE]
BY SameSizes DEF Race!ConsoleType, Race!ConsoleRecord, ConsoleRecord,
     Race!Place, Place, Race!ConsoleInit

LEMMA SameParts ==
  /\ \A n, i : Race!Plus(n, i) = Plus(n, i)
  /\ \A c, colour : Race!Glyph(c, colour) = Glyph(c, colour)
  /\ \A column : Race!Shown(column) = Shown(column)
  /\ \A s : Race!Scrolls(s) <=> Scrolls(s)
  /\ \A s : Race!AtMargin(s) <=> AtMargin(s)
  /\ \A s : Race!Guarded(s) <=> Guarded(s)
  /\ \A pic : Race!MovedUp(pic) = MovedUp(pic)
  /\ \A p : Race!PromptUp(p) = PromptUp(p)
<1>1. \A n, i : Race!Plus(n, i) = Plus(n, i)
  BY DEF Race!Plus, Plus
<1>2. \A c, colour : Race!Glyph(c, colour) = Glyph(c, colour)
  BY SameSizes DEF Race!Glyph, Glyph
<1>3. \A column : Race!Shown(column) = Shown(column)
  BY SameSizes DEF Race!Shown, Shown
<1>4. \A s : Race!Scrolls(s) <=> Scrolls(s)
  BY DEF Race!Scrolls, Scrolls
<1>5. \A s : Race!AtMargin(s) <=> AtMargin(s)
  BY DEF Race!AtMargin, AtMargin
<1>6. \A s : Race!Guarded(s) <=> Guarded(s)
  BY DEF Race!Guarded, Guarded
<1>7. \A pic : Race!MovedUp(pic) = MovedUp(pic)
  BY SameSizes DEF Race!MovedUp, MovedUp
<1>8. \A p : Race!PromptUp(p) = PromptUp(p)
  BY SameSizes DEF Race!PromptUp, PromptUp
<1>. QED
  BY <1>1, <1>2, <1>3, <1>4, <1>5, <1>6, <1>7, <1>8

LEMMA SameDrawn ==
  ASSUME NEW s, NEW column, NEW row, NEW c
  PROVE  Race!Drawn(s, column, row, c) = Drawn(s, column, row, c)
BY SameSizes, SameParts DEF Race!Drawn, Drawn

LEMMA Samescroll ==
  ASSUME NEW s
  PROVE  /\ Race!scroll(s) = scroll(s)
         /\ Race!Newline(s) = Newline(s)
         /\ Race!Back(s) = Back(s)
<1>1. Race!scroll(s) = scroll(s)
  BY SameSizes, SameParts DEF Race!scroll, scroll
<1>2. Race!Newline(s) = Newline(s)
  BY SameSizes, SameParts DEF Race!Newline, Newline
<1>3. Race!Back(s) = Back(s)
  BY SameSizes, SameParts DEF Race!Back, Back
<1>. QED
  BY <1>1, <1>2, <1>3

LEMMA SamePrinted ==
  ASSUME NEW s, NEW c
  PROVE  Race!Printed(s, c) = Printed(s, c)
<1>1. \A t : Race!putchat(t, c) = putchat(t, c)
  BY SameSizes, SameParts, SameDrawn DEF Race!putchat, putchat
<1>. DEFINE t == IF AtMargin(s) THEN scroll(Newline(s)) ELSE s
<1>2. (IF Race!AtMargin(s) THEN Race!scroll(Race!Newline(s)) ELSE s) = t
  BY SameParts, Samescroll
<1>. DEFINE u == [putchat(t, c) EXCEPT !.offset_x = Plus(putchat(t, c).offset_x, 1)]
<1>3. Printed(s, c) = scroll(u)
  BY DEF Printed
<1>4. Race!Printed(s, c) = Race!scroll(u)
  BY <1>1, <1>2, SameParts DEF Race!Printed
<1>. QED
  BY <1>3, <1>4, Samescroll

LEMMA Sameputch ==
  ASSUME NEW s, NEW c
  PROVE  Race!putch(s, c) = putch(s, c)
<1>1. Race!Erased(s) = Erased(s)
  BY SamePrinted, Samescroll DEF Race!Erased, Erased
<1>. QED
  BY <1>1, SamePrinted, Samescroll, SameParts DEF Race!putch, putch

-----------------------------------------------------------------------------
(* The thread and the handler.                                             *)

\* The thread has counted the row up and not yet scrolled; has moved the page up
\* and not yet the row; has moved both and not yet offset_y.
Below == {"nl_offset_y", "nl_offset_y_store", "nl_column", "nl_offset_x", "scroll"}
Rising == {"move", "up_row", "up_row_store"}
Risen == {"up_offset_y", "up_offset_y_store"}

RowInv ==
  raced.row \in (IF at \in Rising THEN Last
                 ELSE IF at \in Below THEN Steps(Lines) ELSE Steps(Lines - 1))

\* A glyph that begins there leaves its line by one pixel, and by PITCH more for
\* every arrow since the margin test.
Reached(column) == column + BITMAP_SIZE <= WIDTH + PITCH * pushed

\* Between the margin test, or the newline that follows it, and the load of the
\* column.
Ahead == {"nl_offset_x", "args_row", "args_column"}

ColumnInv ==
  (at \in Ahead \/ (at \in {"scroll"} \cup Rising \cup Risen /\ ~reg.drawn)) =>
    Reached(raced.column)

\* What has been loaded fits, however the console has changed since.
RegInv ==
  /\ at \in {"column", "column_store", "offset_x", "offset_x_store"} => reg.drawn
  /\ at = "nl_row_store" => reg.value \in Steps(Lines - 1)
  /\ at = "up_row_store" => reg.value \in Last
  /\ at \in {"args_column", "draw"} => reg.row \in Steps(Lines - 1)
  /\ at = "draw" => Reached(reg.value)
  /\ at \in {"margin", "args_row", "args_column", "draw"} => char # NL

Reg == [value : Number, row : Number, drawn : BOOLEAN]

RaceTyped ==
  /\ raced \in ConsoleRecord /\ at \in Race!Access
  /\ char \in RaceLog /\ reg \in Reg /\ pushed \in 0..MaxPushed

\* The arrows are counted from where the thread knows its column.
Counted == pushed' = (IF at \in {"margin", "nl_column"} THEN 0 ELSE pushed)

RaceInv == RaceTyped /\ RowInv /\ ColumnInv /\ RegInv

LEMMA RaceChars ==
  /\ RaceLog \subseteq Shape \cup {NL}
  /\ RaceKeys \subseteq Character
BY RaceAssumption DEF Shape, Character

LEMMA RaceInitInv == Race!Init => RaceInv
<1>. SUFFICES ASSUME Race!Init PROVE RaceInv
  OBVIOUS
<1>1. /\ 0 \in Number /\ 0 = 0 * PITCH /\ 0 \in 0..(Lines - 1)
      /\ 0 \in 0..MaxPushed
  BY LinesFacts, SizeFacts, RaceAssumption DEF Number
<1>2. 0 \in Steps(Lines - 1)
  BY <1>1 DEF Steps
<1>3. /\ raced = [offset_x |-> 0, offset_y |-> 0, barrier |-> <<0, 0>>,
                  column |-> 0, row |-> 0, color |-> WHITE,
                  screen |-> [r \in Rows |-> [c \in Columns |-> BLANK]],
                  inside |-> TRUE, prompt |-> NONE]
      /\ at = "idle" /\ char \in RaceLog
      /\ reg = [value |-> 0, row |-> 0, drawn |-> FALSE] /\ pushed = 0
  BY SameRecord DEF Race!Init
<1>4. raced \in ConsoleRecord
  BY <1>1, <1>3, ConsoleAssumption DEF ConsoleRecord, Place
<1>5. RaceTyped
  BY <1>1, <1>3, <1>4 DEF RaceTyped, Race!Access, Reg
<1>. QED
  BY <1>2, <1>3, <1>5 DEF RaceInv, RowInv, ColumnInv, RegInv, Below, Rising, Risen, Ahead

\* Neither a key nor an arrow is counted as a step of the thread.
LEMMA KeyKeepsRace ==
  ASSUME RaceInv, NEW k \in RaceKeys, Race!Key(k)
  PROVE  RaceInv'
<1>1. raced' = putch(raced, k) /\ UNCHANGED <<at, char, reg, pushed>>
  BY Sameputch DEF Race!Key
<1>2. Loose(raced)
  <2>1. Steps(Lines - 1) \subseteq Steps(Lines) /\ Last \subseteq Steps(Lines)
    BY LinesFacts DEF Steps, Last
  <2>. QED
    BY <2>1 DEF RaceInv, RaceTyped, RowInv, Loose
<1>3. Kind(raced, raced')
  BY <1>1, <1>2, RaceChars, putchKind
<1>4. Loose(raced') /\ RowKept(raced, raced') /\ ColumnKept(raced, raced')
  BY <1>3 DEF Kind
<1>5. RaceTyped'
  BY <1>1, <1>4 DEF RaceInv, RaceTyped, Loose
<1>6. RowInv'
  BY <1>1, <1>4 DEF RaceInv, RowInv, RowKept, Loose
<1>7. ColumnInv'
  <2>1. pushed \in Nat /\ raced'.column \in Int /\ WIDTH \in Int /\ PITCH \in Nat
        /\ BITMAP_SIZE \in Int
    BY <1>4, SizeFacts, RaceAssumption DEF RaceInv, RaceTyped, Loose, ConsoleRecord, Number
  <2>2. PITCH * pushed \in Nat
    BY <2>1
  <2>3. raced'.column + BITMAP_SIZE <= WIDTH => Reached(raced'.column)
    BY <2>1, <2>2 DEF Reached
  <2>4. Reached(raced.column) => (Reached(raced.column))'
    BY <1>1, <1>4, <2>3 DEF ColumnKept, Reached
  <2>. QED
    BY <1>1, <2>4 DEF RaceInv, ColumnInv
<1>8. RegInv'
  BY <1>1 DEF RaceInv, RegInv, Reached
<1>. QED
  BY <1>5, <1>6, <1>7, <1>8 DEF RaceInv

LEMMA ArrowKeepsRace ==
  ASSUME RaceInv, NEW i \in {1, -1}, Race!Arrow(i)
  PROVE  RaceInv' /\ raced'.inside = raced.inside
<1>. DEFINE n == Plus(raced.column, BITMAP_SIZE + i)
<1>1. raced' = [raced EXCEPT !.column = n]
  BY SameParts DEF Race!Arrow, Race!MVCURSORC
<1>2. pushed' = pushed + 1 /\ pushed < MaxPushed /\ UNCHANGED <<at, char, reg>>
  BY DEF Race!Arrow
<1>3. /\ raced \in ConsoleRecord /\ raced.column \in Nat /\ pushed \in 0..MaxPushed
      /\ MaxPushed \in Nat
  BY RaceAssumption, SizeFacts DEF RaceInv, RaceTyped, ConsoleRecord, Number
<1>4. /\ BITMAP_SIZE + i \in Nat /\ BITMAP_SIZE + i <= PITCH /\ U32 \in Nat /\ U32 > 0
      /\ PITCH \in Nat /\ WIDTH \in Nat /\ BITMAP_SIZE \in Nat
  BY SizeFacts
<1>5. n \in Number
  BY <1>3, <1>4, PlusType
<1>6. n <= raced.column + PITCH
  <2>. DEFINE x == raced.column + (BITMAP_SIZE + i)
  <2>1. x \in Nat /\ x <= raced.column + PITCH
    BY <1>3, <1>4
  <2>2. x % U32 <= x
    <3>. HIDE DEF x
    <3>. QED
      BY <1>4, <2>1
  <2>3. n = x % U32 /\ x % U32 \in Int
    BY <1>4, <2>1 DEF Plus
  <2>. HIDE DEF x, n
  <2>. QED
    BY <1>3, <1>4, <2>1, <2>2, <2>3
<1>7. n \in Int
  BY <1>5, SizeFacts DEF Number
<1>. HIDE DEF n
<1>8. /\ raced' \in ConsoleRecord /\ raced'.row = raced.row /\ raced'.column = n
      /\ raced'.inside = raced.inside
  BY <1>1, <1>3, <1>5 DEF ConsoleRecord
<1>9. RaceTyped'
  BY <1>2, <1>3, <1>8 DEF RaceInv, RaceTyped
<1>10. RowInv'
  BY <1>2, <1>8 DEF RaceInv, RowInv
<1>11. PITCH * pushed' = PITCH * pushed + PITCH /\ PITCH * pushed \in Nat
  BY <1>2, <1>3, <1>4
<1>12. ASSUME NEW x \in Int, NEW y \in Int, y <= x + PITCH, Reached(x)
       PROVE  y + BITMAP_SIZE <= WIDTH + PITCH * pushed'
  <2>. DEFINE p == PITCH * pushed
  <2>1. x + BITMAP_SIZE <= WIDTH + p /\ PITCH * pushed' = p + PITCH /\ p \in Nat
    BY <1>11, <1>12 DEF Reached
  <2>. HIDE DEF p
  <2>. QED
    BY <1>4, <1>12, <2>1
<1>13. ColumnInv'
  BY <1>2, <1>3, <1>6, <1>7, <1>8, <1>12 DEF RaceInv, ColumnInv, Reached
<1>14. RegInv'
  <2>1. reg.value \in Int /\ reg.value <= reg.value + PITCH
    BY <1>4, SizeFacts DEF RaceInv, RaceTyped, Reg, Number
  <2>. QED
    BY <1>2, <1>12, <2>1 DEF RaceInv, RegInv, Reached
<1>. QED
  BY <1>8, <1>9, <1>10, <1>13, <1>14 DEF RaceInv

LEMMA RowStep ==
  ASSUME NEW n \in Nat, n <= Lines, NEW x \in Steps(n)
  PROVE  Plus(x, PITCH) \in Steps(n + 1)
<1>1. PICK k \in 0..n : x = k * PITCH
  BY DEF Steps
<1>2. k \in Nat /\ k + 1 \in 0..(n + 1) /\ k + 1 \in 0..(Lines + 1)
  BY LinesFacts
<1>3. (k + 1) * PITCH \in Number
  BY <1>2, StepsNumber DEF Steps
<1>4. Plus(x, PITCH) = (k + 1) * PITCH
  BY <1>1, <1>2, <1>3, PlusStep
<1>. QED
  BY <1>2, <1>4 DEF Steps

\* With two lines the row has somewhere to go up to.
LEMMA LastStep ==
  ASSUME TwoLines, NEW x \in Last
  PROVE  Plus(x, -PITCH) \in Steps(Lines - 1)
<1>1. PICK k \in {Lines - 1, Lines} : x = k * PITCH
  BY DEF Last
<1>2. Lines \in Nat /\ Lines >= 2
  BY LinesFacts DEF TwoLines, Lines
<1>. DEFINE l == k - 1
<1>3. l \in Nat /\ l + 1 = k /\ l \in 0..(Lines - 1) /\ l + 1 \in 0..(Lines + 1)
  BY <1>2
<1>. HIDE DEF l
<1>4. (l + 1) * PITCH \in Number
  BY <1>3, StepsNumber DEF Steps
<1>5. Plus(x, -PITCH) = l * PITCH
  BY <1>1, <1>3, <1>4, PlusStep
<1>. QED
  BY <1>3, <1>5 DEF Steps

\* A row that scroll goes to work on is the one below the last.
LEMMA ScrollsLast ==
  ASSUME NEW s, s.row \in Steps(Lines)
  PROVE  s.row \in (IF Scrolls(s) THEN Last ELSE Steps(Lines - 1))
<1>1. PICK k \in 0..Lines : s.row = k * PITCH
  BY DEF Steps
<1>2. k \in Nat /\ Lines \in Nat
  BY LinesFacts
<1>3. Scrolls(s) <=> k >= Lines
  BY <1>1, <1>2, ScrollsAt
<1>4. Scrolls(s) => k = Lines
  BY <1>2, <1>3
<1>5. ~Scrolls(s) => k \in 0..(Lines - 1)
  BY <1>2, <1>3
<1>. QED
  BY <1>1, <1>4, <1>5 DEF Last, Steps

\* Where the thread knows its column, a glyph fits.
LEMMA MarginColumn ==
  ASSUME NEW column \in Nat, column < WIDTH - 2 * BITMAP_SIZE
  PROVE  column + BITMAP_SIZE <= WIDTH + PITCH * 0
BY SizeFacts

LEMMA StepsIn ==
  /\ Steps(Lines - 1) \subseteq Steps(Lines) /\ Last \subseteq Steps(Lines)
  /\ Steps(Lines) \subseteq Number /\ Steps(Lines - 1) \subseteq Number
  /\ 0 \in Number
<1>1. Steps(Lines - 1) \subseteq Steps(Lines) /\ Last \subseteq Steps(Lines)
  BY LinesFacts DEF Steps, Last
<1>2. Steps(Lines) \subseteq Steps(Lines + 1)
  BY LinesFacts, StepsMore
<1>3. 0 \in Number
  BY SizeFacts DEF Number
<1>. QED
  BY <1>1, <1>2, <1>3, StepsNumber

\* What each access needs of its values.
LEMMA FieldTypes ==
  ASSUME NEW s \in ConsoleRecord
  PROVE  /\ s.row \in Number /\ s.column \in Number
         /\ s.offset_x \in Number /\ s.offset_y \in Number
         /\ \A n \in Number : /\ [s EXCEPT !.row = n] \in ConsoleRecord
                              /\ [s EXCEPT !.column = n] \in ConsoleRecord
                              /\ [s EXCEPT !.offset_x = n] \in ConsoleRecord
                              /\ [s EXCEPT !.offset_y = n] \in ConsoleRecord
BY DEF ConsoleRecord

LEMMA NumberPlus ==
  ASSUME NEW n \in Number
  PROVE  /\ Plus(n, 1) \in Number /\ Plus(n, -1) \in Number
         /\ Plus(n, PITCH) \in Number /\ Plus(n, -PITCH) \in Number
<1>1. n \in Int /\ PITCH \in Int /\ -PITCH \in Int
  BY SizeFacts DEF Number
<1>. QED
  BY <1>1, PlusType

LEMMA CountedType ==
  ASSUME RaceInv, Counted
  PROVE  pushed' \in 0..MaxPushed
<1>1. pushed \in 0..MaxPushed /\ 0 \in 0..MaxPushed
  BY RaceAssumption DEF RaceInv, RaceTyped
<1>. QED
  BY <1>1 DEF Counted

LEMMA BeginKeepsRace ==
  ASSUME RaceInv, Counted, Race!Begin
  PROVE  RaceInv'
<1>1. /\ at = "idle" /\ char' \in RaceLog /\ raced' = raced
      /\ at' = (IF char' = NL THEN "nl_row" ELSE "margin")
      /\ reg' = [reg EXCEPT !.drawn = FALSE] /\ pushed' = pushed
  BY DEF Race!Begin, Counted
<1>2. RaceTyped'
  BY <1>1 DEF RaceInv, RaceTyped, Race!Access, Reg
<1>3. RowInv' /\ ColumnInv'
  BY <1>1 DEF RaceInv, RowInv, ColumnInv, Below, Rising, Risen, Ahead, Reached
<1>4. RegInv'
  BY <1>1 DEF RegInv
<1>. QED
  BY <1>2, <1>3, <1>4 DEF RaceInv

\* newline
LEMMA NewlineKeepsRace ==
  ASSUME RaceInv, Counted, Race!NewlineSteps
  PROVE  RaceInv'
<1>. USE DEF Race!Go, Race!Load, Race!Store
<1>0. /\ raced \in ConsoleRecord /\ at \in Race!Access /\ char \in RaceLog /\ reg \in Reg
      /\ RowInv /\ ColumnInv /\ RegInv
  BY DEF RaceInv, RaceTyped
<1>c. /\ pushed' \in 0..MaxPushed
      /\ pushed' = (IF at \in {"margin", "nl_column"} THEN 0 ELSE pushed)
  BY CountedType DEF Counted
<1>1. CASE Race!Go("nl_row", "nl_row_store") /\ Race!Load(raced.row)
  <2>1. RaceTyped'
    BY <1>0, <1>c, <1>1, FieldTypes DEF RaceTyped, Race!Access, Reg
  <2>2. RowInv' /\ ColumnInv' /\ RegInv'
    BY <1>0, <1>c, <1>1 DEF RowInv, ColumnInv, RegInv, Reg, Below, Rising, Risen, Ahead, Reached
  <2>. QED
    BY <2>1, <2>2 DEF RaceInv
<1>2. CASE /\ Race!Go("nl_row_store", "nl_offset_y")
           /\ Race!Store([raced EXCEPT !.row = Race!Plus(reg.value, Race!PITCH)])
  <2>. DEFINE n == Plus(reg.value, PITCH)
  <2>1. raced' = [raced EXCEPT !.row = n] /\ char' = char
        /\ reg' = [reg EXCEPT !.value = 0] /\ at = "nl_row_store" /\ at' = "nl_offset_y"
    BY <1>2, SameParts, SameSizes
  <2>2. n \in Steps(Lines) /\ n \in Number
    <3>1. reg.value \in Steps(Lines - 1)
      BY <1>0, <1>c, <2>1 DEF RegInv
    <3>2. Lines - 1 \in Nat /\ Lines - 1 <= Lines /\ (Lines - 1) + 1 = Lines
      BY LinesFacts
    <3>. QED
      BY <3>1, <3>2, RowStep, StepsIn
  <2>. HIDE DEF n
  <2>3. RaceTyped'
    BY <1>0, <1>c, <2>1, <2>2, FieldTypes, StepsIn DEF RaceTyped, Race!Access, Reg
  <2>4. raced'.row = n /\ raced'.column = raced.column
    BY <1>0, <1>c, <2>1 DEF ConsoleRecord
  <2>5. RowInv' /\ ColumnInv' /\ RegInv'
    BY <1>0, <1>c, <2>1, <2>2, <2>4 DEF RowInv, ColumnInv, RegInv, Below, Rising, Risen, Ahead, Reached
  <2>. QED
    BY <2>3, <2>5 DEF RaceInv
<1>3. CASE Race!Go("nl_offset_y", "nl_offset_y_store") /\ Race!Load(raced.offset_y)
  <2>1. RaceTyped'
    BY <1>0, <1>c, <1>3, FieldTypes DEF RaceTyped, Race!Access, Reg
  <2>2. RowInv' /\ ColumnInv' /\ RegInv'
    BY <1>0, <1>c, <1>3 DEF RowInv, ColumnInv, RegInv, Reg, Below, Rising, Risen, Ahead, Reached
  <2>. QED
    BY <2>1, <2>2 DEF RaceInv
<1>4. CASE /\ Race!Go("nl_offset_y_store", "nl_column")
           /\ Race!Store([raced EXCEPT !.offset_y = Race!Plus(reg.value, 1)])
  <2>1. Race!Plus(reg.value, 1) \in Number
    BY <1>0, <1>c, NumberPlus, SameParts DEF Reg
  <2>2. RaceTyped'
    BY <1>0, <1>c, <1>4, <2>1, FieldTypes, StepsIn DEF RaceTyped, Race!Access, Reg
  <2>3. raced'.row = raced.row /\ raced'.column = raced.column
    BY <1>0, <1>c, <1>4 DEF ConsoleRecord
  <2>4. RowInv' /\ ColumnInv' /\ RegInv'
    BY <1>0, <1>c, <1>4, <2>3 DEF RowInv, ColumnInv, RegInv, Below, Rising, Risen, Ahead, Reached
  <2>. QED
    BY <2>2, <2>4 DEF RaceInv
<1>5. CASE /\ Race!Go("nl_column", "nl_offset_x")
           /\ Race!Store([raced EXCEPT !.column = 0])
  <2>1. RaceTyped'
    BY <1>0, <1>c, <1>5, FieldTypes, StepsIn DEF RaceTyped, Race!Access, Reg
  <2>2. raced'.row = raced.row /\ raced'.column = 0
    BY <1>0, <1>c, <1>5 DEF ConsoleRecord
  <2>3. pushed' = 0 /\ 0 + BITMAP_SIZE <= WIDTH + PITCH * 0
    BY <1>c, <1>5, SizeFacts
  <2>4. RowInv' /\ ColumnInv' /\ RegInv'
    BY <1>0, <1>5, <2>2, <2>3 DEF RowInv, ColumnInv, RegInv, Below, Rising, Risen, Ahead, Reached
  <2>. QED
    BY <2>1, <2>4 DEF RaceInv
<1>6. CASE /\ Race!Go("nl_offset_x", "scroll")
           /\ Race!Store([raced EXCEPT !.offset_x = 0])
  <2>1. RaceTyped'
    BY <1>0, <1>c, <1>6, FieldTypes, StepsIn DEF RaceTyped, Race!Access, Reg
  <2>2. raced'.row = raced.row /\ raced'.column = raced.column
    BY <1>0, <1>c, <1>6 DEF ConsoleRecord
  <2>3. RowInv' /\ ColumnInv' /\ RegInv'
    BY <1>0, <1>c, <1>6, <2>2 DEF RowInv, ColumnInv, RegInv, Below, Rising, Risen, Ahead, Reached
  <2>. QED
    BY <2>1, <2>3 DEF RaceInv
<1>. QED
  BY <1>1, <1>2, <1>3, <1>4, <1>5, <1>6 DEF Race!NewlineSteps

\* scroll
LEMMA ScrollKeepsRace ==
  ASSUME TwoLines, RaceInv, Counted, Race!ScrollSteps
  PROVE  RaceInv'
<1>. USE DEF Race!Go, Race!Load, Race!Store
<1>0. /\ raced \in ConsoleRecord /\ at \in Race!Access /\ char \in RaceLog /\ reg \in Reg
      /\ RowInv /\ ColumnInv /\ RegInv
  BY DEF RaceInv, RaceTyped
<1>c. /\ pushed' \in 0..MaxPushed
      /\ pushed' = (IF at \in {"margin", "nl_column"} THEN 0 ELSE pushed)
  BY CountedType DEF Counted
<1>. DEFINE next == Race!Scrolled
<1>x. /\ next \in {"idle", "args_row"}
      /\ next = "args_row" => char # NL /\ ~reg.drawn
  BY DEF Race!Scrolled
<1>. HIDE DEF next
<1>1. CASE Race!Go("scroll", IF Race!Scrolls(raced) THEN "move" ELSE Race!Scrolled)
             /\ UNCHANGED <<raced, reg>>
  <2>1. /\ at = "scroll" /\ at' = (IF Scrolls(raced) THEN "move" ELSE next)
        /\ raced' = raced /\ reg' = reg /\ char' = char
    BY <1>1, SameParts DEF next
  <2>2. RaceTyped'
    BY <1>0, <1>c, <1>x, <2>1 DEF RaceTyped, Race!Access
  <2>3. raced.row \in (IF Scrolls(raced) THEN Last ELSE Steps(Lines - 1))
    BY <1>0, <1>c, <2>1, ScrollsLast DEF RowInv, Below, Rising
  <2>4. RowInv'
    BY <1>x, <2>1, <2>3 DEF RowInv, Below, Rising
  <2>5. ColumnInv'
    BY <1>0, <1>c, <1>x, <2>1 DEF ColumnInv, Rising, Risen, Ahead, Reached
  <2>6. RegInv'
    BY <1>0, <1>c, <1>x, <2>1 DEF RegInv
  <2>. QED
    BY <2>2, <2>4, <2>5, <2>6 DEF RaceInv
<1>2. CASE /\ Race!Go("move", "up_row")
           /\ Race!Store([raced EXCEPT !.screen = Race!MovedUp(@),
                                       !.prompt = Race!PromptUp(@)])
  <2>. DEFINE pic == MovedUp(raced.screen)
              p == PromptUp(raced.prompt)
  <2>1. /\ pic \in [Rows -> [Columns -> Place]]
        /\ p \in [row : Rows, text : Seq(Place)] \cup {NONE}
    BY <1>0, <1>c, MovedUpType, PromptUpType DEF ConsoleRecord
  <2>2. raced' = [raced EXCEPT !.screen = pic, !.prompt = p]
    BY <1>2, SameParts
  <2>. HIDE DEF pic, p
  <2>3. raced' \in ConsoleRecord /\ raced'.row = raced.row /\ raced'.column = raced.column
    BY <1>0, <1>c, <2>1, <2>2 DEF ConsoleRecord
  <2>4. /\ at = "move" /\ at' = "up_row" /\ char' = char
        /\ reg' = [reg EXCEPT !.value = 0]
    BY <1>2
  <2>5. RaceTyped'
    BY <1>0, <1>c, <2>3, <2>4, StepsIn DEF RaceTyped, Race!Access, Reg
  <2>6. RowInv' /\ ColumnInv' /\ RegInv'
    BY <1>0, <1>c, <2>3, <2>4 DEF RowInv, ColumnInv, RegInv, Below, Rising, Risen, Ahead, Reached
  <2>. QED
    BY <2>5, <2>6 DEF RaceInv
<1>3. CASE Race!Go("up_row", "up_row_store") /\ Race!Load(raced.row)
  <2>1. RaceTyped'
    BY <1>0, <1>c, <1>3, FieldTypes DEF RaceTyped, Race!Access, Reg
  <2>2. RowInv' /\ ColumnInv' /\ RegInv'
    BY <1>0, <1>c, <1>3 DEF RowInv, ColumnInv, RegInv, Reg, Below, Rising, Risen, Ahead, Reached
  <2>. QED
    BY <2>1, <2>2 DEF RaceInv
<1>4. CASE /\ Race!Go("up_row_store", "up_offset_y")
           /\ Race!Store([raced EXCEPT !.row = Race!Plus(reg.value, -Race!PITCH)])
  <2>. DEFINE n == Plus(reg.value, -PITCH)
  <2>1. raced' = [raced EXCEPT !.row = n] /\ char' = char
        /\ reg' = [reg EXCEPT !.value = 0] /\ at = "up_row_store" /\ at' = "up_offset_y"
    BY <1>4, SameParts, SameSizes
  <2>2. n \in Steps(Lines - 1) /\ n \in Number
    <3>1. reg.value \in Last
      BY <1>0, <1>c, <2>1 DEF RegInv
    <3>. QED
      BY <3>1, LastStep, StepsIn
  <2>. HIDE DEF n
  <2>3. RaceTyped'
    BY <1>0, <1>c, <2>1, <2>2, FieldTypes, StepsIn DEF RaceTyped, Race!Access, Reg
  <2>4. raced'.row = n /\ raced'.column = raced.column
    BY <1>0, <1>c, <2>1 DEF ConsoleRecord
  <2>5. RowInv' /\ ColumnInv' /\ RegInv'
    BY <1>0, <1>c, <2>1, <2>2, <2>4 DEF RowInv, ColumnInv, RegInv, Below, Rising, Risen, Ahead, Reached
  <2>. QED
    BY <2>3, <2>5 DEF RaceInv
<1>5. CASE Race!Go("up_offset_y", "up_offset_y_store") /\ Race!Load(raced.offset_y)
  <2>1. RaceTyped'
    BY <1>0, <1>c, <1>5, FieldTypes DEF RaceTyped, Race!Access, Reg
  <2>2. RowInv' /\ ColumnInv' /\ RegInv'
    BY <1>0, <1>c, <1>5 DEF RowInv, ColumnInv, RegInv, Reg, Below, Rising, Risen, Ahead, Reached
  <2>. QED
    BY <2>1, <2>2 DEF RaceInv
<1>6. CASE /\ Race!Go("up_offset_y_store", Race!Scrolled)
           /\ Race!Store([raced EXCEPT !.offset_y = Race!Plus(reg.value, -1)])
  <2>1. Race!Plus(reg.value, -1) \in Number
    BY <1>0, <1>c, NumberPlus, SameParts DEF Reg
  <2>2. /\ at = "up_offset_y_store" /\ at' = next /\ char' = char
        /\ reg' = [reg EXCEPT !.value = 0]
    BY <1>6 DEF next
  <2>3. RaceTyped'
    BY <1>0, <1>c, <1>x, <1>6, <2>1, <2>2, FieldTypes, StepsIn DEF RaceTyped, Race!Access, Reg
  <2>4. raced'.row = raced.row /\ raced'.column = raced.column
    BY <1>0, <1>c, <1>6 DEF ConsoleRecord
  <2>5. RowInv' /\ ColumnInv' /\ RegInv'
    BY <1>0, <1>c, <1>x, <2>2, <2>4 DEF RowInv, ColumnInv, RegInv, Below, Rising, Risen, Ahead, Reached
  <2>. QED
    BY <2>3, <2>5 DEF RaceInv
<1>. QED
  BY <1>1, <1>2, <1>3, <1>4, <1>5, <1>6 DEF Race!ScrollSteps

\* A character.
LEMMA GlyphKeepsRace ==
  ASSUME RaceInv, Counted, Race!GlyphSteps
  PROVE  RaceInv'
<1>. USE DEF Race!Go, Race!Load, Race!Store
<1>0. /\ raced \in ConsoleRecord /\ at \in Race!Access /\ char \in RaceLog /\ reg \in Reg
      /\ RowInv /\ ColumnInv /\ RegInv
  BY DEF RaceInv, RaceTyped
<1>c. /\ pushed' \in 0..MaxPushed
      /\ pushed' = (IF at \in {"margin", "nl_column"} THEN 0 ELSE pushed)
  BY CountedType DEF Counted
<1>1. CASE Race!Go("margin", IF Race!AtMargin(raced) THEN "nl_row" ELSE "args_row")
             /\ UNCHANGED <<raced, reg>>
  <2>1. /\ at = "margin" /\ at' = (IF AtMargin(raced) THEN "nl_row" ELSE "args_row")
        /\ raced' = raced /\ reg' = reg /\ char' = char
    BY <1>1, SameParts
  <2>2. RaceTyped'
    BY <1>0, <1>c, <2>1 DEF RaceTyped, Race!Access
  <2>3. pushed' = 0 /\ (~AtMargin(raced) => raced.column + BITMAP_SIZE <= WIDTH + PITCH * 0)
    <3>1. raced.column \in Nat
      BY <1>0, SizeFacts DEF ConsoleRecord, Number
    <3>2. ~AtMargin(raced) => raced.column < WIDTH - 2 * BITMAP_SIZE
      BY <3>1, SizeFacts DEF AtMargin
    <3>. QED
      BY <1>c, <2>1, <3>1, <3>2, MarginColumn
  <2>4. RowInv'
    BY <1>0, <1>c, <2>1 DEF RowInv, Below, Rising
  <2>5. ColumnInv'
    BY <1>0, <1>c, <2>1, <2>3 DEF ColumnInv, Rising, Risen, Ahead, Reached
  <2>6. RegInv'
    BY <1>0, <1>c, <2>1 DEF RegInv
  <2>. QED
    BY <2>2, <2>4, <2>5, <2>6 DEF RaceInv
<1>2. CASE /\ Race!Go("args_row", "args_column")
           /\ reg' = [reg EXCEPT !.row = raced.row]
           /\ UNCHANGED raced
  <2>1. RaceTyped'
    BY <1>0, <1>c, <1>2, FieldTypes DEF RaceTyped, Race!Access, Reg
  <2>2. RowInv' /\ ColumnInv' /\ RegInv'
    BY <1>0, <1>c, <1>2 DEF RowInv, ColumnInv, RegInv, Reg, Below, Rising, Risen, Ahead, Reached
  <2>. QED
    BY <2>1, <2>2 DEF RaceInv
<1>3. CASE Race!Go("args_column", "draw") /\ Race!Load(raced.column)
  <2>1. RaceTyped'
    BY <1>0, <1>c, <1>3, FieldTypes DEF RaceTyped, Race!Access, Reg
  <2>2. RowInv' /\ ColumnInv' /\ RegInv'
    BY <1>0, <1>c, <1>3 DEF RowInv, ColumnInv, RegInv, Reg, Below, Rising, Risen, Ahead, Reached
  <2>. QED
    BY <2>1, <2>2 DEF RaceInv
<1>4. CASE /\ Race!Go("draw", "column")
           /\ raced' = [Race!Drawn(raced, reg.value, reg.row, char)
                        EXCEPT !.inside = raced.inside]
           /\ reg' = [value |-> 0, row |-> 0, drawn |-> TRUE]
  <2>1. char \in Shape
    BY <1>0, <1>4, RaceChars DEF RegInv
  <2>. DEFINE d == Drawn(raced, reg.value, reg.row, char)
  <2>2. raced' = [d EXCEPT !.inside = raced.inside]
    BY <1>4, SameDrawn
  <2>3. d \in ConsoleRecord /\ d.row = raced.row /\ d.column = raced.column
    BY <1>0, <2>1, DrawnLoose
  <2>. HIDE DEF d
  <2>4. raced' \in ConsoleRecord /\ raced'.row = raced.row /\ raced'.column = raced.column
    BY <1>0, <2>2, <2>3 DEF ConsoleRecord
  <2>5. /\ at = "draw" /\ at' = "column" /\ char' = char
        /\ reg' = [value |-> 0, row |-> 0, drawn |-> TRUE]
    BY <1>4
  <2>6. RaceTyped'
    BY <1>0, <1>c, <2>4, <2>5, StepsIn DEF RaceTyped, Race!Access, Reg
  <2>7. RowInv' /\ ColumnInv' /\ RegInv'
    BY <1>0, <1>c, <2>4, <2>5 DEF RowInv, ColumnInv, RegInv, Reg, Below, Rising, Risen, Ahead
  <2>. QED
    BY <2>6, <2>7 DEF RaceInv
<1>5. CASE Race!Go("column", "column_store") /\ Race!Load(raced.column)
  <2>1. RaceTyped'
    BY <1>0, <1>c, <1>5, FieldTypes DEF RaceTyped, Race!Access, Reg
  <2>2. RowInv' /\ ColumnInv' /\ RegInv'
    BY <1>0, <1>c, <1>5 DEF RowInv, ColumnInv, RegInv, Reg, Below, Rising, Risen, Ahead, Reached
  <2>. QED
    BY <2>1, <2>2 DEF RaceInv
<1>6. CASE /\ Race!Go("column_store", "offset_x")
           /\ Race!Store([raced EXCEPT !.column = Race!Plus(reg.value, Race!PITCH)])
  <2>. DEFINE n == Plus(reg.value, PITCH)
  <2>1. raced' = [raced EXCEPT !.column = n] /\ char' = char
        /\ reg' = [reg EXCEPT !.value = 0] /\ at = "column_store" /\ at' = "offset_x"
    BY <1>6, SameParts, SameSizes
  <2>2. n \in Number
    BY <1>0, NumberPlus DEF Reg
  <2>. HIDE DEF n
  <2>3. RaceTyped'
    BY <1>0, <1>c, <2>1, <2>2, FieldTypes, StepsIn DEF RaceTyped, Race!Access, Reg
  <2>4. raced'.column = n /\ raced'.row = raced.row
    BY <1>0, <1>c, <2>1 DEF ConsoleRecord
  <2>5. RowInv' /\ ColumnInv' /\ RegInv'
    BY <1>0, <1>c, <2>1, <2>2, <2>4 DEF RowInv, ColumnInv, RegInv, Below, Rising, Risen, Ahead, Reached
  <2>. QED
    BY <2>3, <2>5 DEF RaceInv
<1>7. CASE Race!Go("offset_x", "offset_x_store") /\ Race!Load(raced.offset_x)
  <2>1. RaceTyped'
    BY <1>0, <1>c, <1>7, FieldTypes DEF RaceTyped, Race!Access, Reg
  <2>2. RowInv' /\ ColumnInv' /\ RegInv'
    BY <1>0, <1>c, <1>7 DEF RowInv, ColumnInv, RegInv, Reg, Below, Rising, Risen, Ahead, Reached
  <2>. QED
    BY <2>1, <2>2 DEF RaceInv
<1>8. CASE /\ Race!Go("offset_x_store", "scroll")
           /\ Race!Store([raced EXCEPT !.offset_x = Race!Plus(reg.value, 1)])
  <2>1. Race!Plus(reg.value, 1) \in Number
    BY <1>0, <1>c, NumberPlus, SameParts DEF Reg
  <2>2. RaceTyped'
    BY <1>0, <1>c, <1>8, <2>1, FieldTypes, StepsIn DEF RaceTyped, Race!Access, Reg
  <2>3. raced'.row = raced.row /\ raced'.column = raced.column
    BY <1>0, <1>c, <1>8 DEF ConsoleRecord
  <2>4. RowInv' /\ ColumnInv' /\ RegInv'
    BY <1>0, <1>c, <1>8, <2>3, StepsIn DEF RowInv, ColumnInv, RegInv, Below, Rising, Risen, Ahead, Reached
  <2>. QED
    BY <2>2, <2>4 DEF RaceInv
<1>. QED
  BY <1>1, <1>2, <1>3, <1>4, <1>5, <1>6, <1>7, <1>8 DEF Race!GlyphSteps

LEMMA ThreadKeepsRace ==
  ASSUME TwoLines, RaceInv, Race!Thread
  PROVE  RaceInv'
<1>1. Counted
  BY DEF Race!Thread, Counted
<1>. QED
  BY <1>1, BeginKeepsRace, NewlineKeepsRace, ScrollKeepsRace, GlyphKeepsRace
     DEF Race!Thread

LEMMA RaceStep ==
  ASSUME TwoLines, RaceInv, [Race!Next]_(Race!vars)
  PROVE  RaceInv'
<1>1. CASE UNCHANGED Race!vars
  BY <1>1 DEF Race!vars, RaceInv, RaceTyped, RowInv, ColumnInv, RegInv, Reached
<1>2. CASE Race!Next
  BY <1>2, ThreadKeepsRace, KeyKeepsRace, ArrowKeepsRace DEF Race!Next
<1>. QED
  BY <1>1, <1>2

LEMMA RaceInvariant == TwoLines /\ Race!Spec => []RaceInv
<1>. SUFFICES ASSUME TwoLines PROVE Race!Spec => []RaceInv
  OBVIOUS
<1>1. RaceInv /\ [Race!Next]_(Race!vars) => RaceInv'
  BY RaceStep
<1>. QED
  BY <1>1, RaceInitInv, PTL DEF Race!Spec

\* ConsoleRace: wherever keys interrupt the thread, the console keeps its types.
THEOREM RaceIsTyped == TwoLines /\ Race!Spec => []Race!TypeOK
<1>1. RaceInv => Race!TypeOK
  BY SameRecord DEF RaceInv, RaceTyped, Race!TypeOK, Reg, Number
<1>. QED
  BY <1>1, RaceInvariant, PTL

LEMMA TextRow ==
  ASSUME NEW row \in Steps(Lines - 1)
  PROVE  row \div PITCH \in TextRows
<1>1. PICK k \in 0..(Lines - 1) : row = k * PITCH
  BY DEF Steps
<1>2. row \div PITCH = k
  BY <1>1, DivMultiple, LinesFacts, SizeFacts
<1>. QED
  BY <1>1, <1>2, LinesFacts

\* scroll and newline against the handler: the row the next character goes to
\* is on the page, if the page has two lines.
THEOREM RowStaysOnPage == TwoLines /\ Race!Spec => []Race!RowOnPage
<1>1. RaceInv => Race!RowOnPage
  BY TextRow, SameSizes DEF Race!RowOnPage, RaceInv, RowInv, Below, Rising
<1>. QED
  BY <1>1, RaceInvariant, PTL

\* Only the handler's glyphs are counted in inside.
LEMMA InsideStep ==
  ASSUME RaceInv, raced.inside, [Race!Next]_(Race!vars)
  PROVE  raced'.inside
<1>0. raced \in ConsoleRecord /\ char \in RaceLog /\ reg \in Reg /\ RowInv /\ RegInv
  BY DEF RaceInv, RaceTyped
<1>1. CASE UNCHANGED Race!vars
  BY <1>1 DEF Race!vars
<1>2. CASE Race!Begin
  BY <1>2 DEF Race!Begin
<1>3. CASE Race!NewlineSteps
  BY <1>0, <1>3 DEF Race!NewlineSteps, Race!Load, Race!Store, ConsoleRecord
<1>4. CASE Race!ScrollSteps
  BY <1>0, <1>4 DEF Race!ScrollSteps, Race!Load, Race!Store, ConsoleRecord
<1>5. CASE Race!GlyphSteps
  <2>. DEFINE d == Race!Drawn(raced, reg.value, reg.row, char)
  <2>1. CASE Race!Go("draw", "column") /\ raced' = [d EXCEPT !.inside = raced.inside]
    <3>1. char \in Shape
      BY <1>0, <2>1, RaceChars DEF RegInv, Race!Go
    <3>2. d \in ConsoleRecord
      BY <1>0, <3>1, SameDrawn, DrawnLoose
    <3>. HIDE DEF d
    <3>. QED
      BY <2>1, <3>2 DEF ConsoleRecord
  <2>2. CASE ~(Race!Go("draw", "column") /\ raced' = [d EXCEPT !.inside = raced.inside])
    BY <1>0, <1>5, <2>2 DEF Race!GlyphSteps, Race!Load, Race!Store, ConsoleRecord
  <2>. QED
    BY <2>1, <2>2
<1>6. CASE \E k \in RaceKeys : Race!Key(k)
  <2>1. PICK k \in RaceKeys : Race!Key(k)
    BY <1>6
  <2>2. raced' = putch(raced, k)
    BY <2>1, Sameputch DEF Race!Key
  <2>3. Loose(raced)
    BY <1>0, StepsIn DEF RowInv, Loose
  <2>. QED
    BY <2>2, <2>3, RaceChars, putchKind DEF Kind
<1>7. CASE Race!Arrow(1) \/ Race!Arrow(-1)
  BY <1>7, ArrowKeepsRace
<1>. QED
  BY <1>1, <1>2, <1>3, <1>4, <1>5, <1>6, <1>7 DEF Race!Next, Race!Thread

\* bitmapPC on the thread against the handler's keys and arrows: the handler's
\* glyphs are drawn within their line and the thread's no further from it than what
\* came in since the margin test, and the row stays on the page.
THEOREM RaceStaysInside == TwoLines /\ Race!Spec => []RacedOnPage
<1>. SUFFICES ASSUME TwoLines PROVE Race!Spec => []RacedOnPage
  OBVIOUS
<1>1. Race!Init => raced.inside
  BY SameRecord DEF Race!Init
<1>2. RaceInv /\ raced.inside /\ [Race!Next]_(Race!vars) => (raced.inside)'
  BY InsideStep
<1>3. Race!Spec => []RaceInv
  BY RaceInvariant
<1>4. Race!Spec => [](raced.inside)
  BY <1>1, <1>2, <1>3, PTL DEF Race!Spec
<1>5. Race!Spec => []Race!RowOnPage
  BY RowStaysOnPage
<1>6. raced.inside <=> Race!DrawnInside
  BY DEF Race!DrawnInside
<1>7. RaceInv => Race!DrawnNear
  <2>. SUFFICES ASSUME RaceInv, at = "draw"
                PROVE  /\ reg.value + BITMAP_SIZE <= WIDTH + PITCH * pushed
                       /\ reg.row \div PITCH \in TextRows
    BY SameSizes DEF Race!DrawnNear
  <2>1. Reached(reg.value) /\ reg.row \in Steps(Lines - 1)
    BY DEF RaceInv, RegInv
  <2>. QED
    BY <2>1, TextRow DEF Reached
<1>. QED
  BY <1>3, <1>4, <1>5, <1>6, <1>7, PTL DEF RacedOnPage

-----------------------------------------------------------------------------
(* The bytes of the framebuffer (Framebuffer).                             *)

\* The bytes there are, and the first one of a pixel.
FbBytes == 0..(pitch * HEIGHT - 1)
Spot(x, y) == y * pitch + x * 4

PixelRecord == [red : Int, green : Int, blue : Int]
Channels(pixel) == <<pixel.red, pixel.green, pixel.blue>>

LEMMA PitchFacts ==
  /\ pitch \in Nat /\ pitch >= 4 * WIDTH /\ pitch % 4 = 0 /\ pitch > 0
  /\ WIDTH \in Nat /\ HEIGHT \in Nat /\ HEIGHT > 0
  /\ 4 * WIDTH < 65536 /\ HEIGHT < 65536
BY SizeFacts, ScreenAssumption

LEMMA SpotInside ==
  ASSUME NEW x \in Nat, x < WIDTH, NEW y \in Nat, y < HEIGHT, NEW k \in 0..2
  PROVE  /\ Spot(x, y) \in Nat
         /\ Spot(x, y) + k < (y + 1) * pitch
         /\ Spot(x, y) + k \in FbBytes
<1>. DEFINE w == pitch
<1>1. /\ w \in Nat /\ x * 4 + k < w /\ x * 4 \in Nat /\ y + 1 \in Nat
      /\ HEIGHT \in Nat /\ y + 1 <= HEIGHT
  BY PitchFacts
<1>. HIDE DEF w
<1>2. (y + 1) * w <= HEIGHT * w /\ (y + 1) * w = y * w + w /\ y * w \in Nat
      /\ HEIGHT * w = w * HEIGHT /\ w * HEIGHT \in Nat
  BY <1>1, MultiplyMonotone
<1>3. Spot(x, y) = y * w + x * 4
  BY DEF Spot, w
<1>4. Spot(x, y) \in Nat /\ Spot(x, y) + k < y * w + w /\ Spot(x, y) + k \in Nat
  BY <1>1, <1>2, <1>3
<1>5. Spot(x, y) + k \in 0..(w * HEIGHT - 1)
  BY <1>1, <1>2, <1>4
<1>. QED
  BY <1>2, <1>4, <1>5 DEF FbBytes, w

\* No byte is of two pixels.
LEMMA SpotsApart ==
  ASSUME NEW x \in Nat, x < WIDTH, NEW y \in Nat, NEW k \in 0..2,
         NEW u \in Nat, u < WIDTH, NEW v \in Nat, NEW l \in 0..2,
         Spot(x, y) + k = Spot(u, v) + l
  PROVE  x = u /\ y = v /\ k = l
<1>. DEFINE w == pitch
<1>1. w \in Nat /\ x * 4 + k < w /\ u * 4 + l < w /\ x * 4 \in Nat /\ u * 4 \in Nat
  BY PitchFacts
<1>. HIDE DEF w
<1>2. y * w + x * 4 + k = v * w + u * 4 + l
  BY DEF Spot, w
<1>3. y * w \in Nat /\ v * w \in Nat /\ (y + 1) * w = y * w + w /\ (v + 1) * w = v * w + w
  BY <1>1
<1>4. ~(y + 1 <= v)
  <2>1. y + 1 <= v => (y + 1) * w <= v * w
    BY <1>1, MultiplyMonotone
  <2>. QED
    BY <1>1, <1>2, <1>3, <2>1
<1>5. ~(v + 1 <= y)
  <2>1. v + 1 <= y => (v + 1) * w <= y * w
    BY <1>1, MultiplyMonotone
  <2>. QED
    BY <1>1, <1>2, <1>3, <2>1
<1>6. y = v
  BY <1>4, <1>5
<1>7. x * 4 + k = u * 4 + l
  BY <1>1, <1>2, <1>3, <1>6
<1>. QED
  BY <1>6, <1>7

\* PutPixel writes the bytes of its pixel, and no others.
LEMMA PutPixelWrites ==
  ASSUME NEW b \in [FbBytes -> Int], NEW x \in Nat, x < WIDTH, NEW y \in Nat, y < HEIGHT,
         NEW pixel \in PixelRecord
  PROVE  LET t == Screen!PutPixel(b, x, y, pixel)
         IN  /\ t \in [FbBytes -> Int]
             /\ \A k \in 0..2 : t[Spot(x, y) + k] = Channels(pixel)[k + 1]
             /\ \A p \in FbBytes : (\A k \in 0..2 : p # Spot(x, y) + k) => t[p] = b[p]
<1>. DEFINE s == Spot(x, y)
<1>1. s \in Nat /\ s \in FbBytes /\ s + 1 \in FbBytes /\ s + 2 \in FbBytes
  <2>1. s \in Nat /\ s + 0 \in FbBytes /\ s + 1 \in FbBytes /\ s + 2 \in FbBytes
    BY SpotInside
  <2>. HIDE DEF s
  <2>2. s + 0 = s
    BY <2>1
  <2>. QED
    BY <2>1, <2>2
<1>2. y % 65536 = y /\ x % 65536 = x
  BY PitchFacts
<1>3. Screen!PutPixel(b, x, y, pixel) =
        [b EXCEPT ![s] = pixel.red, ![s + 1] = pixel.green, ![s + 2] = pixel.blue]
  <2>1. (y % Screen!U16) * pitch + (x % Screen!U16) * (Screen!bpp \div 8) = s
    BY <1>2 DEF Screen!U16, Screen!bpp, Spot
  <2>. HIDE DEF s
  <2>. QED
    BY <2>1 DEF Screen!PutPixel
<1>4. pixel.red \in Int /\ pixel.green \in Int /\ pixel.blue \in Int
  BY DEF PixelRecord
<1>. HIDE DEF s
<1>. DEFINE t == [b EXCEPT ![s] = pixel.red, ![s + 1] = pixel.green, ![s + 2] = pixel.blue]
<1>5. t \in [FbBytes -> Int]
  BY <1>1, <1>4
<1>6. t[s] = pixel.red /\ t[s + 1] = pixel.green /\ t[s + 2] = pixel.blue
  BY <1>1, <1>4
<1>7. \A p \in FbBytes : p # s /\ p # s + 1 /\ p # s + 2 => t[p] = b[p]
  OBVIOUS
<1>. HIDE DEF t
<1>8. ASSUME NEW k \in 0..2 PROVE t[s + k] = Channels(pixel)[k + 1]
  <2>1. CASE k = 0
    BY <1>1, <1>6, <2>1 DEF Channels
  <2>2. CASE k = 1
    BY <1>6, <2>2 DEF Channels
  <2>3. CASE k = 2
    BY <1>6, <2>3 DEF Channels
  <2>. QED
    BY <2>1, <2>2, <2>3
<1>9. ASSUME NEW p \in FbBytes, \A k \in 0..2 : p # s + k PROVE t[p] = b[p]
  <2>1. p # s + 0 /\ p # s + 1 /\ p # s + 2 /\ s + 0 = s
    BY <1>1, <1>9
  <2>. QED
    BY <1>7, <2>1
<1>10. Screen!PutPixel(b, x, y, pixel) = t
  BY <1>3 DEF t
<1>. QED
  BY <1>5, <1>8, <1>9, <1>10 DEF s

-----------------------------------------------------------------------------
(* The loops of DrawAlphaBitmap: turn k is row i of the glyph, and bit j.   *)

Turns == BITMAP_SIZE * BITMAP_SIZE
GlyphLine(k) == (k - 1) \div BITMAP_SIZE
GlyphBit(k) == (k - 1) % BITMAP_SIZE
Dot(ch, pixel, i, j) == IF Screen!Bit(font[ch][i + 1], j) THEN pixel ELSE Screen!black_pixel

LEMMA TurnsFacts ==
  /\ Turns \in Nat
  /\ \A k \in 1..Turns :
       /\ GlyphLine(k) \in 0..(BITMAP_SIZE - 1) /\ GlyphBit(k) \in 0..(BITMAP_SIZE - 1)
       /\ k = GlyphLine(k) * BITMAP_SIZE + GlyphBit(k) + 1
  /\ \A i, j \in 0..(BITMAP_SIZE - 1) :
       LET k == i * BITMAP_SIZE + j + 1
       IN  k \in 1..Turns /\ GlyphLine(k) = i /\ GlyphBit(k) = j
<1>. DEFINE b == BITMAP_SIZE
<1>0. b \in Nat /\ b > 0
  BY SizeFacts
<1>. HIDE DEF b
<1>1. b * b \in Nat
  BY <1>0
<1>2. ASSUME NEW k \in 1..(b * b)
      PROVE  /\ (k - 1) \div b \in 0..(b - 1) /\ (k - 1) % b \in 0..(b - 1)
             /\ k = ((k - 1) \div b) * b + ((k - 1) % b) + 1
  <2>. DEFINE i == (k - 1) \div b  j == (k - 1) % b
  <2>1. k - 1 \in Nat /\ k - 1 < b * b
    BY <1>1
  <2>2. i \in Nat /\ j \in 0..(b - 1) /\ k - 1 = i * b + j
    BY <1>0, <2>1
  <2>. HIDE DEF i, j
  <2>3. ~(b <= i)
    <3>1. b <= i => b * b <= i * b
      BY <1>0, <2>2, MultiplyMonotone
    <3>2. i * b \in Nat
      BY <1>0, <2>2
    <3>. QED
      BY <1>1, <2>1, <2>2, <3>1, <3>2
  <2>4. i \in 0..(b - 1)
    BY <1>0, <2>2, <2>3
  <2>5. i * b \in Nat
    BY <1>0, <2>2
  <2>6. k = i * b + j + 1
    BY <2>2, <2>5
  <2>. QED
    BY <2>2, <2>4, <2>6 DEF i, j
<1>3. ASSUME NEW i \in 0..(b - 1), NEW j \in 0..(b - 1)
      PROVE  /\ i * b + j + 1 \in 1..(b * b)
             /\ ((i * b + j + 1) - 1) \div b = i /\ ((i * b + j + 1) - 1) % b = j
  <2>1. i * b \in Nat /\ (i + 1) * b = i * b + b /\ i + 1 <= b /\ i \in Int /\ i + 1 \in Int
        /\ j \in Nat /\ j < b
    BY <1>0
  <2>2. (i + 1) * b <= b * b
    BY <1>0, <2>1, MultiplyMonotone
  <2>. DEFINE m == i * b
  <2>0. m \in Nat /\ m + b <= b * b /\ m = i * b /\ (i + 1) * b = m + b
    BY <2>1, <2>2
  <2>. HIDE DEF m
  <2>a. m \in Nat /\ j \in Nat /\ j < b
    BY <2>0, <2>1
  <2>3. (m + j + 1) - 1 = m + j /\ m + j \in Nat /\ m <= m + j /\ m + j < m + b
    BY <1>0, <2>a
  <2>4. (m + j) \div b = i
    BY <1>0, <2>0, <2>1, <2>3, Quotient
  <2>b. \A z \in Nat : z % b = z - (z \div b) * b
    BY <1>0
  <2>5. (m + j) % b = (m + j) - ((m + j) \div b) * b
    BY <2>3, <2>b
  <2>6. (m + j) % b = j
    BY <2>0, <2>1, <2>4, <2>5
  <2>7. m + j + 1 \in 1..(b * b)
    <3>1. b * b \in Nat /\ m + b <= b * b /\ j + 1 <= b /\ m + j + 1 \in Nat /\ m + j + 1 >= 1
      BY <1>0, <1>1, <2>0, <2>a
    <3>2. m + j + 1 <= b * b
      BY <1>0, <2>a, <3>1
    <3>. QED
      BY <3>1, <3>2
  <2>. QED
    BY <2>3, <2>4, <2>6, <2>7 DEF m
<1>. QED
  BY <1>1, <1>2, <1>3 DEF Turns, GlyphLine, GlyphBit, b

\* The place of turn k.
TurnX(x, k) == x + BITMAP_SIZE - GlyphBit(k)
TurnY(y, k) == y + GlyphLine(k)

\* There is room for a glyph.
OnScreen(x, y) ==
  /\ x \in Nat /\ x + BITMAP_SIZE < WIDTH
  /\ y \in Nat /\ y + BITMAP_SIZE <= HEIGHT

LEMMA TurnInside ==
  ASSUME NEW x, NEW y, OnScreen(x, y), NEW k \in 1..Turns
  PROVE  /\ TurnX(x, k) \in Nat /\ TurnX(x, k) < WIDTH
         /\ TurnY(y, k) \in Nat /\ TurnY(y, k) < HEIGHT
<1>1. GlyphLine(k) \in 0..(BITMAP_SIZE - 1) /\ GlyphBit(k) \in 0..(BITMAP_SIZE - 1)
  BY TurnsFacts
<1>2. /\ BITMAP_SIZE \in Nat /\ WIDTH \in Nat /\ HEIGHT \in Nat
      /\ x \in Nat /\ x + BITMAP_SIZE < WIDTH /\ y \in Nat /\ y + BITMAP_SIZE <= HEIGHT
  BY SizeFacts DEF OnScreen
<1>. QED
  BY <1>1, <1>2 DEF TurnX, TurnY

LEMMA TurnsDiffer ==
  ASSUME NEW x, NEW y, OnScreen(x, y), NEW k \in 1..Turns, NEW l \in 1..Turns,
         TurnX(x, k) = TurnX(x, l), TurnY(y, k) = TurnY(y, l)
  PROVE  k = l
<1>1. GlyphLine(k) = GlyphLine(l) /\ GlyphBit(k) = GlyphBit(l)
  <2>1. /\ GlyphLine(k) \in Int /\ GlyphBit(k) \in Int
        /\ GlyphLine(l) \in Int /\ GlyphBit(l) \in Int
    BY TurnsFacts
  <2>2. BITMAP_SIZE \in Nat /\ x \in Nat /\ y \in Nat
    BY SizeFacts DEF OnScreen
  <2>. QED
    <3>. DEFINE g == GlyphBit(k)  h == GlyphBit(l)
                i == GlyphLine(k)  j == GlyphLine(l)
                w == BITMAP_SIZE
    <3>1. x + w - g = x + w - h /\ y + i = y + j
      BY DEF TurnX, TurnY
    <3>2. /\ g \in Int /\ h \in Int /\ i \in Int /\ j \in Int
          /\ w \in Int /\ x \in Int /\ y \in Int
      BY <2>1, <2>2
    <3>. HIDE DEF g, h, i, j, w
    <3>4. g = h /\ i = j
      BY <3>1, <3>2
    <3>. QED
      BY <3>4 DEF g, h, i, j
<1>2. /\ k = GlyphLine(k) * BITMAP_SIZE + GlyphBit(k) + 1
      /\ l = GlyphLine(l) * BITMAP_SIZE + GlyphBit(l) + 1
  BY TurnsFacts
<1>. QED
  BY <1>1, <1>2

\* t is the framebuffer b after n turns.
Plotted(b, ch, x, y, pixel, n, t) ==
  /\ t \in [FbBytes -> Int]
  /\ \A k \in 1..n, c \in 0..2 :
       t[Spot(TurnX(x, k), TurnY(y, k)) + c] =
         Channels(Dot(ch, pixel, GlyphLine(k), GlyphBit(k)))[c + 1]
  /\ \A p \in FbBytes :
       (\A k \in 1..n, c \in 0..2 : p # Spot(TurnX(x, k), TurnY(y, k)) + c) => t[p] = b[p]

Turn(t, ch, x, y, pixel, k) ==
  Screen!PutPixel(t, TurnX(x, k), TurnY(y, k), Dot(ch, pixel, GlyphLine(k), GlyphBit(k)))

LEMMA DotIsPixel ==
  ASSUME NEW ch, NEW pixel \in PixelRecord, NEW i, NEW j
  PROVE  Dot(ch, pixel, i, j) \in PixelRecord
<1>1. Screen!black_pixel \in PixelRecord
  BY DEF Screen!black_pixel, Screen!GeneratePixelFG, PixelRecord
<1>. QED
  BY <1>1 DEF Dot

LEMMA TurnPaints ==
  ASSUME NEW b, NEW ch, NEW pixel \in PixelRecord, NEW x, NEW y, OnScreen(x, y),
         NEW n \in 1..Turns, NEW t, Plotted(b, ch, x, y, pixel, n - 1, t)
  PROVE  Plotted(b, ch, x, y, pixel, n, Turn(t, ch, x, y, pixel, n))
<1>. DEFINE dot == Dot(ch, pixel, GlyphLine(n), GlyphBit(n))
            s == Spot(TurnX(x, n), TurnY(y, n))
            u == Turn(t, ch, x, y, pixel, n)
<1>0. t \in [FbBytes -> Int] /\ Turns \in Nat
  BY TurnsFacts DEF Plotted
<1>1. /\ u \in [FbBytes -> Int]
      /\ \A c \in 0..2 : u[s + c] = Channels(dot)[c + 1]
      /\ \A p \in FbBytes : (\A c \in 0..2 : p # s + c) => u[p] = t[p]
  <2>1. dot \in PixelRecord
    BY DotIsPixel
  <2>2. /\ TurnX(x, n) \in Nat /\ TurnX(x, n) < WIDTH
        /\ TurnY(y, n) \in Nat /\ TurnY(y, n) < HEIGHT
    BY TurnInside
  <2>. HIDE DEF dot
  <2>3. u = Screen!PutPixel(t, TurnX(x, n), TurnY(y, n), dot)
    BY DEF Turn, dot
  <2>. HIDE DEF u
  <2>. QED
    BY <1>0, <2>1, <2>2, <2>3, PutPixelWrites
<1>. HIDE DEF u, dot
<1>2. \A k \in 1..n : k = n \/ k \in 1..(n - 1)
  BY <1>0
<1>3. ASSUME NEW k \in 1..n, NEW c \in 0..2
      PROVE  u[Spot(TurnX(x, k), TurnY(y, k)) + c] =
               Channels(Dot(ch, pixel, GlyphLine(k), GlyphBit(k)))[c + 1]
  <2>1. CASE k = n
    BY <1>1, <2>1 DEF dot
  <2>2. CASE k \in 1..(n - 1)
    <3>. DEFINE p == Spot(TurnX(x, k), TurnY(y, k)) + c
    <3>1. k \in 1..Turns /\ k # n
      BY <1>0, <2>2
    <3>2. p \in FbBytes
      BY <3>1, TurnInside, SpotInside
    <3>3. ASSUME NEW d \in 0..2 PROVE p # s + d
      BY <3>1, TurnInside, SpotsApart, TurnsDiffer
    <3>4. t[p] = Channels(Dot(ch, pixel, GlyphLine(k), GlyphBit(k)))[c + 1]
      BY <2>2 DEF Plotted
    <3>. HIDE DEF p, s
    <3>5. u[p] = t[p]
      BY <1>1, <3>2, <3>3
    <3>. QED
      BY <3>4, <3>5 DEF p
  <2>. QED
    BY <1>2, <2>1, <2>2
<1>4. ASSUME NEW p \in FbBytes,
             \A k \in 1..n, c \in 0..2 : p # Spot(TurnX(x, k), TurnY(y, k)) + c
      PROVE  u[p] = b[p]
  <2>1. n \in 1..n /\ \A k \in 1..(n - 1) : k \in 1..n
    BY <1>0
  <2>2. u[p] = t[p]
    BY <1>1, <1>4, <2>1
  <2>3. t[p] = b[p]
    BY <1>4, <2>1 DEF Plotted
  <2>. QED
    BY <2>2, <2>3
<1>. QED
  BY <1>1, <1>3, <1>4 DEF Plotted, u

\* DrawAlphaBitmap is a fold of turns; f is the recursive function of that fold.
Draws(b, ch, x, y, pixel, D, order, f) ==
  f = [t \in SUBSET D |->
         IF t = {} THEN b
         ELSE Turn(f[t \ {Screen!Max(t)}], ch, x, y, pixel, order[Screen!Max(t)])]

LEMMA ScreenMaxIsGreatest == \A t : Screen!Max(t) = Greatest(t)
BY DEF Screen!Max, Greatest

LEMMA DrawIsFold ==
  ASSUME NEW b, NEW ch, NEW x, NEW y, NEW pixel
  PROVE  LET order == [k \in 1..Turns |-> k]
         IN  Screen!DrawAlphaBitmap(b, ch, x, y, pixel) =
               (CHOOSE f : Draws(b, ch, x, y, pixel, DOMAIN order, order, f))[DOMAIN order]
BY DEF Screen!DrawAlphaBitmap, Screen!FoldLeft, Screen!MapThenFoldSet, Draws, Turn, Turns,
       TurnX, TurnY, GlyphLine, GlyphBit, Dot

LEMMA DrawPlots ==
  ASSUME NEW b \in [FbBytes -> Int], NEW ch, NEW pixel \in PixelRecord, NEW x, NEW y,
         OnScreen(x, y)
  PROVE  Plotted(b, ch, x, y, pixel, Turns, Screen!DrawAlphaBitmap(b, ch, x, y, pixel))
<1>. DEFINE n == Turns
            X == 1..n
            D == [FbBytes -> Int]
            order == [k \in 1..n |-> k]
            op == [p \in D \X X |-> Turn(p[1], ch, x, y, pixel, p[2])]
            f == CHOOSE g : Draws(b, ch, x, y, pixel, 1..n, order, g)
<1>1. /\ n \in Nat /\ order \in Seq(X) /\ DOMAIN order = 1..n /\ n \in 0..Len(order)
      /\ \A k \in 1..n : order[k] = k
  BY TurnsFacts
<1>2. ASSUME NEW t \in D, NEW k \in X PROVE Turn(t, ch, x, y, pixel, k) \in D
  <2>1. Dot(ch, pixel, GlyphLine(k), GlyphBit(k)) \in PixelRecord
    BY DotIsPixel
  <2>2. /\ TurnX(x, k) \in Nat /\ TurnX(x, k) < WIDTH
        /\ TurnY(y, k) \in Nat /\ TurnY(y, k) < HEIGHT
    BY TurnInside
  <2>. QED
    BY <2>1, <2>2, PutPixelWrites DEF Turn
<1>. HIDE DEF order
<1>3. op \in [D \X X -> D]
  BY <1>2
<1>4. \A t \in D, k \in X : op[<<t, k>>] = Turn(t, ch, x, y, pixel, k)
  OBVIOUS
<1>5. PICK h : FoldsOver(op, b, order, n, h) /\ \A t \in SUBSET (1..n) : h[t] \in D
  <2>1. b \in D
    OBVIOUS
  <2>. HIDE DEF op, X, D
  <2>. QED
    BY <1>1, <1>3, <2>1, FoldExists, ZenonT(60)
<1>6. Draws(b, ch, x, y, pixel, 1..n, order, h)
  <2>1. ASSUME NEW t \in SUBSET (1..n), t # {}
        PROVE  op[<<h[t \ {Screen!Max(t)}], order[Screen!Max(t)]>>]
                 = Turn(h[t \ {Screen!Max(t)}], ch, x, y, pixel, order[Screen!Max(t)])
    <3>1. Screen!Max(t) \in 1..n /\ t \ {Screen!Max(t)} \in SUBSET (1..n)
      BY <1>1, <2>1, GreatestOfPositions, ScreenMaxIsGreatest
    <3>2. h[t \ {Screen!Max(t)}] \in D /\ order[Screen!Max(t)] \in X
      BY <1>1, <1>5, <3>1
    <3>. HIDE DEF op, D, X
    <3>. QED
      BY <1>4, <3>2
  <2>. HIDE DEF op, D, X
  <2>2. h = [t \in SUBSET (1..n) |->
               IF t = {} THEN b ELSE op[<<h[t \ {Screen!Max(t)}], order[Screen!Max(t)]>>]]
    BY <1>5, ScreenMaxIsGreatest DEF FoldsOver
  <2>3. h = [t \in SUBSET (1..n) |->
               IF t = {} THEN b
               ELSE Turn(h[t \ {Screen!Max(t)}], ch, x, y, pixel, order[Screen!Max(t)])]
    BY <2>1, <2>2
  <2>. QED
    BY <2>3 DEF Draws
<1>7. Draws(b, ch, x, y, pixel, 1..n, order, f)
  BY <1>6
<1>. HIDE DEF f, op
<1>8. f[{}] = b
  BY <1>7 DEF Draws
<1>. DEFINE P(k) == Plotted(b, ch, x, y, pixel, k, f[1..k])
            S == {k \in 0..n : P(k)}
<1>9. P(0)
  <2>1. 1..0 = {}
    OBVIOUS
  <2>. QED
    BY <1>8, <2>1 DEF Plotted
<1>10. ASSUME NEW k \in 1..n, P(k - 1) PROVE P(k)
  <2>1. /\ 1..k \in SUBSET (1..n) /\ 1..k # {}
        /\ Screen!Max(1..k) = k /\ (1..k) \ {k} = 1..(k - 1)
    BY <1>1, GreatestOfFirst, ScreenMaxIsGreatest
  <2>2. f[1..k] = Turn(f[1..(k - 1)], ch, x, y, pixel, k)
    <3>1. f[1..k] = Turn(f[(1..k) \ {Screen!Max(1..k)}],
                         ch, x, y, pixel, order[Screen!Max(1..k)])
      BY <1>7, <2>1 DEF Draws
    <3>. QED
      BY <1>1, <2>1, <3>1
  <2>. QED
    BY <1>10, <2>2, TurnPaints
<1>. HIDE DEF P
<1>11. 0 \in S /\ \A k \in 1..n : k - 1 \in S => k \in S
  BY <1>1, <1>9, <1>10
<1>. HIDE DEF S
<1>12. \A k \in 0..n : k \in S
  BY <1>1, <1>11, UpTo
<1>13. P(n)
  BY <1>1, <1>12 DEF S
<1>14. Screen!DrawAlphaBitmap(b, ch, x, y, pixel) = f[1..n]
  BY <1>1, DrawIsFold DEF f, order
<1>. QED
  BY <1>13, <1>14 DEF P

\* A glyph has its bits at its pixels, not mirrored, and changes no other pixel.
GlyphIn(b, ch, pixel, x, y, t) ==
  /\ t \in [FbBytes -> Int]
  /\ \A i, j \in 0..(BITMAP_SIZE - 1), k \in 0..2 :
       t[Spot(x + 1 + i, y + j) + k] = Channels(Dot(ch, pixel, j, BITMAP_SIZE - 1 - i))[k + 1]
  /\ \A u, v \in Nat, k \in 0..2 :
       u < WIDTH /\ v < HEIGHT
       /\ ~(u \in (x + 1)..(x + BITMAP_SIZE) /\ v \in y..(y + BITMAP_SIZE - 1))
       => t[Spot(u, v) + k] = b[Spot(u, v) + k]
  /\ \A p \in FbBytes : p >= (y + BITMAP_SIZE) * pitch => t[p] = b[p]

LEMMA GlyphDrawn ==
  ASSUME NEW b \in [FbBytes -> Int], NEW ch, NEW pixel \in PixelRecord, NEW x, NEW y,
         OnScreen(x, y)
  PROVE  GlyphIn(b, ch, pixel, x, y, Screen!DrawAlphaBitmap(b, ch, x, y, pixel))
<1>. DEFINE t == Screen!DrawAlphaBitmap(b, ch, x, y, pixel)
<1>1. Plotted(b, ch, x, y, pixel, Turns, t)
  BY DrawPlots
<1>. HIDE DEF t
<1>2. /\ x \in Nat /\ y \in Nat /\ BITMAP_SIZE \in Nat /\ BITMAP_SIZE > 0
      /\ x + BITMAP_SIZE < WIDTH /\ y + BITMAP_SIZE <= HEIGHT
      /\ WIDTH \in Nat /\ HEIGHT \in Nat
  BY SizeFacts DEF OnScreen
<1>3. ASSUME NEW k \in 1..Turns
      PROVE  /\ GlyphLine(k) \in 0..(BITMAP_SIZE - 1) /\ GlyphBit(k) \in 0..(BITMAP_SIZE - 1)
             /\ TurnX(x, k) \in (x + 1)..(x + BITMAP_SIZE)
             /\ TurnY(y, k) \in y..(y + BITMAP_SIZE - 1)
  <2>1. GlyphLine(k) \in 0..(BITMAP_SIZE - 1) /\ GlyphBit(k) \in 0..(BITMAP_SIZE - 1)
    BY TurnsFacts
  <2>. QED
    BY <1>2, <2>1 DEF TurnX, TurnY
<1>4. ASSUME NEW i \in 0..(BITMAP_SIZE - 1), NEW j \in 0..(BITMAP_SIZE - 1), NEW k \in 0..2
      PROVE  t[Spot(x + 1 + i, y + j) + k] =
               Channels(Dot(ch, pixel, j, BITMAP_SIZE - 1 - i))[k + 1]
  <2>. DEFINE l == j * BITMAP_SIZE + (BITMAP_SIZE - 1 - i) + 1
              h == BITMAP_SIZE - 1 - i
  <2>1. h \in 0..(BITMAP_SIZE - 1)
    BY <1>2
  <2>2. l \in 1..Turns /\ GlyphLine(l) = j /\ GlyphBit(l) = h
    <3>. HIDE DEF h
    <3>1. j * BITMAP_SIZE + h + 1 \in 1..Turns /\ GlyphLine(j * BITMAP_SIZE + h + 1) = j
          /\ GlyphBit(j * BITMAP_SIZE + h + 1) = h
      BY <2>1, TurnsFacts
    <3>2. l = j * BITMAP_SIZE + h + 1
      BY DEF h
    <3>. HIDE DEF l
    <3>. QED
      BY <3>1, <3>2
  <2>3. TurnX(x, l) = x + (BITMAP_SIZE - h) /\ TurnY(y, l) = y + j
    <3>. HIDE DEF l, h
    <3>. QED
      BY <2>2 DEF TurnX, TurnY
  <2>4. x + (BITMAP_SIZE - h) = x + 1 + i
    BY <1>2
  <2>. HIDE DEF l, h
  <2>5. t[Spot(TurnX(x, l), TurnY(y, l)) + k] =
          Channels(Dot(ch, pixel, GlyphLine(l), GlyphBit(l)))[k + 1]
    BY <1>1, <2>2 DEF Plotted
  <2>. QED
    BY <2>2, <2>3, <2>4, <2>5 DEF h
<1>5. ASSUME NEW u \in Nat, NEW v \in Nat, NEW k \in 0..2, u < WIDTH, v < HEIGHT,
             ~(u \in (x + 1)..(x + BITMAP_SIZE) /\ v \in y..(y + BITMAP_SIZE - 1))
      PROVE  t[Spot(u, v) + k] = b[Spot(u, v) + k]
  <2>. DEFINE p == Spot(u, v) + k
  <2>1. p \in FbBytes
    BY <1>5, SpotInside
  <2>2. ASSUME NEW l \in 1..Turns, NEW c \in 0..2 PROVE p # Spot(TurnX(x, l), TurnY(y, l)) + c
    <3>1. /\ TurnX(x, l) \in Nat /\ TurnX(x, l) < WIDTH
          /\ TurnY(y, l) \in Nat /\ TurnY(y, l) < HEIGHT
      BY TurnInside
    <3>2. ~(u = TurnX(x, l) /\ v = TurnY(y, l))
      BY <1>3, <1>5
    <3>. QED
      BY <1>5, <3>1, <3>2, SpotsApart
  <2>. HIDE DEF p
  <2>3. t[p] = b[p]
    BY <1>1, <2>1, <2>2 DEF Plotted
  <2>. QED
    BY <2>3 DEF p
<1>6. ASSUME NEW p \in FbBytes, p >= (y + BITMAP_SIZE) * pitch
      PROVE  t[p] = b[p]
  <2>1. ASSUME NEW l \in 1..Turns, NEW c \in 0..2 PROVE p # Spot(TurnX(x, l), TurnY(y, l)) + c
    <3>. DEFINE v == TurnY(y, l)
                w == pitch
    <3>1. /\ TurnX(x, l) \in Nat /\ TurnX(x, l) < WIDTH /\ v \in Nat /\ v < HEIGHT
      BY TurnInside
    <3>2. Spot(TurnX(x, l), v) + c < (v + 1) * w /\ Spot(TurnX(x, l), v) + c \in Int
      <4>1. Spot(TurnX(x, l), v) \in Nat /\ Spot(TurnX(x, l), v) + c < (v + 1) * w
        BY <3>1, SpotInside
      <4>. QED
        BY <4>1
    <3>3. v + 1 <= y + BITMAP_SIZE /\ w \in Nat
      BY <1>2, <1>3, PitchFacts
    <3>4. p \in Int
      BY DEF FbBytes
    <3>. HIDE DEF v, w
    <3>5. (v + 1) * w <= (y + BITMAP_SIZE) * w /\ (v + 1) * w \in Int
          /\ (y + BITMAP_SIZE) * w \in Int
      BY <1>2, <3>1, <3>3, MultiplyMonotone
    <3>6. p >= (y + BITMAP_SIZE) * w
      BY <1>6 DEF w
    <3>. QED
      BY <3>2, <3>4, <3>5, <3>6 DEF v
  <2>. QED
    BY <1>1, <2>1 DEF Plotted
<1>7. t \in [FbBytes -> Int]
  BY <1>1 DEF Plotted
<1>. QED
  BY <1>4, <1>5, <1>6, <1>7 DEF t, GlyphIn

-----------------------------------------------------------------------------
(* The places of the console and the bytes under them.                     *)

LEMMA ScreenSame ==
  /\ Screen!PITCH = PITCH /\ Screen!Columns = Columns /\ Screen!Rows = Rows
  /\ Screen!TextRows = TextRows /\ Screen!BLANK = BLANK /\ Screen!MIXED = MIXED
  /\ \A c, colour : Screen!Glyph(c, colour) = Glyph(c, colour)
  /\ \A column : Screen!Shown(column) = Shown(column)
  /\ \A pic : Screen!MovedUp(pic) = MovedUp(pic)
<1>1. /\ Screen!PITCH = PITCH /\ Screen!Columns = Columns /\ Screen!Rows = Rows
      /\ Screen!TextRows = TextRows /\ Screen!BLANK = BLANK /\ Screen!MIXED = MIXED
  BY DEF PITCH, Columns, Rows, TextRows, BLANK, MIXED, Screen!PITCH, Screen!Columns,
         Screen!Rows, Screen!TextRows, Screen!BLANK, Screen!MIXED
<1>2. \A c, colour : Screen!Glyph(c, colour) = Glyph(c, colour)
  BY <1>1 DEF Screen!Glyph, Glyph
<1>3. \A column : Screen!Shown(column) = Shown(column)
  BY <1>1 DEF Screen!Shown, Shown
<1>4. \A pic : Screen!MovedUp(pic) = MovedUp(pic)
  BY <1>1 DEF Screen!MovedUp, MovedUp
<1>. QED
  BY <1>1, <1>2, <1>3, <1>4

LEMMA ScreenDrawn ==
  ASSUME NEW s, NEW column, NEW row, NEW c
  PROVE  Screen!Drawn(s, column, row, c) = Drawn(s, column, row, c)
BY ScreenSame DEF Screen!Drawn, Drawn

LEMMA ScreenInit ==
  Screen!ConsoleInit <=>
    display = [offset_x |-> 0, offset_y |-> 0, barrier |-> <<0, 0>>,
               column |-> 0, row |-> 0, color |-> WHITE,
               screen |-> [r \in Rows |-> [c \in Columns |-> BLANK]],
               inside |-> TRUE, prompt |-> NONE]
<1>1. Screen!NONE = NONE
  BY DEF Screen!NONE, NONE
<1>. QED
  BY <1>1, ScreenSame DEF Screen!ConsoleInit

\* The bytes of a pixel of what a place shows.
Look(place, i, j) ==
  IF place = BLANK THEN <<0, 0, 0>>
  ELSE Channels(Dot(place[1], Pixel[place[2]], j, BITMAP_SIZE - 1 - i))

Shows(buf, r, c, place) ==
  place # MIXED =>
    \A i, j \in 0..(BITMAP_SIZE - 1), k \in 0..2 :
      buf[Spot(c * PITCH + 1 + i, r * PITCH + j) + k] = Look(place, i, j)[k + 1]

LEMMA PixelsAreShown ==
  Screen!PixelsRight <=>
    \A r \in Rows, c \in Columns : Shows(buffer, r, c, display.screen[r][c])
<1>1. ASSUME NEW r \in Rows, NEW c \in Columns,
             NEW i \in 0..(BITMAP_SIZE - 1), NEW j \in 0..(BITMAP_SIZE - 1), NEW k \in 0..2
      PROVE  Screen!BytesAt(c * PITCH + 1 + i, r * PITCH + j)[k] =
               buffer[Spot(c * PITCH + 1 + i, r * PITCH + j) + k]
  BY DEF Screen!BytesAt, Spot
<1>2. ASSUME NEW place, NEW i, NEW j, NEW k \in 0..2
      PROVE  (IF place = BLANK THEN 0 ELSE Screen!Wanted(place, i, j)[k + 1])
               = Look(place, i, j)[k + 1]
  <2>1. place = BLANK => Look(place, i, j)[k + 1] = 0
    BY DEF Look
  <2>2. place # BLANK => Look(place, i, j) = Screen!Wanted(place, i, j)
    BY DEF Look, Screen!Wanted, Channels, Dot
  <2>. QED
    BY <2>1, <2>2
<1>3. Screen!PixelsRight <=>
        \A r \in Rows, c \in Columns :
          display.screen[r][c] # MIXED =>
            \A i, j \in 0..(BITMAP_SIZE - 1), k \in 0..2 :
              Screen!BytesAt(c * PITCH + 1 + i, r * PITCH + j)[k] =
                IF display.screen[r][c] = BLANK THEN 0
                ELSE Screen!Wanted(display.screen[r][c], i, j)[k + 1]
  BY ScreenSame DEF Screen!PixelsRight
<1>. QED
  BY <1>1, <1>2, <1>3 DEF Shows

\* The page shows what it should, and is black from the row below the last line
\* on, which is what comes up with the memcpy.
ScreenInv ==
  /\ display \in ConsoleRecord
  /\ buffer \in [FbBytes -> Int]
  /\ \A r \in Rows, c \in Columns : Shows(buffer, r, c, display.screen[r][c])
  /\ \A r \in Rows, c \in Columns : r >= Lines => display.screen[r][c] = BLANK
  /\ \A p \in FbBytes : p >= (Lines * PITCH) * pitch => buffer[p] = 0

\* Where the pixels of a place are.
LEMMA PlaceInside ==
  ASSUME NEW r \in Rows, NEW c \in Columns,
         NEW i \in 0..(BITMAP_SIZE - 1), NEW j \in 0..(BITMAP_SIZE - 1)
  PROVE  /\ c * PITCH \in Nat /\ r * PITCH \in Nat /\ r \in Nat /\ c \in Nat
         /\ c * PITCH + 1 + i \in Nat /\ c * PITCH + 1 + i < WIDTH
         /\ r * PITCH + j \in Nat /\ r * PITCH + j < HEIGHT
         /\ \A k \in 0..2 : Spot(c * PITCH + 1 + i, r * PITCH + j) + k \in FbBytes
<1>1. /\ BITMAP_SIZE \in Nat /\ PITCH \in Nat /\ WIDTH \in Nat /\ HEIGHT \in Nat
  BY SizeFacts
<1>2. /\ c \in Nat /\ r \in Nat
      /\ c * PITCH + BITMAP_SIZE < WIDTH /\ r * PITCH + BITMAP_SIZE <= HEIGHT
  BY ColumnsFacts, RowsFacts
<1>. DEFINE x == c * PITCH  y == r * PITCH
<1>3. x \in Nat /\ y \in Nat
  BY <1>1, <1>2
<1>. HIDE DEF x, y
<1>4. x + BITMAP_SIZE < WIDTH /\ y + BITMAP_SIZE <= HEIGHT
  BY <1>2 DEF x, y
<1>5. x + 1 + i \in Nat /\ x + 1 + i < WIDTH /\ y + j \in Nat /\ y + j < HEIGHT
  BY <1>1, <1>3, <1>4
<1>6. \A k \in 0..2 : Spot(x + 1 + i, y + j) + k \in FbBytes
  BY <1>5, SpotInside
<1>. QED
  BY <1>2, <1>3, <1>5, <1>6 DEF x, y

\* Below the last line everything is black.
LEMMA BlackBelow ==
  ASSUME NEW buf, \A p \in FbBytes : p >= (Lines * PITCH) * pitch => buf[p] = 0,
         NEW r \in Rows, NEW c \in Columns, r >= Lines
  PROVE  Shows(buf, r, c, BLANK)
<1>. SUFFICES ASSUME NEW i \in 0..(BITMAP_SIZE - 1), NEW j \in 0..(BITMAP_SIZE - 1),
                     NEW k \in 0..2
              PROVE  buf[Spot(c * PITCH + 1 + i, r * PITCH + j) + k] = 0
  BY DEF Shows, Look
<1>. DEFINE x == c * PITCH + 1 + i  y == r * PITCH + j  w == pitch
<1>1. /\ r * PITCH \in Nat /\ r \in Nat /\ x \in Nat /\ y \in Nat
      /\ Spot(x, y) + k \in FbBytes
  BY PlaceInside
<1>2. Lines \in Nat /\ PITCH \in Nat /\ w \in Nat
  BY LinesFacts, SizeFacts, PitchFacts
<1>3. Lines * PITCH <= r * PITCH /\ Lines * PITCH \in Nat
  BY <1>1, <1>2, MultiplyMonotone
<1>4. Lines * PITCH <= y
  BY <1>1, <1>3
<1>. HIDE DEF x, y
<1>5. (Lines * PITCH) * w <= y * w /\ y * w \in Nat
  BY <1>1, <1>2, <1>3, <1>4, MultiplyMonotone
<1>6. Spot(x, y) = y * w + x * 4
  BY DEF Spot
<1>. HIDE DEF w
<1>7. (Lines * PITCH) * w \in Nat
  BY <1>2, <1>3
<1>8. Spot(x, y) + k >= (Lines * PITCH) * w
  BY <1>1, <1>5, <1>6, <1>7
<1>9. buf[Spot(x, y) + k] = 0
  BY <1>1, <1>8 DEF w
<1>. QED
  BY <1>9 DEF x, y

LEMMA ScreenStarts == Screen!Init => ScreenInv
<1>. SUFFICES ASSUME Screen!Init PROVE ScreenInv
  OBVIOUS
<1>1. /\ display = [offset_x |-> 0, offset_y |-> 0, barrier |-> <<0, 0>>,
                    column |-> 0, row |-> 0, color |-> WHITE,
                    screen |-> [r \in Rows |-> [c \in Columns |-> BLANK]],
                    inside |-> TRUE, prompt |-> NONE]
      /\ buffer = [p \in FbBytes |-> 0]
  BY ScreenInit DEF Screen!Init, FbBytes
<1>2. display \in ConsoleRecord
  <2>1. 0 \in Number
    BY SizeFacts DEF Number
  <2>2. BLANK \in Place /\ WHITE \in Colour
    BY ConsoleAssumption DEF Place
  <2>. QED
    BY <1>1, <2>1, <2>2 DEF ConsoleRecord
<1>3. \A r \in Rows, c \in Columns : display.screen[r][c] = BLANK
  BY <1>1
<1>4. ASSUME NEW r \in Rows, NEW c \in Columns PROVE Shows(buffer, r, c, BLANK)
  <2>1. \A i, j \in 0..(BITMAP_SIZE - 1), k \in 0..2 :
          Spot(c * PITCH + 1 + i, r * PITCH + j) + k \in FbBytes
    BY PlaceInside
  <2>2. \A i, j, k : k \in 0..2 => Look(BLANK, i, j)[k + 1] = 0
    BY DEF Look
  <2>. QED
    BY <1>1, <2>1, <2>2 DEF Shows
<1>. QED
  BY <1>1, <1>2, <1>3, <1>4 DEF ScreenInv

LEMMA ScrollShows ==
  ASSUME ScreenInv, Screen!Scroll
  PROVE  ScreenInv'
<1>. DEFINE w == pitch
            up == 4 * (w \div 4) * PITCH
<1>1. /\ display' = [display EXCEPT !.screen = MovedUp(display.screen)]
      /\ buffer' = [p \in DOMAIN buffer |->
                      IF p < pitch * (HEIGHT - Screen!PITCH)
                      THEN buffer[p + 4 * (pitch \div 4) * Screen!PITCH] ELSE buffer[p]]
  BY ScreenSame DEF Screen!Scroll, Screen!MemoryUp
<1>2. /\ display \in ConsoleRecord /\ display.screen \in [Rows -> [Columns -> Place]]
      /\ buffer \in [FbBytes -> Int]
  BY DEF ScreenInv, ConsoleRecord
<1>3. display' \in ConsoleRecord /\ display'.screen = MovedUp(display.screen)
  <2>. DEFINE pic == MovedUp(display.screen)
  <2>1. pic \in [Rows -> [Columns -> Place]]
    BY <1>2, MovedUpType
  <2>. HIDE DEF pic
  <2>2. display' = [display EXCEPT !.screen = pic]
    BY <1>1 DEF pic
  <2>3. display' \in ConsoleRecord /\ display'.screen = pic
    BY <1>2, <2>1, <2>2 DEF ConsoleRecord
  <2>. QED
    BY <2>3 DEF pic
<1>4. /\ w \in Nat /\ w > 0 /\ HEIGHT \in Nat /\ PITCH \in Nat /\ PITCH > 0 /\ PITCH < HEIGHT
      /\ BITMAP_SIZE \in Nat /\ PITCH = BITMAP_SIZE + 1 /\ Lines \in Nat
  BY PitchFacts, SizeFacts, LinesFacts
<1>5. up = w * PITCH
  <2>1. w % 4 = 0 /\ w \in Nat
    BY PitchFacts
  <2>2. 4 * (w \div 4) = w
    BY <2>1
  <2>. QED
    BY <2>1, <2>2
<1>. HIDE DEF w, up
<1>6. buffer' = [p \in FbBytes |->
                   IF p < w * (HEIGHT - PITCH) THEN buffer[p + w * PITCH] ELSE buffer[p]]
  BY <1>1, <1>2, <1>5, ScreenSame DEF w, up
<1>7. FbBytes = 0..(w * HEIGHT - 1) /\ w * HEIGHT \in Nat /\ w * PITCH \in Nat
      /\ w * (HEIGHT - PITCH) = w * HEIGHT - w * PITCH
  BY <1>4 DEF FbBytes, w
<1>8. ASSUME NEW p \in FbBytes
      PROVE  p < w * (HEIGHT - PITCH) => p + w * PITCH \in FbBytes
  BY <1>7
<1>9. buffer' \in [FbBytes -> Int]
  BY <1>2, <1>6, <1>8
<1>10. ASSUME NEW p \in FbBytes, p >= (Lines * PITCH) * w PROVE buffer'[p] = 0
  <2>1. (Lines * PITCH) * w \in Nat
    BY <1>4
  <2>2. p + w * PITCH >= (Lines * PITCH) * w
    BY <1>7, <1>10, <2>1
  <2>3. \A q \in FbBytes : q >= (Lines * PITCH) * w => buffer[q] = 0
    BY DEF ScreenInv, w
  <2>. QED
    BY <1>6, <1>8, <1>10, <2>2, <2>3
<1>11. ASSUME NEW r \in Rows, NEW c \in Columns, r >= Lines
       PROVE  display'.screen[r][c] = BLANK
  <2>1. r \in Int /\ r + 1 >= Lines
    BY <1>4, <1>11, RowsFacts
  <2>2. display.screen[r][c] = BLANK
    BY <1>11 DEF ScreenInv
  <2>3. r + 1 \in Rows => display.screen[r + 1][c] = BLANK
    BY <2>1 DEF ScreenInv
  <2>. QED
    BY <1>3, <2>2, <2>3, MovedUpAt
<1>12. ASSUME NEW r \in Rows, NEW c \in Columns
       PROVE  Shows(buffer', r, c, display'.screen[r][c])
  <2>1. CASE r >= Lines
    <3>1. \A p \in FbBytes : p >= (Lines * PITCH) * pitch => buffer'[p] = 0
      BY <1>10 DEF w
    <3>. QED
      BY <1>11, <2>1, <3>1, BlackBelow
  <2>2. CASE ~(r >= Lines)
    <3>1. r \in Nat /\ r + 1 \in 0..Lines /\ r + 1 \in Rows
      BY <1>4, <2>2, RowsFacts, LinesFacts
    <3>2. display'.screen[r][c] = display.screen[r + 1][c]
      BY <1>3, <3>1, MovedUpAt
    <3>3. Shows(buffer, r + 1, c, display.screen[r + 1][c])
      BY <3>1 DEF ScreenInv
    <3>4. ASSUME NEW i \in 0..(BITMAP_SIZE - 1), NEW j \in 0..(BITMAP_SIZE - 1), NEW k \in 0..2
          PROVE  buffer'[Spot(c * PITCH + 1 + i, r * PITCH + j) + k] =
                   buffer[Spot(c * PITCH + 1 + i, (r + 1) * PITCH + j) + k]
      <4>. DEFINE x == c * PITCH + 1 + i  y == r * PITCH + j
      <4>1. Spot(x, y) + k \in FbBytes /\ x \in Nat /\ y \in Nat
            /\ r * PITCH \in Nat
        BY PlaceInside
      <4>2. Spot(x, (r + 1) * PITCH + j) + k \in FbBytes
        BY <3>1, PlaceInside
      <4>3. (r + 1) * PITCH + j = y + PITCH
        BY <1>4, <3>1
      <4>. HIDE DEF x, y
      <4>4. y * w \in Nat /\ (y + PITCH) * w = y * w + w * PITCH
        BY <1>4, <4>1
      <4>5. Spot(x, y) = y * w + x * 4 /\ Spot(x, y + PITCH) = (y + PITCH) * w + x * 4
        BY DEF Spot, w
      <4>6. Spot(x, y + PITCH) + k = Spot(x, y) + k + w * PITCH
        <5>. DEFINE a == y * w  b == w * PITCH
        <5>1. a \in Nat /\ b \in Nat /\ x \in Nat
              /\ Spot(x, y) = a + x * 4 /\ Spot(x, y + PITCH) = a + b + x * 4
          BY <1>7, <4>1, <4>4, <4>5
        <5>. HIDE DEF a, b
        <5>2. Spot(x, y + PITCH) + k = Spot(x, y) + k + b
          BY <5>1
        <5>. QED
          BY <5>2 DEF b
      <4>7. Spot(x, y + PITCH) + k \in FbBytes
        BY <4>2, <4>3
      <4>. DEFINE p == Spot(x, y) + k
      <4>8. p \in FbBytes /\ p + w * PITCH \in 0..(w * HEIGHT - 1)
        BY <1>7, <4>1, <4>6, <4>7
      <4>. HIDE DEF p
      <4>9. p < w * (HEIGHT - PITCH)
        BY <1>7, <4>8
      <4>10. buffer'[p] = buffer[p + w * PITCH]
        BY <1>6, <4>8, <4>9
      <4>. QED
        BY <4>3, <4>6, <4>10 DEF p, x, y
    <3>. QED
      BY <3>2, <3>3, <3>4 DEF Shows
  <2>. QED
    BY <2>1, <2>2
<1>. QED
  BY <1>3, <1>9, <1>10, <1>11, <1>12 DEF ScreenInv, w

\* A column of pixels beside a glyph is not of it.
LEMMA BesideGlyph ==
  ASSUME NEW column \in Nat, NEW c \in Columns, c \notin Shown(column),
         NEW i \in 0..(BITMAP_SIZE - 1)
  PROVE  c * PITCH + 1 + i \notin (column + 1)..(column + BITMAP_SIZE)
<1>. DEFINE x == c * PITCH
<1>1. x \in Nat /\ BITMAP_SIZE \in Nat
  BY ColumnsFacts, SizeFacts
<1>2. ~(x < column + BITMAP_SIZE /\ column < x + BITMAP_SIZE)
  BY DEF Shown
<1>. HIDE DEF x
<1>3. x + 1 + i \notin (column + 1)..(column + BITMAP_SIZE)
  BY <1>1, <1>2
<1>. QED
  BY <1>3 DEF x

\* And a row above or below it is not.
LEMMA OtherRow ==
  ASSUME NEW row \in Rows, NEW r \in Rows, r # row, NEW j \in 0..(BITMAP_SIZE - 1)
  PROVE  r * PITCH + j \notin (row * PITCH)..(row * PITCH + BITMAP_SIZE - 1)
<1>1. /\ row \in Nat /\ r \in Nat /\ BITMAP_SIZE \in Nat /\ PITCH \in Nat
      /\ PITCH = BITMAP_SIZE + 1
  BY RowsFacts, SizeFacts
<1>2. (r + 1) * PITCH = r * PITCH + PITCH /\ (row + 1) * PITCH = row * PITCH + PITCH
      /\ r * PITCH \in Nat /\ row * PITCH \in Nat
  BY <1>1
<1>3. CASE r < row
  <2>1. (r + 1) * PITCH <= row * PITCH
    BY <1>1, <1>3, MultiplyMonotone
  <2>. QED
    BY <1>1, <1>2, <2>1
<1>4. CASE row < r
  <2>1. (row + 1) * PITCH <= r * PITCH
    BY <1>1, <1>4, MultiplyMonotone
  <2>. QED
    BY <1>1, <1>2, <2>1
<1>. QED
  BY <1>1, <1>3, <1>4

\* A glyph at a place shows there.
LEMMA GlyphShows ==
  ASSUME NEW ch \in DOMAIN font, NEW colour \in Colour,
         NEW i \in 0..(BITMAP_SIZE - 1), NEW j \in 0..(BITMAP_SIZE - 1)
  PROVE  Channels(Dot(ch, Pixel[colour], j, BITMAP_SIZE - 1 - i))
           = Look(Glyph(ch, colour), i, j)
<1>1. CASE ch = SPACE
  <2>1. j + 1 \in 1..BITMAP_SIZE /\ BITMAP_SIZE - 1 - i \in 0..(BITMAP_SIZE - 1)
    BY SizeFacts
  <2>2. ~Screen!Bit(font[SPACE][j + 1], BITMAP_SIZE - 1 - i)
    BY <1>1, <2>1, SpaceAssumption
  <2>3. Dot(ch, Pixel[colour], j, BITMAP_SIZE - 1 - i) = Screen!black_pixel
    BY <1>1, <2>2 DEF Dot
  <2>4. Channels(Screen!black_pixel) = <<0, 0, 0>>
    BY DEF Channels, Screen!black_pixel, Screen!GeneratePixelFG
  <2>. QED
    BY <1>1, <2>3, <2>4 DEF Look, Glyph
<1>2. CASE ch # SPACE
  <2>1. Glyph(ch, colour) = <<ch, colour>> /\ <<ch, colour>> # BLANK
    BY <1>2 DEF Glyph, BLANK
  <2>. QED
    BY <2>1 DEF Look
<1>. QED
  BY <1>1, <1>2

LEMMA DrawnIsRecord ==
  ASSUME NEW s \in ConsoleRecord, NEW column, NEW row, NEW ch \in Shape
  PROVE  Drawn(s, column, row, ch) \in ConsoleRecord
<1>. DEFINE pic == [r \in Rows |-> [c \in Columns |->
                      IF r * PITCH # row \/ c \notin Shown(column) THEN s.screen[r][c]
                      ELSE IF column % PITCH = 0 THEN Glyph(ch, s.color) ELSE MIXED]]
            ins == s.inside /\ column + BITMAP_SIZE < WIDTH /\ row + BITMAP_SIZE <= HEIGHT
<1>1. Drawn(s, column, row, ch) = [s EXCEPT !.screen = pic, !.inside = ins]
  BY DEF Drawn
<1>2. ins \in BOOLEAN
  OBVIOUS
<1>. HIDE DEF pic, ins
<1>3. Drawn(s, column, row, ch).screen = pic
  BY <1>1 DEF ConsoleRecord
<1>4. pic \in [Rows -> [Columns -> Place]]
  BY <1>3, DrawnFacts
<1>. QED
  BY <1>1, <1>2, <1>4 DEF ConsoleRecord

LEMMA DrawShows ==
  ASSUME ScreenInv, NEW column \in DrawAt, NEW row \in TextRows, NEW ch \in DOMAIN font,
         Screen!Draw(column, row * PITCH, ch)
  PROVE  ScreenInv'
<1>. DEFINE y == row * PITCH
            colour == display.color
            d == Drawn(display, column, y, ch)
<1>1. /\ display' = d
      /\ buffer' = Screen!DrawAlphaBitmap(buffer, ch, column, y, Pixel[colour])
  BY ScreenDrawn DEF Screen!Draw
<1>2. /\ display \in ConsoleRecord /\ display.inside \in BOOLEAN /\ colour \in Colour
      /\ buffer \in [FbBytes -> Int]
  BY DEF ScreenInv, ConsoleRecord
<1>3. /\ ch \in Shape /\ Pixel[colour] \in PixelRecord
      /\ column \in Nat /\ column + BITMAP_SIZE < WIDTH
  <2>1. ch \in Shape
    BY SMTT(30), ScreenAssumption DEF Shape
  <2>2. Pixel[colour] \in [red : 0..255, green : 0..255, blue : 0..255]
    BY SMTT(30), <1>2, ScreenAssumption
  <2>3. Pixel[colour] \in PixelRecord
    <3>. DEFINE pixel == Pixel[colour]  C == 0..255
    <3>2. pixel \in [red : C, green : C, blue : C] /\ C \subseteq Int
      BY <2>2
    <3>. HIDE DEF pixel, C
    <3>3. pixel \in [red : Int, green : Int, blue : Int]
      BY <3>2
    <3>. QED
      BY SMTT(30), <3>3 DEF PixelRecord, pixel
  <2>4. column \in Nat /\ column + BITMAP_SIZE < WIDTH
    BY ScreenAssumption
  <2>. QED
    BY <2>1, <2>3, <2>4
<1>4. /\ row \in Nat /\ row < Lines /\ row \in Rows /\ Lines \in Nat
      /\ y \in Nat /\ y + BITMAP_SIZE <= HEIGHT
      /\ BITMAP_SIZE \in Nat /\ PITCH \in Nat /\ PITCH = BITMAP_SIZE + 1
  BY LinesFacts, SizeFacts
<1>5. OnScreen(column, y)
  BY <1>3, <1>4 DEF OnScreen
<1>. HIDE DEF y, colour
<1>6. /\ buffer' \in [FbBytes -> Int]
      /\ \A i, j \in 0..(BITMAP_SIZE - 1), k \in 0..2 :
           buffer'[Spot(column + 1 + i, y + j) + k] =
             Channels(Dot(ch, Pixel[colour], j, BITMAP_SIZE - 1 - i))[k + 1]
      /\ \A u, v \in Nat, k \in 0..2 :
           u < WIDTH /\ v < HEIGHT
           /\ ~(u \in (column + 1)..(column + BITMAP_SIZE) /\ v \in y..(y + BITMAP_SIZE - 1))
           => buffer'[Spot(u, v) + k] = buffer[Spot(u, v) + k]
      /\ \A p \in FbBytes : p >= (y + BITMAP_SIZE) * pitch => buffer'[p] = buffer[p]
  <2>1. GlyphIn(buffer, ch, Pixel[colour], column, y, buffer')
    BY <1>1, <1>2, <1>3, <1>5, GlyphDrawn
  <2>. QED
    BY <2>1 DEF GlyphIn
<1>7. d \in ConsoleRecord
  <2>. HIDE DEF d
  <2>1. Drawn(display, column, y, ch) \in ConsoleRecord
    BY <1>2, <1>3, DrawnIsRecord
  <2>. QED
    BY <2>1 DEF d
<1>8. \A r \in Rows, c \in Columns :
        d.screen[r][c] =
          IF r * PITCH # y \/ c \notin Shown(column) THEN display.screen[r][c]
          ELSE IF column % PITCH = 0 THEN Glyph(ch, colour) ELSE MIXED
  BY <1>2, <1>3, DrawnPlaces DEF colour
<1>. HIDE DEF d
<1>9. ASSUME NEW r \in Rows, NEW c \in Columns PROVE Shows(buffer', r, c, d.screen[r][c])
  <2>0. r \in Nat /\ (r * PITCH = y <=> r = row)
    BY <1>4, RowsFacts, RowAt DEF y
  <2>1. CASE r # row \/ c \notin Shown(column)
    <3>1. d.screen[r][c] = display.screen[r][c] /\ Shows(buffer, r, c, display.screen[r][c])
      BY <1>8, <2>0, <2>1 DEF ScreenInv
    <3>2. ASSUME NEW i \in 0..(BITMAP_SIZE - 1), NEW j \in 0..(BITMAP_SIZE - 1), NEW k \in 0..2
          PROVE  buffer'[Spot(c * PITCH + 1 + i, r * PITCH + j) + k] =
                   buffer[Spot(c * PITCH + 1 + i, r * PITCH + j) + k]
      <4>1. /\ c * PITCH + 1 + i \in Nat /\ c * PITCH + 1 + i < WIDTH
            /\ r * PITCH + j \in Nat /\ r * PITCH + j < HEIGHT
        BY PlaceInside
      <4>2. c \notin Shown(column) =>
              c * PITCH + 1 + i \notin (column + 1)..(column + BITMAP_SIZE)
        BY <1>3, BesideGlyph
      <4>3. r # row => r * PITCH + j \notin y..(y + BITMAP_SIZE - 1)
        BY <1>4, OtherRow DEF y
      <4>. DEFINE u == c * PITCH + 1 + i  v == r * PITCH + j
      <4>4. /\ u \in Nat /\ v \in Nat /\ u < WIDTH /\ v < HEIGHT
            /\ ~(u \in (column + 1)..(column + BITMAP_SIZE) /\ v \in y..(y + BITMAP_SIZE - 1))
        BY <2>1, <4>1, <4>2, <4>3
      <4>. HIDE DEF u, v
      <4>5. buffer'[Spot(u, v) + k] = buffer[Spot(u, v) + k]
        BY <1>6, <4>4
      <4>. QED
        BY <4>5 DEF u, v
    <3>. QED
      BY <3>1, <3>2 DEF Shows
  <2>2. CASE r = row /\ c \in Shown(column) /\ column % PITCH # 0
    <3>1. d.screen[r][c] = MIXED
      BY <1>8, <2>0, <2>2
    <3>. QED
      BY <3>1 DEF Shows
  <2>3. CASE r = row /\ c \in Shown(column) /\ column % PITCH = 0
    <3>1. d.screen[r][c] = Glyph(ch, colour)
      BY <1>8, <2>0, <2>3
    <3>2. c * PITCH = column /\ r * PITCH = y
      <4>. DEFINE q == column \div PITCH
      <4>1. q \in Nat /\ column = q * PITCH
        BY <1>3, <2>3, SizeFacts, WholeMultiple
      <4>. HIDE DEF q
      <4>2. q \in Columns
        BY <1>3, <4>1, ColumnsFacts
      <4>3. Shown(column) = {q}
        BY <4>1, <4>2, ShownAt
      <4>. QED
        BY <2>0, <2>3, <4>1, <4>3
    <3>3. ASSUME NEW i \in 0..(BITMAP_SIZE - 1), NEW j \in 0..(BITMAP_SIZE - 1), NEW k \in 0..2
          PROVE  buffer'[Spot(c * PITCH + 1 + i, r * PITCH + j) + k] =
                   Look(Glyph(ch, colour), i, j)[k + 1]
      <4>1. buffer'[Spot(column + 1 + i, y + j) + k] =
              Channels(Dot(ch, Pixel[colour], j, BITMAP_SIZE - 1 - i))[k + 1]
        BY <1>6
      <4>. QED
        BY <1>2, <3>2, <4>1, GlyphShows
    <3>. QED
      BY <3>1, <3>3 DEF Shows
  <2>. QED
    BY <2>1, <2>2, <2>3
<1>10. ASSUME NEW r \in Rows, NEW c \in Columns, r >= Lines PROVE d.screen[r][c] = BLANK
  <2>1. r # row /\ r \in Nat
    BY <1>4, <1>10, RowsFacts
  <2>2. r * PITCH # y
    BY <1>4, <2>1, RowAt DEF y
  <2>. QED
    BY <1>8, <1>10, <2>2 DEF ScreenInv
<1>11. ASSUME NEW p \in FbBytes, p >= (Lines * PITCH) * pitch PROVE buffer'[p] = 0
  <2>. DEFINE w == pitch  a == y + BITMAP_SIZE  z == Lines * PITCH
  <2>1. w \in Nat /\ p \in Int
    BY PitchFacts DEF FbBytes
  <2>2. a \in Nat /\ z \in Nat /\ a <= z
    <3>1. (row + 1) * PITCH <= Lines * PITCH
      BY <1>4, MultiplyMonotone
    <3>2. /\ (row + 1) * PITCH = row * PITCH + PITCH
          /\ row * PITCH \in Nat /\ Lines * PITCH \in Nat
      BY <1>4
    <3>. QED
      BY <1>4, <3>1, <3>2 DEF y
  <2>3. p >= z * w
    BY <1>11
  <2>. HIDE DEF w, a, z
  <2>4. a * w <= z * w /\ a * w \in Int /\ z * w \in Int
    BY <2>1, <2>2, MultiplyMonotone
  <2>5. p >= a * w
    BY <2>1, <2>3, <2>4
  <2>. QED
    BY <1>6, <1>11, <2>5 DEF ScreenInv, w, a
<1>. QED
  BY <1>1, <1>6, <1>7, <1>9, <1>10, <1>11 DEF ScreenInv

LEMMA ColourShows ==
  ASSUME ScreenInv, NEW colour \in Colour, Screen!SetColor(colour)
  PROVE  ScreenInv'
<1>1. display' = [display EXCEPT !.color = colour] /\ buffer' = buffer
  BY DEF Screen!SetColor
<1>2. display' \in ConsoleRecord /\ display'.screen = display.screen
  BY <1>1 DEF ScreenInv, ConsoleRecord
<1>. QED
  BY <1>1, <1>2 DEF ScreenInv

LEMMA ScreenStep == ScreenInv /\ [Screen!Next]_(Screen!fbvars) => ScreenInv'
<1>. SUFFICES ASSUME ScreenInv, [Screen!Next]_(Screen!fbvars) PROVE ScreenInv'
  OBVIOUS
<1>1. CASE \E column \in DrawAt, row \in Screen!TextRows, ch \in DOMAIN font :
             Screen!Draw(column, row * Screen!PITCH, ch)
  BY <1>1, ScreenSame, DrawShows
<1>2. CASE Screen!Scroll
  BY <1>2, ScrollShows
<1>3. CASE \E colour \in Colour : Screen!SetColor(colour)
  BY <1>3, ColourShows
<1>4. CASE UNCHANGED Screen!fbvars
  BY <1>4 DEF Screen!fbvars, ScreenInv
<1>. QED
  BY <1>1, <1>2, <1>3, <1>4 DEF Screen!Next

\* DrawAlphaBitmap, PutPixel and the memcpy of scroll: the bytes of the
\* framebuffer are the glyphs of the places, in their colours and not mirrored,
\* wherever glyphs were drawn before and however often the page has moved up.
THEOREM PixelsAreGlyphs == Screen!Spec => []PixelsRight
<1>1. ScreenInv => PixelsRight
  BY PixelsAreShown DEF ScreenInv, PixelsRight
<1>. QED
  BY <1>1, ScreenStarts, ScreenStep, PTL DEF Screen!Spec
=============================================================================
