----------------------------- MODULE Echo_proofs -----------------------------
(***************************************************************************)
(* Input and Echo, for a ring of any size, any keys and any number of      *)
(* them: what the ring and its reader hold, and what stands on the         *)
(* terminal.  Every step of Echo is a step of Input or leaves it alone, so *)
(* the facts of Input are proved of Input's steps and hold in both.        *)
(***************************************************************************)
EXTENDS Echo, SequenceTheorems, ArithmeticLemmas

-----------------------------------------------------------------------------
(* Arithmetic.                                                             *)

\* Advance turns at the end of the ring, and stays in it.
LEMMA AdvanceInRing ==
  /\ \A i \in Cell : Advance(i) = IF i + 1 < BUFFER_SIZE THEN i + 1 ELSE 0
  /\ \A i \in Index : Advance(i) \in Cell
<1>1. BUFFER_SIZE \in Nat /\ BUFFER_SIZE > 1 /\ U32 \in Nat /\ U32 > 2 * BUFFER_SIZE
  BY InputAssumption
<1>2. ASSUME NEW i \in Cell PROVE Advance(i) = IF i + 1 < BUFFER_SIZE THEN i + 1 ELSE 0
  <2>1. i + 1 \in 0..(2 * U32 - 1) /\ i + 1 < U32 /\ i + 1 \in 0..(2 * BUFFER_SIZE - 1)
    BY <1>1 DEF Cell
  <2>2. (i + 1) % U32 = i + 1
    BY <2>1, <1>1, OneTurn
  <2>3. (i + 1) % BUFFER_SIZE = IF i + 1 < BUFFER_SIZE THEN i + 1 ELSE i + 1 - BUFFER_SIZE
    <3>1. BUFFER_SIZE \in Nat /\ BUFFER_SIZE > 0
      BY <1>1
    <3>2. i + 1 \in 0..(2 * BUFFER_SIZE - 1)
      BY <2>1
    <3>. QED
      BY <3>1, <3>2, OneTurn DEF Cell
  <2>. QED
    BY <2>2, <2>3, <1>1 DEF Advance, Cell
<1>3. ASSUME NEW i \in Index PROVE Advance(i) \in Cell
  <2>1. (i + 1) % U32 \in Nat
    BY <1>1 DEF Index
  <2>. QED
    BY <2>1, <1>1 DEF Advance, Cell
<1>. QED
  BY <1>2, <1>3

\* Dec steps back by one where there is one, and stays a u32.
LEMMA DecIsBefore ==
  /\ \A i \in Index : i > 0 => Dec(i) = i - 1
  /\ \A i \in Index : Dec(i) \in Index
<1>1. U32 \in Nat /\ U32 > 2
  BY InputAssumption
<1>2. ASSUME NEW i \in Index, i > 0 PROVE Dec(i) = i - 1
  <2>1. i + U32 - 1 \in 0..(2 * U32 - 1) /\ i + U32 - 1 >= U32
    BY <1>1, <1>2 DEF Index
  <2>. QED
    BY <2>1, <1>1, OneTurn DEF Dec, Index
<1>3. ASSUME NEW i \in Index PROVE Dec(i) \in Index
  <2>1. i + U32 - 1 \in Nat
    BY <1>1 DEF Index
  <2>. QED
    BY <2>1, <1>1 DEF Dec, Index
<1>. QED
  BY <1>2, <1>3

\* The ring is full when w is just before r.
LEMMA FullIsBefore ==
  ASSUME r \in Cell
  PROVE  Full <=> w = IF r = 0 THEN BUFFER_SIZE - 1 ELSE r - 1
<1>1. BUFFER_SIZE \in Nat /\ BUFFER_SIZE > 1 /\ U32 \in Nat /\ U32 > 2 * BUFFER_SIZE
  BY InputAssumption
<1>2. r + BUFFER_SIZE - 1 \in 0..(2 * U32 - 1) /\ r + BUFFER_SIZE - 1 < U32
  BY <1>1 DEF Cell
<1>3. (r + BUFFER_SIZE - 1) % U32 = r + BUFFER_SIZE - 1
  BY <1>1, <1>2, OneTurn
<1>4. r + BUFFER_SIZE - 1 \in 0..(2 * BUFFER_SIZE - 1)
  BY <1>1 DEF Cell
<1>5. (r + BUFFER_SIZE - 1) % BUFFER_SIZE
        = IF r + BUFFER_SIZE - 1 < BUFFER_SIZE THEN r + BUFFER_SIZE - 1 ELSE r - 1
  BY <1>1, <1>4, OneTurn DEF Cell
<1>. QED
  BY <1>1, <1>3, <1>5 DEF Full, Cell

-----------------------------------------------------------------------------
(* Types.                                                                  *)

\* The text of a line keeps its type when a character is edited into it.
LEMMA EditType ==
  ASSUME NEW l \in Seq(Char), NEW x \in Char
  PROVE  Edit(l, x) \in Seq(Char)
<1>1. CASE l # <<>>
  <2>1. Len(l) \in Nat /\ Len(l) > 0
    BY <1>1, EmptySeq
  <2>2. Front(l) \in Seq(Char)
    BY <2>1 DEF Front
  <2>. QED
    BY <2>2, AppendProperties DEF Edit
<1>2. CASE l = <<>>
  BY <1>2, AppendProperties DEF Edit
<1>. QED
  BY <1>1, <1>2

\* What the handler of a character does that is not 0.
LEMMA HandlerOfKey ==
  ASSUME NEW x \in Keys, Handler(x)
  PROVE  /\ typed' = Append(typed, x)
         /\ orderly' = (orderly /\ ~Full /\ (x = BS => r = w /\ w > 0))
<1>1. x # NUL
  BY InputAssumption
<1>. QED
  BY <1>1 DEF Handler

\* A 0 leaves the ring and all that reads it as they are.
LEMMA KeyOrNothing ==
  ASSUME NEW x \in Char, Handler(x)
  PROVE  x \in Keys \/ UNCHANGED vars
<1>1. CASE x = NUL
  BY <1>1 DEF Handler, key_buffer_append, ring, handlers, locals, vars
<1>. QED
  BY <1>1 DEF Char

\* A handler appends to the ring whatever state the ring is in.
LEMMA HandlerType ==
  ASSUME TypeOK, NEW x \in Keys, Handler(x)
  PROVE  TypeOK'
<1>. DEFINE w0 == IF Full THEN 0 ELSE w
            r0 == IF Full THEN 0 ELSE r
            w1 == IF x = BS THEN Dec(w0) ELSE w0
            r1 == IF x = BS THEN Dec(r0) ELSE r0
<1>1. buf' = StoreAt(w1, x) /\ w' = Advance(w1) /\ r' = r1
  <2>1. x # NUL
    BY InputAssumption
  <2>. QED
    BY <2>1 DEF Handler, key_buffer_append
<1>2. 0 \in Index /\ w \in Index /\ r \in Index /\ Cell \subseteq Index
  BY InputAssumption DEF TypeOK, Index, Cell
<1>3. w0 \in Index /\ r0 \in Index
  BY <1>2
<1>4. w1 \in Index /\ r1 \in Index
  BY <1>3, DecIsBefore
<1>. HIDE DEF w0, r0, w1, r1
<1>5. buf' \in [Cell -> Char]
  BY <1>1 DEF StoreAt, TypeOK, Char
<1>6. w' \in Index /\ r' \in Index
  BY <1>1, <1>2, <1>4, AdvanceInRing
<1>7. typed' \in Seq(Keys) /\ Len(typed') <= MaxTyped
  <2>1. typed' = Append(typed, x) /\ Len(typed) < MaxTyped /\ typed \in Seq(Keys)
    BY HandlerOfKey DEF Handler, TypeOK
  <2>. QED
    BY <2>1, InputAssumption, AppendProperties
<1>8. orderly' \in BOOLEAN
  BY HandlerOfKey
<1>9. UNCHANGED <<pc, call, size, idx, c, old_r, line, taken, begin>>
  BY DEF Handler, locals
<1>. QED
  BY <1>5, <1>6, <1>7, <1>8, <1>9 DEF TypeOK

\* The reader's accesses keep the types.
LEMMA ReaderType ==
  ASSUME TypeOK, ReadStep
  PROVE  TypeOK'
<1>1. CASE Wait
  BY <1>1 DEF Wait, TypeOK, ring, locals, handlers
<1>2. CASE LoadIndex
  BY <1>2 DEF LoadIndex, TypeOK, ring, handlers
<1>3. CASE LoadChar
  <2>1. c' \in Char
    BY <1>3 DEF LoadChar, TypeOK
  <2>. QED
    BY <1>3, <2>1 DEF LoadChar, TypeOK, ring, handlers
<1>4. CASE LoadR
  BY <1>4 DEF LoadR, TypeOK, ring, handlers
<1>5. CASE StoreR
  <2>1. line' \in Seq(Char)
    BY <1>5, EditType DEF StoreR, TypeOK
  <2>2. r' \in Index
    <3>1. Cell \subseteq Index
      BY InputAssumption DEF Index, Cell
    <3>. QED
      BY <1>5, <3>1, AdvanceInRing DEF StoreR, TypeOK
  <2>3. pc' \in {"idle", "wait"} /\ taken' = taken + 1
    BY <1>5 DEF StoreR
  <2>4. UNCHANGED <<buf, w, call, size, idx, c, old_r, typed, orderly, begin>>
    BY <1>5 DEF StoreR, locals, handlers
  <2>. QED
    BY <2>1, <2>2, <2>3, <2>4 DEF TypeOK
<1>. QED
  BY <1>1, <1>2, <1>3, <1>4, <1>5 DEF ReadStep

\* Every step of Input keeps the types.
LEMMA InputTypeStep ==
  TypeOK /\ [Next]_vars => TypeOK'
<1>. SUFFICES ASSUME TypeOK, [Next]_vars PROVE TypeOK'
  OBVIOUS
<1>1. ASSUME NEW x \in Keys, Handler(x) PROVE TypeOK'
  BY <1>1, HandlerType
<1>2. ASSUME NEW n \in Sizes, BeginRead(n) PROVE TypeOK'
  <2>1. line' = <<>> /\ <<>> \in Seq(Char)
    BY <1>2 DEF BeginRead
  <2>. QED
    BY <1>2, <2>1 DEF BeginRead, TypeOK, ring, locals, handlers
<1>3. CASE BeginReadln
  <2>1. line' = <<>> /\ <<>> \in Seq(Char)
    BY <1>3 DEF BeginReadln
  <2>. QED
    BY <1>3, <2>1 DEF BeginReadln, TypeOK, ring, locals, handlers
<1>4. CASE ReadStep
  BY <1>4, ReaderType
<1>5. CASE UNCHANGED vars
  BY <1>5 DEF vars, TypeOK, ring, locals
<1>. QED
  BY <1>1, <1>2, <1>3, <1>4, <1>5, KeyOrNothing DEF Next

\* The kernel starts with an empty ring.
LEMMA InputTypeInit ==
  Init => TypeOK
<1>1. 0 \in Index /\ <<>> \in Seq(Char) /\ <<>> \in Seq(Keys) /\ Len(<<>>) = 0
  BY InputAssumption DEF Index
<1>. QED
  BY <1>1, InputAssumption DEF Init, TypeOK, Char

-----------------------------------------------------------------------------
(* The ring.  As long as the handler was orderly, the cells from r up to w *)
(* hold the characters not yet taken, the oldest at r.  A backspace goes   *)
(* in only when all was taken, so it can only be the oldest of them.       *)

Unread == Len(typed) - taken

\* The cell of the k-th character not yet taken.
Place(k) == IF r + k - 1 < BUFFER_SIZE THEN r + k - 1 ELSE r + k - 1 - BUFFER_SIZE

RingInv ==
  orderly =>
    /\ r \in Cell /\ w \in Cell
    /\ taken <= Len(typed)
    /\ Unread = IF w >= r THEN w - r ELSE w + BUFFER_SIZE - r
    /\ \A k \in 1..Unread : buf[Place(k)] = typed[taken + k]
    /\ \A k \in 2..Unread : typed[taken + k] # BS

\* Whoever has begun to take a character has the oldest, and finds r where it
\* was: a backspace moves r back only when there is nothing to take.
ReaderInv ==
  orderly =>
    /\ pc \in {"index", "char", "load", "store"} => Unread > 0
    /\ pc \in {"char", "load", "store"} => idx = r
    /\ pc \in {"load", "store"} => c = typed[taken + 1]
    /\ pc = "store" => old_r = r

InputInv == TypeOK /\ RingInv /\ ReaderInv

\* Nothing is typed, nothing taken: both ends of the ring are at 0.
LEMMA InputInvInit ==
  Init => InputInv
<1>. SUFFICES ASSUME Init PROVE InputInv
  OBVIOUS
<1>1. TypeOK
  BY InputTypeInit
<1>2. Len(typed) = 0 /\ taken = 0 /\ r = 0 /\ w = 0 /\ 0 \in Cell
  BY InputAssumption DEF Init, Cell
<1>3. pc = "idle"
  BY DEF Init
<1>4. RingInv
  BY <1>2, InputAssumption DEF RingInv, Unread
<1>. QED
  BY <1>1, <1>3, <1>4 DEF InputInv, ReaderInv

\* What an orderly character does to the history.
LEMMA OrderlyHandler ==
  ASSUME InputInv, NEW x \in Keys, Handler(x), orderly'
  PROVE  /\ orderly /\ ~Full
         /\ x = BS => Unread = 0 /\ r = w /\ r > 0
         /\ Unread' = Unread + 1 /\ Unread \in Nat
         /\ typed' \in Seq(Keys)
         /\ Len(typed') = Len(typed) + 1
         /\ typed'[Len(typed) + 1] = x
         /\ \A k \in 1..Len(typed) : typed'[k] = typed[k]
         /\ UNCHANGED <<pc, call, size, idx, c, old_r, line, taken, begin>>
<1>1. orderly' = (orderly /\ ~Full /\ (x = BS => r = w /\ w > 0))
  BY HandlerOfKey
<1>2. orderly /\ ~Full /\ (x = BS => r = w /\ w > 0)
  BY <1>1
<1>3. r \in Cell /\ w \in Cell /\ taken <= Len(typed)
      /\ Unread = IF w >= r THEN w - r ELSE w + BUFFER_SIZE - r
  BY <1>2 DEF InputInv, RingInv
<1>4. typed \in Seq(Keys) /\ taken \in Nat /\ Len(typed) \in Nat
  BY DEF InputInv, TypeOK
<1>5. typed' = Append(typed, x)
  BY HandlerOfKey
<1>6. /\ typed' \in Seq(Keys)
      /\ Len(typed') = Len(typed) + 1
      /\ typed'[Len(typed) + 1] = x
      /\ \A k \in 1..Len(typed) : typed'[k] = typed[k]
  BY <1>4, <1>5, AppendProperties
<1>7. UNCHANGED <<pc, call, size, idx, c, old_r, line, taken, begin>>
  BY DEF Handler, locals
<1>8. Unread' = Unread + 1 /\ Unread \in Nat
  BY <1>3, <1>4, <1>6, <1>7 DEF Unread
<1>9. x = BS => Unread = 0 /\ r = w /\ r > 0
  BY <1>2, <1>3, InputAssumption DEF Cell
<1>. QED
  BY <1>2, <1>6, <1>7, <1>8, <1>9

\* A key keeps the ring and its reader in step, wherever the reader is in its
\* two loads: it is stored past what the reader has still to take.
LEMMA HandlerRing ==
  ASSUME InputInv, NEW x \in Keys, Handler(x)
  PROVE  RingInv' /\ ReaderInv'
<1>. SUFFICES ASSUME orderly' PROVE RingInv' /\ ReaderInv'
  BY DEF RingInv, ReaderInv
<1>1. BUFFER_SIZE \in Nat /\ BUFFER_SIZE > 1
  BY InputAssumption
<1>2. /\ orderly /\ ~Full
      /\ x = BS => Unread = 0 /\ r = w /\ r > 0
      /\ Unread' = Unread + 1 /\ Unread \in Nat
      /\ UNCHANGED <<pc, idx, c, old_r, taken>>
  BY OrderlyHandler
<1>3. /\ r \in Cell /\ w \in Cell /\ taken <= Len(typed)
      /\ Unread = IF w >= r THEN w - r ELSE w + BUFFER_SIZE - r
  BY <1>2 DEF InputInv, RingInv
<1>4. /\ Len(typed) \in Nat /\ taken \in Nat /\ Unread = Len(typed) - taken
      /\ buf \in [Cell -> Char]
  BY DEF InputInv, TypeOK, Unread
<1>5. /\ \A k \in 1..Unread : buf[Place(k)] = typed[taken + k]
      /\ \A k \in 2..Unread : typed[taken + k] # BS
  BY <1>2 DEF InputInv, RingInv
<1>6. /\ Len(typed') = Len(typed) + 1
      /\ typed'[taken + (Unread + 1)] = x
      /\ \A k \in 1..Unread : typed'[taken + k] = typed[taken + k]
  <2>1. /\ Len(typed') = Len(typed) + 1
        /\ typed'[Len(typed) + 1] = x
        /\ \A k \in 1..Len(typed) : typed'[k] = typed[k]
    BY OrderlyHandler
  <2>2. taken + (Unread + 1) = Len(typed) + 1
    BY <1>4
  <2>3. \A k \in 1..Unread : taken + k \in 1..Len(typed)
    BY <1>2, <1>4
  <2>. QED
    BY <2>1, <2>2, <2>3
<1>x. x # NUL
  BY InputAssumption
<1>7. CASE x # BS
  <2>1. w # IF r = 0 THEN BUFFER_SIZE - 1 ELSE r - 1
    BY <1>2, <1>3, FullIsBefore
  <2>2. buf' = StoreAt(w, x) /\ w' = Advance(w) /\ r' = r
    BY <1>2, <1>7, <1>x DEF Handler, key_buffer_append
  <2>3. w' = IF w + 1 < BUFFER_SIZE THEN w + 1 ELSE 0
    BY <1>3, <2>2, AdvanceInRing
  <2>4. buf' = [buf EXCEPT ![w] = x]
    BY <1>3, <2>2 DEF StoreAt
  <2>5. r' \in Cell /\ w' \in Cell
    BY <1>1, <1>3, <2>2, <2>3 DEF Cell
  <2>6. Unread' = IF w' >= r' THEN w' - r' ELSE w' + BUFFER_SIZE - r'
    <3>1. Unread' = Unread + 1 /\ Unread \in Nat /\ r' = r
      BY <1>2, <2>2
    <3>. QED
      BY <1>1, <1>3, <2>1, <2>3, <3>1 DEF Cell
  <2>7. ASSUME NEW k \in 1..Unread PROVE Place(k) \in Cell /\ Place(k) # w
    <3>1. Unread \in Nat /\ k \in Nat /\ k > 0 /\ k <= Unread
      BY <1>2
    <3>. QED
      BY <1>1, <1>3, <3>1 DEF Cell, Place
  <2>8. Place(Unread + 1) = w
    BY <1>1, <1>3 DEF Cell, Place
  <2>9. \A k \in 1..(Unread + 1) : buf'[Place(k)] = typed'[taken + k]
    <3>1. ASSUME NEW k \in 1..Unread PROVE buf'[Place(k)] = typed'[taken + k]
      BY <2>4, <2>7, <1>4, <1>5, <1>6
    <3>2. buf'[Place(Unread + 1)] = typed'[taken + (Unread + 1)]
      BY <2>4, <2>8, <1>3, <1>4, <1>6
    <3>3. \A k \in 1..(Unread + 1) : k \in 1..Unread \/ k = Unread + 1
      BY <1>2
    <3>. QED
      BY <3>1, <3>2, <3>3
  <2>10. \A k : Place(k)' = Place(k)
    BY <2>2 DEF Place
  <2>11. \A k \in 1..Unread' : buf'[Place(k)'] = typed'[taken' + k]
    BY <1>2, <2>9, <2>10
  <2>12. \A k \in 2..Unread' : typed'[taken' + k] # BS
    <3>1. \A k \in 2..(Unread + 1) : k \in 2..Unread \/ k = Unread + 1
      BY <1>2
    <3>2. \A k \in 2..Unread : k \in 1..Unread
      BY <1>2
    <3>3. \A k \in 2..(Unread + 1) : typed'[taken + k] # BS
      BY <1>5, <1>6, <1>7, <3>1, <3>2
    <3>. QED
      BY <1>2, <3>3
  <2>13. taken' <= Len(typed')
    BY <1>2, <1>3, <1>4, <1>6
  <2>14. RingInv'
    BY <2>5, <2>6, <2>11, <2>12, <2>13 DEF RingInv
  <2>15. ReaderInv'
    <3>1. typed'[taken + 1] = typed[taken + 1] \/ Unread = 0
      BY <1>2, <1>6
    <3>. QED
      BY <1>2, <3>1, <2>2 DEF InputInv, ReaderInv
  <2>. QED
    BY <2>14, <2>15
<1>8. CASE x = BS
  <2>1. Unread = 0 /\ r = w /\ r > 0 /\ r \in Index
    BY <1>2, <1>8 DEF InputInv, TypeOK
  <2>2. buf' = StoreAt(Dec(w), x) /\ w' = Advance(Dec(w)) /\ r' = Dec(r)
    BY <1>2, <1>8, <1>x DEF Handler, key_buffer_append
  <2>3. Dec(r) = r - 1 /\ Dec(w) = r - 1
    BY <2>1, DecIsBefore
  <2>4. r - 1 \in Cell /\ r - 1 + 1 < BUFFER_SIZE
    BY <1>1, <1>3, <2>1 DEF Cell
  <2>5. w' = r
    BY <1>3, <2>2, <2>3, <2>4, AdvanceInRing DEF Cell
  <2>6. buf' = [buf EXCEPT ![r - 1] = x] /\ r' = r - 1
    BY <2>2, <2>3, <2>4 DEF StoreAt
  <2>7. r' \in Cell /\ w' \in Cell
    BY <1>3, <2>4, <2>5, <2>6
  <2>8. Unread' = 1
    BY <1>2, <2>1
  <2>9. buf'[Place(1)'] = typed'[taken' + 1]
    <3>1. Place(1)' = r'
      BY <2>4, <2>6, <1>1, <1>3 DEF Place, Cell
    <3>2. buf'[r'] = x
      BY <2>4, <2>6, <1>4
    <3>3. taken' + 1 = taken + (Unread + 1)
      BY <1>2, <1>4, <2>1
    <3>. QED
      BY <3>1, <3>2, <3>3, <1>6
  <2>10. RingInv'
    <3>1. \A k \in 1..Unread' : buf'[Place(k)'] = typed'[taken' + k]
      BY <2>8, <2>9
    <3>2. \A k \in 2..Unread' : FALSE
      BY <2>8
    <3>3. taken' <= Len(typed')
      BY <1>2, <1>3, <1>4, <1>6
    <3>4. Unread' = IF w' >= r' THEN w' - r' ELSE w' + BUFFER_SIZE - r'
      <4>1. w' = r /\ r' = r - 1 /\ r \in Nat /\ Unread' = 1
        BY <1>3, <2>5, <2>6, <2>8 DEF Cell
      <4>. QED
        BY <4>1
    <3>. QED
      BY <2>7, <3>1, <3>2, <3>3, <3>4 DEF RingInv
  <2>11. pc \notin {"index", "char", "load", "store"}
    BY <1>2, <2>1 DEF InputInv, ReaderInv
  <2>. QED
    BY <1>2, <2>10, <2>11 DEF ReaderInv
<1>. QED
  BY <1>7, <1>8

\* A step that leaves the ring and its history alone keeps the ring invariant.
LEMMA RingFrame ==
  ASSUME RingInv, UNCHANGED <<buf, r, w, typed, taken, orderly>>
  PROVE  RingInv'
<1>1. Unread' = Unread /\ (\A k : Place(k)' = Place(k))
  BY DEF Unread, Place
<1>. QED
  BY <1>1 DEF RingInv

\* The four loads, one after the other.
LEMMA LoadsRing ==
  ASSUME InputInv, Wait \/ LoadIndex \/ LoadChar \/ LoadR
  PROVE  RingInv' /\ ReaderInv'
<1>1. UNCHANGED <<buf, r, w, typed, taken, orderly>>
  BY DEF Wait, LoadIndex, LoadChar, LoadR, ring, handlers
<1>2. RingInv'
  BY <1>1, RingFrame DEF InputInv
<1>3. Unread' = Unread
  BY <1>1 DEF Unread
<1>4. ReaderInv'
  <2>. SUFFICES ASSUME orderly PROVE ReaderInv'
    BY <1>1 DEF ReaderInv
  <2>1. /\ r \in Cell /\ w \in Cell /\ Unread \in Int /\ BUFFER_SIZE \in Nat
        /\ Unread = IF w >= r THEN w - r ELSE w + BUFFER_SIZE - r
        /\ \A k \in 1..Unread : buf[Place(k)] = typed[taken + k]
    BY InputAssumption DEF InputInv, RingInv, TypeOK, Unread
  <2>2. w # r => Unread > 0
    BY <2>1 DEF Cell
  <2>3. Unread > 0 => buf[r] = typed[taken + 1]
    <3>1. Place(1) = r
      BY <2>1 DEF Cell, Place
    <3>. QED
      BY <2>1, <3>1
  <2>4. CASE Wait
    BY <2>4, <2>2, <1>3 DEF Wait, ReaderInv
  <2>5. CASE LoadIndex
    BY <2>5, <1>1, <1>3 DEF LoadIndex, ReaderInv, InputInv
  <2>6. CASE LoadChar
    <3>1. pc = "char" /\ Unread > 0 /\ idx = r
      BY <2>6 DEF LoadChar, ReaderInv, InputInv
    <3>2. c' = typed[taken + 1]
      BY <2>1, <2>3, <2>6, <3>1 DEF LoadChar
    <3>. QED
      BY <2>6, <3>1, <3>2, <1>1, <1>3 DEF LoadChar, ReaderInv
  <2>7. CASE LoadR
    <3>1. pc = "load" /\ Unread > 0 /\ idx = r /\ c = typed[taken + 1]
      BY <2>7 DEF LoadR, ReaderInv, InputInv
    <3>. QED
      BY <2>7, <3>1, <1>1, <1>3 DEF LoadR, ReaderInv
  <2>. QED
    BY <2>4, <2>5, <2>6, <2>7
<1>. QED
  BY <1>2, <1>4

\* Storing r takes the oldest character, and no other, out of the ring.
LEMMA StoreRRing ==
  ASSUME InputInv, StoreR
  PROVE  RingInv' /\ ReaderInv'
<1>1. /\ pc = "store" /\ r' = Advance(old_r) /\ taken' = taken + 1
      /\ pc' \in {"idle", "wait"}
      /\ UNCHANGED <<buf, w, typed, orderly>>
  BY DEF StoreR, locals, handlers
<1>2. ReaderInv'
  BY <1>1 DEF ReaderInv
<1>. SUFFICES ASSUME orderly PROVE RingInv'
  BY <1>1, <1>2 DEF RingInv
<1>3. BUFFER_SIZE \in Nat /\ BUFFER_SIZE > 1 /\ taken \in Nat /\ Len(typed) \in Nat
  BY InputAssumption DEF InputInv, TypeOK
<1>4. old_r = r /\ Unread > 0
  BY <1>1 DEF InputInv, ReaderInv
<1>5. /\ r \in Cell /\ w \in Cell /\ taken <= Len(typed)
      /\ Unread = IF w >= r THEN w - r ELSE w + BUFFER_SIZE - r
  BY DEF InputInv, RingInv
<1>6. /\ \A k \in 1..Unread : buf[Place(k)] = typed[taken + k]
      /\ \A k \in 2..Unread : typed[taken + k] # BS
  BY DEF InputInv, RingInv
<1>7. r' = IF r + 1 < BUFFER_SIZE THEN r + 1 ELSE 0
  BY <1>1, <1>4, <1>5, AdvanceInRing
<1>8. r' \in Cell /\ w' \in Cell
  BY <1>1, <1>3, <1>5, <1>7 DEF Cell
<1>9. Unread' = Unread - 1 /\ Unread \in Nat /\ taken' <= Len(typed')
  BY <1>1, <1>3, <1>4 DEF Unread
<1>10. Unread' = IF w' >= r' THEN w' - r' ELSE w' + BUFFER_SIZE - r'
  <2>1. Unread' = Unread - 1 /\ w' = w
    BY <1>1, <1>9
  <2>. QED
    BY <1>3, <1>4, <1>5, <1>7, <2>1 DEF Cell
<1>11. \A k \in 1..Unread' : k + 1 \in 1..Unread /\ k + 1 \in 2..Unread
  BY <1>9
<1>12. \A k \in 1..Unread' : Place(k)' = Place(k + 1)
  <2>. SUFFICES ASSUME NEW k \in 1..Unread' PROVE Place(k)' = Place(k + 1)
    OBVIOUS
  <2>1. k \in Nat /\ k > 0 /\ k < Unread /\ Unread <= BUFFER_SIZE - 1
    BY <1>3, <1>5, <1>9 DEF Cell
  <2>2. Place(k)' = IF r' + k - 1 < BUFFER_SIZE THEN r' + k - 1
                    ELSE r' + k - 1 - BUFFER_SIZE
    BY DEF Place
  <2>. QED
    BY <1>3, <1>5, <1>7, <2>1, <2>2 DEF Place, Cell
<1>13. \A k \in 1..Unread' : taken' + k = taken + (k + 1)
  BY <1>1, <1>3
<1>14. \A k \in 1..Unread' : buf'[Place(k)'] = typed'[taken' + k]
  BY <1>1, <1>6, <1>11, <1>12, <1>13
<1>15. \A k \in 2..Unread' : typed'[taken' + k] # BS
  <2>1. \A k \in 2..Unread' : k \in 1..Unread'
    OBVIOUS
  <2>. QED
    BY <1>1, <1>6, <1>11, <1>13, <2>1
<1>. QED
  BY <1>8, <1>9, <1>10, <1>14, <1>15 DEF RingInv

\* Every step of Input keeps the invariant.
LEMMA InputInvStep ==
  InputInv /\ [Next]_vars => InputInv'
<1>. SUFFICES ASSUME InputInv, [Next]_vars PROVE InputInv'
  OBVIOUS
<1>1. TypeOK'
  BY InputTypeStep DEF InputInv
<1>2. ASSUME NEW x \in Keys, Handler(x) PROVE InputInv'
  BY <1>1, <1>2, HandlerRing DEF InputInv
<1>3. CASE ReadStep
  BY <1>1, <1>3, LoadsRing, StoreRRing DEF ReadStep, InputInv
<1>4. CASE BeginReadln \/ (\E n \in Sizes : BeginRead(n))
  <2>1. /\ UNCHANGED <<buf, r, w, typed, taken, orderly>>
        /\ pc' \in {"idle", "wait"}
    BY <1>4 DEF BeginRead, BeginReadln, ring, locals, handlers
  <2>. QED
    BY <1>1, <2>1, RingFrame DEF InputInv, ReaderInv
<1>5. CASE UNCHANGED vars
  <2>1. UNCHANGED <<buf, r, w, typed, taken, orderly>>
        /\ UNCHANGED <<pc, idx, c, old_r>>
    BY <1>5 DEF vars, ring, locals
  <2>2. Unread' = Unread
    BY <2>1 DEF Unread
  <2>. QED
    BY <1>1, <2>1, <2>2, RingFrame DEF InputInv, ReaderInv
<1>. QED
  BY <1>2, <1>3, <1>4, <1>5, KeyOrNothing DEF Next

\* The invariant says of the ring what the properties of Input say.
LEMMA InputInvMeans ==
  ASSUME InputInv
  PROVE  RingHoldsTyped /\ ReaderHoldsOldest
<1>. SUFFICES ASSUME orderly PROVE RingHoldsTyped /\ ReaderHoldsOldest
  BY DEF RingHoldsTyped, ReaderHoldsOldest
<1>1. /\ BUFFER_SIZE \in Nat /\ BUFFER_SIZE > 1 /\ taken \in Nat /\ Len(typed) \in Nat
      /\ typed \in Seq(Keys) /\ buf \in [Cell -> Char]
  BY InputAssumption DEF InputInv, TypeOK
<1>2. /\ r \in Cell /\ w \in Cell /\ taken <= Len(typed)
      /\ Unread = IF w >= r THEN w - r ELSE w + BUFFER_SIZE - r
      /\ \A k \in 1..Unread : buf[Place(k)] = typed[taken + k]
  BY DEF InputInv, RingInv
<1>3. Unread \in 0..(BUFFER_SIZE - 1)
  BY <1>1, <1>2 DEF Cell
<1>4. (w + BUFFER_SIZE - r) % BUFFER_SIZE = Unread
  <2>. DEFINE d == w + BUFFER_SIZE - r
  <2>1. d \in 0..(2 * BUFFER_SIZE - 1)
    BY <1>1, <1>2 DEF Cell
  <2>2. Unread = IF d < BUFFER_SIZE THEN d ELSE d - BUFFER_SIZE
    BY <1>1, <1>2 DEF Cell
  <2>. HIDE DEF d
  <2>3. d % BUFFER_SIZE = Unread
    BY <1>1, <2>1, <2>2, OneTurn
  <2>. QED
    BY <2>3 DEF d
<1>5. ASSUME NEW k \in 1..Unread PROVE (r + k - 1) % BUFFER_SIZE = Place(k)
  <2>1. r + k - 1 \in 0..(2 * BUFFER_SIZE - 1)
    BY <1>1, <1>2, <1>3 DEF Cell
  <2>. QED
    BY SMTT(30), <1>1, <1>2, <2>1, OneTurn DEF Cell, Place
<1>6. InRing = [k \in 1..Unread |-> typed[taken + k]]
  BY <1>2, <1>4, <1>5 DEF InRing
<1>7. /\ NotTaken \in Seq(Keys) /\ Len(NotTaken) = Unread
      /\ \A k \in 1..Unread : NotTaken[k] = typed[taken + k]
  <2>1. \A k \in (taken + 1)..Len(typed) : typed[k] \in Keys
    <3>1. \A k \in 1..Len(typed) : typed[k] \in Keys
      BY <1>1, ElementOfSeq
    <3>2. (taken + 1)..Len(typed) \subseteq 1..Len(typed)
      BY <1>1
    <3>. QED
      BY <3>1, <3>2
  <2>2. Len(typed) - (taken + 1) + 1 = Unread /\ Unread \in Nat
    BY <1>1, <1>2 DEF Unread
  <2>3. \A k \in 1..Unread : (taken + 1) + k - 1 = taken + k
    BY <1>1
  <2>. QED
    BY <1>1, <1>2, <2>1, <2>2, <2>3, SubSeqProperties DEF NotTaken
<1>8. InRing = NotTaken
  <2>1. NotTaken = [k \in 1..Len(NotTaken) |-> NotTaken[k]]
    BY <1>7
  <2>. QED
    BY <1>6, <1>7, <2>1
<1>9. RingHoldsTyped
  BY <1>2, <1>8 DEF RingHoldsTyped
<1>10. ReaderHoldsOldest
  <2>1. Unread > 0 => NotTaken # <<>> /\ Head(NotTaken) = typed[taken + 1]
    BY <1>3, <1>7
  <2>. QED
    BY <2>1 DEF InputInv, ReaderInv, ReaderHoldsOldest
<1>. QED
  BY <1>9, <1>10

-----------------------------------------------------------------------------
(* Echo takes the steps of Input.                                          *)

\* A key that is echoed is a key stored, and the steps of the line that only
\* print leave the ring alone.
LEMMA EchoIsInput ==
  [EchoNext]_evars => [Next]_vars
<1>. SUFFICES ASSUME [EchoNext]_evars PROVE [Next]_vars
  OBVIOUS
<1>1. ASSUME NEW x \in (Char \ {NL, BS}) \cup {CR, DEL}, handle_serial_in(x)
      PROVE  [Next]_vars
  <2>1. Received(x) \in Char
    BY EchoAssumption DEF Received, Char
  <2>2. Handler(Received(x))
    BY <1>1 DEF handle_serial_in
  <2>. QED
    BY <2>1, <2>2 DEF Next
<1>2. CASE Prints \/ LoadOffset \/ StoreOffset \/ Out \/ SerialRemBarrier
  BY <1>2 DEF Prints, LoadOffset, StoreOffset, Out, SerialRemBarrier
<1>3. ASSUME NEW n \in Sizes, Read(n) PROVE [Next]_vars
  BY <1>3 DEF Read, Next
<1>4. CASE StoreBarrier
  BY <1>4 DEF StoreBarrier, Next
<1>5. CASE Reads
  BY <1>5 DEF Reads, Next
<1>6. CASE UNCHANGED evars
  BY <1>6 DEF evars
<1>. QED
  BY <1>1, <1>2, <1>3, <1>4, <1>5, <1>6 DEF EchoNext, ThreadStep

\* What the variables of input.c hold has its type, in Input and in Echo.
THEOREM InputTyped ==
  /\ Spec => []TypeOK
  /\ EchoSpec => []TypeOK
<1>1. EchoInit => TypeOK
  BY InputTypeInit DEF EchoInit
<1>2. TypeOK /\ [EchoNext]_evars => TypeOK'
  BY InputTypeStep, EchoIsInput
<1>3. Spec => []TypeOK
  BY InputTypeInit, InputTypeStep, PTL DEF Spec
<1>4. EchoSpec => []TypeOK
  BY <1>1, <1>2, PTL DEF EchoSpec
<1>. QED
  BY <1>3, <1>4

\* The invariant of the ring and its reader: while the keys are orderly the two
\* indices count, modulo BUFFER_SIZE, what was typed and what was taken, and the
\* reader's registers hold what it loaded.  It holds for handlers that only
\* store a key and for those that echo it as well.
THEOREM InputInvariant ==
  /\ Spec => []InputInv
  /\ EchoSpec => []InputInv
<1>1. EchoInit => InputInv
  BY InputInvInit DEF EchoInit
<1>2. InputInv /\ [EchoNext]_evars => InputInv'
  BY InputInvStep, EchoIsInput
<1>3. Spec => []InputInv
  BY InputInvInit, InputInvStep, PTL DEF Spec
<1>4. EchoSpec => []InputInv
  BY <1>1, <1>2, PTL DEF EchoSpec
<1>. QED
  BY <1>3, <1>4

\* The ring is exactly what was typed and not yet taken, in order.
THEOREM RingIsTyped ==
  /\ Spec => []RingHoldsTyped
  /\ EchoSpec => []RingHoldsTyped
<1>1. InputInv => RingHoldsTyped
  BY InputInvMeans
<1>. QED
  BY <1>1, InputInvariant, PTL

\* A reader interrupted between any two of its accesses still takes the oldest
\* character, and r is where it loaded it.
THEOREM ReaderIsNotOvertaken ==
  /\ Spec => []ReaderHoldsOldest
  /\ EchoSpec => []ReaderHoldsOldest
<1>1. InputInv => ReaderHoldsOldest
  BY InputInvMeans
<1>. QED
  BY <1>1, InputInvariant, PTL

-----------------------------------------------------------------------------
(* The prompt.                                                             *)

EchoTypeOK ==
  /\ offset \in Index /\ barrier \in Index
  /\ reg \in Index /\ out \in Keys \cup {NUL}
  /\ printed \in Nat
  /\ shown \in Seq(Keys \cup {NUL})
  /\ prompt \in Nat /\ unseen \in Nat /\ nulls \in Nat

\* offset never counts more behind the barrier than stands behind the prompt and
\* was not shown: a lost increment only makes it smaller, and at 2^32 it falls to 0.
PromptInv ==
  /\ at = "set_store" =>
       prompt <= Len(shown) /\ offset - reg <= Len(shown) - prompt + unseen
  /\ at = "read" /\ call = "input_readln" =>
       prompt <= Len(shown) + unseen /\ offset - barrier <= Len(shown) - prompt + unseen

\* A terminal shows newlines and obeys backspaces.
LEMMA Obeyed ==
  ~Unshown(NL) /\ ~Unshown(BS)
BY EchoAssumption, InputAssumption DEF Unshown

\* The characters the terminal deals with.
LEMMA DisplayedText ==
  ASSUME NEW text \in Seq(Keys \cup {NUL}), NEW x \in Keys \cup {NUL}
  PROVE  /\ Displayed(text, x) \in Seq(Keys \cup {NUL})
         /\ Unshown(x) => Displayed(text, x) = text
         /\ (x # BS /\ ~Unshown(x)) =>
              /\ Len(Displayed(text, x)) = Len(text) + 1
              /\ Displayed(text, x)[Len(text) + 1] = x
              /\ \A k \in 1..Len(text) : Displayed(text, x)[k] = text[k]
         /\ (x = BS /\ (Len(text) = 0 \/ text[Len(text)] = NL)) => Displayed(text, x) = text
         /\ (x = BS /\ Len(text) > 0 /\ text[Len(text)] # NL) =>
              /\ Len(Displayed(text, x)) = Len(text) - 1
              /\ \A k \in 1..(Len(text) - 1) : Displayed(text, x)[k] = text[k]
<1>. DEFINE T == Keys \cup {NUL}
            n == Len(text)
<1>1. n \in Nat /\ (n = 0 <=> text = <<>>)
  BY EmptySeq
<1>u. CASE Unshown(x)
  <2>1. Displayed(text, x) = text
    BY <1>u DEF Displayed
  <2>2. x # BS
    BY <1>u, Obeyed
  <2>. QED
    BY <1>u, <2>1, <2>2
<1>2. CASE x # BS /\ ~Unshown(x)
  <2>1. Displayed(text, x) = Append(text, x)
    BY <1>2 DEF Displayed
  <2>. QED
    BY <1>2, <2>1, AppendProperties
<1>3. CASE x = BS /\ (n = 0 \/ text[n] = NL)
  <2>1. Displayed(text, x) = text
    BY <1>1, <1>3, Obeyed DEF Displayed, Last
  <2>. QED
    BY <1>3, <2>1
<1>4. CASE x = BS /\ n > 0 /\ text[n] # NL
  <2>1. Displayed(text, x) = SubSeq(text, 1, n - 1)
    BY <1>1, <1>4, Obeyed DEF Displayed, Last, Front
  <2>2. \A k \in 1..(n - 1) : text[k] \in T
    BY <1>1
  <2>3. /\ SubSeq(text, 1, n - 1) \in Seq(T)
        /\ Len(SubSeq(text, 1, n - 1)) = IF 1 <= n - 1 THEN n - 1 - 1 + 1 ELSE 0
        /\ \A k \in 1..(n - 1 - 1 + 1) : SubSeq(text, 1, n - 1)[k] = text[1 + k - 1]
    BY <1>1, <2>2, SubSeqProperties
  <2>4. /\ Len(SubSeq(text, 1, n - 1)) = n - 1
        /\ \A k \in 1..(n - 1) : SubSeq(text, 1, n - 1)[k] = text[k]
    <3>1. (IF 1 <= n - 1 THEN n - 1 - 1 + 1 ELSE 0) = n - 1 /\ n - 1 - 1 + 1 = n - 1
      <4>1. \A j \in Nat : j > 0 => (IF 1 <= j - 1 THEN j - 1 - 1 + 1 ELSE 0) = j - 1
        OBVIOUS
      <4>2. \A j \in Nat : j > 0 => j - 1 - 1 + 1 = j - 1
        OBVIOUS
      <4>. QED
        BY <1>1, <1>4, <4>1, <4>2
    <3>2. \A k \in 1..(n - 1) : 1 + k - 1 = k
      OBVIOUS
    <3>. QED
      BY <2>3, <3>1, <3>2
  <2>. QED
    BY <1>4, <2>1, <2>3, <2>4, Obeyed
<1>. QED
  BY <1>1, <1>u, <1>2, <1>3, <1>4

\* What serial_writeb does to offset and to the text, for either kind of
\* character.
LEMMA WriteText ==
  ASSUME EchoTypeOK, NEW x \in Char, serial_writeb(x)
  PROVE  /\ offset' \in Index /\ shown' \in Seq(Keys \cup {NUL})
         /\ x # BS => offset' = (offset + 1) % U32 /\ offset' <= offset + 1
         /\ Unshown(x) => x # BS /\ shown' = shown
         /\ (x # BS /\ ~Unshown(x)) =>
              /\ Len(shown') = Len(shown) + 1
              /\ shown'[Len(shown) + 1] = x
              /\ \A k \in 1..Len(shown) : shown'[k] = shown[k]
         /\ (x = BS /\ offset <= barrier) => offset' = offset /\ shown' = shown
         /\ (x = BS /\ offset > barrier) =>
              /\ offset' = offset - 1
              /\ \/ /\ Len(shown) = 0 \/ shown[Len(shown)] = NL
                    /\ shown' = shown
                 \/ /\ Len(shown) > 0 /\ shown[Len(shown)] # NL
                    /\ Len(shown') = Len(shown) - 1
                    /\ \A k \in 1..(Len(shown) - 1) : shown'[k] = shown[k]
<1>1. /\ offset \in Index /\ barrier \in Index /\ shown \in Seq(Keys \cup {NUL})
      /\ U32 \in Nat /\ U32 > 1 /\ x \in Keys \cup {NUL} /\ ~Unshown(BS)
  BY InputAssumption, Obeyed DEF EchoTypeOK, Char
<1>2. CASE x # BS
  <2>1. offset' = (offset + 1) % U32 /\ shown' = Displayed(shown, x)
    BY <1>2 DEF serial_writeb, HeldBack
  <2>2. (offset + 1) % U32 = IF offset + 1 < U32 THEN offset + 1 ELSE offset + 1 - U32
    <3>1. offset + 1 \in 0..(2 * U32 - 1) /\ U32 > 0
      BY <1>1 DEF Index
    <3>. QED
      BY <1>1, <3>1, OneTurn DEF Index
  <2>3. offset' \in Index /\ offset' <= offset + 1
    BY <1>1, <2>1, <2>2 DEF Index
  <2>. QED
    BY <1>1, <1>2, <2>1, <2>3, DisplayedText
<1>3. CASE x = BS /\ offset <= barrier
  BY <1>1, <1>3 DEF serial_writeb, HeldBack, Index
<1>4. CASE x = BS /\ offset > barrier
  <2>1. offset' = Dec(offset) /\ shown' = Displayed(shown, x)
    BY <1>1, <1>4 DEF serial_writeb, HeldBack, Index
  <2>2. offset' = offset - 1 /\ offset' \in Index
    BY <1>1, <1>4, <2>1, DecIsBefore DEF Index
  <2>3. Len(shown) \in Nat
    BY <1>1
  <2>4. \/ Len(shown) = 0 \/ shown[Len(shown)] = NL
        \/ Len(shown) > 0 /\ shown[Len(shown)] # NL
    BY <2>3
  <2>5. shown' \in Seq(Keys \cup {NUL})
    BY <1>1, <2>1, DisplayedText
  <2>6. \/ (Len(shown) = 0 \/ shown[Len(shown)] = NL) /\ shown' = shown
        \/ /\ Len(shown) > 0 /\ shown[Len(shown)] # NL
           /\ Len(shown') = Len(shown) - 1
           /\ \A k \in 1..(Len(shown) - 1) : shown'[k] = shown[k]
    BY <1>1, <1>4, <2>1, <2>4, DisplayedText
  <2>7. ~(offset <= barrier)
    BY <1>1, <1>4 DEF Index
  <2>. QED
    BY <1>1, <1>4, <2>2, <2>5, <2>6, <2>7
<1>. QED
  <2>1. offset <= barrier \/ offset > barrier
    BY <1>1 DEF Index
  <2>. QED
    BY <1>2, <1>3, <1>4, <2>1

\* The types of Echo's own variables.
LEMMA EchoTypeStep ==
  TypeOK /\ EchoTypeOK /\ [EchoNext]_evars => EchoTypeOK'
<1>. SUFFICES ASSUME TypeOK, EchoTypeOK, [EchoNext]_evars PROVE EchoTypeOK'
  OBVIOUS
<1>1. ASSUME NEW x \in (Char \ {NL, BS}) \cup {CR, DEL}, handle_serial_in(x)
      PROVE  EchoTypeOK'
  <2>1. Received(x) \in Char
    BY EchoAssumption DEF Received, Char
  <2>2. /\ serial_writeb(Received(x)) /\ UNCHANGED <<barrier, at, reg, out, printed>>
        /\ prompt' = Len(shown') \/ prompt' = prompt
        /\ unseen' = unseen + 1 \/ unseen' = unseen
        /\ nulls' = nulls + 1 \/ nulls' = nulls
    BY <1>1 DEF handle_serial_in, Echoed, thread
  <2>3. offset' \in Index /\ shown' \in Seq(Keys \cup {NUL})
    BY <2>1, <2>2, WriteText
  <2>4. Len(shown') \in Nat
    BY <2>3
  <2>. QED
    BY <2>2, <2>3, <2>4 DEF EchoTypeOK
<1>2. CASE Prints
  BY <1>2, EchoAssumption DEF Prints, EchoTypeOK, serial, screen
<1>3. CASE StoreOffset
  <2>1. (reg + 1) % U32 \in Index /\ 0 \in Index
    BY InputAssumption DEF EchoTypeOK, Index
  <2>. QED
    BY <1>3, <2>1 DEF StoreOffset, EchoTypeOK, screen
<1>4. CASE Out
  <2>1. shown' \in Seq(Keys \cup {NUL})
    BY <1>4, DisplayedText DEF Out, EchoTypeOK
  <2>. QED
    BY <1>4, <2>1 DEF Out, EchoTypeOK, serial
<1>5. CASE LoadOffset
  <2>1. Len(shown) \in Nat
    BY DEF EchoTypeOK
  <2>. QED
    BY <1>5, <2>1 DEF LoadOffset, EchoTypeOK, serial
<1>6. CASE StoreBarrier
  <2>1. 0 \in Index
    BY InputAssumption DEF Index
  <2>. QED
    BY <1>6, <2>1 DEF StoreBarrier, EchoTypeOK, screen
<1>7. CASE Reads \/ (\E n \in Sizes : Read(n))
  BY <1>7 DEF Reads, Read, EchoTypeOK, serial, screen
<1>8. CASE SerialRemBarrier
  <2>1. 0 \in Index /\ 0 \in Nat
    BY InputAssumption DEF Index
  <2>. QED
    BY <1>8, <2>1 DEF SerialRemBarrier, EchoTypeOK
<1>9. CASE UNCHANGED evars
  BY <1>9 DEF evars, EchoTypeOK, serial, thread, screen
<1>. QED
  BY <1>1, <1>2, <1>3, <1>4, <1>5, <1>6, <1>7, <1>8, <1>9 DEF EchoNext, ThreadStep

\* The reader's accesses leave the call it serves alone.
LEMMA ReadStepCall ==
  ReadStep => UNCHANGED <<call, begin, typed, orderly>>
BY DEF ReadStep, Wait, LoadIndex, LoadChar, LoadR, StoreR, handlers

\* Keys, calls of logf and steps of the reader leave the prompt whole.
LEMMA PromptInvStep ==
  EchoTypeOK /\ PromptInv /\ [EchoNext]_evars => PromptInv'
<1>. SUFFICES ASSUME EchoTypeOK, PromptInv, [EchoNext]_evars PROVE PromptInv'
  OBVIOUS
<1>. DEFINE n == Len(shown)
<1>1. /\ n \in Nat /\ prompt \in Nat /\ unseen \in Nat
      /\ offset \in Nat /\ barrier \in Nat /\ reg \in Nat
  BY DEF EchoTypeOK, Index
<1>2. ASSUME NEW x \in (Char \ {NL, BS}) \cup {CR, DEL}, handle_serial_in(x)
      PROVE  PromptInv'
  <2>. DEFINE y == Received(x)
              m == Len(shown')
              o == offset'
              p == prompt'
              u == unseen'
  <2>1. y \in Char
    BY EchoAssumption DEF Received, Char
  <2>2. /\ serial_writeb(y)
        /\ UNCHANGED <<barrier, at, reg, call>>
        /\ p = IF at = "set_store" /\ m < prompt THEN m ELSE prompt
        /\ u = IF InLine /\ Unshown(y) THEN unseen + 1 ELSE unseen
    BY <1>2 DEF handle_serial_in, Echoed, thread, Handler
  <2>3. m \in Nat /\ o \in Nat
    BY <2>1, <2>2, WriteText DEF Index
  <2>4. \/ o <= offset + 1 /\ m = n + 1 /\ u = unseen
        \/ o <= offset + 1 /\ m = n /\ (InLine => u = unseen + 1)
        \/ offset <= barrier /\ o = offset /\ m = n /\ u = unseen
        \/ offset > barrier /\ o = offset - 1 /\ (m = n \/ m = n - 1) /\ u = unseen
    <3>1. offset <= barrier \/ offset > barrier
      BY <1>1
    <3>2. CASE Unshown(y)
      <4>1. o <= offset + 1 /\ m = n
        BY <2>1, <2>2, <3>2, WriteText
      <4>. QED
        BY <2>2, <3>2, <4>1
    <3>3. CASE ~Unshown(y)
      <4>1. u = unseen
        BY <2>2, <3>3
      <4>. QED
        BY <2>1, <2>2, <3>1, <3>3, <4>1, WriteText
    <3>. QED
      BY <3>2, <3>3
  <2>. HIDE DEF y, m, o, p, u
  <2>5. CASE at = "set_store"
    <3>1. prompt <= n /\ offset - reg <= n - prompt + unseen /\ InLine
      BY <2>5 DEF PromptInv, InLine
    <3>2. p <= m /\ o - reg <= m - p + u
      BY <1>1, <2>2, <2>3, <2>4, <2>5, <3>1
    <3>. QED
      BY <2>2, <2>5, <3>2 DEF PromptInv, m, o, p, u
  <2>6. CASE at = "read" /\ call = "input_readln"
    <3>1. prompt <= n + unseen /\ offset - barrier <= n - prompt + unseen /\ InLine
      BY <2>6 DEF PromptInv, InLine
    <3>2. p = prompt
      BY <2>2, <2>6
    <3>3. u \in Nat
      BY <1>1, <2>2
    <3>4. prompt <= m + u
      BY <1>1, <2>3, <2>4, <3>1, <3>3
    <3>5. o - barrier <= m - prompt + u
      BY <1>1, <2>3, <2>4, <3>1, <3>3
    <3>. QED
      BY <2>2, <2>6, <3>2, <3>4, <3>5 DEF PromptInv, m, o, p, u
  <2>. QED
    BY <2>2, <2>5, <2>6 DEF PromptInv
<1>3. CASE Prints \/ StoreOffset \/ Out \/ SerialRemBarrier
  BY <1>3 DEF Prints, StoreOffset, Out, SerialRemBarrier, Goes, PromptInv
<1>4. CASE LoadOffset
  <2>1. at' = "set_store" /\ reg' = offset /\ prompt' = n /\ unseen' = 0
        /\ UNCHANGED <<offset, shown>>
    BY <1>4 DEF LoadOffset, Goes, serial
  <2>. QED
    BY <1>1, <2>1 DEF PromptInv
<1>5. CASE StoreBarrier
  <2>1. at = "set_store" /\ at' = "read" /\ barrier' = reg
        /\ UNCHANGED <<offset, shown, prompt, unseen>>
    BY <1>5 DEF StoreBarrier, Goes, screen
  <2>. QED
    BY <1>1, <2>1 DEF PromptInv
<1>6. CASE Reads
  <2>1. at = "read" /\ at' # "set_store"
        /\ UNCHANGED <<call, offset, barrier, shown, prompt, unseen>>
    BY <1>6, ReadStepCall DEF Reads, serial, screen
  <2>. QED
    BY <2>1 DEF PromptInv
<1>7. ASSUME NEW k \in Sizes, Read(k) PROVE PromptInv'
  BY <1>7 DEF Read, BeginRead, PromptInv
<1>8. CASE UNCHANGED evars
  <2>1. UNCHANGED <<at, call, reg, offset, barrier, shown, prompt, unseen>>
    BY <1>8 DEF evars, vars, serial, thread, screen
  <2>. QED
    BY <2>1 DEF PromptInv
<1>. QED
  BY <1>2, <1>3, <1>4, <1>5, <1>6, <1>7, <1>8 DEF EchoNext, ThreadStep

\* What the reader's prompt needs of each step.
LEMMA PromptStep ==
  EchoTypeOK /\ PromptInv /\ [EchoNext]_evars =>
    [at = "read" /\ call = "input_readln" =>
       /\ Len(shown') >= prompt - unseen'
       /\ \A i \in 1..(prompt - unseen') : shown'[i] = shown[i]]_evars
<1>. SUFFICES ASSUME EchoTypeOK, PromptInv, EchoNext, at = "read", call = "input_readln"
              PROVE  /\ Len(shown') >= prompt - unseen'
                     /\ \A i \in 1..(prompt - unseen') : shown'[i] = shown[i]
  OBVIOUS
<1>1. /\ Len(shown) \in Nat /\ prompt \in Nat /\ unseen \in Nat
      /\ offset \in Nat /\ barrier \in Nat
      /\ shown \in Seq(Keys \cup {NUL})
  BY DEF EchoTypeOK, Index
<1>2. /\ prompt <= Len(shown) + unseen
      /\ offset - barrier <= Len(shown) - prompt + unseen
      /\ InLine
  BY DEF PromptInv, InLine
<1>3. ASSUME NEW x \in (Char \ {NL, BS}) \cup {CR, DEL}, handle_serial_in(x)
      PROVE  /\ Len(shown') >= prompt - unseen'
             /\ \A i \in 1..(prompt - unseen') : shown'[i] = shown[i]
  <2>1. Received(x) \in Char
    BY EchoAssumption DEF Received, Char
  <2>2. /\ serial_writeb(Received(x))
        /\ unseen' = IF Unshown(Received(x)) THEN unseen + 1 ELSE unseen
    BY <1>2, <1>3 DEF handle_serial_in, Echoed
  <2>3. offset <= barrier \/ offset > barrier
    BY <1>1
  <2>4. \/ Len(shown') = Len(shown) + 1 /\ \A k \in 1..Len(shown) : shown'[k] = shown[k]
        \/ shown' = shown
        \/ /\ offset > barrier /\ Len(shown) > 0 /\ Len(shown') = Len(shown) - 1
           /\ \A k \in 1..(Len(shown) - 1) : shown'[k] = shown[k]
    BY <2>1, <2>2, <2>3, WriteText
  <2>. DEFINE u == unseen'
  <2>5. u \in Nat /\ u >= unseen
    BY <1>1, <2>2
  <2>. HIDE DEF u
  <2>6. CASE Len(shown') = Len(shown) + 1 /\ \A k \in 1..Len(shown) : shown'[k] = shown[k]
    <3>1. prompt - u <= Len(shown)
      BY <1>1, <1>2, <2>5
    <3>2. \A i \in 1..(prompt - u) : i \in 1..Len(shown)
      BY <1>1, <2>5, <3>1
    <3>3. Len(shown') >= prompt - u
      BY <1>1, <2>5, <2>6, <3>1
    <3>. QED
      BY <2>6, <3>2, <3>3 DEF u
  <2>7. CASE shown' = shown
    BY <1>1, <1>2, <2>5, <2>7 DEF u
  <2>8. CASE /\ offset > barrier /\ Len(shown) > 0 /\ Len(shown') = Len(shown) - 1
             /\ \A k \in 1..(Len(shown) - 1) : shown'[k] = shown[k]
    <3>1. prompt - u <= Len(shown) - 1
      BY <1>1, <1>2, <2>5, <2>8
    <3>2. \A i \in 1..(prompt - u) : i \in 1..(Len(shown) - 1)
      BY <1>1, <2>5, <3>1
    <3>3. Len(shown') >= prompt - u
      BY <1>1, <2>5, <2>8, <3>1
    <3>. QED
      BY <2>8, <3>2, <3>3 DEF u
  <2>. QED
    BY <2>4, <2>6, <2>7, <2>8
<1>4. CASE ThreadStep \/ Prints \/ LoadOffset \/ (\E k \in Sizes : Read(k))
  <2>1. shown' = shown /\ unseen' = unseen
    BY <1>4 DEF ThreadStep, StoreOffset, Out, StoreBarrier, Reads, SerialRemBarrier,
                Prints, LoadOffset, Read, Goes, screen
  <2>. QED
    BY <1>1, <1>2, <2>1
<1>. QED
  BY <1>3, <1>4 DEF EchoNext

\* Nothing is shown before the first call.
LEMMA EchoStart ==
  EchoInit => EchoTypeOK /\ PromptInv
<1>1. 0 \in Index /\ <<>> \in Seq(Keys \cup {NUL})
  BY InputAssumption DEF Index
<1>. QED
  BY <1>1 DEF EchoInit, EchoTypeOK, PromptInv

\* The invariant of the echo: the ring's, and that the barrier of a line that is
\* being read stands where its prompt ends.
THEOREM EchoInvariant ==
  EchoSpec => [](InputInv /\ EchoTypeOK /\ PromptInv)
<1>. DEFINE EInv == InputInv /\ EchoTypeOK /\ PromptInv
<1>1. EchoInit => EInv
  BY InputInvInit, EchoStart DEF EchoInit
<1>2. EInv /\ [EchoNext]_evars => EInv'
  BY InputInvStep, EchoIsInput, EchoTypeStep, PromptInvStep DEF InputInv
<1>. QED
  BY <1>1, <1>2, PTL DEF EchoSpec

\* However many backspaces come while a line is read, no more of the prompt is
\* erased than characters were echoed and not shown, though increments of offset
\* are lost and offset is a u32 that wraps.
THEOREM PromptIsKept ==
  EchoSpec => PromptKept
<1>1. EchoTypeOK /\ PromptInv /\ [EchoNext]_evars =>
        [at = "read" /\ call = "input_readln" =>
           /\ Len(shown') >= prompt - unseen'
           /\ \A i \in 1..(prompt - unseen') : shown'[i] = shown[i]]_evars
  BY PromptStep
<1>. QED
  BY <1>1, EchoInvariant, PTL DEF EchoSpec, PromptKept

-----------------------------------------------------------------------------
(* The line and its echo.  What stands behind the prompt while a line is   *)
(* read: the line so far, without its last character if a backspace is     *)
(* waiting to be read, and then the characters waiting to be read.  A      *)
(* backspace is echoed at once and edits the line later; the two come to   *)
(* the same because it found the ring empty.                               *)

BSFirst == IF Unread > 0 /\ typed[taken + 1] = BS THEN 1 ELSE 0
Kept == IF BSFirst = 1 /\ Len(line) > 0 THEN Len(line) - 1 ELSE Len(line)

\* The line so far, and behind it the characters waiting.
OnScreen ==
  /\ Len(shown) = prompt + Kept + Unread - BSFirst
  /\ offset = barrier + Kept + Unread - BSFirst
  /\ \A k \in 1..Kept : shown[prompt + k] = line[k]
  /\ \A k \in (BSFirst + 1)..Unread :
       shown[prompt + Kept - BSFirst + k] = typed[taken + k]
  /\ \A k \in 1..Len(line) : line[k] # NL

\* The line and its newline.
LineShown ==
  /\ prompt + Len(line) < Len(shown)
  /\ \A k \in 1..Len(line) : shown[prompt + k] = line[k]
  /\ shown[prompt + Len(line) + 1] = NL

\* What came between the load of the barrier and its store.
Waiting ==
  /\ Len(shown) = prompt + Unread
  /\ offset = reg + Unread
  /\ \A k \in 1..Unread : shown[prompt + k] = typed[taken + k] /\ typed[taken + k] # BS

LineInv ==
  orderly /\ ~ahead /\ unseen = 0 =>
    /\ at = "set_store" => Waiting
    /\ at = "read" /\ call = "input_readln" => OnScreen
    /\ at = "remove" => LineShown

\* offset counts no more than was received and printed.
OffsetInv ==
  /\ offset <= Len(typed) + printed + nulls
  /\ printed <= MaxPrinted /\ nulls <= MaxNulls
  /\ at = "offset_store" => reg < Len(typed) + printed + nulls

\* The cursor counts at most what was received and printed.
LEMMA OffsetInvStep ==
  TypeOK /\ EchoTypeOK /\ OffsetInv /\ [EchoNext]_evars => OffsetInv'
<1>. SUFFICES ASSUME TypeOK, EchoTypeOK, OffsetInv, [EchoNext]_evars PROVE OffsetInv'
  OBVIOUS
<1>. DEFINE n == Len(typed)
            o == offset'
<1>1. /\ n \in Nat /\ offset \in Nat /\ reg \in Nat /\ printed \in Nat /\ nulls \in Nat
      /\ MaxPrinted \in Nat /\ MaxNulls \in Nat
      /\ offset <= n + printed + nulls /\ printed <= MaxPrinted /\ nulls <= MaxNulls
  BY EchoAssumption DEF TypeOK, EchoTypeOK, OffsetInv, Index
<1>2. ASSUME NEW x \in (Char \ {NL, BS}) \cup {CR, DEL}, handle_serial_in(x)
      PROVE  OffsetInv'
  <2>. DEFINE m == Len(typed')
              z == nulls'
  <2>1. Received(x) \in Char /\ (Received(x) = NUL <=> x = NUL)
    BY EchoAssumption, InputAssumption DEF Received, Char
  <2>2. /\ serial_writeb(Received(x)) /\ Handler(Received(x))
        /\ UNCHANGED <<at, reg, printed>>
        /\ z = IF x = NUL THEN nulls + 1 ELSE nulls
        /\ x = NUL => nulls < MaxNulls
    BY <1>2 DEF handle_serial_in, Echoed, thread
  <2>3. m + z = n + nulls + 1 /\ m \in Nat /\ z \in Nat /\ z <= MaxNulls
    <3>1. CASE x = NUL
      <4>1. typed' = typed
        BY <2>1, <2>2, <3>1 DEF Handler, handlers
      <4>. QED
        BY <1>1, <2>2, <3>1, <4>1
    <3>2. CASE x # NUL
      <4>1. Received(x) \in Keys
        BY <2>1, <3>2 DEF Char
      <4>2. typed' = Append(typed, Received(x))
        BY <2>2, <4>1, HandlerOfKey
      <4>3. m = n + 1
        BY <4>1, <4>2, AppendProperties DEF TypeOK
      <4>. QED
        BY <1>1, <2>2, <3>2, <4>3
    <3>. QED
      BY <3>1, <3>2
  <2>4. o \in Nat /\ o <= offset + 1
    <3>1. offset <= barrier \/ offset > barrier
      BY DEF EchoTypeOK, Index
    <3>2. o \in Nat
      BY <2>1, <2>2, WriteText DEF Index
    <3>3. o <= offset + 1 \/ o = offset \/ o = offset - 1
      BY <2>1, <2>2, <3>1, WriteText
    <3>. HIDE DEF o
    <3>. QED
      BY <1>1, <3>2, <3>3
  <2>. HIDE DEF o, m, z
  <2>5. o <= m + printed + z
    BY <1>1, <2>3, <2>4
  <2>6. reg < n + printed + nulls => reg < m + printed + z
    BY <1>1, <2>3
  <2>. QED
    BY <1>1, <2>2, <2>3, <2>5, <2>6 DEF OffsetInv, o, m, z
<1>3. CASE Prints
  <2>. DEFINE q == printed'
  <2>1. /\ at' = "offset_store" /\ reg' = offset /\ UNCHANGED <<typed, offset, nulls>>
        /\ q = printed + 1 /\ printed < MaxPrinted
    BY <1>3 DEF Prints, Goes, vars, serial, screen
  <2>. HIDE DEF q
  <2>2. offset < n + q + nulls /\ offset <= n + q + nulls /\ q <= MaxPrinted
    BY <1>1, <2>1
  <2>. QED
    BY <1>1, <2>1, <2>2 DEF OffsetInv, q
<1>4. CASE StoreOffset
  <2>1. /\ at = "offset_store" /\ at' = "out" /\ o = (reg + 1) % U32
        /\ UNCHANGED <<typed, printed, nulls>>
    BY <1>4 DEF StoreOffset, Goes, vars, screen
  <2>2. reg < n + printed + nulls
    BY <2>1 DEF OffsetInv
  <2>3. (reg + 1) % U32 = IF reg + 1 < U32 THEN reg + 1 ELSE reg + 1 - U32
    <3>1. U32 \in Nat /\ U32 > 1
      BY InputAssumption
    <3>2. reg + 1 \in 0..(2 * U32 - 1)
      BY <3>1 DEF EchoTypeOK, Index
    <3>. QED
      BY <1>1, <3>1, <3>2, OneTurn
  <2>. HIDE DEF o
  <2>4. o <= n + printed + nulls
    BY <1>1, <2>1, <2>2, <2>3, InputAssumption
  <2>. QED
    BY <1>1, <2>1, <2>4 DEF OffsetInv, o
<1>5. CASE Out \/ LoadOffset \/ SerialRemBarrier
  BY <1>5 DEF Out, LoadOffset, SerialRemBarrier, Goes, OffsetInv, vars, serial
<1>6. CASE StoreBarrier
  BY <1>6 DEF StoreBarrier, BeginReadln, Goes, OffsetInv, handlers, screen
<1>7. CASE Reads
  BY <1>7, ReadStepCall DEF Reads, OffsetInv, serial, screen
<1>8. ASSUME NEW k \in Sizes, Read(k) PROVE OffsetInv'
  BY <1>8 DEF Read, BeginRead, OffsetInv, handlers, serial, screen
<1>9. CASE UNCHANGED evars
  BY <1>9 DEF evars, vars, serial, thread, screen, OffsetInv
<1>. QED
  BY <1>2, <1>3, <1>4, <1>5, <1>6, <1>7, <1>8, <1>9 DEF EchoNext, ThreadStep

\* While a line is read and nothing was dropped, what the counts are.
LEMMA LineCounts ==
  ASSUME TypeOK, RingInv, orderly
  PROVE  /\ Unread \in Nat /\ BSFirst \in 0..1 /\ Kept \in Nat
         /\ Len(line) \in Nat /\ taken \in Nat /\ Len(typed) = taken + Unread
         /\ BSFirst = 1 => Unread > 0
         /\ BSFirst = 0 => Kept = Len(line)
         /\ Kept <= Len(line) /\ Len(line) <= Kept + BSFirst
         /\ (Len(line) > 0 /\ BSFirst = 1) => Kept = Len(line) - 1
         /\ Len(line) = 0 => Kept = 0
<1>1. /\ Len(line) \in Nat /\ taken \in Nat /\ Len(typed) \in Nat
      /\ taken <= Len(typed)
  BY DEF TypeOK, RingInv
<1>2. Unread \in Nat /\ Len(typed) = taken + Unread
  BY <1>1 DEF Unread
<1>3. BSFirst \in 0..1 /\ (BSFirst = 1 => Unread > 0)
  BY DEF BSFirst
<1>. QED
  BY <1>1, <1>2, <1>3 DEF Kept

\* While keys come offset does not wrap, if a u32 can count them.
LEMMA NoWrap ==
  ASSUME InputInv, EchoTypeOK, OffsetInv, MaxTyped + MaxPrinted + MaxNulls < U32,
         NEW y \in Char, Handler(y)
  PROVE  offset + 1 < U32
<1>1. /\ Len(typed) < MaxTyped /\ offset <= Len(typed) + printed + nulls
      /\ printed <= MaxPrinted /\ nulls <= MaxNulls
  BY DEF Handler, OffsetInv
<1>2. /\ Len(typed) \in Nat /\ printed \in Nat /\ nulls \in Nat /\ offset \in Nat
      /\ MaxTyped \in Nat /\ MaxPrinted \in Nat /\ MaxNulls \in Nat
      /\ U32 \in Nat /\ U32 > 0
  BY InputAssumption, EchoAssumption DEF InputInv, TypeOK, EchoTypeOK, Index
<1>. QED
  BY <1>1, <1>2

\* A character comes after the barrier is loaded and before it is stored.
LEMMA TypedBeforeStore ==
  ASSUME InputInv, EchoTypeOK, OffsetInv, MaxTyped + MaxPrinted + MaxNulls < U32,
         Waiting, NEW y \in Keys, ~Unshown(y), y # BS, Handler(y), serial_writeb(y), orderly',
         UNCHANGED <<reg, prompt>>
  PROVE  Waiting'
<1>. DEFINE n == Unread
            s == Len(shown)
            o == offset'
            t == Len(shown')
<1>1. /\ Unread' = n + 1 /\ n \in Nat
      /\ Len(typed') = Len(typed) + 1
      /\ typed'[Len(typed) + 1] = y
      /\ \A k \in 1..Len(typed) : typed'[k] = typed[k]
      /\ UNCHANGED taken
  BY OrderlyHandler
<1>2. /\ s = prompt + n /\ offset = reg + n
      /\ \A k \in 1..n : shown[prompt + k] = typed[taken + k] /\ typed[taken + k] # BS
      /\ prompt \in Nat /\ reg \in Nat /\ taken \in Nat /\ Len(typed) \in Nat
      /\ Len(typed) = taken + n
  BY <1>1 DEF Waiting, EchoTypeOK, InputInv, TypeOK, Index, Unread
<1>3. /\ o = (offset + 1) % U32 /\ t = s + 1 /\ shown'[s + 1] = y
      /\ \A k \in 1..s : shown'[k] = shown[k]
  BY WriteText DEF Char
<1>4. o = offset + 1
  <2>1. offset + 1 < U32
    BY NoWrap DEF Char
  <2>2. offset + 1 \in 0..(U32 - 1)
    BY <2>1, InputAssumption DEF EchoTypeOK, Index
  <2>3. (offset + 1) % U32 = offset + 1
    BY <2>2, InputAssumption
  <2>. QED
    BY <1>3, <2>3
<1>. HIDE DEF o, t, s, n
<1>5. t = prompt + (n + 1) /\ o = reg + (n + 1)
  BY <1>1, <1>2, <1>3, <1>4
<1>6. ASSUME NEW k \in 1..(n + 1)
      PROVE  shown'[prompt + k] = typed'[taken + k] /\ typed'[taken + k] # BS
  <2>1. CASE k = n + 1
    <3>1. prompt + k = s + 1 /\ taken + k = Len(typed) + 1
      BY <1>1, <1>2, <2>1
    <3>. QED
      BY <1>1, <1>3, <3>1
  <2>2. CASE k # n + 1
    <3>. DEFINE ty == Len(typed)
    <3>. HIDE DEF ty
    <3>1. n \in Nat /\ prompt \in Nat /\ taken \in Nat /\ s = prompt + n /\ ty = taken + n
      BY <1>1, <1>2 DEF ty
    <3>2. k \in 1..n /\ prompt + k \in 1..s /\ taken + k \in 1..ty
      BY <2>2, <3>1
    <3>. QED
      BY <1>1, <1>2, <1>3, <3>2 DEF ty
  <2>. QED
    BY <2>1, <2>2
<1>. QED
  BY <1>1, <1>5, <1>6 DEF Waiting, o, t, n

\* A character comes while a line is read.
LEMMA TypedWhileRead ==
  ASSUME InputInv, EchoTypeOK, OffsetInv, MaxTyped + MaxPrinted + MaxNulls < U32,
         OnScreen, NEW y \in Keys, ~Unshown(y), Handler(y), serial_writeb(y), orderly',
         UNCHANGED <<barrier, prompt>>
  PROVE  OnScreen'
<1>. DEFINE n == Unread
            l == Len(line)
            s == Len(shown)
            o == offset'
            t == Len(shown')
<1>y. y \in Char
  BY DEF Char
<1>1. /\ orderly
      /\ y = BS => n = 0
      /\ Unread' = n + 1 /\ n \in Nat
      /\ Len(typed') = Len(typed) + 1
      /\ typed'[Len(typed) + 1] = y
      /\ \A k \in 1..Len(typed) : typed'[k] = typed[k]
      /\ UNCHANGED <<line, taken>>
  BY OrderlyHandler
<1>2. /\ BSFirst \in 0..1 /\ Kept \in Nat /\ l \in Nat /\ taken \in Nat
      /\ Len(typed) = taken + n
      /\ BSFirst = 1 => n > 0
      /\ BSFirst = 0 => Kept = l
      /\ Kept <= l
      /\ l = 0 => Kept = 0
  BY <1>1, LineCounts DEF InputInv
<1>3. /\ s = prompt + Kept + n - BSFirst
      /\ offset = barrier + Kept + n - BSFirst
      /\ prompt \in Nat /\ barrier \in Nat /\ s \in Nat /\ offset \in Nat
  BY DEF OnScreen, EchoTypeOK, Index
<1>4. /\ \A k \in 1..Kept : shown[prompt + k] = line[k]
      /\ \A k \in (BSFirst + 1)..n : shown[prompt + Kept - BSFirst + k] = typed[taken + k]
      /\ \A k \in 1..l : line[k] # NL
  BY DEF OnScreen
<1>5. typed'[taken + (n + 1)] = y /\ \A k \in 1..n : typed'[taken + k] = typed[taken + k]
  <2>1. Len(typed) + 1 = taken + (n + 1) /\ \A k \in 1..n : taken + k \in 1..Len(typed)
    <3>. DEFINE ty == Len(typed)
    <3>1. n \in Nat /\ taken \in Nat /\ ty = taken + n
      BY <1>1, <1>2
    <3>. HIDE DEF ty, n
    <3>2. ty + 1 = taken + (n + 1) /\ \A k \in 1..n : taken + k \in 1..ty
      BY <3>1
    <3>. QED
      BY <3>2 DEF ty, n
  <2>. QED
    BY <1>1, <2>1
<1>6. CASE y # BS
  <2>1. BSFirst' = BSFirst /\ Kept' = Kept
    <3>1. BSFirst' = IF n + 1 > 0 /\ typed'[taken + 1] = BS THEN 1 ELSE 0
      BY <1>1 DEF BSFirst
    <3>2. CASE n = 0
      <4>1. typed'[taken + 1] = y
        BY <1>5, <3>2
      <4>. QED
        BY <3>1, <3>2, <4>1, <1>1, <1>6 DEF BSFirst, Kept
    <3>3. CASE n > 0
      <4>1. typed'[taken + 1] = typed[taken + 1]
        BY <1>1, <1>5, <3>3
      <4>. QED
        BY <3>1, <3>3, <4>1, <1>1 DEF BSFirst, Kept
    <3>. QED
      BY <1>1, <3>2, <3>3
  <2>2. /\ o = (offset + 1) % U32 /\ t = s + 1 /\ shown'[s + 1] = y
        /\ \A k \in 1..s : shown'[k] = shown[k]
    BY <1>6, <1>y, WriteText
  <2>3. o = offset + 1
    <3>3. offset + 1 < U32
      BY <1>y, NoWrap
    <3>4. offset + 1 \in 0..(U32 - 1)
      BY <1>3, <3>3, InputAssumption
    <3>5. (offset + 1) % U32 = offset + 1
      BY <3>4, InputAssumption
    <3>. QED
      BY <2>2, <3>5
  <2>. HIDE DEF o, t, s, l, n
  <2>4. t = prompt + Kept + (n + 1) - BSFirst /\ o = barrier + Kept + (n + 1) - BSFirst
    BY <1>1, <1>2, <1>3, <2>2, <2>3
  <2>5. \A k \in 1..Kept : shown'[prompt + k] = line[k]
    <3>1. \A k \in 1..Kept : prompt + k \in 1..s
      BY <1>1, <1>2, <1>3
    <3>. QED
      BY <1>4, <2>2, <3>1
  <2>6. \A k \in (BSFirst + 1)..(n + 1) :
          shown'[prompt + Kept - BSFirst + k] = typed'[taken + k]
    <3>. SUFFICES ASSUME NEW k \in (BSFirst + 1)..(n + 1)
                  PROVE  shown'[prompt + Kept - BSFirst + k] = typed'[taken + k]
      OBVIOUS
    <3>1. CASE k = n + 1
      <4>1. prompt + Kept - BSFirst + k = s + 1
        BY <1>1, <1>2, <1>3, <3>1
      <4>. QED
        BY <1>5, <2>2, <3>1, <4>1
    <3>2. CASE k # n + 1
      <4>1. k \in (BSFirst + 1)..n /\ k \in 1..n /\ prompt + Kept - BSFirst + k \in 1..s
        <5>1. n \in Nat /\ BSFirst \in 0..1 /\ Kept \in Nat /\ prompt \in Nat
              /\ s = prompt + Kept + n - BSFirst
          BY <1>1, <1>2, <1>3
        <5>. QED
          BY <3>2, <5>1
      <4>. QED
        BY <1>4, <1>5, <2>2, <4>1
    <3>. QED
      BY <3>1, <3>2
  <2>. QED
    BY <1>1, <1>4, <2>1, <2>4, <2>5, <2>6 DEF OnScreen, o, t, s, l, n
<1>7. CASE y = BS
  <2>1. n = 0 /\ BSFirst = 0 /\ Kept = l /\ s = prompt + l /\ offset = barrier + l
    BY <1>1, <1>2, <1>3, <1>7 DEF BSFirst
  <2>2. BSFirst' = 1 /\ Unread' = 1
    BY <1>1, <1>5, <1>7, <2>1 DEF BSFirst
  <2>3. Kept' = IF l > 0 THEN l - 1 ELSE l
    BY <1>1, <2>2 DEF Kept
  <2>4. \A k \in 1..(IF l > 0 THEN l - 1 ELSE l) : shown[prompt + k] = line[k]
    BY <1>2, <1>4, <2>1
  <2>5. CASE l = 0
    <3>1. o = offset /\ shown' = shown
      BY <1>3, <1>7, <1>y, <2>1, <2>5, WriteText
    <3>2. s = prompt + 0 + 1 - 1 /\ o = barrier + 0 + 1 - 1
      BY <1>3, <2>1, <2>5, <3>1
    <3>3. \A k \in (1 + 1)..1 : FALSE
      OBVIOUS
    <3>. QED
      BY <1>1, <1>4, <2>2, <2>3, <2>5, <3>1, <3>2, <3>3 DEF OnScreen
  <2>6. CASE l > 0
    <3>1. offset > barrier /\ s > 0
      BY <1>2, <1>3, <2>1, <2>6
    <3>2. shown[s] # NL
      BY <1>2, <1>4, <2>1, <2>6
    <3>3. o = offset - 1 /\ t = s - 1 /\ \A k \in 1..(s - 1) : shown'[k] = shown[k]
      BY <1>7, <1>y, <3>1, <3>2, WriteText
    <3>. HIDE DEF o, t, s, l, n
    <3>4. t = prompt + (l - 1) + 1 - 1 /\ o = barrier + (l - 1) + 1 - 1
      BY <1>2, <1>3, <2>1, <3>3
    <3>5. \A k \in 1..(l - 1) : shown'[prompt + k] = line[k]
      <4>1. \A k \in 1..(l - 1) : prompt + k \in 1..(s - 1) /\ k \in 1..Kept
        BY <1>2, <1>3, <2>1
      <4>. QED
        BY <1>4, <3>3, <4>1
    <3>6. \A k \in (1 + 1)..1 : FALSE
      OBVIOUS
    <3>7. Kept' = l - 1
      BY <2>3, <2>6
    <3>. QED
      BY <1>1, <1>4, <2>2, <3>4, <3>5, <3>6, <3>7 DEF OnScreen, o, t, s, l, n
  <2>. QED
    BY <1>2, <2>5, <2>6
<1>. QED
  BY <1>6, <1>7

\* The reader takes a character of the line: the newline ends it, and the
\* others leave on the terminal what is there.
LEMMA TakenFromLine ==
  ASSUME InputInv, EchoTypeOK, OnScreen, StoreR, orderly, call = "input_readln",
         UNCHANGED <<shown, offset, barrier, prompt>>
  PROVE  /\ pc' = "idle" => LineShown'
         /\ pc' # "idle" => OnScreen'
<1>. DEFINE n == Unread
            l == Len(line)
            s == Len(shown)
<1>1. /\ pc = "store" /\ taken' = taken + 1 /\ UNCHANGED typed
      /\ line' = IF c = NL THEN line ELSE Edit(line, c)
      /\ pc' = IF Over(line', c) THEN "idle" ELSE "wait"
  BY DEF StoreR, handlers
<1>2. /\ n > 0 /\ c = typed[taken + 1]
      /\ \A k \in 2..n : typed[taken + k] # BS
  BY <1>1 DEF InputInv, ReaderInv, RingInv
<1>3. /\ BSFirst \in 0..1 /\ Kept \in Nat /\ l \in Nat /\ taken \in Nat /\ n \in Nat
      /\ Len(typed) = taken + n
      /\ BSFirst = 0 => Kept = l
      /\ (l > 0 /\ BSFirst = 1) => Kept = l - 1
      /\ l = 0 => Kept = 0
  BY LineCounts DEF InputInv
<1>4. /\ s = prompt + Kept + n - BSFirst
      /\ offset = barrier + Kept + n - BSFirst
      /\ prompt \in Nat /\ barrier \in Nat /\ s \in Nat /\ offset \in Nat
  BY DEF OnScreen, EchoTypeOK, Index
<1>5. /\ \A k \in 1..Kept : shown[prompt + k] = line[k]
      /\ \A k \in (BSFirst + 1)..n : shown[prompt + Kept - BSFirst + k] = typed[taken + k]
      /\ \A k \in 1..l : line[k] # NL
  BY DEF OnScreen
<1>6. c \in Keys
  <2>1. taken + 1 \in 1..Len(typed)
    BY <1>2, <1>3
  <2>. QED
    BY <1>2, <2>1, ElementOfSeq DEF InputInv, TypeOK
<1>7. pc' = "idle" <=> c = NL
  BY <1>1, <1>6, InputAssumption DEF Over
<1>8. BSFirst = IF c = BS THEN 1 ELSE 0
  BY <1>2 DEF BSFirst
<1>9. Unread' = n - 1
  BY <1>1, <1>3 DEF Unread
<1>10. BSFirst' = 0
  <2>1. n - 1 > 0 => typed[taken + 1 + 1] # BS
    <3>1. n - 1 > 0 => 2 \in 2..n
      BY <1>3
    <3>2. taken + 1 + 1 = taken + 2
      BY <1>3
    <3>. QED
      BY <1>2, <3>1, <3>2
  <2>. QED
    BY <1>1, <1>9, <2>1 DEF BSFirst
<1>11. Kept' = Len(line')
  BY <1>10 DEF Kept
<1>12. line \in Seq(Char)
  BY DEF InputInv, TypeOK
<1>13. CASE c = NL
  <2>1. BSFirst = 0 /\ Kept = l /\ line' = line
    BY <1>1, <1>3, <1>8, <1>13, EchoAssumption
  <2>2. 1 \in (BSFirst + 1)..n /\ prompt + Kept - BSFirst + 1 = prompt + l + 1
    BY <1>2, <1>3, <1>4, <2>1
  <2>3. shown[prompt + l + 1] = NL
    BY <1>2, <1>5, <1>13, <2>2
  <2>4. prompt + l < s
    BY <1>2, <1>3, <1>4, <2>1
  <2>. QED
    BY <1>5, <1>7, <1>13, <2>1, <2>3, <2>4 DEF LineShown
<1>14. CASE c # NL
  <2>. DEFINE e == Len(line')
  <2>1. line' = Edit(line, c) /\ pc' # "idle"
    BY <1>1, <1>7, <1>14
  <2>2. /\ e = Kept + 1 - BSFirst
        /\ \A k \in 1..Kept : k \in 1..e => line'[k] = line[k]
        /\ BSFirst = 0 => line'[Kept + 1] = c
    <3>1. CASE c # BS
      <4>1. line' = Append(line, c) /\ BSFirst = 0 /\ Kept = l
        BY <1>3, <1>8, <2>1, <3>1 DEF Edit
      <4>2. c \in Char
        BY <1>6 DEF Char
      <4>. QED
        BY <1>3, <1>12, <4>1, <4>2, AppendProperties
    <3>2. CASE c = BS /\ l = 0
      <4>1. line' = line /\ BSFirst = 1 /\ Kept = 0
        BY <1>3, <1>8, <1>12, <2>1, <3>2, EmptySeq DEF Edit
      <4>. QED
        BY <3>2, <4>1
    <3>3. CASE c = BS /\ l > 0
      <4>1. line' = SubSeq(line, 1, l - 1) /\ BSFirst = 1 /\ Kept = l - 1
        BY <1>3, <1>8, <1>12, <2>1, <3>3, EmptySeq DEF Edit, Front
      <4>2. \A k \in 1..(l - 1) : line[k] \in Char
        BY <1>3, <1>12
      <4>3. /\ Len(SubSeq(line, 1, l - 1)) = IF 1 <= l - 1 THEN l - 1 - 1 + 1 ELSE 0
            /\ \A k \in 1..(l - 1 - 1 + 1) : SubSeq(line, 1, l - 1)[k] = line[1 + k - 1]
        BY <1>3, <4>2, SubSeqProperties
      <4>. HIDE DEF l
      <4>4. (IF 1 <= l - 1 THEN l - 1 - 1 + 1 ELSE 0) = l - 1 /\ l - 1 - 1 + 1 = l - 1
        BY <1>3, <3>3
      <4>5. \A k \in 1..(l - 1) : 1 + k - 1 = k
        OBVIOUS
      <4>6. Len(line') = l - 1 /\ \A k \in 1..(l - 1) : line'[k] = line[k]
        BY <4>1, <4>3, <4>4, <4>5
      <4>7. l - 1 = Kept + 1 - BSFirst
        BY <1>3, <4>1
      <4>. QED
        BY <4>1, <4>6, <4>7
    <3>. QED
      BY <1>3, <3>1, <3>2, <3>3
  <2>. HIDE DEF e, s, l, n
  <2>3. e \in Nat /\ s = prompt + e + (n - 1) - 0 /\ offset = barrier + e + (n - 1) - 0
    BY <1>3, <1>4, <2>2
  <2>4. \A k \in 1..e : shown[prompt + k] = line'[k]
    <3>. SUFFICES ASSUME NEW k \in 1..e PROVE shown[prompt + k] = line'[k]
      OBVIOUS
    <3>1. CASE k <= Kept
      <4>1. k \in 1..Kept
        BY <3>1, <1>3
      <4>. QED
        BY <1>5, <2>2, <4>1
    <3>2. CASE k > Kept
      <4>1. k = Kept + 1 /\ BSFirst = 0
        BY <1>3, <2>2, <3>2
      <4>2. 1 \in (BSFirst + 1)..n /\ prompt + Kept - BSFirst + 1 = prompt + k
        BY <1>2, <1>3, <1>4, <4>1
      <4>. QED
        BY <1>2, <1>5, <2>2, <4>1, <4>2
    <3>. QED
      BY <1>3, <3>1, <3>2
  <2>5. \A k \in (0 + 1)..(n - 1) : shown[prompt + e - 0 + k] = typed[taken + 1 + k]
    <3>. SUFFICES ASSUME NEW k \in 1..(n - 1)
                  PROVE  shown[prompt + e - 0 + k] = typed[taken + 1 + k]
      OBVIOUS
    <3>1. /\ k + 1 \in (BSFirst + 1)..n
          /\ prompt + e - 0 + k = prompt + Kept - BSFirst + (k + 1)
          /\ taken + 1 + k = taken + (k + 1)
      BY <1>3, <1>4, <2>2
    <3>. QED
      BY <1>5, <3>1
  <2>6. \A k \in 1..e : line'[k] # NL
    <3>. SUFFICES ASSUME NEW k \in 1..e PROVE line'[k] # NL
      OBVIOUS
    <3>1. CASE k <= Kept
      <4>1. k \in 1..Kept /\ k \in 1..l
        BY <3>1, <1>3
      <4>. QED
        BY <1>5, <2>2, <4>1
    <3>2. CASE k > Kept
      <4>1. k = Kept + 1 /\ BSFirst = 0
        BY <1>3, <2>2, <3>2
      <4>. QED
        BY <1>14, <2>2, <4>1
    <3>. QED
      BY <1>3, <3>1, <3>2
  <2>. QED
    BY <1>1, <1>9, <1>10, <1>11, <2>1, <2>3, <2>4, <2>5, <2>6 DEF OnScreen, e, s, n
<1>. QED
  BY <1>13, <1>14

\* A line that has ended keeps its place: the terminal does not go back over
\* the newline behind it.
LEMMA TypedBehindLine ==
  ASSUME EchoTypeOK, TypeOK, LineShown, NEW y \in Char, serial_writeb(y),
         UNCHANGED <<line, prompt>>
  PROVE  LineShown'
<1>. DEFINE l == Len(line)
            s == Len(shown)
            t == Len(shown')
<1>1. /\ l \in Nat /\ s \in Nat /\ prompt \in Nat
      /\ offset \in Nat /\ barrier \in Nat
  BY DEF TypeOK, EchoTypeOK, Index
<1>2. /\ prompt + l < s
      /\ \A k \in 1..l : shown[prompt + k] = line[k]
      /\ shown[prompt + l + 1] = NL
  BY DEF LineShown
<1>3. \/ shown' = shown
      \/ t = s + 1 /\ \A k \in 1..s : shown'[k] = shown[k]
      \/ shown[s] # NL /\ t = s - 1 /\ \A k \in 1..(s - 1) : shown'[k] = shown[k]
  <2>1. offset <= barrier \/ offset > barrier
    BY <1>1
  <2>. QED
    BY <2>1, WriteText
<1>. HIDE DEF l, s, t
<1>4. shown' = shown \/ (prompt + l < t /\ \A k \in 1..(l + 1) : shown'[prompt + k] = shown[prompt + k])
  <2>1. CASE t = s + 1 /\ \A k \in 1..s : shown'[k] = shown[k]
    <3>1. \A k \in 1..(l + 1) : prompt + k \in 1..s
      BY <1>1, <1>2
    <3>. QED
      BY <1>1, <1>2, <2>1, <3>1
  <2>2. CASE shown[s] # NL /\ t = s - 1 /\ \A k \in 1..(s - 1) : shown'[k] = shown[k]
    <3>1. s # prompt + l + 1
      BY <1>2, <2>2
    <3>2. prompt + l < s - 1
      BY <1>1, <1>2, <3>1
    <3>3. \A k \in 1..(l + 1) : prompt + k \in 1..(s - 1)
      BY <1>1, <3>2
    <3>. QED
      BY <2>2, <3>2, <3>3
  <2>. QED
    BY <1>3, <2>1, <2>2
<1>5. CASE shown' = shown
  BY <1>5 DEF LineShown
<1>6. CASE prompt + l < t /\ \A k \in 1..(l + 1) : shown'[prompt + k] = shown[prompt + k]
  <2>1. \A k \in 1..l : k \in 1..(l + 1)
    BY <1>1
  <2>2. l + 1 \in 1..(l + 1) /\ prompt + (l + 1) = prompt + l + 1
    BY <1>1
  <2>3. \A k \in 1..l : shown'[prompt + k] = line[k]
    BY <1>2, <1>6, <2>1
  <2>4. shown'[prompt + l + 1] = NL
    BY <1>2, <1>6, <2>2
  <2>. QED
    BY <1>6, <2>3, <2>4 DEF LineShown, l, t
<1>. QED
  BY <1>4, <1>5, <1>6

\* Every step keeps it.
LEMMA LineInvStep ==
  ASSUME MaxTyped + MaxPrinted + MaxNulls < U32
  PROVE  InputInv /\ EchoTypeOK /\ OffsetInv /\ LineInv /\ [EchoNext]_evars => LineInv'
<1>. SUFFICES ASSUME InputInv, EchoTypeOK, OffsetInv, LineInv, [EchoNext]_evars,
                     orderly', ~ahead', unseen' = 0
              PROVE  /\ at' = "set_store" => Waiting'
                     /\ at' = "read" /\ call' = "input_readln" => OnScreen'
                     /\ at' = "remove" => LineShown'
  BY DEF LineInv
<1>. DEFINE Goal == /\ at' = "set_store" => Waiting'
                    /\ at' = "read" /\ call' = "input_readln" => OnScreen'
                    /\ at' = "remove" => LineShown'
<1>1. ASSUME NEW x \in (Char \ {NL, BS}) \cup {CR, DEL}, handle_serial_in(x)
      PROVE  Goal
  <2>. DEFINE y == Received(x)
  <2>1. y \in Char
    BY EchoAssumption DEF Received, Char
  <2>2. /\ Handler(y) /\ serial_writeb(y)
        /\ UNCHANGED <<barrier, at, reg>>
        /\ prompt' = IF at = "set_store" /\ Len(shown') < prompt THEN Len(shown') ELSE prompt
        /\ ahead' = (ahead \/ (at = "set_store" /\ y = BS))
        /\ unseen' = IF InLine /\ Unshown(y) THEN unseen + 1 ELSE unseen
    BY <1>1 DEF handle_serial_in, Echoed, thread
  <2>. HIDE DEF y
  <2>3. orderly /\ UNCHANGED <<line, call>>
    BY <2>2 DEF Handler, handlers
  <2>4. ~ahead /\ (at = "set_store" => y # BS)
    <3>1. ~(ahead \/ (at = "set_store" /\ y = BS))
      BY <2>2
    <3>. QED
      BY <3>1
  <2>5. unseen = 0 /\ (InLine => ~Unshown(y))
    <3>1. unseen \in Nat
      BY DEF EchoTypeOK
    <3>2. unseen + 1 # 0
      BY <3>1
    <3>. QED
      BY <2>2, <3>2
  <2>6. CASE at = "set_store"
    <3>1. Waiting /\ InLine /\ ~Unshown(y) /\ y \in Keys /\ y # BS
      BY <2>1, <2>3, <2>4, <2>5, <2>6 DEF LineInv, InLine, Unshown, Char
    <3>2. Len(shown') = Len(shown) + 1
      BY <2>1, <2>2, <3>1, WriteText
    <3>3. Len(shown) >= prompt /\ Len(shown) \in Nat /\ prompt \in Nat
      <4>1. Unread \in Nat
        BY <2>3 DEF Unread, InputInv, TypeOK, RingInv
      <4>. QED
        BY <3>1, <4>1 DEF Waiting, EchoTypeOK
    <3>4. ~(Len(shown') < prompt)
      BY <3>2, <3>3
    <3>5. prompt' = prompt
      BY <2>2, <3>4
    <3>6. Waiting'
      BY <2>2, <3>1, <3>5, TypedBeforeStore
    <3>. QED
      BY <2>2, <2>6, <3>6
  <2>7. CASE at = "read" /\ call = "input_readln"
    <3>1. OnScreen /\ ~Unshown(y) /\ y \in Keys
      BY <2>1, <2>3, <2>4, <2>5, <2>7 DEF LineInv, InLine, Unshown, Char
    <3>2. prompt' = prompt
      BY <2>2, <2>7
    <3>3. OnScreen'
      BY <2>2, <3>1, <3>2, TypedWhileRead
    <3>. QED
      BY <2>2, <2>7, <3>3
  <2>8. CASE at = "remove"
    <3>1. LineShown
      BY <2>3, <2>4, <2>5, <2>8 DEF LineInv
    <3>2. prompt' = prompt
      BY <2>2, <2>8
    <3>3. LineShown'
      BY <2>1, <2>2, <2>3, <3>1, <3>2, TypedBehindLine DEF InputInv
    <3>. QED
      BY <2>2, <2>8, <3>3
  <2>. QED
    BY <2>2, <2>3, <2>6, <2>7, <2>8
<1>2. CASE Prints \/ StoreOffset \/ Out \/ SerialRemBarrier
  BY <1>2 DEF Prints, StoreOffset, Out, SerialRemBarrier, Goes
<1>3. CASE LoadOffset
  <2>1. /\ at' = "set_store" /\ reg' = offset /\ prompt' = Len(shown)
        /\ ahead' = (NotTaken # <<>>)
        /\ UNCHANGED <<orderly, typed, taken, offset, shown>>
    BY <1>3 DEF LoadOffset, Goes, vars, serial
  <2>2. NotTaken = <<>> /\ RingHoldsTyped
    BY <2>1, InputInvMeans
  <2>3. Unread = 0
    <3>1. /\ taken \in Nat /\ Len(typed) \in Nat /\ taken <= Len(typed)
          /\ \A k \in (taken + 1)..Len(typed) : typed[k] \in Keys
      <4>1. taken <= Len(typed) /\ taken \in Nat /\ Len(typed) \in Nat
            /\ \A k \in 1..Len(typed) : typed[k] \in Keys
        BY <2>1, ElementOfSeq DEF InputInv, RingInv, TypeOK
      <4>. QED
        BY <4>1
    <3>2. Len(NotTaken) = IF taken + 1 <= Len(typed) THEN Len(typed) - (taken + 1) + 1 ELSE 0
      BY <3>1, SubSeqProperties DEF NotTaken
    <3>3. Len(NotTaken) = 0
      BY <2>2
    <3>. QED
      BY <3>1, <3>2, <3>3 DEF Unread
  <2>4. Unread' = 0
    BY <2>1, <2>3 DEF Unread
  <2>5. Len(shown) \in Nat /\ offset \in Nat
    BY DEF EchoTypeOK, Index
  <2>6. Waiting'
    <3>1. Len(shown) = Len(shown) + 0 /\ offset = offset + 0 /\ \A k \in 1..0 : FALSE
      BY <2>5
    <3>. QED
      BY <2>1, <2>4, <3>1 DEF Waiting
  <2>. QED
    BY <2>1, <2>6
<1>4. CASE StoreBarrier
  <2>1. /\ at = "set_store" /\ at' = "read" /\ barrier' = reg
        /\ line' = <<>>
        /\ UNCHANGED <<orderly, ahead, unseen, typed, taken, offset, shown, prompt>>
    BY <1>4 DEF StoreBarrier, BeginReadln, Goes, screen, handlers
  <2>2. /\ Len(shown) = prompt + Unread /\ offset = reg + Unread
        /\ \A k \in 1..Unread : shown[prompt + k] = typed[taken + k] /\ typed[taken + k] # BS
        /\ prompt \in Nat /\ reg \in Nat
    BY <2>1 DEF LineInv, Waiting, EchoTypeOK, Index
  <2>3. Unread' = Unread /\ Len(line') = 0 /\ Unread \in Nat /\ taken \in Nat
    BY <2>1 DEF Unread, InputInv, TypeOK, RingInv
  <2>4. BSFirst' = 0 /\ Kept' = 0
    <3>1. Unread > 0 => 1 \in 1..Unread
      BY <2>3
    <3>. QED
      BY <2>1, <2>2, <2>3, <3>1 DEF BSFirst, Kept
  <2>5. OnScreen'
    <3>. DEFINE n == Unread
    <3>. HIDE DEF n
    <3>1. prompt + n = prompt + 0 + n - 0 /\ reg + n = reg + 0 + n - 0
      BY <2>2, <2>3 DEF n
    <3>2. (\A k \in 1..0 : FALSE) /\ (\A k \in (0 + 1)..n : k \in 1..n /\ prompt + 0 - 0 + k = prompt + k)
      BY <2>2, <2>3 DEF n
    <3>3. \A k \in (0 + 1)..n : shown[prompt + 0 - 0 + k] = typed[taken + k]
      BY <2>2, <3>2 DEF n
    <3>. QED
      BY <2>1, <2>2, <2>3, <2>4, <3>1, <3>2, <3>3 DEF OnScreen, n
  <2>. QED
    BY <2>1, <2>5
<1>5. CASE Reads
  <2>1. /\ at = "read" /\ ReadStep
        /\ at' = CASE pc' # "idle" -> "read"
                   [] pc' = "idle" /\ call = "input_readln" -> "remove"
                   [] OTHER -> "idle"
        /\ UNCHANGED <<offset, barrier, shown, prompt, ahead, unseen, call, typed, orderly>>
    BY <1>5, ReadStepCall DEF Reads, serial, screen
  <2>2. CASE call # "input_readln"
    BY <2>1, <2>2
  <2>3. CASE call = "input_readln"
    <3>1. OnScreen
      BY <2>1, <2>3 DEF LineInv
    <3>2. CASE StoreR
      <4>1. (pc' = "idle" => LineShown') /\ (pc' # "idle" => OnScreen')
        BY <2>1, <2>3, <3>1, <3>2, TakenFromLine
      <4>2. at' = IF pc' # "idle" THEN "read" ELSE "remove"
        BY <2>1, <2>3
      <4>. QED
        BY <4>1, <4>2
    <3>3. CASE Wait \/ LoadIndex \/ LoadChar \/ LoadR
      <4>1. pc' # "idle" /\ UNCHANGED <<line, taken>>
        BY <3>3 DEF Wait, LoadIndex, LoadChar, LoadR
      <4>2. at' = "read"
        BY <2>1, <4>1
      <4>3. UNCHANGED <<Unread, BSFirst, Kept>>
        BY <2>1, <4>1 DEF Unread, BSFirst, Kept
      <4>4. OnScreen'
        BY <2>1, <3>1, <4>1, <4>3 DEF OnScreen
      <4>. QED
        BY <4>2, <4>4
    <3>. QED
      BY <2>1, <3>2, <3>3 DEF ReadStep
  <2>. QED
    BY <2>2, <2>3
<1>6. ASSUME NEW k \in Sizes, Read(k) PROVE Goal
  BY <1>6 DEF Read, BeginRead
<1>7. CASE UNCHANGED evars
  <2>1. UNCHANGED <<at, call, reg, offset, barrier, shown, prompt, line, taken, typed,
                    orderly, ahead, unseen>>
    BY <1>7 DEF evars, vars, serial, thread, screen
  <2>2. UNCHANGED <<Unread, BSFirst, Kept>>
    BY <2>1 DEF Unread, BSFirst, Kept
  <2>. QED
    BY <2>1, <2>2 DEF LineInv, Waiting, OnScreen, LineShown
<1>. QED
  BY <1>1, <1>2, <1>3, <1>4, <1>5, <1>6, <1>7 DEF EchoNext, ThreadStep

\* What the invariant says once the line is complete.
LEMMA LineShownMeans ==
  ASSUME TypeOK, EchoTypeOK, LineInv
  PROVE  EchoIsLine
<1>. SUFFICES ASSUME at = "remove", orderly, ~ahead, unseen = 0
              PROVE  IsPrefix(SubSeq(shown, 1, prompt) \o line \o <<NL>>, shown)
  BY DEF EchoIsLine
<1>. DEFINE T == Keys \cup {NUL}
            l == Len(line)
            s == Len(shown)
            q == SubSeq(shown, 1, prompt)
            z == q \o line \o <<NL>>
<1>1. /\ l \in Nat /\ s \in Nat /\ prompt \in Nat
      /\ shown \in Seq(T) /\ line \in Seq(T) /\ <<NL>> \in Seq(T)
  BY EchoAssumption DEF TypeOK, EchoTypeOK, Char
<1>2. /\ prompt + l < s
      /\ \A k \in 1..l : shown[prompt + k] = line[k]
      /\ shown[prompt + l + 1] = NL
  BY DEF LineInv, LineShown
<1>3. q \in Seq(T) /\ Len(q) = prompt /\ \A k \in 1..prompt : q[k] = shown[k]
  <2>1. \A k \in 1..prompt : shown[k] \in T
    BY <1>1, <1>2
  <2>2. prompt - 1 + 1 = prompt /\ \A k \in 1..prompt : 1 + k - 1 = k
    BY <1>1
  <2>3. Len(q) = IF 1 <= prompt THEN prompt - 1 + 1 ELSE 0
    BY <1>1, <2>1, SubSeqProperties
  <2>4. Len(q) = prompt
    BY <1>1, <2>3
  <2>5. q \in Seq(T) /\ \A k \in 1..(prompt - 1 + 1) : q[k] = shown[1 + k - 1]
    BY <1>1, <2>1, SubSeqProperties
  <2>. QED
    BY <2>2, <2>4, <2>5
<1>. HIDE DEF q, T
<1>4. z \in Seq(T) /\ Len(z) = prompt + l + 1 /\ \A k \in 1..(prompt + l + 1) : z[k] = shown[k]
  <2>1. /\ q \o line \in Seq(T) /\ Len(q \o line) = prompt + l
        /\ \A k \in 1..prompt : (q \o line)[k] = q[k]
        /\ \A k \in 1..l : (q \o line)[prompt + k] = line[k]
    <3>1. /\ q \o line \in Seq(T) /\ Len(q \o line) = Len(q) + l
          /\ \A k \in 1..(Len(q) + l) : (q \o line)[k] = IF k <= Len(q) THEN q[k] ELSE line[k - Len(q)]
      BY <1>1, <1>3, ConcatProperties
    <3>2. \A k \in 1..l : prompt + k \in 1..(prompt + l) /\ ~(prompt + k <= prompt) /\ prompt + k - prompt = k
      BY <1>1
    <3>3. \A k \in 1..prompt : k \in 1..(prompt + l) /\ k <= prompt
      BY <1>1
    <3>4. ASSUME NEW k \in 1..prompt PROVE (q \o line)[k] = q[k]
      BY <1>3, <3>1, <3>3
    <3>5. ASSUME NEW k \in 1..l PROVE (q \o line)[prompt + k] = line[k]
      <4>1. prompt + k \in 1..(Len(q) + l) /\ ~(prompt + k <= Len(q))
        BY <1>3, <3>2
      <4>2. (prompt + k) - Len(q) = k
        BY <1>1, <1>3
      <4>. DEFINE m == q \o line
                  i == prompt + k
      <4>3. \A h \in 1..(Len(q) + l) : m[h] = IF h <= Len(q) THEN q[h] ELSE line[h - Len(q)]
        BY <3>1
      <4>4. i \in 1..(Len(q) + l) /\ ~(i <= Len(q)) /\ i - Len(q) = k
        BY <4>1, <4>2
      <4>. HIDE DEF m, i
      <4>5. m[i] = line[k]
        BY <4>3, <4>4
      <4>. QED
        BY <4>5 DEF m, i
    <3>. QED
      BY <1>3, <3>1, <3>4, <3>5
  <2>2. \A k \in 1..(prompt + l) : (q \o line)[k] = shown[k]
    <3>. SUFFICES ASSUME NEW k \in 1..(prompt + l) PROVE (q \o line)[k] = shown[k]
      OBVIOUS
    <3>1. CASE k <= prompt
      <4>1. k \in 1..prompt
        BY <1>1, <3>1
      <4>. QED
        BY <1>3, <2>1, <4>1
    <3>2. CASE k > prompt
      <4>1. k - prompt \in 1..l /\ prompt + (k - prompt) = k
        BY <1>1, <3>2
      <4>2. shown[prompt + (k - prompt)] = line[k - prompt]
        BY <1>2, <4>1
      <4>3. (q \o line)[prompt + (k - prompt)] = line[k - prompt]
        BY <2>1, <4>1
      <4>. QED
        BY <4>1, <4>2, <4>3
    <3>3. k <= prompt \/ k > prompt
      BY <1>1
    <3>. QED
      BY <3>1, <3>2, <3>3
  <2>. DEFINE u == q \o line
  <2>3. u \in Seq(T) /\ Len(u) = prompt + l /\ \A k \in 1..(prompt + l) : u[k] = shown[k]
    BY <2>1, <2>2
  <2>. HIDE DEF u
  <2>4. /\ u \o <<NL>> \in Seq(T) /\ Len(u \o <<NL>>) = Len(u) + 1
        /\ \A k \in 1..(Len(u) + 1) : (u \o <<NL>>)[k] = IF k <= Len(u) THEN u[k] ELSE <<NL>>[k - Len(u)]
    BY <1>1, <2>3, ConcatProperties
  <2>5. \A k \in 1..(prompt + l + 1) : (u \o <<NL>>)[k] = shown[k]
    <3>. SUFFICES ASSUME NEW k \in 1..(prompt + l + 1) PROVE (u \o <<NL>>)[k] = shown[k]
      OBVIOUS
    <3>1. CASE k <= prompt + l
      <4>1. k \in 1..(prompt + l)
        BY <1>1, <3>1
      <4>. QED
        BY <2>4, <2>3, <3>1, <4>1
    <3>2. CASE k > prompt + l
      <4>1. k = prompt + l + 1 /\ k - (prompt + l) = 1
        BY <1>1, <3>2
      <4>2. ~(k <= Len(u)) /\ k - Len(u) = 1 /\ k \in 1..(Len(u) + 1)
        BY <1>1, <2>3, <4>1
      <4>3. (u \o <<NL>>)[k] = NL
        BY <2>4, <4>2
      <4>. QED
        BY <1>2, <4>1, <4>3
    <3>3. k <= prompt + l \/ k > prompt + l
      BY <1>1
    <3>. QED
      BY <3>1, <3>2, <3>3
  <2>. QED
    BY <2>4, <2>3, <2>5 DEF u
<1>. HIDE DEF z
<1>5. Len(z) <= s
  BY <1>1, <1>2, <1>4
<1>6. SubSeq(z, 1, Len(z)) = SubSeq(shown, 1, Len(z))
  <2>. DEFINE n == Len(z)
              f == SubSeq(z, 1, n)
              g == SubSeq(shown, 1, n)
  <2>1. n \in Nat /\ n <= s /\ \A k \in 1..n : z[k] = shown[k]
    BY <1>1, <1>4, <1>5
  <2>2. (\A k \in 1..n : z[k] \in T) /\ (\A k \in 1..n : shown[k] \in T)
    BY <1>1, <1>4, <2>1
  <2>. HIDE DEF n
  <2>3. /\ f \in Seq(T) /\ g \in Seq(T) /\ Len(f) = Len(g)
        /\ \A k \in 1..(n - 1 + 1) : f[k] = z[1 + k - 1] /\ g[k] = shown[1 + k - 1]
    BY <2>1, <2>2, SubSeqProperties
  <2>4. Len(f) = n
    BY <2>1, <2>2, SubSeqProperties
  <2>5. \A k \in 1..n : k \in 1..(n - 1 + 1) /\ 1 + k - 1 = k
    BY <2>1
  <2>6. \A k \in 1..Len(f) : f[k] = g[k]
    BY <2>1, <2>3, <2>4, <2>5
  <2>7. f = g
    BY <2>3, <2>6, SeqEqual
  <2>. QED
    BY <2>7 DEF n
<1>7. IsPrefix(z, shown)
  BY <1>5, <1>6 DEF IsPrefix
<1>. QED
  BY <1>7 DEF z, q

\* When a call returns that received nothing a terminal does not show, the line is
\* what stands behind the prompt, for any number of characters received and
\* printed that a u32 can count.
THEOREM EchoIsTheLine ==
  ASSUME MaxTyped + MaxPrinted + MaxNulls < U32
  PROVE  EchoSpec => []EchoIsLine
<1>. DEFINE EInv == InputInv /\ EchoTypeOK /\ OffsetInv /\ LineInv
<1>1. EchoInit => EInv
  <2>. SUFFICES ASSUME EchoInit PROVE EInv
    OBVIOUS
  <2>1. InputInv /\ EchoTypeOK
    BY InputInvInit, EchoStart DEF EchoInit
  <2>2. at = "idle" /\ offset = 0 /\ printed = 0 /\ nulls = 0 /\ typed = <<>>
    BY DEF EchoInit, Init
  <2>3. OffsetInv /\ LineInv
    BY <2>2, EchoAssumption DEF OffsetInv, LineInv
  <2>. QED
    BY <2>1, <2>3
<1>2. EInv /\ [EchoNext]_evars => EInv'
  BY InputInvStep, EchoIsInput, EchoTypeStep, OffsetInvStep, LineInvStep DEF InputInv
<1>3. EInv => EchoIsLine
  BY LineShownMeans DEF InputInv
<1>. QED
  BY <1>1, <1>2, <1>3, PTL DEF EchoSpec

-----------------------------------------------------------------------------
(* The line of a call is a fold over what was typed.  The fold recurses    *)
(* over subsets of positions, greatest first; what is needed of it are its *)
(* values on the first k positions.                                        *)

\* The greatest position.
LEMMA MaxOfPositions ==
  ASSUME NEW n \in Nat, NEW t \in SUBSET (1..n), t # {}
  PROVE  Max(t) \in t /\ \A y \in t : y <= Max(t)
<1>1. PICK m \in t : \A y \in t : y <= m
  BY GreatestPosition
<1>2. \A y \in t : m >= y
  BY <1>1
<1>3. Max(t) \in t /\ \A y \in t : Max(t) >= y
  BY <1>2 DEF Max
<1>. QED
  BY <1>3

Edited(kind, s) == FoldLeft(LAMBDA l, x : EditIn(kind, l, x), <<>>, s)

\* f is the recursive function of the fold.
Folds(kind, s, D, f) ==
  f = [t \in SUBSET D |->
         IF t = {} THEN <<>>
         ELSE EditIn(kind, f[t \ {Max(t)}], s[Max(t)])]

\* FoldLeft is the value of such a function on all the positions.
LEMMA EditedIsFold ==
  ASSUME NEW kind, NEW s
  PROVE  Edited(kind, s) = (CHOOSE f : Folds(kind, s, DOMAIN s, f))[DOMAIN s]
BY DEF Edited, FoldLeft, MapThenFoldSet, Folds

\* There is one, position by position.
LEMMA EditsExist ==
  ASSUME NEW kind, NEW s
  PROVE  \A n \in Nat : \E f : Folds(kind, s, 1..n, f)
<1>. DEFINE Bad == {n \in Nat : ~ \E f : Folds(kind, s, 1..n, f)}
<1>. SUFFICES ASSUME Bad # {} PROVE FALSE
  OBVIOUS
<1>1. PICK n \in Bad : \A k \in Bad : n <= k
  <2>. HIDE DEF Bad
  <2>1. Bad \in SUBSET Nat
    BY DEF Bad
  <2>. QED
    BY <2>1, LeastNatural
<1>2. n # 0
  <2>. SUFFICES \E f : Folds(kind, s, 1..0, f)
    OBVIOUS
  <2>. DEFINE f == [t \in SUBSET (1..0) |-> <<>>]
  <2>1. \A t \in SUBSET (1..0) : t = {}
    OBVIOUS
  <2>2. Folds(kind, s, 1..0, f)
    BY <2>1 DEF Folds
  <2>. QED
    BY <2>2
<1>3. PICK f : Folds(kind, s, 1..(n - 1), f)
  <2>1. n - 1 \in Nat /\ n - 1 \notin Bad
    BY <1>1, <1>2
  <2>. QED
    BY <2>1
<1>. DEFINE g == [t \in SUBSET (1..n) |->
                    IF n \in t THEN EditIn(kind, f[t \ {n}], s[n]) ELSE f[t]]
<1>4. ASSUME NEW t \in SUBSET (1..n)
      PROVE  g[t] = IF t = {} THEN <<>>
                    ELSE EditIn(kind, g[t \ {Max(t)}], s[Max(t)])
  <2>1. \A u \in SUBSET (1..(n - 1)) :
          /\ u \in SUBSET (1..n) /\ n \notin u
          /\ f[u] = IF u = {} THEN <<>> ELSE EditIn(kind, f[u \ {Max(u)}], s[Max(u)])
    <3>. SUFFICES ASSUME NEW u \in SUBSET (1..(n - 1))
                  PROVE  /\ u \in SUBSET (1..n) /\ n \notin u
                         /\ f[u] = IF u = {} THEN <<>>
                                   ELSE EditIn(kind, f[u \ {Max(u)}], s[Max(u)])
      OBVIOUS
    <3>1. \A y \in u : y \in 1..n /\ y # n
      OBVIOUS
    <3>2. f[u] = IF u = {} THEN <<>> ELSE EditIn(kind, f[u \ {Max(u)}], s[Max(u)])
      BY <1>3 DEF Folds
    <3>. QED
      BY <3>1, <3>2
  <2>2. CASE n \in t
    <3>1. Max(t) = n
      <4>1. Max(t) \in t /\ n <= Max(t)
        BY <2>2, MaxOfPositions
      <4>2. Max(t) \in 1..n
        BY <4>1
      <4>. QED
        BY <4>1, <4>2
    <3>2. t \ {n} \in SUBSET (1..(n - 1))
      OBVIOUS
    <3>3. g[t \ {n}] = f[t \ {n}]
      BY <2>1, <3>2
    <3>. QED
      BY <2>2, <3>1, <3>3
  <2>3. CASE n \notin t
    <3>1. t \in SUBSET (1..(n - 1)) /\ t \ {Max(t)} \in SUBSET (1..(n - 1))
      <4>1. \A y \in t : y \in 1..n /\ y # n
        BY <2>3
      <4>2. \A y \in t : y \in 1..(n - 1)
        BY <4>1
      <4>. QED
        BY <4>2
    <3>2. g[t] = f[t] /\ g[t \ {Max(t)}] = f[t \ {Max(t)}]
      BY <2>1, <3>1
    <3>. QED
      BY <2>1, <3>1, <3>2
  <2>. QED
    BY <2>2, <2>3
<1>5. Folds(kind, s, 1..n, g)
  <2>1. g = [t \in SUBSET (1..n) |-> g[t]]
    OBVIOUS
  <2>. QED
    BY <1>4, <2>1 DEF Folds
<1>. QED
  BY <1>5

\* On the first k positions it edits the k-th character into what the ones
\* before have come to.
LEMMA FoldsOn ==
  ASSUME NEW kind, NEW s, NEW n \in Nat, NEW f, Folds(kind, s, 1..n, f)
  PROVE  /\ f[{}] = <<>>
         /\ \A k \in 1..n : f[1..k] = EditIn(kind, f[1..(k - 1)], s[k])
<1>1. f[{}] = <<>>
  BY DEF Folds
<1>2. ASSUME NEW k \in 1..n PROVE f[1..k] = EditIn(kind, f[1..(k - 1)], s[k])
  <2>1. 1..k \in SUBSET (1..n) /\ k \in 1..k /\ 1..k # {}
    <3>1. k \in 1..k /\ \A y \in 1..k : y \in 1..n
      OBVIOUS
    <3>. QED
      BY <3>1
  <2>2. Max(1..k) = k
    <3>1. Max(1..k) \in 1..k /\ \A y \in 1..k : y <= Max(1..k)
      BY <2>1, MaxOfPositions
    <3>. QED
      BY <2>1, <3>1
  <2>3. (1..k) \ {k} = 1..(k - 1)
    OBVIOUS
  <2>4. f[1..k] = EditIn(kind, f[(1..k) \ {Max(1..k)}], s[Max(1..k)])
    BY <2>1 DEF Folds
  <2>. QED
    BY <2>2, <2>3, <2>4
<1>. QED
  BY <1>1, <1>2

\* The value of the fold, of a sequence and of one with a character more.
LEMMA EditedAppend ==
  ASSUME NEW kind, NEW s \in Seq(Keys), NEW x \in Keys
  PROVE  /\ Edited(kind, <<>>) = <<>>
         /\ Edited(kind, Append(s, x)) = EditIn(kind, Edited(kind, s), x)
<1>. DEFINE n == Len(s)
            s1 == Append(s, x)
            f == CHOOSE h : Folds(kind, s, 1..n, h)
            g == CHOOSE h : Folds(kind, s1, 1..(n + 1), h)
            e == CHOOSE h : Folds(kind, <<>>, 1..0, h)
<1>1. /\ n \in Nat /\ n + 1 \in Nat /\ DOMAIN s = 1..n /\ DOMAIN s1 = 1..(n + 1)
      /\ DOMAIN <<>> = 1..0
      /\ s1[n + 1] = x /\ \A k \in 1..n : s1[k] = s[k]
  BY AppendProperties, LenProperties
<1>2. Folds(kind, s, 1..n, f)
  BY <1>1, EditsExist
<1>3. Folds(kind, s1, 1..(n + 1), g)
  BY <1>1, EditsExist
<1>4. Folds(kind, <<>>, 1..0, e)
  BY EditsExist
<1>5. Edited(kind, s) = f[1..n]
  BY <1>1, EditedIsFold
<1>6. Edited(kind, s1) = g[1..(n + 1)]
  BY <1>1, EditedIsFold
<1>7. Edited(kind, <<>>) = e[1..0]
  BY <1>1, EditedIsFold
<1>. HIDE DEF f, g, e, s1, n
<1>8. Edited(kind, <<>>) = <<>>
  <2>1. 1..0 = {}
    OBVIOUS
  <2>2. e[{}] = <<>>
    BY <1>4 DEF Folds
  <2>. QED
    BY <1>7, <2>1, <2>2
<1>9. \A k \in 0..n : f[1..k] = g[1..k]
  <2>. DEFINE Bad == {k \in Nat : k <= n /\ f[1..k] # g[1..k]}
  <2>. SUFFICES ASSUME Bad # {} PROVE FALSE
    BY <1>1
  <2>1. PICK k \in Bad : \A j \in Bad : k <= j
    <3>. HIDE DEF Bad
    <3>1. Bad \in SUBSET Nat
      BY DEF Bad
    <3>. QED
      BY <3>1, LeastNatural
  <2>2. k # 0
    <3>1. 1..0 = {}
      OBVIOUS
    <3>2. f[{}] = <<>> /\ g[{}] = <<>>
      BY <1>1, <1>2, <1>3, FoldsOn
    <3>. QED
      BY <2>1, <3>1, <3>2
  <2>3. k \in 1..n /\ k \in 1..(n + 1) /\ k - 1 \in Nat
    BY <1>1, <2>1, <2>2
  <2>4. f[1..(k - 1)] = g[1..(k - 1)]
    <3>1. k - 1 \notin Bad
      BY <1>1, <2>1, <2>3
    <3>. QED
      BY <1>1, <2>3, <3>1
  <2>5. f[1..k] = EditIn(kind, f[1..(k - 1)], s[k]) /\ g[1..k] = EditIn(kind, g[1..(k - 1)], s1[k])
    BY SMTT(30), <1>1, <1>2, <1>3, <2>3, FoldsOn
  <2>. QED
    BY <1>1, <2>1, <2>3, <2>4, <2>5
<1>10. g[1..(n + 1)] = EditIn(kind, g[1..(n + 1 - 1)], s1[n + 1])
  <2>1. n + 1 \in 1..(n + 1)
    BY <1>1
  <2>. QED
    BY <1>1, <1>3, <2>1, FoldsOn
<1>11. n + 1 - 1 = n /\ n \in 0..n
  BY <1>1
<1>. QED
  BY <1>1, <1>5, <1>6, <1>8, <1>9, <1>10, <1>11 DEF s1

Had == SubSeq(typed, begin + 1, taken)

CallInv ==
  orderly /\ call # "none" => begin <= taken /\ line = Edited(call, Had)

\* A stretch of what was typed: its characters, and that it is what it is
\* whatever is typed later.
LEMMA Stretch ==
  ASSUME NEW s \in Seq(Keys), NEW a \in Nat, NEW b \in Nat, a <= b, b <= Len(s)
  PROVE  /\ SubSeq(s, a + 1, b) \in Seq(Keys)
         /\ Len(SubSeq(s, a + 1, b)) = b - a
         /\ \A k \in 1..(b - a) : SubSeq(s, a + 1, b)[k] = s[a + k]
<1>1. \A k \in (a + 1)..b : s[k] \in Keys
  <2>1. \A k \in (a + 1)..b : k \in 1..Len(s)
    OBVIOUS
  <2>. QED
    BY <2>1, ElementOfSeq
<1>2. /\ SubSeq(s, a + 1, b) \in Seq(Keys)
      /\ Len(SubSeq(s, a + 1, b)) = IF a + 1 <= b THEN b - (a + 1) + 1 ELSE 0
      /\ \A k \in 1..(b - (a + 1) + 1) : SubSeq(s, a + 1, b)[k] = s[a + 1 + k - 1]
  BY SMTT(30), <1>1, SubSeqProperties
<1>3. (IF a + 1 <= b THEN b - (a + 1) + 1 ELSE 0) = b - a /\ b - (a + 1) + 1 = b - a
  OBVIOUS
<1>4. \A k \in 1..(b - a) : a + 1 + k - 1 = a + k
  OBVIOUS
<1>. QED
  BY <1>2, <1>3, <1>4

\* A stretch of what was typed, and one key more.
LEMMA StretchGrows ==
  ASSUME NEW s \in Seq(Keys), NEW a \in Nat, NEW b \in Nat, a <= b, b < Len(s)
  PROVE  SubSeq(s, a + 1, b + 1) = Append(SubSeq(s, a + 1, b), s[b + 1])
<1>. DEFINE p == SubSeq(s, a + 1, b)
            q == SubSeq(s, a + 1, b + 1)
<1>1. s[b + 1] \in Keys
  <2>1. b + 1 \in 1..Len(s)
    OBVIOUS
  <2>. QED
    BY <2>1, ElementOfSeq
<1>2. p \in Seq(Keys) /\ Len(p) = b - a /\ \A k \in 1..(b - a) : p[k] = s[a + k]
  BY Stretch
<1>3. q \in Seq(Keys) /\ Len(q) = b + 1 - a /\ \A k \in 1..(b + 1 - a) : q[k] = s[a + k]
  BY Stretch
<1>. HIDE DEF p, q
<1>4. /\ Append(p, s[b + 1]) \in Seq(Keys)
      /\ Len(Append(p, s[b + 1])) = b + 1 - a
      /\ \A k \in 1..(b - a) : Append(p, s[b + 1])[k] = s[a + k]
      /\ Append(p, s[b + 1])[b + 1 - a] = s[b + 1]
  <2>1. b - a + 1 = b + 1 - a
    OBVIOUS
  <2>2. /\ Append(p, s[b + 1]) \in Seq(Keys)
        /\ Len(Append(p, s[b + 1])) = Len(p) + 1
        /\ \A k \in 1..Len(p) : Append(p, s[b + 1])[k] = p[k]
        /\ Append(p, s[b + 1])[Len(p) + 1] = s[b + 1]
    BY <1>1, <1>2, AppendProperties
  <2>. QED
    BY <1>2, <2>1, <2>2
<1>5. \A k \in 1..(b + 1 - a) : q[k] = Append(p, s[b + 1])[k]
  <2>1. \A k \in 1..(b + 1 - a) : k \in 1..(b - a) \/ (k = b + 1 - a /\ a + k = b + 1)
    OBVIOUS
  <2>. QED
    BY <1>3, <1>4, <2>1
<1>6. q = Append(p, s[b + 1])
  BY <1>3, <1>4, <1>5, SeqEqual
<1>. QED
  BY <1>6 DEF p, q

\* No key makes no line.
LEMMA EditedNothing ==
  ASSUME NEW kind, NEW s \in Seq(Keys), NEW a \in Nat, a <= Len(s)
  PROVE  Edited(kind, SubSeq(s, a + 1, a)) = <<>>
<1>1. SubSeq(s, a + 1, a) = <<>>
  BY SubSeqEmpty
<1>2. NL \in Keys
  BY EchoAssumption
<1>. QED
  BY <1>1, <1>2, EditedAppend

\* Every step keeps the line what was typed since the call began.
LEMMA CallInvStep ==
  InputInv /\ CallInv /\ [Next]_vars => CallInv'
<1>. SUFFICES ASSUME InputInv, CallInv, [Next]_vars, orderly', call' # "none"
              PROVE  begin' <= taken' /\ line' = Edited(call', Had')
  BY DEF CallInv
<1>. DEFINE Goal == begin' <= taken' /\ line' = Edited(call', Had')
<1>1. /\ typed \in Seq(Keys) /\ Len(typed) \in Nat /\ taken \in Nat /\ begin \in Nat
  BY DEF InputInv, TypeOK
<1>2. orderly => taken <= Len(typed)
  BY DEF InputInv, RingInv
<1>3. ASSUME NEW x \in Keys, Handler(x) PROVE Goal
  <2>1. /\ orderly /\ UNCHANGED <<call, line, taken, begin>>
        /\ typed' \in Seq(Keys) /\ Len(typed') = Len(typed) + 1
        /\ \A k \in 1..Len(typed) : typed'[k] = typed[k]
    BY <1>3, OrderlyHandler
  <2>2. begin <= taken /\ line = Edited(call, Had) /\ taken <= Len(typed)
    BY <1>2, <2>1 DEF CallInv
  <2>3. SubSeq(typed', begin + 1, taken) = SubSeq(typed, begin + 1, taken)
    <3>. DEFINE p == SubSeq(typed', begin + 1, taken)
                q == SubSeq(typed, begin + 1, taken)
                t == typed'
    <3>1. /\ q \in Seq(Keys) /\ Len(q) = taken - begin
          /\ \A k \in 1..(taken - begin) : q[k] = typed[begin + k]
      BY <1>1, <2>2, Stretch
    <3>2. t \in Seq(Keys) /\ taken <= Len(t)
      BY <1>1, <2>1, <2>2
    <3>. HIDE DEF t
    <3>3. /\ SubSeq(t, begin + 1, taken) \in Seq(Keys)
          /\ Len(SubSeq(t, begin + 1, taken)) = taken - begin
          /\ \A k \in 1..(taken - begin) : SubSeq(t, begin + 1, taken)[k] = t[begin + k]
      BY <1>1, <2>2, <3>2, Stretch
    <3>4. \A k \in 1..(taken - begin) : begin + k \in 1..Len(typed)
      BY <1>1, <2>2
    <3>5. \A k \in 1..(taken - begin) : t[begin + k] = typed[begin + k]
      BY <2>1, <3>4 DEF t
    <3>6. SubSeq(t, begin + 1, taken) = q
      <4>. HIDE DEF q
      <4>. QED
        BY <3>1, <3>3, <3>5, SeqEqual
    <3>. QED
      BY <3>6 DEF t
  <2>4. Had' = Had
    BY <2>1, <2>3 DEF Had
  <2>. QED
    BY <2>1, <2>2, <2>4
<1>4. CASE BeginReadln \/ (\E n \in Sizes : BeginRead(n))
  <2>1. line' = <<>> /\ begin' = taken /\ UNCHANGED <<taken, typed, orderly>>
    BY <1>4 DEF BeginRead, BeginReadln, handlers
  <2>2. Had' = SubSeq(typed, taken + 1, taken)
    BY <2>1 DEF Had
  <2>3. Edited(call', SubSeq(typed, taken + 1, taken)) = <<>>
    BY <1>1, <1>2, <2>1, EditedNothing
  <2>. QED
    BY <1>1, <2>1, <2>2, <2>3
<1>5. CASE Wait \/ LoadIndex \/ LoadChar \/ LoadR
  <2>1. UNCHANGED <<call, line, taken, begin, typed, orderly>>
    BY <1>5 DEF Wait, LoadIndex, LoadChar, LoadR, handlers
  <2>2. Had' = Had
    BY <2>1 DEF Had
  <2>. QED
    BY <2>1, <2>2 DEF CallInv
<1>6. CASE StoreR
  <2>1. /\ pc = "store" /\ taken' = taken + 1
        /\ line' = EditIn(call, line, c)
        /\ UNCHANGED <<call, begin, typed, orderly>>
    BY <1>6 DEF StoreR, handlers, EditIn
  <2>2. c = typed[taken + 1] /\ Unread > 0
    BY <2>1 DEF InputInv, ReaderInv
  <2>3. begin <= taken /\ line = Edited(call, Had)
    BY <2>1 DEF CallInv
  <2>4. taken < Len(typed)
    BY <1>1, <2>2 DEF Unread
  <2>5. Had' = Append(Had, c)
    BY <1>1, <2>1, <2>2, <2>3, <2>4, StretchGrows DEF Had
  <2>6. Had \in Seq(Keys) /\ c \in Keys
    <3>1. taken + 1 \in 1..Len(typed)
      BY <1>1, <2>4
    <3>. QED
      BY <1>1, <2>2, <2>3, <2>4, <3>1, Stretch, ElementOfSeq DEF Had
  <2>7. Edited(call, Append(Had, c)) = EditIn(call, Edited(call, Had), c)
    BY <2>6, EditedAppend
  <2>8. begin <= taken + 1
    BY <1>1, <2>3
  <2>. QED
    BY <2>1, <2>3, <2>5, <2>7, <2>8
<1>7. CASE UNCHANGED vars
  <2>1. UNCHANGED <<call, line, taken, begin, typed, orderly>>
    BY <1>7 DEF vars
  <2>2. Had' = Had
    BY <2>1 DEF Had
  <2>. QED
    BY <2>1, <2>2 DEF CallInv
<1>. QED
  BY <1>3, <1>4, <1>5, <1>6, <1>7, KeyOrNothing DEF Next, ReadStep

\* The line of a call is what was typed since it began, edited; a reader
\* interrupted anywhere misses nothing and takes nothing twice.
THEOREM LineIsTyped ==
  /\ Spec => []LineAsTyped
  /\ EchoSpec => []LineAsTyped
<1>1. Init => CallInv
  BY DEF Init, CallInv
<1>2. EchoInit => CallInv
  BY <1>1 DEF EchoInit
<1>3. InputInv /\ CallInv /\ [EchoNext]_evars => CallInv'
  BY CallInvStep, EchoIsInput
<1>4. CallInv => LineAsTyped
  BY DEF CallInv, LineAsTyped, Edited, Had
<1>5. Spec => []LineAsTyped
  BY <1>1, <1>4, CallInvStep, InputInvariant, PTL DEF Spec
<1>6. EchoSpec => []LineAsTyped
  BY <1>2, <1>3, <1>4, InputInvariant, PTL DEF EchoSpec
<1>. QED
  BY <1>5, <1>6

-----------------------------------------------------------------------------
(* The end of a call.                                                      *)

EndsInv ==
  /\ call = "input_read" => Len(line) <= size /\ (pc # "idle" => Len(line) < size)
  /\ orderly /\ call = "input_readln" =>
       \A k \in (begin + 1)..taken : typed[k] = NL => k = taken /\ pc = "idle"

\* A newline that was taken is the last key that was.
LEMMA EndsInvStep ==
  InputInv /\ CallInv /\ EndsInv /\ [Next]_vars => EndsInv'
<1>. SUFFICES ASSUME InputInv, CallInv, EndsInv, [Next]_vars PROVE EndsInv'
  OBVIOUS
<1>1. /\ typed \in Seq(Keys) /\ Len(typed) \in Nat /\ taken \in Nat /\ begin \in Nat
      /\ line \in Seq(Char) /\ Len(line) \in Nat /\ size \in Nat /\ c \in Char
  BY InputAssumption DEF InputInv, TypeOK
<1>2. orderly => taken <= Len(typed)
  BY DEF InputInv, RingInv
<1>3. ASSUME NEW x \in Keys, Handler(x) PROVE EndsInv'
  <2>1. UNCHANGED <<call, line, size, pc, taken, begin>> /\ (orderly' => orderly)
    BY <1>3, HandlerOfKey DEF Handler
  <2>2. orderly' => \A k \in 1..Len(typed) : typed'[k] = typed[k]
    BY <1>3, OrderlyHandler
  <2>3. orderly' => \A k \in (begin + 1)..taken : typed'[k] = typed[k]
    <3>1. orderly => \A k \in (begin + 1)..taken : k \in 1..Len(typed)
      BY <1>1, <1>2
    <3>. QED
      BY <2>1, <2>2, <3>1
  <2>. QED
    BY <2>1, <2>3 DEF EndsInv
<1>4. CASE BeginReadln
  <2>1. call' = "input_readln" /\ begin' = taken /\ taken' = taken
    BY <1>4 DEF BeginReadln
  <2>2. \A k \in (taken + 1)..taken : FALSE
    BY <1>1
  <2>. QED
    BY <2>1, <2>2 DEF EndsInv
<1>5. ASSUME NEW n \in Sizes, BeginRead(n) PROVE EndsInv'
  <2>1. /\ call' = "input_read" /\ size' = n /\ Len(line') = 0
        /\ n = 0 => pc' = "idle"
    BY <1>5 DEF BeginRead
  <2>2. n \in Nat
    BY InputAssumption
  <2>. QED
    BY <2>1, <2>2 DEF EndsInv
<1>6. CASE Wait \/ LoadIndex \/ LoadChar \/ LoadR
  <2>1. pc # "idle" /\ UNCHANGED <<call, line, size, taken, begin, typed, orderly>>
    BY <1>6 DEF Wait, LoadIndex, LoadChar, LoadR, handlers
  <2>. QED
    BY <2>1 DEF EndsInv
<1>7. CASE StoreR
  <2>1. /\ pc = "store" /\ taken' = taken + 1
        /\ line' = IF call = "input_readln" /\ c = NL THEN line ELSE Edit(line, c)
        /\ pc' = IF Over(line', c) THEN "idle" ELSE "wait"
        /\ UNCHANGED <<call, size, begin, typed, orderly>>
    BY <1>7 DEF StoreR, locals, handlers
  <2>2. ASSUME call = "input_read"
        PROVE  Len(line') <= size /\ (pc' # "idle" => Len(line') < size)
    <3>. DEFINE m == Len(line')
    <3>1. line' = Edit(line, c) /\ Len(line) < size
      BY <2>1, <2>2 DEF EndsInv
    <3>2. m \in Nat /\ m <= Len(line) + 1
      <4>1. line' \in Seq(Char)
        BY <1>1, <3>1, EditType
      <4>2. CASE c # BS
        BY <1>1, <3>1, <4>1, <4>2, AppendProperties DEF Edit
      <4>3. CASE c = BS /\ line = <<>>
        BY <1>1, <3>1, <4>1, <4>3 DEF Edit
      <4>4. CASE c = BS /\ line # <<>>
        <5>1. Len(line) > 0 /\ line' = SubSeq(line, 1, Len(line) - 1)
          BY <1>1, <3>1, <4>4, EmptySeq DEF Edit, Front
        <5>2. \A k \in 1..(Len(line) - 1) : line[k] \in Char
          BY <1>1
        <5>3. m = IF 1 <= Len(line) - 1 THEN Len(line) - 1 - 1 + 1 ELSE 0
          BY <1>1, <5>1, <5>2, SubSeqProperties
        <5>4. m \in Nat
          BY <4>1
        <5>. HIDE DEF m
        <5>. QED
          BY <1>1, <5>1, <5>3, <5>4
      <4>. QED
        BY <4>2, <4>3, <4>4
    <3>3. m = size => pc' = "idle"
      BY <2>1, <2>2 DEF Over
    <3>. HIDE DEF m
    <3>4. m <= size /\ (m # size => m < size)
      BY <1>1, <3>1, <3>2
    <3>. QED
      BY <3>3, <3>4 DEF m
  <2>3. ASSUME orderly, call = "input_readln", NEW k \in (begin + 1)..(taken + 1),
               typed[k] = NL
        PROVE  k = taken + 1 /\ pc' = "idle"
    <3>1. k \notin (begin + 1)..taken
      BY <2>1, <2>3 DEF EndsInv
    <3>2. k = taken + 1
      BY <1>1, <3>1
    <3>3. c = typed[taken + 1]
      BY <2>1, <2>3 DEF InputInv, ReaderInv
    <3>. QED
      BY <2>1, <2>3, <3>2, <3>3 DEF Over
  <2>. QED
    BY <2>1, <2>2, <2>3 DEF EndsInv
<1>8. CASE UNCHANGED vars
  BY <1>8 DEF vars, EndsInv
<1>. QED
  BY <1>3, <1>4, <1>5, <1>6, <1>7, <1>8, KeyOrNothing DEF Next, ReadStep

\* A newline ends input_readln and nothing behind it is taken; input_read
\* never takes more than fits the caller's buffer.
THEOREM CallsEndInTime ==
  /\ Spec => []CallEndsInTime
  /\ EchoSpec => []CallEndsInTime
<1>1. Init => CallInv /\ EndsInv
  BY DEF Init, CallInv, EndsInv
<1>2. EchoInit => CallInv /\ EndsInv
  BY <1>1 DEF EchoInit
<1>3. InputInv /\ CallInv /\ EndsInv /\ [EchoNext]_evars => CallInv' /\ EndsInv'
  BY CallInvStep, EndsInvStep, EchoIsInput
<1>4. InputInv /\ CallInv /\ EndsInv /\ [Next]_vars => CallInv' /\ EndsInv'
  BY CallInvStep, EndsInvStep
<1>5. EndsInv => CallEndsInTime
  BY DEF EndsInv, CallEndsInTime
<1>6. Spec => []CallEndsInTime
  BY <1>1, <1>4, <1>5, InputInvariant, PTL DEF Spec
<1>7. EchoSpec => []CallEndsInTime
  BY <1>2, <1>3, <1>5, InputInvariant, PTL DEF EchoSpec
<1>. QED
  BY <1>6, <1>7

=============================================================================
