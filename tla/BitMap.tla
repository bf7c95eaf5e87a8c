------------------------------- MODULE BitMap -------------------------------
(***************************************************************************)
(* libs/bitmap.c: a bitmap kept in an array of 32-bit words ("sectors").   *)
(*                                                                         *)
(* Bit k is looked up in sector k / 31, with one correction at a multiple  *)
(* of 31.  The position inside the sector that the code computes (bit) is  *)
(* never used: the word is shifted by k itself.  A shift count of 32 or    *)
(* more is undefined in C; the builds of the Makefile (gcc or clang, -O0,  *)
(* x86-64) emit a shift by the CL register, which the processor reduces    *)
(* modulo 32.  So bit k lives in the cell <<SectorOf(k), k % 32>>, and it  *)
(* is not obvious that two bits never share a cell.                        *)
(***************************************************************************)
EXTENDS Integers

CONSTANTS
  Index,      \* the bit numbers the client uses
  Sectors,    \* the number of words the bitmap occupies
  Fill        \* the words that may lie in that memory beforehand

VARIABLES
  bitmap,     \* the words
  result      \* the last call: its bit number, and the answer of a read

vars == <<bitmap, result>>

WORD_BITS == 32
Bit == {0, 1}
NONE == -1
Word == [0..WORD_BITS - 1 -> Bit]
SectorIndex == 0..Sectors - 1

-----------------------------------------------------------------------------
\* The shift count the processor applies for a count of k.
Shift(k) == k % WORD_BITS

\* setBit_ and clrBit_ number the bits of a word from 1, getBit_ from 0.
setBit_(n, k) == [n EXCEPT ![Shift(k - 1)] = 1]
clrBit_(n, k) == [n EXCEPT ![Shift(k - 1)] = 0]
getBit_(n, k) == n[Shift(k)]

\* Fault: the divisor changed to the word size
\* while the correction is kept.
SectorOfBy32(k) ==
  LET sector == k \div 32
  IN  IF sector # 0 /\ k - sector * 32 = 0 THEN sector - 1 ELSE sector

SectorOf(k) ==
  LET sector == k \div 31
  IN  IF sector # 0 /\ k - sector * 31 = 0 THEN sector - 1 ELSE sector

-----------------------------------------------------------------------------
TypeOK ==
  /\ bitmap \in [SectorIndex -> Word]
  /\ result \in (Index \cup {NONE}) \X (Bit \cup {NONE})

Init ==
  /\ bitmap \in [SectorIndex -> Fill]
  /\ result = <<NONE, NONE>>

BitMapGetBit_(k) ==
  /\ result' = <<k, getBit_(bitmap[SectorOf(k)], k)>>
  /\ UNCHANGED bitmap

BitMapSetBit_(k) ==
  /\ bitmap' = [bitmap EXCEPT ![SectorOf(k)] = setBit_(@, k + 1)]
  /\ result' = <<k, NONE>>

BitMapClrBit_(k) ==
  /\ bitmap' = [bitmap EXCEPT ![SectorOf(k)] = clrBit_(@, k + 1)]
  /\ result' = <<k, NONE>>

\* Sets and then clears bit 31 of a sector.
BitMapNewSector_(sector) ==
  /\ bitmap' = [bitmap EXCEPT ![sector] = clrBit_(setBit_(@, 31), 31)]
  /\ result' = <<NONE, NONE>>

Next ==
  \/ \E k \in Index : BitMapGetBit_(k)
  \/ \E k \in Index : BitMapSetBit_(k)
  \/ \E k \in Index : BitMapClrBit_(k)
  \/ \E sector \in SectorIndex : BitMapNewSector_(sector)

Spec == Init /\ [][Next]_vars

-----------------------------------------------------------------------------
\* The bits as the client sees them.
Bits == [k \in Index |-> bitmap[SectorOf(k)][Shift(k)]]

Array == INSTANCE BitArray WITH bits <- Bits

\* The words of libs/bitmap.c behave as an array of independent bits: a bit
\* read is the bit last written, and writing one leaves every other alone.
RefinesBitArray == Array!Spec
=============================================================================
