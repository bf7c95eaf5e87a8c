-------------------------------- MODULE Words --------------------------------
(***************************************************************************)
(* The bitmap of libs/bitmap.c (BitMap) with names that leave room for     *)
(* those of the allocator that uses it: the proofs speak of both.          *)
(***************************************************************************)
EXTENDS Integers

CONSTANTS BitNumbers, Sectors, Fill

VARIABLES words, answer

Map == INSTANCE BitMap WITH Index <- BitNumbers, bitmap <- words, result <- answer

\* The bit numbers used lie in the words there are.
ASSUME WordsAssumption ==
  /\ Sectors \in Nat
  /\ BitNumbers \subseteq Nat
  /\ \A k \in BitNumbers : Map!SectorOf(k) \in Map!SectorIndex
  /\ Fill \subseteq Map!Word

WordsSpec == Map!Spec

-----------------------------------------------------------------------------
\* The words of libs/bitmap.c behave as an array of independent bits: a bit
\* read is the bit last written, and writing one leaves every other alone.
RefinesBitArray == Map!RefinesBitArray
=============================================================================
