------------------------------ MODULE BlockMap ------------------------------
(***************************************************************************)
(* kernel/mem/pmm.c: what the allocator knows of each block of memory, two *)
(* bits a block, and the choice pmm_alloc makes from them.                 *)
(*                                                                         *)
(* Module BitMap shows that the bits of libs/bitmap.c are independent of   *)
(* one another, so they are kept here as a pair for each block.            *)
(***************************************************************************)
EXTENDS Integers

CONSTANTS
  BLOCK_SIZE,   \* bytes in a block (a page)
  Entries,      \* bitmap_.entries, the number of blocks of the memory map
  Top           \* the highest block number whose bits are ever looked at

\* The scan of pmm_alloc ends at i = entries, one block past the last: the
\* bits of that block exist, but pmmInit gives them no value.
ASSUME BlockAssumption ==
  /\ BLOCK_SIZE \in Nat \ {0}
  /\ Entries \in Nat \ {0}
  /\ Top \in Nat
  /\ Entries <= Top

Block == 0..Top
Scanned == 0..Entries

FREE == 0
UNUSABLE == 1
IN_USE == 2

BitPair == {0, 1} \X {0, 1}

\* The bits SetBlock writes for a value.
Code(value) ==
  CASE value = FREE     -> <<0, 0>>
    [] value = UNUSABLE -> <<1, 0>>
    [] value = IN_USE   -> <<1, 1>>

\* SetBlock over a run of blocks.
SetBlocks(bits, run, value) ==
  [i \in Block |-> IF i \in run THEN Code(value) ELSE bits[i]]

\* The sum of the two bits is the enumerator itself: FREE, UNUSABLE, IN_USE.
GetBlock(bits, i) == bits[i][1] + bits[i][2]

-----------------------------------------------------------------------------
\* Fault: rounded down.
NeedRoundedDown(amount) == amount \div BLOCK_SIZE

\* The blocks that amount bytes take, rounded up.
Need(amount) == (amount + BLOCK_SIZE - 1) \div BLOCK_SIZE

\* The n blocks from s on.
Run(s, n) == s..(s + n - 1)

\* Fault: any value but IN_USE counts as free.
AllFreeOrUnusable(bits, run) == \A i \in run : GetBlock(bits, i) # IN_USE

\* Fault: only the first block of a run is looked at.
AllFreeFirst(bits, run) ==
  \A i \in run : (\A j \in run : i <= j) => GetBlock(bits, i) = FREE

AllFree(bits, run) == \A i \in run : GetBlock(bits, i) = FREE

\* The places where n free blocks in a row begin, among the blocks scanned.
Fits(bits, n) ==
  {s \in Scanned : s + n - 1 <= Entries /\ AllFree(bits, Run(s, n))}

\* The places from which every block is free up to the end of the scan.
Tails(bits) == {s \in Scanned : AllFree(bits, s..Entries)}

First(s, places) == s \in places /\ \A t \in places : s <= t

\* The scan of pmm_alloc settles on the n blocks from s on: the first fit, or,
\* when nothing fits, the free blocks it was counting when it reached its end.
Takes(bits, amount, s, n) ==
  /\ amount > 0
  /\ \/ /\ n = Need(amount)
        /\ First(s, Fits(bits, n))
     \/ /\ n = Entries - s + 1
        /\ First(s, Tails(bits))
        /\ Fits(bits, Need(amount)) = {}

\* No block is left counted when the scan ends: pmm_alloc returns NULL.
NoSpace(bits, amount) ==
  \/ amount = 0
  \/ Fits(bits, Need(amount)) = {} /\ Tails(bits) = {}
=============================================================================
