------------------------------- MODULE MCPmm -------------------------------
(* Small memory maps for module Pmm. *)
EXTENDS Pmm

Region_(type, base, length) == [base |-> base, length |-> length, type |-> type]
MCUsable(base, length) == Region_(1, base, length)
MCReserved(base, length) == Region_(2, base, length)

\* Blocks of 18 bytes, 9 blocks: the tables fill exactly 1 + 2 blocks, which
\* leaves blocks 3..5, 7 and 8 to serve.  The last block is usable, so that
\* runs may reach the block past the map.
SolidMap == <<MCUsable(18, 108), MCReserved(126, 18), MCUsable(144, 36)>>

\* Blocks of 16 bytes, 9 blocks: the tables take 54 bytes, of which
\* pmm_alloc_ataddress reserves 1 + 2 whole blocks.  The reserved region is not
\* whole blocks, and a hole follows it.
UnevenMap == <<MCUsable(16, 96), MCReserved(112, 24), MCUsable(160, 32)>>

AnyPair == {0, 1} \X {0, 1}
PairsNotFree == AnyPair \ {<<0, 0>>}
=============================================================================
