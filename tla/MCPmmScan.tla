----------------------------- MODULE MCPmmScan -----------------------------
(* Every bitmap of 4 blocks and the block past them, for the loop of          *)
(* pmm_alloc.                                                                 *)
EXTENDS Loop

\* Up to one block more than there are, at both ends of a block.
MCAmounts == 0..(2 * (Entries + 2))
=============================================================================
