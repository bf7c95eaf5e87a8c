-------------------------------- MODULE Loop --------------------------------
(***************************************************************************)
(* The loop of pmm_alloc (PmmScan) on a bitmap of its own, with names that *)
(* leave room for those of the allocator it belongs to: the proofs speak   *)
(* of the two together.                                                    *)
(***************************************************************************)
EXTENDS BlockMap

CONSTANT LoopAmounts    \* the sizes asked for

ASSUME LoopAssumption == LoopAmounts \subseteq Nat

VARIABLES
  loop_bits, loop_amount,
  loop_i, loop_start, loop_end, loop_amnt, loop_free,
  looping

Scan == INSTANCE PmmScan WITH
  Amounts <- LoopAmounts, bits <- loop_bits, amount <- loop_amount,
  i <- loop_i, start <- loop_start, end <- loop_end, amnt <- loop_amnt,
  f_free_section <- loop_free, scanning <- looping

LoopSpec == Scan!Spec

-----------------------------------------------------------------------------
\* When the loop is left, start and end delimit the run that Takes of BlockMap
\* describes, and nothing was counted exactly when NoSpace holds (pmm_alloc
\* then returns NULL).
AnswerRight ==
  ~looping => IF loop_amnt = 0 THEN NoSpace(loop_bits, loop_amount)
              ELSE Takes(loop_bits, loop_amount, loop_start,
                         loop_end - loop_start + 1)

\* What has been counted is the free run that ends just before i, and among the
\* blocks before i the run wanted begins nowhere before start.
LoopInv == Scan!LoopInv

\* The scan ends for every bitmap and every amount.
Ends == Scan!Ends
=============================================================================
