------------------------------ MODULE PmmScan ------------------------------
(***************************************************************************)
(* kernel/mem/pmm.c: the loop of pmm_alloc, one iteration a step.          *)
(*                                                                         *)
(* Module Pmm takes the loop's answer from Takes and NoSpace of BlockMap,  *)
(* which say what it is (the first fit, or what was counted when the scan  *)
(* ended) and not how it is found.  Here the loop itself is shown to give  *)
(* that answer, for every content of the bitmap and every amount.          *)
(***************************************************************************)
EXTENDS BlockMap

CONSTANT Amounts    \* the sizes asked for, in Nat

VARIABLES
  bits, amount,             \* the bitmap and the argument, fixed
  i, start, end, amnt,      \* the locals of pmm_alloc
  f_free_section,
  scanning                  \* FALSE once the loop is left

args == <<bits, amount>>
vars == <<bits, amount, i, start, end, amnt, f_free_section, scanning>>

TypeOK ==
  /\ bits \in [Block -> BitPair]
  /\ amount \in Amounts
  /\ i \in 0..(Entries + 1)
  /\ start \in Scanned
  /\ end \in Scanned
  /\ amnt \in Nat
  /\ f_free_section \in BOOLEAN
  /\ scanning \in BOOLEAN

Init ==
  /\ bits \in [Block -> {Code(FREE), Code(UNUSABLE), Code(IN_USE)}]
  /\ amount \in Amounts
  /\ i = 0 /\ start = 0 /\ end = 0 /\ amnt = 0
  /\ f_free_section = FALSE
  /\ scanning = TRUE

\* Fault: the start of the run is not kept while the run grows.
CountFreeMovingStart ==
  /\ start' = i
  /\ f_free_section' = TRUE
  /\ end' = i
  /\ amnt' = amnt + BLOCK_SIZE

CountFree ==
  /\ start' = IF f_free_section THEN start ELSE i
  /\ f_free_section' = TRUE
  /\ end' = i
  /\ amnt' = amnt + BLOCK_SIZE

\* Fault: the bytes counted survive the end of the run.
StartOverKeepingAmount ==
  /\ start' = 0
  /\ f_free_section' = FALSE
  /\ amnt' = amnt
  /\ end' = 0

StartOver ==
  /\ start' = 0
  /\ f_free_section' = FALSE
  /\ amnt' = 0
  /\ end' = 0

\* The loop condition i <= entries, and the break once there is enough.
KeepsOn == i <= Entries /\ amnt < amount

\* Fault: i does not advance past a block that is not free.
ExamineStuck ==
  /\ scanning
  /\ KeepsOn
  /\ IF GetBlock(bits, i) = FREE THEN CountFree ELSE StartOver
  /\ i' = IF GetBlock(bits, i) = FREE THEN i + 1 ELSE i
  /\ UNCHANGED <<args, scanning>>

Examine ==
  /\ scanning
  /\ KeepsOn
  /\ IF GetBlock(bits, i) = FREE THEN CountFree ELSE StartOver
  /\ i' = i + 1
  /\ UNCHANGED <<args, scanning>>

Leave ==
  /\ scanning
  /\ ~KeepsOn
  /\ scanning' = FALSE
  /\ UNCHANGED <<args, i, start, end, amnt, f_free_section>>

Next == Examine \/ Leave

\* The loop is straight-line code: it runs on.
Spec == Init /\ [][Next]_vars /\ WF_vars(Next)

\* The scan ends for every bitmap and every amount.
Ends == <>~scanning

-----------------------------------------------------------------------------
(* The invariant of the loop, for the proof.                               *)

\* What has been counted is the free run that ends just before i and cannot
\* be extended to the left.
Counted ==
  IF f_free_section
  THEN /\ start <= end
       /\ end = i - 1
       /\ amnt = (end - start + 1) * BLOCK_SIZE
       /\ amount > 0 /\ amnt - BLOCK_SIZE < amount
       /\ AllFree(bits, start..end)
       /\ start > 0 => GetBlock(bits, start - 1) # FREE
  ELSE /\ start = 0 /\ end = 0 /\ amnt = 0
       /\ i > 0 => GetBlock(bits, i - 1) # FREE

\* Among the blocks before i, the run wanted begins at start at the earliest.
NoneEarlier ==
  amount > 0 =>
    \A t \in Scanned :
      t + Need(amount) <= i /\ AllFree(bits, Run(t, Need(amount)))
        => f_free_section /\ start <= t

LoopInv == TypeOK /\ Counted /\ NoneEarlier /\ (~scanning => ~KeepsOn)
=============================================================================
