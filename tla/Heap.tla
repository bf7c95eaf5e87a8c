-------------------------------- MODULE Heap --------------------------------
(***************************************************************************)
(* What the clients of kernel/mem/pmm.c count on: a request is given a run *)
(* of blocks that is long enough and no longer than needed, that nobody    *)
(* else holds, and that comes back when it is freed; NULL says that no     *)
(* such run was left.  Which run is chosen is not promised.                *)
(***************************************************************************)
EXTENDS Integers

CONSTANTS
  Block,        \* block numbers, an initial segment of the naturals
  Served,       \* the blocks the allocator may hand out
  BLOCK_SIZE,   \* bytes in a block
  Amounts       \* the sizes clients ask for

Nobody == -1
NULL == -1

VARIABLES
  owner,    \* for each block, the first block of the allocation that holds it
  asked,    \* for each block, the bytes asked for by the allocation starting
            \* there, 0 when none does
  result    \* the last call: its kind, the bytes asked for, and the block
            \* it returned, or NULL

vars == <<owner, asked, result>>

Live == {s \in Block : asked[s] > 0}

\* Runs that satisfy a request given who owns what.
Suits(own, amount, s, n) ==
  /\ n * BLOCK_SIZE >= amount
  /\ (n - 1) * BLOCK_SIZE < amount
  /\ amount > 0
  /\ \A i \in s..(s + n - 1) : i \in Served /\ own[i] = Nobody

NoneSuits(own, amount) ==
  \A s \in Block, n \in Block : ~Suits(own, amount, s, n)

Holding(own, s, n) ==
  [i \in Block |-> IF i \in s..(s + n - 1) THEN s ELSE own[i]]

Released(own, p) == [i \in Block |-> IF own[i] = p THEN Nobody ELSE own[i]]

Init ==
  /\ owner = [i \in Block |-> Nobody]
  /\ asked = [i \in Block |-> 0]
  /\ result = <<"none", 0, NULL>>

Alloc(amount) ==
  \/ \E s, n \in Block :
       /\ Suits(owner, amount, s, n)
       /\ owner' = Holding(owner, s, n)
       /\ asked' = [asked EXCEPT ![s] = amount]
       /\ result' = <<"alloc", amount, s>>
  \/ /\ NoneSuits(owner, amount)
     /\ result' = <<"alloc", amount, NULL>>
     /\ UNCHANGED <<owner, asked>>

Free(p) ==
  /\ owner' = Released(owner, p)
  /\ asked' = [asked EXCEPT ![p] = 0]
  /\ result' = <<"free", 0, NULL>>

\* The old run goes back even when no new one is found.
Realloc(p, amount) ==
  \/ \E s, n \in Block :
       /\ Suits(owner, amount, s, n)
       /\ owner' = Released(Holding(owner, s, n), p)
       /\ asked' = [asked EXCEPT ![s] = amount, ![p] = 0]
       /\ result' = <<"realloc", amount, s>>
  \/ /\ NoneSuits(owner, amount)
     /\ owner' = Released(owner, p)
     /\ asked' = [asked EXCEPT ![p] = 0]
     /\ result' = <<"realloc", amount, NULL>>

Next ==
  \/ \E amount \in Amounts : Alloc(amount)
  \/ \E p \in Live : Free(p) \/ \E amount \in Amounts : Realloc(p, amount)

Spec == Init /\ [][Next]_vars
=============================================================================
