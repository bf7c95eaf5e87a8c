-------------------------------- MODULE Pmm ---------------------------------
(***************************************************************************)
(* kernel/mem/pmm.c: the physical memory manager.                          *)
(*                                                                         *)
(* pmmInit counts the blocks of the boot loader's memory map, puts two     *)
(* tables into the first usable region that holds them (the bitmap, and    *)
(* block_entries, which remembers how long each allocation is), marks      *)
(* every block and takes the tables' own blocks out of circulation.        *)
(* pmm_alloc, pmm_realloc and pmm_free then serve the kernel.  pmm_calloc  *)
(* changes the allocator's state as pmm_alloc does.  No interrupt handler  *)
(* allocates, so a call is one step.                                       *)
(*                                                                         *)
(* owner and asked are history: what the callers believe they hold.        *)
(***************************************************************************)
EXTENDS BlockMap, Sequences

CONSTANTS
  MemMap,      \* the memory map: a sequence of [base, length, type]
  StaleBits,   \* what the two bits of a block may be before SetBlock
  StaleEntry,  \* what block_entries holds before it is written
  Amounts      \* the sizes callers ask for, in bytes

VARIABLES
  phase,          \* "boot", then "ready" or "halted" (kernel_error)
  bits,           \* the bitmap, a pair of bits for each block
  block_entries,  \* the length of the allocation that starts at each block
  owner,          \* the first block of the allocation a caller has it in
  asked,          \* the bytes the live allocation starting there was to have
  result          \* the last call: its kind, the bytes asked for, and the
                  \* block whose address it returned, or NULL

vars == <<phase, bits, block_entries, owner, asked, result>>

Nobody == -1
NULL == -1
USABLE == 1     \* the memory map's type for memory the kernel may use
SIZEOF_U32 == 4

-----------------------------------------------------------------------------
(* The memory map.                                                         *)
Region == 1..Len(MemMap)

\* The blocks counted before each region: numbers run over the regions in
\* order, whatever lies between their addresses.
BlocksBefore[i \in 1..(Len(MemMap) + 1)] ==
  IF i = 1 THEN 0
  ELSE BlocksBefore[i - 1] + MemMap[i - 1].length \div BLOCK_SIZE

start_address == MemMap[1].base

\* pmm_alloc turns a block number into an address, address2blockoffset turns
\* an address into a block number; each has its own idea of where block 0 is.
AddressOf(block) == start_address + block * BLOCK_SIZE
address2blockoffset(addr) == addr \div BLOCK_SIZE - 1

MarkedUsable(block) ==
  \E i \in Region : /\ MemMap[i].type = USABLE
                    /\ BlocksBefore[i] <= block
                    /\ block < BlocksBefore[i + 1]

\* The regions that have room for the two tables, and the one taken.
Hosts == {i \in Region : /\ Entries * 2 + Entries * SIZEOF_U32 < MemMap[i].length
                         /\ MemMap[i].type = USABLE}
Host == CHOOSE i \in Hosts : \A j \in Hosts : i <= j

BitmapBytes == Entries * 2
TableBytes == Entries * SIZEOF_U32
BitmapAt == MemMap[Host].base
TableAt == MemMap[Host].base + BitmapBytes

\* The blocks pmm_alloc_ataddress works on, whole blocks only.
BlocksAt(addr, amount) == Run(address2blockoffset(addr), amount \div BLOCK_SIZE)

\* The boot loader's numbers are unsigned.
ASSUME MapTyped == MemMap \in Seq([base : Nat, length : Nat, type : Nat])

\* The map begins with the second page of memory, as address2blockoffset takes
\* for granted ("take off 1"), and the bits looked at are those of Block.
ASSUME MapAssumption ==
  /\ Entries = BlocksBefore[Len(MemMap) + 1]
  /\ start_address = BLOCK_SIZE
  /\ Hosts # {} =>
       /\ address2blockoffset(BitmapAt) \in Block
       /\ address2blockoffset(TableAt) \in Block
       /\ BlocksAt(BitmapAt, BitmapBytes) \subseteq Block
       /\ BlocksAt(TableAt, TableBytes) \subseteq Block
  /\ StaleBits \subseteq BitPair
  /\ StaleEntry \in Nat
  /\ Amounts \subseteq Nat

-----------------------------------------------------------------------------
Answer ==
  {"none", "alloc", "realloc", "free"} \X (Amounts \cup {0}) \X (Block \cup {NULL})

TypeOK ==
  /\ phase \in {"boot", "ready", "halted"}
  /\ bits \in [Block -> BitPair]
  /\ block_entries \in [Block -> Nat]
  /\ owner \in [Block -> Block \cup {Nobody}]
  /\ asked \in [Block -> Nat]
  /\ result \in Answer

\* pmmInit writes the bits of every block of the map before it reads any, so
\* only those past the map keep what the memory held.
Init ==
  /\ phase = "boot"
  /\ bits \in {[i \in Block |-> IF i < Entries THEN <<0, 0>> ELSE stale[i]] :
                 stale \in [Entries..Top -> StaleBits]}
  /\ block_entries = [i \in Block |-> StaleEntry]
  /\ owner = [i \in Block |-> Nobody]
  /\ asked = [i \in Block |-> 0]
  /\ result = <<"none", 0, NULL>>

-----------------------------------------------------------------------------
\* The bits after pmmInit has marked every block of the map.
Marked == [i \in Block |->
             IF i >= Entries THEN bits[i]
             ELSE IF MarkedUsable(i) THEN Code(FREE) ELSE Code(UNUSABLE)]

\* pmm_alloc_ataddress gives up when a block of the run is not free; then it
\* leaves the tables alone.
CanReserve(b, addr, amount) == AllFree(b, BlocksAt(addr, amount))

\* Fault: the blocks are marked FREE, as the comment in the loop has it.
ReserveMarkingFree(b, addr, amount, value) ==
  IF CanReserve(b, addr, amount)
  THEN SetBlocks(b, BlocksAt(addr, amount), FREE) ELSE b

Reserve(b, addr, amount, value) ==
  IF CanReserve(b, addr, amount)
  THEN SetBlocks(b, BlocksAt(addr, amount), value) ELSE b

ReserveEntry(e, b, addr, amount) ==
  IF CanReserve(b, addr, amount)
  THEN [e EXCEPT ![address2blockoffset(addr)] = amount \div BLOCK_SIZE] ELSE e

pmmInit ==
  /\ phase = "boot"
  /\ UNCHANGED <<owner, asked, result>>
  /\ IF Hosts = {}
     THEN /\ phase' = "halted"
          /\ UNCHANGED <<bits, block_entries>>
     ELSE LET bitmapTaken == Reserve(Marked, BitmapAt, BitmapBytes, UNUSABLE)
          IN  /\ bits' = Reserve(bitmapTaken, TableAt, TableBytes, UNUSABLE)
              /\ block_entries' =
                   ReserveEntry(
                     ReserveEntry(block_entries, Marked, BitmapAt, BitmapBytes),
                     bitmapTaken, TableAt, TableBytes)
              /\ phase' = IF /\ CanReserve(Marked, BitmapAt, BitmapBytes)
                             /\ CanReserve(bitmapTaken, TableAt, TableBytes)
                          THEN "ready" ELSE "halted"

-----------------------------------------------------------------------------
Live == {s \in Block : asked[s] > 0}

\* Faults: one block too few, one too many.
FreedRunShort(e, s) ==
  LET block == address2blockoffset(AddressOf(s)) IN Run(block, e[block] - 1)
FreedRunLong(e, s) ==
  LET block == address2blockoffset(AddressOf(s)) IN Run(block, e[block] + 1)

\* The blocks pmm_free gives back for the address of block s.
FreedRun(e, s) ==
  LET block == address2blockoffset(AddressOf(s)) IN Run(block, e[block])

\* The callers' view: an allocation takes its run, a free ends it.
Holding(own, s, n) ==
  [i \in Block |-> IF i \in Run(s, n) THEN s ELSE own[i]]
Released(own, p) == [i \in Block |-> IF own[i] = p THEN Nobody ELSE own[i]]

\* pmm_alloc: takes the run the scan settles on, or returns NULL.  The entry of
\* block number Entries lies behind the table: it is taken to be a cell that
\* nobody else writes.
pmm_alloc(amount) ==
  /\ phase = "ready"
  /\ UNCHANGED phase
  /\ \/ \E s \in Scanned : \E n \in 1..(Entries + 1) :
          /\ Takes(bits, amount, s, n)
          /\ bits' = SetBlocks(bits, Run(s, n), IN_USE)
          /\ block_entries' = [block_entries EXCEPT ![s] = n]
          /\ owner' = Holding(owner, s, n)
          /\ asked' = [asked EXCEPT ![s] = amount]
          /\ result' = <<"alloc", amount, s>>
     \/ /\ NoSpace(bits, amount)
        /\ result' = <<"alloc", amount, NULL>>
        /\ UNCHANGED <<bits, block_entries, owner, asked>>

\* pmm_free, of a live allocation: nothing in the code stops another call, but
\* no caller frees twice.  The entry of block_entries is left as it was.
pmm_free(p) ==
  /\ phase = "ready"
  /\ p \in Live
  /\ bits' = SetBlocks(bits, FreedRun(block_entries, p), FREE)
  /\ owner' = Released(owner, p)
  /\ asked' = [asked EXCEPT ![p] = 0]
  /\ result' = <<"free", 0, NULL>>
  /\ UNCHANGED <<phase, block_entries>>

\* pmm_realloc frees the old run whether or not there is a new one.
pmm_realloc(p, amount) ==
  /\ phase = "ready"
  /\ p \in Live
  /\ UNCHANGED phase
  /\ \/ \E s \in Scanned : \E n \in 1..(Entries + 1) :
          /\ Takes(bits, amount, s, n)
          /\ block_entries' = [block_entries EXCEPT ![s] = n]
          /\ bits' = SetBlocks(SetBlocks(bits, Run(s, n), IN_USE),
                               FreedRun(block_entries', p), FREE)
          /\ owner' = Released(Holding(owner, s, n), p)
          /\ asked' = [asked EXCEPT ![s] = amount, ![p] = 0]
          /\ result' = <<"realloc", amount, s>>
     \/ /\ NoSpace(bits, amount)
        /\ bits' = SetBlocks(bits, FreedRun(block_entries, p), FREE)
        /\ owner' = Released(owner, p)
        /\ asked' = [asked EXCEPT ![p] = 0]
        /\ result' = <<"realloc", amount, NULL>>
        /\ UNCHANGED block_entries

Next ==
  \/ pmmInit
  \/ \E amount \in Amounts : pmm_alloc(amount)
  \/ \E p \in Block : pmm_free(p)
  \/ \E p \in Block, amount \in Amounts : pmm_realloc(p, amount)

Spec == Init /\ [][Next]_vars

-----------------------------------------------------------------------------
(* What should never go wrong.                                             *)

\* Whatever a caller holds is marked IN_USE, so that a later pmm_alloc cannot
\* hand it out again.
HeldIsInUse ==
  \A i \in Block : owner[i] # Nobody => GetBlock(bits, i) = IN_USE

\* No block of memory is lost: what is marked IN_USE is held by a live
\* allocation, through every sequence of pmm_alloc, pmm_realloc and pmm_free.
NothingLeaks ==
  \A i \in Block :
    i < Entries /\ GetBlock(bits, i) = IN_USE => owner[i] # Nobody

\* block_entries, which pmm_free trusts and which nothing resets, still gives
\* the exact extent of every live allocation; no later one has cut into it.
ExtentsKept ==
  /\ \A i \in Block : owner[i] # Nobody => owner[i] \in Live
  /\ \A s \in Live :
       /\ block_entries[s] > 0
       /\ {i \in Block : owner[i] = s} = Run(s, block_entries[s])

\* pmm_alloc hands out less than was asked for only when the run ends in the
\* block past the map.
ShortOnlyPastTheMap ==
  \A s \in Live :
    block_entries[s] * BLOCK_SIZE < asked[s] => owner[Entries] = s

\* Memory the map does not give to the kernel is never marked anything else.
ForeignUntouched ==
  phase = "ready" =>
    \A i \in Block :
      i < Entries /\ ~MarkedUsable(i) => GetBlock(bits, i) = UNUSABLE

-----------------------------------------------------------------------------
(* Numbers and addresses.  Blocks are numbered by counting, but addressed  *)
(* as if each region began where the blocks of the one before it end.      *)

\* Where the blocks counted in region i end.
BlocksEnd(i) == MemMap[i].base + BLOCK_SIZE * (MemMap[i].length \div BLOCK_SIZE)

\* The bytes that lie before region r and are in no block: the holes between
\* the regions, and what is left of a region that is not whole blocks.
Skipped[i \in Region] ==
  IF i = 1 THEN 0 ELSE Skipped[i - 1] + (MemMap[i].base - BlocksEnd(i - 1))

\* A block in a caller's hands stands for a whole block of memory the map says
\* is usable, and its address misses that block by the bytes skipped before it
\* and by nothing else: exactly right before the first hole, whatever was
\* allocated and freed.
HandsOutUsableMemory ==
  \A i \in Block :
    i < Entries /\ owner[i] # Nobody =>
      \E r \in Region :
        LET at == AddressOf(i) + Skipped[r]
        IN  /\ MemMap[r].type = USABLE
            /\ MemMap[r].base <= at
            /\ at + BLOCK_SIZE <= MemMap[r].base + MemMap[r].length

\* The bytes [from, from + length) meet no byte of block i as its holder
\* addresses it.
Clear(i, from, length) ==
  \/ AddressOf(i) + BLOCK_SIZE <= from
  \/ from + length <= AddressOf(i)

\* No caller is given a block in which the bitmap or block_entries lie (the
\* purpose of pmm_alloc_ataddress).
TablesNotHandedOut ==
  \A i \in Block :
    owner[i] # Nobody =>
      /\ Clear(i, BitmapAt, BitmapBytes)
      /\ Clear(i, TableAt, TableBytes)

\* How much of the end of a table pmm_alloc_ataddress leaves out: it rounds the
\* address down to a block, and the amount too.
CutOff(addr, amount) == (addr % BLOCK_SIZE) + (amount % BLOCK_SIZE)

\* All the rest of the two tables stays out of every caller's hands.
TablesKept ==
  \A i \in Block :
    owner[i] # Nobody =>
      /\ Clear(i, BitmapAt, BitmapBytes - CutOff(BitmapAt, BitmapBytes))
      /\ Clear(i, TableAt, TableBytes - CutOff(TableAt, TableBytes))

\* Every live allocation has at least the bytes its caller asked for.  (So it
\* is while the bits past the map do not happen to read FREE.)
AllocationsCover ==
  \A s \in Live : block_entries[s] * BLOCK_SIZE >= asked[s]

\* The allocator keeps the promise of module Heap.
Served ==
  {i \in Block : /\ i < Entries
                 /\ MarkedUsable(i)
                 /\ i \notin BlocksAt(BitmapAt, BitmapBytes)
                 /\ i \notin BlocksAt(TableAt, TableBytes)}

KernelHeap == INSTANCE Heap

RefinesHeap == KernelHeap!Spec
=============================================================================
