----------------------------- MODULE Pmm_proofs -----------------------------
(***************************************************************************)
(* The safety of the physical memory manager, for every memory map, block  *)
(* size and sequence of calls.                                             *)
(*                                                                         *)
(* Then the loop of pmm_alloc (module PmmScan): it gives the answer        *)
(* BlockMap describes, for every block size, number of blocks, bitmap and  *)
(* amount.  Last the bitmap itself (module BitMap): its words implement an *)
(* array of independent bits, for every set of bit numbers.                *)
(***************************************************************************)
EXTENDS Pmm, Loop, Words, SequenceTheorems, ArithmeticLemmas

-----------------------------------------------------------------------------
(* What the operators of BlockMap return.                                  *)

\* Need rounds up: fewer blocks are too few bytes, as many are enough.
LEMMA NeedCovers ==
  ASSUME NEW a \in Nat, NEW n \in Nat
  PROVE  /\ Need(a) \in Nat
         /\ a > 0 => Need(a) > 0
         /\ n * BLOCK_SIZE >= a <=> n >= Need(a)
BY RoundsUp, BlockAssumption DEF Need

\* A block of a run reads as it was set, every other as it did.
LEMMA SetGet ==
  ASSUME NEW b, NEW run, NEW value \in {FREE, UNUSABLE, IN_USE}, NEW i \in Block
  PROVE  GetBlock(SetBlocks(b, run, value), i) =
           IF i \in run THEN value ELSE GetBlock(b, i)
BY DEF GetBlock, SetBlocks, Code, FREE, UNUSABLE, IN_USE

LEMMA SetBlocksType ==
  ASSUME NEW b \in [Block -> BitPair], NEW run, NEW value \in {FREE, UNUSABLE, IN_USE}
  PROVE  SetBlocks(b, run, value) \in [Block -> BitPair]
<1>1. Code(value) \in BitPair
  BY DEF Code, BitPair, FREE, UNUSABLE, IN_USE
<1>. QED
  BY <1>1 DEF SetBlocks

\* What pmm_alloc settles on is free, lies among the blocks it scanned, and is
\* too short only if it ends where the scan ends.
LEMMA TakesFacts ==
  ASSUME NEW b, NEW a \in Nat, NEW s \in Scanned, NEW n \in 1..(Entries + 1),
         Takes(b, a, s, n)
  PROVE  /\ a > 0
         /\ s \in Nat /\ n \in Nat /\ n >= 1
         /\ s + n - 1 <= Entries
         /\ Run(s, n) \subseteq Block
         /\ AllFree(b, Run(s, n))
         /\ n * BLOCK_SIZE < a => Entries \in Run(s, n)
<1>. USE BlockAssumption
<1>1. s \in Nat /\ n \in Nat /\ n >= 1 /\ a > 0
  BY DEF Scanned, Takes
<1>2. CASE n = Need(a) /\ First(s, Fits(b, n))
  <2>1. s + n - 1 <= Entries /\ AllFree(b, Run(s, n))
    BY <1>2 DEF First, Fits
  <2>2. n * BLOCK_SIZE >= a
    BY <1>1, <1>2, NeedCovers
  <2>3. ~(n * BLOCK_SIZE < a)
    BY <1>1, <2>2
  <2>. QED
    BY <1>1, <2>1, <2>3 DEF Run, Block
<1>3. CASE n = Entries - s + 1 /\ First(s, Tails(b))
  <2>1. Run(s, n) = s..Entries
    BY <1>1, <1>3 DEF Run
  <2>2. AllFree(b, Run(s, n))
    BY <1>3, <2>1 DEF First, Tails
  <2>3. s <= Entries /\ s + n - 1 <= Entries
    BY <1>3 DEF Scanned
  <2>. QED
    BY <1>1, <2>1, <2>2, <2>3 DEF Block
<1>. QED
  BY <1>2, <1>3 DEF Takes

-----------------------------------------------------------------------------
(* The invariant.                                                          *)

\* The records of the allocator and of its callers agree.  The parameters are
\* the bitmap, block_entries, owner and asked: pmm_realloc is pmm_alloc and
\* then pmm_free, and needs the state in between.
Typed(b, e, own, ask) ==
  /\ b \in [Block -> BitPair]
  /\ e \in [Block -> Nat]
  /\ own \in [Block -> Block \cup {Nobody}]
  /\ ask \in [Block -> Nat]

Marks(b, own) ==
  \A i \in Block :
    /\ own[i] # Nobody => GetBlock(b, i) = IN_USE
    /\ i < Entries /\ GetBlock(b, i) = IN_USE => own[i] # Nobody
    /\ i < Entries /\ ~MarkedUsable(i) => GetBlock(b, i) = UNUSABLE

Extents(e, own, ask) ==
  /\ \A i \in Block : own[i] # Nobody => ask[own[i]] > 0
  /\ \A s \in Block : ask[s] > 0 =>
       /\ e[s] > 0
       /\ \A i \in Block : own[i] = s <=> i \in Run(s, e[s])
       /\ Run(s, e[s]) \subseteq Block
       /\ e[s] * BLOCK_SIZE < ask[s] => own[Entries] = s

Agree(b, e, own, ask) ==
  Typed(b, e, own, ask) /\ Marks(b, own) /\ Extents(e, own, ask)

\* The inductive invariant: before pmmInit nobody holds anything, and after it
\* the records agree.
IInv ==
  /\ TypeOK
  /\ Agree(bits, block_entries, owner, asked) \/ phase # "ready"
  /\ phase # "ready" =>
       /\ owner = [i \in Block |-> Nobody]
       /\ asked = [i \in Block |-> 0]
       /\ \A i \in Block : i < Entries => GetBlock(bits, i) # IN_USE

LEMMA BlockFacts ==
  /\ BLOCK_SIZE \in Nat /\ BLOCK_SIZE > 0
  /\ Entries \in Nat /\ Top \in Nat /\ Entries <= Top
  /\ Entries \in Block
  /\ \A i \in Block : i \in Nat /\ i # Nobody
BY BlockAssumption DEF Block, Nobody

\* address2blockoffset undoes the address computation of pmm_alloc.
LEMMA AddressInverse ==
  ASSUME NEW s \in Nat
  PROVE  address2blockoffset(AddressOf(s)) = s
<1>1. BLOCK_SIZE \in Nat /\ BLOCK_SIZE > 0 /\ s + 1 \in Int
  BY BlockFacts
<1>2. AddressOf(s) = (s + 1) * BLOCK_SIZE
  BY <1>1, MapAssumption DEF AddressOf
<1>3. AddressOf(s) \div BLOCK_SIZE = s + 1
  BY <1>1, <1>2, DivMultiple
<1>. QED
  BY <1>3 DEF address2blockoffset

-----------------------------------------------------------------------------
(* The two moves every call is made of.                                    *)

\* Taking the run the scan settles on keeps the records in agreement.
LEMMA GrabKeeps ==
  ASSUME NEW b, NEW e, NEW own, NEW ask, Agree(b, e, own, ask),
         NEW a \in Nat, NEW s \in Scanned, NEW n \in 1..(Entries + 1),
         Takes(b, a, s, n)
  PROVE  Agree(SetBlocks(b, Run(s, n), IN_USE), [e EXCEPT ![s] = n],
               Holding(own, s, n), [ask EXCEPT ![s] = a])
<1>. DEFINE run == Run(s, n)
            b2 == SetBlocks(b, run, IN_USE)
            e2 == [e EXCEPT ![s] = n]
            own2 == Holding(own, s, n)
            ask2 == [ask EXCEPT ![s] = a]
<1>1. /\ a > 0 /\ s \in Nat /\ n \in Nat /\ n >= 1
      /\ run \subseteq Block /\ AllFree(b, run)
      /\ n * BLOCK_SIZE < a => Entries \in run
  BY TakesFacts
<1>2. Typed(b, e, own, ask) /\ Marks(b, own) /\ Extents(e, own, ask)
  BY DEF Agree
<1>3. s \in run /\ s \in Block
  BY <1>1 DEF Run
<1>4. /\ \A i \in Block : own2[i] = IF i \in run THEN s ELSE own[i]
      /\ \A i \in Block : e2[i] = IF i = s THEN n ELSE e[i]
      /\ \A i \in Block : ask2[i] = IF i = s THEN a ELSE ask[i]
  BY <1>2 DEF Holding, Typed
<1>5. \A i \in Block : GetBlock(b2, i) = IF i \in run THEN IN_USE ELSE GetBlock(b, i)
  BY SetGet
<1>6. \A i \in run : GetBlock(b, i) = FREE /\ own[i] = Nobody
  BY <1>1, <1>2 DEF AllFree, Marks, FREE, IN_USE
<1>7. Typed(b2, e2, own2, ask2)
  <2>1. b2 \in [Block -> BitPair]
    BY <1>2, SetBlocksType DEF Typed
  <2>2. own2 \in [Block -> Block \cup {Nobody}]
    BY <1>2, <1>3 DEF Typed, Holding
  <2>3. e2 \in [Block -> Nat] /\ ask2 \in [Block -> Nat]
    BY <1>1, <1>2, <1>3 DEF Typed
  <2>. QED
    BY <2>1, <2>2, <2>3 DEF Typed
<1>. HIDE DEF run, b2, e2, own2, ask2
<1>8. Marks(b2, own2)
  BY <1>2, <1>3, <1>4, <1>5, <1>6, BlockFacts DEF Marks, FREE, UNUSABLE, IN_USE
<1>9. ask[s] = 0 /\ \A i \in Block : own[i] # s
  <2>1. ASSUME ask[s] > 0 PROVE FALSE
    <3>1. e[s] > 0 /\ e[s] \in Nat /\ (own[s] = s <=> s \in Run(s, e[s]))
      BY <1>2, <1>3, <2>1 DEF Extents, Typed
    <3>2. own[s] = s
      BY <1>1, <3>1 DEF Run
    <3>. QED
      BY <1>3, <1>6, <3>2, BlockFacts
  <2>2. ask[s] \in Nat
    BY <1>2, <1>3 DEF Typed
  <2>3. ask[s] = 0
    BY <2>1, <2>2
  <2>4. ASSUME NEW i \in Block, own[i] = s PROVE FALSE
    BY <1>2, <1>3, <2>3, <2>4, BlockFacts DEF Extents
  <2>. QED
    BY <2>3, <2>4
<1>10. Extents(e2, own2, ask2)
  <2>1. ASSUME NEW i \in Block, own2[i] # Nobody PROVE ask2[own2[i]] > 0
    <3>1. CASE i \in run
      BY <1>1, <1>3, <1>4, <3>1
    <3>2. CASE i \notin run
      <4>1. own[i] # Nobody /\ own2[i] = own[i]
        BY <1>4, <2>1, <3>2
      <4>2. own[i] \in Block /\ ask[own[i]] > 0 /\ own[i] # s
        BY <1>2, <1>9, <4>1 DEF Extents, Typed
      <4>. QED
        BY <1>4, <4>1, <4>2
    <3>. QED
      BY <3>1, <3>2
  <2>2. ASSUME NEW t \in Block, ask2[t] > 0
        PROVE  /\ e2[t] > 0
               /\ \A i \in Block : own2[i] = t <=> i \in Run(t, e2[t])
               /\ Run(t, e2[t]) \subseteq Block
               /\ e2[t] * BLOCK_SIZE < ask2[t] => own2[Entries] = t
    <3>1. CASE t = s
      <4>1. e2[t] = n /\ ask2[t] = a
        BY <1>4, <2>2, <3>1
      <4>. QED
        BY <1>1, <1>4, <1>9, <3>1, <4>1, BlockFacts DEF run
    <3>2. CASE t # s
      <4>1. e2[t] = e[t] /\ ask2[t] = ask[t] /\ ask[t] > 0
        BY <1>4, <2>2, <3>2
      <4>2. /\ e[t] > 0
            /\ \A i \in Block : own[i] = t <=> i \in Run(t, e[t])
            /\ Run(t, e[t]) \subseteq Block
            /\ e[t] * BLOCK_SIZE < ask[t] => own[Entries] = t
        BY <1>2, <4>1 DEF Extents
      <4>3. \A i \in Block : own2[i] = t <=> own[i] = t
        BY <1>4, <1>6, <2>2, <3>2, BlockFacts
      <4>. QED
        BY <4>1, <4>2, <4>3, BlockFacts
    <3>. QED
      BY <3>1, <3>2
  <2>. QED
    BY <2>1, <2>2 DEF Extents
<1>. QED
  BY <1>7, <1>8, <1>10 DEF Agree, run, b2, e2, own2, ask2

\* pmm_free of a live allocation frees exactly the blocks its caller holds.
LEMMA FreesHeld ==
  ASSUME NEW b, NEW e, NEW own, NEW ask, Agree(b, e, own, ask),
         NEW p \in Block, ask[p] > 0
  PROVE  \A i \in Block : i \in FreedRun(e, p) <=> own[i] = p
<1>1. FreedRun(e, p) = Run(p, e[p])
  BY AddressInverse, BlockFacts DEF FreedRun
<1>. QED
  BY <1>1 DEF Agree, Extents

\* Freeing keeps the records in agreement.
LEMMA ReleaseKeeps ==
  ASSUME NEW b, NEW e, NEW own, NEW ask, Agree(b, e, own, ask),
         NEW p \in Block, ask[p] > 0
  PROVE  Agree(SetBlocks(b, FreedRun(e, p), FREE), e, Released(own, p),
               [ask EXCEPT ![p] = 0])
<1>. DEFINE run == FreedRun(e, p)
            b2 == SetBlocks(b, run, FREE)
            own2 == Released(own, p)
            ask2 == [ask EXCEPT ![p] = 0]
<1>1. Typed(b, e, own, ask) /\ Marks(b, own) /\ Extents(e, own, ask)
  BY DEF Agree
<1>3. \A i \in Block : i \in run <=> own[i] = p
  BY FreesHeld
<1>4. /\ \A i \in Block : own2[i] = IF own[i] = p THEN Nobody ELSE own[i]
      /\ \A i \in Block : ask2[i] = IF i = p THEN 0 ELSE ask[i]
  BY <1>1 DEF Released, Typed
<1>5. \A i \in Block : GetBlock(b2, i) = IF i \in run THEN FREE ELSE GetBlock(b, i)
  BY SetGet
<1>6. Typed(b2, e, own2, ask2)
  <2>1. b2 \in [Block -> BitPair]
    BY <1>1, SetBlocksType DEF Typed
  <2>2. own2 \in [Block -> Block \cup {Nobody}] /\ ask2 \in [Block -> Nat]
    BY <1>1 DEF Typed, Released
  <2>. QED
    BY <1>1, <2>1, <2>2 DEF Typed
<1>. HIDE DEF run, b2, own2, ask2
<1>7. Marks(b2, own2)
  BY <1>1, <1>3, <1>4, <1>5, BlockFacts DEF Marks, FREE, UNUSABLE, IN_USE
<1>8. Extents(e, own2, ask2)
  <2>1. ASSUME NEW i \in Block, own2[i] # Nobody PROVE ask2[own2[i]] > 0
    BY <1>1, <1>4, <2>1 DEF Extents, Typed
  <2>2. ASSUME NEW t \in Block, ask2[t] > 0
        PROVE  /\ e[t] > 0
               /\ \A i \in Block : own2[i] = t <=> i \in Run(t, e[t])
               /\ Run(t, e[t]) \subseteq Block
               /\ e[t] * BLOCK_SIZE < ask2[t] => own2[Entries] = t
    <3>1. t # p /\ ask2[t] = ask[t] /\ ask[t] > 0
      BY <1>4, <2>2
    <3>2. /\ e[t] > 0
          /\ \A i \in Block : own[i] = t <=> i \in Run(t, e[t])
          /\ Run(t, e[t]) \subseteq Block
          /\ e[t] * BLOCK_SIZE < ask[t] => own[Entries] = t
      BY <1>1, <3>1 DEF Extents
    <3>3. \A i \in Block : own2[i] = t <=> own[i] = t
      BY <1>4, <3>1, <2>2, BlockFacts
    <3>. QED
      BY <3>1, <3>2, <3>3, BlockFacts
  <2>. QED
    BY <2>1, <2>2 DEF Extents
<1>. QED
  BY <1>6, <1>7, <1>8 DEF Agree, run, b2, own2, ask2

-----------------------------------------------------------------------------
(* The calls.                                                              *)

LEMMA InvInit == Init => IInv
<1>. SUFFICES ASSUME Init PROVE IInv
  OBVIOUS
<1>1. PICK stale \in [Entries..Top -> StaleBits] :
        bits = [i \in Block |-> IF i < Entries THEN <<0, 0>> ELSE stale[i]]
  BY DEF Init
<1>2. bits \in [Block -> BitPair]
  <2>1. ASSUME NEW i \in Block, ~(i < Entries) PROVE stale[i] \in BitPair
    BY <1>1, <2>1, BlockAssumption, MapAssumption DEF Block
  <2>2. <<0, 0>> \in BitPair
    BY DEF BitPair
  <2>. QED
    BY <1>1, <2>1, <2>2
<1>3. \A i \in Block : i < Entries => GetBlock(bits, i) # IN_USE
  BY <1>1 DEF GetBlock, IN_USE
<1>4. TypeOK
  BY <1>2, MapAssumption DEF Init, TypeOK, Answer
<1>. QED
  BY <1>3, <1>4 DEF Init, IInv

\* pmmInit leaves every block of the map FREE or UNUSABLE, and those that are
\* not the kernel's UNUSABLE.
LEMMA pmmInitKeeps == IInv /\ pmmInit => IInv'
<1>. SUFFICES ASSUME IInv, pmmInit PROVE IInv'
  OBVIOUS
<1>1. /\ TypeOK /\ phase = "boot"
      /\ owner' = owner /\ asked' = asked /\ result' = result
      /\ owner = [i \in Block |-> Nobody] /\ asked = [i \in Block |-> 0]
  BY DEF IInv, pmmInit
<1>2. CASE Hosts = {}
  BY <1>1, <1>2 DEF IInv, pmmInit, TypeOK, Answer, GetBlock
<1>3. CASE Hosts # {}
  <2>. DEFINE b1 == Reserve(Marked, BitmapAt, BitmapBytes, UNUSABLE)
              b2 == Reserve(b1, TableAt, TableBytes, UNUSABLE)
              e1 == ReserveEntry(block_entries, Marked, BitmapAt, BitmapBytes)
              e2 == ReserveEntry(e1, b1, TableAt, TableBytes)
  <2>1. bits' = b2 /\ block_entries' = e2 /\ phase' \in {"ready", "halted"}
    BY <1>3 DEF pmmInit
  <2>2. ASSUME NEW b \in [Block -> BitPair], NEW addr, NEW amount
        PROVE  Reserve(b, addr, amount, UNUSABLE) \in [Block -> BitPair]
    BY SetBlocksType DEF Reserve
  <2>3. ASSUME NEW b, NEW addr, NEW amount, NEW i \in Block,
               GetBlock(b, i) # IN_USE, ~MarkedUsable(i) => GetBlock(b, i) = UNUSABLE
        PROVE  LET r == Reserve(b, addr, amount, UNUSABLE)
               IN  /\ GetBlock(r, i) # IN_USE
                   /\ ~MarkedUsable(i) => GetBlock(r, i) = UNUSABLE
    BY <2>3, SetGet DEF Reserve, UNUSABLE, IN_USE
  <2>4. Marked \in [Block -> BitPair]
    BY <1>1 DEF Marked, TypeOK, Answer, Code, BitPair, FREE, UNUSABLE, IN_USE
  <2>5. ASSUME NEW i \in Block, i < Entries
        PROVE  /\ GetBlock(Marked, i) # IN_USE
               /\ ~MarkedUsable(i) => GetBlock(Marked, i) = UNUSABLE
    BY <2>5, BlockFacts DEF Marked, GetBlock, Code, FREE, UNUSABLE, IN_USE
  <2>6. b2 \in [Block -> BitPair]
    BY <2>2, <2>4
  <2>7. ASSUME NEW i \in Block, i < Entries
        PROVE  /\ GetBlock(b2, i) # IN_USE
               /\ ~MarkedUsable(i) => GetBlock(b2, i) = UNUSABLE
    <3>1. /\ GetBlock(b1, i) # IN_USE
          /\ ~MarkedUsable(i) => GetBlock(b1, i) = UNUSABLE
      BY <2>3, <2>5, <2>7
    <3>. HIDE DEF b1
    <3>. QED
      BY <2>3, <3>1
  <2>8. e2 \in [Block -> Nat]
    <3>1. BitmapBytes \div BLOCK_SIZE \in Nat /\ TableBytes \div BLOCK_SIZE \in Nat
      BY BlockFacts DEF BitmapBytes, TableBytes, SIZEOF_U32
    <3>2. block_entries \in [Block -> Nat]
      BY <1>1 DEF TypeOK, Answer
    <3>3. e1 \in [Block -> Nat]
      BY <3>1, <3>2 DEF ReserveEntry
    <3>. QED
      BY <3>1, <3>3 DEF ReserveEntry
  <2>. HIDE DEF b1, b2, e1, e2
  <2>9. TypeOK'
    BY <1>1, <2>1, <2>6, <2>8 DEF TypeOK, Answer
  <2>10. Agree(bits', block_entries', owner', asked')
    <3>1. Typed(bits', block_entries', owner', asked')
      BY <2>9 DEF TypeOK, Answer, Typed
    <3>2. Marks(bits', owner')
      BY <1>1, <2>1, <2>7, BlockFacts DEF Marks
    <3>3. Extents(block_entries', owner', asked')
      BY <1>1, BlockFacts DEF Extents
    <3>. QED
      BY <3>1, <3>2, <3>3 DEF Agree
  <2>. QED
    BY <1>1, <2>1, <2>7, <2>9, <2>10 DEF IInv
<1>. QED
  BY <1>2, <1>3

LEMMA pmm_allocKeeps ==
  ASSUME IInv, NEW amount \in Amounts, pmm_alloc(amount)
  PROVE  IInv'
<1>1. /\ TypeOK /\ phase = "ready" /\ phase' = "ready" /\ amount \in Nat
      /\ Agree(bits, block_entries, owner, asked)
  BY MapAssumption DEF IInv, pmm_alloc
<1>2. CASE NoSpace(bits, amount) /\ result' = <<"alloc", amount, NULL>>
           /\ UNCHANGED <<bits, block_entries, owner, asked>>
  BY <1>1, <1>2 DEF IInv, TypeOK, Answer
<1>3. ASSUME NEW s \in Scanned, NEW n \in 1..(Entries + 1),
             Takes(bits, amount, s, n),
             bits' = SetBlocks(bits, Run(s, n), IN_USE),
             block_entries' = [block_entries EXCEPT ![s] = n],
             owner' = Holding(owner, s, n),
             asked' = [asked EXCEPT ![s] = amount],
             result' = <<"alloc", amount, s>>
      PROVE  IInv'
  <2>1. Agree(bits', block_entries', owner', asked')
    BY <1>1, <1>3, GrabKeeps
  <2>2. result' \in Answer
    <3>1. s \in Block
      BY <1>3, BlockFacts DEF Scanned, Block
    <3>. QED
      BY <1>3, <3>1 DEF Answer
  <2>3. TypeOK'
    BY <1>1, <2>1, <2>2 DEF TypeOK, Answer, Agree, Typed
  <2>. QED
    BY <1>1, <2>1, <2>3 DEF IInv
<1>. QED
  BY <1>2, <1>3 DEF pmm_alloc

LEMMA pmm_freeKeeps ==
  ASSUME IInv, NEW p \in Block, pmm_free(p)
  PROVE  IInv'
<1>1. /\ TypeOK /\ phase = "ready" /\ phase' = "ready" /\ asked[p] > 0
      /\ Agree(bits, block_entries, owner, asked)
  BY DEF IInv, pmm_free, Live
<1>2. Agree(bits', block_entries', owner', asked')
  BY <1>1, ReleaseKeeps DEF pmm_free
<1>3. TypeOK'
  BY <1>1, <1>2 DEF TypeOK, Answer, Agree, Typed, pmm_free
<1>. QED
  BY <1>1, <1>2, <1>3 DEF IInv

LEMMA pmm_reallocKeeps ==
  ASSUME IInv, NEW p \in Block, NEW amount \in Amounts, pmm_realloc(p, amount)
  PROVE  IInv'
<1>1. /\ TypeOK /\ phase = "ready" /\ phase' = "ready" /\ amount \in Nat
      /\ asked[p] > 0 /\ Agree(bits, block_entries, owner, asked)
  BY MapAssumption DEF IInv, pmm_realloc, Live
<1>2. CASE /\ bits' = SetBlocks(bits, FreedRun(block_entries, p), FREE)
           /\ owner' = Released(owner, p)
           /\ asked' = [asked EXCEPT ![p] = 0]
           /\ result' = <<"realloc", amount, NULL>>
           /\ UNCHANGED block_entries
  <2>1. Agree(bits', block_entries', owner', asked')
    BY <1>1, <1>2, ReleaseKeeps
  <2>2. TypeOK'
    BY <1>1, <1>2, <2>1 DEF TypeOK, Answer, Agree, Typed
  <2>. QED
    BY <1>1, <2>1, <2>2 DEF IInv
<1>3. ASSUME NEW s \in Scanned, NEW n \in 1..(Entries + 1),
             Takes(bits, amount, s, n),
             block_entries' = [block_entries EXCEPT ![s] = n],
             bits' = SetBlocks(SetBlocks(bits, Run(s, n), IN_USE),
                               FreedRun(block_entries', p), FREE),
             owner' = Released(Holding(owner, s, n), p),
             asked' = [asked EXCEPT ![s] = amount, ![p] = 0],
             result' = <<"realloc", amount, s>>
      PROVE  IInv'
  <2>. DEFINE b == SetBlocks(bits, Run(s, n), IN_USE)
              e == [block_entries EXCEPT ![s] = n]
              own == Holding(owner, s, n)
              ask == [asked EXCEPT ![s] = amount]
  <2>1. Agree(b, e, own, ask)
    BY <1>1, <1>3, GrabKeeps
  <2>2. ask[p] > 0
    <3>1. amount > 0 /\ asked \in [Block -> Nat]
      BY <1>1, <1>3, TakesFacts DEF TypeOK, Answer
    <3>. QED
      BY <1>1, <3>1
  <2>3. asked' = [ask EXCEPT ![p] = 0]
    BY <1>3
  <2>. HIDE DEF b, e, own, ask
  <2>4. Agree(SetBlocks(b, FreedRun(e, p), FREE), e, Released(own, p),
              [ask EXCEPT ![p] = 0])
    BY <2>1, <2>2, ReleaseKeeps
  <2>5. Agree(bits', block_entries', owner', asked')
    BY <1>3, <2>3, <2>4 DEF b, e, own
  <2>6. result' \in Answer
    <3>1. s \in Block
      BY <1>3, BlockFacts DEF Scanned, Block
    <3>. QED
      BY <1>3, <3>1 DEF Answer
  <2>7. TypeOK'
    BY <1>1, <2>5, <2>6 DEF TypeOK, Answer, Agree, Typed
  <2>. QED
    BY <1>1, <2>5, <2>7 DEF IInv
<1>. QED
  BY <1>2, <1>3 DEF pmm_realloc

LEMMA InvStep == IInv /\ [Next]_vars => IInv'
<1>. SUFFICES ASSUME IInv, [Next]_vars PROVE IInv'
  OBVIOUS
<1>1. CASE pmmInit
  BY <1>1, pmmInitKeeps
<1>2. ASSUME NEW amount \in Amounts, pmm_alloc(amount) PROVE IInv'
  BY <1>2, pmm_allocKeeps
<1>3. ASSUME NEW p \in Block, pmm_free(p) PROVE IInv'
  BY <1>3, pmm_freeKeeps
<1>4. ASSUME NEW p \in Block, NEW amount \in Amounts, pmm_realloc(p, amount) PROVE IInv'
  BY <1>4, pmm_reallocKeeps
<1>5. CASE UNCHANGED vars
  BY <1>5 DEF vars, IInv, TypeOK, Answer
<1>. QED
  BY <1>1, <1>2, <1>3, <1>4, <1>5 DEF Next

LEMMA Invariant == Spec => []IInv
BY InvInit, InvStep, PTL DEF Spec

-----------------------------------------------------------------------------
(* What follows.                                                           *)

\* Types of the allocator's state.
THEOREM TypeCorrect == Spec => []TypeOK
<1>1. IInv => TypeOK
  BY DEF IInv
<1>. QED
  BY <1>1, Invariant, PTL

\* A block a caller holds is marked IN_USE until it is freed, so no other
\* pmm_alloc can be given it.
THEOREM NoDoubleAllocation == Spec => []HeldIsInUse
<1>1. IInv => HeldIsInUse
  BY DEF IInv, Agree, Marks, HeldIsInUse
<1>. QED
  BY <1>1, Invariant, PTL

\* Every block marked IN_USE is held by a live allocation: pmm_free and
\* pmm_realloc give back all that pmm_alloc took.
THEOREM NoLeak == Spec => []NothingLeaks
<1>1. IInv => NothingLeaks
  BY DEF IInv, Agree, Marks, NothingLeaks
<1>. QED
  BY <1>1, Invariant, PTL

\* block_entries gives the extent of every live allocation, though pmm_free
\* leaves stale entries behind.
THEOREM ExtentsKnown == Spec => []ExtentsKept
<1>1. IInv => ExtentsKept
  <2>. SUFFICES ASSUME IInv PROVE ExtentsKept
    OBVIOUS
  <2>1. CASE phase = "ready"
    <3>1. /\ Extents(block_entries, owner, asked)
          /\ owner \in [Block -> Block \cup {Nobody}]
      BY <2>1 DEF IInv, Agree, Typed
    <3>. QED
      BY <3>1 DEF Extents, ExtentsKept, Live
  <2>2. CASE phase # "ready"
    BY <2>2 DEF IInv, ExtentsKept, Live
  <2>. QED
    BY <2>1, <2>2
<1>. QED
  BY <1>1, Invariant, PTL

\* pmm_alloc gives too little only when the run it gives reaches past the map.
THEOREM ShortRuns == Spec => []ShortOnlyPastTheMap
<1>1. IInv => ShortOnlyPastTheMap
  BY DEF IInv, Agree, Extents, ShortOnlyPastTheMap, Live
<1>. QED
  BY <1>1, Invariant, PTL

\* The blocks that the memory map keeps from the kernel stay UNUSABLE.
THEOREM ForeignStays == Spec => []ForeignUntouched
<1>1. IInv => ForeignUntouched
  BY DEF IInv, Agree, Marks, ForeignUntouched
<1>. QED
  BY <1>1, Invariant, PTL

-----------------------------------------------------------------------------
(* What holds when the bits past the map do not read FREE at boot: the     *)
(* allocator implements the abstract heap of module Heap, so that every    *)
(* call does what its callers count on.                                    *)

\* The assumption: no memory cell that pmmInit leaves alone reads FREE.
NoStaleFree == <<0, 0>> \notin StaleBits

\* A block is free, or held, exactly when it is one the allocator may serve.
Solid(b, own) ==
  \A i \in Block : i \in Served <=> GetBlock(b, i) = FREE \/ own[i] # Nobody

PastMapShut(b) == \A i \in Block : ~(i < Entries) => GetBlock(b, i) # FREE

SolidInv ==
  /\ IInv
  /\ phase = "ready" => Solid(bits, owner)
  /\ phase = "boot" => PastMapShut(bits) /\ result = <<"none", 0, NULL>>

LEMMA ServedFacts ==
  \A i \in Served : i \in Block /\ i < Entries /\ MarkedUsable(i)
BY DEF Served

-----------------------------------------------------------------------------
LEMMA SolidInit == ASSUME NoStaleFree PROVE Init => SolidInv
<1>. SUFFICES ASSUME Init PROVE SolidInv
  OBVIOUS
<1>1. PICK stale \in [Entries..Top -> StaleBits] :
        bits = [i \in Block |-> IF i < Entries THEN <<0, 0>> ELSE stale[i]]
  BY DEF Init
<1>2. ASSUME NEW i \in Block, ~(i < Entries) PROVE GetBlock(bits, i) # FREE
  <2>a. i \in Entries..Top /\ bits[i] = stale[i]
    BY <1>1, <1>2, BlockAssumption DEF Block
  <2>1. stale[i] \in BitPair /\ stale[i] # <<0, 0>> /\ bits[i] = stale[i]
    BY <2>a, NoStaleFree, MapAssumption DEF NoStaleFree
  <2>. QED
    BY <2>1 DEF GetBlock, BitPair, FREE
<1>. QED
  BY <1>2, InvInit DEF Init, SolidInv, PastMapShut

\* A successful pmmInit leaves free exactly the blocks that may be served.
LEMMA SolidBoot ==
  ASSUME SolidInv, pmmInit
  PROVE  SolidInv'
<1>1. IInv' /\ phase = "boot" /\ PastMapShut(bits) /\ phase' # "boot"
  BY pmmInitKeeps DEF SolidInv, pmmInit
<1>2. ASSUME phase' = "ready" PROVE Solid(bits', owner')
  <2>. DEFINE r1 == BlocksAt(BitmapAt, BitmapBytes)
              r2 == BlocksAt(TableAt, TableBytes)
              b1 == SetBlocks(Marked, r1, UNUSABLE)
              b2 == SetBlocks(b1, r2, UNUSABLE)
  <2>1. bits' = b2 /\ owner' = owner
    BY <1>1, <1>2 DEF pmmInit, Reserve
  <2>2. owner = [i \in Block |-> Nobody]
    BY <1>1 DEF SolidInv, IInv
  <2>3. ASSUME NEW i \in Block
        PROVE  GetBlock(Marked, i) = FREE <=> i < Entries /\ MarkedUsable(i)
    <3>1. CASE i < Entries
      <4>1. Marked[i] = IF MarkedUsable(i) THEN Code(FREE) ELSE Code(UNUSABLE)
        BY <3>1, BlockFacts DEF Marked
      <4>2. CASE MarkedUsable(i)
        <5>1. Marked[i] = <<0, 0>>
          BY <4>1, <4>2 DEF Code, FREE, UNUSABLE, IN_USE
        <5>. QED
          BY <3>1, <4>2, <5>1 DEF GetBlock, FREE
      <4>3. CASE ~MarkedUsable(i)
        <5>1. Marked[i] = <<1, 0>>
          BY <4>1, <4>3 DEF Code, FREE, UNUSABLE, IN_USE
        <5>. QED
          BY <4>3, <5>1 DEF GetBlock, FREE
      <4>. QED
        BY <4>2, <4>3
    <3>2. CASE ~(i < Entries)
      <4>1. Marked[i] = bits[i]
        BY <3>2, BlockFacts DEF Marked
      <4>2. GetBlock(bits, i) # FREE
        BY <1>1, <3>2 DEF PastMapShut
      <4>. QED
        BY <3>2, <4>1, <4>2 DEF GetBlock
    <3>. QED
      BY <3>1, <3>2
  <2>4. \A i \in Block : GetBlock(b1, i) = IF i \in r1 THEN UNUSABLE ELSE GetBlock(Marked, i)
    BY SetGet
  <2>5. \A i \in Block : GetBlock(b2, i) = IF i \in r2 THEN UNUSABLE ELSE GetBlock(b1, i)
    BY SetGet
  <2>6. \A i \in Served : i \in Block
    BY ServedFacts
  <2>7. \A i \in Block : i \in Served <=>
          i < Entries /\ MarkedUsable(i) /\ i \notin r1 /\ i \notin r2
    BY DEF Served
  <2>. HIDE DEF r1, r2, b1, b2
  <2>. QED
    BY <2>1, <2>2, <2>3, <2>4, <2>5, <2>7 DEF Solid, FREE, UNUSABLE
<1>. QED
  BY <1>1, <1>2 DEF SolidInv

\* With such a bitmap a request that is served is served in full, with no
\* block to spare, and from blocks nobody holds.
LEMMA TakenSuits ==
  ASSUME Agree(bits, block_entries, owner, asked), Solid(bits, owner),
         NEW a \in Nat, NEW s \in Scanned, NEW n \in 1..(Entries + 1),
         Takes(bits, a, s, n)
  PROVE  s \in Block /\ n \in Block /\ KernelHeap!Suits(owner, a, s, n)
<1>1. /\ a > 0 /\ s \in Nat /\ n \in Nat /\ n >= 1 /\ s + n - 1 <= Entries
      /\ Run(s, n) \subseteq Block /\ AllFree(bits, Run(s, n))
      /\ n * BLOCK_SIZE < a => Entries \in Run(s, n)
  BY TakesFacts
<1>2. GetBlock(bits, Entries) # FREE
  BY BlockFacts, ServedFacts DEF Solid
<1>3. Entries \notin Run(s, n)
  BY <1>1, <1>2 DEF AllFree
<1>4. n * BLOCK_SIZE >= a
  BY <1>1, <1>3, BlockFacts
<1>5. n = Need(a)
  BY <1>2, BlockFacts DEF Takes, First, Tails, AllFree, Scanned
<1>6. ~((n - 1) * BLOCK_SIZE >= a)
  <2>1. n - 1 \in Nat /\ ~(n - 1 >= Need(a))
    BY <1>1, <1>5
  <2>. QED
    BY <2>1, NeedCovers
<1>7. \A i \in Run(s, n) : i \in Served /\ owner[i] = Nobody
  <2>. SUFFICES ASSUME NEW i \in Run(s, n) PROVE i \in Served /\ owner[i] = Nobody
    OBVIOUS
  <2>1. i \in Block /\ GetBlock(bits, i) = FREE
    BY <1>1 DEF AllFree
  <2>2. owner[i] # Nobody => GetBlock(bits, i) = IN_USE
    BY <2>1 DEF Agree, Marks
  <2>. QED
    BY <2>1, <2>2 DEF Solid, FREE, IN_USE
<1>8. s \in Block /\ n \in Block
  BY <1>1, <1>3, BlockFacts DEF Run, Block
<1>9. (n - 1) * BLOCK_SIZE < a
  BY <1>1, <1>6, BlockFacts
<1>. QED
  BY <1>1, <1>4, <1>7, <1>8, <1>9 DEF KernelHeap!Suits, KernelHeap!Nobody, Nobody, Run

\* NULL means that no run would do.
LEMMA NoSpaceNoneSuits ==
  ASSUME Agree(bits, block_entries, owner, asked), Solid(bits, owner),
         NEW a \in Nat, NoSpace(bits, a)
  PROVE  KernelHeap!NoneSuits(owner, a)
<1>. SUFFICES ASSUME NEW s \in Block, NEW n \in Block, KernelHeap!Suits(owner, a, s, n)
              PROVE  FALSE
  BY DEF KernelHeap!NoneSuits
<1>1. /\ a > 0 /\ s \in Nat /\ n \in Nat
      /\ n * BLOCK_SIZE >= a /\ (n - 1) * BLOCK_SIZE < a
      /\ \A i \in s..(s + n - 1) : i \in Served /\ owner[i] = Nobody
  BY BlockFacts DEF KernelHeap!Suits, KernelHeap!Nobody, Nobody
<1>2. n >= Need(a) /\ Need(a) \in Nat /\ Need(a) > 0
  BY <1>1, NeedCovers
<1>3. ~(n - 1 >= Need(a))
  <2>1. n - 1 \in Nat
    BY <1>1, <1>2
  <2>2. (n - 1) * BLOCK_SIZE \in Int
    BY <2>1, BlockFacts
  <2>3. ~((n - 1) * BLOCK_SIZE >= a)
    BY <1>1, <2>2
  <2>. QED
    BY <2>1, <2>3, NeedCovers
<1>4. n = Need(a)
  BY <1>1, <1>2, <1>3
<1>5. s + n - 1 \in Served /\ s + n - 1 < Entries
  BY <1>1, <1>2, <1>4, ServedFacts
<1>6. \A i \in Run(s, n) : GetBlock(bits, i) = FREE
  BY <1>1, ServedFacts DEF Run, Solid
<1>7. s \in Fits(bits, Need(a))
  BY <1>1, <1>2, <1>4, <1>5, <1>6, BlockFacts DEF Fits, Scanned, AllFree
<1>. QED
  BY <1>1, <1>7 DEF NoSpace

LEMMA SolidGrab ==
  ASSUME NEW b, NEW e, NEW own, NEW ask, Agree(b, e, own, ask), Solid(b, own),
         NEW a \in Nat, NEW s \in Scanned, NEW n \in 1..(Entries + 1),
         Takes(b, a, s, n)
  PROVE  Solid(SetBlocks(b, Run(s, n), IN_USE), Holding(own, s, n))
<1>1. AllFree(b, Run(s, n)) /\ s # Nobody
  <2>1. AllFree(b, Run(s, n)) /\ s \in Nat
    BY TakesFacts
  <2>. QED
    BY <2>1 DEF Nobody
<1>2. \A i \in Block : GetBlock(SetBlocks(b, Run(s, n), IN_USE), i) =
                         IF i \in Run(s, n) THEN IN_USE ELSE GetBlock(b, i)
  BY SetGet
<1>3. \A i \in Block : Holding(own, s, n)[i] = IF i \in Run(s, n) THEN s ELSE own[i]
  BY DEF Holding
<1>. QED
  BY <1>1, <1>2, <1>3 DEF Solid, AllFree

LEMMA SolidRelease ==
  ASSUME NEW b, NEW e, NEW own, NEW ask, Agree(b, e, own, ask), Solid(b, own),
         NEW p \in Block, ask[p] > 0
  PROVE  Solid(SetBlocks(b, FreedRun(e, p), FREE), Released(own, p))
<1>1. \A i \in Block : i \in FreedRun(e, p) <=> own[i] = p
  BY FreesHeld
<1>2. \A i \in Block : GetBlock(SetBlocks(b, FreedRun(e, p), FREE), i) =
                         IF i \in FreedRun(e, p) THEN FREE ELSE GetBlock(b, i)
  BY SetGet
<1>3. \A i \in Block : Released(own, p)[i] = IF own[i] = p THEN Nobody ELSE own[i]
  BY DEF Released
<1>. QED
  BY <1>1, <1>2, <1>3, BlockFacts DEF Solid

-----------------------------------------------------------------------------
(* Steps.  What holds while the allocator is ready:                        *)
Serving ==
  /\ Agree(bits, block_entries, owner, asked)
  /\ Solid(bits, owner)

LEMMA ReadyServes == ASSUME SolidInv, phase = "ready" PROVE Serving
BY DEF SolidInv, IInv, Serving

LEMMA AllocSteps ==
  ASSUME Serving, NEW amount \in Amounts, pmm_alloc(amount)
  PROVE  Solid(bits', owner') /\ KernelHeap!Alloc(amount)
<1>1. amount \in Nat /\ Agree(bits, block_entries, owner, asked) /\ Solid(bits, owner)
  BY MapAssumption DEF Serving
<1>2. CASE NoSpace(bits, amount) /\ result' = <<"alloc", amount, NULL>>
           /\ UNCHANGED <<bits, block_entries, owner, asked>>
  <2>1. KernelHeap!NoneSuits(owner, amount)
    BY <1>1, <1>2, NoSpaceNoneSuits
  <2>. QED
    BY <1>1, <1>2, <2>1 DEF KernelHeap!Alloc, KernelHeap!NULL, NULL
<1>3. ASSUME NEW s \in Scanned, NEW n \in 1..(Entries + 1),
             Takes(bits, amount, s, n),
             bits' = SetBlocks(bits, Run(s, n), IN_USE),
             owner' = Holding(owner, s, n),
             asked' = [asked EXCEPT ![s] = amount],
             result' = <<"alloc", amount, s>>
      PROVE  Solid(bits', owner') /\ KernelHeap!Alloc(amount)
  <2>1. s \in Block /\ n \in Block /\ KernelHeap!Suits(owner, amount, s, n)
    BY <1>1, <1>3, TakenSuits
  <2>2. owner' = KernelHeap!Holding(owner, s, n)
    BY <1>3 DEF Holding, KernelHeap!Holding, Run
  <2>3. Solid(bits', owner')
    BY <1>1, <1>3, SolidGrab
  <2>. QED
    BY <1>3, <2>1, <2>2, <2>3 DEF KernelHeap!Alloc
<1>. QED
  BY <1>2, <1>3 DEF pmm_alloc

LEMMA FreeSteps ==
  ASSUME Serving, NEW p \in Block, pmm_free(p)
  PROVE  Solid(bits', owner') /\ p \in KernelHeap!Live /\ KernelHeap!Free(p)
<1>1. Agree(bits, block_entries, owner, asked) /\ Solid(bits, owner) /\ asked[p] > 0
  BY DEF Serving, pmm_free, Live
<1>2. Solid(bits', owner')
  BY <1>1, SolidRelease DEF pmm_free
<1>. QED
  BY <1>1, <1>2 DEF pmm_free, Released, KernelHeap!Released, KernelHeap!Free,
                   KernelHeap!Live, Nobody, KernelHeap!Nobody,
                   NULL, KernelHeap!NULL

LEMMA ReallocSteps ==
  ASSUME Serving, NEW p \in Block, NEW amount \in Amounts, pmm_realloc(p, amount)
  PROVE  /\ Solid(bits', owner')
         /\ p \in KernelHeap!Live /\ KernelHeap!Realloc(p, amount)
<1>1. /\ Agree(bits, block_entries, owner, asked) /\ Solid(bits, owner)
      /\ asked[p] > 0 /\ amount \in Nat
  BY MapAssumption DEF Serving, pmm_realloc, Live
<1>2. p \in KernelHeap!Live
  BY <1>1 DEF KernelHeap!Live
<1>3. CASE /\ NoSpace(bits, amount)
           /\ bits' = SetBlocks(bits, FreedRun(block_entries, p), FREE)
           /\ owner' = Released(owner, p)
           /\ asked' = [asked EXCEPT ![p] = 0]
           /\ result' = <<"realloc", amount, NULL>>
  <2>1. KernelHeap!NoneSuits(owner, amount)
    BY <1>1, <1>3, NoSpaceNoneSuits
  <2>2. Solid(bits', owner')
    BY <1>1, <1>3, SolidRelease
  <2>3. owner' = KernelHeap!Released(owner, p)
    BY <1>3 DEF Released, KernelHeap!Released, Nobody, KernelHeap!Nobody
  <2>. QED
    BY <1>2, <1>3, <2>1, <2>2, <2>3 DEF KernelHeap!Realloc, KernelHeap!NULL, NULL
<1>4. ASSUME NEW s \in Scanned, NEW n \in 1..(Entries + 1),
             Takes(bits, amount, s, n),
             block_entries' = [block_entries EXCEPT ![s] = n],
             bits' = SetBlocks(SetBlocks(bits, Run(s, n), IN_USE),
                               FreedRun(block_entries', p), FREE),
             owner' = Released(Holding(owner, s, n), p),
             asked' = [asked EXCEPT ![s] = amount, ![p] = 0],
             result' = <<"realloc", amount, s>>
      PROVE  Solid(bits', owner') /\ KernelHeap!Realloc(p, amount)
  <2>. DEFINE b == SetBlocks(bits, Run(s, n), IN_USE)
              e == [block_entries EXCEPT ![s] = n]
              own == Holding(owner, s, n)
              ask == [asked EXCEPT ![s] = amount]
  <2>1. s \in Block /\ n \in Block /\ KernelHeap!Suits(owner, amount, s, n)
    BY <1>1, <1>4, TakenSuits
  <2>2. owner' = KernelHeap!Released(KernelHeap!Holding(owner, s, n), p)
    BY <1>4 DEF Holding, Released, KernelHeap!Holding, KernelHeap!Released, Run,
                Nobody, KernelHeap!Nobody
  <2>3. Agree(b, e, own, ask) /\ Solid(b, own)
    BY <1>1, <1>4, GrabKeeps, SolidGrab
  <2>4. ask[p] > 0
    <3>1. amount > 0 /\ asked \in [Block -> Nat]
      BY <1>1, <1>4, TakesFacts DEF Agree, Typed
    <3>. QED
      BY <1>1, <3>1
  <2>5. bits' = SetBlocks(b, FreedRun(e, p), FREE) /\ owner' = Released(own, p)
    BY <1>4
  <2>. HIDE DEF b, e, own, ask
  <2>6. Solid(bits', owner')
    BY <2>3, <2>4, <2>5, SolidRelease
  <2>. QED
    BY <1>4, <2>1, <2>2, <2>6 DEF KernelHeap!Realloc
<1>. QED
  BY <1>2, <1>3, <1>4 DEF pmm_realloc

\* pmmInit and the calls that fail before it are stutters of the heap.
LEMMA SolidStep ==
  SolidInv /\ [Next]_vars => SolidInv' /\ [KernelHeap!Next]_(KernelHeap!vars)
<1>. SUFFICES ASSUME SolidInv, [Next]_vars
              PROVE  SolidInv' /\ [KernelHeap!Next]_(KernelHeap!vars)
  OBVIOUS
<1>1. IInv'
  BY InvStep DEF SolidInv
<1>2. CASE pmmInit
  BY <1>2, SolidBoot DEF pmmInit, KernelHeap!vars
<1>3. ASSUME NEW amount \in Amounts, pmm_alloc(amount)
      PROVE  SolidInv' /\ KernelHeap!Next
  <2>1. Serving /\ phase' = "ready"
    BY <1>3, ReadyServes DEF pmm_alloc
  <2>2. Solid(bits', owner') /\ KernelHeap!Alloc(amount)
    BY <1>3, <2>1, AllocSteps
  <2>. QED
    BY <1>1, <2>1, <2>2 DEF SolidInv, KernelHeap!Next
<1>4. ASSUME NEW p \in Block, pmm_free(p)
      PROVE  SolidInv' /\ KernelHeap!Next
  <2>1. Serving /\ phase' = "ready"
    BY <1>4, ReadyServes DEF pmm_free
  <2>2. Solid(bits', owner') /\ p \in KernelHeap!Live /\ KernelHeap!Free(p)
    BY <1>4, <2>1, FreeSteps
  <2>. QED
    BY <1>1, <2>1, <2>2 DEF SolidInv, KernelHeap!Next
<1>5. ASSUME NEW p \in Block, NEW amount \in Amounts, pmm_realloc(p, amount)
      PROVE  SolidInv' /\ KernelHeap!Next
  <2>1. Serving /\ phase' = "ready"
    BY <1>5, ReadyServes DEF pmm_realloc
  <2>2. Solid(bits', owner') /\ p \in KernelHeap!Live /\ KernelHeap!Realloc(p, amount)
    BY <1>5, <2>1, ReallocSteps
  <2>. QED
    BY <1>1, <2>1, <2>2 DEF SolidInv, KernelHeap!Next
<1>6. CASE UNCHANGED vars
  BY <1>1, <1>6 DEF vars, SolidInv, Solid, PastMapShut, GetBlock, KernelHeap!vars
<1>. QED
  BY <1>2, <1>3, <1>4, <1>5, <1>6 DEF Next

LEMMA InitMaps == Init => KernelHeap!Init
BY DEF Init, KernelHeap!Init, Nobody, KernelHeap!Nobody, NULL, KernelHeap!NULL

-----------------------------------------------------------------------------
(* Numbers and addresses.                                                  *)

LEMMA RegionTyped ==
  ASSUME NEW i \in Region
  PROVE  /\ MemMap[i].base \in Nat /\ MemMap[i].length \in Nat
         /\ i \in Nat /\ i >= 1 /\ i <= Len(MemMap) /\ Len(MemMap) \in Nat
<1>1. Len(MemMap) \in Nat /\ i \in 1..Len(MemMap)
  BY MapTyped DEF Region
<1>2. MemMap[i] \in [base : Nat, length : Nat, type : Nat]
  BY <1>1, MapTyped, ElementOfSeq
<1>. QED
  BY <1>1, <1>2

\* There is a function that begins with 0 and adds a step at each place.
LEMMA SumsExist ==
  ASSUME NEW n \in Nat, NEW step \in [1..n -> Int]
  PROVE  \E f \in [1..(n + 1) -> Int] :
           f[1] = 0 /\ \A i \in 1..n : f[i + 1] = f[i] + step[i]
<1>. DEFINE op == [p \in (1..n) \X Int |-> p[2] + step[p[1]]]
<1>1. op \in [(1..n) \X Int -> Int]
  OBVIOUS
<1>2. PICK g : Recurs(n, Int, 0, op, g)
  <2>1. 0 \in Int
    OBVIOUS
  <2>. HIDE DEF op
  <2>. QED
    BY <1>1, <2>1, RecursionExists, Zenon
<1>3. g \in [0..n -> Int] /\ g[0] = 0
  BY <1>2 DEF Recurs
<1>4. ASSUME NEW k \in 1..n PROVE g[k] = g[k - 1] + step[k]
  <2>1. k - 1 \in 0..n /\ g[k - 1] \in Int
    BY <1>3
  <2>2. g[k] = op[<<k, g[k - 1]>>]
    BY <1>2 DEF Recurs
  <2>. QED
    BY <2>1, <2>2
<1>. DEFINE f == [i \in 1..(n + 1) |-> g[i - 1]]
<1>5. f \in [1..(n + 1) -> Int]
  BY <1>3
<1>6. f[1] = 0
  BY <1>3
<1>7. ASSUME NEW i \in 1..n PROVE f[i + 1] = f[i] + step[i]
  <2>1. i \in 1..(n + 1) /\ i + 1 \in 1..(n + 1) /\ (i + 1) - 1 = i
    OBVIOUS
  <2>2. f[i + 1] = g[i] /\ f[i] = g[i - 1]
    BY <2>1
  <2>. QED
    BY <1>4, <2>2
<1>. HIDE DEF f
<1>. QED
  BY <1>5, <1>6, <1>7

\* The blocks of the map are counted region by region.
LEMMA BlocksBeforeCounts ==
  /\ BlocksBefore[1] = 0
  /\ \A i \in Region : BlocksBefore[i + 1] =
       BlocksBefore[i] + MemMap[i].length \div BLOCK_SIZE
<1>. DEFINE n == Len(MemMap)
            step == [i \in 1..n |-> MemMap[i].length \div BLOCK_SIZE]
            before(f) == [i \in 1..(n + 1) |->
                            IF i = 1 THEN 0
                            ELSE f[i - 1] + MemMap[i - 1].length \div BLOCK_SIZE]
<1>1. n \in Nat /\ Region = 1..n
  BY MapTyped DEF Region
<1>2. step \in [1..n -> Int]
  <2>1. ASSUME NEW i \in 1..n PROVE MemMap[i].length \div BLOCK_SIZE \in Int
    BY <1>1, RegionTyped, BlockFacts
  <2>. QED
    BY <2>1
<1>3. PICK f \in [1..(n + 1) -> Int] : f[1] = 0 /\ \A i \in 1..n : f[i + 1] = f[i] + step[i]
  <2>. HIDE DEF n, step
  <2>. QED
    BY <1>1, <1>2, SumsExist
<1>4. ASSUME NEW i \in 1..(n + 1), i # 1
      PROVE  f[i] = f[i - 1] + MemMap[i - 1].length \div BLOCK_SIZE
  <2>1. i - 1 \in 1..n /\ (i - 1) + 1 = i
    BY <1>1, <1>4
  <2>2. f[(i - 1) + 1] = f[i - 1] + step[i - 1]
    BY <1>3, <2>1
  <2>3. step[i - 1] = MemMap[i - 1].length \div BLOCK_SIZE
    BY <2>1
  <2>. QED
    BY <2>1, <2>2, <2>3
<1>5. f = before(f)
  <2>1. f = [i \in 1..(n + 1) |-> f[i]]
    BY <1>3
  <2>2. \A i \in 1..(n + 1) : f[i] = IF i = 1 THEN 0
                                     ELSE f[i - 1] + MemMap[i - 1].length \div BLOCK_SIZE
    BY <1>3, <1>4
  <2>. QED
    BY <2>1, <2>2
<1>6. BlocksBefore = before(BlocksBefore)
  <2>1. \E g : g = before(g)
    BY <1>5
  <2>. QED
    BY <2>1, Zenon DEF BlocksBefore
<1>7. 1 \in 1..(n + 1)
  BY <1>1
<1>8. ASSUME NEW i \in Region
      PROVE  i + 1 \in 1..(n + 1) /\ i + 1 # 1 /\ (i + 1) - 1 = i
  BY <1>1, RegionTyped
<1>9. BlocksBefore[1] = 0
  <2>1. before(BlocksBefore)[1] = 0
    BY <1>7
  <2>. QED
    BY <1>6, <2>1
<1>. QED
  <2>. SUFFICES ASSUME NEW i \in Region
                PROVE  BlocksBefore[i + 1] = BlocksBefore[i] + MemMap[i].length \div BLOCK_SIZE
    BY <1>9
  <2>1. before(BlocksBefore)[i + 1] = BlocksBefore[i] + MemMap[i].length \div BLOCK_SIZE
    BY <1>8
  <2>. QED
    BY <1>6, <2>1

\* The bytes skipped are summed region by region.
LEMMA SkippedSums ==
  ASSUME Region # {}
  PROVE  /\ Skipped[1] = 0
         /\ \A i \in Region \ {1} :
              /\ Skipped[i - 1] \in Int
              /\ Skipped[i] = Skipped[i - 1] + (MemMap[i].base - BlocksEnd(i - 1))
<1>. DEFINE n == Len(MemMap)
            gap(i) == MemMap[i].base - BlocksEnd(i - 1)
            step == [i \in 1..(n - 1) |-> gap(i + 1)]
            sums(f) == [i \in Region |->
                          IF i = 1 THEN 0
                          ELSE f[i - 1] + (MemMap[i].base - BlocksEnd(i - 1))]
<1>1. n \in Nat /\ n >= 1 /\ n - 1 \in Nat /\ (n - 1) + 1 = n /\ Region = 1..n
  BY MapTyped DEF Region
<1>2. step \in [1..(n - 1) -> Int]
  <2>1. ASSUME NEW i \in 1..(n - 1) PROVE gap(i + 1) \in Int
    <3>1. i \in Region /\ i + 1 \in Region /\ (i + 1) - 1 = i
      BY <1>1
    <3>2. /\ MemMap[i + 1].base \in Nat /\ MemMap[i].base \in Nat
          /\ MemMap[i].length \div BLOCK_SIZE \in Int /\ BLOCK_SIZE \in Nat
      BY <3>1, RegionTyped, BlockFacts
    <3>3. BlocksEnd(i) \in Int
      BY <3>2 DEF BlocksEnd
    <3>. QED
      BY <3>1, <3>2, <3>3
  <2>. HIDE DEF gap
  <2>. QED
    BY <2>1
<1>3. PICK f \in [1..n -> Int] : f[1] = 0 /\ \A i \in 1..(n - 1) : f[i + 1] = f[i] + step[i]
  <2>. DEFINE m == n - 1
  <2>1. m \in Nat /\ step \in [1..m -> Int] /\ m + 1 = n
    BY <1>1, <1>2
  <2>. HIDE DEF step, m
  <2>2. \E f \in [1..(m + 1) -> Int] : f[1] = 0 /\ \A i \in 1..m : f[i + 1] = f[i] + step[i]
    BY <2>1, SumsExist
  <2>. QED
    BY <2>1, <2>2 DEF m
<1>4. ASSUME NEW i \in 1..n, i # 1 PROVE f[i] = f[i - 1] + gap(i)
  <2>1. i - 1 \in 1..(n - 1) /\ (i - 1) + 1 = i
    BY <1>1, <1>4
  <2>2. f[(i - 1) + 1] = f[i - 1] + step[i - 1]
    BY <1>3, <2>1
  <2>. HIDE DEF gap
  <2>3. step[i - 1] = gap(i)
    BY <2>1
  <2>. QED
    BY <2>1, <2>2, <2>3
<1>5. f = sums(f)
  <2>1. f = [i \in Region |-> f[i]]
    BY <1>1, <1>3
  <2>2. \A i \in Region : f[i] = IF i = 1 THEN 0
                                 ELSE f[i - 1] + (MemMap[i].base - BlocksEnd(i - 1))
    BY <1>1, <1>3, <1>4
  <2>. QED
    BY <2>1, <2>2
<1>6. Skipped = sums(Skipped)
  <2>1. \E g : g = sums(g)
    BY <1>5
  <2>. QED
    BY <2>1, Zenon DEF Skipped
<1>7. 1 \in Region
  BY <1>1
<1>8. Skipped[1] = 0
  <2>1. sums(Skipped)[1] = 0
    BY <1>7
  <2>. QED
    BY <1>6, <2>1
<1>9. ASSUME NEW i \in Region, i # 1
      PROVE  Skipped[i] = Skipped[i - 1] + (MemMap[i].base - BlocksEnd(i - 1))
  <2>1. sums(Skipped)[i] = Skipped[i - 1] + (MemMap[i].base - BlocksEnd(i - 1))
    BY <1>9
  <2>. QED
    BY <1>6, <2>1
<1>10. ASSUME NEW k \in 0..n, k # 0 PROVE Skipped[k] \in Int
  <2>. DEFINE S == {j \in 0..n : j = 0 \/ Skipped[j] \in Int}
  <2>1. 0 \in S
    BY <1>1
  <2>2. ASSUME NEW j \in 1..n, j - 1 \in S PROVE j \in S
    <3>1. j \in 0..n
      BY <1>1
    <3>2. CASE j = 1
      BY <1>8, <3>1, <3>2
    <3>3. CASE j # 1
      <4>1. j \in Region /\ j - 1 \in 1..(n - 1) /\ (j - 1) + 1 = j /\ j - 1 # 0
        BY <1>1, <3>3
      <4>2. step[j - 1] = gap(j)
        BY <4>1
      <4>3. gap(j) \in Int
        BY <1>2, <4>1, <4>2
      <4>. QED
        BY <1>9, <2>2, <3>1, <3>3, <4>1, <4>3
    <3>. QED
      BY <3>2, <3>3
  <2>. HIDE DEF S
  <2>3. \A j \in 0..n : j \in S
    BY <1>1, <2>1, <2>2, UpTo
  <2>. QED
    BY <1>10, <2>3 DEF S
<1>. QED
  <2>. SUFFICES ASSUME NEW i \in Region \ {1} PROVE Skipped[i - 1] \in Int
    BY <1>8, <1>9
  <2>1. i - 1 \in 0..n /\ i - 1 # 0
    BY <1>1
  <2>. QED
    BY <1>10, <2>1

-----------------------------------------------------------------------------
\* pmm_alloc, pmm_realloc and pmm_free keep the promise of module Heap: long
\* enough, no longer than needed, held by nobody else, and NULL only when
\* there is no such run.
THEOREM PmmRefinesHeap == ASSUME NoStaleFree PROVE Spec => RefinesHeap
<1>1. Init => SolidInv /\ KernelHeap!Init
  BY SolidInit, InitMaps
<1>. QED
  BY <1>1, SolidStep, PTL DEF Spec, RefinesHeap, KernelHeap!Spec

\* Every allocation is at least as long as was asked for.
THEOREM AllocationsAreCovered == ASSUME NoStaleFree PROVE Spec => []AllocationsCover
<1>1. SolidInv => AllocationsCover
  <2>. SUFFICES ASSUME SolidInv, NEW s \in Live
                PROVE  block_entries[s] * BLOCK_SIZE >= asked[s]
    BY DEF AllocationsCover
  <2>1. phase = "ready"
    BY DEF SolidInv, IInv, Live
  <2>2. Agree(bits, block_entries, owner, asked) /\ Solid(bits, owner) /\ s \in Block /\ asked[s] > 0
    BY <2>1, ReadyServes DEF Serving, Live
  <2>3. owner[Entries] = Nobody
    BY <2>2, BlockFacts, ServedFacts DEF Solid
  <2>4. ~(block_entries[s] * BLOCK_SIZE < asked[s])
    BY <2>2, <2>3, BlockFacts DEF Agree, Extents
  <2>5. block_entries[s] \in Nat /\ asked[s] \in Nat /\ block_entries[s] * BLOCK_SIZE \in Int
    BY <2>2, BlockFacts DEF Agree, Typed
  <2>. QED
    BY <2>4, <2>5
<1>2. Init => SolidInv
  BY SolidInit
<1>3. SolidInv /\ [Next]_vars => SolidInv'
  BY SolidStep
<1>. QED
  BY <1>1, <1>2, <1>3, PTL DEF Spec

LEMMA HostIsRegion == ASSUME Hosts # {} PROVE Host \in Region
<1>1. Hosts \in SUBSET Nat
  BY RegionTyped DEF Hosts
<1>2. PICK m \in Hosts : \A k \in Hosts : m <= k
  BY <1>1, LeastNatural
<1>3. Host \in Hosts
  BY <1>2, Zenon DEF Host
<1>. QED
  BY <1>3 DEF Hosts

\* A region begins at the address of the block counted first in it, put forward
\* by the bytes skipped.
LEMMA RegionAddress ==
  ASSUME NEW i \in Region
  PROVE  /\ BlocksBefore[i] \in Nat /\ Skipped[i] \in Int
         /\ MemMap[i].base = AddressOf(BlocksBefore[i]) + Skipped[i]
<1>. DEFINE Right(k) == /\ BlocksBefore[k] \in Nat /\ Skipped[k] \in Int
                        /\ MemMap[k].base = AddressOf(BlocksBefore[k]) + Skipped[k]
            Bad == {k \in Region : ~Right(k)}
<1>1. SUFFICES ASSUME Bad # {} PROVE FALSE
  OBVIOUS
<1>2. PICK m \in Bad : \A k \in Bad : m <= k
  <2>1. Bad \in SUBSET Nat
    BY RegionTyped
  <2>. HIDE DEF Bad
  <2>. QED
    BY <1>1, <2>1, LeastNatural
<1>a. m \in Region
  BY <1>2
<1>3. BLOCK_SIZE \in Nat /\ BLOCK_SIZE > 0 /\ start_address \in Nat
  BY BlockFacts, MapAssumption
<1>4. CASE m = 1
  <2>1. BlocksBefore[1] = 0 /\ Skipped[1] = 0
    BY BlocksBeforeCounts, SkippedSums
  <2>2. MemMap[1].base = AddressOf(0) + 0
    BY <1>3 DEF AddressOf, start_address
  <2>. QED
    BY <1>2, <1>4, <2>1, <2>2
<1>5. CASE m # 1
  <2>1. m \in Region \ {1} /\ m - 1 \in Region /\ (m - 1) + 1 = m
    <3>. HIDE DEF Bad
    <3>. QED
      BY <1>5, <1>a, RegionTyped DEF Region
  <2>. DEFINE k == BlocksBefore[m - 1]
              p == MemMap[m - 1].length \div BLOCK_SIZE
              c == Skipped[m - 1]
              b == MemMap[m - 1].base
  <2>2. k \in Nat /\ c \in Int /\ b = start_address + k * BLOCK_SIZE + c
    <3>1. m - 1 \notin Bad
      BY <1>2, <2>1, RegionTyped
    <3>. QED
      BY <2>1, <3>1 DEF AddressOf
  <2>3. p \in Nat /\ b \in Nat /\ MemMap[m].base \in Nat
    <3>. HIDE DEF Bad
    <3>1. b \in Nat /\ MemMap[m - 1].length \in Nat /\ MemMap[m].base \in Nat
      BY <2>1, RegionTyped
    <3>2. p \in Nat
      BY <1>3, <3>1
    <3>. QED
      BY <3>1, <3>2
  <2>4. BlocksBefore[m] = k + p
    BY <2>1, BlocksBeforeCounts
  <2>5. Skipped[m] = c + (MemMap[m].base - (b + BLOCK_SIZE * p))
    BY <2>1, SkippedSums DEF BlocksEnd
  <2>. HIDE DEF k, p, c, b
  <2>6. (k + p) * BLOCK_SIZE = k * BLOCK_SIZE + BLOCK_SIZE * p
    BY <1>3, <2>2, <2>3
  <2>7. k * BLOCK_SIZE \in Nat /\ BLOCK_SIZE * p \in Nat
    BY <1>3, <2>2, <2>3
  <2>8. MemMap[m].base = start_address + (k + p) * BLOCK_SIZE + Skipped[m]
    BY <1>3, <2>2, <2>3, <2>5, <2>6, <2>7
  <2>9. k + p \in Nat /\ Skipped[m] \in Int
    BY <2>2, <2>3, <2>5, <2>7
  <2>. QED
    BY <1>2, <2>4, <2>8, <2>9 DEF AddressOf
<1>. QED
  BY <1>4, <1>5

\* A block counted in a region lies in it, that much further on.
LEMMA BlockInRegion ==
  ASSUME NEW r \in Region, NEW i \in Block,
         BlocksBefore[r] <= i, i < BlocksBefore[r + 1]
  PROVE  LET at == AddressOf(i) + Skipped[r]
         IN  /\ MemMap[r].base <= at
             /\ at + BLOCK_SIZE <= MemMap[r].base + MemMap[r].length
<1>. DEFINE k == BlocksBefore[r]
            l == MemMap[r].length
            p == l \div BLOCK_SIZE
            c == Skipped[r]
<1>1. /\ BLOCK_SIZE \in Nat /\ BLOCK_SIZE > 0 /\ start_address \in Nat /\ i \in Nat
  BY BlockFacts, MapAssumption
<1>2. k \in Nat /\ c \in Int /\ MemMap[r].base = start_address + k * BLOCK_SIZE + c
  BY RegionAddress DEF AddressOf
<1>3. p \in Nat /\ l \in Nat /\ p * BLOCK_SIZE <= l
  <2>1. l \in Nat
    BY RegionTyped
  <2>. HIDE DEF l
  <2>. QED
    BY <1>1, <2>1
<1>4. k <= i /\ i < k + p
  BY BlocksBeforeCounts
<1>. HIDE DEF k, p, c, l
<1>5. k * BLOCK_SIZE <= i * BLOCK_SIZE
  BY <1>1, <1>2, <1>4, MultiplyMonotone
<1>6. (i + 1) * BLOCK_SIZE <= (k + p) * BLOCK_SIZE
  <2>1. i + 1 \in Int /\ k + p \in Int /\ i + 1 <= k + p
    BY <1>1, <1>2, <1>3, <1>4
  <2>. QED
    BY <1>1, <2>1, MultiplyMonotone
<1>7. /\ (i + 1) * BLOCK_SIZE = i * BLOCK_SIZE + BLOCK_SIZE
      /\ (k + p) * BLOCK_SIZE = k * BLOCK_SIZE + p * BLOCK_SIZE
  BY <1>1, <1>2, <1>3
<1>8. /\ i * BLOCK_SIZE \in Nat /\ k * BLOCK_SIZE \in Nat /\ p * BLOCK_SIZE \in Nat
      /\ (i + 1) * BLOCK_SIZE \in Nat /\ (k + p) * BLOCK_SIZE \in Nat
  BY <1>1, <1>2, <1>3
<1>. QED
  BY <1>1, <1>2, <1>3, <1>5, <1>6, <1>7, <1>8 DEF AddressOf, l, c

\* pmm_alloc_ataddress keeps every other block clear of what it reserves: all
\* the bytes asked for but those cut off.
LEMMA ReservedClear ==
  ASSUME NEW addr \in Nat, NEW amount \in Nat, NEW i \in Block,
         address2blockoffset(addr) \in Block, i \notin BlocksAt(addr, amount)
  PROVE  Clear(i, addr, amount - CutOff(addr, amount))
<1>. DEFINE k == address2blockoffset(addr)
            n == amount \div BLOCK_SIZE
            x == addr % BLOCK_SIZE
            y == amount % BLOCK_SIZE
<1>1. BLOCK_SIZE \in Nat /\ BLOCK_SIZE > 0 /\ i \in Nat /\ k \in Nat
  BY BlockFacts
<1>2. addr = (k + 1) * BLOCK_SIZE + x /\ x \in Nat
  <2>1. addr = (addr \div BLOCK_SIZE) * BLOCK_SIZE + x /\ x \in Nat
    BY <1>1
  <2>2. addr \div BLOCK_SIZE = k + 1
    BY <1>1 DEF address2blockoffset
  <2>. QED
    BY <2>1, <2>2
<1>3. amount = n * BLOCK_SIZE + y /\ n \in Nat /\ y \in Nat
  BY <1>1
<1>4. i + 1 <= k \/ k + n <= i
  <2>1. i \notin k..(k + n - 1)
    BY DEF BlocksAt, Run
  <2>. HIDE DEF k, n
  <2>. QED
    BY <1>1, <1>3, <2>1
<1>5. CutOff(addr, amount) = x + y
  BY DEF CutOff
<1>6. AddressOf(i) = (i + 1) * BLOCK_SIZE
  BY <1>1, MapAssumption DEF AddressOf
<1>. HIDE DEF k, n, x, y
<1>7. /\ (i + 1) * BLOCK_SIZE \in Nat /\ (k + 1) * BLOCK_SIZE \in Nat
      /\ n * BLOCK_SIZE \in Nat
  BY <1>1, <1>3
<1>8. CASE i + 1 <= k
  <2>1. ((i + 1) + 1) * BLOCK_SIZE <= (k + 1) * BLOCK_SIZE
    BY <1>1, <1>8, MultiplyMonotone
  <2>2. ((i + 1) + 1) * BLOCK_SIZE = (i + 1) * BLOCK_SIZE + BLOCK_SIZE
    BY <1>1
  <2>3. AddressOf(i) + BLOCK_SIZE <= addr
    BY <1>1, <1>2, <1>6, <1>7, <2>1, <2>2
  <2>. QED
    BY <2>3 DEF Clear
<1>9. CASE k + n <= i
  <2>1. ((k + 1) + n) * BLOCK_SIZE <= (i + 1) * BLOCK_SIZE
    BY <1>1, <1>3, <1>9, MultiplyMonotone
  <2>2. ((k + 1) + n) * BLOCK_SIZE = (k + 1) * BLOCK_SIZE + n * BLOCK_SIZE
    BY <1>1, <1>3
  <2>3. addr + (amount - (x + y)) <= AddressOf(i)
    BY <1>2, <1>3, <1>6, <1>7, <2>1, <2>2
  <2>. QED
    BY <1>5, <2>3 DEF Clear
<1>. QED
  BY <1>4, <1>8, <1>9

-----------------------------------------------------------------------------
(* The two tables, for every map.                                          *)

\* Once the allocator is ready a region has been found for the tables, and
\* their blocks are marked UNUSABLE, as they stay.
TablesShut ==
  phase = "ready" =>
    /\ Hosts # {}
    /\ \A i \in BlocksAt(BitmapAt, BitmapBytes) \cup BlocksAt(TableAt, TableBytes) :
         i \in Block /\ GetBlock(bits, i) = UNUSABLE

LEMMA ShutAtBoot == pmmInit => TablesShut'
<1>. SUFFICES ASSUME pmmInit, phase' = "ready" PROVE TablesShut'
  BY DEF TablesShut
<1>. DEFINE r1 == BlocksAt(BitmapAt, BitmapBytes)
            r2 == BlocksAt(TableAt, TableBytes)
            b1 == SetBlocks(Marked, r1, UNUSABLE)
            b2 == SetBlocks(b1, r2, UNUSABLE)
<1>1. Hosts # {} /\ bits' = b2
  BY DEF pmmInit, Reserve
<1>2. r1 \subseteq Block /\ r2 \subseteq Block
  BY <1>1, MapAssumption
<1>3. \A i \in Block : GetBlock(b1, i) = IF i \in r1 THEN UNUSABLE ELSE GetBlock(Marked, i)
  BY SetGet
<1>4. \A i \in Block : GetBlock(b2, i) = IF i \in r2 THEN UNUSABLE ELSE GetBlock(b1, i)
  BY SetGet
<1>. HIDE DEF r1, r2, b1, b2
<1>5. ASSUME NEW i \in r1 \cup r2 PROVE i \in Block /\ GetBlock(bits', i) = UNUSABLE
  BY <1>1, <1>2, <1>3, <1>4
<1>. QED
  BY <1>1, <1>5 DEF TablesShut, r1, r2

\* Neither move turns an UNUSABLE block into anything else: the scan takes free
\* blocks, and what is given back was IN_USE.
LEMMA GrabSparesUnusable ==
  ASSUME NEW b, NEW a \in Nat, NEW s \in Scanned, NEW n \in 1..(Entries + 1),
         Takes(b, a, s, n), NEW i \in Block, GetBlock(b, i) = UNUSABLE
  PROVE  GetBlock(SetBlocks(b, Run(s, n), IN_USE), i) = UNUSABLE
<1>1. i \notin Run(s, n)
  BY TakesFacts DEF AllFree, FREE, UNUSABLE
<1>. QED
  BY <1>1, SetGet

LEMMA ReleaseSparesUnusable ==
  ASSUME NEW b, NEW e, NEW own, NEW ask, Agree(b, e, own, ask),
         NEW p \in Block, ask[p] > 0, NEW i \in Block, GetBlock(b, i) = UNUSABLE
  PROVE  GetBlock(SetBlocks(b, FreedRun(e, p), FREE), i) = UNUSABLE
<1>1. own[i] = Nobody
  BY DEF Agree, Marks, UNUSABLE, IN_USE
<1>2. i \notin FreedRun(e, p)
  BY <1>1, FreesHeld, BlockFacts
<1>. QED
  BY <1>2, SetGet

\* So no call changes an UNUSABLE block.
LEMMA CallsSpareUnusable ==
  ASSUME IInv, [Next]_vars, phase = "ready",
         NEW i \in Block, GetBlock(bits, i) = UNUSABLE
  PROVE  GetBlock(bits', i) = UNUSABLE
<1>1. Agree(bits, block_entries, owner, asked) /\ Amounts \subseteq Nat
  BY MapAssumption DEF IInv
<1>2. CASE pmmInit
  BY <1>2 DEF pmmInit
<1>3. ASSUME NEW amount \in Amounts, pmm_alloc(amount)
      PROVE  GetBlock(bits', i) = UNUSABLE
  BY <1>1, <1>3, GrabSparesUnusable DEF pmm_alloc
<1>4. ASSUME NEW p \in Block, pmm_free(p)
      PROVE  GetBlock(bits', i) = UNUSABLE
  BY <1>1, <1>4, ReleaseSparesUnusable DEF pmm_free, Live
<1>5. ASSUME NEW p \in Block, NEW amount \in Amounts, pmm_realloc(p, amount)
      PROVE  GetBlock(bits', i) = UNUSABLE
  <2>1. asked[p] > 0 /\ amount \in Nat
    BY <1>1, <1>5 DEF pmm_realloc, Live
  <2>2. CASE bits' = SetBlocks(bits, FreedRun(block_entries, p), FREE)
    BY <1>1, <2>1, <2>2, ReleaseSparesUnusable
  <2>3. ASSUME NEW s \in Scanned, NEW n \in 1..(Entries + 1),
               Takes(bits, amount, s, n),
               block_entries' = [block_entries EXCEPT ![s] = n],
               bits' = SetBlocks(SetBlocks(bits, Run(s, n), IN_USE),
                                 FreedRun(block_entries', p), FREE)
        PROVE  GetBlock(bits', i) = UNUSABLE
    <3>. DEFINE b == SetBlocks(bits, Run(s, n), IN_USE)
                e == [block_entries EXCEPT ![s] = n]
                own == Holding(owner, s, n)
                ask == [asked EXCEPT ![s] = amount]
    <3>1. Agree(b, e, own, ask)
      BY <1>1, <2>1, <2>3, GrabKeeps
    <3>2. ask[p] > 0
      <4>1. amount > 0 /\ asked \in [Block -> Nat]
        BY <1>1, <2>1, <2>3, TakesFacts DEF Agree, Typed
      <4>. QED
        BY <2>1, <4>1
    <3>3. GetBlock(b, i) = UNUSABLE
      BY <2>1, <2>3, GrabSparesUnusable
    <3>4. bits' = SetBlocks(b, FreedRun(e, p), FREE)
      BY <2>3
    <3>. HIDE DEF b, e, own, ask
    <3>. QED
      BY <3>1, <3>2, <3>3, <3>4, ReleaseSparesUnusable
  <2>. QED
    BY <1>5, <2>2, <2>3 DEF pmm_realloc
<1>6. CASE UNCHANGED vars
  BY <1>6 DEF vars, GetBlock
<1>. QED
  BY <1>2, <1>3, <1>4, <1>5, <1>6 DEF Next

LEMMA TablesStayShut == IInv /\ TablesShut /\ [Next]_vars => TablesShut'
<1>. SUFFICES ASSUME IInv, TablesShut, [Next]_vars, ~pmmInit PROVE TablesShut'
  BY ShutAtBoot
<1>1. phase' = phase
  BY DEF Next, pmm_alloc, pmm_free, pmm_realloc, vars
<1>. QED
  BY <1>1, CallsSpareUnusable DEF TablesShut

\* What a caller holds is marked IN_USE, and so is not a block of the tables.
LEMMA HeldIsNoTable ==
  ASSUME IInv, TablesShut, NEW i \in Block, owner[i] # Nobody
  PROVE  /\ Hosts # {}
         /\ i \notin BlocksAt(BitmapAt, BitmapBytes)
         /\ i \notin BlocksAt(TableAt, TableBytes)
<1>1. phase = "ready" /\ GetBlock(bits, i) = IN_USE
  BY DEF IInv, Agree, Marks
<1>. QED
  BY <1>1 DEF TablesShut, UNUSABLE, IN_USE

\* Whatever the memory map, the bits past it and the calls made, a block in a
\* caller's hands stands for usable memory, and its address misses that memory
\* by exactly the bytes skipped before its region.
THEOREM UsableMemoryOnly == Spec => []HandsOutUsableMemory
<1>1. IInv => HandsOutUsableMemory
  <2>. SUFFICES ASSUME IInv, NEW i \in Block, i < Entries, owner[i] # Nobody
                PROVE  \E r \in Region :
                         LET at == AddressOf(i) + Skipped[r]
                         IN  /\ MemMap[r].type = USABLE
                             /\ MemMap[r].base <= at
                             /\ at + BLOCK_SIZE <= MemMap[r].base + MemMap[r].length
    BY DEF HandsOutUsableMemory
  <2>1. MarkedUsable(i)
    BY DEF IInv, Agree, Marks, UNUSABLE, IN_USE
  <2>2. PICK r \in Region : /\ MemMap[r].type = USABLE
                            /\ BlocksBefore[r] <= i
                            /\ i < BlocksBefore[r + 1]
    BY <2>1 DEF MarkedUsable
  <2>. QED
    BY <2>2, BlockInRegion
<1>. QED
  BY <1>1, Invariant, PTL

\* Whatever the memory map and the calls made, no caller is handed a block with
\* a byte of the bitmap or of block_entries, but for the bytes that the rounding
\* of pmm_alloc_ataddress cuts off their ends.
THEOREM TablesAreKept == Spec => []TablesKept
<1>1. IInv /\ TablesShut => TablesKept
  <2>. SUFFICES ASSUME IInv, TablesShut, NEW i \in Block, owner[i] # Nobody
                PROVE  /\ Clear(i, BitmapAt, BitmapBytes - CutOff(BitmapAt, BitmapBytes))
                       /\ Clear(i, TableAt, TableBytes - CutOff(TableAt, TableBytes))
    BY DEF TablesKept
  <2>1. /\ Hosts # {}
        /\ i \notin BlocksAt(BitmapAt, BitmapBytes)
        /\ i \notin BlocksAt(TableAt, TableBytes)
    BY HeldIsNoTable
  <2>2. /\ address2blockoffset(BitmapAt) \in Block
        /\ address2blockoffset(TableAt) \in Block
    BY <2>1, MapAssumption
  <2>3. BitmapBytes \in Nat /\ TableBytes \in Nat
    BY BlockFacts DEF BitmapBytes, TableBytes, SIZEOF_U32
  <2>4. BitmapAt \in Nat /\ TableAt \in Nat
    BY <2>1, <2>3, HostIsRegion, RegionTyped DEF BitmapAt, TableAt
  <2>. QED
    BY <2>1, <2>2, <2>3, <2>4, ReservedClear
<1>2. Init => TablesShut
  BY DEF Init, TablesShut
<1>3. IInv /\ TablesShut /\ [Next]_vars => TablesShut'
  BY TablesStayShut
<1>. QED
  BY <1>1, <1>2, <1>3, Invariant, PTL DEF Spec

-----------------------------------------------------------------------------
(* The loop of pmm_alloc.                                                  *)


\* Need rounds up: fewer blocks are too few bytes, as many are enough.
LEMMA ScanNeedCovers ==
  ASSUME NEW a \in Nat, NEW n \in Nat
  PROVE  /\ Scan!Need(a) \in Nat
         /\ a > 0 => Scan!Need(a) > 0
         /\ n * BLOCK_SIZE >= a <=> n >= Scan!Need(a)
BY RoundsUp, BlockAssumption DEF Scan!Need

LEMMA LoopInit == Scan!Init => Scan!LoopInv
<1>. SUFFICES ASSUME Scan!Init PROVE Scan!LoopInv
  OBVIOUS
<1>1. Scan!TypeOK
  <2>1. {Scan!Code(Scan!FREE), Scan!Code(Scan!UNUSABLE), Scan!Code(Scan!IN_USE)}
          \subseteq Scan!BitPair
    BY DEF Scan!BitPair, Scan!Code, Scan!FREE, Scan!UNUSABLE, Scan!IN_USE
  <2>2. loop_bits \in [Scan!Block -> Scan!BitPair]
    BY <2>1 DEF Scan!Init
  <2>3. 0 \in Scan!Scanned /\ 0 \in 0..(Entries + 1) /\ 0 \in Nat
    BY BlockAssumption DEF Scan!Scanned
  <2>. QED
    BY <2>2, <2>3, Zenon DEF Scan!Init, Scan!TypeOK
<1>2. Scan!Counted /\ (~looping => ~Scan!KeepsOn)
  BY DEF Scan!Init, Scan!Counted
<1>3. Scan!NoneEarlier
  <2>1. ASSUME loop_amount > 0
        PROVE  Scan!Need(loop_amount) \in Nat /\ Scan!Need(loop_amount) > 0
    BY <1>1, <2>1, ScanNeedCovers, LoopAssumption DEF Scan!TypeOK
  <2>. QED
    BY <2>1, BlockAssumption DEF Scan!Init, Scan!NoneEarlier, Scan!Scanned
<1>. QED
  BY <1>1, <1>2, <1>3 DEF Scan!LoopInv

\* Bounds and arithmetic that every iteration uses.
LEMMA LoopFacts ==
  ASSUME Scan!LoopInv
  PROVE  /\ loop_amount \in Nat /\ loop_amnt \in Nat
         /\ loop_i \in Int /\ loop_start \in Int /\ loop_end \in Int
         /\ BLOCK_SIZE \in Nat /\ BLOCK_SIZE > 0
         /\ Entries \in Nat /\ Top \in Nat /\ Entries <= Top
         /\ Scan!Need(loop_amount) \in Nat
         /\ loop_amount > 0 => Scan!Need(loop_amount) > 0
BY BlockAssumption, LoopAssumption, ScanNeedCovers
DEF Scan!LoopInv, Scan!TypeOK, Scan!Scanned

\* What the invariant says of the run that is being counted.
LEMMA RunFacts ==
  ASSUME Scan!LoopInv, loop_free
  PROVE  /\ loop_start <= loop_end
         /\ loop_end = loop_i - 1
         /\ loop_amnt = (loop_end - loop_start + 1) * BLOCK_SIZE
         /\ loop_amount > 0
         /\ loop_amnt - BLOCK_SIZE < loop_amount
BY Zenon DEF Scan!LoopInv, Scan!Counted

LEMMA CountFreeStep ==
  ASSUME Scan!LoopInv, Scan!Examine, Scan!GetBlock(loop_bits, loop_i) = Scan!FREE
  PROVE  Scan!LoopInv'
<1>. USE LoopFacts
<1>1. /\ Scan!CountFree /\ loop_i' = loop_i + 1
      /\ UNCHANGED <<Scan!args, looping>> /\ looping /\ Scan!KeepsOn
  BY DEF Scan!Examine
<1>2. Scan!TypeOK'
  BY <1>1 DEF Scan!LoopInv, Scan!TypeOK, Scan!CountFree, Scan!KeepsOn,
         Scan!args, Scan!Scanned
<1>3. Scan!Counted'
  <2>1. Scan!AllFree(loop_bits, loop_start'..loop_end')
    BY <1>1 DEF Scan!LoopInv, Scan!Counted, Scan!CountFree, Scan!AllFree
  <2>2. loop_amnt' = (loop_end' - loop_start' + 1) * BLOCK_SIZE
    <3>1. CASE loop_free
      <4>1. /\ loop_end' = loop_end + 1 /\ loop_start' = loop_start
            /\ loop_amnt' = loop_amnt + BLOCK_SIZE
        <5>1. loop_end = loop_i - 1
          BY <3>1, RunFacts, Zenon
        <5>. QED
          BY <1>1, <3>1, <5>1 DEF Scan!CountFree
      <4>2. loop_amnt = (loop_end - loop_start + 1) * BLOCK_SIZE
        BY <3>1, RunFacts, Zenon
      <4>. QED
        BY <4>1, <4>2
    <3>2. CASE ~loop_free
      <4>1. loop_end' = loop_i /\ loop_start' = loop_i /\ loop_amnt' = BLOCK_SIZE
        BY <1>1, <3>2 DEF Scan!LoopInv, Scan!TypeOK, Scan!Counted, Scan!CountFree
      <4>. QED
        BY <4>1
    <3>. QED
      BY <3>1, <3>2 DEF Scan!LoopInv, Scan!TypeOK
  <2>3. loop_start' > 0 => Scan!GetBlock(loop_bits, loop_start' - 1) # Scan!FREE
    BY <1>1 DEF Scan!LoopInv, Scan!TypeOK, Scan!Counted, Scan!CountFree
  <2>4. /\ loop_start' <= loop_end' /\ loop_end' = loop_i' - 1 /\ loop_free'
        /\ loop_amount > 0 /\ loop_amnt' - BLOCK_SIZE < loop_amount
    <3>1. /\ loop_end' = loop_i /\ loop_i' = loop_i + 1
          /\ loop_free' /\ loop_amnt' = loop_amnt + BLOCK_SIZE
      BY <1>1 DEF Scan!CountFree
    <3>2. loop_amnt < loop_amount /\ loop_amnt >= 0
      BY <1>1 DEF Scan!KeepsOn, Scan!LoopInv, Scan!TypeOK
    <3>3. loop_start' <= loop_i
      <4>1. CASE loop_free
        <5>1. loop_start <= loop_end /\ loop_end = loop_i - 1
          BY <4>1, RunFacts, Zenon
        <5>2. loop_start' = loop_start
          BY <1>1, <4>1 DEF Scan!CountFree
        <5>. QED
          BY <5>1, <5>2
      <4>2. CASE ~loop_free
        BY <1>1, <4>2 DEF Scan!CountFree
      <4>. QED
        BY <4>1, <4>2
    <3>. QED
      BY <3>1, <3>2, <3>3
  <2>5. loop_bits' = loop_bits /\ loop_amount' = loop_amount
    BY <1>1 DEF Scan!args
  <2>. QED
    BY <2>1, <2>2, <2>3, <2>4, <2>5 DEF Scan!Counted, Scan!AllFree, Scan!GetBlock
<1>4. Scan!NoneEarlier'
  <2>. SUFFICES ASSUME loop_amount > 0, NEW t \in Scan!Scanned,
                       t + Scan!Need(loop_amount) <= loop_i + 1,
                       Scan!AllFree(loop_bits, Scan!Run(t, Scan!Need(loop_amount)))
                PROVE  loop_start' <= t
    BY <1>1 DEF Scan!NoneEarlier, Scan!CountFree, Scan!args, Scan!AllFree,
           Scan!GetBlock
  <2>. DEFINE n == Scan!Need(loop_amount)
  <2>1. t \in Int /\ t >= 0 /\ n \in Nat /\ n > 0
    BY DEF Scan!Scanned
  <2>. HIDE DEF n
  <2>2. CASE t + n <= loop_i
    <3>1. loop_free /\ loop_start <= t
      BY <2>2 DEF Scan!LoopInv, Scan!NoneEarlier, n
    <3>. QED
      BY <1>1, <3>1 DEF Scan!CountFree
  <2>3. CASE t + n = loop_i + 1
    <3>1. \A j \in t..loop_i : Scan!GetBlock(loop_bits, j) = Scan!FREE
      BY <2>1, <2>3 DEF Scan!AllFree, Scan!Run, n
    <3>2. CASE loop_free
      <4>1. /\ loop_start' = loop_start /\ loop_start <= loop_i
            /\ loop_start > 0 => Scan!GetBlock(loop_bits, loop_start - 1) # Scan!FREE
        BY SMTT(30), <1>1, <3>2 DEF Scan!CountFree, Scan!LoopInv, Scan!Counted
      <4>. QED
        BY <2>1, <3>1, <4>1
    <3>3. CASE ~loop_free
      <4>1. /\ loop_start' = loop_i
            /\ loop_i > 0 => Scan!GetBlock(loop_bits, loop_i - 1) # Scan!FREE
        BY <1>1, <3>3 DEF Scan!CountFree, Scan!LoopInv, Scan!Counted
      <4>. QED
        BY <2>1, <2>3, <3>1, <4>1
    <3>. QED
      BY <3>2, <3>3
  <2>. QED
    BY <2>1, <2>2, <2>3 DEF n
<1>. QED
  BY <1>1, <1>2, <1>3, <1>4 DEF Scan!LoopInv, Scan!args

LEMMA StartOverStep ==
  ASSUME Scan!LoopInv, Scan!Examine, Scan!GetBlock(loop_bits, loop_i) # Scan!FREE
  PROVE  Scan!LoopInv'
<1>. USE LoopFacts
<1>1. /\ Scan!StartOver /\ loop_i' = loop_i + 1
      /\ UNCHANGED <<Scan!args, looping>> /\ looping /\ Scan!KeepsOn
  BY DEF Scan!Examine
<1>2. Scan!TypeOK'
  <2>1. loop_i + 1 \in 0..(Entries + 1) /\ 0 \in Scan!Scanned
    BY <1>1 DEF Scan!LoopInv, Scan!TypeOK, Scan!KeepsOn, Scan!Scanned
  <2>. QED
    BY <1>1, <2>1 DEF Scan!LoopInv, Scan!TypeOK, Scan!StartOver, Scan!args
<1>3. Scan!Counted'
  BY <1>1 DEF Scan!LoopInv, Scan!TypeOK, Scan!Counted, Scan!StartOver,
         Scan!args, Scan!GetBlock
<1>4. Scan!NoneEarlier'
  <2>. SUFFICES ASSUME loop_amount > 0, NEW t \in Scan!Scanned,
                       t + Scan!Need(loop_amount) <= loop_i + 1,
                       Scan!AllFree(loop_bits, Scan!Run(t, Scan!Need(loop_amount)))
                PROVE  FALSE
    BY <1>1 DEF Scan!NoneEarlier, Scan!StartOver, Scan!args, Scan!AllFree,
           Scan!GetBlock
  <2>. DEFINE n == Scan!Need(loop_amount)
  <2>1. t \in Int /\ t >= 0 /\ n \in Nat /\ n > 0
    BY DEF Scan!Scanned
  <2>. HIDE DEF n
  <2>2. t + n # loop_i + 1
    BY <2>1 DEF Scan!AllFree, Scan!Run, n
  <2>3. t + n <= loop_i
    BY <2>1, <2>2 DEF n
  <2>4. loop_free /\ loop_start <= t
    BY <2>3 DEF Scan!LoopInv, Scan!NoneEarlier, n
  <2>5. loop_end = loop_i - 1 /\ loop_amnt = (loop_end - loop_start + 1) * BLOCK_SIZE
    BY <2>4, RunFacts, Zenon
  <2>6. loop_end - loop_start + 1 \in Nat /\ loop_end - loop_start + 1 >= n
    BY <2>1, <2>3, <2>4, <2>5
  <2>7. (loop_end - loop_start + 1) * BLOCK_SIZE >= loop_amount
    BY <2>6, ScanNeedCovers DEF n
  <2>. QED
    BY <1>1, <2>5, <2>7 DEF Scan!KeepsOn
<1>. QED
  BY <1>1, <1>2, <1>3, <1>4 DEF Scan!LoopInv, Scan!args

LEMMA LoopStep == Scan!LoopInv /\ [Scan!Next]_(Scan!vars) => Scan!LoopInv'
<1>. SUFFICES ASSUME Scan!LoopInv, [Scan!Next]_(Scan!vars) PROVE Scan!LoopInv'
  OBVIOUS
<1>1. CASE Scan!Examine
  BY <1>1, CountFreeStep, StartOverStep
<1>2. CASE Scan!Leave
  BY <1>2 DEF Scan!Leave, Scan!LoopInv, Scan!TypeOK, Scan!Counted,
         Scan!NoneEarlier, Scan!KeepsOn, Scan!args, Scan!AllFree, Scan!GetBlock
<1>3. CASE UNCHANGED Scan!vars
  BY <1>3 DEF Scan!vars, Scan!LoopInv, Scan!TypeOK, Scan!Counted,
         Scan!NoneEarlier, Scan!KeepsOn, Scan!AllFree, Scan!GetBlock
<1>. QED
  BY <1>1, <1>2, <1>3 DEF Scan!Next

\* The loop invariant holds throughout the scan of pmm_alloc.
THEOREM LoopInvariant == LoopSpec => []LoopInv
<1>1. Scan!Init => LoopInv
  BY LoopInit DEF LoopInv
<1>2. LoopInv /\ [Scan!Next]_(Scan!vars) => LoopInv'
  BY LoopStep DEF LoopInv
<1>. QED
  BY <1>1, <1>2, PTL DEF LoopSpec, Scan!Spec

\* The loop and the allocator mean the same by a bitmap's answer.
LEMMA SameAnswer ==
  ASSUME NEW b, NEW a, NEW s, NEW n
  PROVE  /\ Scan!Takes(b, a, s, n) <=> Takes(b, a, s, n)
         /\ Scan!NoSpace(b, a) <=> NoSpace(b, a)
<1>1. Scan!Need(a) = Need(a) /\ Scan!Scanned = Scanned
  BY DEF Scan!Need, Need, Scan!Scanned, Scanned
<1>2. ASSUME NEW run PROVE Scan!AllFree(b, run) <=> AllFree(b, run)
  BY DEF Scan!AllFree, AllFree, Scan!GetBlock, GetBlock, Scan!FREE, FREE
<1>3. ASSUME NEW m PROVE Scan!Fits(b, m) = Fits(b, m)
  BY <1>1, <1>2 DEF Scan!Fits, Fits, Scan!Run, Run
<1>4. Scan!Tails(b) = Tails(b)
  BY <1>1, <1>2 DEF Scan!Tails, Tails
<1>5. ASSUME NEW t, NEW places PROVE Scan!First(t, places) <=> First(t, places)
  BY DEF Scan!First, First
<1>. QED
  BY <1>1, <1>3, <1>4, <1>5 DEF Scan!Takes, Takes, Scan!NoSpace, NoSpace

\* Leaving the loop with the invariant, start and end are the answer.
LEMMA InvImpliesAnswer == Scan!LoopInv => AnswerRight
<1>. SUFFICES ASSUME Scan!LoopInv, ~looping
              PROVE  IF loop_amnt = 0 THEN Scan!NoSpace(loop_bits, loop_amount)
                     ELSE Scan!Takes(loop_bits, loop_amount, loop_start,
                                     loop_end - loop_start + 1)
  BY SameAnswer DEF AnswerRight
<1>. USE LoopFacts
<1>. DEFINE n == Scan!Need(loop_amount)
             len == loop_end - loop_start + 1
<1>1. /\ ~Scan!KeepsOn /\ Scan!Counted /\ Scan!NoneEarlier
      /\ loop_i <= Entries + 1 /\ loop_start \in Scan!Scanned
  BY DEF Scan!LoopInv, Scan!TypeOK
<1>2. loop_free =>
        /\ loop_amount > 0 /\ len \in Nat /\ len >= 1
        /\ loop_amnt = len * BLOCK_SIZE /\ loop_amnt # 0 /\ loop_end = loop_i - 1
        /\ (len - 1) * BLOCK_SIZE < loop_amount
  <2>. SUFFICES ASSUME loop_free
                PROVE  /\ loop_amount > 0 /\ len \in Nat /\ len >= 1
                       /\ loop_amnt = len * BLOCK_SIZE /\ loop_amnt # 0 /\ loop_end = loop_i - 1
                       /\ (len - 1) * BLOCK_SIZE < loop_amount
    OBVIOUS
  <2>1. /\ loop_amount > 0 /\ len \in Nat /\ len >= 1 /\ loop_amnt = len * BLOCK_SIZE
        /\ loop_end = loop_i - 1 /\ loop_amnt - BLOCK_SIZE < loop_amount
    <3>1. /\ loop_start <= loop_end /\ loop_end = loop_i - 1 /\ loop_amnt = len * BLOCK_SIZE
          /\ loop_amount > 0 /\ loop_amnt - BLOCK_SIZE < loop_amount
      BY RunFacts, Zenon
    <3>2. len \in Nat /\ len >= 1
      BY <3>1
    <3>. QED
      BY <3>1, <3>2
  <2>. HIDE DEF len
  <2>2. 1 * BLOCK_SIZE <= len * BLOCK_SIZE
    BY <2>1, MultiplyMonotone
  <2>3. (len - 1) * BLOCK_SIZE = len * BLOCK_SIZE - BLOCK_SIZE
    BY <2>1
  <2>. QED
    BY <2>1, <2>2, <2>3
<1>3. ~loop_free => loop_amnt = 0
  BY <1>1 DEF Scan!Counted
<1>4. CASE loop_amount = 0
  BY <1>2, <1>3, <1>4 DEF Scan!NoSpace
<1>5. CASE loop_amount > 0 /\ loop_amnt >= loop_amount
  <2>1. loop_free
    BY <1>3, <1>5
  <2>2. len = n
    <3>. HIDE DEF len
    <3>1. len \in Nat /\ len - 1 \in Nat
      BY <1>2, <2>1
    <3>2. len >= n /\ ~(len - 1 >= n)
      BY <1>2, <1>5, <2>1, <3>1, ScanNeedCovers
    <3>. QED
      BY <3>1, <3>2
  <2>3. loop_start \in Scan!Fits(loop_bits, n)
    BY <1>1, <1>2, <2>1, <2>2 DEF Scan!Fits, Scan!Counted, Scan!Run, Scan!AllFree
  <2>4. ASSUME NEW t \in Scan!Fits(loop_bits, n) PROVE loop_start <= t
    <3>1. t \in Scan!Scanned /\ t \in Int /\ Scan!AllFree(loop_bits, Scan!Run(t, n))
      BY DEF Scan!Fits, Scan!Scanned
    <3>2. CASE t + n <= loop_i
      BY <1>1, <1>5, <3>1, <3>2 DEF Scan!NoneEarlier
    <3>3. CASE t + n > loop_i
      BY <1>2, <2>1, <2>2, <3>1, <3>3
    <3>. QED
      BY <3>1, <3>2, <3>3
  <2>. QED
    BY <1>2, <1>5, <2>1, <2>2, <2>3, <2>4 DEF Scan!Takes, Scan!First
<1>6. CASE loop_amount > 0 /\ loop_amnt < loop_amount
  <2>1. loop_i = Entries + 1
    BY <1>1, <1>6 DEF Scan!KeepsOn, Scan!LoopInv, Scan!TypeOK
  <2>2. Scan!Fits(loop_bits, n) = {}
    <3>. SUFFICES ASSUME NEW t \in Scan!Fits(loop_bits, n) PROVE FALSE
      OBVIOUS
    <3>1. /\ t \in Scan!Scanned /\ t \in Int
          /\ t + n <= loop_i /\ Scan!AllFree(loop_bits, Scan!Run(t, n))
      BY <2>1 DEF Scan!Fits, Scan!Scanned
    <3>2. loop_free /\ loop_start <= t
      BY <1>1, <1>6, <3>1 DEF Scan!NoneEarlier
    <3>3. len >= n
      BY <1>2, <3>1, <3>2
    <3>4. len * BLOCK_SIZE >= loop_amount
      BY <1>2, <3>2, <3>3, ScanNeedCovers
    <3>. QED
      BY <1>2, <1>6, <3>2, <3>4
  <2>3. CASE loop_free
    <3>1. loop_start \in Scan!Tails(loop_bits)
      BY <1>1, <1>2, <2>1, <2>3, SMTT(30) DEF Scan!Tails, Scan!Counted
    <3>2. ASSUME NEW t \in Scan!Tails(loop_bits) PROVE loop_start <= t
      BY <1>1, <2>1, <2>3 DEF Scan!Tails, Scan!Counted, Scan!AllFree, Scan!Scanned
    <3>. QED
      BY <1>2, <1>6, <2>1, <2>2, <2>3, <3>1, <3>2 DEF Scan!Takes, Scan!First
  <2>4. CASE ~loop_free
    <3>1. Scan!GetBlock(loop_bits, Entries) # Scan!FREE
      BY <1>1, <2>1, <2>4 DEF Scan!Counted
    <3>2. Scan!Tails(loop_bits) = {}
      BY <3>1 DEF Scan!Tails, Scan!AllFree, Scan!Scanned
    <3>. QED
      BY <1>3, <2>2, <2>4, <3>2 DEF Scan!NoSpace
  <2>. QED
    BY <2>3, <2>4
<1>. QED
  BY <1>4, <1>5, <1>6

\* The loop of pmm_alloc leaves the first fit in start and end, or the free
\* blocks at the end of its scan, or nothing: what Takes and NoSpace say, and
\* module Pmm relies on, for every bitmap and every amount.
THEOREM ScanCorrect == LoopSpec => []AnswerRight
<1>1. LoopInv => AnswerRight
  BY InvImpliesAnswer DEF LoopInv
<1>. QED
  BY <1>1, LoopInvariant, PTL

-----------------------------------------------------------------------------
(* The bitmap: two bits never meet, and its words are an array of bits.    *)

LEMMA SectorRange ==
  ASSUME NEW k \in Nat
  PROVE  /\ Map!SectorOf(k) \in Nat
         /\ 31 * Map!SectorOf(k) <= k
         /\ k <= 31 * Map!SectorOf(k) + 31
         /\ Map!SectorOf(k) # 0 => 31 * Map!SectorOf(k) < k
BY DEF Map!SectorOf

\* Two different bits never share a cell: the unmasked shift count does not
\* make two bits of one sector meet (BitMapGetBit_, BitMapSetBit_).
THEOREM CellInjective ==
  ASSUME NEW j \in Nat, NEW k \in Nat,
         Map!SectorOf(j) = Map!SectorOf(k), Map!Shift(j) = Map!Shift(k)
  PROVE  j = k
<1>1. Map!SectorOf(j) \in Nat /\ 31 * Map!SectorOf(j) <= j /\ j <= 31 * Map!SectorOf(j) + 31
  BY SectorRange
<1>2. Map!SectorOf(k) \in Nat /\ 31 * Map!SectorOf(k) <= k /\ k <= 31 * Map!SectorOf(k) + 31
  BY SectorRange
<1>3. j - k <= 31 /\ k - j <= 31
  BY <1>1, <1>2
<1>4. j % 32 = k % 32
  BY DEF Map!Shift, Map!WORD_BITS
<1>. QED
  BY <1>3, <1>4

-----------------------------------------------------------------------------
\* What one read or write does to the array the client sees.
LEMMA BitAt ==
  ASSUME NEW k \in BitNumbers
  PROVE  k \in Nat /\ Map!SectorOf(k) \in Map!SectorIndex /\ Map!Shift(k) \in 0..31 /\ Map!Shift(k + 1 - 1) = Map!Shift(k)
BY WordsAssumption DEF Map!Shift, Map!WORD_BITS

\* setBit_ and clrBit_ called with k + 1 write the position getBit_ reads for k.
LEMMA WritePosition ==
  ASSUME NEW k \in BitNumbers, NEW n
  PROVE  /\ Map!setBit_(n, k + 1) = [n EXCEPT ![Map!Shift(k)] = 1]
         /\ Map!clrBit_(n, k + 1) = [n EXCEPT ![Map!Shift(k)] = 0]
<1>1. ASSUME NEW m, NEW p, Map!Shift(m - 1) = p
      PROVE  Map!setBit_(n, m) = [n EXCEPT ![p] = 1] /\ Map!clrBit_(n, m) = [n EXCEPT ![p] = 0]
  BY <1>1 DEF Map!setBit_, Map!clrBit_
<1>2. Map!Shift((k + 1) - 1) = Map!Shift(k)
  BY BitAt
<1>. QED
  BY <1>1, <1>2

\* BitMapNewSector_ amounts to clearing the cell of bit 30 of the sector.
LEMMA NewSectorWrite ==
  ASSUME Map!TypeOK, NEW s \in Map!SectorIndex, Map!BitMapNewSector_(s)
  PROVE  words' = [words EXCEPT ![s] = [@ EXCEPT ![30] = 0]]
<1>1. Map!Shift(31 - 1) = 30
  BY DEF Map!Shift, Map!WORD_BITS
<1>2. words[s] \in [0..31 -> Map!Bit]
  BY DEF Map!TypeOK, Map!Word, Map!WORD_BITS
<1>3. Map!clrBit_(Map!setBit_(words[s], 31), 31) = [words[s] EXCEPT ![30] = 0]
  BY <1>1, <1>2 DEF Map!setBit_, Map!clrBit_
<1>. QED
  BY <1>3, Zenon DEF Map!BitMapNewSector_

\* Writing one cell of a word changes that bit and no other (setBit_, clrBit_).
LEMMA WriteCell ==
  ASSUME NEW k \in BitNumbers, NEW v \in Map!Bit, Map!TypeOK,
         words' = [words EXCEPT ![Map!SectorOf(k)] = [@ EXCEPT ![Map!Shift(k)] = v]]
  PROVE  Map!Bits' = [Map!Bits EXCEPT ![k] = v]
<1>1. words \in [Map!SectorIndex -> Map!Word]
  BY DEF Map!TypeOK
<1>2. ASSUME NEW j \in BitNumbers
      PROVE  words'[Map!SectorOf(j)][Map!Shift(j)] =
               IF j = k THEN v ELSE words[Map!SectorOf(j)][Map!Shift(j)]
  <2>1. /\ Map!SectorOf(j) \in Map!SectorIndex /\ Map!Shift(j) \in 0..31
        /\ Map!SectorOf(k) \in Map!SectorIndex /\ Map!Shift(k) \in 0..31
        /\ j \in Nat /\ k \in Nat
    BY BitAt
  <2>2. j # k => Map!SectorOf(j) # Map!SectorOf(k) \/ Map!Shift(j) # Map!Shift(k)
    BY <2>1, CellInjective
  <2>3. words[Map!SectorOf(j)] \in [0..31 -> Map!Bit] /\ words[Map!SectorOf(k)] \in [0..31 -> Map!Bit]
    BY <1>1, <2>1 DEF Map!Word, Map!WORD_BITS
  <2>. QED
    BY <1>1, <2>1, <2>2, <2>3
<1>. QED
  BY <1>2 DEF Map!Bits

LEMMA WordsInit == Map!Init => Map!TypeOK
BY WordsAssumption DEF Map!Init, Map!TypeOK, Map!Bit

\* A write of a 0 or a 1 anywhere keeps the words words.
LEMMA WordWritten ==
  ASSUME Map!TypeOK, NEW s \in Map!SectorIndex, NEW b \in 0..31, NEW v \in Map!Bit,
         words' = [words EXCEPT ![s] = [@ EXCEPT ![b] = v]]
  PROVE  words' \in [Map!SectorIndex -> Map!Word]
BY DEF Map!TypeOK, Map!Word, Map!WORD_BITS

LEMMA WordsStep == Map!TypeOK /\ [Map!Next]_(Map!vars) => Map!TypeOK'
<1> SUFFICES ASSUME Map!TypeOK, [Map!Next]_(Map!vars) PROVE Map!TypeOK'
  OBVIOUS
<1>1. ASSUME NEW k \in BitNumbers, Map!BitMapGetBit_(k) PROVE Map!TypeOK'
  <2>1. Map!SectorOf(k) \in Map!SectorIndex /\ Map!Shift(k) \in 0..31
    BY BitAt
  <2>. QED
    BY <1>1, <2>1 DEF Map!BitMapGetBit_, Map!getBit_, Map!TypeOK, Map!Word, Map!WORD_BITS
<1>2. ASSUME NEW k \in BitNumbers, Map!BitMapSetBit_(k) PROVE Map!TypeOK'
  <2>1. words' = [words EXCEPT ![Map!SectorOf(k)] = [@ EXCEPT ![Map!Shift(k)] = 1]]
    BY <1>2, WritePosition, Zenon DEF Map!BitMapSetBit_
  <2>2. Map!SectorOf(k) \in Map!SectorIndex /\ Map!Shift(k) \in 0..31 /\ 1 \in Map!Bit
    BY BitAt DEF Map!Bit
  <2>3. words' \in [Map!SectorIndex -> Map!Word]
    BY <2>1, <2>2, WordWritten, Zenon
  <2>. QED
    BY <1>2, <2>3 DEF Map!BitMapSetBit_, Map!TypeOK
<1>3. ASSUME NEW k \in BitNumbers, Map!BitMapClrBit_(k) PROVE Map!TypeOK'
  <2>1. words' = [words EXCEPT ![Map!SectorOf(k)] = [@ EXCEPT ![Map!Shift(k)] = 0]]
    BY <1>3, WritePosition, Zenon DEF Map!BitMapClrBit_
  <2>2. Map!SectorOf(k) \in Map!SectorIndex /\ Map!Shift(k) \in 0..31 /\ 0 \in Map!Bit
    BY BitAt DEF Map!Bit
  <2>3. words' \in [Map!SectorIndex -> Map!Word]
    BY <2>1, <2>2, WordWritten, Zenon
  <2>. QED
    BY <1>3, <2>3 DEF Map!BitMapClrBit_, Map!TypeOK
<1>4. ASSUME NEW s \in Map!SectorIndex, Map!BitMapNewSector_(s) PROVE Map!TypeOK'
  <2>1. words' = [words EXCEPT ![s] = [@ EXCEPT ![30] = 0]]
    BY <1>4, NewSectorWrite
  <2>2. 30 \in 0..31 /\ 0 \in Map!Bit
    BY DEF Map!Bit
  <2>3. words' \in [Map!SectorIndex -> Map!Word]
    BY <2>1, <2>2, WordWritten, Zenon
  <2>. QED
    BY <1>4, <2>3 DEF Map!BitMapNewSector_, Map!TypeOK
<1>5. CASE UNCHANGED <<words, answer>>
  BY <1>5 DEF Map!TypeOK
<1>. QED
  BY <1>1, <1>2, <1>3, <1>4, <1>5 DEF Map!Next, Map!vars

\* The words stay words of 32 bits, whatever lay in the memory beforehand.
THEOREM WordsTyped == WordsSpec => []Map!TypeOK
<1>1. Map!Init => Map!TypeOK
  BY WordsInit
<1>2. Map!TypeOK /\ [Map!Next]_(Map!vars) => Map!TypeOK'
  BY WordsStep
<1>. QED
  BY <1>1, <1>2, PTL DEF WordsSpec, Map!Spec

-----------------------------------------------------------------------------
LEMMA WordsBegin == Map!Init => Map!Array!Init
<1> SUFFICES ASSUME Map!Init PROVE Map!Array!Init
  OBVIOUS
<1>1. Map!TypeOK
  BY WordsInit
<1>2. ASSUME NEW k \in BitNumbers PROVE words[Map!SectorOf(k)][Map!Shift(k)] \in Map!Bit
  BY <1>1, BitAt DEF Map!TypeOK, Map!Word, Map!WORD_BITS
<1>. QED
  BY <1>2 DEF Map!Init, Map!Array!Init, Map!Bits, Map!Bit, Map!Array!Bit, Map!Array!NONE, Map!NONE

\* BitMapNewSector_ clears one bit of the client's, or none it uses.
LEMMA NewSectorRefines ==
  ASSUME Map!TypeOK, NEW s \in Map!SectorIndex, Map!BitMapNewSector_(s)
  PROVE  Map!Array!NewSector
<1>1. words' = [words EXCEPT ![s] = [@ EXCEPT ![30] = 0]]
  BY NewSectorWrite
<1>2. answer' = <<Map!NONE, Map!NONE>>
  BY DEF Map!BitMapNewSector_
<1>3. CASE \E k \in BitNumbers : Map!SectorOf(k) = s /\ Map!Shift(k) = 30
  <2>1. PICK k \in BitNumbers : Map!SectorOf(k) = s /\ Map!Shift(k) = 30
    BY <1>3
  <2>2. Map!Bits' = [Map!Bits EXCEPT ![k] = 0]
    BY <1>1, <2>1, WriteCell DEF Map!Bit
  <2>. QED
    BY <1>2, <2>2 DEF Map!Array!NewSector, Map!Array!NONE, Map!NONE
<1>4. CASE ~ \E k \in BitNumbers : Map!SectorOf(k) = s /\ Map!Shift(k) = 30
  <2>1. ASSUME NEW k \in BitNumbers
        PROVE  words'[Map!SectorOf(k)][Map!Shift(k)] = words[Map!SectorOf(k)][Map!Shift(k)]
    <3>1. Map!SectorOf(k) \in Map!SectorIndex /\ Map!Shift(k) \in 0..31
      BY BitAt
    <3>2. Map!SectorOf(k) # s \/ Map!Shift(k) # 30
      BY <1>4
    <3>3. words \in [Map!SectorIndex -> [0..31 -> Map!Bit]]
      BY DEF Map!TypeOK, Map!Word, Map!WORD_BITS
    <3>. QED
      BY <1>1, <3>1, <3>2, <3>3
  <2>2. Map!Bits' = Map!Bits
    BY <2>1 DEF Map!Bits
  <2>. QED
    BY <1>2, <2>2 DEF Map!Array!NewSector, Map!Array!NONE, Map!NONE
<1>. QED
  BY <1>3, <1>4

LEMMA WordsFollow == Map!TypeOK /\ [Map!Next]_(Map!vars) => [Map!Array!Next]_(Map!Array!vars)
<1> SUFFICES ASSUME Map!TypeOK, [Map!Next]_(Map!vars) PROVE [Map!Array!Next]_(Map!Array!vars)
  OBVIOUS
<1>1. ASSUME NEW k \in BitNumbers, Map!BitMapGetBit_(k) PROVE Map!Array!Next
  <2>1. Map!Bits' = Map!Bits /\ answer' = <<k, Map!Bits[k]>>
    BY <1>1 DEF Map!BitMapGetBit_, Map!getBit_, Map!Bits
  <2>. QED
    BY <2>1 DEF Map!Array!Next, Map!Array!Get
<1>2. ASSUME NEW k \in BitNumbers, Map!BitMapSetBit_(k) PROVE Map!Array!Next
  <2>1. words' = [words EXCEPT ![Map!SectorOf(k)] = [@ EXCEPT ![Map!Shift(k)] = 1]]
    BY <1>2, WritePosition, Zenon DEF Map!BitMapSetBit_
  <2>2. Map!Bits' = [Map!Bits EXCEPT ![k] = 1]
    BY <2>1, WriteCell DEF Map!Bit
  <2>. QED
    BY <1>2, <2>2 DEF Map!BitMapSetBit_, Map!Array!Next, Map!Array!Set, Map!Array!NONE, Map!NONE
<1>3. ASSUME NEW k \in BitNumbers, Map!BitMapClrBit_(k) PROVE Map!Array!Next
  <2>1. words' = [words EXCEPT ![Map!SectorOf(k)] = [@ EXCEPT ![Map!Shift(k)] = 0]]
    BY <1>3, WritePosition, Zenon DEF Map!BitMapClrBit_
  <2>2. Map!Bits' = [Map!Bits EXCEPT ![k] = 0]
    BY <2>1, WriteCell DEF Map!Bit
  <2>. QED
    BY <1>3, <2>2 DEF Map!BitMapClrBit_, Map!Array!Next, Map!Array!Clear, Map!Array!NONE, Map!NONE
<1>4. ASSUME NEW s \in Map!SectorIndex, Map!BitMapNewSector_(s)
      PROVE  Map!Array!Next
  BY <1>4, NewSectorRefines DEF Map!Array!Next
<1>5. CASE UNCHANGED <<words, answer>>
  BY <1>5 DEF Map!Bits, Map!Array!vars
<1>. QED
  BY <1>1, <1>2, <1>3, <1>4, <1>5 DEF Map!Next, Map!vars

\* Every read and write of libs/bitmap.c is a read or write of one bit of an
\* array of independent bits.
THEOREM BitMapRefinesBitArray == WordsSpec => RefinesBitArray
<1>1. Map!Init => Map!Array!Init
  BY WordsBegin
<1>2. Map!TypeOK /\ [Map!Next]_(Map!vars) => [Map!Array!Next]_(Map!Array!vars)
  BY WordsFollow
<1>3. WordsSpec => []Map!TypeOK
  BY WordsTyped
<1>. QED
  BY <1>1, <1>2, <1>3, PTL
     DEF WordsSpec, Map!Spec, RefinesBitArray, Map!RefinesBitArray, Map!Array!Spec
=============================================================================
