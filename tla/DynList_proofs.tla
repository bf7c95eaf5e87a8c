--------------------------- MODULE DynList_proofs ---------------------------
(***************************************************************************)
(* The dynamic list implements the sequence of module List, for every      *)
(* capacity it starts with and every sequence of calls, and never keeps    *)
(* four times the memory it needs.                                         *)
(***************************************************************************)
EXTENDS Klibc, SequenceTheorems, ArithmeticLemmas

\* The capacity never reaches 0, from which doubling would not lead away.
ListInv ==
  /\ TypeOK
  /\ capacity > 0

-----------------------------------------------------------------------------
(* The parts of the calls.                                                 *)

LEMMA Kept ==
  ASSUME ListInv, held
  PROVE  /\ capacity \in Nat /\ capacity > 0
         /\ total \in Nat /\ total <= capacity
         /\ items \in [0..(capacity - 1) -> Item \cup {NULL, JUNK}]
BY DEF ListInv, TypeOK

\* A resize keeps the items that have a place in the new memory.
LEMMA ResizedType ==
  ASSUME ListInv, NEW it \in [0..(capacity - 1) -> Item \cup {NULL, JUNK}], NEW n \in Nat
  PROVE  /\ Resized(it, n) \in [0..(n - 1) -> Item \cup {NULL, JUNK}]
         /\ \A k \in 0..(n - 1) : k < capacity => Resized(it, n)[k] = it[k]
BY DEF Resized, ListInv, TypeOK

LEMMA WithoutType ==
  ASSUME ListInv, NEW i \in Int, InList(i)
  PROVE  Without(items, i, total) \in [0..(capacity - 1) -> Item \cup {NULL, JUNK}]
<1>. SUFFICES ASSUME NEW k \in 0..(capacity - 1)
              PROVE  (IF i <= k /\ k < total - 1 THEN items[k + 1]
                      ELSE IF k = total - 1 THEN NULL ELSE items[k])
                       \in Item \cup {NULL, JUNK}
  BY DEF Without, ListInv, TypeOK
<1>1. i <= k /\ k < total - 1 => k + 1 \in 0..(capacity - 1)
  BY DEF ListInv, TypeOK, InList
<1>. QED
  BY <1>1 DEF ListInv, TypeOK

\* What is left after a halving: room for one item in two.
LEMMA HalvingLeavesRoom ==
  ASSUME NEW c \in Nat, NEW n \in Nat, n > 0, n = c \div 4
  PROVE  c \div 2 \in Nat /\ n < c \div 2 /\ n > (c \div 2) \div 4
OBVIOUS

-----------------------------------------------------------------------------
(* The invariant.                                                          *)

LEMMA ListInvInit == Init => ListInv
<1>. SUFFICES ASSUME Init PROVE ListInv
  OBVIOUS
<1>1. TypeOK
  BY DynListAssumption DEF Init, TypeOK
<1>. QED
  BY <1>1, DynListAssumption DEF Init, ListInv

LEMMA PushKeepsInv ==
  ASSUME ListInv, NEW x \in Item, dl_push(x)
  PROVE  ListInv'
<1>1. /\ capacity \in Nat /\ capacity > 0
      /\ total \in Nat /\ total <= capacity
      /\ items \in [0..(capacity - 1) -> Item \cup {NULL, JUNK}]
  BY Kept DEF dl_push
<1>2. CASE /\ ~Full
           /\ items' = [k \in DOMAIN items |-> IF k = total THEN x ELSE items[k]]
           /\ total' = total + 1
           /\ result' = <<"push", 0, SUCCESS>>
           /\ UNCHANGED <<capacity, held>>
  <2>1. items' \in [0..(capacity - 1) -> Item \cup {NULL, JUNK}]
    BY <1>1, <1>2
  <2>2. total' \in 0..capacity
    BY <1>1, <1>2 DEF Full
  <2>. QED
    BY <1>1, <1>2, <2>1, <2>2 DEF ListInv, TypeOK
<1>3. CASE /\ Full
           /\ Grant([Resized(items, capacity * 2) EXCEPT ![total] = x], capacity * 2)
           /\ total' = total + 1
           /\ result' = <<"push", 0, SUCCESS>>
  <2>1. capacity * 2 \in Nat /\ capacity * 2 > 0 /\ total + 1 \in 0..(capacity * 2)
    BY <1>1
  <2>2. items' \in [0..(capacity * 2 - 1) -> Item \cup {NULL, JUNK}]
    <3>1. Resized(items, capacity * 2) \in [0..(capacity * 2 - 1) -> Item \cup {NULL, JUNK}]
      BY <1>1, <2>1, ResizedType
    <3>. QED
      BY <1>3, <3>1 DEF Grant
  <2>. QED
    BY <1>3, <2>1, <2>2 DEF ListInv, TypeOK, Grant
<1>4. CASE Refuse(items) /\ UNCHANGED total /\ result' = <<"push", 0, UNDEFINE>>
  BY <1>4 DEF ListInv, TypeOK, Refuse
<1>. QED
  BY <1>2, <1>3, <1>4 DEF dl_push

LEMMA SetKeepsInv ==
  ASSUME ListInv, NEW i \in Index, NEW x \in Item, dl_set(i, x)
  PROVE  ListInv'
<1>1. items' \in [0..(capacity - 1) -> Item \cup {NULL, JUNK}]
  BY DEF dl_set, ListInv, TypeOK
<1>. QED
  BY <1>1 DEF dl_set, ListInv, TypeOK

LEMMA GetKeepsInv ==
  ASSUME ListInv, NEW i \in Index, dl_get(i)
  PROVE  ListInv'
<1>1. InList(i) => items[i] \in Item \cup {NULL, JUNK}
  BY DynListAssumption DEF ListInv, TypeOK, InList
<1>. QED
  BY <1>1 DEF dl_get, ListInv, TypeOK

LEMMA PopKeepsInv ==
  ASSUME ListInv, NEW i \in Index, dl_pop(i)
  PROVE  ListInv'
<1>1. /\ capacity \in Nat /\ capacity > 0
      /\ total \in Nat /\ total <= capacity
      /\ items \in [0..(capacity - 1) -> Item \cup {NULL, JUNK}]
  BY Kept DEF dl_pop
<1>2. CASE ~InList(i)
  <2>1. result' = <<"pop", i, UNDEFINE>> /\ UNCHANGED <<items, capacity, total, held>>
    BY <1>2 DEF dl_pop
  <2>. QED
    BY <2>1 DEF ListInv, TypeOK
<1>3. CASE InList(i)
  <2>. DEFINE it == Without(items, i, total)
  <2>1. /\ it \in [0..(capacity - 1) -> Item \cup {NULL, JUNK}]
        /\ total > 0
    BY <1>1, <1>3, WithoutType, DynListAssumption DEF InList
  <2>2. /\ total' = total - 1
        /\ result' = <<"pop", i, SUCCESS>>
        /\ IF Sparse(total - 1)
           THEN \/ Grant(Resized(it, capacity \div 2), capacity \div 2)
                \/ Refuse(it)
           ELSE items' = it /\ UNCHANGED <<capacity, held>>
    BY <1>3 DEF dl_pop
  <2>. HIDE DEF it
  <2>3. CASE capacity' = capacity /\ items' = it /\ held' \in BOOLEAN
    BY <1>1, <2>1, <2>2, <2>3 DEF ListInv, TypeOK
  <2>4. CASE Sparse(total - 1) /\ Grant(Resized(it, capacity \div 2), capacity \div 2)
    <3>1. /\ capacity \div 2 \in Nat /\ total - 1 < capacity \div 2
          /\ total - 1 \in Nat
      BY <1>1, <2>1, <2>4, HalvingLeavesRoom DEF Sparse
    <3>2. items' \in [0..(capacity \div 2 - 1) -> Item \cup {NULL, JUNK}]
      BY <2>1, <2>4, <3>1, ResizedType DEF Grant
    <3>. QED
      BY <2>2, <2>4, <3>1, <3>2 DEF ListInv, TypeOK, Grant
  <2>. QED
    BY <2>2, <2>3, <2>4 DEF Refuse, ListInv, TypeOK
<1>. QED
  BY <1>2, <1>3

LEMMA ListInvStep == ListInv /\ [Next]_vars => ListInv'
<1>. SUFFICES ASSUME ListInv, [Next]_vars PROVE ListInv'
  OBVIOUS
<1>1. ASSUME NEW x \in Item, dl_push(x) PROVE ListInv'
  BY <1>1, PushKeepsInv
<1>2. ASSUME NEW i \in Index, NEW x \in Item, dl_set(i, x) PROVE ListInv'
  BY <1>2, SetKeepsInv
<1>3. ASSUME NEW i \in Index, dl_get(i) PROVE ListInv'
  BY <1>3, GetKeepsInv
<1>4. ASSUME NEW i \in Index, dl_pop(i) PROVE ListInv'
  BY <1>4, PopKeepsInv
<1>5. CASE dl_free
  BY <1>5 DEF dl_free, ListInv, TypeOK
<1>6. CASE UNCHANGED vars
  BY <1>6 DEF vars, ListInv, TypeOK
<1>. QED
  BY <1>1, <1>2, <1>3, <1>4, <1>5, <1>6 DEF Next

\* Types of the list, among them that total never exceeds capacity and that
\* items has capacity places.
THEOREM ListIsTyped == Spec => []TypeOK
<1>1. ListInv => TypeOK
  BY DEF ListInv
<1>. QED
  BY <1>1, ListInvInit, ListInvStep, PTL DEF Spec

-----------------------------------------------------------------------------
(* The capacity.                                                           *)

LEMMA WasteStep ==
  ASSUME DL_INIT_CAPACITY > 2
  PROVE  ListInv /\ LittleWaste /\ [Next]_vars => LittleWaste'
<1>. SUFFICES ASSUME ListInv, LittleWaste, [Next]_vars,
                     capacity' > DL_INIT_CAPACITY, held'
              PROVE  total' > capacity' \div 4
  BY DEF LittleWaste
<1>1. /\ capacity \in Nat /\ capacity > 0 /\ total \in Nat /\ total <= capacity
      /\ DL_INIT_CAPACITY \in Nat
  BY DynListAssumption DEF ListInv, TypeOK
<1>2. ASSUME held, capacity' = capacity, total' \in Nat, total' >= total
      PROVE  total' > capacity' \div 4
  <2>1. total > capacity \div 4
    BY <1>2 DEF LittleWaste
  <2>2. capacity \div 4 \in Int /\ capacity' \div 4 = capacity \div 4
    BY <1>1, <1>2
  <2>. QED
    BY <1>1, <1>2, <2>1, <2>2
<1>3. ASSUME NEW x \in Item, dl_push(x) PROVE total' > capacity' \div 4
  <2>1. CASE ~Full /\ total' = total + 1 /\ UNCHANGED <<capacity, held>>
    BY <1>1, <1>2, <1>3, <2>1 DEF dl_push
  <2>2. CASE Full /\ capacity' = capacity * 2 /\ total' = total + 1
    <3>1. capacity + 1 > (capacity * 2) \div 4
      BY <1>1
    <3>. QED
      BY <2>2, <3>1 DEF Full
  <2>. QED
    BY <1>3, <2>1, <2>2 DEF dl_push, Grant, Refuse
<1>4. ASSUME NEW i \in Index, dl_pop(i) PROVE total' > capacity' \div 4
  <2>1. CASE UNCHANGED <<items, capacity, total, held>>
    BY <1>1, <1>2, <1>4, <2>1 DEF dl_pop
  <2>2. CASE /\ total' = total - 1 /\ InList(i)
             /\ ~Sparse(total - 1) /\ UNCHANGED <<capacity, held>>
    <3>1. total > capacity \div 4 /\ capacity > DL_INIT_CAPACITY
      BY <2>2 DEF LittleWaste
    <3>2. total - 1 > 0 => total - 1 # capacity \div 4
      BY <2>2 DEF Sparse
    <3>3. capacity >= 4 /\ total >= 1
      BY <1>1, <3>1
    <3>4. capacity \div 4 \in Nat /\ capacity \div 4 >= 1
      BY <1>1, <3>3
    <3>5. total - 1 > capacity \div 4
      BY <1>1, <3>1, <3>2, <3>3, <3>4
    <3>. QED
      BY <2>2, <3>5
  <2>3. CASE /\ total' = total - 1 /\ InList(i)
             /\ Sparse(total - 1) /\ capacity' = capacity \div 2
    <3>1. total - 1 \in Nat /\ total - 1 > 0 /\ total - 1 = capacity \div 4
      BY <1>1, <2>3 DEF Sparse
    <3>2. total - 1 > (capacity \div 2) \div 4
      BY <1>1, <3>1, HalvingLeavesRoom
    <3>. QED
      BY <2>3, <3>2
  <2>4. CASE InList(i)
    <3>. DEFINE it == Without(items, i, total)
    <3>1. /\ total' = total - 1
          /\ IF Sparse(total - 1)
             THEN \/ Grant(Resized(it, capacity \div 2), capacity \div 2)
                  \/ Refuse(it)
             ELSE items' = it /\ UNCHANGED <<capacity, held>>
      BY <1>4, <2>4 DEF dl_pop
    <3>. HIDE DEF it
    <3>. QED
      BY <2>2, <2>3, <2>4, <3>1 DEF Grant, Refuse
  <2>5. CASE ~InList(i)
    <3>1. UNCHANGED <<items, capacity, total, held>>
      BY <1>4, <2>5 DEF dl_pop
    <3>. QED
      BY <2>1, <3>1
  <2>. QED
    BY <2>4, <2>5
<1>5. CASE dl_free
  BY <1>5 DEF dl_free
<1>6. CASE UNCHANGED vars \/ (\E i \in Index, x \in Item : dl_set(i, x))
           \/ (\E i \in Index : dl_get(i))
  <2>1. UNCHANGED <<capacity, total, held>>
    BY <1>6 DEF vars, dl_set, dl_get
  <2>. QED
    BY <1>1, <1>2, <2>1
<1>. QED
  BY <1>3, <1>4, <1>5, <1>6 DEF Next

\* A list that has grown past its first capacity holds more than a quarter of
\* what it has room for, though dl_pop halves it only when total passes exactly
\* a quarter: pops and pushes in any order cannot step over that point.  (A
\* first capacity of 2 is left out; dynlist.h has 6.)
THEOREM ListIsDense ==
  ASSUME DL_INIT_CAPACITY > 2 PROVE Spec => []LittleWaste
<1>1. Init => ListInv /\ LittleWaste
  <2>1. Init => LittleWaste
    BY DynListAssumption DEF Init, LittleWaste
  <2>. QED
    BY <2>1, ListInvInit
<1>2. ListInv /\ LittleWaste /\ [Next]_vars => ListInv' /\ LittleWaste'
  BY ListInvStep, WasteStep
<1>. QED
  BY <1>1, <1>2, PTL DEF Spec

-----------------------------------------------------------------------------
(* The refinement.                                                         *)

LEMMA ItemsAre ==
  ASSUME ListInv
  PROVE  /\ Items \in Seq(Item \cup {NULL, JUNK})
         /\ Len(Items) = total /\ total \in Nat
         /\ \A k \in 1..total : Items[k] = items[k - 1]
         /\ Client!Position = 0..(total - 1)
         /\ \A i \in Int : InList(i) <=> i \in Client!Position
<1>1. total \in Nat /\ total <= capacity /\ capacity \in Nat
  BY DEF ListInv, TypeOK
<1>2. \A k \in 1..total : items[k - 1] \in Item \cup {NULL, JUNK}
  BY <1>1 DEF ListInv, TypeOK
<1>3. Items \in Seq(Item \cup {NULL, JUNK}) /\ Len(Items) = total
  BY <1>1, <1>2 DEF Items
<1>4. \A k \in 1..total : Items[k] = items[k - 1]
  BY DEF Items
<1>5. Client!Position = 0..(total - 1)
  BY <1>3 DEF Client!Position
<1>. QED
  BY <1>1, <1>3, <1>4, <1>5 DEF InList

\* The new list, once its places are known one by one.
LEMMA ItemsAfter ==
  ASSUME ListInv', NEW s \in Seq(Item \cup {NULL, JUNK}), Len(s) = total',
         \A k \in 1..Len(s) : s[k] = items'[k - 1]
  PROVE  Items' = s
<1>. DEFINE t == Items'
<1>1. total' \in Nat
  BY DEF ListInv, TypeOK
<1>2. t = [k \in 1..total' |-> items'[k - 1]]
  BY DEF Items
<1>3. s = [k \in 1..Len(s) |-> s[k]]
  BY LenProperties
<1>. QED
  BY <1>2, <1>3

LEMMA PushRefines ==
  ASSUME ListInv, ListInv', NEW x \in Item, dl_push(x), held'
  PROVE  Client!Push(x)
<1>. DEFINE s == Append(Items, x)
<1>1. /\ total \in Nat /\ total <= capacity /\ capacity \in Nat /\ capacity > 0 /\ held
      /\ items \in [0..(capacity - 1) -> Item \cup {NULL, JUNK}]
  BY DEF ListInv, TypeOK, dl_push
<1>2. s \in Seq(Item \cup {NULL, JUNK}) /\ Len(s) = total + 1
  BY ItemsAre, AppendProperties
<1>3. \A k \in 1..total : s[k] = items[k - 1]
  BY ItemsAre, AppendProperties
<1>4. s[total + 1] = x
  BY ItemsAre, AppendProperties
<1>5. /\ total' = total + 1 /\ result' = <<"push", 0, SUCCESS>>
      /\ items'[total] = x
      /\ \A k \in 1..total : items'[k - 1] = items[k - 1]
  <2>1. CASE /\ ~Full
             /\ items' = [k \in DOMAIN items |-> IF k = total THEN x ELSE items[k]]
             /\ total' = total + 1
             /\ result' = <<"push", 0, SUCCESS>>
    <3>1. total \in DOMAIN items /\ \A k \in 1..total : k - 1 \in DOMAIN items /\ k - 1 # total
      BY <1>1, <2>1 DEF Full
    <3>. QED
      BY <2>1, <3>1
  <2>2. CASE /\ Full
             /\ Grant([Resized(items, capacity * 2) EXCEPT ![total] = x], capacity * 2)
             /\ total' = total + 1
             /\ result' = <<"push", 0, SUCCESS>>
    <3>. DEFINE r == Resized(items, capacity * 2)
    <3>1. /\ r \in [0..(capacity * 2 - 1) -> Item \cup {NULL, JUNK}]
          /\ \A k \in 0..(capacity * 2 - 1) : k < capacity => r[k] = items[k]
      <4>1. capacity * 2 \in Nat
        BY <1>1
      <4>. QED
        BY Zenon, <1>1, <4>1, ResizedType
    <3>2. items' = [r EXCEPT ![total] = x] /\ capacity = total
      BY <2>2 DEF Grant, Full
    <3>. HIDE DEF r
    <3>3. total \in 0..(capacity * 2 - 1)
      BY <1>1, <3>2
    <3>4. items'[total] = x
      BY <3>1, <3>2, <3>3
    <3>5. ASSUME NEW k \in 1..total PROVE items'[k - 1] = items[k - 1]
      <4>1. k - 1 \in 0..(capacity * 2 - 1) /\ k - 1 < capacity /\ k - 1 # total
        BY <1>1, <3>2
      <4>. QED
        BY <3>1, <3>2, <4>1
    <3>. QED
      BY <2>2, <3>4, <3>5
  <2>. QED
    BY <1>1, <2>1, <2>2 DEF dl_push, Refuse
<1>. HIDE DEF s
<1>6. \A k \in 1..Len(s) : s[k] = items'[k - 1]
  <2>. SUFFICES ASSUME NEW k \in 1..(total + 1) PROVE s[k] = items'[k - 1]
    BY <1>2
  <2>1. CASE k = total + 1
    BY <1>1, <1>4, <1>5, <2>1
  <2>2. CASE k \in 1..total
    BY <1>3, <1>5, <2>2
  <2>. QED
    BY <1>1, <2>1, <2>2
<1>7. Items' = s
  BY <1>2, <1>5, <1>6, ItemsAfter
<1>. QED
  BY <1>5, <1>7 DEF Client!Push, s

LEMMA SetRefines ==
  ASSUME ListInv, ListInv', NEW i \in Index, NEW x \in Item, dl_set(i, x)
  PROVE  Client!Set(i, x)
<1>1. /\ total \in Nat /\ total <= capacity /\ capacity \in Nat
      /\ i \in Int /\ total' = total
      /\ items \in [0..(capacity - 1) -> Item \cup {NULL, JUNK}]
  BY DynListAssumption DEF ListInv, TypeOK, dl_set
<1>2. CASE InList(i)
  <2>. DEFINE s == [Items EXCEPT ![i + 1] = x]
  <2>1. i + 1 \in 1..total /\ i \in Client!Position
    BY <1>1, <1>2, ItemsAre DEF InList
  <2>2. s \in Seq(Item \cup {NULL, JUNK}) /\ Len(s) = total
    BY <2>1, ItemsAre, ExceptSeq
  <2>3. \A k \in 1..total : s[k] = IF k = i + 1 THEN x ELSE items[k - 1]
    BY <2>1, ItemsAre
  <2>4. items' = [items EXCEPT ![i] = x] /\ result' = <<"set", i, SUCCESS>>
    BY <1>2 DEF dl_set
  <2>. HIDE DEF s
  <2>5. ASSUME NEW k \in 1..total PROVE s[k] = items'[k - 1]
    <3>1. k - 1 \in 0..(capacity - 1) /\ (k - 1 = i <=> k = i + 1)
      BY <1>1
    <3>. QED
      BY <1>1, <2>3, <2>4, <3>1
  <2>6. Items' = s
    BY <1>1, <2>2, <2>5, ItemsAfter
  <2>. QED
    BY <2>1, <2>4, <2>6 DEF Client!Set, s
<1>3. CASE ~InList(i)
  <2>1. items' = items /\ result' = <<"set", i, UNDEFINE>> /\ i \notin Client!Position
    BY <1>1, <1>3, ItemsAre DEF dl_set
  <2>2. Items' = Items
    BY <1>1, <2>1 DEF Items
  <2>. QED
    BY <2>1, <2>2 DEF Client!Set
<1>. QED
  BY <1>2, <1>3

LEMMA GetRefines ==
  ASSUME ListInv, NEW i \in Index, dl_get(i)
  PROVE  Client!Get(i)
<1>1. i \in Int /\ Items' = Items
  BY DynListAssumption DEF dl_get, Items
<1>2. InList(i) <=> i \in Client!Position
  BY <1>1, ItemsAre
<1>3. InList(i) => Items[i + 1] = items[i]
  <2>. SUFFICES ASSUME InList(i) PROVE Items[i + 1] = items[i]
    OBVIOUS
  <2>1. i + 1 \in 1..total /\ (i + 1) - 1 = i
    BY <1>1, ItemsAre DEF InList
  <2>. QED
    BY <2>1, ItemsAre
<1>. QED
  BY <1>1, <1>2, <1>3 DEF dl_get, Client!Get

LEMMA PopRefines ==
  ASSUME ListInv, ListInv', NEW i \in Index, dl_pop(i), held'
  PROVE  Client!Pop(i)
<1>1. /\ total \in Nat /\ total <= capacity /\ capacity \in Nat /\ capacity > 0 /\ held
      /\ i \in Int
      /\ items \in [0..(capacity - 1) -> Item \cup {NULL, JUNK}]
  BY DynListAssumption DEF ListInv, TypeOK, dl_pop
<1>2. CASE ~InList(i)
  <2>1. /\ result' = <<"pop", i, UNDEFINE>> /\ UNCHANGED <<items, capacity, total, held>>
        /\ i \notin Client!Position
    BY <1>1, <1>2, ItemsAre DEF dl_pop
  <2>2. Items' = Items
    BY <2>1 DEF Items
  <2>. QED
    BY <2>1, <2>2 DEF Client!Pop
<1>3. CASE InList(i)
  <2>. DEFINE it == Without(items, i, total)
              h == SubSeq(Items, 1, (i + 1) - 1)
              t == SubSeq(Items, (i + 1) + 1, Len(Items))
              s == h \o t
              V == Item \cup {NULL, JUNK}
  <2>1. i >= 0 /\ i < total /\ i \in Client!Position
    BY <1>1, <1>3, ItemsAre DEF InList
  <2>2. /\ total' = total - 1
        /\ result' = <<"pop", i, SUCCESS>>
        /\ IF Sparse(total - 1)
           THEN \/ Grant(Resized(it, capacity \div 2), capacity \div 2)
                \/ Refuse(it)
           ELSE items' = it /\ UNCHANGED <<capacity, held>>
    BY <1>3 DEF dl_pop
  <2>3. it \in [0..(capacity - 1) -> V]
    BY <1>1, <1>3, WithoutType
  <2>4. \A k \in 0..(total - 2) : it[k] = IF i <= k THEN items[k + 1] ELSE items[k]
    <3>. SUFFICES ASSUME NEW k \in 0..(total - 2)
                  PROVE  it[k] = IF i <= k THEN items[k + 1] ELSE items[k]
      OBVIOUS
    <3>1. k \in DOMAIN items /\ k < total - 1 /\ k # total - 1
      BY <1>1
    <3>. QED
      BY <3>1 DEF Without
  <2>. HIDE DEF it
  <2>5. \A k \in 0..(total - 2) : items'[k] = it[k]
    <3>1. CASE items' = it
      BY <3>1
    <3>2. CASE Sparse(total - 1) /\ Grant(Resized(it, capacity \div 2), capacity \div 2)
      <4>1. /\ capacity \div 2 \in Nat /\ total - 1 < capacity \div 2
            /\ total - 1 \in Nat
        BY <1>1, <2>1, <3>2, HalvingLeavesRoom DEF Sparse
      <4>. DEFINE c == capacity \div 2
      <4>2. items' = Resized(it, c)
        BY <3>2 DEF Grant
      <4>3. c \in Nat /\ total - 1 < c
        BY <4>1
      <4>. HIDE DEF c
      <4>4. \A k \in 0..(c - 1) : k < capacity => Resized(it, c)[k] = it[k]
        BY <2>3, <4>3, ResizedType
      <4>5. \A k \in 0..(total - 2) : k \in 0..(c - 1) /\ k < capacity
        BY <1>1, <4>3
      <4>. QED
        BY <4>2, <4>4, <4>5
    <3>. QED
      BY <2>2, <3>1, <3>2 DEF Refuse
  <2>6. Items \in Seq(V) /\ Len(Items) = total /\ \A k \in 1..total : Items[k] = items[k - 1]
    BY ItemsAre
  <2>. HIDE DEF V
  <2>7. h \in Seq(V) /\ Len(h) = i /\ \A k \in 1..i : h[k] = items[k - 1]
    <3>1. h \in Seq(V) /\ Len(h) = i /\ \A k \in 1..i : h[k] = Items[k]
      BY <1>1, <2>1, <2>6, SubSeqProperties
    <3>. QED
      BY <1>1, <2>1, <2>6, <3>1
  <2>8. /\ t \in Seq(V) /\ Len(t) = total - 1 - i
        /\ \A k \in 1..(total - 1 - i) : t[k] = items[k + i]
    <3>1. i + 1 <= total
      BY <1>1, <2>1
    <3>2. t = SubSeq(Items, i + 2, total)
      BY <1>1, <2>6
    <3>3. CASE i + 2 <= total
      <4>1. /\ t \in Seq(V) /\ Len(t) = total - (i + 2) + 1
            /\ \A k \in 1..(total - (i + 2) + 1) : t[k] = Items[(i + 2) + k - 1]
        <5>. HIDE DEF t
        <5>. QED
          BY <1>1, <2>1, <2>6, <3>2, <3>3, SubSeqProperties
      <4>. HIDE DEF t
      <4>2. total - (i + 2) + 1 = total - 1 - i
        BY <1>1
      <4>3. ASSUME NEW k \in 1..(total - 1 - i) PROVE t[k] = items[k + i]
        <5>1. (i + 2) + k - 1 \in 1..total /\ ((i + 2) + k - 1) - 1 = k + i
          BY <1>1, <2>1
        <5>. QED
          BY <2>6, <4>1, <4>2, <5>1
      <4>. QED
        BY <4>1, <4>2, <4>3
    <3>4. CASE i + 1 = total
      <4>1. t = <<>>
        BY <1>1, <2>6, <3>2, <3>4, SubSeqEmpty
      <4>. QED
        BY <1>1, <3>4, <4>1
    <3>5. i + 2 <= total \/ i + 1 = total
      <4>. HIDE DEF h, t, s
      <4>. QED
        BY <1>1, <2>1, <3>1
    <3>. HIDE DEF h, t, s
    <3>. QED
      BY <3>3, <3>4, <3>5
  <2>. HIDE DEF h, t
  <2>9. /\ s \in Seq(V) /\ Len(s) = total - 1
        /\ \A k \in 1..(total - 1) : s[k] = IF k <= i THEN h[k] ELSE t[k - i]
    <3>1. s \in Seq(V) /\ Len(s) = Len(h) + Len(t)
      BY <2>7, <2>8, ConcatProperties
    <3>2. Len(s) = total - 1
      BY <1>1, <2>7, <2>8, <3>1
    <3>. QED
      BY <1>1, <2>7, <2>8, <3>1, <3>2, ConcatProperties
  <2>. HIDE DEF s
  <2>10. ASSUME NEW k \in 1..Len(s) PROVE s[k] = items'[k - 1]
    <3>1. k \in 1..(total - 1) /\ k - 1 \in 0..(total - 2)
      BY <1>1, <2>9
    <3>2. items'[k - 1] = IF i <= k - 1 THEN items[(k - 1) + 1] ELSE items[k - 1]
      BY <2>4, <2>5, <3>1
    <3>3. CASE k <= i
      <4>1. k \in 1..i /\ ~(i <= k - 1)
        BY <1>1, <3>1, <3>3
      <4>. QED
        BY <2>7, <2>9, <3>1, <3>2, <3>3, <4>1
    <3>4. CASE ~(k <= i)
      <4>1. k - i \in 1..(total - 1 - i) /\ i <= k - 1 /\ (k - i) + i = (k - 1) + 1
        BY <1>1, <3>1, <3>4
      <4>. QED
        BY <2>8, <2>9, <3>1, <3>2, <3>4, <4>1
    <3>. QED
      BY <3>3, <3>4
  <2>11. Items' = s
    BY <2>2, <2>9, <2>10, ItemsAfter DEF V
  <2>. QED
    BY <2>1, <2>2, <2>11 DEF Client!Pop, Client!RemoveAt, s, h, t
<1>. QED
  BY <1>2, <1>3

\* Whatever is pushed, set and popped, and however often the memory is doubled
\* and halved on the way, the items are those of the sequence, and each call
\* returns what it would, until the heap refuses a resize or the list is freed.
THEOREM DynListRefinesList == Spec => RefinesList
<1>1. Init => Client!Init
  <2>. SUFFICES ASSUME Init PROVE Client!Init
    OBVIOUS
  <2>1. Items = <<>>
    BY DEF Init, Items
  <2>. QED
    BY <2>1 DEF Init, Client!Init
<1>2. ListInv /\ ListInv' /\ [Next]_vars => [Client!Next]_(Client!vars)
  <2>. SUFFICES ASSUME ListInv, ListInv', [Next]_vars
                PROVE  [Client!Next]_(Client!vars)
    OBVIOUS
  <2>1. CASE UNCHANGED vars
    BY <2>1 DEF vars, Client!vars, Items
  <2>2. CASE Next /\ ~held'
    BY <2>2 DEF Client!Next
  <2>3. CASE Next /\ held'
    <3>1. held
      BY <2>3 DEF Next, dl_push, dl_set, dl_get, dl_pop, dl_free
    <3>2. Client!Operation
      BY <2>3, PushRefines, SetRefines, GetRefines, PopRefines
         DEF Next, dl_free, Client!Operation
    <3>. QED
      BY <2>3, <3>1, <3>2 DEF Client!Next
  <2>4. held' \in BOOLEAN
    BY DEF ListInv, TypeOK
  <2>. QED
    BY <2>1, <2>2, <2>3, <2>4
<1>3. ListInv /\ [Next]_vars => ListInv'
  BY ListInvStep
<1>. QED
  BY <1>1, <1>2, <1>3, ListInvInit, PTL DEF Spec, RefinesList, Client!Spec

-----------------------------------------------------------------------------
(* A path is cut into its names (Strtok).                                  *)

\* Where the names of the path end: behind their last character.
Ends == {q \in 2..(Len(path) + 1) :
           path[q - 1] # SLASH /\ (q <= Len(path) => path[q] = SLASH)}

\* The buffer once the names that end before b are cut off.
CutTo(b) ==
  [q \in 1..(Len(path) + 1) |->
     IF q > Len(path) \/ (q \in Ends /\ q < b) THEN NUL ELSE path[q]]

\* strtok may go on at b: no name lies across it.
Boundary(b) ==
  /\ b \in 1..(Len(path) + 1)
  /\ b = 1 \/ b = Len(path) + 1 \/ path[b - 1] = SLASH

\* t points to the names that begin before b, in order.
Points(t, b) ==
  /\ t \in Seq(Nat)
  /\ \A k \in 1..Len(t) : t[k] \in Cut!Starts /\ t[k] < b
  /\ \A p \in Cut!Starts : p < b => \E k \in 1..Len(t) : t[k] = p
  /\ \A j, k \in 1..Len(t) : j < k => t[j] < t[k]

CutInv ==
  /\ path \in Seq(Letter \cup {SLASH}) /\ tokens \in Seq(Nat)
  /\ lookups \in Nat
  /\ lookups = 0 => buf = CutTo(1) /\ ~cutting
  /\ lookups = 1 =>
       IF cutting
       THEN /\ Boundary(backup_string)
            /\ buf = CutTo(backup_string) /\ Points(tokens, backup_string)
       ELSE /\ buf = CutTo(Len(path) + 2) /\ Points(tokens, Len(path) + 2)
  /\ lookups > 1 =>
       /\ buf = CutTo(Len(path) + 2)
       /\ IF Cut!Starts = {} THEN tokens = <<>> /\ ~cutting
          ELSE /\ tokens = <<Cut!Min(Cut!Starts)>>
               /\ cutting => backup_string \in Ends

-----------------------------------------------------------------------------
LEMMA MinOfNaturals ==
  ASSUME NEW T \in SUBSET Nat, T # {}
  PROVE  Cut!Min(T) \in T /\ \A y \in T : Cut!Min(T) <= y
<1>1. PICK m \in T : \A y \in T : m <= y
  BY LeastNatural
<1>. QED
  BY <1>1 DEF Cut!Min

LEMMA MinIs ==
  ASSUME NEW T \in SUBSET Nat, NEW m \in T, \A y \in T : m <= y
  PROVE  Cut!Min(T) = m
<1>1. Cut!Min(T) \in T /\ Cut!Min(T) <= m
  BY MinOfNaturals
<1>2. m <= Cut!Min(T) /\ m \in Nat /\ Cut!Min(T) \in Nat
  BY <1>1
<1>. QED
  BY <1>1, <1>2

LEMMA PathFacts ==
  ASSUME path \in Seq(Letter \cup {SLASH})
  PROVE  /\ Len(path) \in Nat /\ DOMAIN path = 1..Len(path)
         /\ \A q \in 1..Len(path) : path[q] \in Letter \cup {SLASH} /\ path[q] # NUL
         /\ Cut!Starts = {p \in 1..Len(path) : path[p] # SLASH /\ (p > 1 => path[p - 1] = SLASH)}
         /\ Cut!Starts \in SUBSET Nat /\ Ends \in SUBSET Nat
BY ElementOfSeq, LenProperties, StrtokAssumption DEF Cut!Starts, Ends

\* The end of the name that begins at t.
LEMMA NameEnds ==
  ASSUME path \in Seq(Letter \cup {SLASH}), NEW t \in Cut!Starts
  PROVE  \E e \in Ends : t < e /\ \A q \in t..(e - 1) : q \in 1..Len(path) /\ path[q] # SLASH
<1>. DEFINE T == {q \in Nat : t <= q /\ (q <= Len(path) => path[q] = SLASH)}
<1>1. Len(path) \in Nat /\ t \in 1..Len(path) /\ path[t] # SLASH
  BY PathFacts
<1>2. PICK e \in T : \A q \in T : e <= q
  <2>1. Len(path) + 1 \in T /\ T \in SUBSET Nat
    BY <1>1
  <2>. HIDE DEF T
  <2>. QED
    BY <2>1, LeastNatural
<1>3. e <= Len(path) + 1
  <2>1. Len(path) + 1 \in T
    BY <1>1
  <2>. QED
    BY <1>2, <2>1
<1>4. e \in Nat /\ t < e
  BY <1>1, <1>2
<1>5. ASSUME NEW q \in t..(e - 1) PROVE q \in 1..Len(path) /\ path[q] # SLASH
  <2>1. q \in Nat /\ q < e /\ t <= q /\ q \in 1..Len(path)
    BY <1>1, <1>3, <1>4
  <2>2. q \notin T
    BY <1>2, <1>4, <2>1
  <2>. QED
    BY <2>1, <2>2
<1>6. e \in Ends
  <2>1. e - 1 \in t..(e - 1) /\ e \in 2..(Len(path) + 1)
    BY <1>1, <1>3, <1>4
  <2>2. e <= Len(path) => path[e] = SLASH
    BY <1>2
  <2>. QED
    BY <1>5, <2>1, <2>2 DEF Ends
<1>. QED
  BY <1>4, <1>5, <1>6

\* From the beginning of a name strtok finds its end, whatever is cut before.
LEMMA FindsEnd ==
  ASSUME path \in Seq(Letter \cup {SLASH}), NEW t \in Cut!Starts, NEW e \in Ends,
         t < e, \A q \in t..(e - 1) : q \in 1..Len(path) /\ path[q] # SLASH,
         NEW b \in Nat, buf = CutTo(b)
  PROVE  /\ Cut!Find(t, {SLASH, NUL}) = e
         /\ e < b => Cut!Find(t, {NUL}) = e
         /\ \A q \in t..(e - 1) : buf[q] = path[q]
<1>1. Len(path) \in Nat /\ t \in 1..Len(path) /\ e \in 2..(Len(path) + 1)
  BY PathFacts DEF Ends
<1>2. DOMAIN buf = 1..(Len(path) + 1)
  BY DEF CutTo
<1>3. ASSUME NEW q \in t..(e - 1) PROVE buf[q] = path[q] /\ buf[q] \notin {SLASH, NUL}
  <2>1. q \in 1..Len(path) /\ path[q] # SLASH /\ path[q] # NUL
    BY PathFacts
  <2>2. q \notin Ends /\ ~(q > Len(path)) /\ q \in 1..(Len(path) + 1)
    BY <1>1, <2>1 DEF Ends
  <2>. QED
    BY <2>1, <2>2 DEF CutTo
<1>4. buf[e] \in {SLASH, NUL} /\ (e < b => buf[e] = NUL)
  BY <1>1 DEF Ends, CutTo
<1>5. ASSUME NEW C, buf[e] \in C, C \subseteq {SLASH, NUL} PROVE Cut!Find(t, C) = e
  <2>. DEFINE T == {q \in DOMAIN buf : q >= t /\ Cut!is_delim(buf[q], C)}
  <2>1. e \in T
    BY <1>1, <1>2, <1>5 DEF Cut!is_delim
  <2>2. \A q \in T : e <= q
    <3>. SUFFICES ASSUME NEW q \in T, q < e PROVE FALSE
      BY <1>1, <1>2
    <3>1. q \in t..(e - 1)
      BY <1>1, <1>2
    <3>. QED
      BY <1>3, <1>5, <3>1 DEF Cut!is_delim
  <2>3. T \in SUBSET Nat
    BY <1>1, <1>2
  <2>. QED
    BY <2>1, <2>2, <2>3, MinIs DEF Cut!Find
<1>. QED
  BY <1>3, <1>4, <1>5

\* Between names strtok skips the slashes, to the next name or to the end.
LEMMA SkipsSlashes ==
  ASSUME path \in Seq(Letter \cup {SLASH}), NEW b, Boundary(b),
         NEW c \in {b, Len(path) + 2}, buf = CutTo(c), c # b => b = 1,
         NEW ret, ret = Cut!Skip(b, {SLASH})
  PROVE  /\ ret \in b..(Len(path) + 1)
         /\ buf[ret] = NUL <=> ret = Len(path) + 1
         /\ ret # Len(path) + 1 => ret \in Cut!Starts
         /\ \A p \in Cut!Starts : b <= p => ret <= p
         /\ \A q \in b..(ret - 1) : q \in 1..Len(path) /\ path[q] = SLASH
<1>. DEFINE T == {q \in DOMAIN buf : q >= b /\ ~Cut!is_delim(buf[q], {SLASH})}
<1>1. Len(path) \in Nat /\ b \in 1..(Len(path) + 1) /\ b \in Nat
  BY PathFacts DEF Boundary
<1>2. DOMAIN buf = 1..(Len(path) + 1) /\ T \in SUBSET Nat
  BY <1>1 DEF CutTo
<1>3. Len(path) + 1 \in T
  BY <1>1, <1>2, StrtokAssumption DEF CutTo, Cut!is_delim
<1>4. ret \in T /\ \A q \in T : ret <= q
  <2>. HIDE DEF T
  <2>1. Cut!Min(T) \in T /\ \A q \in T : Cut!Min(T) <= q
    BY <1>2, <1>3, MinOfNaturals
  <2>. QED
    BY <2>1 DEF T, Cut!Skip
<1>5. ret \in b..(Len(path) + 1) /\ buf[ret] # SLASH
  BY <1>1, <1>2, <1>4 DEF Cut!is_delim
<1>6. ASSUME NEW q \in b..(ret - 1) PROVE q \in 1..Len(path) /\ path[q] = SLASH
  <2>1. q \in 1..Len(path) /\ q < ret /\ q \in DOMAIN buf /\ q >= b
    BY <1>1, <1>2, <1>5
  <2>2. q \notin T
    <3>. HIDE DEF T
    <3>1. ret \in Nat /\ q \in Nat /\ ~(ret <= q)
      BY <1>1, <1>5, <2>1
    <3>. QED
      BY <1>4, <3>1
  <2>3. buf[q] = SLASH
    BY <2>1, <2>2 DEF Cut!is_delim
  <2>. QED
    BY <2>1, <2>3, StrtokAssumption DEF CutTo
<1>7. ASSUME ret <= Len(path) PROVE ret \in Cut!Starts /\ buf[ret] # NUL
  <2>1. ret \in 1..Len(path)
    BY <1>1, <1>5, <1>7
  <2>2. ret > 1 => path[ret - 1] = SLASH
    <3>1. CASE ret > b
      <4>1. ret - 1 \in b..(ret - 1)
        BY <1>1, <1>5, <3>1
      <4>. QED
        BY <1>6, <4>1
    <3>2. CASE ret = b
      BY <1>1, <2>1, <3>2 DEF Boundary
    <3>. QED
      BY <1>1, <1>5, <3>1, <3>2
  <2>3. ret \notin Ends
    <3>. SUFFICES ASSUME ret \in Ends PROVE FALSE
      OBVIOUS
    <3>1. ret > 1 /\ path[ret - 1] # SLASH
      BY <1>1 DEF Ends
    <3>. QED
      BY <2>2, <3>1
  <2>4. buf[ret] = path[ret]
    BY <2>1, <2>3, <1>1 DEF CutTo
  <2>. QED
    BY <1>5, <2>1, <2>2, <2>4, PathFacts
<1>8. ASSUME NEW p \in Cut!Starts, b <= p PROVE ret <= p
  <2>. SUFFICES ASSUME p < ret PROVE FALSE
    BY <1>1, <1>5, PathFacts
  <2>1. p \in b..(ret - 1)
    BY <1>1, <1>5, <1>8, PathFacts
  <2>. QED
    BY <1>6, <2>1, PathFacts
<1>9. buf[Len(path) + 1] = NUL
  BY <1>1 DEF CutTo
<1>10. ret # Len(path) + 1 => ret <= Len(path)
  BY <1>1, <1>5
<1>. QED
  BY <1>5, <1>6, <1>7, <1>8, <1>9, <1>10

\* A name is cut off, and its pointer pushed.
LEMMA CutsName ==
  ASSUME path \in Seq(Letter \cup {SLASH}), NEW b, Boundary(b), buf = CutTo(b),
         NEW earlier, Points(earlier, b), Cut!strtok(b, earlier)
  PROVE  IF cutting'
         THEN /\ Boundary(backup_string') /\ buf' = CutTo(backup_string')
              /\ Points(tokens', backup_string')
         ELSE buf' = CutTo(Len(path) + 2) /\ Points(tokens', Len(path) + 2)
<1>. DEFINE ret == Cut!Skip(b, {SLASH})
            cut == Cut!Find(ret, {SLASH, NUL})
            c == Cut!GoOn(cut)
<1>0. Len(path) \in Nat /\ b \in 1..(Len(path) + 1) /\ b \in Nat
  BY PathFacts DEF Boundary
<1>1. /\ ret \in b..(Len(path) + 1)
      /\ buf[ret] = NUL <=> ret = Len(path) + 1
      /\ ret # Len(path) + 1 => ret \in Cut!Starts
      /\ \A p \in Cut!Starts : b <= p => ret <= p
      /\ \A q \in b..(ret - 1) : q \in 1..Len(path) /\ path[q] = SLASH
  BY SkipsSlashes
<1>2. IF buf[ret] = NUL
      THEN cutting' = FALSE /\ tokens' = earlier /\ buf' = buf
      ELSE /\ cutting' = TRUE /\ tokens' = Append(earlier, ret)
           /\ buf' = Cut!CutAt(cut) /\ backup_string' = c
  BY DEF Cut!strtok
<1>. HIDE DEF ret
<1>3. ASSUME buf[ret] = NUL
      PROVE  buf' = CutTo(Len(path) + 2) /\ Points(tokens', Len(path) + 2)
  <2>1. ret = Len(path) + 1
    BY <1>1, <1>3
  <2>2. \A p \in Cut!Starts : p < b /\ p < Len(path) + 2
    BY <1>0, <1>1, <2>1, PathFacts
  <2>3. Points(tokens', Len(path) + 2)
    BY <1>2, <1>3, <2>2 DEF Points
  <2>4. \A q \in Ends : q < b \/ q = Len(path) + 1
    <3>. SUFFICES ASSUME NEW q \in Ends, b <= q, q <= Len(path) PROVE FALSE
      BY <1>0 DEF Ends
    <3>1. q \in 2..Len(path) /\ path[q - 1] # SLASH
      BY <1>0 DEF Ends
    <3>2. CASE q = b
      BY <1>0, <3>1, <3>2 DEF Boundary
    <3>3. CASE q > b
      <4>1. q - 1 \in b..(ret - 1)
        BY <1>0, <2>1, <3>1, <3>3
      <4>. QED
        BY <1>1, <3>1, <4>1
    <3>. QED
      BY <1>0, <3>1, <3>2, <3>3
  <2>5. CutTo(b) = CutTo(Len(path) + 2)
    <3>. SUFFICES ASSUME NEW q \in 1..(Len(path) + 1)
                  PROVE  (q > Len(path) \/ (q \in Ends /\ q < b))
                           <=> (q > Len(path) \/ (q \in Ends /\ q < Len(path) + 2))
      BY DEF CutTo
    <3>. QED
      BY <1>0, <2>4
  <2>. QED
    BY <1>2, <1>3, <2>3, <2>5
<1>4. ASSUME buf[ret] # NUL
      PROVE  Boundary(c) /\ Cut!CutAt(cut) = CutTo(c) /\ Points(Append(earlier, ret), c)
  <2>1. ret \in Cut!Starts /\ ret \in 1..Len(path)
    BY <1>0, <1>1, <1>4
  <2>2. PICK e \in Ends : ret < e /\ \A q \in ret..(e - 1) : q \in 1..Len(path) /\ path[q] # SLASH
    BY <2>1, NameEnds
  <2>3. cut = e
    BY <1>0, <2>1, <2>2, FindsEnd
  <2>4. e \in 2..(Len(path) + 1) /\ (e <= Len(path) => path[e] = SLASH)
    BY DEF Ends
  <2>5. buf[e] = NUL <=> e = Len(path) + 1
    <3>1. ~(e < b)
      BY <1>0, <1>1, <2>1, <2>2, <2>4
    <3>. QED
      BY <1>0, <2>4, <3>1, StrtokAssumption DEF CutTo
  <2>6. c = IF e = Len(path) + 1 THEN e ELSE e + 1
    BY <2>3, <2>5 DEF Cut!GoOn
  <2>. HIDE DEF c, cut
  <2>7. Boundary(c)
    BY <1>0, <2>4, <2>6 DEF Boundary
  <2>8. ASSUME NEW q \in Ends, b <= q, q < c, q <= Len(path) PROVE q = e
    <3>1. q \in 2..Len(path) /\ path[q - 1] # SLASH /\ path[q] = SLASH
      BY <1>0, <2>8 DEF Ends
    <3>2. q # b
      BY <1>0, <3>1 DEF Boundary
    <3>3. ~(q <= ret)
      <4>. SUFFICES ASSUME q <= ret PROVE FALSE
        OBVIOUS
      <4>1. q - 1 \in b..(ret - 1)
        BY <1>0, <2>1, <2>8, <3>1, <3>2
      <4>. QED
        BY <1>1, <3>1, <4>1
    <3>4. ~(q < e)
      <4>. SUFFICES ASSUME q < e PROVE FALSE
        OBVIOUS
      <4>1. q \in ret..(e - 1)
        BY <2>1, <2>4, <3>1, <3>3
      <4>. QED
        BY <2>2, <3>1, <4>1
    <3>. QED
      BY <1>0, <2>4, <2>6, <2>8, <3>1, <3>4
  <2>9. Cut!CutAt(cut) = CutTo(c)
    <3>1. Cut!CutAt(cut) = [q \in 1..(Len(path) + 1) |-> IF q = e THEN NUL ELSE buf[q]]
      BY <2>3 DEF Cut!CutAt, CutTo
    <3>2. ASSUME NEW q \in 1..(Len(path) + 1)
          PROVE  (IF q = e THEN NUL ELSE buf[q])
                   = IF q > Len(path) \/ (q \in Ends /\ q < c) THEN NUL ELSE path[q]
      <4>1. buf[q] = IF q > Len(path) \/ (q \in Ends /\ q < b) THEN NUL ELSE path[q]
        BY DEF CutTo
      <4>2. CASE q = e
        BY <1>0, <2>4, <2>6, <4>2
      <4>3. CASE q # e
        <5>1. b < c
          BY <1>0, <1>1, <2>1, <2>2, <2>4, <2>6
        <5>2. q > Len(path) \/ (q \in Ends /\ q < c <=> q \in Ends /\ q < b)
          BY <1>0, <2>4, <2>6, <2>8, <4>3, <5>1
        <5>. QED
          BY <4>1, <4>3, <5>2
      <4>. QED
        BY <4>2, <4>3
    <3>. QED
      BY <3>1, <3>2 DEF CutTo
  <2>10. ASSUME NEW p \in Cut!Starts, b <= p, p < c PROVE p = ret
    <3>1. ret <= p /\ p \in 1..Len(path) /\ path[p] # SLASH /\ (p > 1 => path[p - 1] = SLASH)
      BY <1>1, <2>10, PathFacts
    <3>2. p <= e - 1
      BY <1>0, <2>4, <2>6, <2>10, <3>1
    <3>3. p > ret => p - 1 \in ret..(e - 1) /\ p > 1
      BY <2>1, <2>4, <3>1, <3>2
    <3>. QED
      BY <2>1, <2>2, <3>1, <3>3
  <2>11. Points(Append(earlier, ret), c)
    <3>1. /\ Len(earlier) \in Nat /\ Append(earlier, ret) \in Seq(Nat)
          /\ Len(Append(earlier, ret)) = Len(earlier) + 1
          /\ \A k \in 1..Len(earlier) : Append(earlier, ret)[k] = earlier[k]
          /\ Append(earlier, ret)[Len(earlier) + 1] = ret
      BY <2>1, AppendProperties, LenProperties DEF Points
    <3>2. ret < c /\ b < c /\ c \in Nat /\ ret \in Nat
      BY <1>0, <1>1, <2>1, <2>2, <2>4, <2>6
    <3>3. \A k \in 1..Len(earlier) : earlier[k] \in Cut!Starts /\ earlier[k] < b /\ earlier[k] \in Nat
      BY PathFacts DEF Points
    <3>4. \A k \in 1..(Len(earlier) + 1) :
            Append(earlier, ret)[k] \in Cut!Starts /\ Append(earlier, ret)[k] < c
      <4>. SUFFICES ASSUME NEW k \in 1..(Len(earlier) + 1)
                    PROVE  Append(earlier, ret)[k] \in Cut!Starts /\ Append(earlier, ret)[k] < c
        OBVIOUS
      <4>1. k \in 1..Len(earlier) \/ k = Len(earlier) + 1
        BY <3>1
      <4>. QED
        BY SMTT(30), <1>0, <2>1, <3>1, <3>2, <3>3, <4>1
    <3>5. \A p \in Cut!Starts : p < c => \E k \in 1..(Len(earlier) + 1) : Append(earlier, ret)[k] = p
      <4>. SUFFICES ASSUME NEW p \in Cut!Starts, p < c
                    PROVE  \E k \in 1..(Len(earlier) + 1) : Append(earlier, ret)[k] = p
        OBVIOUS
      <4>1. p \in Nat
        BY PathFacts
      <4>2. CASE p < b
        <5>1. PICK k \in 1..Len(earlier) : earlier[k] = p
          BY <4>2 DEF Points
        <5>. QED
          BY <3>1, <5>1
      <4>3. CASE b <= p
        BY <2>10, <3>1, <4>3
      <4>. QED
        BY <1>0, <4>1, <4>2, <4>3
    <3>6. \A j, k \in 1..(Len(earlier) + 1) :
            j < k => Append(earlier, ret)[j] < Append(earlier, ret)[k]
      <4>. SUFFICES ASSUME NEW j \in 1..(Len(earlier) + 1), NEW k \in 1..(Len(earlier) + 1), j < k
                    PROVE  Append(earlier, ret)[j] < Append(earlier, ret)[k]
        OBVIOUS
      <4>1. j \in 1..Len(earlier) /\ (k \in 1..Len(earlier) \/ k = Len(earlier) + 1)
        BY SMTT(30), <3>1
      <4>2. CASE k \in 1..Len(earlier)
        BY <3>1, <4>1, <4>2 DEF Points
      <4>3. CASE k = Len(earlier) + 1
        BY <1>0, <1>1, <3>1, <3>2, <3>3, <4>1, <4>3
      <4>. QED
        BY <4>1, <4>2, <4>3
    <3>. QED
      BY <3>1, <3>4, <3>5, <3>6 DEF Points
  <2>. QED
    BY <2>7, <2>9, <2>11
<1>. QED
  <2>. HIDE DEF c, cut
  <2>. QED
    BY <1>2, <1>3, <1>4

\* A buffer that was cut holds its first name only.
LEMMA CutsAgain ==
  ASSUME path \in Seq(Letter \cup {SLASH}), buf = CutTo(Len(path) + 2),
         Cut!strtok(1, <<>>)
  PROVE  /\ buf' = buf
         /\ IF Cut!Starts = {} THEN tokens' = <<>> /\ ~cutting'
            ELSE /\ tokens' = <<Cut!Min(Cut!Starts)>>
                 /\ cutting' => backup_string' \in Ends
<1>. DEFINE ret == Cut!Skip(1, {SLASH})
            cut == Cut!Find(ret, {SLASH, NUL})
<1>0. Len(path) \in Nat /\ Boundary(1)
  BY PathFacts DEF Boundary
<1>1. /\ ret \in 1..(Len(path) + 1)
      /\ buf[ret] = NUL <=> ret = Len(path) + 1
      /\ ret # Len(path) + 1 => ret \in Cut!Starts
      /\ \A p \in Cut!Starts : 1 <= p => ret <= p
  <2>1. Len(path) + 2 \in {1, Len(path) + 2} /\ 1 \in Nat
    OBVIOUS
  <2>. HIDE DEF ret
  <2>2. \A c \in {1, Len(path) + 2} : buf = CutTo(c) /\ (c # 1 => 1 = 1) =>
          \A r : r = Cut!Skip(1, {SLASH}) =>
            /\ r \in 1..(Len(path) + 1)
            /\ buf[r] = NUL <=> r = Len(path) + 1
            /\ r # Len(path) + 1 => r \in Cut!Starts
            /\ \A p \in Cut!Starts : 1 <= p => r <= p
    BY <1>0, SkipsSlashes
  <2>3. ret = Cut!Skip(1, {SLASH})
    BY DEF ret
  <2>. QED
    BY <2>1, <2>2, <2>3
<1>2. IF buf[ret] = NUL
      THEN cutting' = FALSE /\ tokens' = <<>> /\ buf' = buf
      ELSE /\ cutting' = TRUE /\ tokens' = Append(<<>>, ret)
           /\ buf' = Cut!CutAt(cut) /\ backup_string' = Cut!GoOn(cut)
  BY DEF Cut!strtok
<1>. HIDE DEF ret
<1>3. CASE buf[ret] = NUL
  <2>1. Cut!Starts = {}
    <3>. SUFFICES ASSUME NEW p \in Cut!Starts PROVE FALSE
      OBVIOUS
    <3>. QED
      BY <1>0, <1>1, <1>3, PathFacts
  <2>. QED
    BY <1>2, <1>3, <2>1
<1>4. CASE buf[ret] # NUL
  <2>1. ret \in Cut!Starts /\ \A p \in Cut!Starts : ret <= p
    BY <1>1, <1>4, PathFacts
  <2>2. ret = Cut!Min(Cut!Starts)
    BY <2>1, MinIs, PathFacts
  <2>3. PICK e \in Ends : ret < e /\ \A q \in ret..(e - 1) : q \in 1..Len(path) /\ path[q] # SLASH
    BY <2>1, NameEnds
  <2>4. cut = e
    <3>1. Len(path) + 2 \in Nat
      BY <1>0
    <3>. QED
      BY <2>1, <2>3, <3>1, FindsEnd
  <2>. HIDE DEF cut
  <2>5. e \in 1..(Len(path) + 1) /\ e < Len(path) + 2
    BY <1>0 DEF Ends
  <2>6. DOMAIN buf = 1..(Len(path) + 1) /\ buf[e] = NUL
    BY <2>5 DEF CutTo
  <2>7. Cut!CutAt(cut) = buf /\ Cut!GoOn(cut) = e
    <3>1. buf = [q \in 1..(Len(path) + 1) |-> buf[q]]
      BY DEF CutTo
    <3>. QED
      BY <2>4, <2>6, <3>1 DEF Cut!CutAt, Cut!GoOn
  <2>8. Append(<<>>, ret) = <<ret>>
    OBVIOUS
  <2>. QED
    BY <1>2, <1>4, <2>1, <2>2, <2>7, <2>8
<1>. QED
  BY <1>3, <1>4

\* strtok that goes on at the end of the only name finds no other.
LEMMA FindsNoOther ==
  ASSUME path \in Seq(Letter \cup {SLASH}), buf = CutTo(Len(path) + 2),
         NEW e \in Ends, NEW earlier, Cut!strtok(e, earlier)
  PROVE  buf' = buf /\ ~cutting' /\ tokens' = earlier
<1>1. Len(path) \in Nat /\ e \in 1..(Len(path) + 1) /\ e < Len(path) + 2
  BY PathFacts DEF Ends
<1>2. DOMAIN buf = 1..(Len(path) + 1) /\ buf[e] = NUL
  BY <1>1 DEF CutTo
<1>3. Cut!Skip(e, {SLASH}) = e
  <2>. DEFINE T == {q \in DOMAIN buf : q >= e /\ ~Cut!is_delim(buf[q], {SLASH})}
  <2>1. e \in T /\ T \in SUBSET Nat /\ \A q \in T : e <= q
    BY <1>1, <1>2, StrtokAssumption DEF Cut!is_delim
  <2>. QED
    BY <2>1, MinIs DEF Cut!Skip
<1>. QED
  BY <1>2, <1>3 DEF Cut!strtok

LEMMA CutInit == Cut!Init => CutInv
<1>. SUFFICES ASSUME Cut!Init PROVE CutInv
  OBVIOUS
<1>1. path \in Seq(Letter \cup {SLASH})
  BY StrtokAssumption DEF Cut!Init, Cut!Paths, Cut!BoundedSeq, Cut!SeqOf
<1>2. Len(path) \in Nat
  BY <1>1, PathFacts
<1>3. Append(path, NUL) = CutTo(1)
  <2>1. /\ Append(path, NUL) \in Seq(Letter \cup {SLASH, NUL})
        /\ Len(Append(path, NUL)) = Len(path) + 1
        /\ \A q \in 1..Len(path) : Append(path, NUL)[q] = path[q]
        /\ Append(path, NUL)[Len(path) + 1] = NUL
    BY <1>1, <1>2
  <2>2. Append(path, NUL) = [q \in 1..(Len(path) + 1) |-> Append(path, NUL)[q]]
    <3>. DEFINE s == Append(path, NUL)
    <3>1. s \in Seq(Letter \cup {SLASH, NUL}) /\ Len(s) = Len(path) + 1
      BY <2>1
    <3>. HIDE DEF s
    <3>2. s = [q \in 1..(Len(path) + 1) |-> s[q]]
      BY <3>1, SeqDef, LenProperties
    <3>. QED
      BY <3>2 DEF s
  <2>3. ASSUME NEW q \in 1..(Len(path) + 1)
        PROVE  Append(path, NUL)[q]
                 = IF q > Len(path) \/ (q \in Ends /\ q < 1) THEN NUL ELSE path[q]
    <3>1. ~(q < 1) /\ (q \in 1..Len(path) \/ q = Len(path) + 1)
      BY <1>2
    <3>. QED
      BY <1>2, <2>1, <3>1
  <2>. QED
    BY <2>2, <2>3 DEF CutTo
<1>. QED
  BY <1>1, <1>3 DEF Cut!Init, CutInv

LEMMA CutStep == CutInv /\ [Cut!Next]_(Cut!vars) => CutInv'
<1>. SUFFICES ASSUME CutInv, [Cut!Next]_(Cut!vars) PROVE CutInv'
  OBVIOUS
<1>0. path \in Seq(Letter \cup {SLASH}) /\ tokens \in Seq(Nat) /\ lookups \in Nat
      /\ Len(path) \in Nat
  BY PathFacts DEF CutInv
<1>1. CASE UNCHANGED Cut!vars
  BY ZenonT(60), <1>1 DEF Cut!vars, CutInv, CutTo, Ends, Cut!Starts, Boundary, Points
<1>2. ASSUME path' = path
      PROVE  /\ Cut!Starts' = Cut!Starts
             /\ CutTo(backup_string)' = CutTo(backup_string')
             /\ CutTo(Len(path) + 2)' = CutTo(Len(path) + 2)
             /\ Boundary(backup_string)' <=> Boundary(backup_string')
             /\ Points(tokens, backup_string)' <=> Points(tokens', backup_string')
             /\ Points(tokens, Len(path) + 2)' <=> Points(tokens', Len(path) + 2)
             /\ backup_string' \in Ends => (backup_string \in Ends)'
  BY <1>2 DEF CutTo, Ends, Cut!Starts, Boundary, Points
<1>3. ASSUME path' = path, tokens' \in Seq(Nat), lookups' \in Nat, lookups' # 0,
             lookups' = 1 =>
               IF cutting'
               THEN /\ Boundary(backup_string') /\ buf' = CutTo(backup_string')
                    /\ Points(tokens', backup_string')
               ELSE buf' = CutTo(Len(path) + 2) /\ Points(tokens', Len(path) + 2),
             lookups' > 1 =>
               /\ buf' = CutTo(Len(path) + 2)
               /\ IF Cut!Starts = {} THEN tokens' = <<>> /\ ~cutting'
                  ELSE /\ tokens' = <<Cut!Min(Cut!Starts)>>
                       /\ cutting' => backup_string' \in Ends
      PROVE  CutInv'
  BY <1>0, <1>2, <1>3 DEF CutInv
<1>4. CASE Cut!FirstCall
  <2>1. path' = path /\ lookups' = lookups + 1 /\ ~cutting /\ Cut!strtok(1, <<>>)
    BY <1>4 DEF Cut!FirstCall
  <2>2. CASE lookups = 0
    <3>1. Boundary(1) /\ buf = CutTo(1) /\ Points(<<>>, 1)
      <4>1. Len(<<>>) = 0 /\ <<>> \in Seq(Nat) /\ \A p \in Cut!Starts : ~(p < 1)
        BY <1>0, PathFacts
      <4>. QED
        BY <1>0, <2>2, <4>1 DEF CutInv, Boundary, Points
    <3>2. IF cutting'
          THEN /\ Boundary(backup_string') /\ buf' = CutTo(backup_string')
               /\ Points(tokens', backup_string')
          ELSE buf' = CutTo(Len(path) + 2) /\ Points(tokens', Len(path) + 2)
      BY <1>0, <2>1, <3>1, CutsName
    <3>3. tokens' \in Seq(Nat)
      BY <3>2 DEF Points
    <3>. QED
      BY <1>3, <2>1, <2>2, <3>2, <3>3
  <2>3. CASE lookups # 0
    <3>1. buf = CutTo(Len(path) + 2) /\ lookups' > 1 /\ lookups' \in Nat
      BY <1>0, <2>1, <2>3 DEF CutInv
    <3>2. /\ buf' = buf
          /\ IF Cut!Starts = {} THEN tokens' = <<>> /\ ~cutting'
             ELSE /\ tokens' = <<Cut!Min(Cut!Starts)>>
                  /\ cutting' => backup_string' \in Ends
      BY <1>0, <2>1, <3>1, CutsAgain
    <3>3. tokens' \in Seq(Nat)
      <4>1. Cut!Starts # {} => Cut!Min(Cut!Starts) \in Nat
        BY <1>0, PathFacts, MinOfNaturals
      <4>2. \A x \in Nat : <<x>> \in Seq(Nat)
        OBVIOUS
      <4>. HIDE DEF Cut!Starts
      <4>3. tokens' = <<>> \/ \E x \in Nat : tokens' = <<x>>
        BY <3>2, <4>1
      <4>4. <<>> \in Seq(Nat)
        OBVIOUS
      <4>5. CASE tokens' = <<>>
        BY <4>4, <4>5
      <4>6. CASE \E x \in Nat : tokens' = <<x>>
        <5>1. PICK x \in Nat : tokens' = <<x>>
          BY <4>6
        <5>. QED
          BY <5>1
      <4>. QED
        BY <4>3, <4>5, <4>6
    <3>. QED
      BY <1>3, <2>1, <3>1, <3>2, <3>3
  <2>. QED
    BY <2>2, <2>3
<1>5. CASE Cut!NextCall
  <2>1. path' = path /\ lookups' = lookups /\ cutting /\ Cut!strtok(backup_string, tokens)
    BY <1>5 DEF Cut!NextCall
  <2>2. CASE lookups = 1
    <3>1. Boundary(backup_string) /\ buf = CutTo(backup_string) /\ Points(tokens, backup_string)
      BY <2>1, <2>2 DEF CutInv
    <3>2. IF cutting'
          THEN /\ Boundary(backup_string') /\ buf' = CutTo(backup_string')
               /\ Points(tokens', backup_string')
          ELSE buf' = CutTo(Len(path) + 2) /\ Points(tokens', Len(path) + 2)
      BY <1>0, <2>1, <3>1, CutsName
    <3>3. tokens' \in Seq(Nat)
      BY <3>2 DEF Points
    <3>. QED
      BY <1>3, <2>1, <2>2, <3>2, <3>3
  <2>3. CASE lookups > 1
    <3>1. /\ buf = CutTo(Len(path) + 2) /\ Cut!Starts # {}
          /\ tokens = <<Cut!Min(Cut!Starts)>> /\ backup_string \in Ends
      BY <2>1, <2>3 DEF CutInv
    <3>2. buf' = buf /\ ~cutting' /\ tokens' = tokens
      BY <1>0, <2>1, <3>1, FindsNoOther
    <3>. QED
      BY <1>0, <1>3, <2>1, <2>3, <3>1, <3>2
  <2>4. lookups # 0
    BY <2>1 DEF CutInv
  <2>. QED
    BY <1>0, <2>2, <2>3, <2>4
<1>. QED
  BY <1>1, <1>4, <1>5 DEF Cut!Next

-----------------------------------------------------------------------------
\* What a token says, once the path is cut.
LEMMA TokenSays ==
  ASSUME path \in Seq(Letter \cup {SLASH}), buf = CutTo(Len(path) + 2), NEW t \in Cut!Starts
  PROVE  SubSeq(buf, t, Cut!Find(t, {NUL}) - 1) = Cut!NameAt(t)
<1>0. Len(path) \in Nat /\ t \in 1..Len(path) /\ Len(path) + 2 \in Nat
  BY PathFacts
<1>1. PICK e \in Ends : t < e /\ \A q \in t..(e - 1) : q \in 1..Len(path) /\ path[q] # SLASH
  BY NameEnds
<1>2. e \in 2..(Len(path) + 1) /\ path[e - 1] # SLASH /\ (e <= Len(path) => path[e] = SLASH)
  BY <1>0 DEF Ends
<1>3. Cut!Find(t, {NUL}) = e /\ \A q \in t..(e - 1) : buf[q] = path[q]
  <2>1. e < Len(path) + 2
    BY <1>0, <1>2
  <2>. QED
    BY <1>0, <1>1, <2>1, FindsEnd
<1>4. Cut!NameAt(t) = SubSeq(path, t, e - 1)
  <2>. DEFINE T == {q \in t..Len(path) : q = Len(path) \/ path[q + 1] = SLASH}
  <2>1. e - 1 \in T
    BY <1>0, <1>1, <1>2
  <2>2. \A q \in T : e - 1 <= q
    <3>. SUFFICES ASSUME NEW q \in T, q < e - 1 PROVE FALSE
      BY <1>0, <1>2
    <3>1. q \in t..Len(path) /\ q # Len(path)
      BY <1>0, <1>2
    <3>2. q + 1 \in t..(e - 1)
      BY <1>0, <1>2, <3>1
    <3>. QED
      BY <1>1, <3>1, <3>2
  <2>3. T \in SUBSET Nat
    BY <1>0
  <2>. HIDE DEF T
  <2>4. Cut!Min(T) = e - 1
    BY <2>1, <2>2, <2>3, MinIs
  <2>. QED
    BY <2>4 DEF Cut!NameAt, T
<1>5. SubSeq(buf, t, e - 1) = SubSeq(path, t, e - 1)
  <2>. DEFINE A == Letter \cup {SLASH, NUL}
              b == SubSeq(buf, t, e - 1)
              p == SubSeq(path, t, e - 1)
  <2>1. buf \in Seq(A) /\ Len(buf) = Len(path) + 1
    <3>1. \A q \in 1..(Len(path) + 1) : buf[q] \in A
      BY <1>0, PathFacts DEF CutTo
    <3>2. buf = [q \in 1..(Len(path) + 1) |-> buf[q]]
      BY DEF CutTo
    <3>3. Len(path) + 1 \in Nat
      BY <1>0
    <3>. HIDE DEF A
    <3>. QED
      BY <3>1, <3>2, <3>3, IsASeq, LenProperties
  <2>2. path \in Seq(A) /\ t \in 1..(Len(path) + 1) /\ t \in 1..(Len(buf) + 1)
        /\ e - 1 \in t..Len(path) /\ e - 1 \in t..Len(buf)
    <3>1. t <= e - 1 /\ e - 1 <= Len(path)
      BY <1>0, <1>1, <1>2
    <3>2. path \in Seq(A)
      BY PathFacts, <1>0, IsASeq
    <3>. QED
      BY <1>0, <1>2, <2>1, <3>1, <3>2
  <2>. HIDE DEF A, b, p
  <2>3. /\ b \in Seq(A) /\ Len(b) = e - t
        /\ \A i \in 1..(e - t) : b[i] = buf[t + i - 1]
    BY <1>0, <1>2, <2>1, <2>2, SubSeqProperties DEF b
  <2>4. /\ p \in Seq(A) /\ Len(p) = e - t
        /\ \A i \in 1..(e - t) : p[i] = path[t + i - 1]
    BY <1>0, <1>2, <2>1, <2>2, SubSeqProperties DEF p
  <2>5. \A i \in 1..(e - t) : t + i - 1 \in t..(e - 1)
    BY <1>0, <1>2
  <2>6. \A i \in 1..Len(b) : b[i] = p[i]
    BY <1>3, <2>3, <2>4, <2>5
  <2>. QED
    BY <2>3, <2>4, <2>6, SeqEqual DEF b, p
<1>. QED
  BY <1>3, <1>4, <1>5

\* Strtok counts as everybody does.
LEMMA CountsTheSame == \A S : Cut!Cardinality(S) = Cardinality(S)
BY Zenon DEF Cut!Cardinality, Cardinality

LEMMA NamesCounted ==
  Cut!NamesOf = [k \in 1..Cardinality(Cut!Starts) |-> Cut!NameAt(Cut!Nth(k))]
BY CountsTheSame DEF Cut!NamesOf

LEMMA NthCounted ==
  ASSUME NEW k, NEW t \in Cut!Starts,
         Cardinality({q \in Cut!Starts : q <= t}) = k,
         \A p \in Cut!Starts : Cardinality({q \in Cut!Starts : q <= p}) = k => p = t
  PROVE  Cut!Nth(k) = t
<1>. DEFINE C(p) == Cut!Cardinality({q \in Cut!Starts : q <= p})
<1>1. C(t) = k /\ \A p \in Cut!Starts : C(p) = k => p = t
  BY CountsTheSame
<1>2. Cut!Nth(k) = CHOOSE p \in Cut!Starts : C(p) = k
  BY DEF Cut!Nth
<1>. HIDE DEF C
<1>. QED
  BY <1>1, <1>2

\* The pointers to all names, in order, are the names' beginnings counted.
LEMMA PointsToNth ==
  ASSUME path \in Seq(Letter \cup {SLASH}), Points(tokens, Len(path) + 2)
  PROVE  /\ Len(tokens) \in Nat /\ Len(tokens) = Cardinality(Cut!Starts)
         /\ \A k \in 1..Len(tokens) : tokens[k] \in Cut!Starts /\ tokens[k] = Cut!Nth(k)
<1>. DEFINE t == tokens
            Below(k) == {q \in Cut!Starts : q <= t[k]}
<1>1. /\ t \in Seq(Nat) /\ Len(t) \in Nat
      /\ \A k \in 1..Len(t) : t[k] \in Cut!Starts /\ t[k] \in Nat
      /\ \A j, k \in 1..Len(t) : j < k => t[j] < t[k]
  BY PathFacts, LenProperties DEF Points
<1>2. \A p \in Cut!Starts : p \in Nat /\ \E k \in 1..Len(t) : t[k] = p
  <2>1. \A p \in Cut!Starts : p \in Nat /\ p < Len(path) + 2
    BY PathFacts
  <2>. QED
    BY <2>1 DEF Points
<1>. HIDE DEF t
<1>3. ASSUME NEW k \in 0..Len(t), NEW S, S = {t[j] : j \in 1..k}
      PROVE  Cardinality(S) = k
  <2>. DEFINE f == [j \in 1..k |-> t[j]]
  <2>1. f \in Bijection(1..k, S)
    <3>1. \A i, j \in 1..k : f[i] = f[j] => i = j
      BY SMTT(30), <1>1
    <3>2. \A y \in S : \E j \in 1..k : f[j] = y
      BY <1>3
    <3>3. f \in [1..k -> S]
      BY <1>3
    <3>. HIDE DEF f
    <3>. QED
      BY <3>1, <3>2, <3>3 DEF Bijection, Injection, Surjection, IsInjective
  <2>2. ExistsBijection(1..k, S)
    BY <2>1 DEF ExistsBijection
  <2>3. k \in Nat
    BY <1>1
  <2>. QED
    BY <2>2, <2>3, FS_CountingElements
<1>4. Cardinality(Cut!Starts) = Len(t)
  <2>1. Cut!Starts = {t[j] : j \in 1..Len(t)}
    BY <1>1, <1>2
  <2>2. Len(t) \in 0..Len(t)
    BY <1>1
  <2>. QED
    BY <1>3, <2>1, <2>2
<1>5. ASSUME NEW k \in 1..Len(t) PROVE Cardinality(Below(k)) = k
  <2>1. Below(k) = {t[j] : j \in 1..k}
    <3>1. ASSUME NEW q \in Below(k) PROVE \E j \in 1..k : q = t[j]
      <4>1. PICK j \in 1..Len(t) : t[j] = q
        BY <1>2
      <4>2. ~(k < j)
        BY <1>1, <4>1, SMTT(30)
      <4>. QED
        BY <1>1, <4>1, <4>2
    <3>2. ASSUME NEW j \in 1..k PROVE t[j] \in Below(k)
      <4>1. j \in 1..Len(t) /\ (j < k \/ j = k)
        BY <1>1
      <4>2. t[j] <= t[k]
        BY <1>1, <4>1
      <4>. QED
        BY <1>1, <4>1, <4>2
    <3>. HIDE DEF Below
    <3>. QED
      BY <3>1, <3>2
  <2>2. k \in 0..Len(t)
    BY <1>1
  <2>. QED
    BY <1>3, <2>1, <2>2
<1>6. ASSUME NEW k \in 1..Len(t) PROVE t[k] = Cut!Nth(k)
  <2>1. t[k] \in Cut!Starts /\ Cardinality({q \in Cut!Starts : q <= t[k]}) = k
    BY <1>1, <1>5
  <2>2. ASSUME NEW p \in Cut!Starts, Cardinality({q \in Cut!Starts : q <= p}) = k PROVE p = t[k]
    <3>1. PICK j \in 1..Len(t) : t[j] = p
      BY <1>2
    <3>2. Cardinality({q \in Cut!Starts : q <= p}) = j
      BY <1>5, <3>1
    <3>. QED
      BY <2>2, <3>1, <3>2
  <2>. QED
    BY <2>1, <2>2, NthCounted
<1>. QED
  BY <1>1, <1>4, <1>6 DEF t

\* Cutting a path of any length gives its names, in order.
THEOREM PathsAreCut == Cut!Spec => []NamesRight
<1>1. CutInv => NamesRight
  <2>. SUFFICES ASSUME CutInv, lookups = 1, ~cutting PROVE Cut!Names = Cut!NamesOf
    BY DEF NamesRight, Cut!NamesRight
  <2>1. path \in Seq(Letter \cup {SLASH}) /\ buf = CutTo(Len(path) + 2)
        /\ Points(tokens, Len(path) + 2)
    BY DEF CutInv
  <2>2. /\ Len(tokens) \in Nat /\ Len(tokens) = Cardinality(Cut!Starts)
        /\ \A k \in 1..Len(tokens) : tokens[k] \in Cut!Starts /\ tokens[k] = Cut!Nth(k)
        /\ DOMAIN tokens = 1..Len(tokens)
    BY <2>1, PointsToNth DEF Points
  <2>3. \A k \in 1..Len(tokens) :
          SubSeq(buf, tokens[k], Cut!Find(tokens[k], {NUL}) - 1) = Cut!NameAt(Cut!Nth(k))
    BY <2>1, <2>2, TokenSays
  <2>. QED
    BY <2>2, <2>3, NamesCounted DEF Cut!Names
<1>. QED
  BY <1>1, CutInit, CutStep, PTL DEF Cut!Spec

\* Whoever cuts the buffer again, and however often, finds its first name only.
THEOREM PathsAreCutOnce == Cut!Spec => []OnlyOnce
<1>1. CutInv => OnlyOnce
  <2>. SUFFICES ASSUME CutInv, lookups > 1, ~cutting
                PROVE  Cut!Names = IF Cut!NamesOf = <<>> THEN <<>> ELSE <<Head(Cut!NamesOf)>>
    BY DEF OnlyOnce, Cut!OnlyOnce
  <2>1. path \in Seq(Letter \cup {SLASH}) /\ buf = CutTo(Len(path) + 2)
        /\ IF Cut!Starts = {} THEN tokens = <<>> ELSE tokens = <<Cut!Min(Cut!Starts)>>
    BY DEF CutInv
  <2>2. CASE Cut!Starts = {}
    <3>1. Cardinality(Cut!Starts) = 0
      BY <2>2, FS_EmptySet
    <3>2. Cut!NamesOf = <<>> /\ Cut!Names = <<>>
      BY <2>1, <2>2, <3>1, NamesCounted DEF Cut!Names
    <3>. QED
      BY <3>2
  <2>3. CASE Cut!Starts # {}
    <3>1. /\ Cut!Min(Cut!Starts) \in Cut!Starts /\ Cut!Min(Cut!Starts) \in Nat
          /\ \A p \in Cut!Starts : p \in Nat /\ Cut!Min(Cut!Starts) <= p
      BY <2>1, <2>3, MinOfNaturals, PathFacts
    <3>2. IsFiniteSet(Cut!Starts) /\ Cardinality(Cut!Starts) \in Nat /\ Cardinality(Cut!Starts) # 0
      <4>1. \A p \in Cut!Starts : p <= Len(path)
        BY <2>1, PathFacts
      <4>2. IsFiniteSet(Cut!Starts)
        BY <2>1, <4>1, PathFacts, FS_BoundedSetOfNaturals
      <4>. QED
        BY <2>3, <4>2, FS_CardinalityType, FS_EmptySet
    <3>3. Cut!Nth(1) = Cut!Min(Cut!Starts)
      <4>1. {q \in Cut!Starts : q <= Cut!Min(Cut!Starts)} = {Cut!Min(Cut!Starts)}
        BY <3>1
      <4>2. Cardinality({q \in Cut!Starts : q <= Cut!Min(Cut!Starts)}) = 1
        BY <4>1, FS_Singleton
      <4>3. ASSUME NEW p \in Cut!Starts, Cardinality({q \in Cut!Starts : q <= p}) = 1
            PROVE  p = Cut!Min(Cut!Starts)
        <5>1. PICK x : {q \in Cut!Starts : q <= p} = {x}
          <6>1. IsFiniteSet({q \in Cut!Starts : q <= p})
            BY <3>2, FS_Subset
          <6>. QED
            BY <4>3, <6>1, FS_Singleton
        <5>2. p \in {q \in Cut!Starts : q <= p} /\ Cut!Min(Cut!Starts) \in {q \in Cut!Starts : q <= p}
          BY <3>1
        <5>. QED
          BY <5>1, <5>2
      <4>. QED
        BY <3>1, <4>2, <4>3, NthCounted
    <3>4. Cut!Names = <<Cut!NameAt(Cut!Min(Cut!Starts))>>
      <4>1. DOMAIN tokens = 1..1 /\ tokens[1] = Cut!Min(Cut!Starts)
        BY <2>1, <2>3
      <4>2. SubSeq(buf, Cut!Min(Cut!Starts), Cut!Find(Cut!Min(Cut!Starts), {NUL}) - 1) = Cut!NameAt(Cut!Min(Cut!Starts))
        BY <2>1, <3>1, TokenSays
      <4>3. Cut!Names = [k \in 1..1 |-> Cut!NameAt(Cut!Min(Cut!Starts))]
        <5>1. \A k \in DOMAIN tokens : tokens[k] = Cut!Min(Cut!Starts)
          BY <4>1
        <5>. QED
          BY <4>1, <4>2, <5>1 DEF Cut!Names
      <4>. QED
        BY <4>3
    <3>5. Cut!NamesOf # <<>> /\ Head(Cut!NamesOf) = Cut!NameAt(Cut!Min(Cut!Starts))
      <4>1. 1 \in 1..Cardinality(Cut!Starts)
        BY <3>2
      <4>2. Cut!NamesOf[1] = Cut!NameAt(Cut!Min(Cut!Starts)) /\ 1 \in DOMAIN Cut!NamesOf
        BY <3>3, <4>1, NamesCounted
      <4>3. Cut!NamesOf # <<>>
        BY <4>2
      <4>4. Head(Cut!NamesOf) = Cut!NamesOf[1]
        <5>. DEFINE S == {Cut!NameAt(Cut!Nth(k)) : k \in 1..Cardinality(Cut!Starts)}
        <5>1. Cardinality(Cut!Starts) \in Nat
          BY <3>2
        <5>2. Cut!NamesOf \in Seq(S)
          BY <5>1, NamesCounted
        <5>. HIDE DEF S
        <5>. QED
          BY <4>3, <5>2
      <4>. QED
        BY <4>2, <4>3, <4>4
    <3>. QED
      BY <3>4, <3>5
  <2>. QED
    BY <2>2, <2>3
<1>. QED
  BY <1>1, CutInit, CutStep, PTL DEF Cut!Spec

-----------------------------------------------------------------------------
(* What the loops of the library do to memory (Memory).                    *)

LEMMA MemoryMaxIsGreatest == \A t : Bytes!Max(t) = Greatest(t)
BY DEF Bytes!Max, Greatest

\* Memory m once the first k of the places d hold what u has for them.
Written(m, d, u, k) ==
  [x \in DOMAIN m |-> IF \E j \in 1..k : x = d[j] THEN u[x] ELSE m[x]]

\* n stores into m, one after the other: f is the memory after the first of them.
Stores(m, d, u, n, f) ==
  /\ f[{}] = m
  /\ \A k \in 1..n : f[1..(k - 1)] = Written(m, d, u, k - 1) =>
       f[1..k] = [f[1..(k - 1)] EXCEPT ![d[k]] = u[d[k]]]

LEMMA StoresOneByOne ==
  ASSUME NEW M, NEW V, NEW m \in [M -> V], NEW d, NEW u, NEW n \in Nat, NEW f,
         Stores(m, d, u, n, f)
  PROVE  f[1..n] = Written(m, d, u, n)
<1>1. f[1..0] = Written(m, d, u, 0)
  <2>1. 1..0 = {}
    OBVIOUS
  <2>. QED
    BY <2>1 DEF Written, Stores
<1>2. ASSUME NEW k \in 1..n, f[1..(k - 1)] = Written(m, d, u, k - 1)
      PROVE  f[1..k] = Written(m, d, u, k)
  <2>1. f[1..k] = [Written(m, d, u, k - 1) EXCEPT ![d[k]] = u[d[k]]]
    BY <1>2 DEF Stores
  <2>2. ASSUME NEW x \in DOMAIN m
        PROVE  [Written(m, d, u, k - 1) EXCEPT ![d[k]] = u[d[k]]][x] = Written(m, d, u, k)[x]
    <3>1. (\E j \in 1..k : x = d[j]) <=> (x = d[k] \/ \E j \in 1..(k - 1) : x = d[j])
      <4>1. \A j \in 1..k : j = k \/ j \in 1..(k - 1)
        OBVIOUS
      <4>2. k \in 1..k /\ \A j \in 1..(k - 1) : j \in 1..k
        OBVIOUS
      <4>. QED
        BY <4>1, <4>2
    <3>. QED
      BY <3>1 DEF Written
  <2>. QED
    BY <2>1, <2>2 DEF Written
<1>. DEFINE S == {k \in 0..n : f[1..k] = Written(m, d, u, k)}
<1>3. 0 \in S
  BY <1>1
<1>4. ASSUME NEW k \in 1..n, k - 1 \in S PROVE k \in S
  BY <1>2, <1>4
<1>. HIDE DEF S
<1>5. \A k \in 0..n : k \in S
  BY <1>3, <1>4, UpTo
<1>. QED
  BY <1>5 DEF S

\* f is the recursive function of the fold in memset, and in the copies.
Sets(m, dst, b, order, D, f) ==
  f = [t \in SUBSET D |->
         IF t = {} THEN m
         ELSE [f[t \ {Bytes!Max(t)}] EXCEPT ![dst + order[Bytes!Max(t)]] = b]]
Copies(m, dst, src, order, D, f) ==
  f = [t \in SUBSET D |->
         IF t = {} THEN m
         ELSE [f[t \ {Bytes!Max(t)}] EXCEPT ![dst + order[Bytes!Max(t)]]
                 = f[t \ {Bytes!Max(t)}][src + order[Bytes!Max(t)]]]]

LEMMA SetIsFold ==
  ASSUME NEW m, NEW dst, NEW b, NEW n
  PROVE  Bytes!memset(m, dst, b, n) =
           (CHOOSE f : Sets(m, dst, b, Bytes!Up(n), DOMAIN Bytes!Up(n), f))[DOMAIN Bytes!Up(n)]
BY DEF Bytes!memset, Bytes!FoldLeft, Bytes!MapThenFoldSet, Sets

LEMMA CopyIsFold ==
  ASSUME NEW m, NEW dst, NEW src, NEW order
  PROVE  Bytes!Copied(m, dst, src, order) =
           (CHOOSE f : Copies(m, dst, src, order, DOMAIN order, f))[DOMAIN order]
BY DEF Bytes!Copied, Bytes!FoldLeft, Bytes!MapThenFoldSet, Copies

\* The directions of the loops.
LEMMA Directions ==
  ASSUME NEW n \in Nat
  PROVE  /\ Bytes!Up(n) \in Seq(0..(n - 1)) /\ Len(Bytes!Up(n)) = n /\ DOMAIN Bytes!Up(n) = 1..n
         /\ \A k \in 1..n : Bytes!Up(n)[k] = k - 1
         /\ Bytes!Down(n) \in Seq(0..(n - 1)) /\ Len(Bytes!Down(n)) = n /\ DOMAIN Bytes!Down(n) = 1..n
         /\ \A k \in 1..n : Bytes!Down(n)[k] = n - k
BY DEF Bytes!Up, Bytes!Down

\* n bytes from p on are there.
Within(M, p, n) == \A i \in 0..(n - 1) : p + i \in M

\* Filling memory.
LEMMA SetWrites ==
  ASSUME NEW M \in SUBSET Int, NEW m \in [M -> Int], NEW dst \in Int, NEW b \in Int,
         NEW n \in Nat, Within(M, dst, n)
  PROVE  \A x \in M : Bytes!memset(m, dst, b, n)[x] = IF x \in dst..(dst + n - 1) THEN b ELSE m[x]
<1>. DEFINE X == 0..(n - 1)
            D == [M -> Int]
            order == Bytes!Up(n)
            op == [p \in D \X X |-> [p[1] EXCEPT ![dst + p[2]] = b]]
            f == CHOOSE g : Sets(m, dst, b, order, 1..n, g)
            d == [k \in 1..n |-> dst + order[k]]
            u == [x \in M |-> b]
<1>1. /\ order \in Seq(X) /\ DOMAIN order = 1..n /\ n \in 0..Len(order)
      /\ \A k \in 1..n : order[k] = k - 1 /\ order[k] \in X
  <2>1. /\ Bytes!Up(n) \in Seq(0..(n - 1)) /\ Len(Bytes!Up(n)) = n /\ DOMAIN Bytes!Up(n) = 1..n
        /\ \A k \in 1..n : Bytes!Up(n)[k] = k - 1
    BY Directions
  <2>2. \A k \in 1..n : k - 1 \in 0..(n - 1)
    OBVIOUS
  <2>. QED
    BY <2>1, <2>2
<1>. HIDE DEF order
<1>0. \A i \in 0..(n - 1) : dst + i \in M
  BY DEF Within
<1>3. \A t \in D, i \in X : [t EXCEPT ![dst + i] = b] \in D
  OBVIOUS
<1>4. op \in [D \X X -> D]
  BY <1>3
<1>5. \A t \in D, i \in X : op[<<t, i>>] = [t EXCEPT ![dst + i] = b]
  OBVIOUS
<1>6. PICK h : FoldsOver(op, m, order, n, h) /\ \A t \in SUBSET (1..n) : h[t] \in D
  <2>1. m \in D
    OBVIOUS
  <2>. HIDE DEF op, X, D
  <2>. QED
    BY <1>1, <1>4, <2>1, FoldExists
<1>7. Sets(m, dst, b, order, 1..n, h)
  <2>. HIDE DEF op, D, X
  <2>1. ASSUME NEW t \in SUBSET (1..n), t # {}
        PROVE  op[<<h[t \ {Bytes!Max(t)}], order[Bytes!Max(t)]>>]
                 = [h[t \ {Bytes!Max(t)}] EXCEPT ![dst + order[Bytes!Max(t)]] = b]
    <3>1. Bytes!Max(t) \in 1..n /\ t \ {Bytes!Max(t)} \in SUBSET (1..n)
      BY <2>1, GreatestOfPositions, MemoryMaxIsGreatest
    <3>. QED
      BY <1>1, <1>5, <1>6, <3>1
  <2>2. \A t \in SUBSET (1..n) :
          (IF t = {} THEN m ELSE op[<<h[t \ {Bytes!Max(t)}], order[Bytes!Max(t)]>>])
          = (IF t = {} THEN m ELSE [h[t \ {Bytes!Max(t)}] EXCEPT ![dst + order[Bytes!Max(t)]] = b])
    BY <2>1
  <2>3. h = [t \in SUBSET (1..n) |->
               IF t = {} THEN m ELSE op[<<h[t \ {Bytes!Max(t)}], order[Bytes!Max(t)]>>]]
    BY <1>6, MemoryMaxIsGreatest DEF FoldsOver
  <2>4. h = [t \in SUBSET (1..n) |->
               IF t = {} THEN m ELSE [h[t \ {Bytes!Max(t)}] EXCEPT ![dst + order[Bytes!Max(t)]] = b]]
    BY <2>2, <2>3
  <2>. QED
    BY <2>4 DEF Sets
<1>8. Sets(m, dst, b, order, 1..n, f)
  BY <1>7
<1>. HIDE DEF f
<1>9. f[{}] = m
  BY <1>8 DEF Sets
<1>10. ASSUME NEW k \in 1..n PROVE f[1..k] = [f[1..(k - 1)] EXCEPT ![d[k]] = u[d[k]]]
  <2>1. /\ 1..k \in SUBSET (1..n) /\ 1..k # {}
        /\ Bytes!Max(1..k) = k /\ (1..k) \ {k} = 1..(k - 1)
    BY GreatestOfFirst, MemoryMaxIsGreatest
  <2>2. f[1..k] = [f[(1..k) \ {Bytes!Max(1..k)}] EXCEPT ![dst + order[Bytes!Max(1..k)]] = b]
    BY <1>8, <2>1 DEF Sets
  <2>3. d[k] = dst + order[k] /\ u[d[k]] = b
    BY <1>0, <1>1
  <2>. HIDE DEF d, u
  <2>. QED
    BY <2>1, <2>2, <2>3
<1>11. f[1..n] = Written(m, d, u, n)
  <2>. HIDE DEF d, u
  <2>2. \A k \in 1..n : f[1..(k - 1)] = Written(m, d, u, k - 1) =>
          f[1..k] = [f[1..(k - 1)] EXCEPT ![d[k]] = u[d[k]]]
    BY <1>10
  <2>3. Stores(m, d, u, n, f)
    BY <1>9, <2>2 DEF Stores
  <2>. QED
    BY <2>3, StoresOneByOne
<1>12. Written(m, d, u, n) =
         [x \in M |-> IF \E j \in 1..n : x = dst + (j - 1) THEN b ELSE m[x]]
  BY <1>1 DEF Written
<1>13. Bytes!memset(m, dst, b, n) = f[1..n]
  BY <1>1, SetIsFold DEF f, order
<1>14. ASSUME NEW x \in M
       PROVE  (\E j \in 1..n : x = dst + (j - 1)) <=> x \in dst..(dst + n - 1)
  <2>1. ASSUME x \in dst..(dst + n - 1) PROVE \E j \in 1..n : x = dst + (j - 1)
    <3>1. x - dst + 1 \in 1..n /\ x = dst + ((x - dst + 1) - 1)
      BY <2>1
    <3>. QED
      BY <3>1
  <2>. QED
    BY <2>1
<1>. HIDE DEF d, u
<1>. QED
  BY <1>11, <1>12, <1>13, <1>14, SMTT(30)

\* A copy, in any order in which no byte is read after it has been written.
Ordered(M, dst, src, order) ==
  \A k \in 1..Len(order) :
    /\ dst + order[k] \in M /\ src + order[k] \in M
    /\ \A j \in 1..(k - 1) : src + order[k] # dst + order[j]

CopyIn(M, m, dst, src, order) ==
  [x \in M |-> IF \E j \in 1..Len(order) : x = dst + order[j]
               THEN m[src + (x - dst)] ELSE m[x]]

LEMMA CopyWrites ==
  ASSUME NEW M \in SUBSET Int, NEW V, NEW m \in [M -> V], NEW dst \in Int, NEW src \in Int,
         NEW order \in Seq(Int), Ordered(M, dst, src, order)
  PROVE  Bytes!Copied(m, dst, src, order) = CopyIn(M, m, dst, src, order)
<1>. DEFINE n == Len(order)
            X == {i \in Int : dst + i \in M /\ src + i \in M}
            D == [M -> V]
            op == [p \in D \X X |-> [p[1] EXCEPT ![dst + p[2]] = p[1][src + p[2]]]]
            f == CHOOSE g : Copies(m, dst, src, order, 1..n, g)
            d == [k \in 1..n |-> dst + order[k]]
            u == [x \in M |-> m[src + (x - dst)]]
<1>1. /\ n \in Nat /\ DOMAIN order = 1..n /\ n \in 0..Len(order)
      /\ \A k \in 1..n : order[k] \in Int /\ order[k] \in X
  BY LenProperties, ElementOfSeq DEF Ordered
<1>2. order \in Seq(X)
  <2>1. order = [k \in 1..n |-> order[k]]
    BY LenProperties
  <2>. HIDE DEF X, n
  <2>2. order \in [1..n -> X]
    BY <1>1, <2>1
  <2>3. n \in Nat
    BY <1>1
  <2>. QED
    BY <2>2, <2>3
<1>3. \A t \in D, i \in X : [t EXCEPT ![dst + i] = t[src + i]] \in D
  OBVIOUS
<1>4. op \in [D \X X -> D]
  BY <1>3
<1>5. \A t \in D, i \in X : op[<<t, i>>] = [t EXCEPT ![dst + i] = t[src + i]]
  OBVIOUS
<1>6. PICK h : FoldsOver(op, m, order, n, h) /\ \A t \in SUBSET (1..n) : h[t] \in D
  <2>. HIDE DEF op, X
  <2>. QED
    BY <1>1, <1>2, <1>4, FoldExists
<1>7. Copies(m, dst, src, order, 1..n, h)
  <2>. HIDE DEF op, D, X, n
  <2>1. ASSUME NEW t \in SUBSET (1..n), t # {}
        PROVE  op[<<h[t \ {Bytes!Max(t)}], order[Bytes!Max(t)]>>]
                 = [h[t \ {Bytes!Max(t)}] EXCEPT ![dst + order[Bytes!Max(t)]]
                      = h[t \ {Bytes!Max(t)}][src + order[Bytes!Max(t)]]]
    <3>1. Bytes!Max(t) \in 1..n /\ t \ {Bytes!Max(t)} \in SUBSET (1..n)
      BY <1>1, <2>1, GreatestOfPositions, MemoryMaxIsGreatest
    <3>. QED
      BY <1>1, <1>5, <1>6, <3>1
  <2>2. \A t \in SUBSET (1..n) :
          (IF t = {} THEN m ELSE op[<<h[t \ {Bytes!Max(t)}], order[Bytes!Max(t)]>>])
          = (IF t = {} THEN m
             ELSE [h[t \ {Bytes!Max(t)}] EXCEPT ![dst + order[Bytes!Max(t)]]
                      = h[t \ {Bytes!Max(t)}][src + order[Bytes!Max(t)]]])
    BY <2>1
  <2>3. h = [t \in SUBSET (1..n) |->
               IF t = {} THEN m ELSE op[<<h[t \ {Bytes!Max(t)}], order[Bytes!Max(t)]>>]]
    BY <1>6, MemoryMaxIsGreatest DEF FoldsOver
  <2>4. h = [t \in SUBSET (1..n) |->
               IF t = {} THEN m
               ELSE [h[t \ {Bytes!Max(t)}] EXCEPT ![dst + order[Bytes!Max(t)]]
                       = h[t \ {Bytes!Max(t)}][src + order[Bytes!Max(t)]]]]
    BY <2>2, <2>3
  <2>. QED
    BY <2>4 DEF Copies
<1>8. Copies(m, dst, src, order, 1..n, f)
  BY <1>7
<1>. HIDE DEF f
<1>9. f[{}] = m
  BY <1>8 DEF Copies
<1>10. ASSUME NEW k \in 1..n, f[1..(k - 1)] = Written(m, d, u, k - 1)
       PROVE  f[1..k] = [f[1..(k - 1)] EXCEPT ![d[k]] = u[d[k]]]
  <2>1. /\ 1..k \in SUBSET (1..n) /\ 1..k # {}
        /\ Bytes!Max(1..k) = k /\ (1..k) \ {k} = 1..(k - 1)
    BY <1>1, GreatestOfFirst, MemoryMaxIsGreatest
  <2>2. f[1..k] = [f[(1..k) \ {Bytes!Max(1..k)}] EXCEPT ![dst + order[Bytes!Max(1..k)]]
                     = f[(1..k) \ {Bytes!Max(1..k)}][src + order[Bytes!Max(1..k)]]]
    <3>. HIDE DEF n
    <3>. QED
      BY <1>8, <2>1 DEF Copies
  <2>3. f[1..k] = [f[1..(k - 1)] EXCEPT ![dst + order[k]] = f[1..(k - 1)][src + order[k]]]
    <3>. HIDE DEF n, d, u
    <3>. QED
      BY <2>1, <2>2
  <2>4. f[1..(k - 1)][src + order[k]] = m[src + order[k]]
    <3>1. \A j \in 1..(k - 1) : j \in 1..n /\ d[j] # src + order[k]
      BY <1>1 DEF Ordered
    <3>2. src + order[k] \in DOMAIN m
      BY <1>1 DEF Ordered
    <3>. HIDE DEF d, u, n
    <3>. QED
      BY <1>10, <3>1, <3>2 DEF Written
  <2>5. d[k] = dst + order[k] /\ u[d[k]] = m[src + order[k]]
    <3>1. d[k] = dst + order[k] /\ d[k] \in M
      BY <1>1
    <3>2. src + (d[k] - dst) = src + order[k]
      BY <1>1, <3>1
    <3>. HIDE DEF d
    <3>. QED
      BY <3>1, <3>2
  <2>. HIDE DEF d, u, n
  <2>. QED
    BY <2>3, <2>4, <2>5
<1>11. f[1..n] = Written(m, d, u, n)
  <2>. HIDE DEF d, u, n
  <2>2. \A k \in 1..n : f[1..(k - 1)] = Written(m, d, u, k - 1) =>
          f[1..k] = [f[1..(k - 1)] EXCEPT ![d[k]] = u[d[k]]]
    BY <1>10
  <2>3. Stores(m, d, u, n, f)
    BY <1>9, <2>2 DEF Stores
  <2>. QED
    BY <1>1, <2>3, StoresOneByOne
<1>12. Written(m, d, u, n) = CopyIn(M, m, dst, src, order)
  BY <1>1 DEF Written, CopyIn
<1>13. Bytes!Copied(m, dst, src, order) = f[1..n]
  <2>. HIDE DEF n
  <2>. QED
    BY <1>1, CopyIsFold DEF f
<1>. QED
  BY <1>11, <1>12, <1>13

-----------------------------------------------------------------------------
\* f is the recursive function of a loop that goes on until stop, and makes v
\* of the place where it stops.
Searches(D, stop, v, f) == f = [i \in D |-> IF i \in stop THEN v[i] ELSE f[i + 1]]

\* From the beginning it finds what is at n.
Found(D, stop, v, n) ==
  /\ \E f : Searches(D, stop, v, f)
  /\ \A f : Searches(D, stop, v, f) => f[0] = v[n]

\* There is one, and it finds the first place to stop.
LEMMA SearchFinds ==
  ASSUME NEW D \in SUBSET Nat, NEW stop \in SUBSET D, NEW v,
         \A i \in D : i \notin stop => i + 1 \in D,
         NEW n \in Nat, 0..n \subseteq D, n \in stop, \A i \in 0..(n - 1) : i \notin stop
  PROVE  Found(D, stop, v, n)
<1>1. \E f : Searches(D, stop, v, f)
  <2>. DEFINE Z(i) == {j \in D : i <= j /\ j \in stop}
              Least(T) == CHOOSE k \in T : \A j \in T : k <= j
              f == [i \in D |-> IF Z(i) = {} THEN 0 ELSE v[Least(Z(i))]]
  <2>1. ASSUME NEW i \in D PROVE f[i] = IF i \in stop THEN v[i] ELSE f[i + 1]
    <3>1. CASE i \in stop
      <4>1. i \in Z(i) /\ \A j \in Z(i) : i <= j /\ j \in Nat
        BY <3>1
      <4>. HIDE DEF Z
      <4>2. Least(Z(i)) = i
        BY <4>1
      <4>. HIDE DEF Least
      <4>. QED
        BY <3>1, <4>1, <4>2
    <3>2. CASE i \notin stop
      <4>1. Z(i) = Z(i + 1)
        <5>1. \A j \in D : i <= j /\ j \in stop <=> i + 1 <= j /\ j \in stop
          BY <3>2
        <5>. QED
          BY <5>1
      <4>2. i + 1 \in D
        BY <3>2
      <4>. HIDE DEF Z, Least
      <4>. QED
        BY <3>2, <4>1, <4>2
    <3>. QED
      BY <3>1, <3>2
  <2>2. f = [i \in D |-> f[i]]
    OBVIOUS
  <2>. HIDE DEF f
  <2>. QED
    BY <2>1, <2>2 DEF Searches
<1>2. ASSUME NEW f, Searches(D, stop, v, f) PROVE f[0] = v[n]
  <2>1. \A i \in D : f[i] = IF i \in stop THEN v[i] ELSE f[i + 1]
    BY <1>2 DEF Searches
  <2>. DEFINE S == {k \in 0..n : f[0] = f[k]}
  <2>2. 0 \in S
    OBVIOUS
  <2>3. ASSUME NEW k \in 1..n, k - 1 \in S PROVE k \in S
    <3>1. k - 1 \in 0..(n - 1) /\ k - 1 \in D /\ (k - 1) + 1 = k
      OBVIOUS
    <3>2. f[k - 1] = f[k]
      BY <2>1, <3>1
    <3>. QED
      BY <2>3, <3>2
  <2>. HIDE DEF S
  <2>4. n \in S
    BY <2>2, <2>3, UpTo
  <2>5. n \in D
    OBVIOUS
  <2>. QED
    BY <2>1, <2>4, <2>5 DEF S
<1>. QED
  BY <1>1, <1>2 DEF Found

\* strlen counts to the first end.
LEMMA StrlenIs ==
  ASSUME NEW m, NEW s, NEW n \in Nat, m[s + n] = 0, \A i \in 0..(n - 1) : m[s + i] # 0
  PROVE  Bytes!strlen(m, s) = n
<1>. DEFINE stop == {i \in Nat : m[s + i] = 0}
            v == [i \in Nat |-> i]
            Rec(f) == f = [i \in Nat |-> IF m[s + i] # 0 THEN f[i + 1] ELSE i]
<1>1. \A f : Rec(f) <=> Searches(Nat, stop, v, f)
  <2>1. \A f : [i \in Nat |-> IF m[s + i] # 0 THEN f[i + 1] ELSE i]
                 = [i \in Nat |-> IF i \in stop THEN v[i] ELSE f[i + 1]]
    OBVIOUS
  <2>. HIDE DEF stop, v
  <2>. QED
    BY <2>1 DEF Searches
<1>2. Bytes!strlen(m, s) = (CHOOSE f : Rec(f))[0]
  BY DEF Bytes!strlen
<1>3. Found(Nat, stop, v, n)
  <2>0. /\ stop \in SUBSET Nat
        /\ \A i \in Nat : i \in stop <=> m[s + i] = 0
        /\ \A i \in 0..(n - 1) : i \in Nat
    OBVIOUS
  <2>. HIDE DEF stop, v
  <2>1. stop \in SUBSET Nat /\ n \in stop /\ \A i \in 0..(n - 1) : i \notin stop
    BY <2>0
  <2>2. Nat \in SUBSET Nat /\ 0..n \subseteq Nat /\ \A i \in Nat : i + 1 \in Nat
    OBVIOUS
  <2>. QED
    BY <2>1, <2>2, SearchFinds
<1>. HIDE DEF Rec, stop
<1>. QED
  BY <1>1, <1>2, <1>3 DEF Found

\* The strings at a and b agree before their n-th character, and end or differ
\* there.
Agree(m, a, b, n) ==
  /\ m[a + n] # m[b + n] \/ m[a + n] = 0
  /\ \A i \in 0..(n - 1) : m[a + i] = m[b + i] /\ m[a + i] # 0

\* strcmp compares up to the first difference, or to the end.
LEMMA StrcmpIs ==
  ASSUME NEW m, NEW a \in Nat, NEW b \in Nat, NEW n \in Nat, Agree(m, a, b, n)
  PROVE  Bytes!strcmp(m, a, b) = IF m[a + n] # m[b + n]
                           THEN IF Bytes!char(m[a + n]) < Bytes!char(m[b + n]) THEN -1 ELSE 1
                           ELSE 0
<1>. DEFINE stop == {i \in Nat : m[a + i] # m[b + i] \/ m[a + i] = 0}
            v == [i \in Nat |-> IF m[a + i] # m[b + i]
                                THEN IF Bytes!char(m[a + i]) < Bytes!char(m[b + i]) THEN -1 ELSE 1
                                ELSE 0]
            Rec(f) == f = [i \in Nat |->
                             IF m[a + i] # m[b + i]
                             THEN IF Bytes!char(m[a + i]) < Bytes!char(m[b + i]) THEN -1 ELSE 1
                             ELSE IF m[a + i] = 0 THEN 0
                             ELSE f[i + 1]]
<1>1. \A f : Rec(f) <=> Searches(Nat, stop, v, f)
  <2>1. \A f : [i \in Nat |-> IF m[a + i] # m[b + i]
                              THEN IF Bytes!char(m[a + i]) < Bytes!char(m[b + i]) THEN -1 ELSE 1
                              ELSE IF m[a + i] = 0 THEN 0
                              ELSE f[i + 1]]
                 = [i \in Nat |-> IF i \in stop THEN v[i] ELSE f[i + 1]]
    OBVIOUS
  <2>. HIDE DEF stop, v
  <2>. QED
    BY <2>1 DEF Searches
<1>2. Bytes!strcmp(m, a, b) = (CHOOSE f : Rec(f))[0]
  BY DEF Bytes!strcmp
<1>3. Found(Nat, stop, v, n)
  <2>0. /\ stop \in SUBSET Nat
        /\ \A i \in Nat : i \in stop <=> (m[a + i] # m[b + i] \/ m[a + i] = 0)
        /\ \A i \in 0..(n - 1) : i \in Nat
    OBVIOUS
  <2>. HIDE DEF stop, v
  <2>1. stop \in SUBSET Nat /\ n \in stop /\ \A i \in 0..(n - 1) : i \notin stop
    BY <2>0 DEF Agree
  <2>2. Nat \in SUBSET Nat /\ 0..n \subseteq Nat /\ \A i \in Nat : i + 1 \in Nat
    OBVIOUS
  <2>. QED
    BY <2>1, <2>2, SearchFinds
<1>. HIDE DEF Rec, stop
<1>. QED
  BY <1>1, <1>2, <1>3 DEF Found

\* memcmp answers with the sign at the first difference, and 0 without one.
LEMMA MemcmpIs ==
  ASSUME NEW M, NEW m \in [M -> Int], NEW a \in Int, NEW b \in Int, NEW l \in Nat,
         Within(M, a, l), Within(M, b, l)
  PROVE  Bytes!Compares(m, a, b, l, Bytes!memcmp(m, a, b, l))
<1>. DEFINE D == 0..l
            stop == {i \in D : i = l \/ m[a + i] # m[b + i]}
            v == [i \in D |-> IF i = l THEN 0 ELSE IF m[a + i] < m[b + i] THEN -1 ELSE 1]
            Rec(f) == f = [i \in 0..l |->
                             IF i = l THEN 0
                             ELSE IF m[a + i] < m[b + i] THEN -1
                             ELSE IF m[b + i] < m[a + i] THEN 1
                             ELSE f[i + 1]]
<1>0. /\ stop \in SUBSET D /\ D \in SUBSET Nat /\ l \in D
      /\ \A i \in D : i \in stop <=> (i = l \/ m[a + i] # m[b + i])
      /\ \A i \in D : i # l => /\ i \in 0..(l - 1) /\ i + 1 \in D
                              /\ m[a + i] \in Int /\ m[b + i] \in Int
      /\ \A i \in D : v[i] = IF i = l THEN 0 ELSE IF m[a + i] < m[b + i] THEN -1 ELSE 1
  <2>1. \A i \in D : i # l => i \in 0..(l - 1) /\ i + 1 \in D
    OBVIOUS
  <2>2. /\ stop \in SUBSET D /\ D \in SUBSET Nat /\ l \in D
        /\ \A i \in D : i \in stop <=> (i = l \/ m[a + i] # m[b + i])
        /\ \A i \in D : v[i] = IF i = l THEN 0 ELSE IF m[a + i] < m[b + i] THEN -1 ELSE 1
    OBVIOUS
  <2>3. \A i \in 0..(l - 1) : m[a + i] \in Int /\ m[b + i] \in Int
    BY DEF Within
  <2>. HIDE DEF D, stop, v
  <2>. QED
    BY <2>1, <2>2, <2>3
<1>1. \A f : Rec(f) <=> Searches(D, stop, v, f)
  <2>1. ASSUME NEW f, NEW i \in D
        PROVE  (IF i = l THEN 0
                ELSE IF m[a + i] < m[b + i] THEN -1
                ELSE IF m[b + i] < m[a + i] THEN 1
                ELSE f[i + 1]) = (IF i \in stop THEN v[i] ELSE f[i + 1])
    <3>. HIDE DEF D, stop, v
    <3>. QED
      BY <1>0
  <2>. HIDE DEF stop, v
  <2>2. \A f : [i \in D |-> IF i = l THEN 0
                            ELSE IF m[a + i] < m[b + i] THEN -1
                            ELSE IF m[b + i] < m[a + i] THEN 1
                            ELSE f[i + 1]]
                 = [i \in D |-> IF i \in stop THEN v[i] ELSE f[i + 1]]
    <3>. HIDE DEF D
    <3>. QED
      BY <2>1
  <2>. QED
    BY <2>2 DEF Searches
<1>2. Bytes!memcmp(m, a, b, l) = (CHOOSE f : Rec(f))[0]
  BY DEF Bytes!memcmp
<1>3. PICK n \in D : n \in stop /\ \A i \in 0..(n - 1) : i \notin stop
  <2>. DEFINE T == {i \in D : i \in stop}
  <2>1. l \in T /\ T \in SUBSET Nat
    <3>. HIDE DEF D, stop
    <3>. QED
      BY <1>0
  <2>. HIDE DEF T
  <2>2. PICK n \in T : \A k \in T : n <= k
    BY <2>1, LeastNatural
  <2>3. ASSUME NEW i \in 0..(n - 1) PROVE i \notin stop
    <3>1. n \in D
      BY <2>2 DEF T
    <3>2. i \in D /\ ~(n <= i)
      BY <3>1
    <3>. QED
      BY <2>2, <3>2 DEF T
  <2>. QED
    BY <2>2, <2>3 DEF T
<1>4. Found(D, stop, v, n)
  <2>1. 0..n \subseteq D
    OBVIOUS
  <2>. HIDE DEF stop, v, D
  <2>2. \A i \in D : i \notin stop => i + 1 \in D
    BY <1>0
  <2>3. n \in Nat
    BY <1>0
  <2>. QED
    BY <1>0, <1>3, <2>1, <2>2, <2>3, SearchFinds
<1>5. Bytes!memcmp(m, a, b, l) = v[n]
  <2>. HIDE DEF Rec, stop, v, D
  <2>. QED
    BY <1>1, <1>2, <1>4 DEF Found
<1>6. CASE n = l
  <2>1. ASSUME NEW i \in 0..(l - 1) PROVE m[a + i] = m[b + i]
    <3>1. i \in D
      OBVIOUS
    <3>. HIDE DEF stop, v, D
    <3>. QED
      BY <1>0, <1>3, <1>6, <3>1
  <2>2. v[n] = 0
    BY <1>6
  <2>. HIDE DEF stop, v, D
  <2>. QED
    BY <1>5, <2>1, <2>2 DEF Bytes!Compares
<1>7. CASE n # l
  <2>1. ASSUME NEW j \in 0..(n - 1) PROVE j \in D
    OBVIOUS
  <2>. HIDE DEF stop, v, D
  <2>2. /\ n \in 0..(l - 1) /\ m[a + n] # m[b + n]
        /\ v[n] = IF m[a + n] < m[b + n] THEN -1 ELSE 1
    BY <1>0, <1>3, <1>7
  <2>3. ASSUME NEW j \in 0..(n - 1) PROVE m[a + j] = m[b + j]
    BY <1>0, <1>3, <2>1
  <2>4. \A j \in 0..(n - 1) : m[a + j] = m[b + j]
    BY <2>3
  <2>. QED
    BY <1>5, <2>2, <2>4 DEF Bytes!Compares
<1>. QED
  BY <1>6, <1>7

-----------------------------------------------------------------------------
\* What is written of the bytes from dst on, in either direction.
LEMMA CopyBecomes ==
  ASSUME NEW M \in SUBSET Int, NEW m \in [M -> Int], NEW dst \in Int, NEW src \in Int,
         NEW n \in Nat, Within(M, dst, n), Within(M, src, n), NEW order,
         \/ order = Bytes!Up(n) /\ (dst <= src \/ Bytes!Apart(dst, src, n))
         \/ order = Bytes!Down(n) /\ src <= dst
  PROVE  /\ Bytes!Copied(m, dst, src, order) \in [M -> Int]
         /\ \A x \in M : Bytes!Copied(m, dst, src, order)[x] =
              IF x \in dst..(dst + n - 1) THEN m[src + (x - dst)] ELSE m[x]
<1>0. \A i \in 0..(n - 1) : dst + i \in M /\ src + i \in M
  BY DEF Within
<1>1. /\ order \in Seq(Int) /\ Len(order) = n
      /\ \/ /\ \A k \in 1..n : order[k] = k - 1
            /\ dst <= src \/ Bytes!Apart(dst, src, n)
         \/ (\A k \in 1..n : order[k] = n - k) /\ src <= dst
  <2>1. Seq(0..(n - 1)) \subseteq Seq(Int)
    <3>1. 0..(n - 1) \subseteq Int
      OBVIOUS
    <3>. QED
      BY <3>1
  <2>2. CASE order = Bytes!Up(n) /\ (dst <= src \/ Bytes!Apart(dst, src, n))
    BY <2>1, <2>2, Directions
  <2>3. CASE order = Bytes!Down(n) /\ src <= dst
    BY <2>1, <2>3, Directions
  <2>. QED
    BY <2>2, <2>3
<1>2. \A k \in 1..n : order[k] \in 0..(n - 1)
  <2>. SUFFICES ASSUME NEW k \in 1..n PROVE order[k] \in 0..(n - 1)
    OBVIOUS
  <2>1. order[k] = k - 1 \/ order[k] = n - k
    BY <1>1
  <2>. QED
    BY <2>1
<1>3. \A k \in 1..n : \A j \in 1..(k - 1) : src + order[k] # dst + order[j]
  <2>. SUFFICES ASSUME NEW k \in 1..n, NEW j \in 1..(k - 1)
                PROVE  src + order[k] # dst + order[j]
    OBVIOUS
  <2>1. j \in 1..n /\ j < k
    OBVIOUS
  <2>2. CASE \A i \in 1..n : order[i] = n - i
    <3>1. order[k] = n - k /\ order[j] = n - j
      BY <2>1, <2>2
    <3>2. CASE src <= dst
      BY <2>1, <3>1, <3>2
    <3>. QED
      BY <1>1, <2>1, <2>2, <3>1, <3>2 DEF Bytes!Apart
  <2>3. CASE \A i \in 1..n : order[i] = i - 1
    <3>1. order[k] = k - 1 /\ order[j] = j - 1
      BY <2>1, <2>3
    <3>. QED
      BY <1>1, <2>1, <3>1 DEF Bytes!Apart
  <2>. QED
    BY <1>1, <2>2, <2>3
<1>4. ASSUME NEW x \in M
      PROVE  (\E j \in 1..n : x = dst + order[j]) <=> x \in dst..(dst + n - 1)
  <2>1. ASSUME x \in dst..(dst + n - 1) PROVE \E j \in 1..n : x = dst + order[j]
    <3>1. CASE \A k \in 1..n : order[k] = k - 1
      <4>1. x - dst + 1 \in 1..n /\ x = dst + ((x - dst + 1) - 1)
        BY <2>1
      <4>. QED
        BY <3>1, <4>1
    <3>2. CASE \A k \in 1..n : order[k] = n - k
      <4>1. n - (x - dst) \in 1..n /\ x = dst + (n - (n - (x - dst)))
        BY <2>1
      <4>. QED
        BY <3>2, <4>1
    <3>. QED
      BY <1>1, <3>1, <3>2
  <2>2. ASSUME NEW j \in 1..n, x = dst + order[j] PROVE x \in dst..(dst + n - 1)
    BY <1>2, <2>2
  <2>. QED
    BY <2>1, <2>2
<1>5. Bytes!Copied(m, dst, src, order) =
        [x \in M |-> IF \E j \in 1..n : x = dst + order[j]
                     THEN m[src + (x - dst)] ELSE m[x]]
  <2>1. \A k \in 1..Len(order) : dst + order[k] \in M /\ src + order[k] \in M
    BY <1>0, <1>1, <1>2
  <2>2. Ordered(M, dst, src, order)
    BY <1>1, <1>3, <2>1 DEF Ordered
  <2>3. order \in Seq(Int)
    BY <1>1
  <2>4. Bytes!Copied(m, dst, src, order) = CopyIn(M, m, dst, src, order)
    BY <2>2, <2>3, CopyWrites
  <2>. QED
    BY <1>1, <2>4 DEF CopyIn
<1>6. \A x \in M : x \in dst..(dst + n - 1) => src + (x - dst) \in M
  <2>1. \A x \in dst..(dst + n - 1) : x - dst \in 0..(n - 1)
    OBVIOUS
  <2>. QED
    BY <1>0, <2>1
<1>. QED
  BY <1>4, <1>5, <1>6

\* A string that ends has a length.
LEMMA StringHasLength ==
  ASSUME NEW m, NEW s \in Nat, Bytes!Terminated(m, s)
  PROVE  \E n \in Nat : /\ s + n <= STRINGS - 1 /\ m[s + n] = 0
                        /\ \A i \in 0..(n - 1) : m[s + i] # 0
                        /\ Bytes!strlen(m, s) = n
<1>. DEFINE T == {i \in Nat : m[s + i] = 0}
<1>1. PICK e \in s..(STRINGS - 1) : m[e] = 0
  BY DEF Bytes!Terminated
<1>2. e - s \in T /\ T \in SUBSET Nat
  <2>1. e - s \in Nat /\ s + (e - s) = e
    BY <1>1, MemoryAssumption
  <2>. QED
    BY <1>1, <2>1
<1>. HIDE DEF T
<1>3. PICK n \in T : \A k \in T : n <= k
  BY <1>2, LeastNatural
<1>4. n \in Nat /\ n <= e - s /\ m[s + n] = 0
  BY <1>2, <1>3 DEF T
<1>5. ASSUME NEW i \in 0..(n - 1) PROVE m[s + i] # 0
  <2>1. i \in Nat /\ ~(n <= i)
    BY <1>4
  <2>. QED
    BY <1>3, <2>1 DEF T
<1>6. s + n <= STRINGS - 1
  BY <1>1, <1>4, MemoryAssumption
<1>7. Bytes!strlen(m, s) = n
  BY <1>4, <1>5, StrlenIs
<1>. QED
  BY <1>4, <1>5, <1>6, <1>7

\* What a call may be.
LEMMA CallIs ==
  ASSUME Bytes!Called
  PROVE  /\ call.a \in Nat /\ call.b \in Nat /\ call.n \in Nat
         /\ \/ /\ call.f \in {"memset", "memcpy", "memmove"}
               /\ before \in [0..(SIZE - 1) -> Int]
               /\ call.a + call.n <= SIZE /\ call.b + call.n <= SIZE
            \/ /\ call.f \in {"memcmp", "strlen", "strcmp", "strcpy", "strdup"}
               /\ before \in [0..(STRINGS - 1) -> Int]
               /\ CASE call.f = "memcmp" -> call.a + call.n <= STRINGS /\ call.b + call.n <= STRINGS
                    [] call.f = "strlen" -> Bytes!Terminated(before, call.a)
                    [] call.f = "strcmp" -> Bytes!Terminated(before, call.a) /\ Bytes!Terminated(before, call.b)
                    [] OTHER -> /\ Bytes!Terminated(before, call.b)
                                /\ call.n = Bytes!strlen(before, call.b) + 1
                                /\ call.a + call.n <= STRINGS
                                /\ Bytes!Apart(call.a, call.b, call.n)
<1>1. CASE /\ before = Bytes!Distinct
           /\ \E f \in {"memset", "memcpy", "memmove"}, a, b \in 0..(SIZE - 1), n \in 0..SIZE :
                /\ a + n <= SIZE /\ b + n <= SIZE
                /\ call = [f |-> f, a |-> a, b |-> b, n |-> n]
  <2>1. before \in [0..(SIZE - 1) -> Int]
    BY <1>1 DEF Bytes!Distinct
  <2>. QED
    BY <1>1, <2>1
<1>2. CASE /\ before \in [0..(STRINGS - 1) -> Byte]
           /\ \E f \in {"memcmp", "strlen", "strcmp", "strcpy", "strdup"},
                 a, b \in 0..(STRINGS - 1), n \in 0..STRINGS :
                /\ CASE f = "memcmp" -> a + n <= STRINGS /\ b + n <= STRINGS
                     [] f = "strlen" -> Bytes!Terminated(before, a) /\ b = a /\ n = 0
                     [] f = "strcmp" -> Bytes!Terminated(before, a) /\ Bytes!Terminated(before, b) /\ n = 0
                     [] OTHER -> /\ Bytes!Terminated(before, b)
                                 /\ n = Bytes!strlen(before, b) + 1
                                 /\ a + n <= STRINGS /\ Bytes!Apart(a, b, n)
                /\ call = [f |-> f, a |-> a, b |-> b, n |-> n]
  <2>1. before \in [0..(STRINGS - 1) -> Int]
    <3>1. before \in [0..(STRINGS - 1) -> Byte]
      BY <1>2
    <3>2. \A x \in Byte : x \in Int
      BY MemoryAssumption
    <3>. QED
      BY <3>1, <3>2
  <2>2. PICK f \in {"memcmp", "strlen", "strcmp", "strcpy", "strdup"},
             a \in 0..(STRINGS - 1), b \in 0..(STRINGS - 1), n \in 0..STRINGS :
               /\ CASE f = "memcmp" -> a + n <= STRINGS /\ b + n <= STRINGS
                    [] f = "strlen" -> Bytes!Terminated(before, a) /\ b = a /\ n = 0
                    [] f = "strcmp" -> Bytes!Terminated(before, a) /\ Bytes!Terminated(before, b) /\ n = 0
                    [] OTHER -> /\ Bytes!Terminated(before, b)
                                /\ n = Bytes!strlen(before, b) + 1
                                /\ a + n <= STRINGS /\ Bytes!Apart(a, b, n)
               /\ call = [f |-> f, a |-> a, b |-> b, n |-> n]
    BY <1>2
  <2>3. call.f = f /\ call.a = a /\ call.b = b /\ call.n = n
    BY <2>2
  <2>. QED
    BY <2>1, <2>2, <2>3
<1>. QED
  BY <1>1, <1>2 DEF Bytes!Called

\* Strings are compared as sequences of characters are.
LEMMA StringsCompare ==
  ASSUME NEW a \in Nat, NEW b \in Nat, Bytes!Terminated(before, a), Bytes!Terminated(before, b),
         before \in [0..(STRINGS - 1) -> Int]
  PROVE  Bytes!strcmp(before, a, b) = IF Bytes!StringAt(a) = Bytes!StringAt(b) THEN 0
                                ELSE IF Bytes!Less(Bytes!StringAt(a), Bytes!StringAt(b)) THEN -1 ELSE 1
<1>1. PICK la \in Nat : /\ a + la <= STRINGS - 1 /\ before[a + la] = 0
                        /\ \A i \in 0..(la - 1) : before[a + i] # 0
                        /\ Bytes!strlen(before, a) = la
  BY StringHasLength
<1>2. PICK lb \in Nat : /\ b + lb <= STRINGS - 1 /\ before[b + lb] = 0
                        /\ \A i \in 0..(lb - 1) : before[b + i] # 0
                        /\ Bytes!strlen(before, b) = lb
  BY StringHasLength
<1>. DEFINE T == {i \in Nat : before[a + i] # before[b + i] \/ before[a + i] = 0}
            s == Bytes!StringAt(a)
            t == Bytes!StringAt(b)
<1>3. PICK n \in T : \A k \in T : n <= k
  <2>1. la \in T /\ T \in SUBSET Nat
    BY <1>1
  <2>. HIDE DEF T
  <2>. QED
    BY <2>1, LeastNatural
<1>4. /\ n \in Nat /\ n <= la
      /\ before[a + n] # before[b + n] \/ before[a + n] = 0
      /\ \A i \in 0..(n - 1) : before[a + i] = before[b + i] /\ before[a + i] # 0
  <2>1. la \in T
    BY <1>1
  <2>2. n \in Nat /\ (before[a + n] # before[b + n] \/ before[a + n] = 0)
    BY <1>3
  <2>3. \A i \in 0..(n - 1) : i \in Nat /\ ~(n <= i)
    BY <2>2
  <2>4. \A i \in 0..(n - 1) : i \notin T
    BY <1>3, <2>3
  <2>. QED
    BY <1>3, <2>1, <2>2, <2>3, <2>4
<1>. HIDE DEF T
<1>5. n <= lb
  <2>1. ASSUME lb < n PROVE FALSE
    <3>1. lb \in 0..(n - 1)
      BY <1>2, <1>4, <2>1
    <3>. QED
      BY <1>2, <1>4, <3>1
  <2>. QED
    BY <1>2, <1>4, <2>1
<1>6. Bytes!strcmp(before, a, b) = IF before[a + n] # before[b + n]
                             THEN IF Bytes!char(before[a + n]) < Bytes!char(before[b + n]) THEN -1 ELSE 1
                             ELSE 0
  <2>1. Agree(before, a, b, n)
    BY <1>4 DEF Agree
  <2>2. n \in Nat
    BY <1>4
  <2>. QED
    BY <2>1, <2>2, StrcmpIs, Zenon
<1>7. ASSUME NEW p \in Nat, NEW l \in Nat, p + l <= STRINGS - 1, Bytes!strlen(before, p) = l
      PROVE  /\ Bytes!StringAt(p) \in Seq(Int) /\ Len(Bytes!StringAt(p)) = l + 1
             /\ DOMAIN Bytes!StringAt(p) = 1..(l + 1)
             /\ \A i \in 1..(l + 1) : Bytes!StringAt(p)[i] = before[p + i - 1]
  <2>. DEFINE all == [i \in 1..STRINGS |-> before[i - 1]]
  <2>1. /\ p + 1 \in Int /\ p + l + 1 \in Int /\ p + 1 <= p + l + 1
        /\ (p + l + 1) - (p + 1) + 1 = l + 1
    OBVIOUS
  <2>2. \A i \in (p + 1)..(p + l + 1) : all[i] = before[i - 1] /\ all[i] \in Int
    <3>1. \A i \in (p + 1)..(p + l + 1) : i \in 1..STRINGS /\ i - 1 \in 0..(STRINGS - 1)
      BY <1>7, MemoryAssumption
    <3>. QED
      BY <3>1
  <2>. HIDE DEF all
  <2>3. Bytes!StringAt(p) = SubSeq(all, p + 1, p + l + 1)
    BY <1>7 DEF Bytes!StringAt, all
  <2>4. /\ SubSeq(all, p + 1, p + l + 1) \in Seq(Int)
        /\ Len(SubSeq(all, p + 1, p + l + 1)) = l + 1
        /\ \A i \in 1..(l + 1) : SubSeq(all, p + 1, p + l + 1)[i] = all[(p + 1) + i - 1]
    BY <2>1, <2>2, SubSeqProperties
  <2>5. \A i \in 1..(l + 1) : (p + 1) + i - 1 \in (p + 1)..(p + l + 1)
                              /\ ((p + 1) + i - 1) - 1 = p + i - 1
    OBVIOUS
  <2>. QED
    BY <2>2, <2>3, <2>4, <2>5, LenProperties
<1>8. /\ s \in Seq(Int) /\ Len(s) = la + 1 /\ DOMAIN s = 1..(la + 1)
      /\ \A i \in 1..(la + 1) : s[i] = before[a + i - 1]
      /\ t \in Seq(Int) /\ Len(t) = lb + 1 /\ DOMAIN t = 1..(lb + 1)
      /\ \A i \in 1..(lb + 1) : t[i] = before[b + i - 1]
  BY SMTT(30), <1>1, <1>2, <1>7
<1>. HIDE DEF s, t
<1>9. /\ n + 1 \in 1..(la + 1) /\ n + 1 \in 1..(lb + 1)
      /\ s[n + 1] = before[a + n] /\ t[n + 1] = before[b + n]
      /\ \A i \in 1..n : s[i] = t[i]
  <2>1. n + 1 \in 1..(la + 1) /\ n + 1 \in 1..(lb + 1)
    BY <1>4, <1>5
  <2>2. a + (n + 1) - 1 = a + n /\ b + (n + 1) - 1 = b + n
    BY <1>4
  <2>3. ASSUME NEW i \in 1..n PROVE s[i] = t[i]
    <3>1. /\ i \in 1..(la + 1) /\ i \in 1..(lb + 1) /\ i - 1 \in 0..(n - 1)
          /\ a + i - 1 = a + (i - 1) /\ b + i - 1 = b + (i - 1)
      BY <1>4, <1>5
    <3>. QED
      BY <1>4, <1>8, <3>1
  <2>. QED
    BY <1>8, <2>1, <2>2, <2>3
<1>10. CASE before[a + n] = before[b + n]
  <2>1. n = la /\ n = lb
    <3>1. before[a + n] = 0 /\ before[b + n] = 0
      BY <1>4, <1>10
    <3>2. ~(n < la) /\ ~(n < lb)
      BY <1>1, <1>2, <1>4, <3>1
    <3>. QED
      BY <1>4, <1>5, <3>2
  <2>2. \A i \in 1..(n + 1) : s[i] = t[i]
    <3>1. \A i \in 1..(n + 1) : i = n + 1 \/ i \in 1..n
      BY <1>4
    <3>. QED
      BY <1>9, <1>10, <3>1
  <2>3. s = t
    BY <1>8, <2>1, <2>2, SeqEqual
  <2>. QED
    BY <1>6, <1>10, <2>3 DEF s, t
<1>11. CASE before[a + n] # before[b + n]
  <2>1. s # t
    BY <1>9, <1>11
  <2>2. Bytes!Less(s, t) <=> Bytes!char(s[n + 1]) < Bytes!char(t[n + 1])
    <3>1. ASSUME Bytes!char(s[n + 1]) < Bytes!char(t[n + 1]) PROVE Bytes!Less(s, t)
      <4>1. SubSeq(s, 1, n) = SubSeq(t, 1, n)
        <5>1. /\ \A i \in 1..n : s[i] \in Int /\ t[i] \in Int
              /\ n \in Int /\ (n >= 1 => n - 1 + 1 = n) /\ \A i \in 1..n : 1 + i - 1 = i
          <6>1. \A i \in 1..n : i \in 1..Len(s) /\ i \in 1..Len(t)
            BY <1>1, <1>2, <1>4, <1>5, <1>8
          <6>2. \A i \in 1..n : s[i] \in Int /\ t[i] \in Int
            BY <1>8, <6>1, ElementOfSeq
          <6>. QED
            BY <1>4, <6>2
        <5>2. /\ SubSeq(s, 1, n) \in Seq(Int) /\ SubSeq(t, 1, n) \in Seq(Int)
              /\ Len(SubSeq(s, 1, n)) = n /\ Len(SubSeq(t, 1, n)) = n
              /\ \A i \in 1..n : SubSeq(s, 1, n)[i] = s[i] /\ SubSeq(t, 1, n)[i] = t[i]
          BY <1>4, <5>1, SubSeqProperties
        <5>. QED
          BY <1>9, <5>2, SeqEqual
      <4>2. n + 1 \in DOMAIN s \cap DOMAIN t /\ (n + 1) - 1 = n
        BY <1>4, <1>8, <1>9
      <4>. QED
        BY <3>1, <4>1, <4>2 DEF Bytes!Less
    <3>2. ASSUME Bytes!Less(s, t) PROVE Bytes!char(s[n + 1]) < Bytes!char(t[n + 1])
      <4>1. PICK i \in DOMAIN s \cap DOMAIN t :
              SubSeq(s, 1, i - 1) = SubSeq(t, 1, i - 1) /\ Bytes!char(s[i]) < Bytes!char(t[i])
        BY <3>2 DEF Bytes!Less
      <4>2. i \in Nat /\ i \in 1..(la + 1) /\ i \in 1..(lb + 1)
        BY <1>8, <4>1
      <4>3. CASE i < n + 1
        <5>1. i \in 1..n /\ s[i] = t[i] /\ s[i] \in Int
          BY SMTT(30), <1>4, <1>8, <1>9, <4>2, <4>3, ElementOfSeq
        <5>. QED
          BY <4>1, <5>1 DEF Bytes!char
      <4>4. CASE i > n + 1
        <5>1. /\ \A j \in 1..(i - 1) : j \in 1..(la + 1) /\ j \in 1..(lb + 1)
              /\ i - 1 \in Int /\ (i - 1) - 1 + 1 = i - 1
              /\ n + 1 \in 1..(i - 1) /\ 1 + (n + 1) - 1 = n + 1
          BY <1>4, <4>2, <4>4
        <5>2. \A j \in 1..(i - 1) : s[j] \in Int /\ t[j] \in Int
          BY <1>8, <5>1, ElementOfSeq
        <5>3. SubSeq(s, 1, i - 1)[n + 1] = s[n + 1] /\ SubSeq(t, 1, i - 1)[n + 1] = t[n + 1]
          BY <5>1, <5>2, SubSeqProperties
        <5>. QED
          BY <1>9, <1>11, <4>1, <5>3
      <4>5. i = n + 1 \/ i < n + 1 \/ i > n + 1
        BY <1>4, <4>2
      <4>. QED
        BY <4>1, <4>3, <4>4, <4>5
    <3>. QED
      BY <3>1, <3>2
  <2>. QED
    BY <1>6, <1>9, <1>11, <2>1, <2>2 DEF s, t
<1>. QED
  BY <1>10, <1>11

-----------------------------------------------------------------------------
\* A call has been made or has changed nothing yet, and what it has done is
\* what its name says.
MemInv == Bytes!Called /\ (value = Bytes!NONE => memory = before) /\ MemoryRight

LEMMA DoesRight ==
  ASSUME Bytes!Called, Bytes!Do, memory = before
  PROVE  MemoryRight' /\ (value' = Bytes!NONE => memory' = before)
<1>. DEFINE a == call.a
            b == call.b
            n == call.n
            M == DOMAIN before
            source == [k \in 0..(n - 1) |-> before[b + k]]
<1>1. a \in Nat /\ b \in Nat /\ n \in Nat /\ M \in SUBSET Int /\ before \in [M -> Int]
  <2>1. call.a \in Nat /\ call.b \in Nat /\ call.n \in Nat
    BY CallIs
  <2>2. before \in [0..(SIZE - 1) -> Int] \/ before \in [0..(STRINGS - 1) -> Int]
    BY CallIs
  <2>. QED
    BY SMTT(30), <2>1, <2>2, MemoryAssumption
<1>2. call' = call /\ before' = before
  BY DEF Bytes!Do
<1>3. CASE call.f = "memset"
  <2>1. memory' = Bytes!memset(before, a, b, n) /\ value' = a
    BY <1>3 DEF Bytes!Do
  <2>2. a + n <= SIZE /\ M = 0..(SIZE - 1)
    BY <1>3, CallIs
  <2>3. Within(M, a, n)
    BY <1>1, <2>2, MemoryAssumption DEF Within
  <2>. HIDE DEF a, b, n, M
  <2>4. \A x \in M : memory'[x] = IF x \in a..(a + n - 1) THEN b ELSE before[x]
    <3>1. a \in Int /\ b \in Int
      BY <1>1
    <3>2. \A x \in M : Bytes!memset(before, a, b, n)[x] =
                         IF x \in a..(a + n - 1) THEN b ELSE before[x]
      BY <1>1, <2>3, <3>1, SetWrites
    <3>. QED
      BY <2>1, <3>2
  <2>5. \A x \in M : x \in a..(a + n - 1) => [i \in 0..(n - 1) |-> b][x - a] = b
    <3>1. \A x \in a..(a + n - 1) : x - a \in 0..(n - 1)
      BY <1>1
    <3>. QED
      BY <3>1
  <2>6. Bytes!Becomes(a, n, [i \in 0..(n - 1) |-> b])'
    BY <1>2, <2>4, <2>5 DEF Bytes!Becomes, a, b, n, M
  <2>. QED
    BY <1>1, <1>2, <1>3, <2>1, <2>6 DEF MemoryRight, Bytes!MemoryRight, Bytes!NONE, a, b, n
<1>4. ASSUME call.f \in {"memcpy", "memmove", "strcpy", "strdup"}, value' = a,
             (call.f = "memcpy" /\ ~(a <= b \/ Bytes!Apart(a, b, n))) \/
               (\A x \in M : memory'[x] = IF x \in a..(a + n - 1)
                                          THEN before[b + (x - a)] ELSE before[x])
      PROVE  MemoryRight' /\ (value' = Bytes!NONE => memory' = before)
  <2>1. value' # Bytes!NONE
    BY <1>1, <1>4 DEF Bytes!NONE
  <2>2. CASE call.f = "memcpy" /\ ~(a <= b \/ Bytes!Apart(a, b, n))
    <3>1. ~((a <= b \/ Bytes!Apart(a, b, n))')
      BY <1>2, <2>2 DEF Bytes!Apart
    <3>. QED
      BY <1>2, <2>1, <2>2, <3>1 DEF MemoryRight, Bytes!MemoryRight
  <2>3. CASE \A x \in M : memory'[x] = IF x \in a..(a + n - 1)
                                       THEN before[b + (x - a)] ELSE before[x]
    <3>1. \A x \in a..(a + n - 1) : source[x - a] = before[b + (x - a)]
      <4>1. \A x \in a..(a + n - 1) : x - a \in 0..(n - 1)
        BY <1>1
      <4>. QED
        BY <4>1
    <3>2. Bytes!Becomes(a, n, source)'
      <4>. HIDE DEF a, b, n, source
      <4>1. \A x \in M : memory'[x] = IF x \in a..(a + n - 1) THEN source[x - a] ELSE before[x]
        BY <2>3, <3>1
      <4>. QED
        BY <1>2, <4>1 DEF Bytes!Becomes, a, b, n, source
    <3>. QED
      BY <1>2, <1>4, <2>1, <3>2 DEF MemoryRight, Bytes!MemoryRight
  <2>. QED
    BY <1>4, <2>2, <2>3
<1>5. ASSUME NEW order, Within(M, a, n), Within(M, b, n),
             \/ order = Bytes!Up(n) /\ (a <= b \/ Bytes!Apart(a, b, n))
             \/ order = Bytes!Down(n) /\ b <= a
      PROVE  \A x \in M : Bytes!Copied(before, a, b, order)[x] =
                            IF x \in a..(a + n - 1) THEN before[b + (x - a)] ELSE before[x]
  <2>. HIDE DEF a, b, n, M
  <2>1. a \in Int /\ b \in Int
    BY <1>1
  <2>. QED
    BY <1>1, <1>5, <2>1, CopyBecomes
<1>6. CASE call.f \in {"memcpy", "memmove"}
  <2>1. a + n <= SIZE /\ b + n <= SIZE /\ M = 0..(SIZE - 1)
    BY <1>6, CallIs
  <2>2. Within(M, a, n) /\ Within(M, b, n)
    <3>. HIDE DEF a, b, n, M
    <3>. QED
      BY <1>1, <2>1, MemoryAssumption DEF Within
  <2>3. CASE call.f = "memcpy"
    <3>1. memory' = Bytes!Copied(before, a, b, Bytes!Up(n)) /\ value' = a
      BY <2>3 DEF Bytes!Do, Bytes!memcpy
    <3>2. ASSUME a <= b \/ Bytes!Apart(a, b, n)
          PROVE  \A x \in M : memory'[x] = IF x \in a..(a + n - 1)
                                           THEN before[b + (x - a)] ELSE before[x]
      <4>. HIDE DEF a, b, n, M
      <4>. QED
        BY <1>5, <2>2, <3>1, <3>2
    <3>. HIDE DEF a, b, n, M
    <3>. QED
      BY <1>4, <2>3, <3>1, <3>2
  <2>4. CASE call.f = "memmove"
    <3>1. /\ memory' = Bytes!Copied(before, a, b, IF a < b THEN Bytes!Up(n) ELSE Bytes!Down(n))
          /\ value' = a
      BY <2>4 DEF Bytes!Do, Bytes!memmove
    <3>. HIDE DEF a, b, n, M
    <3>2. \A x \in M : memory'[x] = IF x \in a..(a + n - 1)
                                    THEN before[b + (x - a)] ELSE before[x]
      <4>1. CASE a < b
        BY <1>1, <1>5, <2>2, <3>1, <4>1
      <4>2. CASE ~(a < b)
        <5>1. b <= a
          BY <1>1, <4>2
        <5>. QED
          BY <1>5, <2>2, <3>1, <4>2, <5>1
      <4>. QED
        BY <4>1, <4>2
    <3>. QED
      BY <1>4, <2>4, <3>1, <3>2
  <2>. QED
    BY <1>6, <2>3, <2>4
<1>7. CASE call.f \in {"strcpy", "strdup"}
  <2>1. /\ Bytes!Terminated(before, b) /\ n = Bytes!strlen(before, b) + 1
        /\ a + n <= STRINGS /\ Bytes!Apart(a, b, n) /\ M = 0..(STRINGS - 1)
    BY <1>7, CallIs
  <2>. HIDE DEF a, b, n, M
  <2>2. PICK l \in Nat : /\ b + l <= STRINGS - 1 /\ before[b + l] = 0
                         /\ Bytes!strlen(before, b) = l
    BY <1>1, <2>1, StringHasLength
  <2>3. n = l + 1 /\ Within(M, a, n) /\ Within(M, b, n)
    BY <1>1, <2>1, <2>2, MemoryAssumption DEF Within
  <2>4. CASE call.f = "strcpy"
    <3>1. memory' = Bytes!Copied(before, a, b, Bytes!Up(n)) /\ value' = a
      BY <2>1, <2>4 DEF Bytes!Do, Bytes!strcpy, a, b, n
    <3>. QED
      BY <1>4, <1>5, <2>1, <2>3, <2>4, <3>1
  <2>5. CASE call.f = "strdup"
    <3>1. memory' = [Bytes!Copied(before, a, b, Bytes!Up(l)) EXCEPT ![a + l] = 0] /\ value' = a
      BY <2>2, <2>5 DEF Bytes!Do, Bytes!strdup, a, b, n
    <3>2. /\ Bytes!Copied(before, a, b, Bytes!Up(l)) \in [M -> Int]
          /\ \A x \in M : Bytes!Copied(before, a, b, Bytes!Up(l))[x] =
               IF x \in a..(a + l - 1) THEN before[b + (x - a)] ELSE before[x]
      <4>1. Bytes!Apart(a, b, l)
        BY <1>1, <2>1, <2>2, <2>3 DEF Bytes!Apart
      <4>2. a \in Int /\ b \in Int /\ Within(M, a, l) /\ Within(M, b, l)
        BY <1>1, <2>2, <2>3 DEF Within
      <4>. QED
        BY <1>1, <4>1, <4>2, CopyBecomes
    <3>3. ASSUME NEW x \in M
          PROVE  memory'[x] = IF x \in a..(a + n - 1) THEN before[b + (x - a)] ELSE before[x]
      <4>1. x \in a..(a + n - 1) <=> (x \in a..(a + l - 1) \/ x = a + l)
        BY <1>1, <2>2, <2>3
      <4>2. x = a + l => b + (x - a) = b + l
        BY <1>1, <2>2
      <4>. QED
        BY <2>2, <3>1, <3>2, <4>1, <4>2
    <3>. QED
      BY <1>4, <2>5, <3>1, <3>3
  <2>. QED
    BY <1>7, <2>4, <2>5
<1>8. CASE call.f = "memcmp"
  <2>1. memory' = before /\ value' = Bytes!memcmp(before, a, b, n)
    BY <1>8 DEF Bytes!Do
  <2>2. a + n <= STRINGS /\ b + n <= STRINGS /\ M = 0..(STRINGS - 1)
    BY <1>8, CallIs
  <2>3. Bytes!Compares(before, a, b, n, value')
    <3>. HIDE DEF a, b, n, M
    <3>1. a \in Int /\ b \in Int /\ Within(M, a, n) /\ Within(M, b, n)
      BY <1>1, <2>2, MemoryAssumption DEF Within
    <3>. QED
      BY ZenonT(60), <1>1, <2>1, <3>1, MemcmpIs
  <2>. QED
    BY <1>2, <1>8, <2>1, <2>3 DEF MemoryRight, Bytes!MemoryRight
<1>9. CASE call.f = "strcmp"
  <2>1. memory' = before /\ value' = Bytes!strcmp(before, a, b)
    BY <1>9 DEF Bytes!Do
  <2>2. Bytes!Terminated(before, a) /\ Bytes!Terminated(before, b) /\ before \in [0..(STRINGS - 1) -> Int]
    BY <1>9, CallIs
  <2>3. value' = IF Bytes!StringAt(a) = Bytes!StringAt(b) THEN 0
                 ELSE IF Bytes!Less(Bytes!StringAt(a), Bytes!StringAt(b)) THEN -1 ELSE 1
    <3>. HIDE DEF a, b
    <3>. QED
      BY <1>1, <2>1, <2>2, StringsCompare
  <2>4. Bytes!StringAt(a)' = Bytes!StringAt(a) /\ Bytes!StringAt(b)' = Bytes!StringAt(b)
    BY <1>2 DEF Bytes!StringAt
  <2>. QED
    BY <1>2, <1>9, <2>1, <2>3, <2>4 DEF MemoryRight, Bytes!MemoryRight
<1>10. CASE call.f = "strlen"
  <2>1. memory' = before /\ value' = Bytes!strlen(before, a)
    BY <1>10 DEF Bytes!Do
  <2>2. Bytes!Terminated(before, a)
    BY <1>10, CallIs
  <2>. HIDE DEF a
  <2>3. PICK l \in Nat : /\ before[a + l] = 0 /\ \A i \in 0..(l - 1) : before[a + i] # 0
                         /\ Bytes!strlen(before, a) = l
    BY <1>1, <2>2, StringHasLength
  <2>4. \A i \in a..(a + l - 1) : before[i] # 0
    <3>1. \A i \in a..(a + l - 1) : i - a \in 0..(l - 1) /\ a + (i - a) = i
      BY <1>1
    <3>. QED
      BY <2>3, <3>1
  <2>. QED
    BY <1>2, <1>10, <2>1, <2>3, <2>4 DEF MemoryRight, Bytes!MemoryRight, a
<1>11. call.f \in {"memset", "memcpy", "memmove", "memcmp", "strlen", "strcmp", "strcpy", "strdup"}
  BY CallIs
<1>. QED
  BY <1>3, <1>6, <1>7, <1>8, <1>9, <1>10, <1>11

\* Copies, fills and comparisons do what their names say to every memory, however
\* source and target overlap.
THEOREM MemoryIsRight == Bytes!Spec => []MemoryRight
<1>1. Bytes!Init => MemInv
  BY DEF Bytes!Init, MemInv, MemoryRight, Bytes!MemoryRight
<1>2. MemInv /\ [Bytes!Next]_(Bytes!vars) => MemInv'
  <2>. SUFFICES ASSUME MemInv, [Bytes!Next]_(Bytes!vars) PROVE MemInv'
    OBVIOUS
  <2>1. CASE UNCHANGED Bytes!vars
    <3>1. call' = call /\ before' = before /\ memory' = memory /\ value' = value
      BY <2>1 DEF Bytes!vars
    <3>2. Bytes!Called'
      BY <3>1 DEF MemInv, Bytes!Called
    <3>3. MemoryRight'
      BY <3>1 DEF MemInv, MemoryRight, Bytes!MemoryRight, Bytes!Becomes, Bytes!StringAt
    <3>. QED
      BY <3>1, <3>2, <3>3 DEF MemInv
  <2>2. CASE Bytes!Do
    <3>1. Bytes!Called' 
      BY <2>2 DEF Bytes!Do, MemInv, Bytes!Called
    <3>2. memory = before
      BY <2>2 DEF Bytes!Do, MemInv
    <3>3. before' = before
      BY <2>2 DEF Bytes!Do
    <3>. QED
      BY <2>2, <3>1, <3>2, <3>3, DoesRight DEF MemInv
  <2>. QED
    BY <2>1, <2>2 DEF Bytes!Next
<1>3. MemInv => MemoryRight
  BY DEF MemInv
<1>. QED
  BY <1>1, <1>2, <1>3, PTL DEF Bytes!Spec
=============================================================================
