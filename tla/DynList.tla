------------------------------ MODULE DynList -------------------------------
(***************************************************************************)
(* libs/klibc/dynlist.c: a list in one piece of heap memory that doubles   *)
(* when it is full and halves when three quarters of it are unused.        *)
(*                                                                         *)
(* A resize goes through pmm_realloc, which gives the old memory back even *)
(* when it returns NULL; dl_resize then leaves items pointing at memory    *)
(* that is no longer the list's.  The model ends there.                    *)
(***************************************************************************)
EXTENDS Integers, Sequences

CONSTANTS
  Item,              \* the pointers callers store
  Index,             \* the positions callers name
  NULL, JUNK,        \* the null pointer, and what unwritten memory holds
  DL_INIT_CAPACITY,
  MaxTotal           \* bound of the model: items in the list

SUCCESS == 0
UNDEFINE == -1

ASSUME DynListAssumption ==
  /\ Index \subseteq Int
  /\ DL_INIT_CAPACITY \in Nat /\ DL_INIT_CAPACITY > 1
  /\ MaxTotal \in Nat
  /\ NULL \notin Item /\ JUNK \notin Item

VARIABLES
  items,       \* the memory items points at, as long as it is the list's
  capacity, total,
  result,      \* the last call: its kind, its position, what it returned
  held         \* items points at memory the list holds

vars == <<items, capacity, total, result, held>>

TypeOK ==
  /\ capacity \in Nat
  /\ items \in [0..(capacity - 1) -> Item \cup {NULL, JUNK}]
  /\ total \in 0..capacity
  /\ result \in {"init", "push", "set", "get", "pop", "free"}
                 \X (Index \cup {0}) \X (Item \cup {NULL, JUNK, SUCCESS, UNDEFINE})
  /\ held \in BOOLEAN

\* dl_init; its caller has been granted the memory.
Init ==
  /\ capacity = DL_INIT_CAPACITY
  /\ total = 0
  /\ items = [k \in 0..(DL_INIT_CAPACITY - 1) |-> JUNK]
  /\ result = <<"init", 0, SUCCESS>>
  /\ held = TRUE

-----------------------------------------------------------------------------
InList(i) == i >= 0 /\ i < total

\* pmm_realloc copies as many bytes as the new memory has.
Resized(it, n) ==
  [k \in 0..(n - 1) |-> IF k \in DOMAIN it THEN it[k] ELSE JUNK]

\* dl_resize: the heap grants n places, holding it, or refuses.
Grant(it, n) ==
  /\ items' = it
  /\ capacity' = n
  /\ UNCHANGED held
Refuse(it) ==
  /\ items' = it
  /\ UNCHANGED capacity
  /\ held' = FALSE

Full == capacity = total

dl_push(x) ==
  /\ held
  /\ total < MaxTotal
  /\ \/ /\ ~Full
        /\ items' = [k \in DOMAIN items |-> IF k = total THEN x ELSE items[k]]
        /\ total' = total + 1
        /\ result' = <<"push", 0, SUCCESS>>
        /\ UNCHANGED <<capacity, held>>
     \/ /\ Full
        /\ Grant([Resized(items, capacity * 2) EXCEPT ![total] = x], capacity * 2)
        /\ total' = total + 1
        /\ result' = <<"push", 0, SUCCESS>>
     \/ /\ Full
        /\ Refuse(items)
        /\ UNCHANGED total
        /\ result' = <<"push", 0, UNDEFINE>>

dl_set(i, x) ==
  /\ held
  /\ items' = IF InList(i) THEN [items EXCEPT ![i] = x] ELSE items
  /\ result' = <<"set", i, IF InList(i) THEN SUCCESS ELSE UNDEFINE>>
  /\ UNCHANGED <<capacity, total, held>>

dl_get(i) ==
  /\ held
  /\ result' = <<"get", i, IF InList(i) THEN items[i] ELSE NULL>>
  /\ UNCHANGED <<items, capacity, total, held>>

\* Fault: the items behind the one removed stay where they are.
WithoutUnshifted(it, i, n) == [it EXCEPT ![i] = NULL]

\* The items behind position i move up, and the last place is cleared.
Without(it, i, n) ==
  [k \in DOMAIN it |->
     IF i <= k /\ k < n - 1 THEN it[k + 1]
     ELSE IF k = n - 1 THEN NULL ELSE it[k]]

\* Fault: a list is halved late.
SparseAtEighth(n) == n > 0 /\ n = capacity \div 8

Sparse(n) == n > 0 /\ n = capacity \div 4

\* dl_pop reports SUCCESS even when the heap refuses the smaller memory.
dl_pop(i) ==
  /\ held
  /\ \/ /\ ~InList(i)
        /\ result' = <<"pop", i, UNDEFINE>>
        /\ UNCHANGED <<items, capacity, total, held>>
     \/ /\ InList(i)
        /\ total' = total - 1
        /\ result' = <<"pop", i, SUCCESS>>
        /\ LET it == Without(items, i, total)
           IN  IF Sparse(total - 1)
               THEN \/ Grant(Resized(it, capacity \div 2), capacity \div 2)
                    \/ Refuse(it)
               ELSE items' = it /\ UNCHANGED <<capacity, held>>

\* The caller must not use the list again: total still counts its items.
dl_free ==
  /\ held
  /\ held' = FALSE
  /\ result' = <<"free", 0, SUCCESS>>
  /\ UNCHANGED <<items, capacity, total>>

Next ==
  \/ \E x \in Item : dl_push(x)
  \/ \E i \in Index, x \in Item : dl_set(i, x)
  \/ \E i \in Index : dl_get(i)
  \/ \E i \in Index : dl_pop(i)
  \/ dl_free

Spec == Init /\ [][Next]_vars

-----------------------------------------------------------------------------
\* The list as its clients see it.
Items == [k \in 1..total |-> items[k - 1]]

Client == INSTANCE List WITH list <- Items, lost <- ~held

\* Through every growing, shrinking and shifting the list is the sequence of
\* what was pushed, set and popped, until the heap refuses a resize.
RefinesList == Client!Spec

\* A list never keeps four times the places it needs, though dl_pop halves it
\* only when it passes exactly a quarter: no call steps over that point.
LittleWaste == capacity > DL_INIT_CAPACITY /\ held => total > capacity \div 4
=============================================================================
