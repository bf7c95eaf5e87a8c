-------------------------------- MODULE List --------------------------------
(***************************************************************************)
(* What the clients of libs/klibc/dynlist.c count on: a sequence of items, *)
(* changed and read by position, for as long as the heap grants the list   *)
(* the memory it asks for.  Once the heap has refused, nothing is promised.*)
(***************************************************************************)
EXTENDS Integers, Sequences, SequencesExt

CONSTANTS
  Item,      \* what a list holds
  Index,     \* the positions asked for, outside the list too
  NULL, SUCCESS, UNDEFINE

VARIABLES
  list,      \* the items, in order
  result,    \* the last call: its kind, its position, what it returned
  lost       \* the heap has refused a resize, or the list has been freed

vars == <<list, result, lost>>

Position == 0..(Len(list) - 1)

Init == list = <<>> /\ result = <<"init", 0, SUCCESS>> /\ lost = FALSE

Push(x) ==
  /\ list' = Append(list, x)
  /\ result' = <<"push", 0, SUCCESS>>

Set(i, x) ==
  \/ /\ i \in Position
     /\ list' = [list EXCEPT ![i + 1] = x]
     /\ result' = <<"set", i, SUCCESS>>
  \/ /\ i \notin Position
     /\ UNCHANGED list
     /\ result' = <<"set", i, UNDEFINE>>

Get(i) ==
  /\ UNCHANGED list
  /\ result' = <<"get", i, IF i \in Position THEN list[i + 1] ELSE NULL>>

Pop(i) ==
  \/ /\ i \in Position
     /\ list' = RemoveAt(list, i + 1)
     /\ result' = <<"pop", i, SUCCESS>>
  \/ /\ i \notin Position
     /\ UNCHANGED list
     /\ result' = <<"pop", i, UNDEFINE>>

Operation ==
  \/ \E x \in Item : Push(x)
  \/ \E i \in Index, x \in Item : Set(i, x)
  \/ \E i \in Index : Get(i) \/ Pop(i)

Next ==
  \/ ~lost /\ UNCHANGED lost /\ Operation
  \/ lost'

Spec == Init /\ [][Next]_vars
=============================================================================
