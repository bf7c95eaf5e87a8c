------------------------------ MODULE BitArray ------------------------------
(***************************************************************************)
(* What the bitmap of libs/bitmap.c promises its one client, the physical  *)
(* memory manager: an array of independent bits.  A bit keeps the value it *)
(* was last given, whatever is done to the other bits, and a read answers  *)
(* with that value.                                                        *)
(***************************************************************************)
EXTENDS Integers

CONSTANT Index      \* the bit numbers in use

VARIABLES
  bits,             \* the bits
  result            \* the last call: its bit number, and the answer of a read

vars == <<bits, result>>

Bit == {0, 1}
NONE == -1

TypeOK ==
  /\ bits \in [Index -> Bit]
  /\ result \in (Index \cup {NONE}) \X (Bit \cup {NONE})

\* The array lies in memory nobody has cleared.
Init ==
  /\ bits \in [Index -> Bit]
  /\ result = <<NONE, NONE>>

Set(k) ==
  /\ bits' = [bits EXCEPT ![k] = 1]
  /\ result' = <<k, NONE>>

Clear(k) ==
  /\ bits' = [bits EXCEPT ![k] = 0]
  /\ result' = <<k, NONE>>

\* Making a new sector clears a bit at most.
NewSector ==
  /\ \/ UNCHANGED bits
     \/ \E k \in Index : bits' = [bits EXCEPT ![k] = 0]
  /\ result' = <<NONE, NONE>>

Get(k) ==
  /\ result' = <<k, bits[k]>>
  /\ UNCHANGED bits

Next == NewSector \/ \E k \in Index : Set(k) \/ Clear(k) \/ Get(k)

Spec == Init /\ [][Next]_vars
=============================================================================
