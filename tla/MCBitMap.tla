------------------------------ MODULE MCBitMap ------------------------------
(***************************************************************************)
(* Four sectors and the bit numbers around the places where two bits could *)
(* meet: equal shift counts in different sectors (0 and 32, 31 and 63),    *)
(* the corrected multiples of 31 (31, 62, 93) and their neighbours.        *)
(***************************************************************************)
EXTENDS Words

MCIndex == {0, 31, 32, 62, 63, 93}

MCFill == {[b \in 0..31 |-> v] : v \in {0, 1}}
=============================================================================
