------------------------------ MODULE MCKlibc -------------------------------
(* The parts of the library that share no state, checked in one run: a       *)
(* behaviour is one of lists (DynList), of paths that are cut (Strtok), of   *)
(* numbers and messages that are printed (Format) or of memory (Memory).     *)
EXTENDS Klibc

\* The first, a middle and the last position, one past it and a negative one.
MCIndex == {-1, 0, 2, MaxTotal - 1, MaxTotal}

\* Around zero, the bounds of a word of three nibbles and powers of the bases.
MCNumbers == {-2048, -2047, -1000, -256, -37, -16, -10, -1} \cup (0..40)
               \cup {99, 100, 255, 256, 1000, 2047}
MCTexts == <<<<>>, <<10, 11>>>>

VARIABLE part
mcvars == <<vars, cutVars, numeralVars, bytesVars, part>>

MCInit ==
  /\ Init
  /\ part \in {"list", "path", "numbers", "memory"}
  /\ Cut!Init
  /\ part # "path" => path = <<>>
  /\ IF part = "numbers" THEN Numeral!Init ELSE request = <<>> /\ written = <<>>
  /\ IF part = "memory" THEN Bytes!Init
     ELSE call = <<>> /\ memory = <<>> /\ value = Bytes!NONE /\ before = <<>>

MCNext ==
  /\ UNCHANGED part
  /\ \/ part = "list" /\ Next /\ UNCHANGED <<cutVars, numeralVars, bytesVars>>
     \/ part = "path" /\ Cut!Next /\ UNCHANGED <<vars, numeralVars, bytesVars>>
     \/ part = "numbers" /\ Numeral!Next /\ UNCHANGED <<vars, cutVars, bytesVars>>
     \/ part = "memory" /\ Bytes!Next /\ UNCHANGED <<vars, cutVars, numeralVars>>

MCSpec == MCInit /\ [][MCNext]_mcvars
=============================================================================
