----------------------------- MODULE MCConsole ------------------------------
(* Three views of the console that share no state, checked in one run: a     *)
(* behaviour is one of calls of putch (Typing), of a thread and a handler    *)
(* access by access (ConsoleRace), or of pixels (Framebuffer).               *)
EXTENDS ConsoleUsers

CONSTANTS a, A, R, W

MCUpper == [x \in {a} |-> A]

\* What the proofs about ConsoleRace ask of the framebuffer.
ASSUME RaceHypotheses == TwoLines

raceVars == <<raced, at, char, reg, pushed>>

\* The letters of font.h, and two of the colours of putch.
Glyphs == [x \in {a, A, SPACE} |->
             CASE x = a -> <<0, 0, 120, 12, 124, 204, 118, 0>>
               [] x = A -> <<56, 108, 198, 254, 198, 198, 198, 0>>
               [] x = SPACE -> <<0, 0, 0, 0, 0, 0, 0, 0>>]
Pixels == [x \in {R, W} |-> IF x = W THEN [red |-> 255, green |-> 255, blue |-> 255]
                            ELSE [red |-> 36, green |-> 45, blue |-> 216]]
MCAt == {0, 4, 9}
screenVars == <<display, buffer, draws>>

VARIABLE part
mcvars == <<vars, raceVars, screenVars, part>>

MCInit ==
  /\ part \in {"typing", "race", "pixels"}
  /\ Init
  /\ Race!Init
  /\ part # "race" => char = SPACE
  /\ IF part = "pixels" THEN Screen!Init ELSE display = <<>> /\ buffer = <<>> /\ draws = 0

MCNext ==
  /\ UNCHANGED part
  /\ \/ part = "typing" /\ Next /\ UNCHANGED <<raceVars, screenVars>>
     \/ part = "race" /\ Race!Next /\ UNCHANGED <<vars, screenVars>>
     \/ part = "pixels" /\ Screen!Next /\ UNCHANGED <<vars, raceVars>>

MCSpec == MCInit /\ [][MCNext]_mcvars
=============================================================================
