-------------------------------- MODULE Echo ---------------------------------
(***************************************************************************)
(* A line typed at a terminal on the serial port: kernel/input.c and       *)
(* kernel/drivers/uart/serial.c together.  The handler of the port puts    *)
(* each character into the ring and echoes it; the thread prints and reads *)
(* lines.  offset counts what is on the terminal, and the barrier keeps    *)
(* backspaces away from the prompt.                                        *)
(*                                                                         *)
(* The handler runs in one step.  The thread is interrupted between any    *)
(* two accesses, to offset and barrier too (-O0: offset++ is a load and a  *)
(* store).  The terminal takes a backspace back to the start of its line.  *)
(*                                                                         *)
(* A 0 is refused by the ring and yet echoed and counted, and there are    *)
(* other characters a terminal shows nothing for: offset then counts more  *)
(* than there is on the terminal.                                          *)
(*                                                                         *)
(* shown, prompt, ahead, unseen and nulls are history.                     *)
(***************************************************************************)
EXTENDS Input

CONSTANTS
  CR, DEL,       \* what a terminal sends for newline and backspace
  Silent,        \* the characters of Keys the terminal shows nothing for
  Prompt,        \* the characters the thread prints
  MaxPrinted,    \* bound of the model: how many of them
  MaxNulls       \* bound of the model: zeroes received

ASSUME EchoAssumption ==
  /\ {NL, BS} \subseteq Keys /\ NL # BS /\ {CR, DEL} \cap Char = {}
  /\ Silent \subseteq Keys \ {NL, BS}
  /\ Prompt \subseteq Keys \ {BS}
  /\ MaxPrinted \in Nat /\ MaxNulls \in Nat

VARIABLES
  offset, barrier,   \* SerialConsole
  at,                \* what the thread does, "read" while it is in the ring
  reg, out,          \* what it holds of offset, 0 when done; the character printed
  printed,           \* bound: characters printed
  shown,             \* the text on the terminal
  prompt,            \* how much of it stood there when the barrier was set
  ahead,             \* a key was waiting to be read then, or a backspace came
                     \* before the barrier was stored
  unseen,            \* characters echoed since then that the terminal did not show
  nulls              \* bound: zeroes received

serial == <<offset, barrier>>
thread == <<at, reg, out, printed>>
screen == <<shown, prompt, ahead, unseen, nulls>>
evars == <<vars, serial, thread, screen>>

EchoInit ==
  /\ Init
  /\ offset = 0 /\ barrier = 0
  /\ at = "idle" /\ reg = 0 /\ out = NUL /\ printed = 0
  /\ shown = <<>> /\ prompt = 0 /\ ahead = FALSE /\ unseen = 0 /\ nulls = 0

-----------------------------------------------------------------------------
\* The terminal.
Unshown(x) == x \in Silent \cup {NUL}

Displayed(text, x) ==
  IF Unshown(x) THEN text
  ELSE IF x # BS THEN Append(text, x)
  ELSE IF text = <<>> \/ Last(text) = NL THEN text ELSE Front(text)

\* Fault: the barrier itself may be erased.
HeldBackLess(x) == x = BS /\ offset < barrier

HeldBack(x) == x = BS /\ offset <= barrier

\* serial_writeb, when nobody interrupts it.
serial_writeb(x) ==
  IF HeldBack(x) THEN UNCHANGED <<offset, shown>>
  ELSE /\ offset' = IF x = BS THEN Dec(offset) ELSE (offset + 1) % U32
       /\ shown' = Displayed(shown, x)

\* What goes into the ring.
Received(x) == IF x = CR THEN NL ELSE IF x = DEL THEN BS ELSE x

\* Fault: the character is echoed as it came.
EchoedRaw(x) == x

\* What is echoed: the same.
Echoed(x) == Received(x)

\* The prompt stands, and its line is not over.
InLine == at = "set_store" \/ (at = "read" /\ call = "input_readln")

\* handle_serial_in
handle_serial_in(x) ==
  /\ x = NUL => nulls < MaxNulls
  /\ Handler(Received(x))
  /\ serial_writeb(Echoed(x))
  /\ prompt' = IF at = "set_store" /\ Len(shown') < prompt THEN Len(shown') ELSE prompt
  /\ ahead' = (ahead \/ (at = "set_store" /\ Echoed(x) = BS))
  /\ unseen' = IF InLine /\ Unshown(Echoed(x)) THEN unseen + 1 ELSE unseen
  /\ nulls' = IF x = NUL THEN nulls + 1 ELSE nulls
  /\ UNCHANGED <<barrier, thread>>

-----------------------------------------------------------------------------
(* The thread.                                                             *)
Goes(from, to) == at = from /\ at' = to

\* logf prints a character: serial_writeb, interrupted.
Prints ==
  /\ Goes("idle", "offset_store")
  /\ printed < MaxPrinted
  /\ printed' = printed + 1
  /\ out' \in Prompt
  /\ reg' = offset
  /\ UNCHANGED <<vars, serial, screen>>

StoreOffset ==
  /\ Goes("offset_store", "out")
  /\ offset' = (reg + 1) % U32
  /\ reg' = 0
  /\ UNCHANGED <<vars, barrier, out, printed, screen>>

Out ==
  /\ Goes("out", "idle")
  /\ shown' = Displayed(shown, out)
  /\ UNCHANGED <<vars, serial, reg, out, printed, prompt, ahead, unseen, nulls>>

\* input_readln: SerialSetBarrier, then the ring.
LoadOffset ==
  /\ Goes("idle", "set_store")
  /\ reg' = offset
  /\ prompt' = Len(shown) /\ ahead' = (NotTaken # <<>>) /\ unseen' = 0
  /\ UNCHANGED <<vars, serial, out, printed, shown, nulls>>

StoreBarrier ==
  /\ Goes("set_store", "read")
  /\ barrier' = reg
  /\ reg' = 0
  /\ BeginReadln
  /\ UNCHANGED <<offset, out, printed, screen>>

Read(n) ==
  /\ at = "idle" /\ BeginRead(n)
  /\ at' = IF pc' = "idle" THEN "idle" ELSE "read"
  /\ UNCHANGED <<serial, reg, out, printed, screen>>

Reads ==
  /\ at = "read" /\ ReadStep
  /\ at' = CASE pc' # "idle" -> "read"
             [] pc' = "idle" /\ call = "input_readln" -> "remove"
             [] OTHER -> "idle"
  /\ UNCHANGED <<serial, reg, out, printed, screen>>

SerialRemBarrier ==
  /\ Goes("remove", "idle")
  /\ barrier' = 0
  /\ prompt' = 0 /\ ahead' = FALSE /\ unseen' = 0
  /\ UNCHANGED <<vars, offset, reg, out, printed, shown, nulls>>

ThreadStep == StoreOffset \/ Out \/ StoreBarrier \/ Reads \/ SerialRemBarrier

EchoNext ==
  \/ \E x \in (Char \ {NL, BS}) \cup {CR, DEL} : handle_serial_in(x)
  \/ Prints \/ LoadOffset \/ \E n \in Sizes : Read(n)
  \/ ThreadStep

\* Between interrupts the processor runs the thread.
EchoSpec == EchoInit /\ [][EchoNext]_evars /\ WF_evars(ThreadStep)

-----------------------------------------------------------------------------
\* While a line is read, what stood on the terminal when the barrier was set is
\* not erased, however many backspaces are typed and whatever increments of
\* offset were lost while the prompt was printed: of its end at most as many
\* characters are lost as were echoed since and not shown, for each of which
\* serial_writeb lets one backspace through.
PromptKept ==
  [][at = "read" /\ call = "input_readln" =>
       /\ Len(shown') >= prompt - unseen'
       /\ \A i \in 1..(prompt - unseen') : shown'[i] = shown[i]]_evars

\* When the call returns, the line is what the terminal shows behind the prompt:
\* the ring and the echo have come to the same, unless keys were typed ahead,
\* the ring was dropped, a backspace came before its character was read or
\* before the barrier was stored, or the terminal did not show a character.
EchoIsLine ==
  at = "remove" /\ orderly /\ ~ahead /\ unseen = 0 =>
    IsPrefix(SubSeq(shown, 1, prompt) \o line \o <<NL>>, shown)
=============================================================================
