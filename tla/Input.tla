------------------------------- MODULE Input --------------------------------
(***************************************************************************)
(* kernel/input.c: the keys typed, from the interrupt handlers of the      *)
(* keyboard and the serial port to the kernel code that reads them.        *)
(*                                                                         *)
(* A handler runs with interrupts off and appends in one step.  A reader   *)
(* is interrupted anywhere: every access it makes to key_buffer is a step  *)
(* (the build is -O0, each use of a field is a load).  Between the value   *)
(* read_key_buffer loads from r and the one it stores the handler may have *)
(* moved r.                                                                *)
(*                                                                         *)
(* typed, taken, begin and orderly are history.                            *)
(***************************************************************************)
EXTENDS Integers, Sequences, SequencesExt

CONSTANTS
  BUFFER_SIZE,   \* cells of key_buffer.buf
  U32,           \* one more than the largest u32 (2^32), reduced for TLC
  Keys,          \* the characters that enter the ring: all but 0
  NL, BS, NUL,   \* newline, backspace and 0
  Sizes,         \* the sizes input_read is asked for
  MaxTyped       \* bound of the model: keys typed

ASSUME InputAssumption ==
  /\ BUFFER_SIZE \in Nat /\ BUFFER_SIZE > 1
  /\ U32 \in Nat /\ U32 > 2 * BUFFER_SIZE
  /\ Sizes \subseteq Nat
  /\ MaxTyped \in Nat
  /\ NUL \notin Keys

VARIABLES
  buf, r, w,     \* key_buffer
  pc,            \* where the reader is in read_key_buffer, "idle" outside
  call,          \* the call it serves: "none", "input_read", "input_readln"
  size,          \* the size given to input_read
  idx, c, old_r, \* what the reader has loaded: buf index, character, r
  line,          \* the characters in the caller's buffer
  typed,         \* every character appended
  taken,         \* how many characters readers have taken from the ring
  begin,         \* taken when the call began
  orderly        \* no key was lost or put out of order by the handler

ring == <<buf, r, w>>
locals == <<idx, c, old_r>>
handlers == <<typed, orderly>>
vars == <<buf, r, w, pc, call, size, idx, c, old_r, line, typed, taken, begin,
          orderly>>

Cell == 0..(BUFFER_SIZE - 1)
Index == 0..(U32 - 1)
Char == Keys \cup {NUL}

TypeOK ==
  /\ buf \in [Cell -> Char]
  /\ r \in Index /\ w \in Index
  /\ pc \in {"idle", "wait", "index", "char", "load", "store"}
  /\ call \in {"none", "input_read", "input_readln"}
  /\ size \in Sizes \cup {0}
  /\ idx \in Index /\ c \in Char /\ old_r \in Index
  /\ line \in Seq(Char)
  /\ typed \in Seq(Keys) /\ Len(typed) <= MaxTyped
  /\ taken \in Nat /\ begin \in Nat
  /\ orderly \in BOOLEAN

Init ==
  /\ buf = [i \in Cell |-> NUL] /\ r = 0 /\ w = 0
  /\ pc = "idle" /\ call = "none" /\ size = 0
  /\ idx = 0 /\ c = NUL /\ old_r = 0
  /\ line = <<>>
  /\ typed = <<>> /\ taken = 0 /\ begin = 0 /\ orderly = TRUE

-----------------------------------------------------------------------------
(* The handlers.                                                           *)

\* u32 arithmetic.
Dec(x) == (x + U32 - 1) % U32
Advance(x) == ((x + 1) % U32) % BUFFER_SIZE

Full == w = ((r + BUFFER_SIZE - 1) % U32) % BUFFER_SIZE

\* A store outside buf lands elsewhere in memory.
StoreAt(i, x) == IF i \in Cell THEN [buf EXCEPT ![i] = x] ELSE buf

\* Fault: the character is stored after w has moved on.
key_buffer_append_late(x) ==
  LET w0 == IF Full THEN 0 ELSE w
      r0 == IF Full THEN 0 ELSE r
      w1 == IF x = BS THEN Dec(w0) ELSE w0
      r1 == IF x = BS THEN Dec(r0) ELSE r0
  IN  IF x = NUL THEN UNCHANGED ring
      ELSE /\ buf' = StoreAt(Advance(w1), x)
           /\ w' = Advance(w1)
           /\ r' = r1

\* A 0 is not appended.  The whole ring is dropped when it is full.  A backspace
\* is put over the last character appended, and the reader is set back one.
key_buffer_append(x) ==
  LET w0 == IF Full THEN 0 ELSE w
      r0 == IF Full THEN 0 ELSE r
      w1 == IF x = BS THEN Dec(w0) ELSE w0
      r1 == IF x = BS THEN Dec(r0) ELSE r0
  IN  IF x = NUL THEN UNCHANGED ring
      ELSE /\ buf' = StoreAt(w1, x)
           /\ w' = Advance(w1)
           /\ r' = r1

\* A character arrives: keyboard_handler or handle_serial_in appends it.
Handler(x) ==
  /\ Len(typed) < MaxTyped
  /\ key_buffer_append(x)
  /\ IF x = NUL THEN UNCHANGED handlers
     ELSE /\ typed' = Append(typed, x)
          /\ orderly' = (orderly /\ ~Full /\ (x = BS => r = w /\ w > 0))
  /\ UNCHANGED <<pc, call, size, locals, line, taken, begin>>

-----------------------------------------------------------------------------
(* The reader.                                                             *)
BeginRead(n) ==
  /\ pc = "idle"
  /\ call' = "input_read" /\ size' = n
  /\ line' = <<>> /\ begin' = taken
  /\ IF n = 0 THEN pc' = "idle" ELSE pc' = "wait"
  /\ UNCHANGED <<ring, locals, handlers, taken>>

BeginReadln ==
  /\ pc = "idle"
  /\ call' = "input_readln" /\ size' = 0
  /\ line' = <<>> /\ begin' = taken
  /\ pc' = "wait"
  /\ UNCHANGED <<ring, locals, handlers, taken>>

\* Fault: read_key_buffer does not block.
WaitNot ==
  /\ pc = "wait"
  /\ pc' = "index"
  /\ UNCHANGED <<ring, call, size, locals, line, handlers, taken, begin>>

\* The busy wait of read_key_buffer.
Wait ==
  /\ pc = "wait"
  /\ w # r
  /\ pc' = "index"
  /\ UNCHANGED <<ring, call, size, locals, line, handlers, taken, begin>>

LoadIndex ==
  /\ pc = "index"
  /\ idx' = r
  /\ pc' = "char"
  /\ UNCHANGED <<ring, call, size, c, old_r, line, handlers, taken, begin>>

\* A load outside buf may find anything.
LoadChar ==
  /\ pc = "char"
  /\ IF idx \in Cell THEN c' = buf[idx] ELSE c' \in Char
  /\ pc' = "load"
  /\ UNCHANGED <<ring, call, size, idx, old_r, line, handlers, taken, begin>>

LoadR ==
  /\ pc = "load"
  /\ old_r' = r
  /\ pc' = "store"
  /\ UNCHANGED <<ring, call, size, idx, c, line, handlers, taken, begin>>

\* What a character does to the line the caller has so far.
Edit(l, x) ==
  IF x # BS THEN Append(l, x)
  ELSE IF l = <<>> THEN l ELSE Front(l)

\* Fault: a newline does not end input_readln.
OverNotAtNewline(l, x) == x = NUL \/ (call = "input_read" /\ Len(l) = size)

\* Is the call over after this character?
Over(l, x) ==
  \/ x = NUL
  \/ call = "input_read" /\ Len(l) = size
  \/ call = "input_readln" /\ x = NL

\* Fault: input_readln keeps the newline.
StoreRKeepingNewline ==
  /\ pc = "store"
  /\ r' = Advance(old_r)
  /\ taken' = taken + 1
  /\ line' = Edit(line, c)
  /\ IF Over(line', c) THEN pc' = "idle" ELSE pc' = "wait"
  /\ UNCHANGED <<buf, w, call, size, locals, handlers, begin>>

\* r is stored, and input_read or input_readln goes on with the character.
\* input_readln does not keep the newline.
StoreR ==
  /\ pc = "store"
  /\ r' = Advance(old_r)
  /\ taken' = taken + 1
  /\ line' = IF call = "input_readln" /\ c = NL THEN line ELSE Edit(line, c)
  /\ IF Over(line', c) THEN pc' = "idle" ELSE pc' = "wait"
  /\ UNCHANGED <<buf, w, call, size, locals, handlers, begin>>

ReadStep == Wait \/ LoadIndex \/ LoadChar \/ LoadR \/ StoreR

Next ==
  \/ \E x \in Char : Handler(x)
  \/ \E n \in Sizes : BeginRead(n)
  \/ BeginReadln
  \/ ReadStep

\* Between interrupts the processor runs the reader; nothing makes the kernel
\* begin another call.
Spec == Init /\ [][Next]_vars /\ WF_vars(ReadStep)

-----------------------------------------------------------------------------
(* As long as the handler has not dropped a ring or backspaced over a      *)
(* character that nobody had read yet:                                     *)

\* The unread part of the ring, and of what was typed.
InRing == [k \in 1..((w + BUFFER_SIZE - r) % BUFFER_SIZE) |->
             buf[(r + k - 1) % BUFFER_SIZE]]
NotTaken == SubSeq(typed, taken + 1, Len(typed))

\* the ring holds exactly the characters typed and not yet taken, in order,
RingHoldsTyped ==
  orderly => r \in Cell /\ w \in Cell /\ InRing = NotTaken

\* the reader holds the oldest of them, and r where it found it, whatever the
\* handler did since it loaded them,
ReaderHoldsOldest ==
  orderly =>
    /\ pc \in {"index", "char", "load", "store"} => NotTaken # <<>>
    /\ pc \in {"char", "load", "store"} => idx = r
    /\ pc \in {"load", "store"} => c = Head(NotTaken)
    /\ pc = "store" => old_r = r

\* and a call has in its line what was typed since it began, edited as the
\* user sees it: nothing from before, nothing twice, nothing missing.  The newline
\* that ends a line of input_readln is not part of it.
EditIn(kind, l, x) == IF kind = "input_readln" /\ x = NL THEN l ELSE Edit(l, x)

LineAsTyped ==
  orderly /\ call # "none" =>
    line = FoldLeft(LAMBDA l, x : EditIn(call, l, x), <<>>, SubSeq(typed, begin + 1, taken))

\* No other character of a line is taken before the call returns: a newline
\* ends input_readln, and input_read never puts more than size characters.
CallEndsInTime ==
  /\ call = "input_read" => Len(line) <= size
  /\ orderly /\ call = "input_readln" =>
       \A k \in (begin + 1)..taken : typed[k] = NL => k = taken /\ pc = "idle"

\* A call of input_readln returns once a newline has been typed.
ReadlnReturns ==
  (call = "input_readln" /\ pc # "idle" /\ NL \in Range(NotTaken))
    ~> (pc = "idle" \/ ~orderly)

\* Characters are never read or written outside buf (input.c's comment on the
\* circular buffer).
StaysInBounds == r \in Cell /\ w \in Cell
=============================================================================
