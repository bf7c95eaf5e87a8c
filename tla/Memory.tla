------------------------------- MODULE Memory --------------------------------
(***************************************************************************)
(* libs/klibc/mem.c, and of string.c what is not strtok: the loops that    *)
(* copy, fill, measure and compare memory, byte by byte.  A behaviour is   *)
(* one call on a small memory.                                             *)
(*                                                                         *)
(* A byte is a number from 0 to 255; char is signed.  Copying does not     *)
(* look at the bytes, so one memory in which all of them differ shows      *)
(* where each went; measuring and comparing is done on every memory of a   *)
(* few bytes.                                                              *)
(***************************************************************************)
EXTENDS Integers, Sequences, SequencesExt, FiniteSetsExt

CONSTANTS
  SIZE,          \* bytes of the memory that is copied in
  STRINGS,       \* bytes of the memory that holds strings
  Byte           \* the bytes of strings

VARIABLES
  call,          \* the function called, with its arguments
  memory,        \* the memory after the call, or before it
  value,         \* what the function returned, or NONE
  before         \* history: the memory before the call

vars == <<call, memory, value, before>>

NONE == -2   \* no function returns it
char(b) == IF b > 127 THEN b - 256 ELSE b

-----------------------------------------------------------------------------
Up(n) == [k \in 1..n |-> k - 1]
Down(n) == [k \in 1..n |-> n - k]

\* The bytes at src + i are stored at dst + i, one i after the other.
Copied(m, dst, src, order) ==
  FoldLeft(LAMBDA t, i : [t EXCEPT ![dst + i] = t[src + i]], m, order)

memset(m, buf, b, n) == FoldLeft(LAMBDA t, i : [t EXCEPT ![buf + i] = b], m, Up(n))
memcpy(m, dst, src, n) == Copied(m, dst, src, Up(n))

\* Fault: the two directions are swapped.
memmoveSwapped(m, dst, src, n) ==
  Copied(m, dst, src, IF dst < src THEN Down(n) ELSE Up(n))

memmove(m, dst, src, n) == Copied(m, dst, src, IF dst < src THEN Up(n) ELSE Down(n))

memcmp(m, a, b, n) ==
  LET from[i \in 0..n] ==
        IF i = n THEN 0
        ELSE IF m[a + i] < m[b + i] THEN -1
        ELSE IF m[b + i] < m[a + i] THEN 1
        ELSE from[i + 1]
  IN  from[0]

strlen(m, s) ==
  LET len[i \in Nat] == IF m[s + i] # 0 THEN len[i + 1] ELSE i IN len[0]

strcpy(m, target, src) == Copied(m, target, src, Up(strlen(m, src) + 1))

strcmp(m, str, str1) ==
  LET from[i \in Nat] ==
        IF m[str + i] # m[str1 + i]
        THEN IF char(m[str + i]) < char(m[str1 + i]) THEN -1 ELSE 1
        ELSE IF m[str + i] = 0 THEN 0
        ELSE from[i + 1]
  IN  from[0]

\* The copy without its end, in a block of len + 1 bytes, and then the end.
strdup(m, block, src) ==
  [Copied(m, block, src, Up(strlen(m, src))) EXCEPT ![block + strlen(m, src)] = 0]

-----------------------------------------------------------------------------
Terminated(m, s) == \E i \in s..(STRINGS - 1) : m[i] = 0
Distinct == [i \in 0..(SIZE - 1) |-> i + 1]
Apart(a, b, n) == a + n <= b \/ b + n <= a

\* strdup is given a block clear of the string; strcpy's callers copy between
\* different nodes.
Called ==
  \/ /\ before = Distinct
     /\ \E f \in {"memset", "memcpy", "memmove"}, a, b \in 0..(SIZE - 1), n \in 0..SIZE :
          /\ a + n <= SIZE /\ b + n <= SIZE
          /\ call = [f |-> f, a |-> a, b |-> b, n |-> n]
  \/ /\ before \in [0..(STRINGS - 1) -> Byte]
     /\ \E f \in {"memcmp", "strlen", "strcmp", "strcpy", "strdup"},
           a, b \in 0..(STRINGS - 1), n \in 0..STRINGS :
          /\ CASE f = "memcmp" -> a + n <= STRINGS /\ b + n <= STRINGS
               [] f = "strlen" -> Terminated(before, a) /\ b = a /\ n = 0
               [] f = "strcmp" -> Terminated(before, a) /\ Terminated(before, b) /\ n = 0
               [] OTHER -> /\ Terminated(before, b)
                           /\ n = strlen(before, b) + 1
                           /\ a + n <= STRINGS /\ Apart(a, b, n)
          /\ call = [f |-> f, a |-> a, b |-> b, n |-> n]

Init == value = NONE /\ Called /\ memory = before

Do ==
  /\ value = NONE
  /\ LET a == call.a  b == call.b  n == call.n  m == memory
     IN  /\ memory' = CASE call.f = "memset" -> memset(m, a, b, n)
                        [] call.f = "memcpy" -> memcpy(m, a, b, n)
                        [] call.f = "memmove" -> memmove(m, a, b, n)
                        [] call.f = "strcpy" -> strcpy(m, a, b)
                        [] call.f = "strdup" -> strdup(m, a, b)
                        [] OTHER -> m
         /\ value' = CASE call.f = "memcmp" -> memcmp(m, a, b, n)
                       [] call.f = "strcmp" -> strcmp(m, a, b)
                       [] call.f = "strlen" -> strlen(m, a)
                       [] OTHER -> a
  /\ UNCHANGED <<call, before>>

Next == Do
Spec == Init /\ [][Next]_vars

-----------------------------------------------------------------------------
\* What the bytes from a on become, the others staying.
Becomes(a, n, bytes) ==
  \A i \in DOMAIN before :
    memory[i] = IF i \in a..(a + n - 1) THEN bytes[i - a] ELSE before[i]

\* A string with its end; strings are compared at the first difference, where a
\* byte above 127 is less than the end of the other string.
StringAt(s) == SubSeq([i \in 1..STRINGS |-> before[i - 1]], s + 1, s + strlen(before, s) + 1)
Less(s, t) ==
  \E i \in DOMAIN s \cap DOMAIN t :
    SubSeq(s, 1, i - 1) = SubSeq(t, 1, i - 1) /\ char(s[i]) < char(t[i])

\* The answer for n bytes compared as numbers from 0 to 255: 0 when none differs,
\* else the sign at the first that does.
Compares(m, a, b, n, answer) ==
  \/ answer = 0 /\ \A i \in 0..(n - 1) : m[a + i] = m[b + i]
  \/ \E i \in 0..(n - 1) :
       /\ \A j \in 0..(i - 1) : m[a + j] = m[b + j]
       /\ m[a + i] # m[b + i]
       /\ answer = IF m[a + i] < m[b + i] THEN -1 ELSE 1

\* memmove copies as if through memory of its own, however source and target
\* overlap; memcpy does where they do not, and where the target is below the
\* source, which scroll counts on.  memcmp compares bytes, strcmp the characters
\* of strings, and a copy of a string is that string and changes nothing behind
\* it.
MemoryRight ==
  value # NONE =>
    LET a == call.a  b == call.b  n == call.n
        source == [i \in 0..(n - 1) |-> before[b + i]]
    IN  CASE call.f = "memset" -> Becomes(a, n, [i \in 0..(n - 1) |-> b])
          [] call.f = "memcpy" -> a <= b \/ Apart(a, b, n) => Becomes(a, n, source)
          [] call.f \in {"memmove", "strcpy", "strdup"} -> Becomes(a, n, source)
          [] call.f = "memcmp" -> Compares(before, a, b, n, value)
          [] call.f = "strcmp" ->
               value = IF StringAt(a) = StringAt(b) THEN 0
                       ELSE IF Less(StringAt(a), StringAt(b)) THEN -1 ELSE 1
          [] call.f = "strlen" ->
               before[a + value] = 0 /\ \A i \in a..(a + value - 1) : before[i] # 0
=============================================================================
