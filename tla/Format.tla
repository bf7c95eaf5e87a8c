------------------------------- MODULE Format --------------------------------
(***************************************************************************)
(* The conversions: libs/format.c, which logf is made of, and itoa, itob,  *)
(* digit_count and oct2bin of libs/klibc/libc.c.  They keep nothing        *)
(* between calls; a behaviour is one call.                                 *)
(*                                                                         *)
(* A character is a number: a digit or a letter the value it has as a      *)
(* digit, the others what comes after.  What a function writes through f   *)
(* or into its buffer is a sequence of characters.                         *)
(***************************************************************************)
EXTENDS Integers, Sequences, SequencesExt

CONSTANTS
  NIBBLES,       \* of a word: 8; fewer will do
  Numbers,       \* the values converted, of I32
  Bases,         \* the bases asked for, supported or not, of 0..255
  Texts,         \* the strings printed, a list of sequences of characters
  MaxPieces      \* bound of the model: the pieces of a format string

\* 16^k, and 2^32.
Power[k \in 0..NIBBLES] == IF k = 0 THEN 1 ELSE 16 * Power[k - 1]
U32 == Power[NIBBLES]
INT_MAX == U32 \div 2 - 1
I32 == (-INT_MAX - 1)..INT_MAX

\* i32 arithmetic wraps; / and % round towards zero.
Wrapped(x) == ((x + INT_MAX + 1) % U32) - INT_MAX - 1
Abs(x) == IF x < 0 THEN -x ELSE x

\* Fault: % rounds down.
RemDown(n, b) == n % b

Quot(n, b) == IF n < 0 THEN -((-n) \div b) ELSE n \div b
Rem(n, b) == IF n < 0 THEN -((-n) % b) ELSE n % b

MINUS == 36
PERCENT == 37
LEFT == 38
RIGHT == 39
Supported(b) == b \in 2..36

-----------------------------------------------------------------------------
\* The digits from the last on.  The table of characters runs from z down to 0
\* and up to z again, so a negative remainder finds its digit too.
Digits(n, b) ==
  LET from[m \in I32] ==
        <<Abs(Rem(m, b))>> \o IF Quot(m, b) = 0 THEN <<>> ELSE from[Quot(m, b)]
  IN  from[n]

Sign(n, b) == IF n < 0 /\ b = 10 THEN <<MINUS>> ELSE <<>>

format_i32_base(n, b) ==
  IF Supported(b) THEN Sign(n, b) \o Reverse(Digits(n, b)) ELSE <<>>

format_i32(n) == format_i32_base(n, 10)

\* itoa turns the digits behind the sign round in its buffer.
itoa(n, b) == IF Supported(b) THEN Sign(n, b) \o Reverse(Digits(n, b)) ELSE <<>>

\* itob turns round what it has written, sign and all.
reverse(s) == Reverse(s)
itob(n, b) ==
  LET m == IF n < 0 THEN Wrapped(-n) ELSE n
      written == IF m < 0 THEN <<Rem(m, b)>> ELSE Digits(m, b)
  IN  reverse(written \o (IF n < 0 THEN <<MINUS>> ELSE <<>>))

digit_count(n) ==
  LET count[m \in I32] == IF m > 0 THEN 1 + count[m \div 10] ELSE 0
  IN  IF n = 0 THEN 1 ELSE count[n]

oct2bin(str) == FoldLeft(LAMBDA n, c : Wrapped(Wrapped(n * 8) + c), 0, str)

\* All nibbles but the last: zeroes are left out as long as nothing was printed.
HexFront(n, noZeroes) ==
  FoldLeft(LAMBDA t, k :
             LET nibble == (n \div Power[NIBBLES - k]) % 16
             IN  IF noZeroes /\ t = <<>> /\ nibble = 0 THEN t ELSE Append(t, nibble),
           <<>>, [k \in 1..(NIBBLES - 1) |-> k])

format_h32(n, noZeroes) == <<0, 33>> \o HexFront(n, noZeroes) \o <<n % 16>>

\* Fault: a pointer is printed like a number.
format_pointer_short(p) ==
  IF p = 0 THEN <<LEFT, 23, 18, 21, RIGHT>> ELSE format_h32(p, TRUE)

\* "(nil)"
format_pointer(p) ==
  IF p = 0 THEN <<LEFT, 23, 18, 21, RIGHT>> ELSE format_h32(p, FALSE)

format_char(ch) == <<ch>>
format_string(s) == s

\* %c %s %x %d %p, with the argument they take.
Takes == {12, 28, 33, 13, 25}
Directive(d, arg) ==
  CASE d = 12 -> format_char(arg)
    [] d = 28 -> format_string(arg)
    [] d = 33 -> format_h32(arg % U32, TRUE)
    [] d = 13 -> format_i32(arg)
    [] d = 25 -> format_pointer(arg % U32)

\* The loop over a format string: whether a % waits for its directive after i
\* characters, how many arguments are taken by then, and what each character
\* prints.  Any other character behind a % is skipped with it.
waits(fmt) ==
  LET w[i \in 0..Len(fmt)] == i > 0 /\ fmt[i] = PERCENT /\ ~w[i - 1]
  IN  w
taken(fmt) ==
  LET n[i \in 0..Len(fmt)] ==
        IF i = 0 THEN 0
        ELSE IF waits(fmt)[i - 1] /\ fmt[i] \in Takes THEN n[i - 1] + 1 ELSE n[i - 1]
  IN  n

printed(fmt, args) ==
  [i \in DOMAIN fmt |->
     IF ~waits(fmt)[i - 1] THEN IF fmt[i] = PERCENT THEN <<>> ELSE format_char(fmt[i])
     ELSE IF fmt[i] \in Takes THEN Directive(fmt[i], args[taken(fmt)[i]])
     ELSE IF fmt[i] = PERCENT THEN <<PERCENT>> ELSE <<>>]

formatv(fmt, args) == FlattenSeq(printed(fmt, args))

\* format, and logf and serial_printf with an f of their own.
format(fmt, args) == formatv(fmt, args)

-----------------------------------------------------------------------------
(* The calls.  A format string is made of pieces; no caller ends one with  *)
(* a single %.                                                             *)
VARIABLES request, written

vars == <<request, written>>

\* The pieces, with the argument they take and what they print.
Piece(text, args, out) == [text |-> text, args |-> args, out |-> out]
Fixed ==
  <<Piece(<<13>>, <<>>, <<13>>), Piece(<<PERCENT, PERCENT>>, <<>>, <<PERCENT>>),
    Piece(<<PERCENT, 10>>, <<>>, <<>>), Piece(<<PERCENT, 12>>, <<25>>, <<25>>),
    Piece(<<PERCENT, 13>>, <<-1>>, <<MINUS, 1>>),
    Piece(<<PERCENT, 13>>, <<10>>, <<1, 0>>),
    Piece(<<PERCENT, 33>>, <<-1>>, <<0, 33>> \o [k \in 1..NIBBLES |-> 15]),
    Piece(<<PERCENT, 33>>, <<16>>, <<0, 33, 1, 0>>),
    Piece(<<PERCENT, 25>>, <<0>>, <<LEFT, 23, 18, 21, RIGHT>>),
    Piece(<<PERCENT, 25>>, <<16>>, <<0, 33>> \o [k \in 1..(NIBBLES - 2) |-> 0] \o <<1, 0>>)>>
Pieces == Fixed \o [i \in DOMAIN Texts |-> Piece(<<PERCENT, 28>>, <<Texts[i]>>, Texts[i])]

\* The text, the arguments or the output of a sequence of pieces.
Texting(ps) == FlattenSeq([i \in DOMAIN ps |-> Pieces[ps[i]].text])
Arguments(ps) == FlattenSeq([i \in DOMAIN ps |-> Pieces[ps[i]].args])
Output(ps) == FlattenSeq([i \in DOMAIN ps |-> Pieces[ps[i]].out])

Requests ==
  [f : {"itoa", "itob", "format_i32_base"}, n : Numbers, b : Bases]
    \cup [f : {"format_h32"}, n : {n % U32 : n \in Numbers}, zeroes : BOOLEAN]
    \cup [f : {"digit_count"}, n : Numbers]
    \cup [f : {"oct2bin"}, str : UNION {[1..k -> {0, 1, 7}] : k \in 0..5}]
    \cup [f : {"format"}, pieces : UNION {[1..k -> DOMAIN Pieces] : k \in 0..MaxPieces}]

\* itob does not check the base.
Init ==
  /\ request \in Requests
  /\ request.f = "itob" => Supported(request.b)
  /\ written = <<>>

Convert ==
  /\ written = <<>>
  /\ written' = <<
       CASE request.f = "itoa" -> itoa(request.n, request.b)
         [] request.f = "itob" -> itob(request.n, request.b)
         [] request.f = "format_i32_base" -> format_i32_base(request.n, request.b)
         [] request.f = "format_h32" -> format_h32(request.n, ~request.zeroes)
         [] request.f = "digit_count" -> <<digit_count(request.n)>>
         [] request.f = "oct2bin" -> <<oct2bin(request.str)>>
         [] request.f = "format" ->
              format(Texting(request.pieces), Arguments(request.pieces))>>
  /\ UNCHANGED request

Next == Convert
Spec == Init /\ [][Next]_vars

-----------------------------------------------------------------------------
Value(s, b) == FoldLeft(LAMBDA n, d : n * b + d, 0, s)
Shortest(s) == Len(s) > 0 /\ (s[1] = 0 => Len(s) = 1)

Unsigned(s) == IF s # <<>> /\ s[1] = MINUS THEN Tail(s) ELSE s

\* s is n in base b, with a sign if signed.
Reads(s, n, b, signed) ==
  /\ Shortest(Unsigned(s))
  /\ \A i \in DOMAIN Unsigned(s) : Unsigned(s)[i] \in 0..(b - 1)
  /\ Value(Unsigned(s), b) = Abs(n)
  /\ s # Unsigned(s) <=> n < 0 /\ signed

\* What is printed reads back as the number it was made of, without zeroes in
\* front: for every number, the smallest too, and every base.  (itob negates the
\* smallest number into itself; it has no caller.)
NumbersRight ==
  written # <<>> =>
    LET s == written[1] IN
    CASE request.f \in {"itoa", "format_i32_base"} ->
           IF Supported(request.b)
           THEN Reads(s, request.n, request.b, request.b = 10) ELSE s = <<>>
      [] request.f = "itob" ->
           request.n > -INT_MAX - 1 => Reads(s, request.n, request.b, TRUE)
      [] request.f = "format_h32" ->
           /\ SubSeq(s, 1, 2) = <<0, 33>>
           /\ LET digits == SubSeq(s, 3, Len(s))
              IN  /\ Value(digits, 16) = request.n
                  /\ IF request.zeroes THEN Len(digits) = NIBBLES ELSE Shortest(digits)
      [] request.f = "digit_count" ->
           request.n >= 0 => s[1] = Len(format_i32(request.n))
      [] request.f = "oct2bin" ->
           Value(request.str, 8) <= INT_MAX => s[1] = Value(request.str, 8)
      [] OTHER -> TRUE

\* A format string prints the sum of its pieces, each with its own argument.
FormatRight ==
  written # <<>> /\ request.f = "format" =>
    written[1] = Output(request.pieces)
=============================================================================
