--------------------------- MODULE Format_proofs ---------------------------
(***************************************************************************)
(* What the conversions print: every number reads back as itself, in words *)
(* of any size, and a message is the sum of its pieces, of any number of   *)
(* them and with any strings in it.                                        *)
(***************************************************************************)
EXTENDS Klibc, SequenceTheorems, ArithmeticLemmas

-----------------------------------------------------------------------------
(* Numbers.                                                                *)

LEMMA FormatMaxIsGreatest == \A t : Numeral!Max(t) = Greatest(t)
BY DEF Numeral!Max, Greatest

\* The recursive functions of two folds over a string: its value as a numeral,
\* and what oct2bin makes of it.
Values(b, s, D, f) ==
  f = [t \in SUBSET D |->
         IF t = {} THEN 0 ELSE f[t \ {Numeral!Max(t)}] * b + s[Numeral!Max(t)]]
Octals(s, D, f) ==
  f = [t \in SUBSET D |->
         IF t = {} THEN 0
         ELSE Numeral!Wrapped(Numeral!Wrapped(f[t \ {Numeral!Max(t)}] * 8) + s[Numeral!Max(t)])]

LEMMA ValueIsFold ==
  ASSUME NEW s, NEW b
  PROVE  Numeral!Value(s, b) = (CHOOSE f : Values(b, s, DOMAIN s, f))[DOMAIN s]
BY DEF Numeral!Value, Numeral!FoldLeft, Numeral!MapThenFoldSet, Values

LEMMA OctalIsFold ==
  ASSUME NEW s
  PROVE  Numeral!oct2bin(s) = (CHOOSE f : Octals(s, DOMAIN s, f))[DOMAIN s]
BY DEF Numeral!oct2bin, Numeral!FoldLeft, Numeral!MapThenFoldSet, Octals

ValueStep(b) == [p \in Nat \X Nat |-> p[1] * b + p[2]]

\* The value of a numeral, digit by digit.
Rolls(s, b, f) ==
  /\ f \in [0..Len(s) -> Nat] /\ f[0] = 0
  /\ \A k \in 1..Len(s) : f[k] = f[k - 1] * b + s[k]

LEMMA ValueRolls ==
  ASSUME NEW s \in Seq(Nat), NEW b \in Nat
  PROVE  \E f : Rolls(s, b, f) /\ Numeral!Value(s, b) = f[Len(s)]
<1>. DEFINE n == Len(s)
            op == ValueStep(b)
            g == CHOOSE f : Values(b, s, 1..n, f)
<1>0. n \in Nat /\ DOMAIN s = 1..n /\ \A k \in 1..n : s[k] \in Nat
  BY LenProperties, ElementOfSeq
<1>1. op \in [Nat \X Nat -> Nat] /\ \A c, d \in Nat : op[<<c, d>>] = c * b + d
  <2>1. \A p \in Nat \X Nat : p[1] \in Nat /\ p[2] \in Nat
    OBVIOUS
  <2>2. \A c, d \in Nat : c * b + d \in Nat
    OBVIOUS
  <2>3. \A p \in Nat \X Nat : p[1] * b + p[2] \in Nat
    BY <2>1, <2>2
  <2>. QED
    BY <2>3 DEF ValueStep
<1>. HIDE DEF op
<1>2. PICK h : FoldsOver(op, 0, s, n, h) /\ \A t \in SUBSET (1..n) : h[t] \in Nat
  <2>1. n \in 0..Len(s) /\ 0 \in Nat
    BY <1>0
  <2>. QED
    BY <1>1, <2>1, FoldExists
<1>3. ASSUME NEW t \in SUBSET (1..n), t # {}
      PROVE  /\ Numeral!Max(t) \in 1..n /\ t \ {Numeral!Max(t)} \in SUBSET (1..n)
             /\ s[Numeral!Max(t)] \in Nat
  BY <1>0, <1>3, GreatestOfPositions, FormatMaxIsGreatest
<1>4. Values(b, s, 1..n, h)
  <2>1. ASSUME NEW t \in SUBSET (1..n), t # {}
        PROVE  op[<<h[t \ {Numeral!Max(t)}], s[Numeral!Max(t)]>>]
                 = h[t \ {Numeral!Max(t)}] * b + s[Numeral!Max(t)]
    BY <1>1, <1>2, <1>3, <2>1
  <2>2. h = [t \in SUBSET (1..n) |->
               IF t = {} THEN 0 ELSE op[<<h[t \ {Numeral!Max(t)}], s[Numeral!Max(t)]>>]]
    BY <1>2, FormatMaxIsGreatest DEF FoldsOver
  <2>3. h = [t \in SUBSET (1..n) |->
               IF t = {} THEN 0 ELSE h[t \ {Numeral!Max(t)}] * b + s[Numeral!Max(t)]]
    BY <2>1, <2>2
  <2>. QED
    BY <2>3 DEF Values
<1>5. Values(b, s, 1..n, g)
  BY <1>4
<1>. HIDE DEF g
<1>6. Numeral!Value(s, b) = g[1..n]
  BY <1>0, ValueIsFold DEF g
<1>. DEFINE f == [k \in 0..n |-> g[1..k]]
<1>7. g[{}] = 0 /\ 1..0 = {}
  BY <1>5 DEF Values
<1>8. f[0] = 0 /\ f[n] = g[1..n]
  BY <1>0, <1>7
<1>9. ASSUME NEW k \in 1..n PROVE f[k] = f[k - 1] * b + s[k]
  <2>1. /\ 1..k \in SUBSET (1..n) /\ 1..k # {}
        /\ Greatest(1..k) = k /\ (1..k) \ {k} = 1..(k - 1)
    BY <1>0, GreatestOfFirst
  <2>2. g[1..k] = g[(1..k) \ {Numeral!Max(1..k)}] * b + s[Numeral!Max(1..k)]
    BY <1>5, <2>1 DEF Values
  <2>3. k \in 0..n /\ k - 1 \in 0..n
    BY <1>0
  <2>. QED
    BY <2>1, <2>2, <2>3, FormatMaxIsGreatest
<1>. HIDE DEF f
<1>. DEFINE S == {k \in 0..n : f[k] \in Nat}
<1>10. 0 \in S
  BY <1>0, <1>8
<1>11. ASSUME NEW k \in 1..n, k - 1 \in S PROVE k \in S
  <2>1. f[k - 1] \in Nat /\ s[k] \in Nat /\ k \in 0..n
    BY <1>0, <1>11
  <2>. DEFINE p == f[k - 1] * b
  <2>2. p \in Nat
    BY <2>1
  <2>3. f[k] = p + s[k]
    BY <1>9
  <2>. HIDE DEF p
  <2>4. f[k] \in Nat
    BY <2>1, <2>2, <2>3, SMTT(30)
  <2>. QED
    BY <2>1, <2>4
<1>. HIDE DEF S
<1>12. \A k \in 0..n : k \in S
  BY <1>0, <1>10, <1>11, UpTo
<1>13. f \in [0..n -> Nat]
  BY <1>12 DEF S, f
<1>14. Rolls(s, b, f)
  BY <1>8, <1>9, <1>13 DEF Rolls
<1>. QED
  BY <1>6, <1>8, <1>14

LEMMA ValueEmpty == \A b \in Nat : Numeral!Value(<<>>, b) = 0
<1>. SUFFICES ASSUME NEW b \in Nat PROVE Numeral!Value(<<>>, b) = 0
  OBVIOUS
<1>. DEFINE s == <<>>
<1>1. s \in Seq(Nat) /\ Len(s) = 0
  OBVIOUS
<1>. HIDE DEF s
<1>2. Numeral!Value(s, b) = 0
  BY <1>1, ValueRolls DEF Rolls
<1>. QED
  BY <1>2 DEF s

\* One digit more.
LEMMA ValueAppend ==
  ASSUME NEW s \in Seq(Nat), NEW d \in Nat, NEW b \in Nat
  PROVE  /\ Numeral!Value(s, b) \in Nat
         /\ Numeral!Value(Append(s, d), b) = Numeral!Value(s, b) * b + d
<1>. DEFINE n == Len(s)
            t == Append(s, d)
<1>1. /\ n \in Nat /\ t \in Seq(Nat) /\ Len(t) = n + 1 /\ t[n + 1] = d
      /\ \A k \in 1..n : t[k] = s[k]
  BY LenProperties
<1>2. PICK f : Rolls(s, b, f) /\ Numeral!Value(s, b) = f[n]
  BY ValueRolls
<1>. HIDE DEF t
<1>3. PICK g : Rolls(t, b, g) /\ Numeral!Value(t, b) = g[n + 1]
  <2>1. \E g : Rolls(t, b, g) /\ Numeral!Value(t, b) = g[Len(t)]
    BY <1>1, ValueRolls
  <2>. QED
    BY <1>1, <2>1
<1>4. /\ g[0] = 0 /\ \A k \in 1..(n + 1) : g[k] = g[k - 1] * b + t[k]
      /\ f \in [0..n -> Nat] /\ f[0] = 0 /\ \A k \in 1..n : f[k] = f[k - 1] * b + s[k]
  BY <1>1, <1>2, <1>3 DEF Rolls
<1>. DEFINE S == {k \in 0..n : f[k] = g[k]}
<1>5. 0 \in S
  BY <1>1, <1>4
<1>6. ASSUME NEW k \in 1..n, k - 1 \in S PROVE k \in S
  <2>1. f[k - 1] = g[k - 1] /\ k \in 1..(n + 1)
    BY <1>1, <1>6
  <2>. QED
    BY <1>1, <1>4, <2>1
<1>. HIDE DEF S
<1>7. n \in S
  <2>1. \A k \in 0..n : k \in S
    BY <1>1, <1>5, <1>6, UpTo
  <2>. QED
    BY <1>1, <2>1
<1>8. g[n] = f[n] /\ f[n] \in Nat
  BY <1>1, <1>4, <1>7 DEF S
<1>9. g[n + 1] = g[n] * b + d
  <2>1. n + 1 \in 1..(n + 1) /\ (n + 1) - 1 = n
    BY <1>1
  <2>. QED
    BY <1>1, <1>4, <2>1
<1>. QED
  BY <1>2, <1>3, <1>8, <1>9 DEF t

\* The powers of 16, and the words they make.
Powers(f) == f = [k \in 0..NIBBLES |-> IF k = 0 THEN 1 ELSE 16 * f[k - 1]]

LEMMA PowerIs ==
  /\ Numeral!Power \in [0..NIBBLES -> Nat] /\ Numeral!Power[0] = 1
  /\ \A k \in 1..NIBBLES : Numeral!Power[k] = 16 * Numeral!Power[k - 1]
<1>. DEFINE op == [p \in (1..NIBBLES) \X Nat |-> 16 * p[2]]
<1>1. op \in [(1..NIBBLES) \X Nat -> Nat] /\ NIBBLES \in Nat /\ 1 \in Nat
  <2>1. \A p \in (1..NIBBLES) \X Nat : p[2] \in Nat
    OBVIOUS
  <2>2. \A p \in (1..NIBBLES) \X Nat : 16 * p[2] \in Nat
    BY <2>1
  <2>. QED
    BY <2>2, FormatAssumption
<1>2. \A k \in 1..NIBBLES : \A x \in Nat : op[<<k, x>>] = 16 * x
  OBVIOUS
<1>. HIDE DEF op
<1>3. PICK f : Recurs(NIBBLES, Nat, 1, op, f)
  BY <1>1, RecursionExists
<1>4. f \in [0..NIBBLES -> Nat] /\ f[0] = 1 /\ \A k \in 1..NIBBLES : f[k] = 16 * f[k - 1]
  <2>1. ASSUME NEW k \in 1..NIBBLES PROVE f[k - 1] \in Nat
    BY <1>1, <1>3 DEF Recurs
  <2>. QED
    BY <1>2, <1>3, <2>1 DEF Recurs
<1>5. Powers(f)
  <2>1. ASSUME NEW k \in 0..NIBBLES PROVE f[k] = IF k = 0 THEN 1 ELSE 16 * f[k - 1]
    <3>1. k # 0 => k \in 1..NIBBLES
      BY <1>1
    <3>. QED
      BY <1>4, <3>1
  <2>. QED
    BY <1>4, <2>1 DEF Powers
<1>. DEFINE g == Numeral!Power
<1>6. Powers(g)
  <2>1. g = CHOOSE h : Powers(h)
    BY DEF Numeral!Power, Powers
  <2>. HIDE DEF g
  <2>. QED
    BY <1>5, <2>1
<1>. HIDE DEF g
<1>. DEFINE S == {k \in 0..NIBBLES : g[k] \in Nat}
<1>7. g[0] = 1 /\ \A k \in 1..NIBBLES : g[k] = 16 * g[k - 1]
  BY <1>1, <1>6 DEF Powers
<1>8. 0 \in S
  BY <1>1, <1>7
<1>9. ASSUME NEW k \in 1..NIBBLES, k - 1 \in S PROVE k \in S
  <2>1. g[k - 1] \in Nat /\ k \in 0..NIBBLES
    BY <1>1, <1>9
  <2>. QED
    BY <1>7, <2>1
<1>. HIDE DEF S
<1>10. \A k \in 0..NIBBLES : k \in S
  BY <1>1, <1>8, <1>9, UpTo
<1>11. g \in [0..NIBBLES -> Nat]
  BY <1>6, <1>10 DEF S, Powers
<1>. QED
  BY <1>7, <1>11 DEF g

LEMMA PowerIsPositive == \A k \in 0..NIBBLES : Numeral!Power[k] > 0
<1>. DEFINE g == Numeral!Power
            S == {k \in 0..NIBBLES : g[k] > 0}
<1>1. NIBBLES \in Nat
  BY FormatAssumption
<1>. HIDE DEF g
<1>2. /\ g \in [0..NIBBLES -> Nat] /\ g[0] = 1
      /\ \A k \in 1..NIBBLES : g[k] = 16 * g[k - 1]
  BY PowerIs DEF g
<1>3. 0 \in S
  BY <1>1, <1>2
<1>4. ASSUME NEW k \in 1..NIBBLES, k - 1 \in S PROVE k \in S
  <2>1. g[k - 1] \in Nat /\ g[k - 1] > 0 /\ k \in 0..NIBBLES
    BY <1>1, <1>2, <1>4
  <2>. QED
    BY <1>2, <2>1
<1>. HIDE DEF S
<1>5. \A k \in 0..NIBBLES : k \in S
  BY <1>1, <1>3, <1>4, UpTo
<1>. QED
  BY <1>5 DEF S, g

\* A word has two halves, of the numbers below zero and of the others.
LEMMA WordHalves ==
  /\ Numeral!U32 \in Nat /\ Numeral!U32 > 0
  /\ Numeral!INT_MAX \in Nat /\ Numeral!INT_MAX >= 7
  /\ Numeral!U32 = 2 * (Numeral!INT_MAX + 1)
<1>. DEFINE p == Numeral!Power[NIBBLES - 1]
<1>1. p \in Nat /\ p > 0 /\ Numeral!Power[NIBBLES] = 16 * p
  <2>1. NIBBLES - 1 \in 0..NIBBLES /\ NIBBLES \in 1..NIBBLES
    BY FormatAssumption
  <2>. QED
    BY <2>1, PowerIs, PowerIsPositive
<1>. HIDE DEF p
<1>2. Numeral!U32 = 16 * p /\ Numeral!INT_MAX = (16 * p) \div 2 - 1
  BY <1>1 DEF Numeral!U32, Numeral!INT_MAX
<1>3. (16 * p) \div 2 = 8 * p
  BY <1>1
<1>. QED
  BY <1>1, <1>2, <1>3

LEMMA I32Is ==
  \A x : x \in Numeral!I32 <=> x \in Int /\ -Numeral!INT_MAX - 1 <= x /\ x <= Numeral!INT_MAX
BY WordHalves DEF Numeral!I32

LEMMA WrappedIs ==
  ASSUME NEW x \in Int
  PROVE  /\ Numeral!Wrapped(x) \in Int
         /\ x \in Numeral!I32 => Numeral!Wrapped(x) = x
<1>. DEFINE w == Numeral!U32  m == Numeral!INT_MAX
<1>1. w \in Nat /\ w > 0 /\ m \in Nat /\ w = 2 * (m + 1)
  BY WordHalves
<1>2. Numeral!Wrapped(x) = ((x + m + 1) % w) - m - 1
  BY DEF Numeral!Wrapped
<1>. HIDE DEF w, m
<1>. DEFINE y == x + m + 1
<1>3. y \in Int
  BY <1>1
<1>4. ASSUME -m - 1 <= x, x <= m PROVE y % w = y
  <2>1. 0 * w <= y /\ y < (0 + 1) * w
    BY <1>1, <1>4
  <2>. HIDE DEF y
  <2>2. y \div w = 0
    BY <1>1, <1>3, <2>1, Quotient
  <2>3. y = (y \div w) * w + (y % w) /\ y % w \in Int
    BY <1>1, <1>3
  <2>4. (y \div w) * w = 0
    BY <1>1, <2>2
  <2>. QED
    BY <1>3, <2>3, <2>4
<1>5. y % w \in Int
  <2>. HIDE DEF y
  <2>. QED
    BY <1>1, <1>3
<1>6. x \in Numeral!I32 => -m - 1 <= x /\ x <= m
  BY I32Is DEF m
<1>. QED
  BY <1>1, <1>2, <1>4, <1>5, <1>6

OctalStep ==
  [p \in Int \X Nat |-> Numeral!Wrapped(Numeral!Wrapped(p[1] * 8) + p[2])]

\* What oct2bin makes of a string, digit by digit.
LEMMA OctalRolls ==
  ASSUME NEW s \in Seq(Nat)
  PROVE  \E f : /\ f[0] = 0 /\ Numeral!oct2bin(s) = f[Len(s)]
                /\ \A k \in 1..Len(s) :
                     f[k] = Numeral!Wrapped(Numeral!Wrapped(f[k - 1] * 8) + s[k])
<1>. DEFINE n == Len(s)
            op == OctalStep
            Step(c, d) == Numeral!Wrapped(Numeral!Wrapped(c * 8) + d)
            g == CHOOSE f : Octals(s, 1..n, f)
<1>0. n \in Nat /\ DOMAIN s = 1..n /\ \A k \in 1..n : s[k] \in Nat
  BY LenProperties, ElementOfSeq
<1>1. op \in [Int \X Nat -> Int] /\ \A c \in Int : \A d \in Nat : op[<<c, d>>] = Step(c, d)
  <2>1. \A p \in Int \X Nat : p[1] \in Int /\ p[2] \in Nat
    OBVIOUS
  <2>2. ASSUME NEW c \in Int, NEW d \in Nat PROVE Step(c, d) \in Int
    <3>1. Numeral!Wrapped(c * 8) \in Int
      BY WrappedIs
    <3>. QED
      BY <3>1, WrappedIs
  <2>3. op = [p \in Int \X Nat |-> Step(p[1], p[2])]
    BY DEF OctalStep
  <2>. HIDE DEF op, Step
  <2>. QED
    BY <2>1, <2>2, <2>3
<1>. HIDE DEF op
<1>2. PICK h : FoldsOver(op, 0, s, n, h) /\ \A t \in SUBSET (1..n) : h[t] \in Int
  <2>1. n \in 0..Len(s) /\ 0 \in Int
    BY <1>0
  <2>. QED
    BY <1>1, <2>1, FoldExists
<1>3. ASSUME NEW t \in SUBSET (1..n), t # {}
      PROVE  /\ Numeral!Max(t) \in 1..n /\ t \ {Numeral!Max(t)} \in SUBSET (1..n)
             /\ s[Numeral!Max(t)] \in Nat
  BY <1>0, <1>3, GreatestOfPositions, FormatMaxIsGreatest
<1>4. Octals(s, 1..n, h)
  <2>1. ASSUME NEW t \in SUBSET (1..n), t # {}
        PROVE  op[<<h[t \ {Numeral!Max(t)}], s[Numeral!Max(t)]>>]
                 = Step(h[t \ {Numeral!Max(t)}], s[Numeral!Max(t)])
    <3>. HIDE DEF Step
    <3>. QED
      BY <1>1, <1>2, <1>3, <2>1
  <2>2. h = [t \in SUBSET (1..n) |->
               IF t = {} THEN 0 ELSE op[<<h[t \ {Numeral!Max(t)}], s[Numeral!Max(t)]>>]]
    BY <1>2, FormatMaxIsGreatest DEF FoldsOver
  <2>3. h = [t \in SUBSET (1..n) |->
               IF t = {} THEN 0 ELSE Step(h[t \ {Numeral!Max(t)}], s[Numeral!Max(t)])]
    <3>. HIDE DEF Step
    <3>. QED
      BY <2>1, <2>2
  <2>. QED
    BY <2>3 DEF Octals
<1>5. Octals(s, 1..n, g)
  BY <1>4
<1>. HIDE DEF g
<1>6. Numeral!oct2bin(s) = g[1..n]
  BY <1>0, OctalIsFold DEF g
<1>. DEFINE f == [k \in 0..n |-> g[1..k]]
<1>7. g[{}] = 0 /\ 1..0 = {}
  BY <1>5 DEF Octals
<1>8. f[0] = 0 /\ f[n] = g[1..n]
  BY <1>0, <1>7
<1>9. ASSUME NEW k \in 1..n PROVE f[k] = Step(f[k - 1], s[k])
  <2>1. /\ 1..k \in SUBSET (1..n) /\ 1..k # {}
        /\ Greatest(1..k) = k /\ (1..k) \ {k} = 1..(k - 1)
    BY <1>0, GreatestOfFirst
  <2>2. g[1..k] = Step(g[(1..k) \ {Numeral!Max(1..k)}], s[Numeral!Max(1..k)])
    BY <1>5, <2>1 DEF Octals
  <2>3. k \in 0..n /\ k - 1 \in 0..n
    BY <1>0
  <2>. HIDE DEF Step
  <2>. QED
    BY <2>1, <2>2, <2>3, FormatMaxIsGreatest
<1>. HIDE DEF f
<1>. QED
  BY <1>6, <1>8, <1>9

\* oct2bin reads what fits into an i32.
LEMMA OctalReads ==
  ASSUME NEW s \in Seq(Nat), Numeral!Value(s, 8) <= Numeral!INT_MAX
  PROVE  Numeral!oct2bin(s) = Numeral!Value(s, 8)
<1>. DEFINE n == Len(s)  m == Numeral!INT_MAX
<1>0. n \in Nat /\ (\A k \in 1..n : s[k] \in Nat) /\ m \in Nat
  BY LenProperties, ElementOfSeq, WordHalves
<1>1. PICK f : Rolls(s, 8, f) /\ Numeral!Value(s, 8) = f[n]
  BY ValueRolls
<1>2. PICK g : /\ g[0] = 0 /\ Numeral!oct2bin(s) = g[n]
               /\ \A k \in 1..n : g[k] = Numeral!Wrapped(Numeral!Wrapped(g[k - 1] * 8) + s[k])
  BY OctalRolls
<1>3. \A x \in Nat : x <= m => Numeral!Wrapped(x) = x
  <2>. SUFFICES ASSUME NEW x \in Nat, x <= m PROVE Numeral!Wrapped(x) = x
    OBVIOUS
  <2>1. x \in Numeral!I32
    BY <1>0, I32Is
  <2>. QED
    BY <2>1, WrappedIs
<1>4. f[n] <= m
  BY <1>1
<1>. HIDE DEF m
<1>5. /\ f \in [0..n -> Nat] /\ f[0] = 0
      /\ \A k \in 1..n : f[k] = f[k - 1] * 8 + s[k]
  BY <1>1 DEF Rolls
<1>. DEFINE S == {k \in 0..n : f[k] <= m => g[k] = f[k]}
<1>6. 0 \in S
  BY <1>0, <1>2, <1>5
<1>7. ASSUME NEW k \in 1..n, k - 1 \in S PROVE k \in S
  <2>1. /\ k \in 0..n /\ k - 1 \in 0..n /\ f[k - 1] \in Nat /\ s[k] \in Nat
        /\ f[k - 1] <= m => g[k - 1] = f[k - 1]
    <3>1. k \in 0..n /\ k - 1 \in 0..n
      BY <1>0
    <3>. QED
      BY <1>0, <1>5, <1>7, <3>1
  <2>2. f[k] = f[k - 1] * 8 + s[k]
    BY <1>5
  <2>. SUFFICES ASSUME f[k] <= m PROVE g[k] = f[k]
    BY <2>1
  <2>3. f[k - 1] <= m /\ f[k - 1] * 8 \in Nat /\ f[k - 1] * 8 <= m /\ f[k] \in Nat
    <3>. DEFINE x == f[k - 1]  y == f[k]  d == s[k]
    <3>1. x \in Nat /\ d \in Nat /\ y = x * 8 + d /\ y <= m
      BY <2>1, <2>2
    <3>. HIDE DEF x, y, d
    <3>2. x <= m /\ x * 8 \in Nat /\ x * 8 <= m /\ y \in Nat
      BY <1>0, <3>1
    <3>. QED
      BY <3>2 DEF x, y
  <2>4. Numeral!Wrapped(f[k - 1] * 8) = f[k - 1] * 8 /\ Numeral!Wrapped(f[k]) = f[k]
    BY <1>3, <2>3
  <2>. QED
    BY <1>2, <2>1, <2>2, <2>3, <2>4
<1>. HIDE DEF S
<1>8. n \in S
  <2>1. \A k \in 0..n : k \in S
    BY <1>0, <1>6, <1>7, UpTo
  <2>. QED
    BY <1>0, <2>1
<1>. QED
  BY <1>1, <1>2, <1>4, <1>8 DEF S

\* Division rounds towards zero: sizes are divided, and shrink.
LEMMA QuotIs ==
  ASSUME NEW n \in Numeral!I32, NEW b \in Nat, b > 1
  PROVE  /\ Numeral!Quot(n, b) \in Numeral!I32
         /\ Numeral!Abs(n) \in 0..(Numeral!INT_MAX + 1)
         /\ Numeral!Abs(Numeral!Rem(n, b)) \in 0..(b - 1)
         /\ Numeral!Abs(n) = Numeral!Abs(Numeral!Quot(n, b)) * b
                               + Numeral!Abs(Numeral!Rem(n, b))
         /\ n # 0 => Numeral!Abs(Numeral!Quot(n, b)) < Numeral!Abs(n)
         /\ n = 0 => Numeral!Quot(n, b) = 0
         /\ n >= 0 => Numeral!Quot(n, b) >= 0
<1>. DEFINE m == Numeral!INT_MAX
            a == Numeral!Abs(n)  q == a \div b  r == a % b
<1>1. n \in Int /\ -m - 1 <= n /\ n <= m /\ m \in Nat
  BY I32Is, WordHalves
<1>. HIDE DEF m
<1>2. a \in Nat /\ a <= m + 1 /\ (n < 0 => a = -n) /\ (n >= 0 => a = n)
  BY <1>1 DEF Numeral!Abs
<1>. HIDE DEF a
<1>3. q \in Nat /\ r \in 0..(b - 1) /\ a = q * b + r
  BY <1>2
<1>4. /\ Numeral!Quot(n, b) = IF n < 0 THEN -q ELSE q
      /\ Numeral!Rem(n, b) = IF n < 0 THEN -r ELSE r
  <2>1. n >= 0 \/ n < 0
    BY <1>1
  <2>2. CASE n < 0
    <3>1. q = (-n) \div b /\ r = (-n) % b
      BY <1>2, <2>2
    <3>. QED
      BY <2>2, <3>1 DEF Numeral!Quot, Numeral!Rem
  <2>3. CASE n >= 0
    <3>1. q = n \div b /\ r = n % b /\ ~(n < 0)
      BY <1>1, <1>2, <2>3
    <3>. QED
      BY <3>1 DEF Numeral!Quot, Numeral!Rem
  <2>. QED
    BY <2>1, <2>2, <2>3
<1>. HIDE DEF q, r
<1>5. q * b >= 2 * q
  <2>1. 2 * q <= b * q /\ q * b = b * q
    BY <1>3, MultiplyMonotone
  <2>. QED
    BY <2>1
<1>. DEFINE p == q * b
<1>6. p \in Nat
  BY <1>3
<1>7. p >= 2 * q /\ a = p + r
  BY <1>3, <1>5
<1>. HIDE DEF p
<1>8. q <= a /\ (a > 0 => q < a) /\ (a = 0 => q = 0)
  BY <1>2, <1>3, <1>6, <1>7
<1>. DEFINE Q == Numeral!Quot(n, b)  R == Numeral!Rem(n, b)
<1>9. /\ Q \in Int /\ -m - 1 <= Q /\ Q <= m /\ (n >= 0 => Q >= 0) /\ (n = 0 => Q = 0)
      /\ (n # 0 => q < a)
  BY <1>1, <1>2, <1>3, <1>4, <1>8
<1>10. Numeral!Abs(Q) = q /\ Numeral!Abs(R) = r
  <2>. HIDE DEF Q, R
  <2>1. (Q = -q \/ Q = q) /\ (R = -r \/ R = r)
    BY <1>4 DEF Q, R
  <2>. QED
    BY <1>3, <2>1 DEF Numeral!Abs
<1>11. Q \in Numeral!I32
  BY <1>9, I32Is DEF m
<1>. QED
  BY <1>2, <1>3, <1>9, <1>10, <1>11 DEF a, m

\* The function that Digits is recursively made of.
Digiting(b, f) ==
  f = [m \in Numeral!I32 |->
         <<Numeral!Abs(Numeral!Rem(m, b))>> \o
           IF Numeral!Quot(m, b) = 0 THEN <<>> ELSE f[Numeral!Quot(m, b)]]

LEMMA DigitingExists ==
  ASSUME NEW b \in Nat, b > 1
  PROVE  \E f : Digiting(b, f)
<1>. DEFINE A == Numeral!I32
            D == Seq(Nat)
            Q(x) == Numeral!Quot(x, b)
            R(x) == Numeral!Abs(Numeral!Rem(x, b))
            M == Numeral!INT_MAX + 1
            B == {x \in A : Q(x) = 0}
            m == [x \in A |-> Numeral!Abs(x)]
            next == [x \in A |-> Q(x)]
            first == [x \in A |-> <<R(x)>>]
            op == [p \in A \X D |-> <<R(p[1])>> \o p[2]]
<1>1. \A x \in A : /\ Q(x) \in A /\ R(x) \in Nat
                   /\ Numeral!Abs(x) \in 0..M
                   /\ Q(x) # 0 => Numeral!Abs(Q(x)) < Numeral!Abs(x)
  BY QuotIs
<1>2. M \in Nat
  BY WordHalves
<1>. HIDE DEF A, Q, R, M
<1>3. m \in [A -> 0..M] /\ next \in [A -> A]
  BY <1>1
<1>4. \A x \in A : x \notin B => m[next[x]] < m[x]
  BY <1>1
<1>5. first \in [A -> D]
  BY <1>1
<1>6. op \in [A \X D -> D]
  <2>1. \A p \in A \X D : p[1] \in A /\ p[2] \in D
    OBVIOUS
  <2>2. \A x \in A : \A s \in D : <<R(x)>> \o s \in D
    BY <1>1
  <2>3. \A p \in A \X D : <<R(p[1])>> \o p[2] \in D
    BY <2>1, <2>2
  <2>. HIDE DEF D
  <2>. QED
    BY <2>3
<1>7. PICK f \in [A -> D] : Descends(A, B, first, next, op, f)
  <2>. HIDE DEF B, m, next, first, op, D
  <2>. QED
    BY ZenonT(60), <1>2, <1>3, <1>4, <1>5, <1>6, DescentExists
<1>8. ASSUME NEW x \in A
      PROVE  f[x] = <<R(x)>> \o (IF Q(x) = 0 THEN <<>> ELSE f[Q(x)])
  <2>1. f[x] = IF x \in B THEN first[x] ELSE op[<<x, f[next[x]]>>]
    BY <1>7 DEF Descends
  <2>2. <<R(x)>> \o <<>> = <<R(x)>>
    OBVIOUS
  <2>3. CASE Q(x) = 0
    BY <2>1, <2>2, <2>3
  <2>4. CASE Q(x) # 0
    <3>1. next[x] = Q(x) /\ f[Q(x)] \in D
      BY <1>1, <1>7
    <3>2. op[<<x, f[Q(x)]>>] = <<R(x)>> \o f[Q(x)]
      <4>. HIDE DEF D
      <4>. QED
        BY <3>1
    <3>. HIDE DEF op, next
    <3>. QED
      BY <2>1, <2>4, <3>1, <3>2
  <2>. QED
    BY <2>3, <2>4
<1>9. f = [x \in A |-> <<R(x)>> \o (IF Q(x) = 0 THEN <<>> ELSE f[Q(x)])]
  BY <1>7, <1>8
<1>. QED
  BY <1>9 DEF Digiting, A, Q, R

\* The last digit of a number, and those before.
LEMMA DigitsRecur ==
  ASSUME NEW b \in Nat, b > 1, NEW n \in Numeral!I32
  PROVE  Numeral!Digits(n, b) =
           <<Numeral!Abs(Numeral!Rem(n, b))>> \o
             IF Numeral!Quot(n, b) = 0 THEN <<>> ELSE Numeral!Digits(Numeral!Quot(n, b), b)
<1>. DEFINE g == CHOOSE f : Digiting(b, f)
<1>1. \A m : Numeral!Digits(m, b) = g[m]
  BY DEF Numeral!Digits, Digiting
<1>2. Digiting(b, g)
  BY DigitingExists
<1>. HIDE DEF g
<1>. QED
  BY <1>1, <1>2 DEF Digiting

-----------------------------------------------------------------------------
LEMMA ReverseIs ==
  ASSUME NEW X, NEW s \in Seq(X)
  PROVE  /\ Numeral!Reverse(s) \in Seq(X) /\ Len(Numeral!Reverse(s)) = Len(s)
         /\ \A i \in 1..Len(s) : Numeral!Reverse(s)[i] = s[Len(s) - i + 1]
<1>. DEFINE n == Len(s)
            r == [i \in 1..n |-> s[n - i + 1]]
<1>1. n \in Nat /\ \A i \in 1..n : s[i] \in X
  BY LenProperties, ElementOfSeq
<1>2. Numeral!Reverse(s) = r
  BY DEF Numeral!Reverse
<1>3. \A i \in 1..n : n - i + 1 \in 1..n
  BY <1>1
<1>4. r \in [1..n -> X]
  BY <1>1, <1>3
<1>5. r \in Seq(X) /\ Len(r) = n
  <2>. HIDE DEF r
  <2>. QED
    BY <1>1, <1>4
<1>. QED
  BY <1>2, <1>5

LEMMA ReverseFront ==
  ASSUME NEW X, NEW t \in Seq(X), NEW d \in X
  PROVE  Numeral!Reverse(<<d>> \o t) = Append(Numeral!Reverse(t), d)
<1>. DEFINE s == <<d>> \o t  n == Len(t)  r == Numeral!Reverse(t)  u == Append(r, d)
            v == Numeral!Reverse(s)
<1>1. /\ n \in Nat /\ s \in Seq(X) /\ Len(s) = n + 1 /\ s[1] = d
      /\ \A i \in 1..n : s[i + 1] = t[i]
  BY LenProperties
<1>2. r \in Seq(X) /\ Len(r) = n /\ \A i \in 1..n : r[i] = t[n - i + 1]
  BY ReverseIs
<1>. HIDE DEF s, r
<1>3. v \in Seq(X) /\ Len(v) = n + 1 /\ \A i \in 1..(n + 1) : v[i] = s[n + 1 - i + 1]
  BY <1>1, ReverseIs
<1>4. /\ u \in Seq(X) /\ Len(u) = n + 1 /\ u[n + 1] = d
      /\ \A i \in 1..n : u[i] = r[i]
  BY <1>1, <1>2
<1>. HIDE DEF u, v
<1>5. ASSUME NEW i \in 1..(n + 1) PROVE v[i] = u[i]
  <2>1. CASE i = n + 1
    BY <1>1, <1>3, <1>4, <2>1
  <2>2. CASE i # n + 1
    <3>1. i \in 1..n /\ n - i + 1 \in 1..n /\ n + 1 - i + 1 = (n - i + 1) + 1
      BY <1>1, <2>2
    <3>. QED
      BY <1>1, <1>2, <1>3, <1>4, <3>1, ZenonT(60)
  <2>. QED
    BY <2>1, <2>2
<1>6. v = u
  BY <1>1, <1>3, <1>4, <1>5
<1>. QED
  BY <1>6 DEF s, r, u, v

LEMMA ReverseEmpty == Numeral!Reverse(<<>>) = <<>>
<1>. DEFINE s == <<>>  r == Numeral!Reverse(s)
<1>1. s \in Seq({}) /\ Len(s) = 0
  OBVIOUS
<1>. HIDE DEF s
<1>2. r \in Seq({}) /\ Len(r) = 0
  BY <1>1, ReverseIs
<1>. HIDE DEF r
<1>3. r = <<>>
  BY <1>2, EmptySeq
<1>. QED
  BY <1>3 DEF r, s

-----------------------------------------------------------------------------
\* The digits of a number, the last one first.
DigitsRight(n, b, s) ==
  /\ s \in Seq(0..(b - 1)) /\ Len(s) > 0
  /\ Numeral!Value(Numeral!Reverse(s), b) = Numeral!Abs(n)
  /\ s[Len(s)] = 0 => n = 0
  /\ n = 0 => Len(s) = 1

LEMMA DigitsBefore ==
  ASSUME NEW b \in Nat, b > 1, NEW n \in Numeral!I32, NEW s,
         Numeral!Quot(n, b) # 0 =>
           DigitsRight(Numeral!Quot(n, b), b, s)
  PROVE  DigitsRight(n, b, <<Numeral!Abs(Numeral!Rem(n, b))>> \o
                             IF Numeral!Quot(n, b) = 0 THEN <<>> ELSE s)
<1>. DEFINE q == Numeral!Quot(n, b)
            d == Numeral!Abs(Numeral!Rem(n, b))
            t == IF q = 0 THEN <<>> ELSE s
            u == <<d>> \o t
            X == 0..(b - 1)
<1>1. /\ d \in X /\ X \subseteq Nat /\ n \in Int /\ (n = 0 => q = 0)
      /\ Numeral!Abs(n) = Numeral!Abs(q) * b + d
  BY QuotIs, I32Is
<1>. HIDE DEF d
<1>2. q = 0 => Numeral!Abs(q) = 0
  BY DEF Numeral!Abs
<1>3. t \in Seq(X) /\ Numeral!Value(Numeral!Reverse(t), b) = Numeral!Abs(q)
  <2>1. CASE q = 0
    <3>1. t = <<>> /\ <<>> \in Seq(X)
      BY <2>1
    <3>. HIDE DEF t, q
    <3>. QED
      BY <1>2, <2>1, <3>1, ReverseEmpty, ValueEmpty
  <2>2. CASE q # 0
    BY <2>2 DEF DigitsRight
  <2>. QED
    BY <2>1, <2>2
<1>4. (q = 0 => Len(t) = 0) /\ (q # 0 => Len(t) > 0 /\ t[Len(t)] # 0)
  BY DEF DigitsRight
<1>. HIDE DEF t, q, X
<1>5. /\ Len(t) \in Nat /\ u \in Seq(X) /\ Len(u) = Len(t) + 1 /\ u[1] = d
      /\ \A i \in 1..Len(t) : u[i + 1] = t[i]
  BY <1>1, <1>3, LenProperties
<1>6. Numeral!Reverse(u) = Append(Numeral!Reverse(t), d)
  BY <1>1, <1>3, ReverseFront
<1>. HIDE DEF u
<1>7. Numeral!Value(Numeral!Reverse(u), b) = Numeral!Abs(n)
  <2>1. Numeral!Reverse(t) \in Seq(X)
    BY <1>3, ReverseIs
  <2>2. Numeral!Reverse(t) \in Seq(Nat) /\ d \in Nat
    BY <1>1, <2>1, SeqMonotonic
  <2>. QED
    BY <1>1, <1>3, <1>6, <2>2, ValueAppend
<1>8. ASSUME u[Len(u)] = 0 PROVE n = 0
  <2>1. CASE q = 0
    <3>1. d = 0
      BY <1>4, <1>5, <1>8, <2>1
    <3>2. Numeral!Abs(n) = 0
      BY <1>1, <1>2, <2>1, <3>1
    <3>. QED
      BY <1>1, <3>2 DEF Numeral!Abs
  <2>2. CASE q # 0
    <3>1. Len(t) \in 1..Len(t)
      BY <1>4, <1>5, <2>2
    <3>. QED
      BY <1>4, <1>5, <1>8, <2>2, <3>1
  <2>. QED
    BY <2>1, <2>2
<1>9. Len(u) > 0 /\ (n = 0 => Len(u) = 1)
  BY <1>1, <1>4, <1>5
<1>10. DigitsRight(n, b, u)
  BY <1>5, <1>7, <1>8, <1>9 DEF DigitsRight, X
<1>. QED
  BY <1>10 DEF u, t, d, q

LEMMA DigitsAreRight ==
  ASSUME NEW b \in Nat, b > 1
  PROVE  \A n \in Numeral!I32 : DigitsRight(n, b, Numeral!Digits(n, b))
<1>. DEFINE M == Numeral!INT_MAX + 1
            Right(n) == DigitsRight(n, b, Numeral!Digits(n, b))
            S == {k \in 0..M : \A n \in Numeral!I32 : Numeral!Abs(n) <= k => Right(n)}
<1>1. M \in Nat
  BY WordHalves
<1>2. ASSUME NEW n \in Numeral!I32, Numeral!Quot(n, b) # 0 => Right(Numeral!Quot(n, b))
      PROVE  Right(n)
  BY <1>2, DigitsBefore, DigitsRecur
<1>3. \A n \in Numeral!I32 :
        /\ n \in Int /\ Numeral!Quot(n, b) \in Numeral!I32
        /\ Numeral!Abs(Numeral!Quot(n, b)) \in 0..M /\ Numeral!Abs(n) \in 0..M
        /\ n # 0 => Numeral!Abs(Numeral!Quot(n, b)) < Numeral!Abs(n)
        /\ n = 0 => Numeral!Quot(n, b) = 0
        /\ Numeral!Abs(n) = 0 => n = 0
  <2>. SUFFICES ASSUME NEW n \in Numeral!I32
                PROVE  /\ n \in Int /\ Numeral!Quot(n, b) \in Numeral!I32
                       /\ Numeral!Abs(Numeral!Quot(n, b)) \in 0..M /\ Numeral!Abs(n) \in 0..M
                       /\ n # 0 => Numeral!Abs(Numeral!Quot(n, b)) < Numeral!Abs(n)
                       /\ n = 0 => Numeral!Quot(n, b) = 0
                       /\ Numeral!Abs(n) = 0 => n = 0
    OBVIOUS
  <2>1. Numeral!Quot(n, b) \in Numeral!I32 /\ n \in Int
    BY QuotIs, I32Is
  <2>2. Numeral!Abs(n) = 0 => n = 0
    BY <2>1 DEF Numeral!Abs
  <2>. QED
    BY <2>1, <2>2, QuotIs
<1>. HIDE DEF Right, M
<1>4. 0 \in S
  <2>1. ASSUME NEW n \in Numeral!I32, Numeral!Abs(n) <= 0 PROVE Right(n)
    BY <1>1, <1>2, <1>3, <2>1
  <2>. QED
    BY <1>1, <2>1
<1>5. ASSUME NEW k \in 1..M, k - 1 \in S PROVE k \in S
  <2>1. ASSUME NEW n \in Numeral!I32, Numeral!Abs(n) <= k PROVE Right(n)
    <3>1. Numeral!Quot(n, b) # 0 => Numeral!Abs(Numeral!Quot(n, b)) <= k - 1
      BY <1>1, <1>3, <2>1
    <3>. QED
      BY <1>2, <1>3, <1>5, <3>1
  <2>2. k \in 0..M
    BY <1>1
  <2>. QED
    BY <2>1, <2>2
<1>6. \A k \in 0..M : k \in S
  <2>. HIDE DEF S
  <2>. QED
    BY <1>1, <1>4, <1>5, UpTo
<1>7. ASSUME NEW n \in Numeral!I32 PROVE Right(n)
  <2>1. M \in S /\ Numeral!Abs(n) <= M
    BY <1>1, <1>3, <1>6
  <2>. QED
    BY <2>1
<1>. QED
  BY <1>7 DEF Right

LEMMA ReverseBack ==
  ASSUME NEW X, NEW t \in Seq(X), NEW d \in X
  PROVE  Numeral!Reverse(t \o <<d>>) = <<d>> \o Numeral!Reverse(t)
<1>. DEFINE s == t \o <<d>>  n == Len(t)  r == Numeral!Reverse(t)  u == <<d>> \o r
            v == Numeral!Reverse(s)
<1>1. /\ n \in Nat /\ s \in Seq(X) /\ Len(s) = n + 1 /\ s[n + 1] = d
      /\ \A i \in 1..n : s[i] = t[i]
  BY LenProperties
<1>2. r \in Seq(X) /\ Len(r) = n /\ \A i \in 1..n : r[i] = t[n - i + 1]
  BY ReverseIs
<1>. HIDE DEF s, r
<1>3. v \in Seq(X) /\ Len(v) = n + 1 /\ \A i \in 1..(n + 1) : v[i] = s[n + 1 - i + 1]
  BY <1>1, ReverseIs
<1>4. /\ u \in Seq(X) /\ Len(u) = n + 1 /\ u[1] = d
      /\ \A i \in 1..n : u[i + 1] = r[i]
  BY <1>1, <1>2
<1>. HIDE DEF u, v
<1>5. ASSUME NEW i \in 1..(n + 1) PROVE v[i] = u[i]
  <2>1. CASE i = 1
    <3>1. v[1] = s[n + 1]
      BY <1>1, <1>3
    <3>. QED
      BY <1>1, <1>4, <2>1, <3>1
  <2>2. CASE i # 1
    <3>. DEFINE j == i - 1
    <3>1. j \in 1..n /\ i = j + 1 /\ n + 1 - i + 1 = n - j + 1 /\ n - j + 1 \in 1..n
      BY <1>1, <2>2
    <3>2. v[i] = s[n - j + 1] /\ s[n - j + 1] = t[n - j + 1]
      BY <1>1, <1>3, <3>1
    <3>. HIDE DEF j
    <3>3. u[i] = r[j] /\ r[j] = t[n - j + 1]
      BY <1>2, <1>4, <3>1
    <3>. QED
      BY <3>2, <3>3
  <2>. QED
    BY <2>1, <2>2
<1>6. v = u
  BY <1>1, <1>3, <1>4, <1>5
<1>. QED
  BY <1>6 DEF s, r, u, v

\* What a numeral says of a number, without its sign.
Shows(r, n, b) ==
  /\ r \in Seq(0..(b - 1)) /\ Numeral!Shortest(r) /\ Numeral!Value(r, b) = Numeral!Abs(n)

LEMMA DigitsShow ==
  ASSUME NEW b \in Nat, b > 1, NEW n \in Numeral!I32
  PROVE  Shows(Numeral!Reverse(Numeral!Digits(n, b)), n, b)
<1>. DEFINE s == Numeral!Digits(n, b)  r == Numeral!Reverse(s)  X == 0..(b - 1)
<1>1. DigitsRight(n, b, s)
  BY DigitsAreRight
<1>. HIDE DEF s, X
<1>2. s \in Seq(X) /\ Len(s) > 0 /\ (s[Len(s)] = 0 => Len(s) = 1) /\ Len(s) \in Nat
  BY <1>1, LenProperties DEF DigitsRight, X
<1>3. r \in Seq(X) /\ Len(r) = Len(s) /\ r[1] = s[Len(s)]
  <2>1. 1 \in 1..Len(s) /\ Len(s) - 1 + 1 = Len(s)
    BY <1>2
  <2>. QED
    BY <1>2, <2>1, ReverseIs
<1>4. Numeral!Shortest(r)
  BY <1>2, <1>3 DEF Numeral!Shortest
<1>. HIDE DEF r
<1>5. Shows(r, n, b)
  <2>1. Numeral!Value(r, b) = Numeral!Abs(n)
    BY <1>1, SMTT(30) DEF DigitsRight, r
  <2>. QED
    BY <1>3, <1>4, <2>1, SMTT(30) DEF Shows, X
<1>. QED
  BY <1>5 DEF r, s

\* With its sign.
LEMMA SignedReads ==
  ASSUME NEW b \in Nat, b <= 36, NEW n \in Int, NEW signed \in BOOLEAN, NEW r, NEW s,
         Shows(r, n, b), s = IF n < 0 /\ signed THEN <<Numeral!MINUS>> \o r ELSE r
  PROVE  Numeral!Reads(s, n, b, signed)
<1>1. /\ r \in Seq(0..(b - 1)) /\ Len(r) \in Nat /\ Len(r) > 0 /\ r # <<>>
      /\ \A i \in 1..Len(r) : r[i] \in 0..(b - 1)
      /\ DOMAIN r = 1..Len(r)
  BY ElementOfSeq, LenProperties, SMTT(30) DEF Shows, Numeral!Shortest
<1>2. Numeral!Unsigned(s) = r /\ (s # r <=> n < 0 /\ signed)
  <2>1. CASE n < 0 /\ signed
    <3>. DEFINE c == Numeral!MINUS
                t == <<c>> \o r
    <3>1. r \in Seq(Int) /\ c \in Int
      BY <1>1, SeqMonotonic DEF Numeral!MINUS
    <3>. HIDE DEF c
    <3>2. t[1] = c
      BY <3>1
    <3>6. Tail(t) = r
      BY <3>1, SMTT(30)
    <3>5. Len(t) = Len(r) + 1
      BY <3>1
    <3>3. s = t
      BY <2>1 DEF c
    <3>. HIDE DEF t
    <3>4. s # r
      <4>1. Len(s) = Len(r) + 1 /\ Len(r) \in Nat
        BY <1>1, <3>3, <3>5
      <4>. QED
        BY <4>1
    <3>7. s # <<>>
      BY <1>1, <3>3, <3>5
    <3>. QED
      BY <2>1, <3>2, <3>3, <3>4, <3>6, <3>7 DEF Numeral!Unsigned, c
  <2>2. CASE ~(n < 0 /\ signed)
    <3>1. s = r
      BY <2>2
    <3>2. r[1] # Numeral!MINUS
      BY <1>1 DEF Numeral!MINUS
    <3>. QED
      BY <2>2, <3>1, <3>2 DEF Numeral!Unsigned
  <2>. QED
    BY <2>1, <2>2
<1>. QED
  BY <1>1, <1>2 DEF Numeral!Reads, Shows

\* itoa and format_i32_base.
LEMMA PrintsSigned ==
  ASSUME NEW n \in Numeral!I32, NEW b \in 0..255, Numeral!Supported(b)
  PROVE  Numeral!Reads(Numeral!Sign(n, b) \o Numeral!Reverse(Numeral!Digits(n, b)),
                       n, b, b = 10)
<1>. DEFINE r == Numeral!Reverse(Numeral!Digits(n, b))
            s == Numeral!Sign(n, b) \o r
<1>1. b \in Nat /\ b > 1 /\ b <= 36 /\ n \in Int
  BY I32Is DEF Numeral!Supported
<1>2. Shows(r, n, b)
  BY <1>1, DigitsShow
<1>. HIDE DEF r
<1>3. s = IF n < 0 /\ b = 10 THEN <<Numeral!MINUS>> \o r ELSE r
  <2>1. <<>> \o r = r
    BY <1>2 DEF Shows
  <2>. QED
    BY <2>1 DEF Numeral!Sign
<1>4. (b = 10) \in BOOLEAN
  OBVIOUS
<1>. HIDE DEF s
<1>5. Numeral!Reads(s, n, b, b = 10)
  BY <1>1, <1>2, <1>3, <1>4, SignedReads
<1>. QED
  BY <1>5 DEF s, r

\* itob, which has no positive number for the smallest one.
LEMMA PrintsReversed ==
  ASSUME NEW n \in Numeral!I32, n > -Numeral!INT_MAX - 1, NEW b \in 0..255,
         Numeral!Supported(b)
  PROVE  Numeral!Reads(Numeral!itob(n, b), n, b, TRUE)
<1>. DEFINE m == IF n < 0 THEN Numeral!Wrapped(-n) ELSE n
            s == Numeral!Digits(m, b)
            r == Numeral!Reverse(s)
            tail == IF n < 0 THEN <<Numeral!MINUS>> ELSE <<>>
            written1 == IF m < 0 THEN <<Numeral!Rem(m, b)>> ELSE s
<1>1. /\ b \in Nat /\ b > 1 /\ b <= 36 /\ n \in Int /\ n <= Numeral!INT_MAX
      /\ Numeral!INT_MAX \in Nat
  BY I32Is, WordHalves DEF Numeral!Supported
<1>2. m \in Numeral!I32 /\ m >= 0 /\ Numeral!Abs(m) = Numeral!Abs(n)
  <2>1. n < 0 => -n \in Numeral!I32
    BY <1>1, I32Is
  <2>2. m = IF n < 0 THEN -n ELSE n
    BY <1>1, <2>1, WrappedIs
  <2>. HIDE DEF m
  <2>3. m >= 0 /\ Numeral!Abs(m) = Numeral!Abs(n)
    BY <1>1, <2>2 DEF Numeral!Abs
  <2>. QED
    BY <2>1, <2>2, <2>3
<1>3. Numeral!itob(n, b) = Numeral!Reverse(written1 \o tail)
  BY DEF Numeral!itob, Numeral!reverse
<1>. HIDE DEF m
<1>4. m \in Int /\ ~(m < 0)
  BY <1>2, I32Is
<1>5. Shows(r, n, b)
  <2>1. Shows(r, m, b)
    BY <1>1, <1>2, DigitsShow
  <2>. HIDE DEF r
  <2>. QED
    BY <1>2, <2>1 DEF Shows
<1>6. s \in Seq(0..36)
  <2>1. s \in Seq(0..(b - 1))
    BY <1>1, <1>2, DigitsAreRight DEF DigitsRight
  <2>2. 0..(b - 1) \subseteq 0..36
    BY <1>1
  <2>. QED
    BY <2>1, <2>2, SeqMonotonic
<1>7. Numeral!itob(n, b) = IF n < 0 /\ TRUE THEN <<Numeral!MINUS>> \o r ELSE r
  <2>1. Numeral!itob(n, b) = Numeral!Reverse(s \o tail)
    BY <1>3, <1>4
  <2>2. Numeral!MINUS \in 0..36
    BY DEF Numeral!MINUS
  <2>. HIDE DEF s
  <2>3. Numeral!Reverse(s \o <<Numeral!MINUS>>) = <<Numeral!MINUS>> \o r
    BY <1>6, <2>2, ReverseBack
  <2>4. s \o <<>> = s
    BY <1>6
  <2>. QED
    BY <2>1, <2>3, <2>4
<1>. HIDE DEF r
<1>. QED
  BY <1>1, <1>5, <1>7, SignedReads

-----------------------------------------------------------------------------
(* How many digits a number has.                                           *)
Counts(f) == f = [m \in Numeral!I32 |-> IF m > 0 THEN 1 + f[m \div 10] ELSE 0]

\* Of a number from 0 on, a tenth is a number.
LEMMA Tenth ==
  ASSUME NEW n \in Numeral!I32, n > 0
  PROVE  n \div 10 \in Numeral!I32 /\ n \div 10 >= 0 /\ n \div 10 < n
<1>1. n \in Int /\ n <= Numeral!INT_MAX /\ Numeral!INT_MAX \in Nat
  BY I32Is, WordHalves
<1>2. n \div 10 \in Int /\ n \div 10 >= 0 /\ n \div 10 < n
  BY <1>1
<1>. QED
  BY <1>1, <1>2, I32Is

LEMMA CountsExist == \E f \in [Numeral!I32 -> Nat] : Counts(f)
<1>. DEFINE A == Numeral!I32
            M == Numeral!INT_MAX
            Q(x) == IF x > 0 THEN x \div 10 ELSE x
            B == {x \in A : ~(x > 0)}
            m == [x \in A |-> IF x > 0 THEN x ELSE 0]
            next == [x \in A |-> Q(x)]
            first == [x \in A |-> 0]
            op == [p \in A \X Nat |-> 1 + p[2]]
<1>1. \A x \in A : /\ Q(x) \in A /\ x \in Int /\ x <= M
                   /\ x > 0 => Q(x) < x /\ Q(x) >= 0
  BY Tenth, I32Is
<1>2. M \in Nat
  BY WordHalves
<1>. HIDE DEF A, M
<1>3. m \in [A -> 0..M] /\ next \in [A -> A]
  BY <1>1, <1>2
<1>4. ASSUME NEW x \in A, x \notin B PROVE m[next[x]] < m[x]
  <2>1. x > 0 /\ Q(x) \in A /\ Q(x) < x /\ x \in Int /\ Q(x) \in Int
    BY <1>1, <1>4
  <2>. HIDE DEF Q
  <2>. QED
    BY <2>1
<1>5. first \in [A -> Nat]
  OBVIOUS
<1>6. op \in [A \X Nat -> Nat]
  OBVIOUS
<1>7. PICK f \in [A -> Nat] : Descends(A, B, first, next, op, f)
  <2>. HIDE DEF B, m, next, first, op
  <2>. QED
    BY ZenonT(60), <1>2, <1>3, <1>4, <1>5, <1>6, DescentExists
<1>8. ASSUME NEW x \in A
      PROVE  f[x] = IF x > 0 THEN 1 + f[x \div 10] ELSE 0
  <2>1. f[x] = IF x \in B THEN first[x] ELSE op[<<x, f[next[x]]>>]
    BY <1>7 DEF Descends
  <2>2. CASE x > 0
    <3>1. next[x] = x \div 10 /\ x \div 10 \in A /\ f[x \div 10] \in Nat
      BY <1>1, <1>7, <2>2
    <3>2. op[<<x, f[x \div 10]>>] = 1 + f[x \div 10]
      BY <3>1
    <3>. QED
      BY <2>1, <2>2, <3>1, <3>2
  <2>3. CASE ~(x > 0)
    BY <2>1, <2>3
  <2>. QED
    BY <2>2, <2>3
<1>9. f = [x \in A |-> IF x > 0 THEN 1 + f[x \div 10] ELSE 0]
  BY <1>7, <1>8
<1>. QED
  BY <1>7, <1>9 DEF Counts, A

\* digit_count counts the digits that are printed.
LEMMA CountsDigits ==
  ASSUME NEW n \in Numeral!I32, n >= 0
  PROVE  Numeral!digit_count(n) = Len(Numeral!format_i32(n))
<1>. DEFINE g == CHOOSE f : Counts(f)
            b == 10
            M == Numeral!INT_MAX
            L(x) == Len(Numeral!Digits(x, b))
            S == {k \in 0..M : \A x \in Numeral!I32 : x > 0 /\ x <= k => g[x] = L(x)}
<1>0. M \in Nat /\ \A x \in Numeral!I32 : x \in Int /\ x <= M
  BY I32Is, WordHalves
<1>1. Counts(g)
  BY CountsExist
<1>2. Numeral!digit_count(n) = IF n = 0 THEN 1 ELSE g[n]
  BY DEF Numeral!digit_count, Counts
<1>. HIDE DEF g, M
<1>. HIDE DEF b
<1>12. b = 10 /\ b \in Nat /\ b > 1
  BY DEF b
<1>3. ASSUME NEW x \in Numeral!I32 PROVE L(x) \in Nat /\ (x = 0 => L(x) = 1)
  <2>1. DigitsRight(x, b, Numeral!Digits(x, b))
    BY <1>12, DigitsAreRight
  <2>. QED
    BY <2>1, LenProperties DEF DigitsRight
<1>4. ASSUME NEW x \in Numeral!I32, x > 0
      PROVE  L(x) = IF x \div 10 = 0 THEN 1 ELSE 1 + L(x \div 10)
  <2>. DEFINE d == Numeral!Abs(Numeral!Rem(x, b))
              t == Numeral!Digits(x \div 10, b)
  <2>1. Numeral!Quot(x, b) = x \div 10
    BY <1>0, <1>4, <1>12 DEF Numeral!Quot
  <2>2. Numeral!Digits(x, b) = <<d>> \o (IF x \div 10 = 0 THEN <<>> ELSE t)
    BY <1>12, <2>1, DigitsRecur
  <2>. DEFINE X == 0..(b - 1)
  <2>3. d \in X
    BY <1>12, QuotIs
  <2>4. t \in Seq(X)
    BY <1>4, <1>12, Tenth, DigitsAreRight DEF DigitsRight
  <2>. HIDE DEF d, t, X
  <2>5. Len(<<d>> \o <<>>) = 1 /\ Len(<<d>> \o t) = 1 + Len(t)
    BY <2>3, <2>4
  <2>. QED
    BY <2>2, <2>5 DEF t
<1>5. ASSUME NEW x \in Numeral!I32, x > 0 PROVE g[x] = 1 + g[x \div 10]
  BY <1>1, <1>5 DEF Counts
<1>6. g[0] = 0
  <2>1. 0 \in Numeral!I32
    BY I32Is, WordHalves
  <2>. QED
    BY <1>1, <2>1 DEF Counts
<1>. HIDE DEF L
<1>7. 0 \in S
  BY <1>0
<1>8. ASSUME NEW k \in 1..M, k - 1 \in S PROVE k \in S
  <2>1. ASSUME NEW x \in Numeral!I32, x > 0, x <= k PROVE g[x] = L(x)
    <3>1. /\ x \in Int /\ x \div 10 \in Numeral!I32 /\ x \div 10 \in Int /\ x \div 10 >= 0
          /\ x \div 10 <= k - 1
      BY <1>0, <2>1, Tenth
    <3>2. x \div 10 > 0 => g[x \div 10] = L(x \div 10)
      BY <1>8, <3>1
    <3>. QED
      BY <1>4, <1>5, <1>6, <2>1, <3>1, <3>2
  <2>. QED
    BY <1>0, <2>1
<1>9. M \in S
  <2>. HIDE DEF S
  <2>1. \A k \in 0..M : k \in S
    BY <1>0, <1>7, <1>8, UpTo
  <2>. QED
    BY <1>0, <2>1
<1>10. Numeral!digit_count(n) = L(n)
  BY <1>0, <1>2, <1>3, <1>9
<1>11. Len(Numeral!format_i32(n)) = L(n)
  <2>. DEFINE s == Numeral!Digits(n, b)
  <2>. DEFINE X == 0..(b - 1)
  <2>1. s \in Seq(X)
    BY <1>12, DigitsAreRight DEF DigitsRight
  <2>2. Numeral!Sign(n, b) = <<>> /\ Numeral!Supported(b)
    BY <1>0, <1>12 DEF Numeral!Sign, Numeral!Supported
  <2>3. Numeral!format_i32(n) = <<>> \o Numeral!Reverse(s)
    BY <1>12, <2>2 DEF Numeral!format_i32, Numeral!format_i32_base
  <2>. HIDE DEF s, X
  <2>4. Numeral!Reverse(s) \in Seq(X) /\ Len(Numeral!Reverse(s)) = Len(s)
    BY <2>1, ReverseIs
  <2>. DEFINE r == Numeral!Reverse(s)
  <2>. HIDE DEF r
  <2>5. <<>> \o r = r
    BY <2>4 DEF r
  <2>. QED
    BY <2>3, <2>4, <2>5 DEF L, s, r
<1>. QED
  BY <1>10, <1>11

(* What format_h32 prints of n.                                            *)
Nibble(n, k) == (n \div Numeral!Power[NIBBLES - k]) % 16
HexNext(n, noZeroes, t, k) ==
  IF noZeroes /\ t = <<>> /\ Nibble(n, k) = 0 THEN t ELSE Append(t, Nibble(n, k))
HexPlaces == [k \in 1..(NIBBLES - 1) |-> k]

Hexes(n, noZeroes, D, f) ==
  f = [t \in SUBSET D |->
         IF t = {} THEN <<>>
         ELSE HexNext(n, noZeroes, f[t \ {Numeral!Max(t)}], HexPlaces[Numeral!Max(t)])]

LEMMA HexIsFold ==
  ASSUME NEW n, NEW noZeroes
  PROVE  Numeral!HexFront(n, noZeroes) =
           (CHOOSE f : Hexes(n, noZeroes, DOMAIN HexPlaces, f))[DOMAIN HexPlaces]
BY DEF Numeral!HexFront, Numeral!FoldLeft, Numeral!MapThenFoldSet, Hexes, HexNext, HexPlaces,
       Nibble

LEMMA NibblesAreNumbers == \A t \in Seq(0..15) : t \in Seq(Nat) /\ t \in Seq(Int)
<1>1. 0..15 \subseteq Nat /\ 0..15 \subseteq Int
  OBVIOUS
<1>. QED
  BY <1>1, SeqMonotonic

LEMMA NibbleIs ==
  ASSUME NEW n \in Nat, NEW k \in 0..NIBBLES
  PROVE  /\ n \div Numeral!Power[NIBBLES - k] \in Nat /\ Nibble(n, k) \in 0..15
<1>. DEFINE p == Numeral!Power[NIBBLES - k]
<1>1. p \in Nat /\ p > 0
  <2>1. NIBBLES - k \in 0..NIBBLES
    BY FormatAssumption
  <2>. QED
    BY <2>1, PowerIs, PowerIsPositive
<1>. HIDE DEF p
<1>2. n \div p \in Nat
  BY <1>1
<1>3. (n \div p) % 16 \in 0..15
  BY <1>2
<1>. QED
  BY <1>2, <1>3 DEF Nibble, p

\* To divide twice is to divide by the product.
LEMMA DivideTwice ==
  ASSUME NEW n \in Nat, NEW p \in Nat, p > 0
  PROVE  n \div (16 * p) = (n \div p) \div 16
<1>. DEFINE q == n \div p  s == n % p  c == q \div 16  r == q % 16
<1>1. q \in Nat /\ s \in 0..(p - 1) /\ n = q * p + s
  OBVIOUS
<1>. HIDE DEF q, s
<1>2. c \in Nat /\ r \in 0..15 /\ q = 16 * c + r
  BY <1>1
<1>. HIDE DEF c, r
<1>. DEFINE x == c * p  y == r * p
<1>3. x \in Nat /\ y \in Nat /\ y <= 15 * p
  BY <1>2, MultiplyMonotone
<1>4. q * p = 16 * x + y
  BY <1>1, <1>2
<1>5. c * (16 * p) = 16 * x /\ (c + 1) * (16 * p) = 16 * x + 16 * p
  BY <1>2
<1>. HIDE DEF x, y
<1>6. c * (16 * p) <= n /\ n < (c + 1) * (16 * p)
  <2>. DEFINE z == q * p
  <2>1. z = 16 * x + y /\ n = z + s
    BY <1>1, <1>4
  <2>. HIDE DEF z
  <2>2. 16 * x <= n /\ n < 16 * x + 16 * p
    BY <1>1, <1>3, <2>1
  <2>. QED
    BY <1>5, <2>2
<1>. DEFINE w == 16 * p
<1>7. w \in Nat
  OBVIOUS
<1>8. c * w <= n /\ n < (c + 1) * w
  BY <1>6
<1>. HIDE DEF w
<1>9. n \div w = c
  BY <1>2, <1>7, <1>8, Quotient
<1>. QED
  BY <1>9 DEF w, c, q

\* One nibble more.
LEMMA NibblesNest ==
  ASSUME NEW n \in Nat, NEW k \in 1..NIBBLES
  PROVE  n \div Numeral!Power[NIBBLES - k] =
           (n \div Numeral!Power[NIBBLES - (k - 1)]) * 16 + Nibble(n, k)
<1>. DEFINE p == Numeral!Power[NIBBLES - k]
            v == n \div p
<1>1. p \in Nat /\ p > 0 /\ Numeral!Power[NIBBLES - (k - 1)] = 16 * p
  <2>1. NIBBLES - k \in 0..NIBBLES /\ NIBBLES - (k - 1) \in 1..NIBBLES
        /\ (NIBBLES - (k - 1)) - 1 = NIBBLES - k
    BY FormatAssumption
  <2>2. Numeral!Power[NIBBLES - (k - 1)] = 16 * Numeral!Power[(NIBBLES - (k - 1)) - 1]
    BY <2>1, PowerIs
  <2>. QED
    BY <2>1, <2>2, PowerIs, PowerIsPositive
<1>2. Nibble(n, k) = v % 16
  BY DEF Nibble
<1>. HIDE DEF p
<1>3. n \div (16 * p) = v \div 16 /\ v \in Nat
  <2>1. v \in Nat
    BY <1>1
  <2>2. n \div (16 * p) = v \div 16
    BY <1>1, DivideTwice
  <2>. QED
    BY <2>1, <2>2
<1>. HIDE DEF v
<1>4. v = (v \div 16) * 16 + (v % 16)
  BY <1>3
<1>5. v = (n \div Numeral!Power[NIBBLES - (k - 1)]) * 16 + Nibble(n, k)
  BY <1>1, <1>2, <1>3, <1>4
<1>. QED
  BY <1>5 DEF v, p

HexStep(n, noZeroes) ==
  [p \in Seq(0..15) \X (1..(NIBBLES - 1)) |-> HexNext(n, noZeroes, p[1], p[2])]

\* The nibbles before the last, one by one.
LEMMA HexRolls ==
  ASSUME NEW n \in Nat, NEW noZeroes \in BOOLEAN
  PROVE  \E f : /\ f[0] = <<>> /\ Numeral!HexFront(n, noZeroes) = f[NIBBLES - 1]
                /\ \A k \in 1..(NIBBLES - 1) : f[k] = HexNext(n, noZeroes, f[k - 1], k)
<1>. DEFINE m == NIBBLES - 1
            s == HexPlaces
            X == 1..m
            D == Seq(0..15)
            op == HexStep(n, noZeroes)
            Step(t, k) == HexNext(n, noZeroes, t, k)
            g == CHOOSE f : Hexes(n, noZeroes, X, f)
<1>0. m \in Nat
  BY FormatAssumption
<1>1. s \in Seq(X) /\ Len(s) = m /\ DOMAIN s = X /\ \A k \in X : s[k] = k
  BY <1>0 DEF HexPlaces
<1>2. op \in [D \X X -> D] /\ \A t \in D : \A k \in X : op[<<t, k>>] = Step(t, k)
  <2>1. ASSUME NEW t \in D, NEW k \in X PROVE Step(t, k) \in D
    <3>1. Nibble(n, k) \in 0..15
      BY <1>0, FormatAssumption, NibbleIs, SMTT(30)
    <3>2. Append(t, Nibble(n, k)) \in D
      BY <3>1
    <3>. QED
      BY <3>2 DEF HexNext
  <2>2. op = [p \in D \X X |-> Step(p[1], p[2])]
    BY DEF HexStep
  <2>3. \A p \in D \X X : p[1] \in D /\ p[2] \in X
    OBVIOUS
  <2>. HIDE DEF op, Step, D, X
  <2>. QED
    BY <2>1, <2>2, <2>3
<1>. HIDE DEF op, D, s
<1>3. <<>> \in D
  BY DEF D
<1>4. PICK h : FoldsOver(op, <<>>, s, m, h) /\ \A t \in SUBSET X : h[t] \in D
  <2>1. m \in 0..Len(s)
    BY <1>0, <1>1
  <2>. DEFINE e == <<>>
  <2>. HIDE DEF e
  <2>2. e \in D
    BY <1>3 DEF e
  <2>3. \A i \in 0..Len(s) : \E f : FoldsOver(op, e, s, i, f) /\ \A t \in SUBSET (1..i) : f[t] \in D
    <3>. HIDE DEF X
    <3>. QED
      BY <1>1, <1>2, <2>2, FoldExists, ZenonT(60)
  <2>. QED
    BY <2>1, <2>3 DEF e
<1>5. ASSUME NEW t \in SUBSET X, t # {}
      PROVE  /\ Numeral!Max(t) \in X /\ t \ {Numeral!Max(t)} \in SUBSET X
             /\ s[Numeral!Max(t)] = Numeral!Max(t)
  BY <1>0, <1>1, <1>5, GreatestOfPositions, FormatMaxIsGreatest
<1>6. Hexes(n, noZeroes, X, h)
  <2>1. ASSUME NEW t \in SUBSET X, t # {}
        PROVE  op[<<h[t \ {Numeral!Max(t)}], s[Numeral!Max(t)]>>]
                 = Step(h[t \ {Numeral!Max(t)}], s[Numeral!Max(t)])
    <3>. HIDE DEF Step, X
    <3>. QED
      BY <1>2, <1>4, <1>5, <2>1
  <2>2. h = [t \in SUBSET X |->
               IF t = {} THEN <<>> ELSE op[<<h[t \ {Numeral!Max(t)}], s[Numeral!Max(t)]>>]]
    BY <1>4, FormatMaxIsGreatest DEF FoldsOver
  <2>3. h = [t \in SUBSET X |->
               IF t = {} THEN <<>> ELSE Step(h[t \ {Numeral!Max(t)}], s[Numeral!Max(t)])]
    <3>. HIDE DEF Step, X
    <3>. QED
      BY <2>1, <2>2
  <2>. QED
    BY <2>3 DEF Hexes, s
<1>7. Hexes(n, noZeroes, X, g)
  BY <1>6
<1>. HIDE DEF g
<1>8. Numeral!HexFront(n, noZeroes) = g[1..m]
  BY <1>1, HexIsFold DEF g, s
<1>. DEFINE f == [k \in 0..m |-> g[1..k]]
<1>9. g[{}] = <<>> /\ 1..0 = {}
  BY <1>7 DEF Hexes
<1>10. f[0] = <<>> /\ f[m] = g[1..m]
  BY <1>0, <1>9
<1>11. ASSUME NEW k \in X PROVE f[k] = Step(f[k - 1], k)
  <2>1. /\ 1..k \in SUBSET X /\ 1..k # {}
        /\ Greatest(1..k) = k /\ (1..k) \ {k} = 1..(k - 1)
    BY <1>0, GreatestOfFirst
  <2>2. g[1..k] = Step(g[(1..k) \ {Numeral!Max(1..k)}], s[Numeral!Max(1..k)])
    BY <1>7, <2>1 DEF Hexes, s
  <2>3. k \in 0..m /\ k - 1 \in 0..m
    BY <1>0
  <2>4. s[k] = k
    BY <1>1
  <2>. HIDE DEF Step
  <2>. QED
    BY <2>1, <2>2, <2>3, <2>4, FormatMaxIsGreatest
<1>. HIDE DEF f
<1>. QED
  BY <1>8, <1>10, <1>11

\* What was printed of the nibbles before place k.
HexRight(n, noZeroes, t, k) ==
  /\ t \in Seq(0..15)
  /\ Numeral!Value(t, 16) = n \div Numeral!Power[NIBBLES - k]
  /\ noZeroes => t = <<>> \/ t[1] # 0
  /\ ~noZeroes => Len(t) = k

LEMMA HexStarts ==
  ASSUME NEW n \in 0..(Numeral!U32 - 1), NEW noZeroes \in BOOLEAN
  PROVE  HexRight(n, noZeroes, <<>>, 0)
<1>1. NIBBLES - 0 = NIBBLES /\ Numeral!U32 \in Nat /\ Numeral!U32 > 0
  BY FormatAssumption, WordHalves
<1>. DEFINE p == Numeral!U32
<1>2. n \div p = 0
  <2>. HIDE DEF p
  <2>1. p \in Nat /\ n \in Int /\ 0 * p <= n /\ n < (0 + 1) * p
    BY <1>1 DEF p
  <2>. QED
    BY <2>1, Quotient
<1>3. n \div Numeral!Power[NIBBLES - 0] = 0
  BY <1>1, <1>2 DEF Numeral!U32
<1>. DEFINE e == <<>>
<1>4. e \in Seq(0..15) /\ Len(e) = 0 /\ Numeral!Value(e, 16) = 0
  BY ValueEmpty
<1>. HIDE DEF e
<1>5. HexRight(n, noZeroes, e, 0)
  BY <1>3, <1>4 DEF HexRight, e
<1>. QED
  BY <1>5 DEF e

LEMMA HexGoesOn ==
  ASSUME NEW n \in Nat, NEW noZeroes \in BOOLEAN, NEW t, NEW k \in 1..NIBBLES,
         HexRight(n, noZeroes, t, k - 1)
  PROVE  HexRight(n, noZeroes, HexNext(n, noZeroes, t, k), k)
<1>. DEFINE d == Nibble(n, k)
            v == n \div Numeral!Power[NIBBLES - k]
            w == n \div Numeral!Power[NIBBLES - (k - 1)]
            u == HexNext(n, noZeroes, t, k)
<1>1. d \in 0..15 /\ v = w * 16 + d /\ w \in Nat
  <2>1. k \in 0..NIBBLES /\ k - 1 \in 0..NIBBLES
    BY FormatAssumption
  <2>. QED
    BY <2>1, NibbleIs, NibblesNest
<1>2. /\ t \in Seq(0..15) /\ Numeral!Value(t, 16) = w
      /\ noZeroes => t = <<>> \/ t[1] # 0
      /\ ~noZeroes => Len(t) = k - 1
  BY DEF HexRight
<1>3. u = IF noZeroes /\ t = <<>> /\ d = 0 THEN t ELSE Append(t, d)
  BY DEF HexNext
<1>. HIDE DEF d, v, w, u
<1>4. CASE noZeroes /\ t = <<>> /\ d = 0
  <2>1. w = 0
    BY <1>2, <1>4, ValueEmpty
  <2>2. Numeral!Value(u, 16) = v /\ u = t
    BY <1>1, <1>2, <1>3, <1>4, <2>1
  <2>3. HexRight(n, noZeroes, u, k)
    BY <1>2, <1>4, <2>2 DEF HexRight, v
  <2>. QED
    BY <2>3 DEF u
<1>5. CASE ~(noZeroes /\ t = <<>> /\ d = 0)
  <2>1. u = Append(t, d)
    BY <1>3, <1>5
  <2>2. Numeral!Value(u, 16) = v
    <3>1. t \in Seq(Nat) /\ d \in Nat
      BY <1>1, <1>2, NibblesAreNumbers
    <3>. QED
      BY <1>1, <1>2, <2>1, <3>1, ValueAppend
  <2>3. u \in Seq(0..15) /\ Len(u) = Len(t) + 1 /\ Len(t) \in Nat
    BY <1>1, <1>2, <2>1, AppendProperties, LenProperties
  <2>4. ~noZeroes => Len(u) = k
    BY <1>2, <2>3
  <2>5. ASSUME noZeroes PROVE u[1] # 0
    <3>1. CASE t = <<>>
      <4>1. d # 0 /\ Len(t) = 0
        BY <1>5, <2>5, <3>1
      <4>2. u[1] = d
        BY <1>1, <1>2, <2>1, <4>1, AppendProperties
      <4>. QED
        BY <4>1, <4>2
    <3>2. CASE t # <<>>
      <4>1. Len(t) > 0
        BY <1>2, <3>2, EmptySeq
      <4>2. u[1] = t[1]
        BY <1>1, <1>2, <2>1, <2>3, <4>1, AppendProperties
      <4>. QED
        BY <1>2, <2>5, <3>2, <4>2
    <3>. QED
      BY <3>1, <3>2
  <2>6. HexRight(n, noZeroes, u, k)
    BY <2>2, <2>3, <2>4, <2>5 DEF HexRight, v
  <2>. QED
    BY <2>6 DEF u
<1>. QED
  BY <1>4, <1>5

LEMMA HexFrontIs ==
  ASSUME NEW n \in 0..(Numeral!U32 - 1), NEW noZeroes \in BOOLEAN
  PROVE  HexRight(n, noZeroes, Numeral!HexFront(n, noZeroes), NIBBLES - 1)
<1>. DEFINE m == NIBBLES - 1
<1>0. m \in Nat /\ n \in Nat
  BY FormatAssumption, WordHalves
<1>1. PICK f : /\ f[0] = <<>> /\ Numeral!HexFront(n, noZeroes) = f[m]
               /\ \A k \in 1..m : f[k] = HexNext(n, noZeroes, f[k - 1], k)
  BY <1>0, HexRolls
<1>. DEFINE S == {k \in 0..m : HexRight(n, noZeroes, f[k], k)}
<1>2. 0 \in S
  BY <1>0, <1>1, HexStarts
<1>3. ASSUME NEW k \in 1..m, k - 1 \in S PROVE k \in S
  <2>1. k \in 1..NIBBLES /\ k \in 0..m
    BY <1>0, FormatAssumption
  <2>. QED
    BY <1>0, <1>1, <1>3, <2>1, HexGoesOn
<1>. HIDE DEF S
<1>4. m \in S
  <2>. HIDE DEF m
  <2>1. \A k \in 0..m : k \in S
    BY <1>0, <1>2, <1>3, UpTo
  <2>. QED
    BY <1>0, <2>1
<1>. QED
  BY <1>1, <1>4 DEF S

\* The prefix, the nibbles, and nothing else.
LEMMA HexReads ==
  ASSUME NEW n \in 0..(Numeral!U32 - 1), NEW noZeroes \in BOOLEAN, NEW s,
         s = Numeral!format_h32(n, noZeroes)
  PROVE  /\ SubSeq(s, 1, 2) = <<0, 33>>
         /\ Numeral!Value(SubSeq(s, 3, Len(s)), 16) = n
         /\ noZeroes => Numeral!Shortest(SubSeq(s, 3, Len(s)))
         /\ ~noZeroes => Len(SubSeq(s, 3, Len(s))) = NIBBLES
<1>. DEFINE t == Numeral!HexFront(n, noZeroes)
            d == n % 16
            u == Append(t, d)
            v == n \div 16
<1>0. n \in Nat /\ NIBBLES \in Nat /\ NIBBLES > 0
  BY FormatAssumption, WordHalves
<1>1. d \in 0..15 /\ v \in Nat /\ n = v * 16 + d
  BY <1>0
<1>2. /\ t \in Seq(0..15) /\ Numeral!Value(t, 16) = v
      /\ noZeroes => t = <<>> \/ t[1] # 0
      /\ ~noZeroes => Len(t) = NIBBLES - 1
  <2>1. NIBBLES - (NIBBLES - 1) = 1 /\ Numeral!Power[1] = 16
    <3>1. 1 \in 1..NIBBLES /\ 1 - 1 = 0
      BY <1>0
    <3>2. Numeral!Power[1] = 16 * Numeral!Power[1 - 1]
      BY <3>1, PowerIs
    <3>. QED
      BY <1>0, <3>1, <3>2, PowerIs
  <2>2. HexRight(n, noZeroes, t, NIBBLES - 1)
    BY HexFrontIs
  <2>. QED
    BY <2>1, <2>2 DEF HexRight
<1>3. s = <<0, 33>> \o t \o <<d>>
  BY DEF Numeral!format_h32
<1>. HIDE DEF t, d, v
<1>4. /\ u \in Seq(0..15) /\ Len(t) \in Nat /\ Len(u) = Len(t) + 1
      /\ u[Len(t) + 1] = d /\ \A i \in 1..Len(t) : u[i] = t[i]
  BY <1>1, <1>2, AppendProperties, LenProperties
<1>5. SubSeq(s, 1, 2) = <<0, 33>> /\ SubSeq(s, 3, Len(s)) = u
  <2>1. /\ t \in Seq(Int) /\ d \in Int
    BY <1>1, <1>2, NibblesAreNumbers
  <2>2. /\ s \in Seq(Int) /\ Len(s) = Len(t) + 3 /\ s[1] = 0 /\ s[2] = 33
        /\ s[Len(t) + 3] = d /\ \A i \in 1..Len(t) : s[i + 2] = t[i]
    BY <1>3, <2>1
  <2>. DEFINE a == SubSeq(s, 1, 2)  b == SubSeq(s, 3, Len(s))
  <2>3. /\ a \in Seq(Int) /\ Len(a) = 2 /\ a[1] = s[1] /\ a[2] = s[2]
    BY <1>4, <2>2
  <2>4. /\ b \in Seq(Int) /\ Len(b) = Len(t) + 1
        /\ \A i \in 1..(Len(t) + 1) : b[i] = s[i + 2]
    BY <1>4, <2>2
  <2>. HIDE DEF a, b, u
  <2>5. a = <<0, 33>>
    BY <2>2, <2>3
  <2>6. ASSUME NEW i \in 1..(Len(t) + 1) PROVE b[i] = u[i]
    <3>1. CASE i = Len(t) + 1
      <4>1. i + 2 = Len(t) + 3
        BY <1>4, <3>1
      <4>. QED
        BY <1>4, <2>2, <2>4, <3>1, <4>1
    <3>2. CASE i # Len(t) + 1
      <4>1. i \in 1..Len(t)
        BY <1>4, <3>2
      <4>. QED
        BY <1>4, <2>2, <2>4, <4>1
    <3>. QED
      BY <3>1, <3>2
  <2>7. b = u
    <3>1. u \in Seq(Int)
      BY <1>4, NibblesAreNumbers
    <3>. QED
      BY <1>4, <2>4, <2>6, <3>1, SeqEqual
  <2>. QED
    BY <2>5, <2>7 DEF a, b
<1>6. Numeral!Value(u, 16) = n
  <2>1. t \in Seq(Nat) /\ d \in Nat
    BY <1>1, <1>2, NibblesAreNumbers
  <2>. QED
    BY <1>1, <1>2, <2>1, ValueAppend
<1>7. ASSUME noZeroes PROVE Numeral!Shortest(u)
  <2>1. CASE t = <<>>
    <3>1. Len(t) = 0
      BY <2>1
    <3>. HIDE DEF u
    <3>. QED
      BY <1>4, <3>1 DEF Numeral!Shortest
  <2>2. CASE t # <<>>
    <3>1. Len(t) > 0 /\ 1 \in 1..Len(t)
      BY <1>2, <1>4, <2>2, EmptySeq
    <3>. HIDE DEF u
    <3>2. u[1] # 0
      BY <1>2, <1>4, <1>7, <2>2, <3>1
    <3>. QED
      BY <1>4, <3>1, <3>2 DEF Numeral!Shortest
  <2>. QED
    BY <2>1, <2>2
<1>8. ~noZeroes => Len(u) = NIBBLES
  <2>. HIDE DEF u
  <2>. QED
    BY <1>0, <1>2, <1>4
<1>. QED
  BY <1>5, <1>6, <1>7, <1>8

\* The call is one of those, and what it wrote is right.
NumeralInv ==
  /\ request \in Numeral!Requests
  /\ request.f = "itob" => Numeral!Supported(request.b)
  /\ NumbersRight

\* The arguments of a call.
LEMMA AskedOf ==
  ASSUME NEW r \in Numeral!Requests
  PROVE  /\ r.f \in {"itoa", "itob", "format_i32_base"} =>
              r.n \in Numeral!I32 /\ r.b \in 0..255
         /\ r.f = "format_h32" => r.n \in 0..(Numeral!U32 - 1) /\ r.zeroes \in BOOLEAN
         /\ r.f = "digit_count" => r.n \in Numeral!I32
         /\ r.f = "oct2bin" => r.str \in Seq(Nat)
         /\ r.f \in {"itoa", "itob", "format_i32_base", "format_h32", "digit_count",
                     "oct2bin", "format"}
<1>. DEFINE A == [f : {"itoa", "itob", "format_i32_base"}, n : Numbers, b : Bases]
            H == {n % Numeral!U32 : n \in Numbers}
            B == [f : {"format_h32"}, n : H, zeroes : BOOLEAN]
            C == [f : {"digit_count"}, n : Numbers]
            O == UNION {[1..k -> {0, 1, 7}] : k \in 0..5}
            D == [f : {"oct2bin"}, str : O]
            P == UNION {[1..k -> DOMAIN Numeral!Pieces] : k \in 0..MaxPieces}
            E == [f : {"format"}, pieces : P]
<1>1. r \in A \/ r \in B \/ r \in C \/ r \in D \/ r \in E
  BY DEF Numeral!Requests
<1>. HIDE DEF H, O, P
<1>2. CASE r \in A
  <2>1. /\ r.f \in {"itoa", "itob", "format_i32_base"} /\ r.n \in Numbers /\ r.b \in Bases
    BY <1>2
  <2>2. r.n \in Numeral!I32 /\ r.b \in 0..255
    BY <2>1, FormatAssumption
  <2>. QED
    BY <2>1, <2>2
<1>3. CASE r \in B
  <2>1. r.f = "format_h32" /\ r.n \in H /\ r.zeroes \in BOOLEAN
    BY <1>3
  <2>2. H \subseteq 0..(Numeral!U32 - 1)
    <3>. DEFINE w == Numeral!U32
    <3>1. w \in Nat /\ w > 0 /\ Numbers \subseteq Int
      BY WordHalves, I32Is, FormatAssumption
    <3>2. H = {n % w : n \in Numbers}
      BY DEF H
    <3>. HIDE DEF w
    <3>3. \A n \in Int : n % w \in 0..(w - 1)
      BY <3>1
    <3>4. H \subseteq 0..(w - 1)
      BY <3>1, <3>2, <3>3
    <3>. QED
      BY <3>4 DEF w
  <2>. QED
    BY <2>1, <2>2
<1>4. CASE r \in C
  BY <1>4, FormatAssumption
<1>5. CASE r \in D
  <2>1. r.f = "oct2bin" /\ r.str \in O
    BY <1>5
  <2>2. PICK k \in 0..5 : r.str \in [1..k -> {0, 1, 7}]
    BY <2>1 DEF O
  <2>3. r.str \in Seq(Nat)
    BY <2>2
  <2>. QED
    BY <2>1, <2>3
<1>6. CASE r \in E
  BY <1>6
<1>. QED
  BY <1>1, <1>2, <1>3, <1>4, <1>5, <1>6

LEMMA NumeralInit == Numeral!Init => NumeralInv
BY DEF Numeral!Init, NumeralInv, NumbersRight, Numeral!NumbersRight

LEMMA NumeralStep == NumeralInv /\ [Numeral!Next]_(Numeral!vars) => NumeralInv'
<1>. SUFFICES ASSUME NumeralInv, [Numeral!Next]_(Numeral!vars) PROVE NumeralInv'
  OBVIOUS
<1>. USE DEF Numeral!vars
<1>1. CASE Numeral!Convert
  <2>. DEFINE n == request.n
              b == request.b
              w == written'[1]
  <2>1. /\ request' = request /\ request \in Numeral!Requests
        /\ request.f = "itob" => Numeral!Supported(b)
        /\ written' # <<>>
    BY <1>1 DEF Numeral!Convert, NumeralInv
  <2>2. /\ request.f = "itoa" => w = Numeral!itoa(n, b)
        /\ request.f = "itob" => w = Numeral!itob(n, b)
        /\ request.f = "format_i32_base" => w = Numeral!format_i32_base(n, b)
        /\ request.f = "format_h32" => w = Numeral!format_h32(n, ~request.zeroes)
        /\ request.f = "digit_count" => w = <<Numeral!digit_count(n)>>
        /\ request.f = "oct2bin" => w = <<Numeral!oct2bin(request.str)>>
    BY <1>1 DEF Numeral!Convert
  <2>. HIDE DEF w
  <2>3. CASE request.f \in {"itoa", "format_i32_base"}
    <3>1. IF Numeral!Supported(b) THEN Numeral!Reads(w, n, b, b = 10) ELSE w = <<>>
      <4>1. n \in Numeral!I32 /\ b \in 0..255
        BY <2>1, <2>3, AskedOf
      <4>2. w = IF Numeral!Supported(b)
                THEN Numeral!Sign(n, b) \o Numeral!Reverse(Numeral!Digits(n, b)) ELSE <<>>
        BY <2>2, <2>3 DEF Numeral!itoa, Numeral!format_i32_base
      <4>. HIDE DEF n, b
      <4>. QED
        BY <4>1, <4>2, PrintsSigned
    <3>. QED
      BY <2>1, <2>3, <3>1 DEF NumeralInv, NumbersRight, Numeral!NumbersRight, w
  <2>4. CASE request.f = "itob"
    <3>1. n > -Numeral!INT_MAX - 1 => Numeral!Reads(w, n, b, TRUE)
      BY <2>1, <2>2, <2>4, AskedOf, PrintsReversed
    <3>. QED
      BY <2>1, <2>4, <3>1 DEF NumeralInv, NumbersRight, Numeral!NumbersRight, w
  <2>5. CASE request.f = "format_h32"
    <3>. DEFINE z == ~request.zeroes
                digits == SubSeq(w, 3, Len(w))
    <3>1. n \in 0..(Numeral!U32 - 1) /\ z \in BOOLEAN /\ w = Numeral!format_h32(n, z)
      BY <2>1, <2>2, <2>5, AskedOf
    <3>2. /\ SubSeq(w, 1, 2) = <<0, 33>>
          /\ Numeral!Value(digits, 16) = n
          /\ z => Numeral!Shortest(digits)
          /\ ~z => Len(digits) = NIBBLES
      <4>. HIDE DEF n, z
      <4>. QED
        BY <3>1, HexReads
    <3>3. IF request.zeroes THEN Len(digits) = NIBBLES ELSE Numeral!Shortest(digits)
      BY <2>1, <2>5, <3>2, AskedOf
    <3>. QED
      BY <2>1, <2>5, <3>2, <3>3 DEF NumeralInv, NumbersRight, Numeral!NumbersRight, w
  <2>6. CASE request.f = "digit_count"
    <3>1. n >= 0 => w[1] = Len(Numeral!format_i32(n))
      BY <2>1, <2>2, <2>6, AskedOf, CountsDigits
    <3>. QED
      BY <2>1, <2>6, <3>1 DEF NumeralInv, NumbersRight, Numeral!NumbersRight, w
  <2>7. CASE request.f = "oct2bin"
    <3>1. Numeral!Value(request.str, 8) <= Numeral!INT_MAX =>
            w[1] = Numeral!Value(request.str, 8)
      BY <2>1, <2>2, <2>7, AskedOf, OctalReads
    <3>. QED
      BY <2>1, <2>7, <3>1 DEF NumeralInv, NumbersRight, Numeral!NumbersRight, w
  <2>8. CASE request.f = "format"
    BY <2>1, <2>8 DEF NumeralInv, NumbersRight, Numeral!NumbersRight
  <2>. QED
    BY <2>1, <2>3, <2>4, <2>5, <2>6, <2>7, <2>8, AskedOf
<1>2. CASE UNCHANGED <<request, written>>
  BY <1>2 DEF NumeralInv, NumbersRight, Numeral!NumbersRight
<1>. QED
  BY <1>1, <1>2 DEF Numeral!Next

\* Every number that is printed or counted, in every base and of words of every
\* size, reads back as itself (itoa, itob, format_i32_base, format_h32,
\* digit_count and oct2bin of libs/klibc/libc.c and libs/format.c).
THEOREM NumbersReadBack == Numeral!Spec => []NumbersRight
<1>1. Numeral!Init => NumeralInv
  BY NumeralInit
<1>2. NumeralInv /\ [Numeral!Next]_(Numeral!vars) => NumeralInv'
  BY NumeralStep
<1>3. NumeralInv => NumbersRight
  BY DEF NumeralInv
<1>. QED
  BY <1>1, <1>2, <1>3, PTL DEF Numeral!Spec

-----------------------------------------------------------------------------
(* What a format string prints.                                            *)

\* A function that joins the members of a sequence one by one.
Joins(seqs, X, f) ==
  /\ f \in [0..Len(seqs) -> Seq(X)] /\ f[0] = <<>>
  /\ \A k \in 1..Len(seqs) : f[k] = f[k - 1] \o seqs[k]

Flattens(seqs, f) ==
  f = [i \in 1..Len(seqs) |-> IF i = 1 THEN seqs[i] ELSE f[i - 1] \o seqs[i]]

LEMMA JoinsExist ==
  ASSUME NEW X, NEW seqs \in Seq(Seq(X))
  PROVE  \E f : Joins(seqs, X, f)
<1>. DEFINE n == Len(seqs)
            D == Seq(X)
            op == [p \in (1..n) \X D |-> p[2] \o seqs[p[1]]]
            e == <<>>
<1>1. n \in Nat /\ (\A k \in 1..n : seqs[k] \in D) /\ e \in D
  BY LenProperties, ElementOfSeq
<1>2. \A s, t \in D : s \o t \in D
  OBVIOUS
<1>. HIDE DEF D, e
<1>3. op \in [(1..n) \X D -> D] /\ \A k \in 1..n : \A s \in D : op[<<k, s>>] = s \o seqs[k]
  BY <1>1, <1>2
<1>. HIDE DEF op
<1>4. PICK f : Recurs(n, D, e, op, f)
  BY <1>1, <1>3, RecursionExists
<1>5. f \in [0..n -> D] /\ f[0] = e
  BY <1>4 DEF Recurs
<1>6. ASSUME NEW k \in 1..n PROVE f[k] = f[k - 1] \o seqs[k]
  <2>1. f[k - 1] \in D
    <3>1. k - 1 \in 0..n
      BY <1>1
    <3>. QED
      BY <1>5, <3>1
  <2>. QED
    BY <1>3, <1>4, <2>1 DEF Recurs
<1>. QED
  BY <1>5, <1>6 DEF Joins, D, e

LEMMA FlattenIs ==
  ASSUME NEW X, NEW seqs \in Seq(Seq(X)), NEW f, Joins(seqs, X, f)
  PROVE  Numeral!FlattenSeq(seqs) = f[Len(seqs)]
<1>. DEFINE n == Len(seqs)
            g == CHOOSE h : Flattens(seqs, h)
<1>1. n \in Nat /\ \A k \in 1..n : seqs[k] \in Seq(X)
  BY LenProperties, ElementOfSeq
<1>2. CASE n = 0
  <2>1. Numeral!FlattenSeq(seqs) = seqs
    BY <1>2 DEF Numeral!FlattenSeq
  <2>2. seqs = <<>>
    BY <1>2, EmptySeq
  <2>. QED
    BY <1>2, <2>1, <2>2 DEF Joins
<1>3. CASE n # 0
  <2>1. Numeral!FlattenSeq(seqs) = g[n]
    BY <1>3 DEF Numeral!FlattenSeq, Flattens
  <2>2. \A k \in 1..n : f[k] = f[k - 1] \o seqs[k]
    BY DEF Joins
  <2>3. f[0] = <<>>
    BY DEF Joins
  <2>9. f[1] = <<>> \o seqs[1] /\ seqs[1] \in Seq(X)
    <3>1. 1 \in 1..n /\ 1 - 1 = 0
      BY <1>1, <1>3
    <3>2. f[1] = f[1 - 1] \o seqs[1]
      BY <2>2, <3>1
    <3>. QED
      BY <1>1, <2>3, <3>1, <3>2
  <2>. DEFINE h == [i \in 1..n |-> f[i]]
  <2>4. Flattens(seqs, h)
    <3>1. ASSUME NEW i \in 1..n
          PROVE  h[i] = IF i = 1 THEN seqs[i] ELSE h[i - 1] \o seqs[i]
      <4>1. CASE i = 1
        <5>1. <<>> \o seqs[1] = seqs[1]
          BY <2>9
        <5>. QED
          BY <1>1, <2>9, <4>1, <5>1
      <4>2. CASE i # 1
        <5>1. i - 1 \in 1..n
          BY <1>1, <4>2
        <5>. QED
          BY <2>2, <4>2, <5>1
      <4>. QED
        BY <4>1, <4>2
    <3>2. h = [i \in 1..n |-> IF i = 1 THEN seqs[i] ELSE h[i - 1] \o seqs[i]]
      BY <3>1
    <3>. QED
      BY <3>2 DEF Flattens
  <2>5. Flattens(seqs, g)
    BY <2>4
  <2>. HIDE DEF g, h
  <2>. DEFINE S == {k \in 0..n : k = 0 \/ g[k] = f[k]}
  <2>6. 0 \in S
    BY <1>1
  <2>7. ASSUME NEW k \in 1..n, k - 1 \in S PROVE k \in S
    <3>1. g[k] = IF k = 1 THEN seqs[k] ELSE g[k - 1] \o seqs[k]
      BY <2>5 DEF Flattens
    <3>2. CASE k = 1
      <4>1. <<>> \o seqs[1] = seqs[1]
        BY <2>9
      <4>. QED
        BY <1>1, <2>9, <3>1, <3>2, <4>1
    <3>3. CASE k # 1
      <4>1. g[k - 1] = f[k - 1] /\ k \in 0..n
        BY <1>1, <2>7, <3>3
      <4>. QED
        BY <2>2, <3>1, <3>3, <4>1
    <3>. QED
      BY <3>2, <3>3
  <2>. HIDE DEF S
  <2>8. n \in S
    <3>1. \A k \in 0..n : k \in S
      BY <1>1, <2>6, <2>7, UpTo
    <3>. QED
      BY <1>1, <3>1
  <2>. QED
    BY <1>3, <2>1, <2>8 DEF S
<1>. QED
  BY <1>2, <1>3

LEMMA FlattenEmpty == Numeral!FlattenSeq(<<>>) = <<>>
BY DEF Numeral!FlattenSeq

LEMMA FlattenAppend ==
  ASSUME NEW X, NEW seqs \in Seq(Seq(X)), NEW s \in Seq(X)
  PROVE  /\ Numeral!FlattenSeq(seqs) \in Seq(X)
         /\ Numeral!FlattenSeq(Append(seqs, s)) = Numeral!FlattenSeq(seqs) \o s
<1>. DEFINE n == Len(seqs)
            D == Seq(X)
            t == Append(seqs, s)
<1>1. /\ n \in Nat /\ t \in Seq(D) /\ Len(t) = n + 1 /\ t[n + 1] = s
      /\ \A k \in 1..n : t[k] = seqs[k]
  <2>. HIDE DEF D
  <2>. QED
    BY LenProperties DEF D
<1>. HIDE DEF t
<1>2. PICK g : Joins(t, X, g)
  BY <1>1, JoinsExist
<1>3. Numeral!FlattenSeq(t) = g[n + 1]
  BY <1>1, <1>2, FlattenIs
<1>4. /\ g \in [0..(n + 1) -> D] /\ g[0] = <<>>
      /\ \A k \in 1..(n + 1) : g[k] = g[k - 1] \o t[k]
  BY <1>1, <1>2 DEF Joins
<1>. DEFINE f == [k \in 0..n |-> g[k]]
<1>5. Joins(seqs, X, f)
  <2>1. \A k \in 1..n : k \in 0..n /\ k - 1 \in 0..n /\ k \in 1..(n + 1)
    BY <1>1
  <2>2. f \in [0..n -> D] /\ f[0] = <<>>
    <3>. HIDE DEF D
    <3>. QED
      BY <1>1, <1>4
  <2>3. \A k \in 1..n : f[k] = f[k - 1] \o seqs[k]
    BY <1>1, <1>4, <2>1
  <2>. HIDE DEF f
  <2>. QED
    BY <2>2, <2>3 DEF Joins
<1>6. Numeral!FlattenSeq(seqs) = f[n] /\ f[n] \in D
  <2>1. f[n] \in D
    BY <1>1, <1>4
  <2>. HIDE DEF f
  <2>. QED
    BY <1>5, <2>1, FlattenIs
<1>7. g[n + 1] = g[n] \o s /\ f[n] = g[n]
  <2>1. n + 1 \in 1..(n + 1) /\ (n + 1) - 1 = n
    BY <1>1
  <2>2. g[n + 1] = g[(n + 1) - 1] \o t[n + 1]
    BY <1>4, <2>1
  <2>3. f[n] = g[n]
    BY <1>1
  <2>. QED
    BY <1>1, <2>1, <2>2, <2>3
<1>. HIDE DEF f
<1>. QED
  BY <1>3, <1>6, <1>7 DEF t

\* The two functions along a format string.
Waiting(fmt, f) ==
  f = [i \in 0..Len(fmt) |-> i > 0 /\ fmt[i] = Numeral!PERCENT /\ ~f[i - 1]]
Taking(fmt, f) ==
  f = [i \in 0..Len(fmt) |->
         IF i = 0 THEN 0
         ELSE IF Numeral!waits(fmt)[i - 1] /\ fmt[i] \in Numeral!Takes
              THEN f[i - 1] + 1 ELSE f[i - 1]]

LEMMA WaitsIs ==
  ASSUME NEW fmt \in Seq(Nat)
  PROVE  /\ Numeral!waits(fmt) \in [0..Len(fmt) -> BOOLEAN]
         /\ ~Numeral!waits(fmt)[0]
         /\ \A k \in 1..Len(fmt) :
              Numeral!waits(fmt)[k] <=> fmt[k] = Numeral!PERCENT /\ ~Numeral!waits(fmt)[k - 1]
<1>. DEFINE n == Len(fmt)
            D == BOOLEAN
            op == [p \in (1..n) \X D |-> fmt[p[1]] = Numeral!PERCENT /\ p[2] = FALSE]
            g == CHOOSE f : Waiting(fmt, f)
<1>1. n \in Nat
  BY LenProperties
<1>2. op \in [(1..n) \X D -> D]
  OBVIOUS
<1>3. \A k \in 1..n : \A x \in D : op[<<k, x>>] = (fmt[k] = Numeral!PERCENT /\ x = FALSE)
  OBVIOUS
<1>4. PICK f : Recurs(n, D, FALSE, op, f)
  <2>1. FALSE \in D
    OBVIOUS
  <2>. HIDE DEF op, D
  <2>. QED
    BY <1>1, <1>2, <2>1, RecursionExists
<1>. HIDE DEF op
<1>5. f \in [0..n -> D] /\ f[0] = FALSE
  BY <1>4 DEF Recurs
<1>6. ASSUME NEW k \in 1..n PROVE f[k] = (fmt[k] = Numeral!PERCENT /\ ~f[k - 1])
  <2>1. k - 1 \in 0..n
    BY <1>1
  <2>2. f[k - 1] \in D
    BY <1>5, <2>1
  <2>3. f[k] = op[<<k, f[k - 1]>>]
    BY <1>4 DEF Recurs
  <2>4. f[k] = (fmt[k] = Numeral!PERCENT /\ f[k - 1] = FALSE)
    BY <1>3, <2>2, <2>3
  <2>. QED
    BY <2>2, <2>4
<1>7. Waiting(fmt, f)
  <2>1. ASSUME NEW i \in 0..n
        PROVE  f[i] = (i > 0 /\ fmt[i] = Numeral!PERCENT /\ ~f[i - 1])
    <3>1. CASE i = 0
      BY <1>5, <3>1
    <3>2. CASE i # 0
      <4>1. i \in 1..n /\ i > 0
        BY <1>1, <3>2
      <4>2. f[i] = (fmt[i] = Numeral!PERCENT /\ ~f[i - 1])
        BY <1>6, <4>1
      <4>. QED
        BY <4>1, <4>2
    <3>. QED
      BY <3>1, <3>2
  <2>2. f = [i \in 0..n |-> i > 0 /\ fmt[i] = Numeral!PERCENT /\ ~f[i - 1]]
    BY <1>5, <2>1
  <2>. QED
    BY <2>2 DEF Waiting
<1>8. Waiting(fmt, g)
  BY <1>7
<1>9. Numeral!waits(fmt) = g
  BY DEF Numeral!waits, Waiting
<1>. HIDE DEF g
<1>10. \A i \in 0..n : g[i] = (i > 0 /\ fmt[i] = Numeral!PERCENT /\ ~g[i - 1])
  BY <1>8 DEF Waiting
<1>11. g \in [0..n -> BOOLEAN]
  BY <1>8 DEF Waiting
<1>12. ~g[0]
  <2>1. 0 \in 0..n /\ ~(0 > 0)
    BY <1>1
  <2>2. g[0] = (0 > 0 /\ fmt[0] = Numeral!PERCENT /\ ~g[0 - 1])
    BY <1>10, <2>1
  <2>. QED
    BY <2>1, <2>2
<1>13. ASSUME NEW k \in 1..n PROVE g[k] <=> fmt[k] = Numeral!PERCENT /\ ~g[k - 1]
  <2>1. k \in 0..n /\ k > 0
    BY <1>1
  <2>. QED
    BY <1>10, <2>1
<1>. QED
  BY <1>9, <1>11, <1>12, <1>13

LEMMA TakenIs ==
  ASSUME NEW fmt \in Seq(Nat)
  PROVE  /\ Numeral!taken(fmt) \in [0..Len(fmt) -> Nat]
         /\ Numeral!taken(fmt)[0] = 0
         /\ \A k \in 1..Len(fmt) :
              Numeral!taken(fmt)[k] =
                IF Numeral!waits(fmt)[k - 1] /\ fmt[k] \in Numeral!Takes
                THEN Numeral!taken(fmt)[k - 1] + 1 ELSE Numeral!taken(fmt)[k - 1]
<1>. DEFINE n == Len(fmt)
            Takes(k) == Numeral!waits(fmt)[k - 1] /\ fmt[k] \in Numeral!Takes
            op == [p \in (1..n) \X Nat |-> IF Takes(p[1]) THEN p[2] + 1 ELSE p[2]]
            g == CHOOSE f : Taking(fmt, f)
<1>1. n \in Nat
  BY LenProperties
<1>2. op \in [(1..n) \X Nat -> Nat] /\ 0 \in Nat
  <2>. HIDE DEF Takes
  <2>. QED
    OBVIOUS
<1>3. \A k \in 1..n : \A x \in Nat : op[<<k, x>>] = IF Takes(k) THEN x + 1 ELSE x
  <2>. HIDE DEF Takes
  <2>. QED
    OBVIOUS
<1>4. PICK f : Recurs(n, Nat, 0, op, f)
  <2>. HIDE DEF op
  <2>. QED
    BY <1>1, <1>2, RecursionExists
<1>. HIDE DEF op
<1>5. f \in [0..n -> Nat] /\ f[0] = 0
  BY <1>4 DEF Recurs
<1>6. ASSUME NEW k \in 1..n PROVE f[k] = IF Takes(k) THEN f[k - 1] + 1 ELSE f[k - 1]
  <2>1. k - 1 \in 0..n
    BY <1>1
  <2>2. f[k - 1] \in Nat
    BY <1>5, <2>1
  <2>3. f[k] = op[<<k, f[k - 1]>>]
    BY <1>4 DEF Recurs
  <2>. HIDE DEF Takes
  <2>. QED
    BY <1>3, <2>2, <2>3
<1>7. Taking(fmt, f)
  <2>1. ASSUME NEW i \in 0..n
        PROVE  f[i] = IF i = 0 THEN 0 ELSE IF Takes(i) THEN f[i - 1] + 1 ELSE f[i - 1]
    <3>1. i # 0 => i \in 1..n
      BY <1>1
    <3>. HIDE DEF Takes
    <3>. QED
      BY <1>5, <1>6, <3>1
  <2>2. f = [i \in 0..n |-> IF i = 0 THEN 0
                            ELSE IF Takes(i) THEN f[i - 1] + 1 ELSE f[i - 1]]
    <3>. HIDE DEF Takes
    <3>. QED
      BY <1>5, <2>1
  <2>. QED
    BY <2>2 DEF Taking
<1>8. Taking(fmt, g)
  BY <1>7
<1>9. Numeral!taken(fmt) = g
  BY DEF Numeral!taken, Taking
<1>. HIDE DEF g
<1>10. g = [i \in 0..n |-> IF i = 0 THEN 0
                           ELSE IF Takes(i) THEN g[i - 1] + 1 ELSE g[i - 1]]
  BY <1>8 DEF Taking
<1>. HIDE DEF Takes
<1>16. \A i \in 0..n : g[i] = IF i = 0 THEN 0
                           ELSE IF Takes(i) THEN g[i - 1] + 1 ELSE g[i - 1]
  BY <1>10
<1>11. g[0] = 0 /\ \A k \in 1..n : g[k] = IF Takes(k) THEN g[k - 1] + 1 ELSE g[k - 1]
  <2>1. 0 \in 0..n /\ \A k \in 1..n : k \in 0..n /\ k # 0
    BY <1>1
  <2>2. g[0] = 0
    BY <1>16, <2>1
  <2>3. ASSUME NEW k \in 1..n PROVE g[k] = IF Takes(k) THEN g[k - 1] + 1 ELSE g[k - 1]
    BY <1>16, <2>1
  <2>. QED
    BY <2>2, <2>3
<1>. DEFINE S == {k \in 0..n : g[k] \in Nat}
<1>12. 0 \in S
  BY <1>1, <1>11
<1>13. ASSUME NEW k \in 1..n, k - 1 \in S PROVE k \in S
  <2>1. k \in 0..n /\ g[k - 1] \in Nat
    BY <1>1, <1>13
  <2>. QED
    BY <1>11, <2>1, SMTT(30)
<1>. HIDE DEF S
<1>14. \A k \in 0..n : k \in S
  BY <1>1, <1>12, <1>13, UpTo
<1>15. g \in [0..n -> Nat]
  BY <1>10, <1>14 DEF S
<1>. QED
  BY <1>9, <1>11, <1>15 DEF Takes

\* One character more leaves what came before it.
LEMMA WaitsAppend ==
  ASSUME NEW fmt \in Seq(Nat), NEW c \in Nat
  PROVE  /\ \A k \in 0..Len(fmt) :
              /\ Numeral!waits(Append(fmt, c))[k] <=> Numeral!waits(fmt)[k]
              /\ Numeral!taken(Append(fmt, c))[k] = Numeral!taken(fmt)[k]
         /\ Numeral!waits(Append(fmt, c))[Len(fmt) + 1] <=>
              c = Numeral!PERCENT /\ ~Numeral!waits(fmt)[Len(fmt)]
         /\ Numeral!taken(Append(fmt, c))[Len(fmt) + 1] =
              IF Numeral!waits(fmt)[Len(fmt)] /\ c \in Numeral!Takes
              THEN Numeral!taken(fmt)[Len(fmt)] + 1 ELSE Numeral!taken(fmt)[Len(fmt)]
<1>. DEFINE n == Len(fmt)
            t == Append(fmt, c)
            v == Numeral!waits(fmt)  w == Numeral!waits(t)
            x == Numeral!taken(fmt)  y == Numeral!taken(t)
<1>1. /\ n \in Nat /\ t \in Seq(Nat) /\ Len(t) = n + 1 /\ t[n + 1] = c
      /\ \A k \in 1..n : t[k] = fmt[k]
  BY LenProperties
<1>. HIDE DEF t
<1>2. /\ ~v[0] /\ \A k \in 1..n : v[k] <=> fmt[k] = Numeral!PERCENT /\ ~v[k - 1]
  BY WaitsIs
<1>3. /\ ~w[0] /\ \A k \in 1..(n + 1) : w[k] <=> t[k] = Numeral!PERCENT /\ ~w[k - 1]
  BY <1>1, WaitsIs
<1>4. /\ x[0] = 0
      /\ \A k \in 1..n : x[k] = IF v[k - 1] /\ fmt[k] \in Numeral!Takes
                                THEN x[k - 1] + 1 ELSE x[k - 1]
  BY TakenIs
<1>5. /\ y[0] = 0
      /\ \A k \in 1..(n + 1) : y[k] = IF w[k - 1] /\ t[k] \in Numeral!Takes
                                      THEN y[k - 1] + 1 ELSE y[k - 1]
  BY <1>1, TakenIs
<1>. HIDE DEF v, w, x, y
<1>. DEFINE S == {k \in 0..n : (w[k] <=> v[k]) /\ y[k] = x[k]}
<1>6. 0 \in S
  BY <1>1, <1>2, <1>3, <1>4, <1>5
<1>7. ASSUME NEW k \in 1..n, k - 1 \in S PROVE k \in S
  <2>1. k \in 0..n /\ k \in 1..(n + 1) /\ t[k] = fmt[k]
    BY <1>1
  <2>2. (w[k - 1] <=> v[k - 1]) /\ y[k - 1] = x[k - 1]
    BY <1>7
  <2>3. w[k] <=> v[k]
    BY <1>2, <1>3, <2>1, <2>2
  <2>4. y[k] = x[k]
    BY <1>4, <1>5, <2>1, <2>2
  <2>. QED
    BY <2>1, <2>3, <2>4
<1>. HIDE DEF S
<1>8. \A k \in 0..n : k \in S
  BY <1>1, <1>6, <1>7, UpTo
<1>9. \A k \in 0..n : (w[k] <=> v[k]) /\ y[k] = x[k]
  BY <1>8 DEF S
<1>10. n + 1 \in 1..(n + 1) /\ (n + 1) - 1 = n /\ n \in 0..n
  BY <1>1
<1>11. w[n + 1] <=> c = Numeral!PERCENT /\ ~v[n]
  BY <1>1, <1>3, <1>9, <1>10
<1>12. y[n + 1] = IF v[n] /\ c \in Numeral!Takes THEN x[n] + 1 ELSE x[n]
  BY <1>1, <1>5, <1>9, <1>10, SMTT(30)
<1>. QED
  BY <1>9, <1>11, <1>12 DEF t, v, w, x, y

\* What the character at i prints.
Prints(fmt, args, i) ==
  IF ~Numeral!waits(fmt)[i - 1]
  THEN IF fmt[i] = Numeral!PERCENT THEN <<>> ELSE Numeral!format_char(fmt[i])
  ELSE IF fmt[i] \in Numeral!Takes
  THEN Numeral!Directive(fmt[i], args[Numeral!taken(fmt)[i]])
  ELSE IF fmt[i] = Numeral!PERCENT THEN <<Numeral!PERCENT>> ELSE <<>>

LEMMA PrintedIs ==
  ASSUME NEW fmt \in Seq(Nat), NEW args
  PROVE  Numeral!printed(fmt, args) = [i \in 1..Len(fmt) |-> Prints(fmt, args, i)]
<1>1. DOMAIN fmt = 1..Len(fmt)
  BY LenProperties
<1>2. Numeral!printed(fmt, args) = [i \in DOMAIN fmt |-> Prints(fmt, args, i)]
  BY DEF Numeral!printed, Prints
<1>. QED
  BY <1>1, <1>2

\* Arguments that are not taken make no difference.
LEMMA MoreArguments ==
  ASSUME NEW V, NEW fmt \in Seq(Nat), NEW args \in Seq(V), NEW more \in Seq(V),
         \A k \in 0..Len(fmt) : Numeral!taken(fmt)[k] <= Len(args)
  PROVE  Numeral!printed(fmt, args \o more) = Numeral!printed(fmt, args)
<1>. DEFINE n == Len(fmt)
            all == args \o more
            x == Numeral!taken(fmt)
            w == Numeral!waits(fmt)
<1>1. n \in Nat /\ Len(args) \in Nat /\ \A i \in 1..Len(args) : all[i] = args[i]
  BY LenProperties, ConcatProperties
<1>2. x \in [0..n -> Nat] /\ \A k \in 1..n : x[k] = IF w[k - 1] /\ fmt[k] \in Numeral!Takes
                                                    THEN x[k - 1] + 1 ELSE x[k - 1]
  BY TakenIs
<1>3. \A k \in 0..n : x[k] <= Len(args)
  OBVIOUS
<1>. HIDE DEF all, x
<1>4. ASSUME NEW i \in 1..n PROVE Prints(fmt, all, i) = Prints(fmt, args, i)
  <2>1. CASE w[i - 1] /\ fmt[i] \in Numeral!Takes
    <3>1. i \in 0..n /\ i - 1 \in 0..n
      BY <1>1
    <3>2. x[i] = x[i - 1] + 1 /\ x[i - 1] \in Nat /\ x[i] <= Len(args)
      BY <1>2, <1>3, <2>1, <3>1
    <3>3. all[x[i]] = args[x[i]]
      BY <1>1, <3>2
    <3>. QED
      BY <2>1, <3>3 DEF Prints, x
  <2>2. CASE ~(w[i - 1] /\ fmt[i] \in Numeral!Takes)
    BY <2>2 DEF Prints
  <2>. QED
    BY <2>1, <2>2
<1>5. [i \in 1..n |-> Prints(fmt, all, i)] = [i \in 1..n |-> Prints(fmt, args, i)]
  BY <1>4
<1>6. /\ Numeral!printed(fmt, all) = [i \in 1..n |-> Prints(fmt, all, i)]
      /\ Numeral!printed(fmt, args) = [i \in 1..n |-> Prints(fmt, args, i)]
  BY PrintedIs
<1>7. Numeral!printed(fmt, all) = Numeral!printed(fmt, args)
  BY <1>5, <1>6
<1>. QED
  BY <1>7 DEF all

LEMMA PrintedAppend ==
  ASSUME NEW fmt \in Seq(Nat), NEW c \in Nat, NEW args, NEW D,
         Numeral!printed(fmt, args) \in Seq(D),
         Prints(Append(fmt, c), args, Len(fmt) + 1) \in D
  PROVE  /\ Numeral!printed(Append(fmt, c), args) =
              Append(Numeral!printed(fmt, args),
                     Prints(Append(fmt, c), args, Len(fmt) + 1))
<1>. DEFINE n == Len(fmt)
            t == Append(fmt, c)
            u == Numeral!printed(t, args)
            v == Numeral!printed(fmt, args)
            p == Prints(t, args, n + 1)
            a == Append(v, p)
<1>1. /\ n \in Nat /\ t \in Seq(Nat) /\ Len(t) = n + 1
      /\ \A k \in 1..n : t[k] = fmt[k]
  BY LenProperties
<1>2. ASSUME NEW i \in 1..n PROVE Prints(t, args, i) = Prints(fmt, args, i)
  <2>1. i \in 0..n /\ i - 1 \in 0..n /\ t[i] = fmt[i]
    BY <1>1
  <2>2. /\ Numeral!waits(t)[i - 1] <=> Numeral!waits(fmt)[i - 1]
        /\ Numeral!taken(t)[i] = Numeral!taken(fmt)[i]
    BY <2>1, WaitsAppend
  <2>. HIDE DEF t
  <2>. QED
    BY <2>1, <2>2 DEF Prints
<1>. HIDE DEF t
<1>3. u = [i \in 1..(n + 1) |-> Prints(t, args, i)] /\ v = [i \in 1..n |-> Prints(fmt, args, i)]
  BY <1>1, PrintedIs
<1>4. v \in Seq(D) /\ p \in D
  BY DEF t
<1>. HIDE DEF u, v, p
<1>5. Len(v) = n
  BY <1>1, <1>3, <1>4, LenProperties
<1>6. /\ a = [i \in 1..(n + 1) |-> IF i = n + 1 THEN p ELSE v[i]]
  <2>1. a \in Seq(D) /\ Len(a) = n + 1 /\ a[n + 1] = p /\ \A i \in 1..n : a[i] = v[i]
    BY <1>1, <1>4, <1>5, AppendProperties
  <2>2. a \in [1..(n + 1) -> D]
    BY <1>1, <2>1, LenProperties
  <2>3. ASSUME NEW i \in 1..(n + 1) PROVE a[i] = IF i = n + 1 THEN p ELSE v[i]
    <3>1. i # n + 1 => i \in 1..n
      BY <1>1
    <3>. HIDE DEF a
    <3>. QED
      BY <2>1, <3>1
  <2>. HIDE DEF a
  <2>. QED
    BY <2>2, <2>3
<1>. HIDE DEF a
<1>7. ASSUME NEW i \in 1..(n + 1)
      PROVE  Prints(t, args, i) = IF i = n + 1 THEN p ELSE v[i]
  <2>1. i # n + 1 => i \in 1..n /\ v[i] = Prints(fmt, args, i)
    BY <1>1, <1>3
  <2>. QED
    BY <1>2, <2>1 DEF p
<1>8. u = a
  BY <1>3, <1>6, <1>7
<1>. QED
  BY <1>8 DEF u, a, v, p, t

-----------------------------------------------------------------------------
\* A format string, all its arguments taken, and what it prints.
Said(V, fmt, args, out) ==
  /\ fmt \in Seq(Nat) /\ args \in Seq(V) /\ out \in Seq(Nat)
  /\ ~Numeral!waits(fmt)[Len(fmt)]
  /\ Numeral!taken(fmt)[Len(fmt)] = Len(args)
  /\ \A k \in 0..Len(fmt) : Numeral!taken(fmt)[k] <= Len(args)
  /\ Numeral!printed(fmt, args) \in Seq(Seq(Nat))
  /\ Numeral!FlattenSeq(Numeral!printed(fmt, args)) = out

LEMMA SaysNothing == \A V : Said(V, <<>>, <<>>, <<>>)
<1>. SUFFICES ASSUME NEW V PROVE Said(V, <<>>, <<>>, <<>>)
  OBVIOUS
<1>. DEFINE e == <<>>
<1>1. e \in Seq(Nat) /\ e \in Seq(V) /\ e \in Seq(Seq(Nat)) /\ Len(e) = 0
  OBVIOUS
<1>. HIDE DEF e
<1>2. ~Numeral!waits(e)[0] /\ Numeral!taken(e)[0] = 0
  BY <1>1, WaitsIs, TakenIs
<1>3. \A k \in 0..0 : k = 0
  OBVIOUS
<1>4. Numeral!printed(e, e) = e
  <2>1. Numeral!printed(e, e) = [i \in 1..0 |-> Prints(e, e, i)]
    BY <1>1, PrintedIs
  <2>2. [i \in 1..0 |-> Prints(e, e, i)] = <<>>
    OBVIOUS
  <2>. QED
    BY <2>1, <2>2 DEF e
<1>5. Numeral!FlattenSeq(e) = e
  BY FlattenEmpty DEF e
<1>6. Said(V, e, e, e)
  BY <1>1, <1>2, <1>3, <1>4, <1>5 DEF Said
<1>. QED
  BY <1>6 DEF e

\* A character that is not a % prints itself.
LEMMA SaysCharacter ==
  ASSUME NEW V, NEW fmt, NEW args, NEW out, Said(V, fmt, args, out),
         NEW c \in Nat, c # Numeral!PERCENT
  PROVE  Said(V, Append(fmt, c), args, Append(out, c))
<1>. DEFINE n == Len(fmt)
            t == Append(fmt, c)
            v == Numeral!printed(fmt, args)
            p == Prints(t, args, n + 1)
<1>1. /\ fmt \in Seq(Nat) /\ args \in Seq(V) /\ out \in Seq(Nat)
      /\ ~Numeral!waits(fmt)[n] /\ Numeral!taken(fmt)[n] = Len(args)
      /\ \A k \in 0..n : Numeral!taken(fmt)[k] <= Len(args)
      /\ v \in Seq(Seq(Nat)) /\ Numeral!FlattenSeq(v) = out
      /\ n \in Nat /\ Len(args) \in Nat
  BY LenProperties DEF Said
<1>2. t \in Seq(Nat) /\ Len(t) = n + 1 /\ t[n + 1] = c
  BY <1>1
<1>3. /\ \A k \in 0..n : /\ Numeral!waits(t)[k] <=> Numeral!waits(fmt)[k]
                         /\ Numeral!taken(t)[k] = Numeral!taken(fmt)[k]
      /\ ~Numeral!waits(t)[n + 1]
      /\ Numeral!taken(t)[n + 1] = Len(args)
  BY <1>1, WaitsAppend
<1>. HIDE DEF t
<1>4. p = <<c>>
  <2>1. n \in 0..n /\ (n + 1) - 1 = n
    BY <1>1
  <2>2. ~Numeral!waits(t)[(n + 1) - 1]
    BY <1>1, <1>3, <2>1
  <2>. QED
    BY <1>2, <2>2 DEF Prints, Numeral!format_char
<1>5. Numeral!printed(t, args) = Append(v, <<c>>)
  <2>1. <<c>> \in Seq(Nat)
    OBVIOUS
  <2>. DEFINE D == Seq(Nat)
  <2>2. v \in Seq(D) /\ p \in D
    BY <1>1, <1>4, <2>1
  <2>. HIDE DEF D, p, v
  <2>3. Numeral!printed(t, args) = Append(v, p)
    BY <1>1, <2>2, PrintedAppend DEF t, v, p
  <2>. QED
    BY <1>4, <2>3 DEF v
<1>. HIDE DEF v
<1>6. /\ Numeral!printed(t, args) \in Seq(Seq(Nat))
      /\ Numeral!FlattenSeq(Numeral!printed(t, args)) = out \o <<c>>
  <2>1. <<c>> \in Seq(Nat)
    OBVIOUS
  <2>2. Append(v, <<c>>) \in Seq(Seq(Nat))
    BY <1>1, <2>1, AppendProperties
  <2>. QED
    BY <1>1, <1>5, <2>1, <2>2, FlattenAppend
<1>7. out \o <<c>> = Append(out, c) /\ Append(out, c) \in Seq(Nat)
  BY <1>1
<1>8. \A k \in 0..(n + 1) : Numeral!taken(t)[k] <= Len(args)
  <2>. SUFFICES ASSUME NEW k \in 0..(n + 1) PROVE Numeral!taken(t)[k] <= Len(args)
    OBVIOUS
  <2>1. CASE k = n + 1
    <3>1. Numeral!taken(t)[k] = Len(args)
      BY <1>3, <2>1
    <3>. QED
      BY <1>1, <3>1
  <2>2. CASE k # n + 1
    <3>1. k \in 0..n
      BY <1>1, <2>2
    <3>2. Numeral!taken(t)[k] = Numeral!taken(fmt)[k]
      BY <1>3, <3>1
    <3>. QED
      BY <1>1, <3>1, <3>2
  <2>. QED
    BY <2>1, <2>2
<1>9. Said(V, t, args, Append(out, c))
  BY <1>1, <1>2, <1>3, <1>6, <1>7, <1>8 DEF Said
<1>. QED
  BY <1>9 DEF t

\* A directive prints its argument, if it takes one.
LEMMA SaysDirective ==
  ASSUME NEW V, NEW fmt, NEW args, NEW out, Said(V, fmt, args, out),
         NEW d \in Nat, NEW more \in Seq(V), NEW text \in Seq(Nat),
         IF d \in Numeral!Takes
         THEN Len(more) = 1 /\ text = Numeral!Directive(d, more[1])
         ELSE Len(more) = 0 /\ text = IF d = Numeral!PERCENT THEN <<Numeral!PERCENT>> ELSE <<>>
  PROVE  Said(V, Append(Append(fmt, Numeral!PERCENT), d), args \o more, out \o text)
<1>. DEFINE n == Len(fmt)
            t == Append(fmt, Numeral!PERCENT)
            u == Append(t, d)
            all == args \o more
            m == Len(args)
            v == Numeral!printed(fmt, all)
            D == Seq(Nat)
<1>1. /\ fmt \in Seq(Nat) /\ args \in Seq(V) /\ out \in D
      /\ ~Numeral!waits(fmt)[n] /\ Numeral!taken(fmt)[n] = m
      /\ \A k \in 0..n : Numeral!taken(fmt)[k] <= m
      /\ Numeral!printed(fmt, args) \in Seq(D)
      /\ Numeral!FlattenSeq(Numeral!printed(fmt, args)) = out
      /\ n \in Nat /\ m \in Nat /\ Numeral!PERCENT \in Nat
  BY LenProperties DEF Said, Numeral!PERCENT
<1>2. /\ t \in Seq(Nat) /\ Len(t) = n + 1 /\ t[n + 1] = Numeral!PERCENT
      /\ n \in 0..n /\ (n + 1) - 1 = n
  BY <1>1
<1>3. /\ \A k \in 0..n : /\ Numeral!waits(t)[k] <=> Numeral!waits(fmt)[k]
                         /\ Numeral!taken(t)[k] = Numeral!taken(fmt)[k]
      /\ Numeral!waits(t)[n + 1]
      /\ Numeral!taken(t)[n + 1] = m
  BY <1>1, WaitsAppend
<1>. HIDE DEF t
<1>4. /\ u \in Seq(Nat) /\ Len(u) = n + 2 /\ u[n + 2] = d
      /\ n + 1 \in 0..(n + 1) /\ (n + 2) - 1 = n + 1 /\ (n + 1) + 1 = n + 2
  BY <1>1, <1>2, SMTT(30)
<1>5. /\ \A k \in 0..(n + 1) : /\ Numeral!waits(u)[k] <=> Numeral!waits(t)[k]
                               /\ Numeral!taken(u)[k] = Numeral!taken(t)[k]
      /\ ~Numeral!waits(u)[n + 2]
      /\ Numeral!taken(u)[n + 2] = IF d \in Numeral!Takes THEN m + 1 ELSE m
  <2>1. /\ \A k \in 0..(n + 1) : /\ Numeral!waits(u)[k] <=> Numeral!waits(t)[k]
                                 /\ Numeral!taken(u)[k] = Numeral!taken(t)[k]
        /\ Numeral!waits(u)[(n + 1) + 1] <=>
             d = Numeral!PERCENT /\ ~Numeral!waits(t)[n + 1]
        /\ Numeral!taken(u)[(n + 1) + 1] =
             IF Numeral!waits(t)[n + 1] /\ d \in Numeral!Takes
             THEN Numeral!taken(t)[n + 1] + 1 ELSE Numeral!taken(t)[n + 1]
    BY <1>2, WaitsAppend
  <2>. QED
    BY <1>3, <1>4, <2>1
<1>. HIDE DEF u
<1>6. /\ all \in Seq(V) /\ (d \in Numeral!Takes => Len(all) = m + 1 /\ all[m + 1] = more[1])
      /\ (d \notin Numeral!Takes => Len(all) = m)
  <2>1. /\ all \in Seq(V) /\ Len(all) = m + Len(more)
        /\ \A i \in 1..Len(more) : all[m + i] = more[i]
    BY <1>1
  <2>. HIDE DEF all
  <2>2. CASE d \in Numeral!Takes
    <3>2. Len(more) = 1
      BY <2>2
    <3>1. Len(more) = 1 /\ 1 \in 1..Len(more)
      BY <3>2
    <3>. QED
      BY <2>1, <2>2, <3>1
  <2>3. CASE d \notin Numeral!Takes
    BY <1>1, <2>1, <2>3
  <2>. QED
    BY <2>2, <2>3
<1>7. v = Numeral!printed(fmt, args)
  BY <1>1, MoreArguments
<1>8. Prints(t, all, n + 1) = <<>>
  <2>1. ~Numeral!waits(t)[(n + 1) - 1]
    BY <1>1, <1>2, <1>3
  <2>. QED
    BY <1>2, <2>1 DEF Prints
<1>9. Prints(u, all, n + 2) = text
  <2>1. Numeral!waits(u)[(n + 2) - 1]
    BY <1>3, <1>4, <1>5
  <2>2. CASE d \in Numeral!Takes
    <3>1. all[Numeral!taken(u)[n + 2]] = more[1]
      BY <1>5, <1>6, <2>2
    <3>. HIDE DEF all
    <3>. QED
      BY <1>4, <2>1, <2>2, <3>1 DEF Prints
  <2>3. CASE d \notin Numeral!Takes
    BY <1>4, <2>1, <2>3 DEF Prints
  <2>. QED
    BY <2>2, <2>3
<1>. HIDE DEF all, v
<1>10. <<>> \in D /\ text \in D
  OBVIOUS
<1>. DEFINE e == <<>>
            w == Append(v, e)
            x == Append(w, text)
<1>11. e \in D /\ Prints(t, all, n + 1) = e
  BY <1>8, <1>10
<1>. HIDE DEF D, e
<1>12. Numeral!printed(t, all) = w
  BY <1>1, <1>7, <1>11, PrintedAppend DEF t, v
<1>13. w \in Seq(D)
  BY <1>1, <1>7, <1>11, AppendProperties
<1>. HIDE DEF w
<1>14. Numeral!printed(u, all) = x
  <2>1. Prints(Append(t, d), all, Len(t) + 1) = text
    BY <1>2, <1>4, <1>9 DEF u
  <2>2. Numeral!printed(Append(t, d), all) = Append(w, text)
    BY <1>2, <1>10, <1>12, <1>13, <2>1, PrintedAppend
  <2>. QED
    BY <2>2 DEF u
<1>15. x \in Seq(D)
  BY <1>10, <1>13, AppendProperties
<1>. HIDE DEF x
<1>16. Numeral!FlattenSeq(w) = out /\ Numeral!FlattenSeq(x) = out \o text
  <2>1. Numeral!FlattenSeq(w) = Numeral!FlattenSeq(v) \o <<>>
    <3>1. v \in Seq(Seq(Nat)) /\ e \in Seq(Nat)
      BY <1>1, <1>7, <1>11 DEF D
    <3>2. Numeral!FlattenSeq(Append(v, e)) = Numeral!FlattenSeq(v) \o e
      BY <3>1, FlattenAppend
    <3>. QED
      BY <3>2 DEF w, e
  <2>2. Numeral!FlattenSeq(w) = out
    BY <1>1, <1>7, <2>1 DEF D
  <2>3. Numeral!FlattenSeq(x) = Numeral!FlattenSeq(w) \o text
    BY <1>13, FlattenAppend DEF x, D
  <2>. QED
    BY <2>2, <2>3
<1>17. out \o text \in Seq(Nat)
  BY <1>1, <1>10 DEF D
<1>18. Numeral!taken(u)[n + 2] = Len(all)
  BY <1>5, <1>6
<1>19. \A k \in 0..(n + 2) : Numeral!taken(u)[k] <= Len(all)
  <2>8. n \in Nat
    BY <1>1
  <2>1. ASSUME NEW k \in 0..(n + 2) PROVE k = n + 2 \/ k = n + 1 \/ k \in 0..n
    BY <2>8
  <2>2. \A k \in 0..n : k \in 0..(n + 1)
    BY <1>1
  <2>3. m <= Len(all) /\ Len(all) \in Nat
    BY <1>1, <1>6
  <2>4. \A k \in 0..n : Numeral!taken(u)[k] = Numeral!taken(fmt)[k]
    BY <1>3, <1>5, <2>2
  <2>5. \A k \in 0..n : Numeral!taken(u)[k] \in Nat
    <3>1. \A k \in 0..n : k \in 0..Len(u)
      BY <1>1, <1>4
    <3>. QED
      BY <1>4, <3>1, TakenIs
  <2>6. ASSUME NEW k \in 0..n PROVE Numeral!taken(u)[k] <= Len(all)
    <3>1. Numeral!taken(u)[k] \in Nat /\ Numeral!taken(u)[k] <= m
      BY <1>1, <2>4, <2>5
    <3>. QED
      BY <1>1, <2>3, <3>1
  <2>7. Numeral!taken(u)[n + 1] <= Len(all) /\ Numeral!taken(u)[n + 2] <= Len(all)
    <3>1. Numeral!taken(u)[n + 1] = m
      BY <1>3, <1>4, <1>5
    <3>. QED
      BY <1>18, <2>3, <3>1
  <2>. QED
    BY <2>1, <2>6, <2>7
<1>20. Said(V, u, all, out \o text)
  BY <1>4, <1>5, <1>6, <1>14, <1>15, <1>16, <1>17, <1>18, <1>19 DEF Said, D
<1>. QED
  BY <1>20 DEF u, t, all

\* Sequences of two.
LEMMA TwoLong ==
  ASSUME NEW X, NEW x \in X, NEW y \in X
  PROVE  <<x>> \o <<y>> = <<x, y>> /\ Append(<<x>>, y) = <<x, y>> /\ <<>> \o <<x, y>> = <<x, y>>
<1>. DEFINE s == <<x>>  t == <<y>>  u == <<x, y>>  e == <<>>
<1>1. s \in Seq(X) /\ Len(s) = 1 /\ s[1] = x /\ t \in Seq(X) /\ Len(t) = 1 /\ t[1] = y
  OBVIOUS
<1>2. u \in Seq(X) /\ Len(u) = 2 /\ u[1] = x /\ u[2] = y
  OBVIOUS
<1>3. e \in Seq(X) /\ Len(e) = 0
  OBVIOUS
<1>. HIDE DEF s, t, u, e
<1>4. s \o t = u
  <2>. DEFINE v == s \o t
  <2>0. /\ v \in Seq(X) /\ Len(v) = Len(s) + Len(t)
        /\ \A i \in 1..(Len(s) + Len(t)) : v[i] = IF i <= Len(s) THEN s[i] ELSE t[i - Len(s)]
    BY <1>1, ConcatProperties
  <2>. HIDE DEF v
  <2>1. v \in Seq(X) /\ Len(v) = 2 /\ v[1] = x /\ v[2] = y
    <3>1. 1 \in 1..2 /\ 2 \in 1..2 /\ 2 - 1 = 1 /\ ~(2 <= 1)
      OBVIOUS
    <3>. QED
      BY <1>1, <2>0, <3>1
  <2>2. \A i \in 1..2 : v[i] = u[i]
    BY <1>2, <2>1
  <2>3. v = u
    BY <1>2, <2>1, <2>2, SeqEqual
  <2>. QED
    BY <2>3 DEF v
<1>5. Append(s, y) = u
  BY <1>1, <1>4, AppendIsConcat DEF t
<1>6. e \o u = u
  BY <1>2, <1>3, ConcatEmptySeq DEF e
<1>. QED
  BY <1>4, <1>5, <1>6 DEF s, t, u, e

-----------------------------------------------------------------------------
(* What the directives of the pieces print.                                *)

LEMMA ReverseOne == \A x : Numeral!Reverse(<<x>>) = <<x>>
<1>. SUFFICES ASSUME NEW x PROVE Numeral!Reverse(<<x>>) = <<x>>
  OBVIOUS
<1>. DEFINE s == <<x>>  r == Numeral!Reverse(s)
<1>1. s \in Seq({x}) /\ Len(s) = 1 /\ s[1] = x
  OBVIOUS
<1>. HIDE DEF s
<1>2. r \in Seq({x}) /\ Len(r) = Len(s) /\ \A i \in 1..Len(s) : r[i] = s[Len(s) - i + 1]
  BY <1>1, ReverseIs
<1>. HIDE DEF r
<1>3. r \in Seq({x}) /\ Len(r) = 1
  BY <1>1, <1>2
<1>4. r = s
  <2>1. \A i \in 1..1 : r[i] = s[i]
    <3>1. \A i \in 1..1 : r[i] \in {x} /\ s[i] \in {x}
      BY <1>1, <1>3, ElementOfSeq
    <3>. QED
      BY <3>1
  <2>. QED
    BY <1>1, <1>3, <2>1, SeqEqual
<1>. QED
  BY <1>4 DEF r, s

LEMMA SmallNumbers == -1 \in Numeral!I32 /\ 1 \in Numeral!I32 /\ 10 \in Numeral!I32
                      /\ Numeral!U32 \in Nat /\ Numeral!U32 > 16
<1>. DEFINE p == Numeral!Power[NIBBLES - 1]  q == Numeral!Power[NIBBLES - 2]
            m == Numeral!INT_MAX
<1>1. NIBBLES \in 1..NIBBLES /\ NIBBLES - 1 \in 1..NIBBLES /\ NIBBLES - 2 \in 0..NIBBLES
      /\ (NIBBLES - 1) - 1 = NIBBLES - 2
  BY FormatAssumption
<1>2. q \in Nat /\ q > 0
  BY <1>1, PowerIs, PowerIsPositive
<1>3. p = 16 * q
  <2>1. Numeral!Power[NIBBLES - 1] = 16 * Numeral!Power[(NIBBLES - 1) - 1]
    BY <1>1, PowerIs
  <2>. QED
    BY <1>1, <2>1
<1>4. Numeral!U32 = 16 * p
  BY <1>1, PowerIs DEF Numeral!U32
<1>. HIDE DEF p, q
<1>5. Numeral!U32 \in Nat /\ Numeral!U32 > 100
  BY <1>2, <1>3, <1>4
<1>6. m \in Nat /\ m >= 10
  BY <1>5, WordHalves
<1>. HIDE DEF m
<1>7. -m - 1 <= -1 /\ -1 <= m /\ -m - 1 <= 1 /\ 1 <= m /\ -m - 1 <= 10 /\ 10 <= m
  BY <1>6
<1>. QED
  BY <1>5, <1>7, I32Is DEF m

LEMMA PrintsSmall ==
  /\ Numeral!format_i32(-1) = <<Numeral!MINUS, 1>>
  /\ Numeral!format_i32(10) = <<1, 0>>
<1>. DEFINE b == 10
<1>1. b \in Nat /\ b > 1 /\ Numeral!Supported(b)
  BY DEF Numeral!Supported
<1>2. \A n : Numeral!format_i32(n) = Numeral!Sign(n, b) \o Numeral!Reverse(Numeral!Digits(n, b))
  BY <1>1 DEF Numeral!format_i32, Numeral!format_i32_base
<1>3. /\ Numeral!Quot(-1, b) = 0 /\ Numeral!Abs(Numeral!Rem(-1, b)) = 1
      /\ Numeral!Quot(1, b) = 0 /\ Numeral!Abs(Numeral!Rem(1, b)) = 1
      /\ Numeral!Quot(10, b) = 1 /\ Numeral!Abs(Numeral!Rem(10, b)) = 0
  <2>1. 1 \div 10 = 0 /\ 1 % 10 = 1 /\ 10 \div 10 = 1 /\ 10 % 10 = 0
    OBVIOUS
  <2>2. Numeral!Quot(-1, b) = 0 /\ Numeral!Rem(-1, b) = -1
    BY <2>1 DEF Numeral!Quot, Numeral!Rem
  <2>3. Numeral!Quot(1, b) = 0 /\ Numeral!Rem(1, b) = 1
    BY <2>1 DEF Numeral!Quot, Numeral!Rem
  <2>4. Numeral!Quot(10, b) = 1 /\ Numeral!Rem(10, b) = 0
    BY <2>1 DEF Numeral!Quot, Numeral!Rem
  <2>. QED
    BY <2>2, <2>3, <2>4 DEF Numeral!Abs
<1>4. Numeral!Sign(-1, b) = <<Numeral!MINUS>> /\ Numeral!Sign(10, b) = <<>>
  BY DEF Numeral!Sign
<1>. HIDE DEF b
<1>5. <<1>> \o <<>> = <<1>>
  OBVIOUS
<1>6. Numeral!Digits(-1, b) = <<1>> /\ Numeral!Digits(1, b) = <<1>>
  <2>1. Numeral!Digits(-1, b) = <<1>> \o <<>>
    BY <1>1, <1>3, SmallNumbers, DigitsRecur
  <2>2. Numeral!Digits(1, b) = <<1>> \o <<>>
    BY <1>1, <1>3, SmallNumbers, DigitsRecur
  <2>. QED
    BY <1>5, <2>1, <2>2
<1>7. Numeral!Digits(10, b) = <<0>> \o <<1>>
  <2>. DEFINE n == 10  q == Numeral!Quot(n, b)  r == Numeral!Abs(Numeral!Rem(n, b))
  <2>1. n \in Numeral!I32 /\ q = 1 /\ r = 0
    BY <1>3, SmallNumbers
  <2>. HIDE DEF n
  <2>2. Numeral!Digits(n, b) = <<r>> \o IF q = 0 THEN <<>> ELSE Numeral!Digits(q, b)
    BY <1>1, <2>1, DigitsRecur
  <2>. HIDE DEF q, r
  <2>3. q # 0
    BY <2>1
  <2>4. Numeral!Digits(q, b) = <<1>>
    BY <1>6, <2>1
  <2>5. Numeral!Digits(n, b) = <<r>> \o <<1>>
    BY <2>2, <2>3, <2>4
  <2>. QED
    BY <2>1, <2>5 DEF n
<1>. DEFINE c == Numeral!MINUS
<1>8. 0 \in Int /\ 1 \in Int /\ c \in Int
  BY DEF Numeral!MINUS
<1>9. Numeral!Reverse(<<0>> \o <<1>>) = <<1, 0>>
  <2>1. <<1>> \in Seq(Int)
    OBVIOUS
  <2>2. Numeral!Reverse(<<0>> \o <<1>>) = Append(Numeral!Reverse(<<1>>), 0)
    BY <1>8, <2>1, ReverseFront
  <2>3. Append(<<1>>, 0) = <<1, 0>>
    BY <1>8, TwoLong
  <2>. QED
    BY <2>2, <2>3, ReverseOne
<1>10. Numeral!format_i32(-1) = <<c>> \o <<1>>
  BY <1>2, <1>4, <1>6, ReverseOne
<1>11. Numeral!format_i32(10) = <<>> \o <<1, 0>>
  BY <1>2, <1>4, <1>7, <1>9
<1>. HIDE DEF c
<1>12. <<c>> \o <<1>> = <<c, 1>> /\ <<>> \o <<1, 0>> = <<1, 0>>
  BY <1>8, TwoLong
<1>. QED
  BY <1>10, <1>11, <1>12 DEF c

\* A nibble is a quotient's last digit, and the next quotient a sixteenth of it.
LEMMA QuotientsFollow ==
  ASSUME NEW n \in Nat, NEW j \in 1..NIBBLES
  PROVE  n \div Numeral!Power[j] = (n \div Numeral!Power[j - 1]) \div 16
<1>1. j - 1 \in 0..NIBBLES /\ Numeral!Power[j] = 16 * Numeral!Power[j - 1]
  BY FormatAssumption, PowerIs
<1>2. Numeral!Power[j - 1] \in Nat /\ Numeral!Power[j - 1] > 0
  BY <1>1, PowerIs, PowerIsPositive
<1>. QED
  BY <1>1, <1>2, DivideTwice

\* The nibbles of 16: one, with zeroes before it.
LEMMA NibblesOf16 ==
  /\ Nibble(16, NIBBLES - 1) = 1
  /\ \A k \in 1..(NIBBLES - 2) : Nibble(16, k) = 0
<1>. DEFINE v(j) == 16 \div Numeral!Power[j]
            S == {j \in 0..NIBBLES : v(j) = IF j = 0 THEN 16 ELSE IF j = 1 THEN 1 ELSE 0}
<1>1. NIBBLES \in Nat /\ NIBBLES > 1
  BY FormatAssumption
<1>2. 0 \in S
  BY <1>1, PowerIs
<1>3. \A j \in 1..NIBBLES : v(j) = v(j - 1) \div 16
  BY QuotientsFollow
<1>. HIDE DEF v
<1>4. ASSUME NEW j \in 1..NIBBLES, j - 1 \in S PROVE j \in S
  <2>1. v(j) = v(j - 1) \div 16 /\ j \in 0..NIBBLES
    BY <1>1, <1>3
  <2>2. 16 \div 16 = 1 /\ 1 \div 16 = 0 /\ 0 \div 16 = 0
    OBVIOUS
  <2>. QED
    BY <1>4, <2>1, <2>2
<1>5. \A j \in 0..NIBBLES : j \in S
  <2>. HIDE DEF S
  <2>. QED
    BY <1>1, <1>2, <1>4, UpTo
<1>6. \A k \in 0..NIBBLES : Nibble(16, k) = v(NIBBLES - k) % 16
  BY DEF Nibble, v
<1>7. Nibble(16, NIBBLES - 1) = 1
  <2>1. NIBBLES - 1 \in 0..NIBBLES /\ NIBBLES - (NIBBLES - 1) = 1 /\ 1 \in 0..NIBBLES
    BY <1>1
  <2>2. v(1) = 1
    BY <1>5, <2>1
  <2>3. Nibble(16, NIBBLES - 1) = 1 % 16
    BY <1>6, <2>1, <2>2
  <2>. QED
    BY <2>3
<1>8. ASSUME NEW k \in 1..(NIBBLES - 2) PROVE Nibble(16, k) = 0
  <2>1. k \in 0..NIBBLES /\ NIBBLES - k \in 0..NIBBLES /\ NIBBLES - k >= 2
    BY <1>1
  <2>2. v(NIBBLES - k) = 0
    BY <1>5, <2>1
  <2>3. Nibble(16, k) = 0 % 16
    BY <1>6, <2>1, <2>2
  <2>. QED
    BY <2>3
<1>. QED
  BY <1>7, <1>8

\* The nibbles of the greatest word are all ones.
LEMMA NibblesOfGreatest ==
  \A k \in 1..NIBBLES : Nibble(Numeral!U32 - 1, k) = 15
<1>. DEFINE n == Numeral!U32 - 1
            P(j) == Numeral!Power[j]
            v(j) == n \div P(j)
            S == {j \in 0..NIBBLES : v(j) = P(NIBBLES - j) - 1}
<1>1. NIBBLES \in Nat /\ NIBBLES > 1 /\ n \in Nat
  BY FormatAssumption, SmallNumbers
<1>2. /\ \A j \in 0..NIBBLES : P(j) \in Nat /\ P(j) > 0
      /\ P(0) = 1 /\ \A j \in 1..NIBBLES : P(j) = 16 * P(j - 1)
  BY PowerIs, PowerIsPositive
<1>3. n = P(NIBBLES) - 1
  BY DEF Numeral!U32
<1>4. \A j \in 1..NIBBLES : v(j) = v(j - 1) \div 16
  BY <1>1, QuotientsFollow
<1>5. v(0) = n
  <2>. HIDE DEF n
  <2>1. n \div 1 = n
    BY <1>1
  <2>. QED
    BY <1>2, <2>1
<1>6. \A k \in 0..NIBBLES : Nibble(n, k) = v(NIBBLES - k) % 16
  BY DEF Nibble
<1>. HIDE DEF n, P, v
<1>7. 0 \in S
  <2>1. 0 \in 0..NIBBLES /\ NIBBLES - 0 = NIBBLES
    BY <1>1
  <2>. QED
    BY <1>3, <1>5, <2>1
<1>8. ASSUME NEW j \in 1..NIBBLES, j - 1 \in S PROVE j \in S
  <2>. DEFINE p == P(NIBBLES - j)
  <2>1. j \in 0..NIBBLES /\ NIBBLES - j \in 0..NIBBLES /\ NIBBLES - (j - 1) \in 1..NIBBLES
        /\ (NIBBLES - (j - 1)) - 1 = NIBBLES - j
    BY <1>1
  <2>2. P(NIBBLES - (j - 1)) = 16 * P((NIBBLES - (j - 1)) - 1)
    BY <1>2, <2>1
  <2>3. P(NIBBLES - (j - 1)) = 16 * p /\ p \in Nat /\ p > 0
    BY <1>2, <2>1, <2>2
  <2>4. v(j) = (16 * p - 1) \div 16
    BY <1>4, <1>8, <2>3
  <2>. HIDE DEF p
  <2>5. (16 * p - 1) \div 16 = p - 1
    BY <2>3
  <2>. QED
    BY <2>1, <2>4, <2>5 DEF p
<1>9. \A j \in 0..NIBBLES : j \in S
  <2>. HIDE DEF S
  <2>. QED
    BY <1>1, <1>7, <1>8, UpTo
<1>10. ASSUME NEW k \in 1..NIBBLES PROVE Nibble(n, k) = 15
  <2>. DEFINE p == P(k - 1)
  <2>1. k \in 0..NIBBLES /\ k - 1 \in 0..NIBBLES /\ NIBBLES - k \in 0..NIBBLES
        /\ NIBBLES - (NIBBLES - k) = k
    BY <1>1
  <2>2. p \in Nat /\ p > 0 /\ P(k) = 16 * p
    BY <1>2, <2>1
  <2>3. v(NIBBLES - k) = P(k) - 1
    BY <1>9, <2>1
  <2>4. Nibble(n, k) = (16 * p - 1) % 16
    BY <1>6, <2>1, <2>2, <2>3
  <2>. HIDE DEF p
  <2>5. (16 * p - 1) % 16 = 15
    BY <2>2
  <2>. QED
    BY <2>4, <2>5
<1>. QED
  BY <1>10 DEF n

\* As long as the nibbles are the same, they are printed alike.
Filled(m, d) == [i \in 1..m |-> d]
Alike(n, m, d) == \A k \in 1..m : Nibble(n, k) = d
HexTurns(n, noZeroes, f, m) ==
  f[0] = <<>> /\ \A k \in 1..m : f[k] = HexNext(n, noZeroes, f[k - 1], k)

LEMMA HexFills ==
  ASSUME NEW n \in Nat, NEW noZeroes \in BOOLEAN, NEW m \in Nat, NEW d \in 0..15,
         Alike(n, m, d), noZeroes => d # 0, NEW f, HexTurns(n, noZeroes, f, m)
  PROVE  f[m] = Filled(m, d)
<1>. USE DEF Alike, HexTurns, Filled
<1>. DEFINE all(k) == [i \in 1..k |-> d]
            S == {k \in 0..m : f[k] = all(k)}
<1>1. 0 \in S
  <2>1. all(0) = <<>>
    OBVIOUS
  <2>. HIDE DEF all
  <2>. QED
    BY <2>1
<1>2. ASSUME NEW k \in 1..m, k - 1 \in S PROVE k \in S
  <2>1. f[k - 1] = all(k - 1) /\ k \in 0..m /\ k - 1 \in Nat
    BY <1>2
  <2>2. f[k] = Append(all(k - 1), d)
    <3>. HIDE DEF all
    <3>. QED
      BY <2>1 DEF HexNext
  <2>3. Append(all(k - 1), d) = all(k)
    <3>1. all(k - 1) \in Seq(0..15) /\ Len(all(k - 1)) = k - 1
      BY <2>1
    <3>2. all(k) \in Seq(0..15) /\ Len(all(k)) = k /\ \A i \in 1..k : all(k)[i] = d
      BY <2>1
    <3>. DEFINE a == Append(all(k - 1), d)  u == all(k - 1)
    <3>3. \A i \in 1..(k - 1) : u[i] = d
      OBVIOUS
    <3>4. u \in Seq(0..15) /\ Len(u) = k - 1
      BY <3>1
    <3>. HIDE DEF u
    <3>5. Append(u, d) \in Seq(0..15) /\ Len(Append(u, d)) = k
          /\ \A i \in 1..k : Append(u, d)[i] = d
      <4>1. /\ Append(u, d) \in Seq(0..15) /\ Len(Append(u, d)) = (k - 1) + 1
            /\ \A i \in 1..(k - 1) : Append(u, d)[i] = u[i]
            /\ Append(u, d)[(k - 1) + 1] = d
        BY <3>4, AppendProperties
      <4>2. \A i \in 1..k : i \in 1..(k - 1) \/ i = (k - 1) + 1
        BY <2>1
      <4>. QED
        BY <2>1, <3>3, <4>1, <4>2
    <3>. DEFINE w == all(k)
    <3>6. w \in Seq(0..15) /\ Len(w) = k /\ \A i \in 1..k : w[i] = d
      BY <3>2
    <3>. HIDE DEF w
    <3>7. Append(u, d) = w
      BY <3>5, <3>6, SeqEqual
    <3>. QED
      BY <3>7 DEF u, w
  <2>. HIDE DEF all
  <2>. QED
    BY <2>1, <2>2, <2>3
<1>3. \A k \in 0..m : k \in S
  <2>. HIDE DEF S
  <2>. QED
    BY <1>1, <1>2, UpTo
<1>. QED
  BY <1>3

-----------------------------------------------------------------------------
LEMMA Regroup ==
  ASSUME NEW s \in Seq(Nat), NEW t \in Seq(Nat), NEW u \in Seq(Nat)
  PROVE  (s \o t) \o u = s \o (t \o u)
<1>. DEFINE a == s \o t  b == t \o u  v == a \o u  w == s \o b
            l == Len(s)  m == Len(t)  n == Len(u)
<1>1. l \in Nat /\ m \in Nat /\ n \in Nat
  OBVIOUS
<1>2. a \in Seq(Nat) /\ Len(a) = l + m
      /\ \A i \in 1..(l + m) : a[i] = IF i <= l THEN s[i] ELSE t[i - l]
  BY ConcatProperties
<1>3. b \in Seq(Nat) /\ Len(b) = m + n
      /\ \A i \in 1..(m + n) : b[i] = IF i <= m THEN t[i] ELSE u[i - m]
  BY ConcatProperties
<1>. HIDE DEF a, b
<1>9. a \in Seq(Nat) /\ b \in Seq(Nat)
  BY <1>2, <1>3
<1>4. v \in Seq(Nat) /\ Len(v) = Len(a) + Len(u)
      /\ \A i \in 1..(Len(a) + Len(u)) : v[i] = IF i <= Len(a) THEN a[i] ELSE u[i - Len(a)]
  BY <1>9, ConcatProperties
<1>5. w \in Seq(Nat) /\ Len(w) = Len(s) + Len(b)
      /\ \A i \in 1..(Len(s) + Len(b)) : w[i] = IF i <= Len(s) THEN s[i] ELSE b[i - Len(s)]
  BY <1>9, ConcatProperties
<1>10. Len(u) = n /\ Len(s) = l
  OBVIOUS
<1>. HIDE DEF v, w, l, m, n
<1>6. ASSUME NEW i \in 1..(l + m + n) PROVE v[i] = w[i]
  <2>1. CASE i <= l
    <3>1. i \in 1..(l + m) /\ i \in 1..(Len(a) + n) /\ i \in 1..(l + Len(b))
          /\ i <= Len(a)
      BY <1>1, <1>2, <1>3, <1>10, <2>1
    <3>. QED
      BY <1>2, <1>4, <1>5, <1>10, <2>1, <3>1
  <2>2. CASE l < i /\ i <= l + m
    <3>1. i \in 1..(l + m) /\ i \in 1..(Len(a) + n) /\ i \in 1..(l + Len(b))
          /\ i <= Len(a)
          /\ i - l \in 1..(m + n) /\ i - l <= m /\ ~(i <= l)
      BY <1>1, <1>2, <1>3, <1>10, <2>2
    <3>. QED
      BY <1>2, <1>3, <1>4, <1>5, <1>10, <3>1
  <2>3. CASE l + m < i
    <3>1. i \in 1..(Len(a) + n) /\ i \in 1..(l + Len(b)) /\ ~(i <= Len(a)) /\ ~(i <= l)
          /\ i - l \in 1..(m + n) /\ ~(i - l <= m) /\ (i - l) - m = i - Len(a)
      BY <1>1, <1>2, <1>3, <1>10, <2>3
    <3>. QED
      BY <1>2, <1>3, <1>4, <1>5, <1>10, <3>1
  <2>. QED
    BY <1>1, <2>1, <2>2, <2>3
<1>7. Len(v) = l + m + n /\ Len(w) = l + m + n
  <2>1. Len(v) = (l + m) + n
    BY <1>2, <1>4, <1>10
  <2>2. Len(w) = l + (m + n)
    BY <1>3, <1>5, <1>10
  <2>. QED
    BY <1>1, <2>1, <2>2
<1>8. v = w
  BY <1>4, <1>5, <1>6, <1>7, SeqEqual
<1>. QED
  BY <1>8 DEF a, b, v, w

LEMMA FourLong ==
  ASSUME NEW X, NEW a \in X, NEW b \in X, NEW c \in X, NEW d \in X
  PROVE  <<a, b>> \o <<c, d>> = <<a, b, c, d>>
<1>. DEFINE s == <<a, b>>  t == <<c, d>>  u == <<a, b, c, d>>  v == s \o t
<1>1. s \in Seq(X) /\ Len(s) = 2 /\ s[1] = a /\ s[2] = b
  OBVIOUS
<1>2. t \in Seq(X) /\ Len(t) = 2 /\ t[1] = c /\ t[2] = d
  OBVIOUS
<1>3. u \in Seq(X) /\ Len(u) = 4 /\ u[1] = a /\ u[2] = b /\ u[3] = c /\ u[4] = d
  OBVIOUS
<1>. HIDE DEF s, t, u
<1>4. /\ v \in Seq(X) /\ Len(v) = Len(s) + Len(t)
      /\ \A k \in 1..(Len(s) + Len(t)) : v[k] = IF k <= Len(s) THEN s[k] ELSE t[k - Len(s)]
  BY <1>1, <1>2, ConcatProperties
<1>. HIDE DEF v
<1>5. Len(v) = 4 /\ \A k \in 1..4 : k = 1 \/ k = 2 \/ k = 3 \/ k = 4
  BY <1>1, <1>2, <1>4
<1>6. \A k \in 1..4 : v[k] = u[k]
  BY <1>1, <1>2, <1>3, <1>4, <1>5
<1>7. v = u
  BY <1>3, <1>4, <1>5, <1>6, SeqEqual
<1>. QED
  BY <1>7 DEF s, t, u, v

\* What the directives print of their arguments.
LEMMA WordsWrap ==
  /\ (-1) % Numeral!U32 = Numeral!U32 - 1 /\ 16 % Numeral!U32 = 16 /\ 0 % Numeral!U32 = 0
<1>. DEFINE w == Numeral!U32
<1>1. w \in Nat /\ w > 16
  BY SmallNumbers
<1>. HIDE DEF w
<1>2. 16 % w = 16 /\ 0 % w = 0
  BY <1>1
<1>3. (-1) % w = w - 1
  BY <1>1
<1>. QED
  BY <1>2, <1>3 DEF w

LEMMA PrintsGreatest ==
  Numeral!format_h32(Numeral!U32 - 1, TRUE) = <<0, 33>> \o [k \in 1..NIBBLES |-> 15]
<1>. DEFINE n == Numeral!U32 - 1
            m == NIBBLES - 1
            all == [k \in 1..NIBBLES |-> 15]
            front == [k \in 1..m |-> 15]
            o == <<0, 33>>
            l == <<15>>
<1>1. n \in Nat /\ m \in Nat /\ 15 \in 0..15 /\ NIBBLES = m + 1 /\ NIBBLES \in 1..NIBBLES
  BY FormatAssumption, SmallNumbers
<1>2. \A k \in 1..NIBBLES : Nibble(n, k) = 15
  BY NibblesOfGreatest
<1>3. n % 16 = 15
  <2>1. Nibble(n, NIBBLES) = 15
    BY <1>1, <1>2
  <2>2. NIBBLES - NIBBLES = 0 /\ Numeral!Power[0] = 1
    BY FormatAssumption, PowerIs
  <2>3. (n \div 1) % 16 = 15
    BY <2>1, <2>2 DEF Nibble
  <2>. HIDE DEF n
  <2>4. n \div 1 = n
    BY <1>1
  <2>. QED
    BY <2>3, <2>4
<1>4. Numeral!HexFront(n, TRUE) = front
  <2>1. PICK f : /\ f[0] = <<>> /\ Numeral!HexFront(n, TRUE) = f[NIBBLES - 1]
                 /\ \A k \in 1..(NIBBLES - 1) : f[k] = HexNext(n, TRUE, f[k - 1], k)
    BY <1>1, HexRolls
  <2>2. \A k \in 1..m : Nibble(n, k) = 15
    BY <1>1, <1>2
  <2>. HIDE DEF n
  <2>. DEFINE z == TRUE
  <2>4. z \in BOOLEAN /\ (z => 15 # 0)
    OBVIOUS
  <2>5. \A k \in 1..m : f[k] = HexNext(n, z, f[k - 1], k)
    BY <2>1
  <2>6. f[0] = <<>> /\ Numeral!HexFront(n, TRUE) = f[m]
    BY <2>1
  <2>7. Alike(n, m, 15) /\ HexTurns(n, z, f, m)
    BY <2>2, <2>5, <2>6 DEF Alike, HexTurns
  <2>. HIDE DEF m, z
  <2>3. f[m] = Filled(m, 15)
    BY <1>1, <2>4, <2>7, HexFills
  <2>. QED
    BY <2>3, <2>6 DEF Filled
<1>5. o \in Seq(Nat) /\ front \in Seq(Nat) /\ l \in Seq(Nat)
  BY <1>1
<1>6. front \o l = all
  <2>. DEFINE v == front \o l
  <2>1. Len(front) = m /\ Len(l) = 1 /\ l[1] = 15 /\ \A k \in 1..m : front[k] = 15
    BY <1>1
  <2>2. all \in Seq(Nat) /\ Len(all) = NIBBLES /\ \A k \in 1..NIBBLES : all[k] = 15
    BY <1>1
  <2>. HIDE DEF front, l, all
  <2>3. v \in Seq(Nat) /\ Len(v) = Len(front) + Len(l)
        /\ \A k \in 1..(Len(front) + Len(l)) :
             v[k] = IF k <= Len(front) THEN front[k] ELSE l[k - Len(front)]
    BY <1>5, ConcatProperties
  <2>. HIDE DEF v
  <2>7. ASSUME NEW k \in 1..NIBBLES PROVE v[k] = 15
    <3>. HIDE DEF m
    <3>1. k \in 1..(m + 1) /\ (k \in 1..m \/ k = m + 1) /\ (m + 1) - m = 1
      BY <1>1
    <3>. QED
      BY <1>1, <2>1, <2>3, <3>1
  <2>4. \A k \in 1..NIBBLES : v[k] = all[k]
    BY <2>2, <2>7
  <2>5. Len(v) = NIBBLES
    BY <1>1, <2>1, <2>3
  <2>6. v = all
    BY <2>2, <2>3, <2>4, <2>5, SeqEqual
  <2>. QED
    BY <2>6 DEF v
<1>7. Numeral!format_h32(n, TRUE) = o \o front \o l
  BY <1>3, <1>4 DEF Numeral!format_h32
<1>. HIDE DEF o, front, l
<1>8. (o \o front) \o l = o \o (front \o l)
  BY <1>5, Regroup, ZenonT(60)
<1>. QED
  BY <1>6, <1>7, <1>8 DEF o

LEMMA PrintsSixteen ==
  /\ Numeral!format_h32(16, TRUE) = <<0, 33, 1, 0>>
  /\ Numeral!format_h32(16, FALSE) = <<0, 33>> \o [k \in 1..(NIBBLES - 2) |-> 0] \o <<1, 0>>
<1>. DEFINE n == 16
            m == NIBBLES - 2
            zeros == [k \in 1..m |-> 0]
            o == <<0, 33>>
<1>1. /\ n \in Nat /\ m \in Nat /\ NIBBLES - 1 = m + 1 /\ 0 \in 0..15 /\ n % 16 = 0
      /\ \A k \in 1..m : k \in 1..(NIBBLES - 1)
      /\ NIBBLES - 1 \in 1..(NIBBLES - 1) /\ (NIBBLES - 1) - 1 = m
  BY FormatAssumption
<1>2. Nibble(n, NIBBLES - 1) = 1 /\ \A k \in 1..m : Nibble(n, k) = 0
  BY NibblesOf16
<1>3. \A z : Numeral!format_h32(n, z) = (o \o Numeral!HexFront(n, z)) \o <<0>>
  BY <1>1 DEF Numeral!format_h32
<1>. HIDE DEF n
<1>4. Numeral!HexFront(n, TRUE) = <<1>>
  <2>1. PICK f : /\ f[0] = <<>> /\ Numeral!HexFront(n, TRUE) = f[NIBBLES - 1]
                 /\ \A k \in 1..(NIBBLES - 1) : f[k] = HexNext(n, TRUE, f[k - 1], k)
    BY <1>1, HexRolls
  <2>. DEFINE S == {k \in 0..m : f[k] = <<>>}
  <2>2. 0 \in S
    BY <1>1, <2>1
  <2>3. ASSUME NEW k \in 1..m, k - 1 \in S PROVE k \in S
    <3>1. f[k] = HexNext(n, TRUE, f[k - 1], k) /\ Nibble(n, k) = 0 /\ f[k - 1] = <<>>
      BY <1>1, <1>2, <2>1, <2>3
    <3>2. k \in 0..m
      BY <1>1
    <3>. QED
      BY <3>1, <3>2 DEF HexNext
  <2>4. m \in S
    <3>1. m \in 0..m
      BY <1>1
    <3>. HIDE DEF S
    <3>. QED
      BY <1>1, <2>2, <2>3, <3>1, UpTo
  <2>5. f[NIBBLES - 1] = HexNext(n, TRUE, <<>>, NIBBLES - 1)
    BY <1>1, <2>1, <2>4
  <2>6. f[NIBBLES - 1] = Append(<<>>, 1)
    BY <1>2, <2>5 DEF HexNext
  <2>7. Append(<<>>, 1) = <<1>>
    OBVIOUS
  <2>. QED
    BY <2>1, <2>6, <2>7
<1>5. Numeral!HexFront(n, FALSE) = Append(zeros, 1)
  <2>1. PICK f : /\ f[0] = <<>> /\ Numeral!HexFront(n, FALSE) = f[NIBBLES - 1]
                 /\ \A k \in 1..(NIBBLES - 1) : f[k] = HexNext(n, FALSE, f[k - 1], k)
    BY <1>1, HexRolls
  <2>2. \A k \in 1..m : f[k] = HexNext(n, FALSE, f[k - 1], k)
    BY <1>1, <2>1
  <2>. DEFINE z == FALSE  d == 0
  <2>5. z \in BOOLEAN /\ d \in 0..15 /\ (z => d # 0)
    OBVIOUS
  <2>6. \A k \in 1..m : f[k] = HexNext(n, z, f[k - 1], k)
    BY <2>2
  <2>7. Alike(n, m, d) /\ HexTurns(n, z, f, m)
    BY <1>2, <2>1, <2>6 DEF Alike, HexTurns
  <2>. HIDE DEF m, z, d
  <2>3. f[m] = Filled(m, d)
    <3>1. n \in Nat /\ m \in Nat
      BY <1>1
    <3>. QED
      BY <2>5, <2>7, <3>1, HexFills, SMTT(30)
  <2>4. f[NIBBLES - 1] = HexNext(n, FALSE, zeros, NIBBLES - 1)
    BY <1>1, <2>1, <2>3 DEF Filled, d
  <2>. HIDE DEF zeros
  <2>. QED
    BY <1>2, <2>1, <2>4 DEF HexNext
<1>. DEFINE i == <<1>>  z == <<0>>
<1>6. o \in Seq(Nat) /\ zeros \in Seq(Nat) /\ i \in Seq(Nat) /\ z \in Seq(Nat) /\ 1 \in Nat
  BY <1>1
<1>7. i \o z = <<1, 0>>
  <2>1. 0 \in Nat /\ 1 \in Nat
    OBVIOUS
  <2>. QED
    BY <2>1, TwoLong
<1>8. o \o <<1, 0>> = <<0, 33, 1, 0>>
  <2>1. 0 \in Nat /\ 33 \in Nat /\ 1 \in Nat
    OBVIOUS
  <2>. QED
    BY <2>1, FourLong, ZenonT(60)
<1>9. Append(zeros, 1) = zeros \o i
  <2>. HIDE DEF zeros
  <2>. QED
    BY <1>6, AppendIsConcat
<1>. HIDE DEF o, i, z, zeros
<1>10. (o \o i) \o z = o \o (i \o z)
  BY <1>6, Regroup, ZenonT(60)
<1>11. (o \o (zeros \o i)) \o z = (o \o zeros) \o (i \o z)
  <2>1. o \o (zeros \o i) = (o \o zeros) \o i
    BY <1>6, Regroup, ZenonT(60)
  <2>2. o \o zeros \in Seq(Nat)
    BY <1>6, ConcatProperties
  <2>3. ((o \o zeros) \o i) \o z = (o \o zeros) \o (i \o z)
    BY <1>6, <2>2, Regroup, ZenonT(60)
  <2>. QED
    BY <2>1, <2>3
<1>12. Numeral!format_h32(n, TRUE) = <<0, 33, 1, 0>>
  BY <1>3, <1>4, <1>7, <1>8, <1>10 DEF i, z
<1>13. Numeral!format_h32(n, FALSE) = (o \o zeros) \o <<1, 0>>
  BY <1>3, <1>5, <1>7, <1>9, <1>11 DEF i, z
<1>. QED
  BY <1>12, <1>13 DEF n, o, zeros

-----------------------------------------------------------------------------
\* A piece is a character, or a directive that prints its argument, if it takes one.
ArgValues == Int \cup Seq(Nat)
Tells(d, args, out) ==
  IF d \in Numeral!Takes
  THEN Len(args) = 1 /\ out = Numeral!Directive(d, args[1])
  ELSE Len(args) = 0 /\ out = IF d = Numeral!PERCENT THEN <<Numeral!PERCENT>> ELSE <<>>
Directs(p) ==
  \E d \in Nat : /\ p.text = <<Numeral!PERCENT, d>> /\ p.args \in Seq(ArgValues)
                 /\ p.out \in Seq(Nat) /\ Tells(d, p.args, p.out)
Speaks(p) ==
  \/ p.text = <<13>> /\ p.args = <<>> /\ p.out = <<13>>
  \/ Directs(p)
Spoken == {p \in [text : Seq(Nat), args : Seq(ArgValues), out : Seq(Nat)] : Speaks(p)}

LEMMA DirectivePiece ==
  ASSUME NEW d \in Numeral!Takes, NEW a \in ArgValues, NEW out \in Seq(Nat),
         out = Numeral!Directive(d, a)
  PROVE  Numeral!Piece(<<Numeral!PERCENT, d>>, <<a>>, out) \in Spoken
<1>. DEFINE t == <<Numeral!PERCENT, d>>  s == <<a>>  p == Numeral!Piece(t, s, out)
<1>1. s \in Seq(ArgValues) /\ Len(s) = 1 /\ s[1] = a
  OBVIOUS
<1>2. d \in Nat
  BY DEF Numeral!Takes
<1>. HIDE DEF s
<1>3. Tells(d, s, out)
  BY <1>1 DEF Tells
<1>6. t \in Seq(Nat)
  <2>1. Numeral!PERCENT \in Nat /\ d \in Nat
    BY DEF Numeral!PERCENT, Numeral!Takes
  <2>. QED
    BY <2>1
<1>. HIDE DEF t
<1>7. p \in [text : Seq(Nat), args : Seq(ArgValues), out : Seq(Nat)]
  BY <1>1, <1>6 DEF Numeral!Piece
<1>4. p.text = t /\ p.args = s /\ p.out = out
  BY DEF Numeral!Piece
<1>. HIDE DEF p
<1>5. Directs(p)
  BY <1>1, <1>2, <1>3, <1>4 DEF Directs, t
<1>. QED
  BY <1>5, <1>7 DEF Spoken, Speaks, p, t, s

LEMMA EscapePiece ==
  ASSUME NEW d \in Nat, d \notin Numeral!Takes, NEW out \in Seq(Nat),
         out = IF d = Numeral!PERCENT THEN <<Numeral!PERCENT>> ELSE <<>>
  PROVE  Numeral!Piece(<<Numeral!PERCENT, d>>, <<>>, out) \in Spoken
<1>. DEFINE t == <<Numeral!PERCENT, d>>  s == <<>>  p == Numeral!Piece(t, s, out)
<1>1. s \in Seq(ArgValues) /\ Len(s) = 0
  OBVIOUS
<1>. HIDE DEF s
<1>3. Tells(d, s, out)
  BY <1>1 DEF Tells
<1>6. t \in Seq(Nat)
  <2>1. Numeral!PERCENT \in Nat /\ d \in Nat
    BY DEF Numeral!PERCENT, Numeral!Takes
  <2>. QED
    BY <2>1
<1>. HIDE DEF t
<1>7. p \in [text : Seq(Nat), args : Seq(ArgValues), out : Seq(Nat)]
  BY <1>1, <1>6 DEF Numeral!Piece
<1>4. p.text = t /\ p.args = s /\ p.out = out
  BY DEF Numeral!Piece
<1>. HIDE DEF p
<1>5. Directs(p)
  BY <1>1, <1>3, <1>4 DEF Directs, t
<1>. QED
  BY <1>5, <1>7 DEF Spoken, Speaks, p, t, s

LEMMA TenLong ==
  ASSUME NEW S, NEW a, NEW b, NEW c, NEW d, NEW e, NEW f, NEW g, NEW h, NEW i, NEW j,
         {a, b, c, d, e, f, g, h, i, j} \subseteq S
  PROVE  <<a, b, c, d, e, f, g, h, i, j>> \in Seq(S) /\ Len(<<a, b, c, d, e, f, g, h, i, j>>) = 10
OBVIOUS


LEMMA FixedPieces == Numeral!Fixed \in Seq(Spoken) /\ Len(Numeral!Fixed) = 10
<1>. USE DEF ArgValues
<1>1. Numeral!Piece(<<13>>, <<>>, <<13>>) \in Spoken
  <2>. DEFINE c == <<13>>  e == <<>>
  <2>1. c \in Seq(Nat) /\ e \in Seq(ArgValues)
    OBVIOUS
  <2>. HIDE DEF c, e, ArgValues
  <2>2. Numeral!Piece(c, e, c) \in Spoken
    BY <2>1 DEF Spoken, Speaks, Numeral!Piece, c, e
  <2>. QED
    BY <2>2 DEF c, e
<1>2. /\ Numeral!Piece(<<Numeral!PERCENT, Numeral!PERCENT>>, <<>>, <<Numeral!PERCENT>>) \in Spoken
      /\ Numeral!Piece(<<Numeral!PERCENT, 10>>, <<>>, <<>>) \in Spoken
  <2>1. /\ Numeral!PERCENT \in Nat /\ Numeral!PERCENT \notin Numeral!Takes
        /\ 10 \in Nat /\ 10 \notin Numeral!Takes /\ 10 # Numeral!PERCENT
    BY DEF Numeral!PERCENT, Numeral!Takes
  <2>2. <<Numeral!PERCENT>> \in Seq(Nat) /\ <<>> \in Seq(Nat)
    BY <2>1
  <2>. QED
    BY <2>1, <2>2, EscapePiece
<1>3. {12, 28, 33, 13, 25} = Numeral!Takes
  BY DEF Numeral!Takes
<1>4. 25 \in ArgValues /\ -1 \in ArgValues /\ 10 \in ArgValues /\ 16 \in ArgValues /\ 0 \in ArgValues
  OBVIOUS
<1>5. Numeral!Piece(<<Numeral!PERCENT, 12>>, <<25>>, <<25>>) \in Spoken
  <2>1. Numeral!Directive(12, 25) = <<25>>
    BY DEF Numeral!Directive, Numeral!format_char
  <2>2. 12 \in Numeral!Takes /\ <<25>> \in Seq(Nat)
    BY <1>3
  <2>. QED
    BY <1>4, <2>1, <2>2, DirectivePiece
<1>6. /\ Numeral!Piece(<<Numeral!PERCENT, 13>>, <<-1>>, <<Numeral!MINUS, 1>>) \in Spoken
      /\ Numeral!Piece(<<Numeral!PERCENT, 13>>, <<10>>, <<1, 0>>) \in Spoken
  <2>1. \A a : Numeral!Directive(13, a) = Numeral!format_i32(a)
    BY DEF Numeral!Directive
  <2>2. 13 \in Numeral!Takes /\ <<Numeral!MINUS, 1>> \in Seq(Nat) /\ <<1, 0>> \in Seq(Nat)
    BY <1>3 DEF Numeral!MINUS
  <2>. QED
    BY <1>4, <2>1, <2>2, PrintsSmall, DirectivePiece
<1>. DEFINE ones == <<0, 33>> \o [k \in 1..NIBBLES |-> 15]
            padded == <<0, 33>> \o [k \in 1..(NIBBLES - 2) |-> 0] \o <<1, 0>>
<1>7. ones \in Seq(Nat) /\ padded \in Seq(Nat)
  <2>1. NIBBLES \in Nat /\ NIBBLES - 2 \in Nat
    BY FormatAssumption
  <2>2. /\ [k \in 1..NIBBLES |-> 15] \in Seq(Nat) /\ [k \in 1..(NIBBLES - 2) |-> 0] \in Seq(Nat)
        /\ <<0, 33>> \in Seq(Nat) /\ <<1, 0>> \in Seq(Nat)
    BY <2>1
  <2>. QED
    BY <2>2, ConcatProperties
<1>8. /\ Numeral!Piece(<<Numeral!PERCENT, 33>>, <<-1>>, ones) \in Spoken
      /\ Numeral!Piece(<<Numeral!PERCENT, 33>>, <<16>>, <<0, 33, 1, 0>>) \in Spoken
  <2>1. \A a : Numeral!Directive(33, a) = Numeral!format_h32(a % Numeral!U32, TRUE)
    BY DEF Numeral!Directive
  <2>2. 33 \in Numeral!Takes /\ <<0, 33, 1, 0>> \in Seq(Nat)
    BY <1>3
  <2>3. Numeral!Directive(33, -1) = ones
    BY <2>1, WordsWrap, PrintsGreatest
  <2>4. Numeral!Directive(33, 16) = <<0, 33, 1, 0>>
    BY <2>1, WordsWrap, PrintsSixteen
  <2>. HIDE DEF ones
  <2>. QED
    BY <1>4, <1>7, <2>2, <2>3, <2>4, DirectivePiece
<1>. DEFINE nil == <<Numeral!LEFT, 23, 18, 21, Numeral!RIGHT>>
<1>9. /\ Numeral!Piece(<<Numeral!PERCENT, 25>>, <<0>>, nil) \in Spoken
      /\ Numeral!Piece(<<Numeral!PERCENT, 25>>, <<16>>, padded) \in Spoken
  <2>1. \A a : Numeral!Directive(25, a) = Numeral!format_pointer(a % Numeral!U32)
    BY DEF Numeral!Directive
  <2>2. 25 \in Numeral!Takes /\ nil \in Seq(Nat)
    BY <1>3 DEF Numeral!LEFT, Numeral!RIGHT
  <2>3. Numeral!Directive(25, 0) = nil
    BY <2>1, WordsWrap DEF Numeral!format_pointer
  <2>4. Numeral!Directive(25, 16) = padded
    <3>1. Numeral!Directive(25, 16) = Numeral!format_pointer(16)
      BY <2>1, WordsWrap
    <3>2. Numeral!format_pointer(16) = Numeral!format_h32(16, FALSE)
      BY DEF Numeral!format_pointer
    <3>. QED
      BY <3>1, <3>2, PrintsSixteen
  <2>. HIDE DEF nil, padded
  <2>. QED
    BY <1>4, <1>7, <2>2, <2>3, <2>4, DirectivePiece
<1>. HIDE DEF ArgValues
<1>. QED
  BY <1>1, <1>2, <1>5, <1>6, <1>8, <1>9, TenLong DEF Numeral!Fixed

LEMMA PiecesSpeak == Numeral!Pieces \in Seq(Spoken)
<1>. DEFINE P(i) == Numeral!Piece(<<Numeral!PERCENT, 28>>, <<Texts[i]>>, Texts[i])
            s == [i \in DOMAIN Texts |-> P(i)]
<1>1. /\ Texts \in Seq(Seq(Nat)) /\ Len(Texts) \in Nat /\ DOMAIN Texts = 1..Len(Texts)
      /\ \A i \in DOMAIN Texts : Texts[i] \in Seq(Nat)
  BY FormatAssumption, ElementOfSeq
<1>2. ASSUME NEW i \in DOMAIN Texts PROVE P(i) \in Spoken
  <2>1. Texts[i] \in Seq(Nat) /\ Texts[i] \in ArgValues
    BY <1>1 DEF ArgValues
  <2>2. 28 \in Numeral!Takes
    BY DEF Numeral!Takes
  <2>3. Numeral!Directive(28, Texts[i]) = Texts[i]
    BY DEF Numeral!Directive, Numeral!format_string
  <2>. QED
    BY <2>1, <2>2, <2>3, DirectivePiece
<1>. HIDE DEF P
<1>3. s \in Seq(Spoken)
  BY <1>1, <1>2
<1>4. Numeral!Pieces = Numeral!Fixed \o s
  BY DEF Numeral!Pieces, P
<1>. HIDE DEF s
<1>. QED
  BY <1>3, <1>4, FixedPieces, ConcatProperties

\* What is said of the pieces before is said of one more.
LEMMA SaysPiece ==
  ASSUME NEW fmt, NEW args, NEW out, Said(ArgValues, fmt, args, out), NEW p \in Spoken
  PROVE  Said(ArgValues, fmt \o p.text, args \o p.args, out \o p.out)
<1>1. fmt \in Seq(Nat) /\ args \in Seq(ArgValues) /\ out \in Seq(Nat)
  BY DEF Said
<1>2. CASE p.text = <<13>> /\ p.args = <<>> /\ p.out = <<13>>
  <2>. DEFINE c == 13
  <2>1. c \in Nat /\ c # Numeral!PERCENT
    BY DEF Numeral!PERCENT
  <2>. HIDE DEF c
  <2>2. fmt \o <<c>> = Append(fmt, c) /\ out \o <<c>> = Append(out, c)
    BY <1>1, <2>1, AppendIsConcat
  <2>3. args \o <<>> = args
    BY <1>1, ConcatEmptySeq
  <2>4. Said(ArgValues, Append(fmt, c), args, Append(out, c))
    BY <2>1, SaysCharacter
  <2>5. Said(ArgValues, fmt \o <<c>>, args \o <<>>, out \o <<c>>)
    BY <2>2, <2>3, <2>4
  <2>. QED
    BY <1>2, <2>5 DEF c
<1>3. CASE Directs(p)
  <2>1. PICK d \in Nat : /\ p.text = <<Numeral!PERCENT, d>> /\ p.args \in Seq(ArgValues)
                         /\ p.out \in Seq(Nat) /\ Tells(d, p.args, p.out)
    BY <1>3 DEF Directs
  <2>. DEFINE more == p.args  text == p.out  c == Numeral!PERCENT
  <2>2. c \in Nat
    BY DEF Numeral!PERCENT
  <2>3. IF d \in Numeral!Takes
        THEN Len(more) = 1 /\ text = Numeral!Directive(d, more[1])
        ELSE Len(more) = 0 /\ text = IF d = Numeral!PERCENT THEN <<Numeral!PERCENT>> ELSE <<>>
    BY <2>1 DEF Tells
  <2>4. more \in Seq(ArgValues) /\ text \in Seq(Nat)
    BY <2>1
  <2>. HIDE DEF more, text
  <2>5. Said(ArgValues, Append(Append(fmt, c), d), args \o more, out \o text)
    BY <2>3, <2>4, SaysDirective
  <2>. HIDE DEF c
  <2>6. Append(Append(fmt, c), d) = fmt \o <<c, d>>
    <3>1. Append(fmt, c) = fmt \o <<c>> /\ <<c>> \in Seq(Nat) /\ <<d>> \in Seq(Nat)
      BY <1>1, <2>2, AppendIsConcat
    <3>2. fmt \o <<c>> \in Seq(Nat)
      BY <1>1, <3>1, ConcatProperties
    <3>3. Append(fmt \o <<c>>, d) = (fmt \o <<c>>) \o <<d>>
      BY <3>2, AppendIsConcat
    <3>4. (fmt \o <<c>>) \o <<d>> = fmt \o (<<c>> \o <<d>>)
      BY <1>1, <3>1, Regroup
    <3>5. <<c>> \o <<d>> = <<c, d>>
      BY <2>2, TwoLong
    <3>. QED
      BY <3>1, <3>3, <3>4, <3>5
  <2>. QED
    BY <2>1, <2>5, <2>6 DEF c, more, text
<1>. QED
  BY <1>2, <1>3 DEF Spoken, Speaks

\* A list of values, one place longer.
LEMMA FunctionGrows ==
  ASSUME NEW X, NEW k \in Nat \ {0}, NEW f \in [1..k -> X], NEW g \in [1..(k - 1) -> X],
         \A i \in 1..(k - 1) : g[i] = f[i]
  PROVE  f = Append(g, f[k])
<1>. DEFINE h == Append(g, f[k])
<1>1. /\ k \in 1..k /\ f \in Seq(X) /\ Len(f) = k /\ f[k] \in X
      /\ g \in Seq(X) /\ Len(g) = k - 1 /\ (k - 1) + 1 = k
      /\ \A i \in 1..k : i \in 1..(k - 1) \/ i = k
  OBVIOUS
<1>2. /\ h \in Seq(X) /\ Len(h) = Len(g) + 1 /\ h[Len(g) + 1] = f[k]
      /\ \A i \in 1..Len(g) : h[i] = g[i]
  BY <1>1, AppendProperties
<1>. HIDE DEF h
<1>3. \A i \in 1..k : h[i] = f[i]
  BY <1>1, <1>2
<1>4. f = h
  BY <1>1, <1>2, <1>3, SeqEqual
<1>. QED
  BY <1>4 DEF h

\* A format string of pieces, and so of any number of them.
LEMMA PiecesSaid ==
  ASSUME NEW n \in Nat, NEW ps \in [1..n -> DOMAIN Numeral!Pieces]
  PROVE  Said(ArgValues, Numeral!Texting(ps), Numeral!Arguments(ps), Numeral!Output(ps))
<1>. DEFINE p(i) == Numeral!Pieces[ps[i]]
            T(k) == [i \in 1..k |-> p(i).text]
            A(k) == [i \in 1..k |-> p(i).args]
            O(k) == [i \in 1..k |-> p(i).out]
            F(s) == Numeral!FlattenSeq(s)
            S == {k \in 0..n : Said(ArgValues, F(T(k)), F(A(k)), F(O(k)))}
<1>1. \A i \in 1..n : p(i) \in Spoken
  BY PiecesSpeak, ElementOfSeq
<1>2. \A i \in 1..n : p(i).text \in Seq(Nat) /\ p(i).args \in Seq(ArgValues) /\ p(i).out \in Seq(Nat)
  BY <1>1 DEF Spoken
<1>3. /\ Numeral!Texting(ps) = F(T(n)) /\ Numeral!Arguments(ps) = F(A(n))
      /\ Numeral!Output(ps) = F(O(n))
  BY DEF Numeral!Texting, Numeral!Arguments, Numeral!Output
<1>. HIDE DEF p
<1>4. ASSUME NEW k \in 0..n
      PROVE  T(k) \in Seq(Seq(Nat)) /\ A(k) \in Seq(Seq(ArgValues)) /\ O(k) \in Seq(Seq(Nat))
  <2>1. \A i \in 1..k : i \in 1..n
    OBVIOUS
  <2>. QED
    BY <1>2, <2>1
<1>5. ASSUME NEW k \in 1..n
      PROVE  /\ T(k) = Append(T(k - 1), p(k).text) /\ A(k) = Append(A(k - 1), p(k).args)
             /\ O(k) = Append(O(k - 1), p(k).out)
  <2>. DEFINE N == Seq(Nat)  V == Seq(ArgValues)
  <2>1. /\ k \in Nat \ {0} /\ k \in 1..k /\ 1..k \subseteq 1..n
        /\ 1..(k - 1) \subseteq 1..k
    OBVIOUS
  <2>2. \A i \in 1..n : p(i).text \in N /\ p(i).args \in V /\ p(i).out \in N
    BY <1>2
  <2>. HIDE DEF N, V
  <2>3. /\ T(k) \in [1..k -> N] /\ T(k - 1) \in [1..(k - 1) -> N]
        /\ A(k) \in [1..k -> V] /\ A(k - 1) \in [1..(k - 1) -> V]
        /\ O(k) \in [1..k -> N] /\ O(k - 1) \in [1..(k - 1) -> N]
    BY <2>1, <2>2
  <2>4. /\ \A i \in 1..(k - 1) : T(k - 1)[i] = T(k)[i]
        /\ \A i \in 1..(k - 1) : A(k - 1)[i] = A(k)[i]
        /\ \A i \in 1..(k - 1) : O(k - 1)[i] = O(k)[i]
    BY <2>1
  <2>5. T(k)[k] = p(k).text /\ A(k)[k] = p(k).args /\ O(k)[k] = p(k).out
    BY <2>1
  <2>. HIDE DEF T, A, O
  <2>6. T(k) = Append(T(k - 1), T(k)[k])
    BY <2>1, <2>3, <2>4, FunctionGrows
  <2>7. A(k) = Append(A(k - 1), A(k)[k])
    BY <2>1, <2>3, <2>4, FunctionGrows
  <2>8. O(k) = Append(O(k - 1), O(k)[k])
    BY <2>1, <2>3, <2>4, FunctionGrows
  <2>. QED
    BY <2>5, <2>6, <2>7, <2>8
<1>6. T(0) = <<>> /\ A(0) = <<>> /\ O(0) = <<>>
  OBVIOUS
<1>. HIDE DEF T, A, O
<1>7. 0 \in S
  <2>1. F(T(0)) = <<>> /\ F(A(0)) = <<>> /\ F(O(0)) = <<>>
    BY <1>6, FlattenEmpty
  <2>2. Said(ArgValues, F(T(0)), F(A(0)), F(O(0)))
    BY <2>1, SaysNothing
  <2>. QED
    BY <2>2
<1>8. ASSUME NEW k \in 1..n, k - 1 \in S PROVE k \in S
  <2>1. k - 1 \in 0..n /\ k \in 0..n /\ Said(ArgValues, F(T(k - 1)), F(A(k - 1)), F(O(k - 1)))
    BY <1>8
  <2>2. F(T(k)) = F(T(k - 1)) \o p(k).text
    BY <1>2, <1>4, <1>5, <2>1, FlattenAppend
  <2>3. F(A(k)) = F(A(k - 1)) \o p(k).args
    BY <1>2, <1>4, <1>5, <2>1, FlattenAppend, ZenonT(60)
  <2>4. F(O(k)) = F(O(k - 1)) \o p(k).out
    BY <1>2, <1>4, <1>5, <2>1, FlattenAppend
  <2>. HIDE DEF F
  <2>5. Said(ArgValues, F(T(k)), F(A(k)), F(O(k)))
    BY <1>1, <2>1, <2>2, <2>3, <2>4, SaysPiece
  <2>. QED
    BY <2>1, <2>5
<1>9. n \in S
  <2>. HIDE DEF S
  <2>1. n \in 0..n
    OBVIOUS
  <2>. QED
    BY <1>7, <1>8, <2>1, UpTo
<1>. QED
  BY <1>3, <1>9

\* The call is one of those, and the message it wrote is the sum of its pieces.
MessageInv == request \in Numeral!Requests /\ FormatRight

\* The format strings asked for.
LEMMA PiecesOf ==
  ASSUME NEW r \in Numeral!Requests, r.f = "format"
  PROVE  \E n \in Nat : r.pieces \in [1..n -> DOMAIN Numeral!Pieces]
<1>. DEFINE P == UNION {[1..k -> DOMAIN Numeral!Pieces] : k \in 0..MaxPieces}
            H == {n % Numeral!U32 : n \in Numbers}
            O == UNION {[1..k -> {0, 1, 7}] : k \in 0..5}
<1>1. \/ r \in [f : {"itoa", "itob", "format_i32_base"}, n : Numbers, b : Bases]
      \/ r \in [f : {"format_h32"}, n : H, zeroes : BOOLEAN]
      \/ r \in [f : {"digit_count"}, n : Numbers]
      \/ r \in [f : {"oct2bin"}, str : O]
      \/ r \in [f : {"format"}, pieces : P]
  BY DEF Numeral!Requests
<1>. HIDE DEF P, H, O
<1>2. r \in [f : {"format"}, pieces : P]
  BY <1>1
<1>3. r.pieces \in P
  BY <1>2
<1>4. PICK k \in 0..MaxPieces : r.pieces \in [1..k -> DOMAIN Numeral!Pieces]
  BY <1>3 DEF P
<1>5. k \in Nat
  BY FormatAssumption
<1>. QED
  BY <1>4, <1>5

LEMMA MessageStep == MessageInv /\ [Numeral!Next]_(Numeral!vars) => MessageInv'
<1>. SUFFICES ASSUME MessageInv, [Numeral!Next]_(Numeral!vars) PROVE MessageInv'
  OBVIOUS
<1>. USE DEF MessageInv, FormatRight, Numeral!FormatRight
<1>1. CASE Numeral!Convert
  <2>1. request' = request /\ request \in Numeral!Requests
    BY <1>1 DEF Numeral!Convert
  <2>2. CASE request.f = "format"
    <3>. DEFINE ps == request.pieces
                t == Numeral!Texting(ps)
                a == Numeral!Arguments(ps)
    <3>1. written'[1] = Numeral!format(t, a)
      BY <1>1, <2>2 DEF Numeral!Convert
    <3>2. Said(ArgValues, t, a, Numeral!Output(ps))
      <4>1. PICK n \in Nat : ps \in [1..n -> DOMAIN Numeral!Pieces]
        BY <2>1, <2>2, PiecesOf
      <4>. HIDE DEF ps
      <4>. QED
        BY <4>1, PiecesSaid
    <3>3. Numeral!format(t, a) = Numeral!Output(ps)
      BY <3>2 DEF Said, Numeral!format, Numeral!formatv
    <3>. QED
      BY <2>1, <3>1, <3>3
  <2>. QED
    BY <2>1, <2>2
<1>2. CASE UNCHANGED Numeral!vars
  BY <1>2 DEF Numeral!vars
<1>. QED
  BY <1>1, <1>2 DEF Numeral!Next

\* A format string of any number of pieces, whatever strings are printed in it, prints
\* the sum of what its pieces print, each directive with its own argument and a %
\* that is escaped or before another character without one (format and formatv of
\* libs/format.c).
THEOREM MessagesAreSums == Numeral!Spec => []FormatRight
<1>1. Numeral!Init => MessageInv
  BY DEF Numeral!Init, MessageInv, FormatRight, Numeral!FormatRight
<1>2. MessageInv /\ [Numeral!Next]_(Numeral!vars) => MessageInv'
  BY MessageStep
<1>3. MessageInv => FormatRight
  BY DEF MessageInv
<1>. QED
  BY <1>1, <1>2, <1>3, PTL DEF Numeral!Spec
=============================================================================
