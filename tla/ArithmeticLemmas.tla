-------------------------- MODULE ArithmeticLemmas ---------------------------
(***************************************************************************)
(* Facts that the proofs of several components need: about numbers, as     *)
(* blocks of memory, places on the screen and indices of a ring are all    *)
(* counted in multiples of something; and about folds over sequences.      *)
(***************************************************************************)
EXTENDS Integers, FiniteSetTheorems, SequenceTheorems, TLAPS

\* A product grows with its factor.
LEMMA MultiplyMonotone ==
  ASSUME NEW m \in Int, NEW n \in Int, NEW b \in Nat, m <= n
  PROVE  m * b <= n * b
<1>1. PICK d \in Nat : n = m + d
  <2>1. n - m \in Nat /\ n = m + (n - m)
    OBVIOUS
  <2>. QED
    BY <2>1
<1>2. n * b = m * b + d * b
  BY <1>1
<1>3. d * b >= 0 /\ m * b \in Int /\ n * b \in Int /\ d * b \in Int
  BY <1>1
<1>. QED
  BY <1>2, <1>3

\* Every set of naturals that is not empty has a least element.
LEMMA LeastNatural ==
  ASSUME NEW T \in SUBSET Nat, T # {}
  PROVE  \E m \in T : \A k \in T : m <= k
<1>. DEFINE R == {p \in Nat \X Nat : p[1] < p[2]}
<1>1. R = OpToRel(<, Nat)
  BY DEF OpToRel
<1>2. IsWellFoundedOn(R, Nat)
  BY <1>1, NatLessThanWellFounded, Zenon
<1>3. PICK m \in T : \A k \in T : ~(<<k, m>> \in R)
  BY <1>2, WFMin, Zenon
<1>4. \A k \in T : m <= k
  <2>. SUFFICES ASSUME NEW k \in T PROVE m <= k
    OBVIOUS
  <2>1. <<k, m>> \notin R
    BY <1>3
  <2>. QED
    BY <2>1
<1>. QED
  BY <1>4

\* Of some positions in a sequence one is the greatest.
LEMMA GreatestPosition ==
  ASSUME NEW n \in Nat, NEW t \in SUBSET (1..n), t # {}
  PROVE  \E m \in t : \A y \in t : y <= m
<1>. DEFINE T == {m \in Nat : \A y \in t : y <= m}
<1>1. n \in T
  OBVIOUS
<1>2. PICK m \in T : \A k \in T : m <= k
  <2>. HIDE DEF T
  <2>1. T \in SUBSET Nat
    BY DEF T
  <2>. QED
    BY <1>1, <2>1, LeastNatural
<1>3. m \in t
  <2>. SUFFICES ASSUME m \notin t PROVE FALSE
    OBVIOUS
  <2>1. \A y \in t : y \in Nat /\ y <= m /\ y # m /\ y >= 1
    OBVIOUS
  <2>2. PICK y \in t : TRUE
    OBVIOUS
  <2>3. m \in Nat /\ m - 1 \in Nat
    BY <2>1, <2>2
  <2>4. \A z \in t : z <= m - 1
    BY <2>1, <2>3
  <2>5. m - 1 \in T
    BY <2>3, <2>4
  <2>. QED
    BY <1>2, <2>3, <2>5
<1>. QED
  BY <1>2, <1>3

\* The quotient is the number of whole multiples.
LEMMA Quotient ==
  ASSUME NEW x \in Int, NEW b \in Nat, NEW k \in Int,
         k * b <= x, x < (k + 1) * b
  PROVE  x \div b = k
<1>0. b > 0
  BY SMTT(20)
<1>. DEFINE q == x \div b
<1>1. /\ q \in Int
      /\ q * b <= x /\ x < (q + 1) * b
  BY <1>0
<1>. HIDE DEF q
<1>2. ~(k <= q - 1)
  <2>1. k <= q - 1 => (k + 1) * b <= q * b
    BY <1>1, MultiplyMonotone
  <2>. QED
    BY <1>1, <2>1
<1>3. ~(q + 1 <= k)
  <2>1. q + 1 <= k => (q + 1) * b <= k * b
    BY <1>1, MultiplyMonotone
  <2>. QED
    BY <1>1, <2>1
<1>. QED
  BY <1>1, <1>2, <1>3 DEF q

\* A multiple divided is its factor.
LEMMA DivMultiple ==
  ASSUME NEW k \in Int, NEW b \in Nat, b > 0
  PROVE  (k * b) \div b = k
<1>1. k * b \in Int /\ (k + 1) * b = k * b + b
  OBVIOUS
<1>2. k * b <= k * b /\ k * b < (k + 1) * b
  BY <1>1
<1>. QED
  BY <1>1, <1>2, Quotient

\* What leaves no remainder is a multiple.
LEMMA WholeMultiple ==
  ASSUME NEW x \in Nat, NEW b \in Nat, b > 0, x % b = 0
  PROVE  x \div b \in Nat /\ x = (x \div b) * b
<1>1. x = (x \div b) * b + (x % b)
  OBVIOUS
<1>. QED
  BY <1>1

\* Rounded up: fewer are too few, as many are enough.
LEMMA RoundsUp ==
  ASSUME NEW a \in Nat, NEW b \in Nat, b > 0, NEW n \in Nat
  PROVE  /\ (a + b - 1) \div b \in Nat
         /\ a > 0 => (a + b - 1) \div b > 0
         /\ n * b >= a <=> n >= (a + b - 1) \div b
<1>. DEFINE q == (a + b - 1) \div b
<1>2. /\ q \in Int
      /\ q * b <= a + b - 1
      /\ a + b - 1 < q * b + b
  OBVIOUS
<1>. HIDE DEF q
<1>3. q >= 0
  <2>1. SUFFICES ASSUME q <= -1 PROVE FALSE
    BY <1>2
  <2>2. q * b <= (-1) * b
    BY <1>2, <2>1, MultiplyMonotone
  <2>. QED
    BY <1>2, <2>2
<1>4. a > 0 => q > 0
  <2>1. SUFFICES ASSUME a > 0, q = 0 PROVE FALSE
    BY <1>2, <1>3
  <2>. QED
    BY <1>2, <2>1
<1>5. ASSUME n >= q PROVE n * b >= a
  <2>1. n * b >= q * b
    BY <1>2, <1>5, MultiplyMonotone
  <2>. QED
    BY <1>2, <2>1
<1>6. ASSUME ~(n >= q) PROVE ~(n * b >= a)
  <2>1. n <= q - 1
    BY <1>2, <1>6
  <2>2. n * b <= (q - 1) * b
    BY <1>2, <2>1, MultiplyMonotone
  <2>3. (q - 1) * b = q * b - b
    BY <1>2
  <2>4. n * b \in Int /\ q * b \in Int
    BY <1>2
  <2>. QED
    BY <1>2, <2>2, <2>3, <2>4
<1>. QED
  BY <1>2, <1>3, <1>4, <1>5, <1>6 DEF q

\* A remainder one turn up at most: what % does to an index that has run past
\* the end.
LEMMA OneTurn ==
  ASSUME NEW m \in Nat, m > 0, NEW x \in 0..(2 * m - 1)
  PROVE  x % m = IF x < m THEN x ELSE x - m
<1>1. CASE x < m
  BY <1>1
<1>2. CASE x >= m
  <2>. DEFINE y == x - m
  <2>1. y \in 0..(m - 1)
    BY <1>2
  <2>2. x = m * 1 + y
    OBVIOUS
  <2>. HIDE DEF y
  <2>3. (m * 1 + y) % m = y
    BY <2>1
  <2>. QED
    BY <1>2, <2>2, <2>3 DEF y
<1>. QED
  BY <1>1, <1>2

\* The multiples of b below a bound are the first so many.
LEMMA MultiplesBelow ==
  ASSUME NEW b \in Nat, b > 0, NEW m \in Nat, m > 0
  PROVE  \E n \in Nat : /\ n > 0 /\ n * b >= m
                        /\ \A k \in Nat : k * b < m <=> k < n
<1>. DEFINE T == {n \in Nat : n * b >= m}
<1>1. m \in T
  <2>1. 1 * m <= b * m
    BY MultiplyMonotone
  <2>. QED
    BY <2>1
<1>2. PICK n \in T : \A k \in T : n <= k
  <2>1. T \in SUBSET Nat
    OBVIOUS
  <2>. HIDE DEF T
  <2>. QED
    BY <1>1, <2>1, LeastNatural
<1>3. n \in Nat /\ n * b >= m
  BY <1>2
<1>4. n > 0
  BY <1>3
<1>5. ASSUME NEW k \in Nat PROVE k * b < m <=> k < n
  <2>1. n <= k => n * b <= k * b
    BY <1>3, MultiplyMonotone
  <2>2. k < n => k \notin T
    BY <1>2, <1>3
  <2>3. k * b \in Nat /\ n * b \in Nat
    BY <1>3
  <2>. QED
    BY <1>3, <2>1, <2>2, <2>3
<1>. QED
  BY <1>3, <1>4, <1>5
\* Multiples do not change a remainder, and remainders may be taken early.
LEMMA ModMultiple ==
  ASSUME NEW z \in Nat, NEW k \in Nat, NEW w \in Nat, w > 0
  PROVE  (z + k * w) % w = z % w
<1>. DEFINE q == z \div w  m == z % w
<1>1. q \in Nat /\ m \in Nat /\ m < w /\ z = q * w + m
  OBVIOUS
<1>. HIDE DEF q, m
<1>2. (q + k) * w = q * w + k * w /\ (q + k + 1) * w = q * w + k * w + w
  BY <1>1
<1>3. z + k * w \in Nat /\ q * w \in Nat /\ k * w \in Nat /\ q + k \in Nat
  BY <1>1
<1>4. (z + k * w) \div w = q + k
  BY <1>1, <1>2, <1>3, Quotient
<1>5. \A x \in Nat : x % w = x - (x \div w) * w
  OBVIOUS
<1>6. (z + k * w) % w = z + k * w - (q + k) * w
  BY <1>3, <1>4, <1>5
<1>7. (z + k * w) % w = m
  BY <1>1, <1>2, <1>3, <1>6
<1>. QED
  BY <1>7 DEF m

LEMMA ModOfSum ==
  ASSUME NEW x \in Nat, NEW y \in Nat, NEW w \in Nat, w > 0
  PROVE  ((x % w) + y) % w = (x + y) % w
<1>. DEFINE q == x \div w  m == x % w
<1>1. q \in Nat /\ m \in Nat /\ x = q * w + m
  OBVIOUS
<1>. HIDE DEF q, m
<1>2. x + y = (m + y) + q * w /\ m + y \in Nat
  BY <1>1
<1>3. ((m + y) + q * w) % w = (m + y) % w
  BY ZenonT(60), <1>1, <1>2, ModMultiple
<1>. QED
  BY <1>2, <1>3 DEF m

\* The same, of numbers that leave the same remainder.
Congruent(x, y, m) == x % m = y % m

LEMMA CongruentMore ==
  ASSUME NEW x \in Nat, NEW y \in Nat, NEW k \in Nat, NEW m \in Nat, m > 0, y = x + k * m
  PROVE  Congruent(x, y, m)
BY ModMultiple DEF Congruent

LEMMA CongruentSum ==
  ASSUME NEW x \in Nat, NEW y \in Nat, NEW m \in Nat, m > 0
  PROVE  Congruent((x % m) + y, x + y, m)
BY ModOfSum DEF Congruent

LEMMA CongruentProduct ==
  ASSUME NEW x \in Nat, NEW y \in Nat, NEW q \in Nat, NEW m \in Nat, m > 0
  PROVE  Congruent(x + q * (y % m), x + q * y, m)
<1>. DEFINE p == y \div m  c == y % m
<1>1. y = p * m + c /\ p \in Nat /\ c \in Nat
  OBVIOUS
<1>. HIDE DEF p, c
<1>. DEFINE u == x + q * c  v == x + q * y  n == q * p
<1>2. u \in Nat /\ v \in Nat /\ n \in Nat /\ v = u + n * m
  BY <1>1
<1>. HIDE DEF u, v, n
<1>3. Congruent(u, v, m)
  BY <1>2, CongruentMore
<1>. QED
  BY <1>3 DEF u, v, c

-----------------------------------------------------------------------------
(* Folds over sequences recurse over sets of positions, greatest first;    *)
(* what is needed of them are their values on the first k positions.       *)

Greatest(t) == CHOOSE m \in t : \A y \in t : m >= y

\* The greatest position.
LEMMA GreatestOfPositions ==
  ASSUME NEW n \in Nat, NEW t \in SUBSET (1..n), t # {}
  PROVE  Greatest(t) \in t /\ \A y \in t : y <= Greatest(t)
<1>1. PICK m \in t : \A y \in t : y <= m
  BY GreatestPosition
<1>2. \A y \in t : m >= y
  BY <1>1
<1>3. Greatest(t) \in t /\ \A y \in t : Greatest(t) >= y
  BY <1>2 DEF Greatest
<1>. QED
  BY <1>3

LEMMA GreatestOfFirst ==
  ASSUME NEW n \in Nat, NEW k \in 1..n
  PROVE  /\ 1..k \in SUBSET (1..n) /\ 1..k # {}
         /\ Greatest(1..k) = k /\ (1..k) \ {k} = 1..(k - 1)
<1>1. 1..k \in SUBSET (1..n) /\ k \in 1..k
  OBVIOUS
<1>2. Greatest(1..k) \in 1..k /\ \A y \in 1..k : y <= Greatest(1..k)
  BY <1>1, GreatestOfPositions
<1>. QED
  BY <1>1, <1>2

\* A fold of the operation op from base on, over the first n members of seq.
FoldsOver(op, base, seq, n, f) ==
  f = [t \in SUBSET (1..n) |->
         IF t = {} THEN base ELSE op[<<f[t \ {Greatest(t)}], seq[Greatest(t)]>>]]

\* There is one, and it stays where the operation does.
LEMMA FoldExists ==
  ASSUME NEW D, NEW X, NEW op \in [D \X X -> D], NEW base \in D, NEW seq \in Seq(X)
  PROVE  \A n \in 0..Len(seq) : \E f : /\ FoldsOver(op, base, seq, n, f)
                                      /\ \A t \in SUBSET (1..n) : f[t] \in D
<1>. DEFINE Good(n) == \E f : /\ FoldsOver(op, base, seq, n, f)
                              /\ \A t \in SUBSET (1..n) : f[t] \in D
            Bad == {n \in Nat : n <= Len(seq) /\ ~Good(n)}
<1>0. Len(seq) \in Nat /\ \A k \in 1..Len(seq) : seq[k] \in X
  BY LenProperties, ElementOfSeq
<1>. HIDE DEF Good
<1>. SUFFICES ASSUME Bad # {} PROVE FALSE
  <2>1. ASSUME Bad = {}, NEW n \in 0..Len(seq) PROVE Good(n)
    BY <1>0, <2>1
  <2>. QED
    BY <2>1 DEF Good
<1>1. PICK n \in Bad : \A k \in Bad : n <= k
  <2>. HIDE DEF Bad
  <2>1. Bad \in SUBSET Nat
    BY DEF Bad
  <2>. QED
    BY <2>1, LeastNatural
<1>2. n # 0
  <2>. SUFFICES Good(0)
    BY <1>1
  <2>. DEFINE f == [t \in SUBSET (1..0) |-> base]
  <2>1. \A t \in SUBSET (1..0) : t = {}
    OBVIOUS
  <2>2. FoldsOver(op, base, seq, 0, f)
    BY <2>1 DEF FoldsOver
  <2>3. \A t \in SUBSET (1..0) : f[t] \in D
    OBVIOUS
  <2>. HIDE DEF f
  <2>. QED
    BY <2>2, <2>3 DEF Good
<1>3. n \in Nat /\ n <= Len(seq) /\ n - 1 \in Nat /\ Good(n - 1)
  <2>1. n - 1 \in Nat /\ n - 1 \notin Bad /\ n - 1 <= Len(seq)
    BY <1>0, <1>1, <1>2
  <2>. QED
    BY <1>1, <2>1
<1>4. PICK f : /\ FoldsOver(op, base, seq, n - 1, f)
               /\ \A t \in SUBSET (1..(n - 1)) : f[t] \in D
  BY <1>3 DEF Good
<1>. DEFINE g == [t \in SUBSET (1..n) |->
                    IF n \in t THEN op[<<f[t \ {n}], seq[n]>>] ELSE f[t]]
<1>5. ASSUME NEW t \in SUBSET (1..n)
      PROVE  /\ g[t] = IF t = {} THEN base
                       ELSE op[<<g[t \ {Greatest(t)}], seq[Greatest(t)]>>]
             /\ g[t] \in D
  <2>1. ASSUME NEW u \in SUBSET (1..(n - 1))
        PROVE  /\ u \in SUBSET (1..n) /\ n \notin u /\ f[u] \in D
               /\ f[u] = IF u = {} THEN base ELSE op[<<f[u \ {Greatest(u)}], seq[Greatest(u)]>>]
    <3>1. \A y \in u : y \in 1..n /\ y # n
      BY <1>3
    <3>2. f[u] = IF u = {} THEN base ELSE op[<<f[u \ {Greatest(u)}], seq[Greatest(u)]>>]
      BY <1>4 DEF FoldsOver
    <3>. QED
      BY <1>4, <3>1, <3>2
  <2>2. CASE n \in t
    <3>1. Greatest(t) = n
      <4>1. Greatest(t) \in t /\ n <= Greatest(t)
        BY <1>3, <2>2, GreatestOfPositions
      <4>2. Greatest(t) \in 1..n
        BY <4>1
      <4>. QED
        BY <1>3, <4>1, <4>2
    <3>2. t \ {n} \in SUBSET (1..(n - 1))
      <4>1. \A y \in t \ {n} : y \in 1..n /\ y # n
        OBVIOUS
      <4>2. \A y \in t \ {n} : y \in 1..(n - 1)
        BY <1>3, <4>1
      <4>. QED
        BY <4>2
    <3>3. g[t \ {n}] = f[t \ {n}] /\ f[t \ {n}] \in D
      BY <2>1, <3>2
    <3>4. n \in 1..Len(seq)
      BY <1>0, <1>2, <1>3
    <3>5. g[t] \in D
      BY <1>0, <2>2, <3>3, <3>4
    <3>. QED
      BY <2>2, <3>1, <3>3, <3>5
  <2>3. CASE n \notin t
    <3>1. t \in SUBSET (1..(n - 1)) /\ t \ {Greatest(t)} \in SUBSET (1..(n - 1))
      <4>1. \A y \in t : y \in 1..n /\ y # n
        BY <2>3
      <4>2. \A y \in t : y \in 1..(n - 1)
        BY <1>3, <4>1
      <4>. QED
        BY <4>2
    <3>2. g[t] = f[t] /\ g[t \ {Greatest(t)}] = f[t \ {Greatest(t)}]
      BY <2>1, <3>1
    <3>. QED
      BY <2>1, <3>1, <3>2
  <2>. QED
    BY <2>2, <2>3
<1>6. FoldsOver(op, base, seq, n, g)
  <2>1. g = [t \in SUBSET (1..n) |-> g[t]]
    OBVIOUS
  <2>2. \A t \in SUBSET (1..n) :
          g[t] = IF t = {} THEN base ELSE op[<<g[t \ {Greatest(t)}], seq[Greatest(t)]>>]
    BY <1>5
  <2>. HIDE DEF g
  <2>. QED
    BY <2>1, <2>2 DEF FoldsOver
<1>7. Good(n)
  <2>. HIDE DEF g
  <2>. QED
    BY <1>5, <1>6 DEF Good
<1>. QED
  BY <1>1, <1>7

\* What holds on no position, and on one more as soon as on those before, holds
\* on all.
LEMMA FirstByFirst ==
  ASSUME NEW D, NEW n \in Nat, NEW f, f[{}] \in D,
         \A k \in 1..n : f[1..(k - 1)] \in D => f[1..k] \in D
  PROVE  f[1..n] \in D
<1>. DEFINE Bad == {k \in Nat : k <= n /\ f[1..k] \notin D}
<1>. SUFFICES ASSUME Bad # {} PROVE FALSE
  OBVIOUS
<1>1. PICK k \in Bad : \A j \in Bad : k <= j
  <2>. HIDE DEF Bad
  <2>1. Bad \in SUBSET Nat
    BY DEF Bad
  <2>. QED
    BY <2>1, LeastNatural
<1>2. k # 0
  <2>1. 1..0 = {}
    OBVIOUS
  <2>. QED
    BY <1>1, <2>1
<1>3. k \in 1..n /\ k - 1 \in Nat /\ k - 1 \notin Bad /\ k - 1 <= n
  BY <1>1, <1>2
<1>. QED
  BY <1>1, <1>3

\* What holds of no position, and of one more as soon as of those before, holds
\* of all.
LEMMA UpTo ==
  ASSUME NEW n \in Nat, NEW S, 0 \in S, \A k \in 1..n : k - 1 \in S => k \in S
  PROVE  \A k \in 0..n : k \in S
<1>. DEFINE Bad == {k \in 0..n : k \notin S}
<1>. SUFFICES ASSUME Bad # {} PROVE FALSE
  OBVIOUS
<1>1. PICK k \in Bad : \A j \in Bad : k <= j
  <2>1. Bad \in SUBSET Nat
    OBVIOUS
  <2>. HIDE DEF Bad
  <2>. QED
    BY <2>1, LeastNatural
<1>2. k \in 1..n /\ k - 1 \in 0..n /\ k - 1 \notin Bad
  BY <1>1
<1>. QED
  BY <1>1, <1>2

\* A function on 0..n by recursion: its first value, and each from the one before.
Recurs(n, D, base, op, f) ==
  /\ f \in [0..n -> D] /\ f[0] = base
  /\ \A k \in 1..n : f[k] = op[<<k, f[k - 1]>>]

LEMMA RecursionExists ==
  ASSUME NEW n \in Nat, NEW D, NEW base \in D, NEW op \in [(1..n) \X D -> D]
  PROVE  \E f : Recurs(n, D, base, op, f)
<1>. DEFINE S == {m \in 0..n : \E f : Recurs(m, D, base, op, f)}
<1>1. 0 \in S
  <2>. DEFINE f == [k \in 0..0 |-> base]
  <2>1. Recurs(0, D, base, op, f)
    BY DEF Recurs
  <2>. QED
    BY <2>1
<1>2. ASSUME NEW m \in 1..n, m - 1 \in S PROVE m \in S
  <2>1. PICK f : Recurs(m - 1, D, base, op, f)
    BY <1>2
  <2>. DEFINE g == [k \in 0..m |-> IF k = m THEN op[<<m, f[m - 1]>>] ELSE f[k]]
  <2>2. f[m - 1] \in D /\ <<m, f[m - 1]>> \in (1..n) \X D
    BY <2>1 DEF Recurs
  <2>3. op[<<m, f[m - 1]>>] \in D
    BY <2>2
  <2>4. \A k \in 0..m : k # m => k \in 0..(m - 1) /\ g[k] = f[k] /\ f[k] \in D
    BY <2>1 DEF Recurs
  <2>5. g \in [0..m -> D] /\ g[0] = base
    BY <2>1, <2>3, <2>4 DEF Recurs
  <2>6. \A k \in 1..m : g[k] = op[<<k, g[k - 1]>>]
    <3>. SUFFICES ASSUME NEW k \in 1..m PROVE g[k] = op[<<k, g[k - 1]>>]
      OBVIOUS
    <3>1. k - 1 \in 0..m /\ k - 1 # m /\ g[k - 1] = f[k - 1]
      BY <2>4
    <3>2. CASE k = m
      BY <3>1, <3>2
    <3>3. CASE k # m
      <4>1. k \in 1..(m - 1)
        BY <3>3
      <4>. QED
        BY <2>1, <2>4, <3>1, <3>3, <4>1 DEF Recurs
    <3>. QED
      BY <3>2, <3>3
  <2>. HIDE DEF g
  <2>7. Recurs(m, D, base, op, g)
    BY <2>5, <2>6 DEF Recurs
  <2>. QED
    BY <2>7
<1>. HIDE DEF S
<1>3. \A k \in 0..n : k \in S
  BY <1>1, <1>2, UpTo
<1>. QED
  BY <1>3 DEF S

\* A function by recursion on values with a smaller measure.
Descends(A, B, first, next, op, f) ==
  \A x \in A : f[x] = IF x \in B THEN first[x] ELSE op[<<x, f[next[x]]>>]

LEMMA DescentExists ==
  ASSUME NEW n \in Nat, NEW A, NEW D, NEW B, NEW m \in [A -> 0..n], NEW next \in [A -> A],
         \A x \in A : x \notin B => m[next[x]] < m[x],
         NEW first \in [A -> D], NEW op \in [A \X D -> D]
  PROVE  \E f \in [A -> D] : Descends(A, B, first, next, op, f)
<1>. DEFINE V == [A -> D]
            Once(g) == [x \in A |-> IF x \in B THEN first[x] ELSE op[<<x, g[next[x]]>>]]
            turn == [p \in (1..(n + 1)) \X V |-> Once(p[2])]
<1>1. \A g \in V : Once(g) \in V
  <2>. SUFFICES ASSUME NEW g \in V, NEW x \in A, x \notin B PROVE op[<<x, g[next[x]]>>] \in D
    OBVIOUS
  <2>1. g[next[x]] \in D
    OBVIOUS
  <2>. QED
    BY <2>1
<1>2. turn \in [(1..(n + 1)) \X V -> V]
  <2>. HIDE DEF V, Once
  <2>. QED
    BY <1>1
<1>3. PICK f : Recurs(n + 1, V, first, turn, f)
  <2>1. first \in V /\ n + 1 \in Nat
    OBVIOUS
  <2>. HIDE DEF V, turn
  <2>. QED
    BY <1>2, <2>1, RecursionExists
<1>4. /\ f[0] = first
      /\ \A k \in 0..(n + 1) : f[k] \in V
      /\ \A k \in 1..(n + 1) : f[k] = Once(f[k - 1])
  <2>1. /\ f \in [0..(n + 1) -> V] /\ f[0] = first
        /\ \A k \in 1..(n + 1) : f[k] = turn[<<k, f[k - 1]>>]
    BY <1>3 DEF Recurs
  <2>2. ASSUME NEW k \in 1..(n + 1) PROVE turn[<<k, f[k - 1]>>] = Once(f[k - 1])
    <3>1. f[k - 1] \in V
      BY <2>1
    <3>. HIDE DEF V, Once
    <3>. QED
      BY <3>1
  <2>. HIDE DEF V, turn, Once
  <2>. QED
    BY <2>1, <2>2
<1>. HIDE DEF turn, V
<1>a. ASSUME NEW k \in 1..(n + 1), NEW x \in A
      PROVE  f[k][x] = IF x \in B THEN first[x] ELSE op[<<x, f[k - 1][next[x]]>>]
  <2>. DEFINE g == f[k - 1]
  <2>1. f[k] = Once(g)
    BY <1>4
  <2>. HIDE DEF g
  <2>2. f[k][x] = IF x \in B THEN first[x] ELSE op[<<x, g[next[x]]>>]
    BY <2>1
  <2>. QED
    BY <2>2 DEF g
<1>. HIDE DEF Once
<1>. DEFINE Settled(k) == \A x \in A : m[x] <= k - 1 => f[k][x] = f[k - 1][x]
            S == {k \in 0..(n + 1) : k = 0 \/ Settled(k)}
<1>5. ASSUME NEW k \in 1..(n + 1), k - 1 \in S PROVE k \in S
  <2>. SUFFICES ASSUME NEW x \in A, m[x] <= k - 1 PROVE f[k][x] = f[k - 1][x]
    OBVIOUS
  <2>1. f[k][x] = IF x \in B THEN first[x] ELSE op[<<x, f[k - 1][next[x]]>>]
    BY <1>a
  <2>2. next[x] \in A /\ m[next[x]] \in 0..n /\ m[x] \in 0..n
    OBVIOUS
  <2>3. CASE k = 1
    <3>1. x \in B
      BY <2>2, <2>3
    <3>. QED
      BY <1>4, <2>1, <2>3, <3>1
  <2>4. CASE k # 1
    <3>1. k - 1 \in 1..(n + 1) /\ (k - 1) - 1 = k - 2
      BY <2>4
    <3>2. f[k - 1][x] = IF x \in B THEN first[x] ELSE op[<<x, f[k - 2][next[x]]>>]
      BY <1>a, <3>1
    <3>3. Settled(k - 1)
      BY <1>5, <3>1
    <3>4. x \notin B => f[k - 1][next[x]] = f[k - 2][next[x]]
      <4>1. x \notin B => m[next[x]] <= (k - 1) - 1
        BY <2>2
      <4>. QED
        BY <2>2, <3>1, <3>3, <4>1
    <3>. QED
      BY <2>1, <3>2, <3>4
  <2>. QED
    BY <2>3, <2>4
<1>6. \A k \in 0..(n + 1) : k \in S
  <2>1. 0 \in S /\ n + 1 \in Nat
    OBVIOUS
  <2>. HIDE DEF S
  <2>. QED
    BY <1>5, <2>1, UpTo
<1>7. Settled(n + 1)
  <2>1. n + 1 \in S /\ n + 1 # 0
    BY <1>6
  <2>. HIDE DEF Settled
  <2>. QED
    BY <2>1
<1>8. f[n + 1] \in [A -> D]
  BY <1>4 DEF V
<1>9. ASSUME NEW x \in A
      PROVE  f[n + 1][x] = IF x \in B THEN first[x] ELSE op[<<x, f[n + 1][next[x]]>>]
  <2>1. f[n + 1][x] = IF x \in B THEN first[x] ELSE op[<<x, f[n][next[x]]>>]
    <3>1. n + 1 \in 1..(n + 1) /\ (n + 1) - 1 = n
      OBVIOUS
    <3>. QED
      BY <1>a, <3>1
  <2>2. next[x] \in A /\ m[next[x]] <= (n + 1) - 1 /\ (n + 1) - 1 = n
    OBVIOUS
  <2>3. f[n + 1][next[x]] = f[n][next[x]]
    BY <1>7, <2>2
  <2>. QED
    BY <2>1, <2>3
<1>. QED
  BY <1>8, <1>9 DEF Descends
=============================================================================
