----------------------------- MODULE Vfs_proofs -----------------------------
(***************************************************************************)
(* The tree of nodes, for every set of names, archive and heap: its type,  *)
(* that every node has one place in it, where the blocks of the heap have  *)
(* gone, and what a step may do to what paths name.  Then what it is       *)
(* loaded from, for every archive: where the files are found, and which    *)
(* bytes a read gives.                                                     *)
(***************************************************************************)
EXTENDS Files, SequenceTheorems, ArithmeticLemmas

-----------------------------------------------------------------------------
(* What is true of every state s the functions of the code make.           *)

Nodes == [type : Type, name : Name \cup {DEV, NULL}, children : Seq(Nat), ptr : Nat]

Trees == [node : Seq(Nodes), free : Nat, lists : Nat,
          phase : {"off", "boot", "up", "wild"}]

\* Nodes refer to nodes that were made.
Linked(s) ==
  \A d \in DOMAIN s.node :
    /\ s.node[d].ptr <= Len(s.node)
    /\ \A k \in DOMAIN s.node[d].children : s.node[d].children[k] \in 1..Len(s.node)

Typed(s) == s \in Trees /\ Linked(s)

Unlisted(s, n) ==
  \A d \in DOMAIN s.node : \A k \in DOMAIN s.node[d].children :
    s.node[d].children[k] # n

ListedOnce(s, n) ==
  \E d \in DOMAIN s.node : \E k \in DOMAIN s.node[d].children :
    /\ s.node[d].children[k] = n
    /\ \A e \in DOMAIN s.node : \A j \in DOMAIN s.node[e].children :
         s.node[e].children[j] = n => e = d /\ j = k

\* Every node is the child of one directory, in one place, but those in R.
Placed(s, R) ==
  \A n \in DOMAIN s.node : IF n \in R THEN Unlisted(s, n) ELSE ListedOnce(s, n)

Dirs(s) == {n \in DOMAIN s.node : s.node[n].type \in {"DIRECTORY", "MOUNTPOINT"}}

\* The blocks that are free, and those it is known what for.
Blocks(s) == s.free + s.lists + Len(s.node) + Cardinality(Dirs(s))

\* The nodes of s are still there in u.
Keeps(s, u) ==
  /\ Len(s.node) <= Len(u.node)
  /\ \A n \in DOMAIN s.node : /\ u.node[n].type = s.node[n].type
                              /\ u.node[n].name = s.node[n].name

LEMMA TypedFacts ==
  ASSUME NEW s, Typed(s)
  PROVE  /\ s.free \in Nat /\ s.lists \in Nat
         /\ s.node \in Seq(Nodes) /\ Len(s.node) \in Nat
         /\ DOMAIN s.node = 1..Len(s.node)
         /\ \A n \in DOMAIN s.node :
              /\ s.node[n] \in Nodes
              /\ s.node[n].ptr \in 0..Len(s.node)
              /\ s.node[n].children \in Seq(Nat)
              /\ Len(s.node[n].children) \in Nat
              /\ DOMAIN s.node[n].children = 1..Len(s.node[n].children)
         /\ Keeps(s, s)
<1>1. s \in Trees
  BY DEF Typed
<1>2. s.free \in Nat /\ s.lists \in Nat /\ s.node \in Seq(Nodes)
  BY <1>1 DEF Trees
<1>3. Len(s.node) \in Nat /\ DOMAIN s.node = 1..Len(s.node)
  BY <1>2, LenProperties
<1>4. ASSUME NEW n \in DOMAIN s.node
      PROVE  /\ s.node[n] \in Nodes
             /\ s.node[n].ptr \in 0..Len(s.node)
             /\ s.node[n].children \in Seq(Nat)
             /\ Len(s.node[n].children) \in Nat
             /\ DOMAIN s.node[n].children = 1..Len(s.node[n].children)
  <2>1. s.node[n] \in Nodes
    BY <1>2, <1>3, ElementOfSeq
  <2>2. s.node[n].ptr \in Nat /\ s.node[n].children \in Seq(Nat)
    BY <2>1 DEF Nodes
  <2>3. s.node[n].ptr <= Len(s.node)
    BY DEF Typed, Linked
  <2>. QED
    BY <1>3, <2>1, <2>2, <2>3, LenProperties
<1>5. Keeps(s, s)
  BY <1>3 DEF Keeps
<1>. QED
  BY <1>2, <1>3, <1>4, <1>5

LEMMA DirsFinite ==
  ASSUME NEW s, Typed(s)
  PROVE  IsFiniteSet(Dirs(s)) /\ Cardinality(Dirs(s)) \in Nat /\ Blocks(s) \in Nat
<1>0. Len(s.node) \in Nat /\ DOMAIN s.node = 1..Len(s.node)
  BY TypedFacts
<1>1. IsFiniteSet(1..Len(s.node)) /\ Dirs(s) \in SUBSET (1..Len(s.node))
  BY <1>0, FS_Interval DEF Dirs
<1>2. IsFiniteSet(Dirs(s)) /\ Cardinality(Dirs(s)) \in Nat
  BY <1>1, FS_Subset, FS_CardinalityType
<1>. QED
  BY <1>2, TypedFacts DEF Blocks

LEMMA KeepsOn ==
  ASSUME NEW s, NEW t, NEW u, Typed(s), Typed(t), Typed(u), Keeps(s, t), Keeps(t, u)
  PROVE  Keeps(s, u)
<1>1. /\ Len(s.node) \in Nat /\ Len(t.node) \in Nat /\ Len(u.node) \in Nat
      /\ DOMAIN s.node = 1..Len(s.node) /\ DOMAIN t.node = 1..Len(t.node)
  BY TypedFacts
<1>2. Len(s.node) <= Len(u.node) /\ \A n \in DOMAIN s.node : n \in DOMAIN t.node
  BY <1>1 DEF Keeps
<1>. QED
  BY <1>2 DEF Keeps

\* Nothing happens once the kernel has gone wild, and it goes wild when a block
\* is wanted and there is none.
LEMMA GrantedFacts ==
  ASSUME NEW s, Typed(s), NEW b
  PROVE  /\ Granted(s, b).phase # "wild" =>
              s.phase # "wild" /\ s.free > 0 /\ Granted(s, b) = b
         /\ (s.phase # "wild" /\ s.free > 0 => Typed(b) /\ Keeps(s, b))
              => Typed(Granted(s, b)) /\ Keeps(s, Granted(s, b))
<1>. DEFINE w == [s EXCEPT !.phase = "wild"]
<1>1. s \in Trees /\ s.free \in Nat
  BY TypedFacts DEF Typed
<1>2. w \in Trees /\ w.node = s.node /\ w.phase = "wild"
  BY <1>1 DEF Trees
<1>3. Typed(w) /\ Keeps(s, w)
  <2>1. Linked(w)
    BY <1>2 DEF Typed, Linked
  <2>2. Keeps(s, w)
    BY <1>2, TypedFacts DEF Keeps
  <2>. QED
    BY <1>2, <2>1, <2>2 DEF Typed
<1>4. CASE s.phase = "wild"
  BY <1>4, TypedFacts DEF Granted
<1>5. CASE s.phase # "wild" /\ s.free = 0
  BY <1>2, <1>3, <1>5 DEF Granted
<1>6. CASE s.phase # "wild" /\ s.free > 0
  BY <1>6 DEF Granted
<1>. QED
  BY <1>1, <1>4, <1>5, <1>6

-----------------------------------------------------------------------------
(* What each of them does to a tree.                                       *)

\* A node made: it is the last, nobody's child, and what there was is as it was.
LEMMA NewNodeFacts ==
  ASSUME NEW s, Typed(s), NEW type \in Type, NEW name \in Name \cup {DEV, NULL},
         NEW u, u = NewNode(s, type, name)
  PROVE  /\ Typed(u) /\ Keeps(s, u)
         /\ u.phase # "wild" =>
              /\ s.phase # "wild" /\ u.phase = s.phase
              /\ New(u) = New(s) + 1
              /\ u.node[New(u)].type = type /\ u.node[New(u)].name = name
              /\ \A R : Placed(s, R) => Placed(u, R \cup {New(u)})
              /\ Blocks(u) = IF type \in {"DIRECTORY", "MOUNTPOINT"}
                             THEN Blocks(s) + 1 ELSE Blocks(s)
<1>. DEFINE x == [type |-> type, name |-> name, children |-> <<>>, ptr |-> NULL]
            m == Len(s.node) + 1
            b == [s EXCEPT !.free = @ - 1, !.node = Append(@, x)]
<1>1. u = Granted(s, b)
  BY DEF NewNode
<1>2. x \in Nodes /\ x.type = type /\ x.name = name /\ x.children = <<>> /\ x.ptr = 0
  BY EmptySeq DEF Nodes, NULL
<1>3. /\ s \in Trees /\ s.free \in Nat /\ s.lists \in Nat /\ s.node \in Seq(Nodes)
      /\ Len(s.node) \in Nat /\ DOMAIN s.node = 1..Len(s.node) /\ m \in Nat
  BY TypedFacts DEF Typed
<1>. HIDE DEF x
<1>4. /\ Append(s.node, x) \in Seq(Nodes) /\ Len(Append(s.node, x)) = m
      /\ Append(s.node, x)[m] = x
      /\ \A n \in 1..Len(s.node) : Append(s.node, x)[n] = s.node[n]
  BY <1>2, <1>3, AppendProperties
<1>5. ASSUME s.free > 0
      PROVE  /\ b \in Trees /\ b.free = s.free - 1 /\ b.lists = s.lists
             /\ b.phase = s.phase /\ b.node = Append(s.node, x)
  <2>1. /\ b.free = s.free - 1 /\ b.lists = s.lists
        /\ b.phase = s.phase /\ b.node = Append(s.node, x)
    BY <1>3 DEF Trees
  <2>. DEFINE c == [s EXCEPT !.free = @ - 1]
  <2>2. c \in Trees /\ c.node = s.node
    BY <1>3, <1>5 DEF Trees
  <2>3. b = [c EXCEPT !.node = Append(@, x)]
    BY <1>3 DEF Trees
  <2>4. b \in Trees
    <3>. HIDE DEF c
    <3>1. [c EXCEPT !.node = Append(@, x)] \in Trees
      BY <1>4, <2>2 DEF Trees
    <3>. QED
      BY <2>3, <3>1
  <2>. QED
    BY <2>1, <2>4
<1>. HIDE DEF b
<1>6. ASSUME s.free > 0 PROVE Typed(b) /\ Keeps(s, b)
  <2>1. Linked(b)
    <3>. SUFFICES ASSUME NEW d \in DOMAIN b.node
                  PROVE  /\ b.node[d].ptr <= Len(b.node)
                         /\ \A k \in DOMAIN b.node[d].children :
                              b.node[d].children[k] \in 1..Len(b.node)
      BY DEF Linked
    <3>1. Len(b.node) = m /\ DOMAIN b.node = 1..m
      BY <1>3, <1>4, <1>5, <1>6, LenProperties
    <3>2. CASE d = m
      <4>1. b.node[d] = x
        BY <1>4, <1>5, <1>6, <3>2
      <4>2. DOMAIN <<>> = {}
        OBVIOUS
      <4>. QED
        BY <1>2, <1>3, <3>1, <4>1, <4>2
    <3>3. CASE d # m
      <4>1. d \in 1..Len(s.node)
        BY <1>3, <3>1, <3>3
      <4>2. b.node[d] = s.node[d]
        BY <1>4, <1>5, <1>6, <4>1
      <4>3. /\ s.node[d].ptr \in 0..Len(s.node)
            /\ \A k \in DOMAIN s.node[d].children :
                 s.node[d].children[k] \in 1..Len(s.node)
        BY <1>3, <4>1, TypedFacts DEF Typed, Linked
      <4>. QED
        BY <1>3, <3>1, <4>2, <4>3
    <3>. QED
      BY <3>2, <3>3
  <2>2. Keeps(s, b)
    BY <1>3, <1>4, <1>5, <1>6 DEF Keeps
  <2>. QED
    BY <1>5, <1>6, <2>1, <2>2 DEF Typed
<1>7. Typed(u) /\ Keeps(s, u)
  BY <1>1, <1>6, GrantedFacts
<1>8. ASSUME u.phase # "wild" PROVE s.phase # "wild" /\ s.free > 0 /\ u = b
  BY <1>1, <1>8, GrantedFacts
<1>9. ASSUME s.free > 0, NEW R, Placed(s, R) PROVE Placed(b, R \cup {m})
  <2>0. DOMAIN b.node = 1..m /\ b.node[m] = x
    BY <1>3, <1>4, <1>5, <1>9, LenProperties
  <2>1. /\ DOMAIN b.node[m].children = {}
        /\ \A d \in 1..Len(s.node) : d \in 1..m /\ b.node[d] = s.node[d]
        /\ \A d \in 1..m : d = m \/ d \in 1..Len(s.node)
    <3>1. DOMAIN b.node[m].children = {}
      <4>1. DOMAIN <<>> = {}
        OBVIOUS
      <4>. QED
        BY <1>2, <2>0, <4>1
    <3>2. \A d \in 1..Len(s.node) : b.node[d] = s.node[d]
      BY <1>4, <1>5, <1>9
    <3>3. /\ \A d \in 1..Len(s.node) : d \in 1..m
          /\ \A d \in 1..m : d = m \/ d \in 1..Len(s.node)
      BY <1>3
    <3>. QED
      BY <3>1, <3>2, <3>3
  <2>2. ASSUME NEW n, Unlisted(s, n) PROVE Unlisted(b, n)
    BY <1>3, <2>0, <2>1, <2>2 DEF Unlisted
  <2>3. ASSUME NEW n, ListedOnce(s, n) PROVE ListedOnce(b, n)
    <3>1. PICK d \in DOMAIN s.node : \E k \in DOMAIN s.node[d].children :
            /\ s.node[d].children[k] = n
            /\ \A e \in DOMAIN s.node : \A j \in DOMAIN s.node[e].children :
                 s.node[e].children[j] = n => e = d /\ j = k
      BY <2>3 DEF ListedOnce
    <3>2. PICK k \in DOMAIN s.node[d].children :
            /\ s.node[d].children[k] = n
            /\ \A e \in DOMAIN s.node : \A j \in DOMAIN s.node[e].children :
                 s.node[e].children[j] = n => e = d /\ j = k
      BY <3>1
    <3>3. d \in DOMAIN b.node /\ k \in DOMAIN b.node[d].children /\ b.node[d].children[k] = n
      BY <1>3, <2>0, <2>1, <3>2
    <3>4. ASSUME NEW e \in DOMAIN b.node, NEW j \in DOMAIN b.node[e].children,
                 b.node[e].children[j] = n
          PROVE  e = d /\ j = k
      <4>1. e \in DOMAIN s.node /\ b.node[e] = s.node[e]
        BY <1>3, <2>0, <2>1, <3>4
      <4>. QED
        BY <3>2, <3>4, <4>1
    <3>. QED
      BY <3>3, <3>4 DEF ListedOnce
  <2>4. Unlisted(b, m)
    <3>1. Unlisted(s, m)
      BY <1>3 DEF Typed, Linked, Unlisted
    <3>. QED
      BY <2>2, <3>1
  <2>5. ASSUME NEW n \in 1..m
        PROVE  IF n \in R \cup {m} THEN Unlisted(b, n) ELSE ListedOnce(b, n)
    BY <1>3, <1>9, <2>1, <2>2, <2>3, <2>4 DEF Placed
  <2>. QED
    BY <2>0, <2>5 DEF Placed
<1>10. ASSUME s.free > 0
       PROVE  Blocks(b) = IF type \in {"DIRECTORY", "MOUNTPOINT"}
                          THEN Blocks(s) + 1 ELSE Blocks(s)
  <2>1. DOMAIN b.node = 1..m /\ b.node[m] = x /\ Len(b.node) = m
        /\ \A n \in 1..Len(s.node) : b.node[n] = s.node[n]
    BY <1>3, <1>4, <1>5, <1>10, LenProperties
  <2>2. Dirs(b) = IF type \in {"DIRECTORY", "MOUNTPOINT"} THEN Dirs(s) \cup {m} ELSE Dirs(s)
    <3>. SUFFICES ASSUME NEW n
                  PROVE  n \in Dirs(b) <=>
                           IF n = m THEN type \in {"DIRECTORY", "MOUNTPOINT"}
                           ELSE n \in Dirs(s)
      <4>1. m \notin Dirs(s)
        BY <1>3 DEF Dirs
      <4>. QED
        BY <4>1
    <3>1. n \in 1..m <=> n \in 1..Len(s.node) \/ n = m
      BY <1>3
    <3>2. m \notin 1..Len(s.node)
      BY <1>3
    <3>. QED
      BY <1>2, <1>3, <2>1, <3>1, <3>2 DEF Dirs
  <2>3. m \notin Dirs(s)
    BY <1>3 DEF Dirs
  <2>4. Cardinality(Dirs(b)) = IF type \in {"DIRECTORY", "MOUNTPOINT"}
                               THEN Cardinality(Dirs(s)) + 1 ELSE Cardinality(Dirs(s))
    BY <2>2, <2>3, DirsFinite, FS_AddElement
  <2>5. Cardinality(Dirs(s)) \in Nat
    BY DirsFinite
  <2>6. b.free = s.free - 1 /\ b.lists = s.lists
    BY <1>5, <1>10
  <2>7. Blocks(s) \in Nat
    BY DirsFinite
  <2>. DEFINE C == Cardinality(Dirs(s))
              E == Cardinality(Dirs(b))
              A == Blocks(s)
  <2>8. Blocks(b) = (s.free - 1) + s.lists + m + E /\ A = s.free + s.lists + Len(s.node) + C
    BY <2>1, <2>6 DEF Blocks
  <2>9. E = IF type \in {"DIRECTORY", "MOUNTPOINT"} THEN C + 1 ELSE C
    BY <2>4
  <2>10. C \in Nat /\ A \in Nat
    BY <2>5, <2>7
  <2>. HIDE DEF C, E, A
  <2>11. Blocks(b) = IF type \in {"DIRECTORY", "MOUNTPOINT"} THEN A + 1 ELSE A
    <3>1. s.free \in Nat /\ s.lists \in Nat /\ Len(s.node) \in Nat /\ m = Len(s.node) + 1
      BY <1>3
    <3>. DEFINE B == Blocks(b)
                f == s.free
                l == s.lists
                h == Len(s.node)
    <3>2. /\ f \in Nat /\ l \in Nat /\ h \in Nat /\ m = h + 1
          /\ B = (f - 1) + l + m + E /\ A = f + l + h + C
      BY <2>8, <3>1
    <3>. HIDE DEF B, f, l, h, m
    <3>3. CASE E = C + 1
      <4>1. B = A + 1
        BY <2>10, <3>2, <3>3
      <4>. QED
        BY <2>9, <2>10, <3>3, <4>1 DEF B
    <3>4. CASE E = C
      <4>1. B = A
        BY <2>10, <3>2, <3>4
      <4>. QED
        BY <2>9, <2>10, <3>4, <4>1 DEF B
    <3>. QED
      BY <2>9, <3>3, <3>4
  <2>. QED
    BY <2>11 DEF A
<1>. QED
  <2>. SUFFICES ASSUME u.phase # "wild"
                PROVE  /\ s.phase # "wild" /\ u.phase = s.phase
                       /\ New(u) = m
                       /\ u.node[New(u)] = x
                       /\ \A R : Placed(s, R) => Placed(u, R \cup {New(u)})
                       /\ Blocks(u) = IF type \in {"DIRECTORY", "MOUNTPOINT"}
                                      THEN Blocks(s) + 1 ELSE Blocks(s)
    BY <1>2, <1>7 DEF New
  <2>1. s.phase # "wild" /\ s.free > 0 /\ u = b /\ New(u) = m
    BY <1>4, <1>5, <1>8 DEF New
  <2>. QED
    BY <1>4, <1>5, <1>9, <1>10, <2>1

\* The rest of a tree may change: its nodes say how they are placed.
LEMMA SameNodes ==
  ASSUME NEW s, Typed(s), NEW u \in Trees, u.node = s.node
  PROVE  /\ Typed(u) /\ Keeps(s, u)
         /\ \A R : Placed(s, R) <=> Placed(u, R)
         /\ Dirs(u) = Dirs(s)
<1>1. Typed(u)
  BY DEF Typed, Linked
<1>2. Keeps(s, u)
  BY TypedFacts DEF Keeps
<1>3. \A R : Placed(s, R) <=> Placed(u, R)
  BY DEF Placed, Unlisted, ListedOnce
<1>. QED
  BY <1>1, <1>2, <1>3 DEF Dirs

\* A block for an array of children.
LEMMA TakenFacts ==
  ASSUME NEW s, Typed(s), NEW u, u = Granted(s, [s EXCEPT !.free = @ - 1])
  PROVE  /\ Typed(u) /\ Keeps(s, u)
         /\ u.phase # "wild" =>
              /\ s.phase # "wild" /\ u.phase = s.phase /\ u.node = s.node
              /\ \A R : Placed(s, R) <=> Placed(u, R)
              /\ Blocks(s) = Blocks(u) + 1
<1>. DEFINE b == [s EXCEPT !.free = @ - 1]
<1>1. s \in Trees /\ s.free \in Nat
  BY TypedFacts DEF Typed
<1>2. ASSUME s.free > 0
      PROVE  /\ b \in Trees /\ b.node = s.node /\ b.phase = s.phase
             /\ b.free = s.free - 1 /\ b.lists = s.lists
  BY <1>1, <1>2 DEF Trees
<1>. HIDE DEF b
<1>3. ASSUME s.free > 0
      PROVE  /\ Typed(b) /\ Keeps(s, b) /\ Dirs(b) = Dirs(s)
             /\ \A R : Placed(s, R) <=> Placed(b, R)
  BY <1>2, <1>3, SameNodes
<1>4. Typed(u) /\ Keeps(s, u)
  BY <1>3, GrantedFacts DEF b
<1>5. ASSUME u.phase # "wild" PROVE s.phase # "wild" /\ s.free > 0 /\ u = b
  BY <1>5, GrantedFacts DEF b
<1>6. ASSUME s.free > 0 PROVE Blocks(s) = Blocks(b) + 1
  <2>1. s.free \in Nat /\ s.lists \in Nat /\ Len(s.node) \in Nat /\ Cardinality(Dirs(s)) \in Nat
    BY TypedFacts, DirsFinite
  <2>2. Blocks(b) = (s.free - 1) + s.lists + Len(s.node) + Cardinality(Dirs(s))
    BY <1>2, <1>3, <1>6 DEF Blocks
  <2>. QED
    BY SMTT(30), <2>1, <2>2 DEF Blocks
<1>. QED
  BY <1>2, <1>3, <1>4, <1>5, <1>6

\* A directory made, with its array: two blocks, one node.
LEMMA NewDirectoryFacts ==
  ASSUME NEW s, Typed(s), NEW name \in Name \cup {DEV, NULL},
         NEW u, u = NewDirectory(s, name)
  PROVE  /\ Typed(u) /\ Keeps(s, u)
         /\ u.phase # "wild" =>
              /\ s.phase # "wild" /\ u.phase = s.phase
              /\ New(u) = New(s) + 1
              /\ u.node[New(u)].type = "DIRECTORY" /\ u.node[New(u)].name = name
              /\ \A R : Placed(s, R) => Placed(u, R \cup {New(u)})
              /\ Blocks(u) = Blocks(s)
<1>. DEFINE t == NewNode(s, "DIRECTORY", name)
<1>1. "DIRECTORY" \in Type
  BY DEF Type
<1>2. /\ Typed(t) /\ Keeps(s, t)
      /\ t.phase # "wild" =>
           /\ s.phase # "wild" /\ t.phase = s.phase
           /\ New(t) = New(s) + 1
           /\ t.node[New(t)].type = "DIRECTORY" /\ t.node[New(t)].name = name
           /\ \A R : Placed(s, R) => Placed(t, R \cup {New(t)})
           /\ Blocks(t) = Blocks(s) + 1
  BY <1>1, NewNodeFacts
<1>3. u = Granted(t, [t EXCEPT !.free = @ - 1])
  BY DEF NewDirectory
<1>. HIDE DEF t
<1>4. /\ Typed(u) /\ Keeps(t, u)
      /\ u.phase # "wild" =>
           /\ t.phase # "wild" /\ u.phase = t.phase /\ u.node = t.node
           /\ \A R : Placed(t, R) <=> Placed(u, R)
           /\ Blocks(t) = Blocks(u) + 1
  BY <1>2, <1>3, TakenFacts
<1>5. Keeps(s, u)
  BY <1>2, <1>4, KeepsOn
<1>6. Blocks(s) \in Nat /\ Blocks(t) \in Nat /\ Blocks(u) \in Nat
  BY <1>2, <1>4, DirsFinite
<1>7. u.phase # "wild" => Blocks(u) = Blocks(s)
  BY <1>2, <1>4, <1>6
<1>. QED
  BY <1>2, <1>4, <1>5, <1>7 DEF New

\* A list of names takes a block that is never given back.
LEMMA TokenFacts ==
  ASSUME NEW s, Typed(s), NEW path, NEW u, u = vfs_token_path(s, path)
  PROVE  /\ Typed(u) /\ Keeps(s, u) /\ u.node = s.node
         /\ u.phase # "wild" =>
              /\ s.phase # "wild" /\ u.phase = s.phase
              /\ \A R : Placed(s, R) <=> Placed(u, R)
              /\ Blocks(u) = Blocks(s)
<1>. DEFINE b == [s EXCEPT !.free = @ - 1, !.lists = @ + 1]
<1>1. s \in Trees /\ s.free \in Nat /\ s.lists \in Nat
  BY TypedFacts DEF Typed
<1>2. ASSUME s.free > 0
      PROVE  /\ b \in Trees /\ b.node = s.node /\ b.phase = s.phase
             /\ b.free = s.free - 1 /\ b.lists = s.lists + 1
  <2>. DEFINE c == [s EXCEPT !.free = @ - 1]
  <2>1. /\ c \in Trees /\ c.node = s.node /\ c.phase = s.phase
        /\ c.free = s.free - 1 /\ c.lists = s.lists
    BY <1>1, <1>2 DEF Trees
  <2>2. b = [c EXCEPT !.lists = @ + 1]
    BY <1>1 DEF Trees
  <2>. HIDE DEF c
  <2>3. /\ [c EXCEPT !.lists = @ + 1] \in Trees
        /\ [c EXCEPT !.lists = @ + 1].node = c.node
        /\ [c EXCEPT !.lists = @ + 1].phase = c.phase
        /\ [c EXCEPT !.lists = @ + 1].free = c.free
        /\ [c EXCEPT !.lists = @ + 1].lists = c.lists + 1
    BY <1>1, <2>1 DEF Trees
  <2>. QED
    BY <2>1, <2>2, <2>3
<1>. HIDE DEF b
<1>3. ASSUME s.free > 0
      PROVE  /\ Typed(b) /\ Keeps(s, b) /\ Dirs(b) = Dirs(s)
             /\ \A R : Placed(s, R) <=> Placed(b, R)
  BY <1>2, <1>3, SameNodes
<1>4. ASSUME s.free > 0 PROVE Blocks(s) = Blocks(b)
  <2>1. s.free \in Nat /\ s.lists \in Nat /\ Len(s.node) \in Nat /\ Cardinality(Dirs(s)) \in Nat
    BY TypedFacts, DirsFinite
  <2>2. Blocks(b) = (s.free - 1) + (s.lists + 1) + Len(s.node) + Cardinality(Dirs(s))
    BY <1>2, <1>3, <1>4 DEF Blocks
  <2>. QED
    BY SMTT(30), <2>1, <2>2 DEF Blocks
<1>5. CASE s.free = 0 /\ path = <<>>
  BY <1>5, TypedFacts DEF vfs_token_path
<1>6. CASE ~(s.free = 0 /\ path = <<>>)
  <2>1. u = Granted(s, b)
    BY <1>6 DEF vfs_token_path, b
  <2>2. Typed(u) /\ Keeps(s, u)
    BY <1>3, <2>1, GrantedFacts
  <2>3. u.phase # "wild" => s.phase # "wild" /\ s.free > 0 /\ u = b
    BY <2>1, GrantedFacts
  <2>4. u.node = s.node
    <3>1. s.free > 0 => b.node = s.node
      BY <1>2
    <3>2. [s EXCEPT !.phase = "wild"].node = s.node
      BY <1>1 DEF Trees
    <3>. QED
      BY <1>1, <2>1, <3>1, <3>2 DEF Granted
  <2>. QED
    BY <1>2, <1>3, <1>4, <2>2, <2>3, <2>4
<1>. QED
  BY <1>5, <1>6

\* A node listed: the array of its directory has grown by it.
LEMMA AddNodeFacts ==
  ASSUME NEW s, Typed(s), NEW parent \in 1..Len(s.node), NEW n \in 1..Len(s.node),
         s.phase # "wild" => s.node[parent].type = "DIRECTORY",
         NEW u, u = vfs_add_node(s, parent, n)
  PROVE  /\ Typed(u) /\ Keeps(s, u)
         /\ u.phase # "wild" =>
              /\ s.phase # "wild" /\ u.phase = s.phase /\ New(u) = New(s)
              /\ \A R : n \in R /\ Placed(s, R) => Placed(u, R \ {n})
              /\ Blocks(u) = Blocks(s)
<1>. DEFINE old == s.node[parent].children
            y == [s.node[parent] EXCEPT !.children = Append(@, n)]
            b == Added(s, parent, n)
<1>1. /\ s \in Trees /\ s.node \in Seq(Nodes) /\ Len(s.node) \in Nat
      /\ DOMAIN s.node = 1..Len(s.node)
      /\ s.node[parent] \in Nodes
      /\ old \in Seq(Nat) /\ Len(old) \in Nat /\ DOMAIN old = 1..Len(old)
  BY TypedFacts DEF Typed
<1>2. /\ Append(old, n) \in Seq(Nat) /\ Len(Append(old, n)) = Len(old) + 1
      /\ DOMAIN Append(old, n) = 1..(Len(old) + 1)
      /\ Append(old, n)[Len(old) + 1] = n
      /\ \A k \in 1..Len(old) : Append(old, n)[k] = old[k]
  <2>1. n \in Nat
    BY <1>1
  <2>2. /\ Append(old, n) \in Seq(Nat) /\ Len(Append(old, n)) = Len(old) + 1
        /\ Append(old, n)[Len(old) + 1] = n
        /\ \A k \in 1..Len(old) : Append(old, n)[k] = old[k]
    BY <1>1, <2>1, AppendProperties
  <2>. QED
    BY <2>2, LenProperties
<1>3. /\ y \in Nodes /\ y.type = s.node[parent].type /\ y.name = s.node[parent].name
      /\ y.ptr = s.node[parent].ptr /\ y.children = Append(old, n)
  BY <1>1, <1>2 DEF Nodes
<1>4. /\ b \in Trees /\ b.phase = s.phase /\ b.free = s.free /\ b.lists = s.lists
      /\ b.node = [s.node EXCEPT ![parent] = y]
  <2>1. b = [s EXCEPT !.node = [@ EXCEPT ![parent] = y]]
    BY DEF Added, Listed
  <2>2. [s.node EXCEPT ![parent] = y] \in Seq(Nodes)
    BY <1>1, <1>3, ExceptSeq
  <2>. HIDE DEF y, b
  <2>. QED
    BY <1>1, <2>1, <2>2 DEF Trees
<1>. HIDE DEF y, b
<1>5. /\ Len(b.node) = Len(s.node) /\ DOMAIN b.node = 1..Len(s.node)
      /\ b.node[parent] = y
      /\ \A d \in 1..Len(s.node) : d # parent => b.node[d] = s.node[d]
  BY <1>1, <1>3, <1>4, ExceptSeq
<1>6. \A d \in 1..Len(s.node) : /\ b.node[d].type = s.node[d].type
                                /\ b.node[d].name = s.node[d].name
                                /\ b.node[d].ptr = s.node[d].ptr
  BY <1>3, <1>5
<1>. HIDE DEF old
<1>7. ASSUME NEW d \in 1..Len(s.node), NEW k \in DOMAIN b.node[d].children
      PROVE  \/ /\ k \in DOMAIN s.node[d].children
                /\ b.node[d].children[k] = s.node[d].children[k]
             \/ /\ d = parent /\ k = Len(old) + 1
                /\ b.node[d].children[k] = n
  <2>1. CASE d = parent
    <3>1. b.node[d].children = Append(old, n) /\ s.node[d].children = old
      BY <1>3, <1>5, <2>1 DEF old
    <3>2. k \in 1..(Len(old) + 1)
      BY <1>2, <3>1
    <3>3. k \in 1..Len(old) \/ k = Len(old) + 1
      BY <1>1, <3>2
    <3>. QED
      BY <1>1, <1>2, <2>1, <3>1, <3>3
  <2>2. CASE d # parent
    BY <1>5, <2>2
  <2>. QED
    BY <2>1, <2>2
<1>8. \A d \in 1..Len(s.node) : \A k \in DOMAIN s.node[d].children :
        /\ k \in DOMAIN b.node[d].children
        /\ b.node[d].children[k] = s.node[d].children[k]
  <2>. SUFFICES ASSUME NEW d \in 1..Len(s.node), NEW k \in DOMAIN s.node[d].children
                PROVE  /\ k \in DOMAIN b.node[d].children
                       /\ b.node[d].children[k] = s.node[d].children[k]
    OBVIOUS
  <2>1. CASE d = parent
    <3>1. b.node[d].children = Append(old, n) /\ s.node[d].children = old
      BY <1>3, <1>5, <2>1 DEF old
    <3>2. k \in 1..Len(old) /\ k \in 1..(Len(old) + 1)
      BY <1>1, <3>1
    <3>. QED
      BY <1>2, <3>1, <3>2
  <2>2. CASE d # parent
    BY <1>5, <2>2
  <2>. QED
    BY <2>1, <2>2
<1>9. Typed(b) /\ Keeps(s, b)
  <2>1. ASSUME NEW d \in DOMAIN b.node
        PROVE  /\ b.node[d].ptr <= Len(b.node)
               /\ \A k \in DOMAIN b.node[d].children :
                    b.node[d].children[k] \in 1..Len(b.node)
    <3>1. d \in 1..Len(s.node) /\ d \in DOMAIN s.node
      BY <1>1, <1>5
    <3>2. /\ s.node[d].ptr <= Len(s.node)
          /\ \A k \in DOMAIN s.node[d].children :
               s.node[d].children[k] \in 1..Len(s.node)
      BY <3>1 DEF Typed, Linked
    <3>. QED
      BY <1>5, <1>6, <1>7, <3>1, <3>2
  <2>2. Keeps(s, b)
    BY <1>1, <1>5, <1>6 DEF Keeps
  <2>. QED
    BY <1>4, <2>1, <2>2 DEF Typed, Linked
<1>10. ASSUME NEW R, n \in R, Placed(s, R) PROVE Placed(b, R \ {n})
  <2>1. ASSUME NEW q \in 1..Len(s.node), q # n, Unlisted(s, q) PROVE Unlisted(b, q)
    BY ZenonT(60), <1>1, <1>5, <1>7, <2>1 DEF Unlisted
  <2>2. ASSUME NEW q \in 1..Len(s.node), q # n, ListedOnce(s, q) PROVE ListedOnce(b, q)
    <3>1. PICK d \in DOMAIN s.node : \E k \in DOMAIN s.node[d].children :
            /\ s.node[d].children[k] = q
            /\ \A e \in DOMAIN s.node : \A j \in DOMAIN s.node[e].children :
                 s.node[e].children[j] = q => e = d /\ j = k
      BY <2>2 DEF ListedOnce
    <3>2. PICK k \in DOMAIN s.node[d].children :
            /\ s.node[d].children[k] = q
            /\ \A e \in DOMAIN s.node : \A j \in DOMAIN s.node[e].children :
                 s.node[e].children[j] = q => e = d /\ j = k
      BY <3>1
    <3>3. d \in DOMAIN b.node /\ k \in DOMAIN b.node[d].children /\ b.node[d].children[k] = q
      BY <1>1, <1>5, <1>8, <3>2
    <3>4. ASSUME NEW e \in DOMAIN b.node, NEW j \in DOMAIN b.node[e].children,
                 b.node[e].children[j] = q
          PROVE  e = d /\ j = k
      <4>1. /\ e \in DOMAIN s.node /\ j \in DOMAIN s.node[e].children
            /\ s.node[e].children[j] = q
        BY <1>1, <1>5, <1>7, <2>2, <3>4
      <4>. QED
        BY <3>2, <4>1
    <3>. QED
      BY <3>3, <3>4 DEF ListedOnce
  <2>3. ListedOnce(b, n)
    <3>1. Unlisted(s, n)
      BY <1>1, <1>10 DEF Placed
    <3>2. /\ parent \in DOMAIN b.node /\ Len(old) + 1 \in DOMAIN b.node[parent].children
          /\ b.node[parent].children[Len(old) + 1] = n
      BY <1>1, <1>2, <1>3, <1>5
    <3>3. ASSUME NEW e \in DOMAIN b.node, NEW j \in DOMAIN b.node[e].children,
                 b.node[e].children[j] = n
          PROVE  e = parent /\ j = Len(old) + 1
      <4>1. e \in DOMAIN s.node /\ e \in 1..Len(s.node)
        BY <1>1, <1>5
      <4>2. ~ (j \in DOMAIN s.node[e].children /\ s.node[e].children[j] = n)
        BY <3>1, <4>1 DEF Unlisted
      <4>. QED
        BY <1>7, <3>3, <4>1, <4>2
    <3>. QED
      BY <3>2, <3>3 DEF ListedOnce
  <2>. QED
    BY <1>1, <1>5, <1>10, <2>1, <2>2, <2>3 DEF Placed
<1>11. Blocks(b) = Blocks(s)
  <2>1. Dirs(b) = Dirs(s)
    BY <1>1, <1>5, <1>6 DEF Dirs
  <2>. QED
    BY <1>4, <1>5, <2>1 DEF Blocks
<1>12. CASE s.phase = "wild"
  BY <1>12, TypedFacts DEF vfs_add_node
<1>13. CASE s.phase # "wild"
  <2>1. u = Granted(s, b)
    BY <1>13 DEF vfs_add_node, b
  <2>2. Typed(u) /\ Keeps(s, u)
    BY <1>9, <2>1, GrantedFacts
  <2>3. u.phase # "wild" => u = b
    BY <2>1, GrantedFacts
  <2>. QED
    BY <1>4, <1>5, <1>10, <1>11, <1>13, <2>2, <2>3 DEF New
<1>. QED
  BY <1>12, <1>13

\* A node made and listed, or nothing more than a heap that ran out.
Makes(s, u, type, name) ==
  /\ Typed(u) /\ Keeps(s, u)
  /\ u.phase # "wild" =>
       /\ s.phase # "wild" /\ u.phase = s.phase
       /\ New(u) = New(s) + 1
       /\ u.node[New(u)].type = type /\ u.node[New(u)].name = name
       /\ \A R : R \subseteq DOMAIN s.node /\ Placed(s, R) => Placed(u, R)
       /\ Blocks(u) = Blocks(s)

LEMMA ListNewFacts ==
  ASSUME NEW s, Typed(s), NEW type, NEW name, NEW parent,
         s.phase # "wild" =>
           parent \in 1..Len(s.node) /\ s.node[parent].type = "DIRECTORY",
         NEW t, Typed(t), Keeps(s, t),
         t.phase # "wild" =>
           /\ s.phase # "wild" /\ t.phase = s.phase
           /\ New(t) = New(s) + 1
           /\ t.node[New(t)].type = type /\ t.node[New(t)].name = name
           /\ \A R : Placed(s, R) => Placed(t, R \cup {New(t)})
           /\ Blocks(t) = Blocks(s),
         NEW u, u = vfs_add_node(t, parent, New(t))
  PROVE  Makes(s, u, type, name)
<1>1. /\ Len(s.node) \in Nat /\ DOMAIN s.node = 1..Len(s.node)
      /\ Len(t.node) \in Nat /\ DOMAIN t.node = 1..Len(t.node)
  BY TypedFacts
<1>2. CASE t.phase = "wild"
  <2>1. u = t
    BY <1>2 DEF vfs_add_node
  <2>. QED
    BY <1>2, <2>1 DEF Makes
<1>3. CASE t.phase # "wild"
  <2>1. /\ parent \in 1..Len(s.node) /\ s.node[parent].type = "DIRECTORY"
        /\ Len(t.node) = Len(s.node) + 1
    BY <1>3 DEF New
  <2>2. parent \in 1..Len(t.node) /\ New(t) \in 1..Len(t.node)
    BY <1>1, <2>1 DEF New
  <2>3. t.node[parent].type = "DIRECTORY"
    BY <1>1, <2>1 DEF Keeps
  <2>4. /\ Typed(u) /\ Keeps(t, u)
        /\ u.phase # "wild" =>
             /\ u.phase = t.phase /\ New(u) = New(t)
             /\ \A R : New(t) \in R /\ Placed(t, R) => Placed(u, R \ {New(t)})
             /\ Blocks(u) = Blocks(t)
    BY SMTT(30), <2>2, <2>3, AddNodeFacts
  <2>5. Keeps(s, u)
    BY <2>4, KeepsOn
  <2>6. ASSUME u.phase # "wild", NEW R, R \subseteq DOMAIN s.node, Placed(s, R)
        PROVE  Placed(u, R)
    <3>1. Placed(t, R \cup {New(t)})
      BY <1>3, <2>6
    <3>2. (R \cup {New(t)}) \ {New(t)} = R
      BY <1>1, <2>1, <2>6 DEF New
    <3>3. Placed(u, (R \cup {New(t)}) \ {New(t)})
      BY <2>4, <2>6, <3>1
    <3>. QED
      BY <3>2, <3>3
  <2>7. u.phase # "wild" =>
          u.node[New(u)].type = type /\ u.node[New(u)].name = name
    BY <1>1, <1>3, <2>2, <2>4 DEF Keeps
  <2>. QED
    BY <1>3, <2>4, <2>5, <2>6, <2>7 DEF Makes
<1>. QED
  BY <1>2, <1>3

LEMMA MkfileFacts ==
  ASSUME NEW s, Typed(s), NEW type \in {"FILE", "DEVICE"},
         NEW name \in Name \cup {DEV, NULL}, NEW parent,
         s.phase # "wild" =>
           parent \in 1..Len(s.node) /\ s.node[parent].type = "DIRECTORY"
  PROVE  Makes(s, Mkfile(s, parent, type, name), type, name)
<1>. DEFINE t == NewNode(s, type, name)
<1>1. type \in Type /\ type \notin {"DIRECTORY", "MOUNTPOINT"}
  BY DEF Type
<1>2. /\ Typed(t) /\ Keeps(s, t)
      /\ t.phase # "wild" =>
           /\ s.phase # "wild" /\ t.phase = s.phase
           /\ New(t) = New(s) + 1
           /\ t.node[New(t)].type = type /\ t.node[New(t)].name = name
           /\ \A R : Placed(s, R) => Placed(t, R \cup {New(t)})
           /\ Blocks(t) = Blocks(s)
  BY <1>1, NewNodeFacts
<1>3. Mkfile(s, parent, type, name) = vfs_add_node(t, parent, New(t))
  BY DEF Mkfile
<1>. HIDE DEF t
<1>. QED
  BY <1>2, <1>3, ListNewFacts

LEMMA MkdirFacts ==
  ASSUME NEW s, Typed(s), NEW name \in Name \cup {DEV, NULL}, NEW parent,
         s.phase # "wild" =>
           parent \in 1..Len(s.node) /\ s.node[parent].type = "DIRECTORY"
  PROVE  Makes(s, Mkdir(s, parent, name), "DIRECTORY", name)
<1>. DEFINE t == NewDirectory(s, name)
<1>1. /\ Typed(t) /\ Keeps(s, t)
      /\ t.phase # "wild" =>
           /\ s.phase # "wild" /\ t.phase = s.phase
           /\ New(t) = New(s) + 1
           /\ t.node[New(t)].type = "DIRECTORY" /\ t.node[New(t)].name = name
           /\ \A R : Placed(s, R) => Placed(t, R \cup {New(t)})
           /\ Blocks(t) = Blocks(s)
  BY NewDirectoryFacts
<1>2. Mkdir(s, parent, name) = vfs_add_node(t, parent, New(t))
  BY DEF Mkdir
<1>. HIDE DEF t
<1>. QED
  BY <1>1, <1>2, ListNewFacts

\* A mount changes the type of one directory and what it points to.
LEMMA MountFacts ==
  ASSUME NEW s, Typed(s), NEW m \in 1..Len(s.node), NEW f \in 1..Len(s.node),
         NEW u, u = vfs_mount(s, m, f)
  PROVE  /\ Typed(u) /\ u.phase = s.phase /\ New(u) = New(s)
         /\ \A n \in 1..Len(s.node) :
              /\ u.node[n].name = s.node[n].name
              /\ u.node[n].children = s.node[n].children
              /\ n # m => u.node[n] = s.node[n]
         /\ s.phase # "wild" /\ s.node[m].type = "DIRECTORY" =>
              u.node[m].type = "MOUNTPOINT" /\ u.node[m].ptr = f
         /\ \A R : Placed(s, R) => Placed(u, R)
         /\ Blocks(u) = Blocks(s)
<1>. DEFINE y == [s.node[m] EXCEPT !.type = "MOUNTPOINT", !.ptr = f]
            b == [s EXCEPT !.node = [@ EXCEPT ![m] = y]]
<1>1. /\ s \in Trees /\ s.node \in Seq(Nodes) /\ Len(s.node) \in Nat
      /\ DOMAIN s.node = 1..Len(s.node) /\ s.node[m] \in Nodes
  BY TypedFacts DEF Typed
<1>2. CASE ~(s.phase # "wild" /\ MountsOn(s, m))
  <2>1. m # NULL
    BY <1>1 DEF NULL
  <2>. QED
    BY <1>1, <1>2, <2>1 DEF vfs_mount, New, MountsOn
<1>3. CASE s.phase # "wild" /\ MountsOn(s, m)
  <2>1. u = b
    <3>1. [s EXCEPT !.node[m].type = "MOUNTPOINT", !.node[m].ptr = f] = b
      BY <1>1 DEF Trees, Nodes
    <3>. QED
      BY <1>3, <3>1 DEF vfs_mount
  <2>2. /\ y \in Nodes /\ y.type = "MOUNTPOINT" /\ y.name = s.node[m].name
        /\ y.ptr = f /\ y.children = s.node[m].children
    <3>. DEFINE c == [s.node[m] EXCEPT !.type = "MOUNTPOINT"]
    <3>1. /\ c \in Nodes /\ c.type = "MOUNTPOINT" /\ c.name = s.node[m].name
          /\ c.children = s.node[m].children
      BY <1>1 DEF Nodes, Type
    <3>2. y = [c EXCEPT !.ptr = f]
      BY <1>1 DEF Nodes
    <3>3. f \in Nat
      BY <1>1
    <3>. HIDE DEF c
    <3>4. /\ [c EXCEPT !.ptr = f] \in Nodes /\ [c EXCEPT !.ptr = f].type = c.type
          /\ [c EXCEPT !.ptr = f].name = c.name /\ [c EXCEPT !.ptr = f].ptr = f
          /\ [c EXCEPT !.ptr = f].children = c.children
      BY <3>1, <3>3 DEF Nodes
    <3>. QED
      BY <3>1, <3>2, <3>4
  <2>3. /\ b \in Trees /\ b.phase = s.phase /\ b.free = s.free /\ b.lists = s.lists
        /\ b.node = [s.node EXCEPT ![m] = y]
    <3>1. [s.node EXCEPT ![m] = y] \in Seq(Nodes)
      BY <1>1, <2>2, ExceptSeq
    <3>. HIDE DEF y
    <3>. QED
      BY <1>1, <3>1 DEF Trees
  <2>. HIDE DEF y, b
  <2>4. /\ Len(b.node) = Len(s.node) /\ DOMAIN b.node = 1..Len(s.node)
        /\ b.node[m] = y
        /\ \A d \in 1..Len(s.node) : d # m => b.node[d] = s.node[d]
    BY <1>1, <2>2, <2>3, ExceptSeq
  <2>5. \A d \in 1..Len(s.node) : /\ b.node[d].children = s.node[d].children
                                  /\ b.node[d].name = s.node[d].name
                                  /\ b.node[d].ptr <= Len(s.node)
    <3>1. \A d \in 1..Len(s.node) : s.node[d].ptr <= Len(s.node)
      BY <1>1 DEF Typed, Linked
    <3>2. f <= Len(s.node)
      BY <1>1
    <3>. QED
      BY <2>2, <2>4, <3>1, <3>2
  <2>6. Typed(b)
    BY SMTT(30), <1>1, <2>3, <2>4, <2>5 DEF Typed, Linked
  <2>7. ASSUME NEW R, Placed(s, R) PROVE Placed(b, R)
    <3>1. ASSUME NEW n, Unlisted(s, n) PROVE Unlisted(b, n)
      BY <1>1, <2>4, <2>5, <3>1 DEF Unlisted
    <3>2. ASSUME NEW n, ListedOnce(s, n) PROVE ListedOnce(b, n)
      BY SMTT(30), <1>1, <2>4, <2>5, <3>2 DEF ListedOnce
    <3>. QED
      BY <1>1, <2>4, <2>7, <3>1, <3>2 DEF Placed
  <2>8. Blocks(b) = Blocks(s)
    <3>1. s.node[m].type = "DIRECTORY"
      BY <1>3 DEF MountsOn
    <3>2. Dirs(b) = Dirs(s)
      BY <1>1, <2>2, <2>4, <3>1 DEF Dirs
    <3>. QED
      BY <2>3, <2>4, <3>2 DEF Blocks
  <2>. QED
    BY <2>1, <2>2, <2>3, <2>4, <2>5, <2>6, <2>7, <2>8 DEF New
<1>. QED
  BY <1>2, <1>3

\* u is s with one more node, the last child of d.
Lists(s, u, d, name) ==
  /\ New(u) = New(s) + 1
  /\ /\ u.node[New(u)].name = name
     /\ u.node[New(u)].type # "MOUNTPOINT"
     /\ u.node[New(u)].children = <<>>
  /\ \A n \in 1..Len(s.node) :
       /\ u.node[n].name = s.node[n].name
       /\ u.node[n].type = s.node[n].type
       /\ u.node[n].ptr = s.node[n].ptr
       /\ u.node[n].children = IF n = d THEN Append(s.node[d].children, New(u))
                               ELSE s.node[n].children

\* u is s with one more node, nobody's child.
Grows(s, u, type, name) ==
  /\ New(u) = New(s) + 1
  /\ u.node[New(u)] = [type |-> type, name |-> name, children |-> <<>>, ptr |-> NULL]
  /\ \A n \in 1..Len(s.node) : u.node[n] = s.node[n]

LEMMA NewNodeGrows ==
  ASSUME NEW s, Typed(s), NEW type \in Type, NEW name \in Name \cup {DEV, NULL},
         NewNode(s, type, name).phase # "wild"
  PROVE  Grows(s, NewNode(s, type, name), type, name)
<1>. DEFINE x == [type |-> type, name |-> name, children |-> <<>>, ptr |-> NULL]
            b == [s EXCEPT !.free = @ - 1, !.node = Append(@, x)]
            u == NewNode(s, type, name)
<1>1. s \in Trees /\ s.node \in Seq(Nodes) /\ Len(s.node) \in Nat
  BY TypedFacts DEF Typed
<1>2. x \in Nodes
  BY EmptySeq DEF Nodes, NULL
<1>3. u = Granted(s, b)
  BY DEF NewNode
<1>4. u = b
  <2>. HIDE DEF b
  <2>. QED
    BY <1>3, GrantedFacts DEF u
<1>5. u.node = Append(s.node, x)
  BY <1>1, <1>4 DEF Trees
<1>. HIDE DEF u, x, b
<1>6. /\ Len(u.node) = Len(s.node) + 1 /\ u.node[Len(s.node) + 1] = x
      /\ \A n \in 1..Len(s.node) : u.node[n] = s.node[n]
  BY <1>1, <1>2, <1>5, AppendProperties
<1>7. Grows(s, u, type, name)
  BY <1>6 DEF Grows, New, x
<1>. QED
  BY <1>7 DEF u

LEMMA NewDirectoryGrows ==
  ASSUME NEW s, Typed(s), NEW name \in Name \cup {DEV, NULL},
         NewDirectory(s, name).phase # "wild"
  PROVE  Grows(s, NewDirectory(s, name), "DIRECTORY", name)
<1>. DEFINE t == NewNode(s, "DIRECTORY", name)
            u == NewDirectory(s, name)
<1>1. "DIRECTORY" \in Type
  BY DEF Type
<1>2. Typed(t)
  BY <1>1, NewNodeFacts
<1>3. u = Granted(t, [t EXCEPT !.free = @ - 1])
  BY DEF NewDirectory
<1>4. t.phase # "wild" /\ u.node = t.node
  <2>. HIDE DEF t
  <2>. QED
    BY <1>2, <1>3, TakenFacts
<1>5. Grows(s, t, "DIRECTORY", name)
  BY <1>1, <1>4, NewNodeGrows
<1>. HIDE DEF t, u
<1>6. Grows(s, u, "DIRECTORY", name)
  BY <1>4, <1>5 DEF Grows, New
<1>. QED
  BY <1>6 DEF u

LEMMA GrowsLists ==
  ASSUME NEW s, Typed(s), NEW type, type # "MOUNTPOINT", NEW name,
         NEW t, Typed(t), t.phase # "wild" => Grows(s, t, type, name),
         NEW d, t.phase # "wild" => d \in 1..Len(s.node) /\ s.node[d].type = "DIRECTORY",
         NEW u, u = vfs_add_node(t, d, New(t)), u.phase # "wild"
  PROVE  Lists(s, u, d, name)
<1>. DEFINE m == New(t)
            y == [t.node[d] EXCEPT !.children = Append(@, m)]
            b == Added(t, d, m)
<1>1. t.phase # "wild"
  <2>. SUFFICES ASSUME t.phase = "wild" PROVE FALSE
    OBVIOUS
  <2>. QED
    BY DEF vfs_add_node
<1>2. /\ Grows(s, t, type, name) /\ d \in 1..Len(s.node) /\ s.node[d].type = "DIRECTORY"
      /\ Len(s.node) \in Nat /\ Len(t.node) \in Nat /\ t \in Trees
      /\ DOMAIN t.node = 1..Len(t.node)
  BY <1>1, TypedFacts DEF Typed
<1>3. /\ m = Len(s.node) + 1 /\ m = Len(t.node)
      /\ t.node[m].name = name /\ t.node[m].type = type /\ t.node[m].children = <<>>
      /\ \A n \in 1..Len(s.node) : t.node[n] = s.node[n]
  BY <1>2 DEF Grows, New
<1>4. d \in 1..Len(t.node) /\ d # m /\ t.node[d] = s.node[d]
  BY <1>2, <1>3
<1>5. t.node[d] \in Nodes /\ t.node \in Seq(Nodes)
  BY <1>2, <1>4, TypedFacts
<1>6. u = b
  <2>1. u = Granted(t, b)
    BY <1>1, <1>2, <1>4 DEF vfs_add_node
  <2>. HIDE DEF b
  <2>. QED
    BY <2>1, GrantedFacts
<1>7. b.node = [t.node EXCEPT ![d] = y]
  <2>1. [t EXCEPT !.node[d].children = Append(@, m)].node = [t.node EXCEPT ![d] = y]
    BY <1>2 DEF Trees
  <2>. QED
    BY <2>1 DEF Added, Listed
<1>8. /\ y.type = t.node[d].type /\ y.name = t.node[d].name /\ y.ptr = t.node[d].ptr
      /\ y.children = Append(t.node[d].children, m)
  BY <1>5 DEF Nodes
<1>. HIDE DEF y, b
<1>9. /\ Len(u.node) = Len(t.node) /\ u.node[d] = y
      /\ \A n \in 1..Len(t.node) : n # d => u.node[n] = t.node[n]
  <2>1. DOMAIN [t.node EXCEPT ![d] = y] = DOMAIN t.node
    OBVIOUS
  <2>2. [t.node EXCEPT ![d] = y][d] = y
    BY <1>2, <1>4
  <2>3. \A n \in 1..Len(t.node) : n # d => [t.node EXCEPT ![d] = y][n] = t.node[n]
    BY <1>2
  <2>4. Len([t.node EXCEPT ![d] = y]) = Len(t.node)
    BY <1>5
  <2>. QED
    BY <1>6, <1>7, <2>2, <2>3, <2>4
<1>10. New(u) = m /\ m \in 1..Len(t.node) /\ u.node[m] = t.node[m]
  BY <1>2, <1>3, <1>4, <1>9, SMTT(30) DEF New
<1>11. ASSUME NEW n \in 1..Len(s.node)
       PROVE  /\ u.node[n].name = s.node[n].name
              /\ u.node[n].type = s.node[n].type
              /\ u.node[n].ptr = s.node[n].ptr
              /\ u.node[n].children = IF n = d THEN Append(s.node[d].children, m)
                                      ELSE s.node[n].children
  <2>1. CASE n = d
    BY <1>3, <1>4, <1>8, <1>9, <2>1
  <2>2. CASE n # d
    <3>1. n \in 1..Len(t.node)
      BY <1>2, <1>3
    <3>2. u.node[n] = s.node[n]
      BY <1>3, <1>9, <2>2, <3>1
    <3>. QED
      BY <2>2, <3>2
  <2>. QED
    BY <2>1, <2>2
<1>12. New(u) = New(s) + 1
  BY <1>3, <1>10 DEF New
<1>. HIDE DEF m
<1>. QED
  BY <1>3, <1>10, <1>11, <1>12 DEF Lists

LEMMA MkfileLists ==
  ASSUME NEW s, Typed(s), NEW type \in {"FILE", "DEVICE"},
         NEW name \in Name \cup {DEV, NULL}, NEW d,
         s.phase # "wild" => d \in 1..Len(s.node) /\ s.node[d].type = "DIRECTORY",
         NEW u, u = Mkfile(s, d, type, name), u.phase # "wild"
  PROVE  Lists(s, u, d, name)
<1>. DEFINE t == NewNode(s, type, name)
<1>1. type \in Type /\ type # "MOUNTPOINT"
  BY DEF Type
<1>2. Typed(t) /\ (t.phase # "wild" => s.phase # "wild")
  BY <1>1, NewNodeFacts
<1>3. t.phase # "wild" => Grows(s, t, type, name)
  BY <1>1, NewNodeGrows
<1>4. u = vfs_add_node(t, d, New(t))
  BY DEF Mkfile
<1>. HIDE DEF t
<1>. QED
  BY <1>1, <1>2, <1>3, <1>4, GrowsLists

LEMMA MkdirLists ==
  ASSUME NEW s, Typed(s), NEW name \in Name \cup {DEV, NULL}, NEW d,
         s.phase # "wild" => d \in 1..Len(s.node) /\ s.node[d].type = "DIRECTORY",
         NEW u, u = Mkdir(s, d, name), u.phase # "wild"
  PROVE  Lists(s, u, d, name)
<1>. DEFINE t == NewDirectory(s, name)
<1>2. Typed(t) /\ (t.phase # "wild" => s.phase # "wild")
  BY NewDirectoryFacts
<1>3. t.phase # "wild" => Grows(s, t, "DIRECTORY", name)
  BY NewDirectoryGrows
<1>4. u = vfs_add_node(t, d, New(t))
  BY DEF Mkdir
<1>. HIDE DEF t
<1>. QED
  BY <1>2, <1>3, <1>4, GrowsLists

-----------------------------------------------------------------------------
(* FoldLeft recurses over subsets of positions, greatest first; what is    *)
(* needed of it are its values on the first k positions.                   *)

\* Folds of these modules take Max; it is the greatest.
LEMMA MaxIsGreatest == \A t : Max(t) = Greatest(t)
BY DEF Max, Greatest

LEMMA MaxOfPositions ==
  ASSUME NEW n \in Nat, NEW t \in SUBSET (1..n), t # {}
  PROVE  Max(t) \in t /\ \A y \in t : y <= Max(t)
BY GreatestOfPositions, MaxIsGreatest

LEMMA MaxOfFirst ==
  ASSUME NEW n \in Nat, NEW k \in 1..n
  PROVE  /\ 1..k \in SUBSET (1..n) /\ 1..k # {}
         /\ Max(1..k) = k /\ (1..k) \ {k} = 1..(k - 1)
BY GreatestOfFirst, MaxIsGreatest

-----------------------------------------------------------------------------
(* The two folds of the code.                                              *)

Untouched(s, u, n) ==
  /\ u.node[n].name = s.node[n].name
  /\ u.node[n].type = s.node[n].type
  /\ u.node[n].ptr = s.node[n].ptr
  /\ u.node[n].children = s.node[n].children

\* t is s with the directory of an archive and some of its files.
Loaded(s, t) ==
  /\ Typed(t) /\ Keeps(s, t)
  /\ t.phase # "wild" =>
       /\ s.phase # "wild" /\ t.phase = s.phase
       /\ New(s) + 1 <= New(t)
       /\ t.node[New(s) + 1].type = "DIRECTORY" /\ t.node[New(s) + 1].name = NULL
       /\ \A n \in (New(s) + 2)..New(t) :
            t.node[n].name # NULL /\ t.node[n].type # "MOUNTPOINT"
       /\ \A n \in DOMAIN s.node : Untouched(s, t, n)
       /\ \A R : R \subseteq DOMAIN s.node /\ Placed(s, R)
                   => Placed(t, R \cup {New(s) + 1})
       /\ Blocks(t) = Blocks(s)

LEMMA LoadsFile ==
  ASSUME NEW s, Typed(s), NEW t, Loaded(s, t), NEW name \in Name
  PROVE  Loaded(s, Mkfile(t, New(s) + 1, "FILE", name))
<1>. DEFINE r == New(s) + 1
            u == Mkfile(t, r, "FILE", name)
<1>1. /\ Typed(t) /\ Len(s.node) \in Nat /\ Len(t.node) \in Nat
      /\ DOMAIN s.node = 1..Len(s.node) /\ DOMAIN t.node = 1..Len(t.node)
      /\ New(s) = Len(s.node) /\ New(t) = Len(t.node)
  BY TypedFacts DEF Loaded, New
<1>2. t.phase # "wild" =>
        /\ r \in 1..Len(t.node) /\ t.node[r].type = "DIRECTORY"
        /\ s.phase # "wild" /\ t.phase = s.phase /\ r <= New(t)
        /\ t.node[r].name = NULL
        /\ \A n \in (New(s) + 2)..New(t) :
             t.node[n].name # NULL /\ t.node[n].type # "MOUNTPOINT"
        /\ \A n \in DOMAIN s.node : Untouched(s, t, n)
        /\ \A R : R \subseteq DOMAIN s.node /\ Placed(s, R) => Placed(t, R \cup {r})
        /\ Blocks(t) = Blocks(s)
  BY <1>1 DEF Loaded
<1>3. Makes(t, u, "FILE", name)
  BY <1>1, <1>2, MkfileFacts
<1>4. u.phase # "wild" => Lists(t, u, r, name)
  BY <1>1, <1>2, MkfileLists
<1>. HIDE DEF u
<1>5. /\ Typed(u) /\ Keeps(t, u)
      /\ u.phase # "wild" =>
           /\ t.phase # "wild" /\ u.phase = t.phase
           /\ New(u) = New(t) + 1
           /\ u.node[New(u)].name = name
           /\ \A R : R \subseteq DOMAIN t.node /\ Placed(t, R) => Placed(u, R)
           /\ Blocks(u) = Blocks(t)
  BY <1>3 DEF Makes
<1>6. Keeps(s, u)
  BY <1>1, <1>5, KeepsOn DEF Loaded
<1>7. ASSUME u.phase # "wild"
      PROVE  /\ s.phase # "wild" /\ u.phase = s.phase
             /\ r <= New(u)
             /\ u.node[r].type = "DIRECTORY" /\ u.node[r].name = NULL
             /\ \A n \in (New(s) + 2)..New(u) :
                  u.node[n].name # NULL /\ u.node[n].type # "MOUNTPOINT"
             /\ \A n \in DOMAIN s.node : Untouched(s, u, n)
             /\ \A R : R \subseteq DOMAIN s.node /\ Placed(s, R) => Placed(u, R \cup {r})
             /\ Blocks(u) = Blocks(s)
  <2>1. t.phase # "wild" /\ New(u) = New(t) + 1 /\ r \in DOMAIN t.node
    BY <1>1, <1>2, <1>5, <1>7
  <2>2. u.node[r].type = "DIRECTORY" /\ u.node[r].name = NULL
    BY <1>2, <1>5, <2>1 DEF Keeps
  <2>3. ASSUME NEW n \in (New(s) + 2)..New(u)
        PROVE  u.node[n].name # NULL /\ u.node[n].type # "MOUNTPOINT"
    <3>1. CASE n = New(u)
      BY <1>5, <1>7, <1>4, <3>1, VfsAssumption DEF Lists
    <3>2. CASE n # New(u)
      <4>1. n \in (New(s) + 2)..New(t) /\ n \in DOMAIN t.node
        BY <1>1, <2>1, <3>2
      <4>. QED
        BY <1>2, <1>5, <2>1, <4>1 DEF Keeps
    <3>. QED
      BY <3>1, <3>2
  <2>4. ASSUME NEW R, R \subseteq DOMAIN s.node, Placed(s, R)
        PROVE  Placed(u, R \cup {r})
    <3>1. Placed(t, R \cup {r})
      BY <1>2, <2>1, <2>4
    <3>2. R \cup {r} \subseteq DOMAIN t.node
      <4>1. \A n \in DOMAIN s.node : n \in DOMAIN t.node
        BY <1>1, <1>2, <2>1
      <4>. QED
        BY <2>1, <2>4, <4>1
    <3>. QED
      BY <1>5, <1>7, <3>1, <3>2
  <2>5. ASSUME NEW n \in DOMAIN s.node PROVE Untouched(s, u, n)
    <3>1. n \in 1..Len(t.node) /\ n # r
      BY <1>1, <1>2, <2>1
    <3>2. Untouched(t, u, n)
      BY <1>7, <1>4, <3>1 DEF Lists, Untouched
    <3>3. Untouched(s, t, n)
      BY <1>2, <2>1
    <3>. QED
      BY <3>2, <3>3 DEF Untouched
  <2>6. s.phase # "wild" /\ u.phase = s.phase /\ r <= New(u)
    BY <1>1, <1>2, <1>5, <1>7, <2>1
  <2>7. Blocks(u) = Blocks(s)
    BY <1>2, <1>5, <1>7, <2>1
  <2>. QED
    BY <2>2, <2>3, <2>4, <2>5, <2>6, <2>7
<1>. QED
  BY <1>5, <1>6, <1>7 DEF Loaded, u

\* f is the recursive function of the fold in tar_parse_filesystem.
Parses(s, D, f) ==
  f = [t \in SUBSET D |->
         IF t = {} THEN NewDirectory(s, NULL)
         ELSE Mkfile(f[t \ {Max(t)}], New(s) + 1, "FILE", Files[Max(t)])]

LEMMA ParseIsFold ==
  ASSUME NEW s
  PROVE  tar_parse_filesystem(s) = (CHOOSE f : Parses(s, DOMAIN Files, f))[DOMAIN Files]
BY DEF tar_parse_filesystem, FoldLeft, MapThenFoldSet, Parses

\* An archive parsed is a directory without a name and its files.
LEMMA ParseFacts ==
  ASSUME NEW s, Typed(s)
  PROVE  Loaded(s, tar_parse_filesystem(s))
<1>. DEFINE n == Len(Files)
            D == {t \in Trees : Loaded(s, t)}
            base == NewDirectory(s, NULL)
            op == [p \in D \X Name |-> Mkfile(p[1], New(s) + 1, "FILE", p[2])]
            f == CHOOSE g : Parses(s, 1..n, g)
<1>1. /\ Files \in Seq(Name) /\ n \in Nat /\ DOMAIN Files = 1..n
      /\ \A k \in 1..n : Files[k] \in Name
  BY VfsAssumption, LenProperties, ElementOfSeq
<1>2. ASSUME NEW t, Loaded(s, t) PROVE t \in D
  BY <1>2 DEF Loaded, Typed
<1>3. base \in D
  <2>1. /\ Typed(base) /\ Keeps(s, base)
        /\ base.phase # "wild" =>
             /\ s.phase # "wild" /\ base.phase = s.phase
             /\ New(base) = New(s) + 1
             /\ base.node[New(base)].type = "DIRECTORY"
             /\ base.node[New(base)].name = NULL
             /\ \A R : Placed(s, R) => Placed(base, R \cup {New(base)})
             /\ Blocks(base) = Blocks(s)
    BY NewDirectoryFacts
  <2>2. New(s) \in Nat /\ DOMAIN s.node = 1..New(s)
    BY TypedFacts DEF New
  <2>3. base.phase # "wild" => Grows(s, base, "DIRECTORY", NULL)
    BY NewDirectoryGrows
  <2>. HIDE DEF base, D
  <2>4. base.phase # "wild" =>
          /\ New(s) + 1 <= New(base)
          /\ \A k \in (New(s) + 2)..New(base) :
               base.node[k].name # NULL /\ base.node[k].type # "MOUNTPOINT"
    BY <2>1, <2>2
  <2>5. base.phase # "wild" => \A k \in DOMAIN s.node : Untouched(s, base, k)
    BY <2>2, <2>3 DEF Grows, Untouched, New
  <2>6. Loaded(s, base)
    BY <2>1, <2>4, <2>5 DEF Loaded
  <2>. QED
    BY <1>2, <2>6
<1>4. ASSUME NEW t \in D, NEW name \in Name
      PROVE  Mkfile(t, New(s) + 1, "FILE", name) \in D
  BY <1>2, <1>4, LoadsFile
<1>. HIDE DEF base, D
<1>5. op \in [D \X Name -> D]
  BY <1>4
<1>6. PICK h : /\ FoldsOver(op, base, Files, n, h)
               /\ \A t \in SUBSET (1..n) : h[t] \in D
  <2>. HIDE DEF op
  <2>1. n \in 0..Len(Files)
    BY <1>1
  <2>. QED
    BY <1>1, <1>3, <1>5, <2>1, FoldExists
<1>7. Parses(s, 1..n, h)
  <2>1. ASSUME NEW t \in SUBSET (1..n), t # {}
        PROVE  op[<<h[t \ {Max(t)}], Files[Max(t)]>>]
                 = Mkfile(h[t \ {Max(t)}], New(s) + 1, "FILE", Files[Max(t)])
    <3>1. Max(t) \in 1..n /\ t \ {Max(t)} \in SUBSET (1..n)
      BY <1>1, <2>1, MaxOfPositions
    <3>. QED
      BY <1>1, <1>6, <3>1
  <2>. HIDE DEF op
  <2>2. \A t \in SUBSET (1..n) :
          (IF t = {} THEN base ELSE op[<<h[t \ {Max(t)}], Files[Max(t)]>>])
          = (IF t = {} THEN base
             ELSE Mkfile(h[t \ {Max(t)}], New(s) + 1, "FILE", Files[Max(t)]))
    BY <2>1
  <2>3. h = [t \in SUBSET (1..n) |->
               IF t = {} THEN base
               ELSE Mkfile(h[t \ {Max(t)}], New(s) + 1, "FILE", Files[Max(t)])]
    BY <1>6, <2>2, MaxIsGreatest DEF FoldsOver
  <2>. QED
    BY <2>3 DEF Parses, base
<1>8. Parses(s, 1..n, f)
  BY <1>7
<1>9. f[{}] \in D
  BY <1>3, <1>8 DEF Parses, base
<1>10. ASSUME NEW k \in 1..n, f[1..(k - 1)] \in D PROVE f[1..k] \in D
  <2>1. /\ 1..k \in SUBSET (1..n) /\ 1..k # {}
        /\ Max(1..k) = k /\ (1..k) \ {k} = 1..(k - 1)
    BY <1>1, MaxOfFirst
  <2>. HIDE DEF f, n
  <2>2. f[1..k] = Mkfile(f[(1..k) \ {Max(1..k)}], New(s) + 1, "FILE", Files[Max(1..k)])
    BY <1>8, <2>1 DEF Parses
  <2>3. f[1..k] = Mkfile(f[1..(k - 1)], New(s) + 1, "FILE", Files[k])
    BY <2>1, <2>2
  <2>. QED
    BY <1>1, <1>4, <1>10, <2>3
<1>11. f[1..n] \in D
  <2>. HIDE DEF f, n
  <2>. QED
    BY <1>1, <1>9, <1>10, FirstByFirst
<1>12. tar_parse_filesystem(s) = f[1..n]
  BY <1>1, ParseIsFold
<1>. QED
  BY <1>11, <1>12 DEF D

\* f is the recursive function of the fold in Lookup.
Walks(s, from, path, D, f) ==
  f = [t \in SUBSET D |->
         IF t = {} THEN [node |-> from, found_child |-> FALSE]
         ELSE Step(s, f[t \ {Max(t)}], path[Max(t)])]

LEMMA LookupIsFold ==
  ASSUME NEW s, NEW from, NEW path
  PROVE  Lookup(s, from, path)
           = (CHOOSE f : Walks(s, from, path, DOMAIN path, f))[DOMAIN path].node
BY DEF Lookup, FoldLeft, MapThenFoldSet, Walks

\* A name leads to a node or to none.
LEMMA StepStays ==
  ASSUME NEW s, Typed(s), NEW at \in [node : 0..Len(s.node), found_child : BOOLEAN], NEW name
  PROVE  Step(s, at, name) \in [node : 0..Len(s.node), found_child : BOOLEAN]
<1>. DEFINE ks == Children(s, at.node, name)
<1>1. /\ Len(s.node) \in Nat /\ DOMAIN s.node = 1..Len(s.node)
      /\ at.node \in 0..Len(s.node) /\ NULL \in 0..Len(s.node)
  BY TypedFacts DEF NULL
<1>2. CASE at.node = NULL \/ (s.node[at.node].children = <<>> /\ at.found_child)
  BY <1>2 DEF Step
<1>3. CASE /\ ~(at.node = NULL \/ (s.node[at.node].children = <<>> /\ at.found_child))
           /\ ks = {}
  BY <1>1, <1>3 DEF Step
<1>4. CASE /\ ~(at.node = NULL \/ (s.node[at.node].children = <<>> /\ at.found_child))
           /\ ks # {}
  <2>1. at.node \in DOMAIN s.node
    BY <1>1, <1>4 DEF NULL
  <2>2. /\ DOMAIN s.node[at.node].children = 1..Len(s.node[at.node].children)
        /\ \A k \in DOMAIN s.node[at.node].children :
             s.node[at.node].children[k] \in 1..Len(s.node)
    BY SMTT(30), <2>1, TypedFacts DEF Typed, Linked
  <2>3. ks \in SUBSET Nat /\ ks \subseteq DOMAIN s.node[at.node].children
    BY <2>2 DEF Children
  <2>4. Hit(ks) \in ks
    <3>. HIDE DEF ks
    <3>1. \E m \in ks : \A k \in ks : m <= k
      BY <1>4, <2>3, LeastNatural
    <3>. QED
      BY <3>1 DEF Hit, Min
  <2>. DEFINE c == s.node[at.node].children[Hit(ks)]
  <2>5. c \in 1..Len(s.node)
    BY <2>2, <2>3, <2>4
  <2>6. Entered(s, c) \in 0..Len(s.node)
    <3>. HIDE DEF c
    <3>1. s.node[c].ptr \in 0..Len(s.node) /\ c \in 0..Len(s.node)
      BY <1>1, <2>5, TypedFacts
    <3>. QED
      BY <3>1 DEF Entered
  <2>7. Step(s, at, name) = [node |-> Entered(s, c), found_child |-> TRUE]
    BY <1>4 DEF Step
  <2>. HIDE DEF c, ks
  <2>. QED
    BY <2>6, <2>7
<1>. QED
  BY <1>2, <1>3, <1>4

LEMMA LookupFacts ==
  ASSUME NEW s, Typed(s), NEW from \in 0..Len(s.node), NEW X, NEW path \in Seq(X)
  PROVE  Lookup(s, from, path) \in 0..Len(s.node)
<1>. DEFINE n == Len(path)
            D == [node : 0..Len(s.node), found_child : BOOLEAN]
            base == [node |-> from, found_child |-> FALSE]
            op == [p \in D \X X |-> Step(s, p[1], p[2])]
            f == CHOOSE g : Walks(s, from, path, 1..n, g)
<1>1. /\ n \in Nat /\ DOMAIN path = 1..n /\ \A k \in 1..n : path[k] \in X
  BY LenProperties, ElementOfSeq
<1>2. base \in D
  OBVIOUS
<1>3. ASSUME NEW at \in D, NEW name PROVE Step(s, at, name) \in D
  BY StepStays
<1>. HIDE DEF base, D
<1>4. op \in [D \X X -> D]
  BY <1>3
<1>5. PICK h : /\ FoldsOver(op, base, path, n, h)
               /\ \A t \in SUBSET (1..n) : h[t] \in D
  <2>. HIDE DEF op
  <2>1. n \in 0..Len(path)
    BY <1>1
  <2>. QED
    BY <1>1, <1>2, <1>4, <2>1, FoldExists
<1>6. Walks(s, from, path, 1..n, h)
  <2>1. ASSUME NEW t \in SUBSET (1..n), t # {}
        PROVE  op[<<h[t \ {Max(t)}], path[Max(t)]>>] = Step(s, h[t \ {Max(t)}], path[Max(t)])
    <3>1. Max(t) \in 1..n /\ t \ {Max(t)} \in SUBSET (1..n)
      BY <1>1, <2>1, MaxOfPositions
    <3>. QED
      BY <1>1, <1>5, <3>1
  <2>. HIDE DEF op
  <2>2. \A t \in SUBSET (1..n) :
          (IF t = {} THEN base ELSE op[<<h[t \ {Max(t)}], path[Max(t)]>>])
          = (IF t = {} THEN base ELSE Step(s, h[t \ {Max(t)}], path[Max(t)]))
    BY <2>1
  <2>3. h = [t \in SUBSET (1..n) |->
               IF t = {} THEN base ELSE Step(s, h[t \ {Max(t)}], path[Max(t)])]
    BY <1>5, <2>2, MaxIsGreatest DEF FoldsOver
  <2>. QED
    BY <2>3 DEF Walks, base
<1>7. Walks(s, from, path, 1..n, f)
  BY <1>6
<1>8. f[{}] \in D
  BY <1>2, <1>7 DEF Walks, base
<1>9. ASSUME NEW k \in 1..n, f[1..(k - 1)] \in D PROVE f[1..k] \in D
  <2>1. /\ 1..k \in SUBSET (1..n) /\ 1..k # {}
        /\ Max(1..k) = k /\ (1..k) \ {k} = 1..(k - 1)
    BY <1>1, MaxOfFirst
  <2>. HIDE DEF f, n
  <2>2. f[1..k] = Step(s, f[(1..k) \ {Max(1..k)}], path[Max(1..k)])
    BY <1>7, <2>1 DEF Walks
  <2>3. f[1..k] = Step(s, f[1..(k - 1)], path[k])
    BY <2>1, <2>2
  <2>. QED
    BY <1>3, <1>9, <2>3
<1>10. f[1..n] \in D
  <2>. HIDE DEF f, n
  <2>. QED
    BY <1>1, <1>8, <1>9, FirstByFirst
<1>11. Lookup(s, from, path) = f[1..n].node
  BY <1>1, LookupIsFold
<1>. QED
  BY <1>10, <1>11 DEF D

-----------------------------------------------------------------------------
(* The inductive invariant.                                                *)

\* The nodes that are nobody's child: roots of filesystems.
Roots == {n \in Made : n = ROOT \/ fs.node[n].name = NULL \/ n = devfs_root}

\* A directory is mounted on as soon as it was made, after an archive was
\* parsed; devfs is older than that, so that its root stays a directory.
TreeInv ==
  /\ Typed(fs) /\ heap \in Nat
  /\ {devfs_root, parsed, result} \subseteq 0..Len(fs.node)
  /\ fs.phase # "wild" => Placed(fs, Roots) /\ Blocks(fs) = heap
  /\ fs.phase = "off" => fs.node = <<>>
  /\ fs.phase = "boot" => Len(fs.node) = 1 /\ fs.node[ROOT].type = "DIRECTORY"
  /\ fs.phase \in {"off", "boot"} => devfs_root = NULL /\ parsed = NULL
  /\ fs.phase = "up" =>
       /\ devfs_root \in 1..Len(fs.node) /\ fs.node[devfs_root].type = "DIRECTORY"
       /\ parsed # NULL => devfs_root < Len(fs.node)

LEMMA TreeInit == Init => TreeInv
<1>. SUFFICES ASSUME Init PROVE TreeInv
  OBVIOUS
<1>1. /\ heap \in Nat /\ fs.node = <<>> /\ fs.free = heap /\ fs.lists = 0
      /\ fs.phase = "off" /\ devfs_root = 0 /\ parsed = 0 /\ result = 0
  BY VfsAssumption DEF Init, NULL
<1>2. fs \in Trees
  BY VfsAssumption, EmptySeq DEF Init, Trees
<1>3. DOMAIN fs.node = {} /\ Len(fs.node) = 0
  <2>1. DOMAIN <<>> = {} /\ Len(<<>>) = 0
    OBVIOUS
  <2>. QED
    BY <1>1, <2>1
<1>4. Typed(fs)
  BY <1>2, <1>3 DEF Typed, Linked
<1>5. Placed(fs, Roots)
  BY <1>3 DEF Placed
<1>6. Blocks(fs) = heap
  <2>1. Dirs(fs) = {}
    BY <1>3 DEF Dirs
  <2>2. Cardinality(Dirs(fs)) = 0
    BY <2>1, FS_EmptySet
  <2>. QED
    BY <1>1, <1>3, <2>2 DEF Blocks
<1>. QED
  BY <1>1, <1>3, <1>4, <1>5, <1>6 DEF TreeInv, NULL

LEMMA BootStep == ASSUME TreeInv, vfs_init PROVE TreeInv'
<1>. DEFINE s0 == [fs EXCEPT !.phase = "boot"]
            s == NewDirectory(s0, NULL)
            u == vfs_token_path(s, <<>>)
<1>1. /\ fs \in Trees /\ Typed(fs) /\ fs.phase = "off" /\ fs.node = <<>>
      /\ Placed(fs, Roots) /\ Blocks(fs) = heap /\ heap \in Nat
      /\ devfs_root = 0 /\ parsed = 0 /\ result \in 0..Len(fs.node)
  BY DEF TreeInv, vfs_init, Typed, NULL
<1>2. /\ fs' = u /\ devfs_root' = 0 /\ parsed' = 0 /\ result' = result /\ heap' = heap
  BY <1>1 DEF vfs_init, Does
<1>3. /\ s0 \in Trees /\ s0.node = <<>> /\ s0.node = fs.node /\ s0.phase = "boot"
      /\ s0.free = fs.free /\ s0.lists = fs.lists
  BY <1>1 DEF Trees
<1>. HIDE DEF s0
<1>4. /\ Typed(s0) /\ Dirs(s0) = Dirs(fs) /\ New(s0) = 0
      /\ Placed(s0, {}) /\ Blocks(s0) = heap
  <2>1. DOMAIN <<>> = {} /\ Len(<<>>) = 0
    OBVIOUS
  <2>2. Typed(s0) /\ Dirs(s0) = Dirs(fs)
    BY <1>1, <1>3, SameNodes
  <2>3. Placed(s0, {})
    BY <1>3, <2>1 DEF Placed
  <2>4. Blocks(s0) = heap
    BY <1>1, <1>3, <2>2 DEF Blocks
  <2>. QED
    BY <1>3, <2>1, <2>2, <2>3, <2>4 DEF New
<1>5. /\ Typed(s) /\ Keeps(s0, s)
      /\ s.phase # "wild" =>
           /\ s.phase = s0.phase /\ New(s) = New(s0) + 1
           /\ s.node[New(s)].type = "DIRECTORY" /\ s.node[New(s)].name = NULL
           /\ \A R : Placed(s0, R) => Placed(s, R \cup {New(s)})
           /\ Blocks(s) = Blocks(s0)
  BY <1>4, NewDirectoryFacts
<1>. HIDE DEF s
<1>6. /\ Typed(u) /\ Keeps(s, u) /\ u.node = s.node
      /\ u.phase # "wild" =>
           /\ s.phase # "wild" /\ u.phase = s.phase
           /\ \A R : Placed(s, R) <=> Placed(u, R)
           /\ Blocks(u) = Blocks(s)
  BY <1>5, TokenFacts
<1>. HIDE DEF u
<1>7. result \in 0..Len(u.node)
  <2>1. Len(s0.node) \in Nat /\ Len(s.node) \in Nat /\ Len(s0.node) <= Len(s.node)
    BY <1>4, <1>5, TypedFacts DEF Keeps
  <2>. QED
    BY <1>1, <1>3, <1>6, <2>1
<1>8. ASSUME u.phase # "wild"
      PROVE  /\ u.phase = "boot" /\ Len(u.node) = 1 /\ u.node[ROOT].type = "DIRECTORY"
             /\ Placed(u, {1}) /\ Blocks(u) = heap
  <2>1. s.phase = "boot" /\ New(s) = 1
    BY <1>3, <1>4, <1>5, <1>6, <1>8
  <2>2. Placed(s, {} \cup {1}) /\ {} \cup {1} = {1}
    BY <1>4, <1>5, <1>6, <1>8, <2>1
  <2>. QED
    BY <1>4, <1>5, <1>6, <1>8, <2>1, <2>2 DEF New, ROOT
<1>9. u.phase # "wild" => Roots' = {1}
  <2>1. ASSUME u.phase # "wild" PROVE DOMAIN u.node = {1}
    <3>1. DOMAIN u.node = 1..1
      BY <1>6, <1>8, <2>1, TypedFacts
    <3>. QED
      BY <3>1
  <2>. QED
    BY <1>2, <2>1 DEF Roots, Made, ROOT
<1>10. Len(u.node) \in Nat
  BY <1>6, TypedFacts
<1>11. {devfs_root', parsed', result'} \subseteq 0..Len(fs'.node)
  BY <1>2, <1>7, <1>10
<1>12. CASE u.phase = "wild"
  BY <1>1, <1>2, <1>6, <1>11, <1>12 DEF TreeInv
<1>13. CASE u.phase # "wild"
  <2>1. Placed(fs', Roots') /\ Blocks(fs') = heap'
    BY <1>2, <1>8, <1>9, <1>13
  <2>2. fs'.phase = "boot" /\ Len(fs'.node) = 1 /\ fs'.node[ROOT].type = "DIRECTORY"
    BY <1>2, <1>8, <1>13
  <2>. QED
    BY <1>1, <1>2, <1>6, <1>11, <2>1, <2>2 DEF TreeInv, NULL
<1>. QED
  BY <1>12, <1>13

LEMMA DevfsStep == ASSUME TreeInv, devfs_init PROVE TreeInv'
<1>. DEFINE r == vfs_token_path(fs, <<>>)
            s == Mkdir(r, ROOT, DEV)
            t == NewDirectory(s, DEV)
            u == vfs_mount(t, New(s), New(t))
            v == [u EXCEPT !.phase = "up"]
<1>1. /\ Typed(fs) /\ fs.phase = "boot" /\ Len(fs.node) = 1 /\ DOMAIN fs.node = 1..1
      /\ fs.node[ROOT].type = "DIRECTORY"
      /\ Placed(fs, Roots) /\ Blocks(fs) = heap /\ heap \in Nat
      /\ parsed = 0 /\ result \in 0..Len(fs.node)
  BY TypedFacts DEF TreeInv, devfs_init, NULL
<1>2. /\ fs' = IF u.phase = "wild" THEN u ELSE v
      /\ devfs_root' = IF u.phase = "wild" THEN 0 ELSE New(t)
      /\ parsed' = 0 /\ result' = result /\ heap' = heap
  BY <1>1 DEF devfs_init, Does, NULL
<1>3. Roots = {1}
  BY <1>1 DEF Roots, Made, ROOT
<1>4. /\ Typed(r) /\ Keeps(fs, r) /\ r.node = fs.node
      /\ r.phase # "wild" =>
           /\ r.phase = "boot" /\ Placed(r, {1}) /\ Blocks(r) = heap
  BY <1>1, <1>3, TokenFacts
<1>. HIDE DEF r
<1>5. Makes(r, s, "DIRECTORY", DEV)
  <2>1. ROOT \in 1..Len(r.node) /\ r.node[ROOT].type = "DIRECTORY"
    BY <1>1, <1>4 DEF ROOT
  <2>. QED
    BY <1>4, <2>1, MkdirFacts
<1>. HIDE DEF s
<1>6. /\ Typed(s) /\ Keeps(r, s)
      /\ s.phase # "wild" =>
           /\ s.phase = "boot" /\ New(s) = 2 /\ s.node[2].name = DEV
           /\ Placed(s, {1}) /\ Blocks(s) = heap
  <2>1. {1} \subseteq DOMAIN r.node /\ New(r) = 1
    BY <1>1, <1>4 DEF New
  <2>. QED
    BY <1>4, <1>5, <2>1 DEF Makes
<1>7. /\ Typed(t) /\ Keeps(s, t)
      /\ t.phase # "wild" =>
           /\ t.phase = "boot" /\ s.phase # "wild" /\ New(t) = 3
           /\ t.node[3].type = "DIRECTORY" /\ t.node[3].name = DEV
           /\ t.node[2].name = DEV
           /\ Placed(t, {1, 3}) /\ Blocks(t) = heap
  <2>1. /\ Typed(t) /\ Keeps(s, t)
        /\ t.phase # "wild" =>
             /\ s.phase # "wild" /\ t.phase = s.phase
             /\ New(t) = New(s) + 1
             /\ t.node[New(t)].type = "DIRECTORY" /\ t.node[New(t)].name = DEV
             /\ \A R : Placed(s, R) => Placed(t, R \cup {New(t)})
             /\ Blocks(t) = Blocks(s)
    BY <1>6, NewDirectoryFacts
  <2>. HIDE DEF t
  <2>2. s.phase # "wild" => 2 \in DOMAIN s.node
    BY <1>6, TypedFacts DEF New
  <2>3. {1} \cup {3} = {1, 3}
    OBVIOUS
  <2>4. ASSUME t.phase # "wild"
        PROVE  /\ New(t) = 3 /\ t.node[2].name = DEV /\ Placed(t, {1, 3})
    <3>1. s.phase # "wild" /\ New(t) = 3
      BY <1>6, <2>1, <2>4
    <3>2. t.node[2].name = DEV
      BY <1>6, <2>1, <2>2, <3>1 DEF Keeps
    <3>3. Placed(t, {1} \cup {3})
      BY <1>6, <2>1, <2>4, <3>1
    <3>. QED
      BY <2>3, <3>1, <3>2, <3>3
  <2>. QED
    BY <1>6, <2>1, <2>4
<1>. HIDE DEF t
<1>8. CASE t.phase = "wild"
  <2>1. u = t
    BY <1>8 DEF vfs_mount
  <2>2. fs' = t /\ devfs_root' = 0
    BY <1>2, <1>8, <2>1
  <2>3. Keeps(fs, t)
    BY <1>1, <1>4, <1>6, <1>7, KeepsOn
  <2>4. Len(t.node) \in Nat /\ result \in 0..Len(t.node)
    BY <1>1, <1>7, <2>3, TypedFacts DEF Keeps
  <2>5. {devfs_root', parsed', result'} \subseteq 0..Len(fs'.node)
    <3>1. parsed' = 0 /\ result' = result
      BY <1>2
    <3>2. 0 \in 0..Len(t.node)
      BY <2>4
    <3>. QED
      BY <2>2, <2>4, <3>1, <3>2
  <2>. QED
    BY <1>1, <1>2, <1>7, <1>8, <2>2, <2>5 DEF TreeInv
<1>9. CASE t.phase # "wild"
  <2>1. /\ Len(t.node) = 3 /\ New(s) = 2 /\ New(t) = 3 /\ DOMAIN t.node = 1..3
        /\ 2 \in 1..Len(t.node) /\ 3 \in 1..Len(t.node)
    BY <1>6, <1>7, <1>9, TypedFacts DEF New
  <2>2. /\ Typed(u) /\ u.phase = "boot" /\ New(u) = 3
        /\ u.node[2].name = DEV /\ u.node[3].type = "DIRECTORY"
        /\ Placed(u, {1, 3}) /\ Blocks(u) = heap
    <3>. HIDE DEF u
    <3>1. u = vfs_mount(t, 2, 3)
      BY <2>1 DEF u
    <3>2. /\ Typed(u) /\ u.phase = t.phase /\ New(u) = New(t)
          /\ \A n \in 1..Len(t.node) :
               /\ u.node[n].name = t.node[n].name
               /\ n # 2 => u.node[n] = t.node[n]
          /\ \A R : Placed(t, R) => Placed(u, R)
          /\ Blocks(u) = Blocks(t)
      <4>1. Typed(t) /\ 2 \in 1..Len(t.node) /\ 3 \in 1..Len(t.node)
        BY <1>7, <2>1
      <4>. QED
        BY SMTT(30), <3>1, <4>1, MountFacts
    <3>. QED
      BY <1>7, <1>9, <2>1, <3>2
  <2>. HIDE DEF u
  <2>3. /\ v \in Trees /\ v.node = u.node /\ v.phase = "up"
        /\ v.free = u.free /\ v.lists = u.lists
    BY <2>2 DEF Typed, Trees
  <2>. HIDE DEF v
  <2>4. /\ Typed(v) /\ Placed(v, {1, 3}) /\ Dirs(v) = Dirs(u)
    BY <2>2, <2>3, SameNodes
  <2>5. Blocks(v) = heap
    BY <2>2, <2>3, <2>4 DEF Blocks
  <2>6. fs' = v /\ devfs_root' = 3
    BY <1>2, <2>1, <2>2
  <2>7. Len(v.node) = 3 /\ DOMAIN v.node = 1..3
    BY <2>2, <2>3, <2>4, TypedFacts DEF New
  <2>8. Roots' = {1, 3}
    <3>1. DEV # NULL
      BY VfsAssumption
    <3>2. \A n \in 1..3 : n = 1 \/ n = 2 \/ n = 3
      OBVIOUS
    <3>3. Roots' = {n \in 1..3 : n = 1 \/ v.node[n].name = NULL \/ n = 3}
      BY <2>6, <2>7 DEF Roots, Made, ROOT
    <3>4. \A n \in 1..3 : (n = 1 \/ v.node[n].name = NULL \/ n = 3) <=> n \in {1, 3}
      BY <2>2, <2>3, <3>1, <3>2
    <3>. QED
      BY <3>3, <3>4
  <2>9. result \in 0..3
    BY <1>1
  <2>. QED
    BY <1>1, <1>2, <2>2, <2>3, <2>4, <2>5, <2>6, <2>7, <2>8, <2>9 DEF TreeInv, NULL
<1>. QED
  BY <1>8, <1>9

\* What every call once devfs is mounted has in common.
LEMMA UpStep ==
  ASSUME TreeInv, fs.phase = "up", Typed(fs'),
         Len(fs.node) <= Len(fs'.node),
         devfs_root' = devfs_root, heap' = heap,
         {parsed', result'} \subseteq 0..Len(fs'.node),
         fs'.phase # "wild" =>
           /\ fs'.phase = "up" /\ Placed(fs', Roots') /\ Blocks(fs') = Blocks(fs)
           /\ fs'.node[devfs_root].type = "DIRECTORY"
           /\ parsed' = parsed \/ Len(fs.node) < Len(fs'.node)
  PROVE  TreeInv'
<1>1. /\ heap \in Nat /\ Blocks(fs) = heap
      /\ devfs_root \in 1..Len(fs.node)
      /\ parsed # NULL => devfs_root < Len(fs.node)
      /\ Len(fs.node) \in Nat /\ Len(fs'.node) \in Nat
  <2>1. Len(fs.node) \in Nat /\ Len(fs'.node) \in Nat
    <3>1. \A s : Typed(s) => Len(s.node) \in Nat
      BY TypedFacts
    <3>. QED
      BY <3>1 DEF TreeInv
  <2>. QED
    BY <2>1 DEF TreeInv
<1>2. devfs_root \in 1..Len(fs'.node) /\ devfs_root \in 0..Len(fs'.node)
  BY <1>1
<1>3. fs'.phase = "up" => (parsed' # NULL => devfs_root < Len(fs'.node))
  BY <1>1
<1>. QED
  BY <1>1, <1>2, <1>3 DEF TreeInv

\* The roots are the same when what was made has a name.
LEMMA SameRoots ==
  ASSUME TreeInv, fs.phase = "up", Typed(fs'), Keeps(fs, fs'), devfs_root' = devfs_root,
         \A n \in (Len(fs.node) + 1)..Len(fs'.node) : fs'.node[n].name # NULL
  PROVE  Roots' = Roots
<1>1. /\ Len(fs.node) \in Nat /\ DOMAIN fs.node = 1..Len(fs.node)
      /\ Len(fs'.node) \in Nat /\ DOMAIN fs'.node = 1..Len(fs'.node)
      /\ devfs_root \in 1..Len(fs.node)
  <2>1. \A s : Typed(s) => Len(s.node) \in Nat /\ DOMAIN s.node = 1..Len(s.node)
    BY TypedFacts
  <2>. QED
    BY <2>1 DEF TreeInv
<1>2. /\ Len(fs.node) <= Len(fs'.node)
      /\ \A n \in DOMAIN fs.node : fs'.node[n].name = fs.node[n].name
  BY DEF Keeps
<1>3. ASSUME NEW n \in Roots' PROVE n \in Roots
  <2>1. n \in 1..Len(fs'.node) /\ (n = ROOT \/ fs'.node[n].name = NULL \/ n = devfs_root)
    BY <1>1 DEF Roots, Made
  <2>2. n \in 1..Len(fs.node)
    BY <1>1, <2>1 DEF ROOT
  <2>. QED
    BY <1>1, <1>2, <2>1, <2>2 DEF Roots, Made
<1>4. ASSUME NEW n \in Roots PROVE n \in Roots'
  <2>1. n \in 1..Len(fs.node) /\ (n = ROOT \/ fs.node[n].name = NULL \/ n = devfs_root)
    BY <1>1 DEF Roots, Made
  <2>2. n \in 1..Len(fs'.node)
    BY <1>1, <1>2, <2>1
  <2>. QED
    BY <1>1, <1>2, <2>1, <2>2 DEF Roots, Made
<1>. QED
  BY <1>3, <1>4

LEMMA UpFacts ==
  ASSUME TreeInv, fs.phase = "up"
  PROVE  /\ Typed(fs) /\ Placed(fs, Roots)
         /\ Len(fs.node) \in Nat /\ DOMAIN fs.node = 1..Len(fs.node)
         /\ Roots \subseteq DOMAIN fs.node
         /\ devfs_root \in 1..Len(fs.node)
         /\ fs.node[devfs_root].type = "DIRECTORY"
         /\ parsed \in 0..Len(fs.node) /\ result \in 0..Len(fs.node)
         /\ parsed # NULL => devfs_root < Len(fs.node)
BY TypedFacts DEF TreeInv, Roots, Made

LEMMA GetStep ==
  ASSUME TreeInv, NEW path \in Path, vfs_get(path) PROVE TreeInv'
<1>. DEFINE u == vfs_token_path(fs, path)
<1>1. /\ fs.phase = "up" /\ fs' = u
      /\ result' = IF fs'.phase = "wild" THEN NULL ELSE Lookup(fs, ROOT, path)
      /\ devfs_root' = devfs_root /\ parsed' = parsed /\ heap' = heap
  BY DEF vfs_get, Does, Returns
<1>2. /\ Typed(u) /\ Keeps(fs, u) /\ u.node = fs.node
      /\ u.phase # "wild" =>
           /\ u.phase = "up"
           /\ \A R : Placed(fs, R) <=> Placed(u, R)
           /\ Blocks(u) = Blocks(fs)
  BY <1>1, UpFacts, TokenFacts
<1>. HIDE DEF u
<1>3. Lookup(fs, ROOT, path) \in 0..Len(fs.node)
  <2>1. path \in Seq(Name \cup {DEV})
    BY DEF Path, BoundedSeq, SeqOf
  <2>2. ROOT \in 0..Len(fs.node)
    BY <1>1, UpFacts DEF ROOT
  <2>. QED
    BY <1>1, <2>1, <2>2, UpFacts, LookupFacts
<1>4. Roots' = Roots
  BY <1>1, <1>2 DEF Roots, Made
<1>5. result' \in 0..Len(fs.node) /\ parsed' \in 0..Len(fs.node)
  BY <1>1, <1>3, UpFacts DEF NULL
<1>6. Len(fs.node) <= Len(fs'.node) /\ Typed(fs')
  BY <1>1, <1>2, UpFacts
<1>7. fs'.phase # "wild" =>
        /\ fs'.phase = "up" /\ Placed(fs', Roots') /\ Blocks(fs') = Blocks(fs)
        /\ fs'.node[devfs_root].type = "DIRECTORY"
  BY <1>1, <1>2, <1>4, UpFacts
<1>8. {parsed', result'} \subseteq 0..Len(fs'.node)
  BY <1>1, <1>2, <1>5
<1>. QED
  BY <1>1, <1>6, <1>7, <1>8, UpStep

\* A node is made in a directory.
LEMMA MakeStep ==
  ASSUME TreeInv, fs.phase = "up", NEW type, NEW name \in Name,
         Makes(fs, fs', type, name),
         devfs_root' = devfs_root, parsed' = parsed, heap' = heap,
         result' = NULL \/ (fs'.phase # "wild" /\ result' = New(fs) + 1)
  PROVE  TreeInv'
<1>1. /\ Typed(fs') /\ Keeps(fs, fs')
      /\ fs'.phase # "wild" =>
           /\ fs'.phase = "up"
           /\ New(fs') = New(fs) + 1 /\ fs'.node[New(fs')].name = name
           /\ \A R : R \subseteq DOMAIN fs.node /\ Placed(fs, R) => Placed(fs', R)
           /\ Blocks(fs') = Blocks(fs)
  BY DEF Makes
<1>2. Len(fs'.node) \in Nat
  <2>1. \A s : Typed(s) => Len(s.node) \in Nat
    BY TypedFacts
  <2>. QED
    BY <1>1, <2>1
<1>3. Len(fs.node) <= Len(fs'.node)
  BY <1>1 DEF Keeps
<1>4. fs'.phase # "wild" => Roots' = Roots
  <2>. SUFFICES ASSUME fs'.phase # "wild" PROVE Roots' = Roots
    OBVIOUS
  <2>1. ASSUME NEW n \in (Len(fs.node) + 1)..Len(fs'.node) PROVE fs'.node[n].name # NULL
    <3>1. n = Len(fs'.node)
      BY <1>1, UpFacts DEF New
    <3>. QED
      BY <1>1, <3>1, VfsAssumption DEF New
  <2>. QED
    BY <1>1, <2>1, SameRoots
<1>5. fs'.phase # "wild" =>
        /\ Placed(fs', Roots')
        /\ fs'.node[devfs_root].type = "DIRECTORY"
  BY <1>1, <1>4, UpFacts DEF Keeps
<1>6. {parsed', result'} \subseteq 0..Len(fs'.node)
  BY <1>1, <1>2, <1>3, UpFacts DEF New, NULL
<1>. QED
  BY <1>1, <1>3, <1>5, <1>6, UpStep

\* A call that does nothing.
LEMMA IdleStep ==
  ASSUME TreeInv, fs.phase = "up", fs' = fs, result' = NULL,
         devfs_root' = devfs_root, parsed' = parsed, heap' = heap
  PROVE  TreeInv'
BY UpFacts DEF TreeInv, Roots, Made, NULL

LEMMA MkdirStep ==
  ASSUME TreeInv, NEW name \in Name, vfs_mkdir(name) PROVE TreeInv'
<1>1. /\ fs.phase = "up" /\ result # NULL
      /\ devfs_root' = devfs_root /\ parsed' = parsed /\ heap' = heap
  BY DEF vfs_mkdir
<1>2. CASE fs.node[result].type = "DIRECTORY"
  <2>1. /\ fs' = Mkdir(fs, result, name)
        /\ result' = IF fs'.phase = "wild" THEN NULL ELSE New(fs) + 1
    BY <1>2 DEF vfs_mkdir, Does, Returns
  <2>2. Makes(fs, fs', "DIRECTORY", name)
    <3>1. result \in 1..Len(fs.node)
      BY <1>1, UpFacts DEF NULL
    <3>. QED
      BY <1>1, <1>2, <2>1, <3>1, UpFacts, MkdirFacts
  <2>. QED
    BY <1>1, <2>1, <2>2, MakeStep
<1>3. CASE fs.node[result].type # "DIRECTORY"
  <2>1. fs' = fs /\ result' = NULL
    BY <1>1, <1>3 DEF vfs_mkdir, Does, Returns
  <2>. QED
    BY <1>1, <2>1, IdleStep
<1>. QED
  BY <1>2, <1>3

LEMMA MkfileStep ==
  ASSUME TreeInv, NEW name \in Name, vfs_mkfile(name) PROVE TreeInv'
<1>1. /\ fs.phase = "up" /\ result # NULL
      /\ devfs_root' = devfs_root /\ parsed' = parsed /\ heap' = heap
  BY DEF vfs_mkfile
<1>2. CASE fs.node[result].type = "DIRECTORY"
  <2>1. /\ fs' = Mkfile(fs, result, "FILE", name)
        /\ result' = IF fs'.phase = "wild" THEN NULL ELSE New(fs) + 1
    BY <1>2 DEF vfs_mkfile, Does, Returns
  <2>2. Makes(fs, fs', "FILE", name)
    <3>1. result \in 1..Len(fs.node)
      BY <1>1, UpFacts DEF NULL
    <3>. QED
      BY <1>1, <1>2, <2>1, <3>1, UpFacts, MkfileFacts
  <2>. QED
    BY <1>1, <2>1, <2>2, MakeStep
<1>3. CASE fs.node[result].type # "DIRECTORY"
  <2>1. fs' = fs /\ result' = NULL
    BY <1>1, <1>3 DEF vfs_mkfile, Does, Returns
  <2>. QED
    BY <1>1, <2>1, IdleStep
<1>. QED
  BY <1>2, <1>3

LEMMA DeviceStep ==
  ASSUME TreeInv, NEW name \in Name, add_new_device(name) PROVE TreeInv'
<1>1. /\ fs.phase = "up" /\ fs' = Mkfile(fs, devfs_root, "DEVICE", name)
      /\ result' = NULL
      /\ devfs_root' = devfs_root /\ parsed' = parsed /\ heap' = heap
  BY DEF add_new_device, Does, Returns
<1>2. Makes(fs, fs', "DEVICE", name)
  BY <1>1, UpFacts, MkfileFacts
<1>. QED
  BY <1>1, <1>2, MakeStep

LEMMA ParseStep == ASSUME TreeInv, ParseArchive PROVE TreeInv'
<1>. DEFINE r == Len(fs.node) + 1
<1>1. /\ fs.phase = "up" /\ fs' = tar_parse_filesystem(fs) /\ result' = NULL
      /\ parsed' = IF fs'.phase = "wild" THEN NULL ELSE New(fs) + 1
      /\ devfs_root' = devfs_root /\ heap' = heap
  BY DEF ParseArchive, Does, Returns
<1>2. Loaded(fs, fs')
  BY <1>1, UpFacts, ParseFacts
<1>3. /\ Typed(fs') /\ Keeps(fs, fs')
      /\ Len(fs.node) \in Nat /\ Len(fs'.node) \in Nat
      /\ DOMAIN fs'.node = 1..Len(fs'.node)
      /\ Len(fs.node) <= Len(fs'.node)
  <2>1. \A s : Typed(s) => Len(s.node) \in Nat /\ DOMAIN s.node = 1..Len(s.node)
    BY TypedFacts
  <2>. QED
    BY <1>1, <1>2, <2>1, UpFacts DEF Loaded, Keeps
<1>4. fs'.phase # "wild" =>
        /\ fs'.phase = "up" /\ r <= Len(fs'.node)
        /\ fs'.node[r].name = NULL
        /\ \A n \in (r + 1)..Len(fs'.node) : fs'.node[n].name # NULL
        /\ Placed(fs', Roots \cup {r})
        /\ Blocks(fs') = Blocks(fs)
  <2>. SUFFICES ASSUME fs'.phase # "wild"
                PROVE  /\ fs'.phase = "up" /\ r <= Len(fs'.node)
                       /\ fs'.node[r].name = NULL
                       /\ \A n \in (r + 1)..Len(fs'.node) : fs'.node[n].name # NULL
                       /\ Placed(fs', Roots \cup {r})
                       /\ Blocks(fs') = Blocks(fs)
    OBVIOUS
  <2>1. r + 1 = Len(fs.node) + 2
    BY <1>3
  <2>. QED
    BY <1>1, <1>2, <2>1, UpFacts DEF Loaded, New
<1>5. fs'.phase # "wild" => Roots' = Roots \cup {r}
  <2>. SUFFICES ASSUME fs'.phase # "wild", NEW n
                PROVE  n \in Roots' <=> n \in Roots \cup {r}
    OBVIOUS
  <2>1. n \in Roots' <=> /\ n \in 1..Len(fs'.node)
                         /\ n = ROOT \/ fs'.node[n].name = NULL \/ n = devfs_root
    BY <1>1, <1>3 DEF Roots, Made
  <2>2. n \in Roots <=> /\ n \in 1..Len(fs.node)
                        /\ n = ROOT \/ fs.node[n].name = NULL \/ n = devfs_root
    BY <1>1, UpFacts DEF Roots, Made
  <2>3. CASE n \in 1..Len(fs.node)
    <3>1. n \in 1..Len(fs'.node) /\ n # r
      BY <1>3, <2>3
    <3>2. fs'.node[n].name = fs.node[n].name
      BY <1>1, <1>3, <2>3, UpFacts DEF Keeps
    <3>. QED
      BY <2>1, <2>2, <2>3, <3>1, <3>2
  <2>4. CASE n = r
    BY <1>3, <1>4, <2>1, <2>4
  <2>5. CASE n \notin 1..Len(fs.node) /\ n # r
    <3>1. n \notin Roots
      BY <2>2, <2>5
    <3>2. n \in 1..Len(fs'.node) => n \in (r + 1)..Len(fs'.node)
      BY <1>3, <2>5
    <3>3. n # ROOT /\ n # devfs_root
      BY <1>1, <2>5, UpFacts DEF ROOT
    <3>. QED
      BY <1>4, <2>1, <2>5, <3>1, <3>2, <3>3
  <2>. QED
    BY <2>3, <2>4, <2>5
<1>6. fs'.phase # "wild" =>
        /\ Placed(fs', Roots') /\ Len(fs.node) < Len(fs'.node)
        /\ fs'.node[devfs_root].type = "DIRECTORY"
  <2>1. devfs_root \in DOMAIN fs.node /\ fs.node[devfs_root].type = "DIRECTORY"
    BY <1>1, UpFacts
  <2>2. fs'.node[devfs_root].type = "DIRECTORY"
    BY <1>3, <2>1 DEF Keeps
  <2>3. fs'.phase # "wild" => Len(fs.node) < Len(fs'.node)
    <3>1. fs'.phase # "wild" => Len(fs.node) + 1 <= Len(fs'.node)
      BY <1>4
    <3>. QED
      BY <1>3, <3>1
  <2>4. fs'.phase # "wild" => Placed(fs', Roots')
    <3>. SUFFICES ASSUME fs'.phase # "wild" PROVE Placed(fs', Roots')
      OBVIOUS
    <3>1. Placed(fs', Roots \cup {r}) /\ Roots' = Roots \cup {r}
      BY <1>4, <1>5
    <3>. HIDE DEF r
    <3>. QED
      BY <3>1
  <2>. QED
    BY <2>2, <2>3, <2>4
<1>7. {parsed', result'} \subseteq 0..Len(fs'.node)
  BY <1>1, <1>3, <1>4 DEF New, NULL
<1>. QED
  BY <1>1, <1>3, <1>4, <1>6, <1>7, UpStep

LEMMA MountStep == ASSUME TreeInv, Mount PROVE TreeInv'
<1>1. /\ fs.phase = "up" /\ parsed # NULL /\ result = New(fs)
      /\ fs' = vfs_mount(fs, result, parsed) /\ result' = NULL
      /\ devfs_root' = devfs_root /\ parsed' = parsed /\ heap' = heap
  BY DEF Mount, Does, Returns
<1>2. /\ result \in 1..Len(fs.node) /\ parsed \in 1..Len(fs.node)
      /\ devfs_root # result
  BY <1>1, UpFacts DEF New, NULL
<1>3. /\ Typed(fs') /\ fs'.phase = "up" /\ Len(fs'.node) = Len(fs.node)
      /\ \A n \in 1..Len(fs.node) :
           /\ fs'.node[n].name = fs.node[n].name
           /\ n # result => fs'.node[n] = fs.node[n]
      /\ \A R : Placed(fs, R) => Placed(fs', R)
      /\ Blocks(fs') = Blocks(fs)
  BY <1>1, <1>2, UpFacts, MountFacts DEF New
<1>4. DOMAIN fs'.node = 1..Len(fs.node)
  <2>1. \A s : Typed(s) => DOMAIN s.node = 1..Len(s.node)
    BY TypedFacts
  <2>. QED
    BY <1>3, <2>1
<1>5. Roots' = Roots
  BY SMTT(30), <1>1, <1>3, <1>4, UpFacts DEF Roots, Made
<1>6. Placed(fs', Roots') /\ fs'.node[devfs_root].type = "DIRECTORY"
  BY <1>1, <1>2, <1>3, <1>5, UpFacts
<1>7. {parsed', result'} \subseteq 0..Len(fs'.node) /\ Len(fs.node) <= Len(fs'.node)
  BY <1>1, <1>3, UpFacts DEF NULL
<1>. QED
  BY <1>1, <1>3, <1>6, <1>7, UpStep

LEMMA TreeStep == TreeInv /\ [Next]_vars => TreeInv'
<1>. SUFFICES ASSUME TreeInv, [Next]_vars PROVE TreeInv'
  OBVIOUS
<1>1. CASE UNCHANGED vars
  BY <1>1 DEF vars, TreeInv, Roots, Made
<1>2. CASE Next
  BY <1>2, BootStep, DevfsStep, GetStep, MkdirStep, MkfileStep, DeviceStep,
     ParseStep, MountStep DEF Next
<1>. QED
  BY <1>1, <1>2

-----------------------------------------------------------------------------
\* The nodes, the arrays of children and the mount points of the tree refer to
\* nodes that were made, whatever was made, listed, mounted or parsed, and
\* wherever the heap ran out.
THEOREM TreeIsTyped == Spec => []TypeOK
<1>1. TreeInv => TypeOK
  <2>. SUFFICES ASSUME TreeInv PROVE TypeOK
    OBVIOUS
  <2>1. /\ Typed(fs) /\ fs \in Trees /\ Made = 1..Len(fs.node) /\ Len(fs.node) \in Nat
    BY TypedFacts DEF TreeInv, Typed, Made
  <2>2. ASSUME NEW n \in 1..Len(fs.node) PROVE fs.node[n] \in Node
    <3>1. /\ fs.node[n] \in Nodes /\ fs.node[n].ptr \in 0..Len(fs.node)
          /\ fs.node[n].children \in Seq(Nat) /\ Len(fs.node[n].children) \in Nat
          /\ DOMAIN fs.node[n].children = 1..Len(fs.node[n].children)
          /\ \A k \in DOMAIN fs.node[n].children : fs.node[n].children[k] \in Made
      BY <2>1, TypedFacts DEF Typed, Linked
    <3>2. fs.node[n].children \in Seq(Made)
      <4>. DEFINE c == fs.node[n].children
      <4>1. /\ c \in Seq(Nat) /\ Len(c) \in Nat /\ DOMAIN c = 1..Len(c)
            /\ \A k \in DOMAIN c : c[k] \in Made
        BY <3>1
      <4>. HIDE DEF c, Made
      <4>2. c \in Seq(Made)
        BY <4>1
      <4>. QED
        BY <4>2 DEF c
    <3>3. fs.node[n].ptr \in Made \cup {NULL}
      BY <2>1, <3>1 DEF NULL
    <3>. HIDE DEF Made
    <3>. QED
      BY <3>1, <3>2, <3>3 DEF Node, Nodes
  <2>3. fs.node \in Seq(Node)
    <3>1. fs.node \in Seq(Nodes)
      BY <2>1 DEF Trees
    <3>. QED
      BY <2>1, <2>2, <3>1
  <2>4. {devfs_root, parsed, result} \subseteq Made \cup {NULL}
    BY <2>1 DEF TreeInv, NULL
  <2>5. fs.phase = "up" => devfs_root # NULL
    BY <2>1 DEF TreeInv, NULL
  <2>. QED
    BY <2>1, <2>3, <2>4, <2>5 DEF TypeOK, Trees
<1>. QED
  BY <1>1, TreeInit, TreeStep, PTL DEF Spec

\* Every node made is the child of one directory, in one place, except the
\* roots of filesystems: vfs_add_node neither loses a node nor lists it twice.
THEOREM NodesHaveOnePlace == Spec => []OnePlace
<1>1. TreeInv => OnePlace
  <2>. SUFFICES ASSUME TreeInv, fs.phase = "up", NEW n \in Made
                PROVE  Cardinality(UNION {{d} \X {k \in DOMAIN fs.node[d].children :
                                     fs.node[d].children[k] = n} : d \in Made}) =
                         IF n = ROOT \/ fs.node[n].name = NULL \/ n = devfs_root
                         THEN 0 ELSE 1
    BY DEF OnePlace
  <2>. DEFINE places == UNION {{d} \X {k \in DOMAIN fs.node[d].children :
                                     fs.node[d].children[k] = n} : d \in Made}
  <2>1. Made = DOMAIN fs.node
    BY DEF Made
  <2>2. CASE n \in Roots
    <3>1. Unlisted(fs, n)
      BY <2>1, <2>2, UpFacts DEF Placed
    <3>2. places = {}
      BY <2>1, <3>1 DEF Unlisted
    <3>3. Cardinality(places) = 0
      BY <3>2, FS_EmptySet
    <3>. QED
      BY <2>2, <3>3 DEF Roots
  <2>3. CASE n \notin Roots
    <3>1. ListedOnce(fs, n)
      BY <2>1, <2>3, UpFacts DEF Placed
    <3>2. PICK d \in DOMAIN fs.node : \E k \in DOMAIN fs.node[d].children :
            /\ fs.node[d].children[k] = n
            /\ \A e \in DOMAIN fs.node : \A j \in DOMAIN fs.node[e].children :
                 fs.node[e].children[j] = n => e = d /\ j = k
      BY <3>1 DEF ListedOnce
    <3>3. PICK k \in DOMAIN fs.node[d].children :
            /\ fs.node[d].children[k] = n
            /\ \A e \in DOMAIN fs.node : \A j \in DOMAIN fs.node[e].children :
                 fs.node[e].children[j] = n => e = d /\ j = k
      BY <3>2
    <3>4. places = {<<d, k>>}
      BY <2>1, <3>3
    <3>5. Cardinality(places) = 1
      BY <3>4, FS_Singleton
    <3>. QED
      BY <2>3, <3>5 DEF Roots
  <2>. QED
    BY <2>2, <2>3
<1>. QED
  BY <1>1, TreeInit, TreeStep, PTL DEF Spec

\* Every block the heap had is free, or taken by a node, by the array of a
\* directory or by a list of names: pmm_realloc leaves no array behind.
THEOREM HeapIsAccounted == Spec => []HeapAccounted
<1>1. TreeInv => HeapAccounted
  BY DEF TreeInv, HeapAccounted, Blocks, Dirs, Made
<1>. QED
  BY <1>1, TreeInit, TreeStep, PTL DEF Spec

-----------------------------------------------------------------------------
(* Lookups name by name.                                                   *)

Places(s) == [node : 0..Len(s.node), found_child : BOOLEAN]

\* Where a lookup is after each name.
WalksOn(s, from, path, f) ==
  /\ f \in [0..Len(path) -> Places(s)]
  /\ f[0] = [node |-> from, found_child |-> FALSE]
  /\ \A k \in 1..Len(path) : f[k] = Step(s, f[k - 1], path[k])

LEMMA WalkExists ==
  ASSUME NEW s, Typed(s), NEW from \in 0..Len(s.node), NEW X, NEW path \in Seq(X)
  PROVE  \E f : WalksOn(s, from, path, f)
<1>. DEFINE n == Len(path)
            D == Places(s)
            base == [node |-> from, found_child |-> FALSE]
            op == [p \in (1..n) \X D |-> Step(s, p[2], path[p[1]])]
<1>1. n \in Nat /\ base \in D
  BY LenProperties DEF Places
<1>2. ASSUME NEW at \in D, NEW name PROVE Step(s, at, name) \in D
  BY StepStays DEF Places
<1>3. op \in [(1..n) \X D -> D] /\ \A k \in 1..n, at \in D : op[<<k, at>>] = Step(s, at, path[k])
  <2>. HIDE DEF D, n
  <2>. QED
    BY <1>2
<1>4. PICK f : Recurs(n, D, base, op, f)
  <2>. HIDE DEF op, D, base, n
  <2>. QED
    BY <1>1, <1>3, RecursionExists
<1>5. f \in [0..n -> D] /\ f[0] = base /\ \A k \in 1..n : f[k] = Step(s, f[k - 1], path[k])
  <2>1. f \in [0..n -> D] /\ f[0] = base /\ \A k \in 1..n : f[k] = op[<<k, f[k - 1]>>]
    BY <1>4 DEF Recurs
  <2>2. \A k \in 1..n : f[k - 1] \in D
    <3>. HIDE DEF D, n, base, op
    <3>1. \A k \in 1..n : k - 1 \in 0..n
      BY <1>1
    <3>. QED
      BY <2>1, <3>1
  <2>. HIDE DEF D, n, base, op
  <2>. QED
    BY <1>3, <2>1, <2>2
<1>. QED
  BY <1>5 DEF WalksOn

\* The fold of Lookup ends where such a walk does.
LEMMA LookupWalks ==
  ASSUME NEW s, Typed(s), NEW from \in 0..Len(s.node), NEW X, NEW path \in Seq(X),
         NEW w, WalksOn(s, from, path, w)
  PROVE  Lookup(s, from, path) = w[Len(path)].node
<1>. DEFINE n == Len(path)
            D == [node : 0..Len(s.node), found_child : BOOLEAN]
            base == [node |-> from, found_child |-> FALSE]
            op == [p \in D \X X |-> Step(s, p[1], p[2])]
            f == CHOOSE g : Walks(s, from, path, 1..n, g)
            S == {k \in 0..n : f[1..k] = w[k]}
<1>1. /\ n \in Nat /\ DOMAIN path = 1..n /\ \A k \in 1..n : path[k] \in X
  BY LenProperties, ElementOfSeq
<1>2. base \in D
  OBVIOUS
<1>3. ASSUME NEW at \in D, NEW name PROVE Step(s, at, name) \in D
  BY StepStays
<1>. HIDE DEF base, D
<1>4. op \in [D \X X -> D]
  BY <1>3
<1>5. PICK h : /\ FoldsOver(op, base, path, n, h)
               /\ \A t \in SUBSET (1..n) : h[t] \in D
  <2>. HIDE DEF op
  <2>1. n \in 0..Len(path)
    BY <1>1
  <2>. QED
    BY <1>1, <1>2, <1>4, <2>1, FoldExists
<1>6. Walks(s, from, path, 1..n, h)
  <2>1. ASSUME NEW t \in SUBSET (1..n), t # {}
        PROVE  op[<<h[t \ {Max(t)}], path[Max(t)]>>] = Step(s, h[t \ {Max(t)}], path[Max(t)])
    <3>1. Max(t) \in 1..n /\ t \ {Max(t)} \in SUBSET (1..n)
      BY <1>1, <2>1, MaxOfPositions
    <3>. QED
      BY <1>1, <1>5, <3>1
  <2>. HIDE DEF op
  <2>2. \A t \in SUBSET (1..n) :
          (IF t = {} THEN base ELSE op[<<h[t \ {Max(t)}], path[Max(t)]>>])
          = (IF t = {} THEN base ELSE Step(s, h[t \ {Max(t)}], path[Max(t)]))
    BY <2>1
  <2>3. h = [t \in SUBSET (1..n) |->
               IF t = {} THEN base ELSE Step(s, h[t \ {Max(t)}], path[Max(t)])]
    BY <1>5, <2>2, MaxIsGreatest DEF FoldsOver
  <2>. QED
    BY <2>3 DEF Walks, base
<1>7. Walks(s, from, path, 1..n, f)
  BY <1>6
<1>8. f[{}] = w[0]
  BY <1>7 DEF Walks, WalksOn
<1>9. ASSUME NEW k \in 1..n, k - 1 \in S PROVE k \in S
  <2>1. /\ 1..k \in SUBSET (1..n) /\ 1..k # {}
        /\ Max(1..k) = k /\ (1..k) \ {k} = 1..(k - 1)
    BY <1>1, MaxOfFirst
  <2>2. w[k] = Step(s, w[k - 1], path[k])
    BY DEF WalksOn
  <2>3. f[1..(k - 1)] = w[k - 1] /\ k \in 0..n
    BY <1>1, <1>9
  <2>. HIDE DEF f, n
  <2>4. f[1..k] = Step(s, f[(1..k) \ {Max(1..k)}], path[Max(1..k)])
    BY <1>7, <2>1 DEF Walks
  <2>5. f[1..k] = Step(s, f[1..(k - 1)], path[k])
    BY <2>1, <2>4
  <2>. QED
    BY <2>2, <2>3, <2>5
<1>10. n \in S
  <2>1. 0 \in S
    <3>1. 1..0 = {}
      OBVIOUS
    <3>. HIDE DEF f
    <3>. QED
      BY <1>1, <1>8, <3>1
  <2>2. \A k \in 0..n : k \in S
    <3>. HIDE DEF S, n, f
    <3>. QED
      BY <1>1, <1>9, <2>1, UpTo
  <2>. QED
    BY <1>1, <2>2
<1>11. Lookup(s, from, path) = f[1..n].node
  BY <1>1, LookupIsFold
<1>. QED
  <2>. HIDE DEF f
  <2>. QED
    BY <1>10, <1>11

\* The names before one another.
LEMMA Firsts ==
  ASSUME NEW X, NEW path \in Seq(X), NEW k \in 0..Len(path)
  PROVE  /\ SubSeq(path, 1, k) \in Seq(X) /\ Len(SubSeq(path, 1, k)) = k
         /\ \A j \in 1..k : SubSeq(path, 1, k)[j] = path[j]
         /\ \A j \in 0..k : SubSeq(SubSeq(path, 1, k), 1, j) = SubSeq(path, 1, j)
         /\ SubSeq(path, 1, Len(path)) = path
<1>1. Len(path) \in Nat /\ path \in Seq(X) /\ \A j \in 1..Len(path) : path[j] \in X
  BY LenProperties, ElementOfSeq
<1>2. ASSUME NEW q \in Seq(X), NEW i \in 0..Len(q)
      PROVE  /\ SubSeq(q, 1, i) \in Seq(X) /\ Len(SubSeq(q, 1, i)) = i
             /\ \A j \in 1..i : SubSeq(q, 1, i)[j] = q[j]
  <2>1. /\ Len(q) \in Nat /\ \A j \in 1..i : q[j] \in X
    BY LenProperties, ElementOfSeq
  <2>2. /\ SubSeq(q, 1, i) \in Seq(X)
        /\ Len(SubSeq(q, 1, i)) = IF 1 <= i THEN i - 1 + 1 ELSE 0
        /\ \A j \in 1..(i - 1 + 1) : SubSeq(q, 1, i)[j] = q[1 + j - 1]
    BY <2>1, SubSeqProperties
  <2>3. i - 1 + 1 = i /\ (IF 1 <= i THEN i - 1 + 1 ELSE 0) = i /\ \A j \in 1..i : 1 + j - 1 = j
    BY <2>1
  <2>. QED
    BY <2>2, <2>3
<1>3. /\ SubSeq(path, 1, k) \in Seq(X) /\ Len(SubSeq(path, 1, k)) = k
      /\ \A j \in 1..k : SubSeq(path, 1, k)[j] = path[j]
  BY <1>2
<1>4. ASSUME NEW j \in 0..k
      PROVE  SubSeq(SubSeq(path, 1, k), 1, j) = SubSeq(path, 1, j)
  <2>. DEFINE q == SubSeq(path, 1, k)
  <2>1. q \in Seq(X) /\ j \in 0..Len(q) /\ j \in 0..Len(path)
    BY <1>1, <1>3
  <2>2. \A i \in 1..j : q[i] = path[i]
    BY <1>1, <1>3
  <2>. HIDE DEF q
  <2>3. /\ SubSeq(q, 1, j) \in Seq(X) /\ Len(SubSeq(q, 1, j)) = j
        /\ \A i \in 1..j : SubSeq(q, 1, j)[i] = q[i]
    BY <1>2, <2>1
  <2>4. /\ SubSeq(path, 1, j) \in Seq(X) /\ Len(SubSeq(path, 1, j)) = j
        /\ \A i \in 1..j : SubSeq(path, 1, j)[i] = path[i]
    BY <1>2, <2>1
  <2>5. SubSeq(q, 1, j) = SubSeq(path, 1, j)
    BY <2>2, <2>3, <2>4, SeqEqual
  <2>. QED
    BY <2>5 DEF q
<1>5. SubSeq(path, 1, Len(path)) = path
  <2>1. Len(path) \in 0..Len(path)
    BY <1>1
  <2>. QED
    BY <1>1, <1>2, <2>1, SeqEqual
<1>. QED
  BY <1>3, <1>4, <1>5

\* Lookups of the first names of a path are the places of one walk.
LEMMA LookupsWalk ==
  ASSUME NEW s, Typed(s), NEW from \in 0..Len(s.node), NEW X, NEW path \in Seq(X),
         NEW f, WalksOn(s, from, path, f), NEW k \in 0..Len(path)
  PROVE  Lookup(s, from, SubSeq(path, 1, k)) = f[k].node
<1>. DEFINE q == SubSeq(path, 1, k)
            w == [j \in 0..k |-> f[j]]
<1>1. Len(path) \in Nat
  BY LenProperties
<1>2. q \in Seq(X) /\ Len(q) = k /\ \A j \in 1..k : q[j] = path[j]
  BY Firsts
<1>. HIDE DEF q
<1>3. WalksOn(s, from, q, w)
  <2>1. /\ f \in [0..Len(path) -> Places(s)]
        /\ f[0] = [node |-> from, found_child |-> FALSE]
        /\ \A j \in 1..Len(path) : f[j] = Step(s, f[j - 1], path[j])
    BY DEF WalksOn
  <2>2. \A j \in 0..k : j \in 0..Len(path)
    BY <1>1
  <2>3. w \in [0..k -> Places(s)] /\ \A j \in 0..k : w[j] = f[j]
    BY <2>1, <2>2
  <2>. HIDE DEF w
  <2>4. \A j \in 1..k : /\ j \in 1..Len(path) /\ j \in 0..k /\ j - 1 \in 0..k
    BY <1>1
  <2>5. ASSUME NEW j \in 1..k PROVE w[j] = Step(s, w[j - 1], q[j])
    BY <1>2, <2>1, <2>3, <2>4
  <2>6. 0 \in 0..k
    BY <1>1
  <2>. QED
    BY <1>2, <2>1, <2>3, <2>5, <2>6 DEF WalksOn
<1>4. Lookup(s, from, q) = w[k].node
  <2>. HIDE DEF w
  <2>. QED
    BY <1>2, <1>3, LookupWalks
<1>5. k \in 0..k
  BY <1>1
<1>. QED
  BY <1>4, <1>5 DEF q

-----------------------------------------------------------------------------
(* What paths name, name by name: a node, or none for good.                *)

Go(s, n, name) ==
  IF n = NULL \/ Children(s, n, name) = {} THEN NULL
  ELSE Entered(s, s.node[n].children[Hit(Children(s, n, name))])

LEMMA HitIsLeast ==
  ASSUME NEW s, Typed(s), NEW n \in 1..Len(s.node), NEW name, Children(s, n, name) # {}
  PROVE  /\ Hit(Children(s, n, name)) \in Children(s, n, name)
         /\ \A k \in Children(s, n, name) : Hit(Children(s, n, name)) <= k
         /\ Hit(Children(s, n, name)) \in 1..Len(s.node[n].children)
         /\ s.node[n].children[Hit(Children(s, n, name))] \in 1..Len(s.node)
<1>. DEFINE ks == Children(s, n, name)
<1>1. /\ DOMAIN s.node[n].children = 1..Len(s.node[n].children)
      /\ Len(s.node[n].children) \in Nat
      /\ \A k \in DOMAIN s.node[n].children : s.node[n].children[k] \in 1..Len(s.node)
  BY SMTT(30), TypedFacts DEF Typed, Linked
<1>2. ks \subseteq 1..Len(s.node[n].children) /\ ks \in SUBSET Nat
  BY <1>1 DEF Children
<1>. HIDE DEF ks
<1>3. Hit(ks) \in ks /\ \A k \in ks : Hit(ks) <= k
  <2>1. \E m \in ks : \A k \in ks : m <= k
    BY <1>2, LeastNatural DEF ks
  <2>. QED
    BY <2>1 DEF Hit, Min
<1>4. s.node[n].children[Hit(ks)] \in 1..Len(s.node)
  BY <1>1, <1>2, <1>3
<1>. QED
  BY <1>2, <1>3, <1>4 DEF ks

LEMMA GoStays ==
  ASSUME NEW s, Typed(s), NEW n \in 0..Len(s.node), NEW name
  PROVE  Go(s, n, name) \in 0..Len(s.node)
<1>1. Len(s.node) \in Nat
  BY TypedFacts
<1>2. CASE n = NULL \/ Children(s, n, name) = {}
  BY <1>1, <1>2 DEF Go, NULL
<1>3. CASE ~(n = NULL \/ Children(s, n, name) = {})
  <2>. DEFINE c == s.node[n].children[Hit(Children(s, n, name))]
  <2>1. c \in 1..Len(s.node)
    BY <1>1, <1>3, HitIsLeast DEF NULL
  <2>2. Go(s, n, name) = Entered(s, c)
    BY <1>3 DEF Go
  <2>. HIDE DEF c
  <2>3. s.node[c].ptr \in 0..Len(s.node) /\ c \in 0..Len(s.node)
    BY <1>1, <2>1, TypedFacts
  <2>. QED
    BY <2>2, <2>3 DEF Entered
<1>. QED
  BY <1>2, <1>3

\* Where a lookup goes, when it does not stop short.
LEMMA StepGoes ==
  ASSUME NEW s, NEW at, NEW name,
         ~(at.node # NULL /\ s.node[at.node].children = <<>> /\ at.found_child)
  PROVE  Step(s, at, name).node = Go(s, at.node, name)
<1>1. CASE at.node = NULL
  BY <1>1 DEF Step, Go
<1>2. CASE at.node # NULL /\ Children(s, at.node, name) = {}
  BY <1>2 DEF Step, Go
<1>3. CASE at.node # NULL /\ Children(s, at.node, name) # {}
  BY <1>3 DEF Step, Go
<1>. QED
  BY <1>1, <1>2, <1>3

GoesOn(s, from, path, g) ==
  /\ g \in [0..Len(path) -> 0..Len(s.node)]
  /\ g[0] = from
  /\ \A k \in 1..Len(path) : g[k] = Go(s, g[k - 1], path[k])

LEMMA GoExists ==
  ASSUME NEW s, Typed(s), NEW from \in 0..Len(s.node), NEW X, NEW path \in Seq(X)
  PROVE  \E g : GoesOn(s, from, path, g)
<1>. DEFINE n == Len(path)
            D == 0..Len(s.node)
            op == [p \in (1..n) \X D |-> Go(s, p[2], path[p[1]])]
<1>1. n \in Nat /\ from \in D
  BY LenProperties
<1>2. ASSUME NEW at \in D, NEW name PROVE Go(s, at, name) \in D
  BY GoStays
<1>3. op \in [(1..n) \X D -> D] /\ \A k \in 1..n, at \in D : op[<<k, at>>] = Go(s, at, path[k])
  <2>. HIDE DEF D, n
  <2>. QED
    BY <1>2
<1>4. PICK g : Recurs(n, D, from, op, g)
  <2>. HIDE DEF op, D, n
  <2>. QED
    BY <1>1, <1>3, RecursionExists
<1>5. g \in [0..n -> D] /\ g[0] = from /\ \A k \in 1..n : g[k] = Go(s, g[k - 1], path[k])
  <2>1. g \in [0..n -> D] /\ g[0] = from /\ \A k \in 1..n : g[k] = op[<<k, g[k - 1]>>]
    BY <1>4 DEF Recurs
  <2>2. \A k \in 1..n : g[k - 1] \in D
    <3>. HIDE DEF D, n, op
    <3>1. \A k \in 1..n : k - 1 \in 0..n
      BY <1>1
    <3>. QED
      BY <2>1, <3>1
  <2>. HIDE DEF D, n, op
  <2>. QED
    BY <1>3, <2>1, <2>2
<1>. QED
  BY <1>5 DEF GoesOn

\* A lookup that stopped short is one whose path goes nowhere.
LEMMA NamedGoes ==
  ASSUME NEW s, Typed(s), NEW from \in 0..Len(s.node), NEW X, NEW path \in Seq(X),
         NEW g, GoesOn(s, from, path, g)
  PROVE  Named(s, from, path) = g[Len(path)]
<1>. DEFINE n == Len(path)
<1>1. n \in Nat
  BY LenProperties
<1>2. PICK f : WalksOn(s, from, path, f)
  BY WalkExists
<1>. DEFINE Short(k) == f[k].node # NULL /\ s.node[f[k].node].children = <<>>
            S == {k \in 0..n : g[k] = IF \E j \in 1..(k - 1) : Short(j)
                                      THEN NULL ELSE f[k].node}
<1>3. /\ g[0] = from /\ \A k \in 1..n : g[k] = Go(s, g[k - 1], path[k])
      /\ f[0] = [node |-> from, found_child |-> FALSE]
      /\ \A k \in 1..n : f[k] = Step(s, f[k - 1], path[k])
  BY <1>2 DEF GoesOn, WalksOn
<1>. HIDE DEF n
<1>4. 0 \in S
  <2>1. f[0].node = from
    BY <1>3
  <2>2. ~\E j \in 1..(0 - 1) : Short(j)
    OBVIOUS
  <2>. HIDE DEF Short
  <2>. QED
    BY <1>1, <1>3, <2>1, <2>2
<1>5. ASSUME NEW k \in 1..n, k - 1 \in S PROVE k \in S
  <2>1. /\ g[k - 1] = IF \E j \in 1..((k - 1) - 1) : Short(j) THEN NULL ELSE f[k - 1].node
        /\ k \in 0..n /\ k - 1 \in 0..n
    <3>1. k \in 0..n /\ k - 1 \in 0..n
      BY <1>1
    <3>2. g[k - 1] = IF \E j \in 1..((k - 1) - 1) : Short(j) THEN NULL ELSE f[k - 1].node
      <4>. HIDE DEF Short
      <4>. QED
        BY <1>5
    <3>. QED
      BY <3>1, <3>2
  <2>2. g[k] = Go(s, g[k - 1], path[k]) /\ f[k] = Step(s, f[k - 1], path[k])
    BY <1>3
  <2>3. CASE \E j \in 1..((k - 1) - 1) : Short(j)
    <3>1. \E j \in 1..(k - 1) : Short(j)
      <4>. HIDE DEF Short
      <4>. QED
        BY <1>1, <2>3
    <3>2. g[k - 1] = NULL
      BY <2>1, <2>3
    <3>3. g[k] = NULL
      BY <2>2, <3>2 DEF Go
    <3>. QED
      BY <2>1, <3>1, <3>3
  <2>4. CASE ~(\E j \in 1..((k - 1) - 1) : Short(j)) /\ k - 1 >= 1 /\ Short(k - 1)
    <3>1. \E j \in 1..(k - 1) : Short(j)
      BY <1>1, <2>4
    <3>2. g[k - 1] = f[k - 1].node
      BY <2>1, <2>4
    <3>3. Children(s, g[k - 1], path[k]) = {}
      <4>1. s.node[g[k - 1]].children = <<>>
        BY <2>4, <3>2
      <4>. QED
        BY <4>1 DEF Children
    <3>4. g[k] = NULL
      BY <2>2, <3>3 DEF Go
    <3>. QED
      BY <2>1, <3>1, <3>4
  <2>5. CASE ~(\E j \in 1..((k - 1) - 1) : Short(j)) /\ ~(k - 1 >= 1 /\ Short(k - 1))
    <3>1. ~\E j \in 1..(k - 1) : Short(j)
      <4>1. ASSUME NEW j \in 1..(k - 1), Short(j) PROVE FALSE
        <5>1. j \in 1..((k - 1) - 1) \/ (j = k - 1 /\ k - 1 >= 1)
          BY <1>1
        <5>. HIDE DEF Short
        <5>. QED
          BY <2>5, <4>1, <5>1
      <4>. QED
        BY <4>1
    <3>2. g[k - 1] = f[k - 1].node
      BY <2>1, <2>5
    <3>3. ~(f[k - 1].node # NULL /\ s.node[f[k - 1].node].children = <<>>
              /\ f[k - 1].found_child)
      <4>1. CASE k - 1 = 0
        BY <1>3, <4>1
      <4>2. CASE k - 1 # 0
        <5>1. k - 1 >= 1
          BY <1>1, <4>2
        <5>. QED
          BY <2>5, <5>1
      <4>. QED
        BY <4>1, <4>2
    <3>4. f[k].node = Go(s, f[k - 1].node, path[k])
      BY <2>2, <3>3, StepGoes
    <3>5. g[k] = f[k].node
      BY <2>2, <3>2, <3>4
    <3>. QED
      BY <2>1, <3>1, <3>5
  <2>. QED
    BY <2>3, <2>4, <2>5
<1>6. g[n] = IF \E j \in 1..(n - 1) : Short(j) THEN NULL ELSE f[n].node
  <2>1. \A k \in 0..n : k \in S
    <3>. HIDE DEF S
    <3>. QED
      BY <1>1, <1>4, <1>5, UpTo
  <2>2. n \in S
    BY <1>1, <2>1
  <2>. QED
    BY <2>2
<1>7. \A k \in 0..n : Lookup(s, from, SubSeq(path, 1, k)) = f[k].node
  BY <1>2, LookupsWalk DEF n
<1>8. Lookup(s, from, path) = f[n].node
  BY <1>2, LookupWalks DEF n
<1>9. (\E k \in 1..(n - 1) : LET m == Lookup(s, from, SubSeq(path, 1, k))
                             IN  m # NULL /\ s.node[m].children = <<>>)
        <=> \E j \in 1..(n - 1) : Short(j)
  <2>1. \A k \in 1..(n - 1) : Lookup(s, from, SubSeq(path, 1, k)) = f[k].node
    <3>1. \A k \in 1..(n - 1) : k \in 0..n
      BY <1>1
    <3>. QED
      BY <1>7, <3>1
  <2>. QED
    BY <2>1
<1>10. Named(s, from, path) = IF \E j \in 1..(n - 1) : Short(j) THEN NULL ELSE f[n].node
  <2>. HIDE DEF Short
  <2>. QED
    BY <1>8, <1>9 DEF Named, n
<1>. QED
  <2>. HIDE DEF Short
  <2>. QED
    BY <1>6, <1>10 DEF n

\* The node the first k names of a path name.
At(s, from, path, k) == Named(s, from, SubSeq(path, 1, k))

LEMMA NamesAlong ==
  ASSUME NEW s, Typed(s), NEW from \in 0..Len(s.node), NEW X, NEW path \in Seq(X)
  PROVE  /\ Len(path) \in Nat
         /\ At(s, from, path, 0) = from
         /\ \A k \in 0..Len(path) : At(s, from, path, k) \in 0..Len(s.node)
         /\ \A k \in 1..Len(path) :
              At(s, from, path, k) = Go(s, At(s, from, path, k - 1), path[k])
         /\ Named(s, from, path) = At(s, from, path, Len(path))
<1>1. Len(path) \in Nat
  BY LenProperties
<1>2. PICK g : GoesOn(s, from, path, g)
  BY GoExists
<1>3. /\ g \in [0..Len(path) -> 0..Len(s.node)] /\ g[0] = from
      /\ \A k \in 1..Len(path) : g[k] = Go(s, g[k - 1], path[k])
  BY <1>2 DEF GoesOn
<1>4. ASSUME NEW k \in 0..Len(path) PROVE At(s, from, path, k) = g[k]
  <2>. DEFINE q == SubSeq(path, 1, k)
              w == [j \in 0..k |-> g[j]]
  <2>1. q \in Seq(X) /\ Len(q) = k /\ \A j \in 1..k : q[j] = path[j]
    BY Firsts
  <2>2. \A j \in 0..k : j \in 0..Len(path)
    BY <1>1
  <2>3. w \in [0..k -> 0..Len(s.node)] /\ \A j \in 0..k : w[j] = g[j]
    BY <1>3, <2>2
  <2>. HIDE DEF w, q
  <2>4. \A j \in 1..k : j \in 1..Len(path) /\ j \in 0..k /\ j - 1 \in 0..k
    BY <1>1
  <2>5. ASSUME NEW j \in 1..k PROVE w[j] = Go(s, w[j - 1], q[j])
    BY <1>3, <2>1, <2>3, <2>4
  <2>6. 0 \in 0..k /\ k \in 0..k
    BY <1>1
  <2>7. GoesOn(s, from, q, w)
    BY <1>3, <2>1, <2>3, <2>5, <2>6 DEF GoesOn
  <2>8. Named(s, from, q) = w[k]
    BY <2>1, <2>7, NamedGoes
  <2>. QED
    BY <2>3, <2>6, <2>8 DEF At, q
<1>5. /\ 0 \in 0..Len(path) /\ Len(path) \in 0..Len(path)
      /\ \A k \in 1..Len(path) : k \in 0..Len(path) /\ k - 1 \in 0..Len(path)
  BY <1>1
<1>6. \A k \in 1..Len(path) : At(s, from, path, k) = Go(s, At(s, from, path, k - 1), path[k])
  BY <1>3, <1>4, <1>5
<1>7. SubSeq(path, 1, Len(path)) = path
  BY <1>5, Firsts
<1>8. Named(s, from, path) = At(s, from, path, Len(path))
  BY <1>7 DEF At
<1>. QED
  BY <1>1, <1>3, <1>4, <1>5, <1>6, <1>8

\* Where names lead to the same, paths do.
LEMMA SameNamed ==
  ASSUME NEW s, Typed(s), NEW u, Typed(u), Len(s.node) <= Len(u.node),
         \A n \in 0..Len(s.node) : \A name : Go(u, n, name) = Go(s, n, name),
         NEW from \in 0..Len(s.node), NEW X, NEW path \in Seq(X)
  PROVE  Named(u, from, path) = Named(s, from, path)
<1>. DEFINE S == {k \in 0..Len(path) : At(u, from, path, k) = At(s, from, path, k)}
<1>0. Len(s.node) \in Nat /\ Len(u.node) \in Nat /\ from \in 0..Len(u.node)
  BY TypedFacts
<1>1. /\ Len(path) \in Nat
      /\ At(s, from, path, 0) = from /\ At(u, from, path, 0) = from
      /\ \A k \in 0..Len(path) : At(s, from, path, k) \in 0..Len(s.node)
      /\ \A k \in 1..Len(path) :
           /\ At(s, from, path, k) = Go(s, At(s, from, path, k - 1), path[k])
           /\ At(u, from, path, k) = Go(u, At(u, from, path, k - 1), path[k])
      /\ Named(s, from, path) = At(s, from, path, Len(path))
      /\ Named(u, from, path) = At(u, from, path, Len(path))
  BY <1>0, NamesAlong
<1>2. 0 \in S
  BY <1>1
<1>3. ASSUME NEW k \in 1..Len(path), k - 1 \in S PROVE k \in S
  <2>1. k \in 0..Len(path) /\ k - 1 \in 0..Len(path)
    BY <1>1
  <2>2. At(u, from, path, k - 1) = At(s, from, path, k - 1)
    BY <1>3
  <2>3. Go(u, At(s, from, path, k - 1), path[k]) = Go(s, At(s, from, path, k - 1), path[k])
    BY <1>1, <2>1
  <2>4. At(u, from, path, k) = At(s, from, path, k)
    BY <1>1, <2>2, <2>3
  <2>. QED
    BY <2>1, <2>4
<1>4. \A k \in 0..Len(path) : k \in S
  <2>. HIDE DEF S
  <2>. QED
    BY <1>1, <1>2, <1>3, UpTo
<1>5. Len(path) \in S
  BY <1>1, <1>4
<1>. QED
  BY <1>1, <1>5

-----------------------------------------------------------------------------
(* What a step changes of where names lead.                                *)

\* Mount points carry something.
Carried(s) == \A n \in DOMAIN s.node : s.node[n].type = "MOUNTPOINT" => s.node[n].ptr # NULL

\* A node that is as it was, with children that are, leads where it did.
LEMMA SameGo ==
  ASSUME NEW s, Typed(s), NEW u, Typed(u),
         NEW n \in 0..Len(s.node), NEW name,
         n # NULL => u.node[n].children = s.node[n].children,
         \A m \in 1..Len(s.node) : /\ u.node[m].name = s.node[m].name
                                   /\ Entered(u, m) = Entered(s, m)
  PROVE  Go(u, n, name) = Go(s, n, name)
<1>1. CASE n = NULL
  BY <1>1 DEF Go
<1>2. CASE n # NULL
  <2>1. n \in 1..Len(s.node) /\ u.node[n].children = s.node[n].children
    BY <1>2, TypedFacts DEF NULL
  <2>2. \A k \in DOMAIN s.node[n].children : s.node[n].children[k] \in 1..Len(s.node)
    BY SMTT(30), <2>1, TypedFacts DEF Typed, Linked
  <2>3. Children(u, n, name) = Children(s, n, name)
    BY <2>1, <2>2 DEF Children
  <2>4. CASE Children(s, n, name) = {}
    BY <2>3, <2>4 DEF Go
  <2>5. CASE Children(s, n, name) # {}
    <3>. DEFINE c == s.node[n].children[Hit(Children(s, n, name))]
    <3>1. c \in 1..Len(s.node)
      BY <2>1, <2>5, HitIsLeast
    <3>2. Go(s, n, name) = Entered(s, c)
      BY <1>2, <2>5 DEF Go
    <3>3. Go(u, n, name) = Entered(u, c)
      BY <1>2, <2>1, <2>3, <2>5 DEF Go
    <3>. HIDE DEF c
    <3>. QED
      BY <3>1, <3>2, <3>3
  <2>. QED
    BY <2>4, <2>5
<1>. QED
  BY <1>1, <1>2

\* A mount point that carries something leads somewhere, as every child does.
LEMMA GoNowhere ==
  ASSUME NEW s, Typed(s), Carried(s), NEW n \in 1..Len(s.node), NEW name
  PROVE  Go(s, n, name) = NULL <=> Children(s, n, name) = {}
<1>1. n # NULL
  BY TypedFacts DEF NULL
<1>2. CASE Children(s, n, name) = {}
  BY <1>2 DEF Go
<1>3. CASE Children(s, n, name) # {}
  <2>. DEFINE c == s.node[n].children[Hit(Children(s, n, name))]
  <2>1. c \in 1..Len(s.node)
    BY <1>3, HitIsLeast
  <2>2. Go(s, n, name) = Entered(s, c)
    BY <1>1, <1>3 DEF Go
  <2>. HIDE DEF c
  <2>3. c # NULL /\ c \in DOMAIN s.node
    BY <2>1, TypedFacts DEF NULL
  <2>4. Entered(s, c) # NULL
    BY <2>3 DEF Entered, Carried
  <2>. QED
    BY <1>3, <2>2, <2>4
<1>. QED
  BY <1>2, <1>3

LEMMA ListsGo ==
  ASSUME NEW s, Typed(s), Carried(s), NEW u, Typed(u),
         NEW d \in 1..Len(s.node), NEW name, Lists(s, u, d, name)
  PROVE  /\ \A x : Go(u, New(u), x) = NULL
         /\ \A n \in 0..Len(s.node) : \A x :
              Go(u, n, x) = IF n = d /\ Go(s, n, x) = NULL /\ x = name THEN New(u)
                            ELSE Go(s, n, x)
<1>. DEFINE m == New(u)
<1>1. /\ m = Len(s.node) + 1 /\ Len(s.node) \in Nat
      /\ u.node[m].name = name /\ u.node[m].type # "MOUNTPOINT" /\ u.node[m].children = <<>>
      /\ \A n \in 1..Len(s.node) :
           /\ u.node[n].name = s.node[n].name
           /\ u.node[n].type = s.node[n].type
           /\ u.node[n].ptr = s.node[n].ptr
           /\ u.node[n].children = IF n = d THEN Append(s.node[d].children, m)
                                   ELSE s.node[n].children
  BY TypedFacts DEF Lists, New
<1>. HIDE DEF m
<1>2. \A n \in 1..Len(s.node) : /\ u.node[n].name = s.node[n].name
                                /\ Entered(u, n) = Entered(s, n)
  BY <1>1 DEF Entered
<1>3. Entered(u, m) = m
  BY <1>1 DEF Entered
<1>4. ASSUME NEW x PROVE Go(u, m, x) = NULL
  <2>1. Children(u, m, x) = {}
    BY <1>1 DEF Children
  <2>. QED
    BY <2>1 DEF Go
<1>5. ASSUME NEW n \in 0..Len(s.node), n # d, NEW x PROVE Go(u, n, x) = Go(s, n, x)
  <2>1. n # NULL => u.node[n].children = s.node[n].children
    BY <1>1, <1>5 DEF NULL
  <2>. QED
    BY <1>2, <2>1, SameGo
<1>6. ASSUME NEW x
      PROVE  Go(u, d, x) = IF Go(s, d, x) = NULL /\ x = name THEN m ELSE Go(s, d, x)
  <2>. DEFINE old == s.node[d].children
              L == Len(old)
              ks == Children(s, d, x)
  <2>1. /\ old \in Seq(Nat) /\ L \in Nat /\ DOMAIN old = 1..L
        /\ \A k \in 1..L : old[k] \in 1..Len(s.node)
    BY SMTT(30), TypedFacts DEF Typed, Linked
  <2>2. /\ u.node[d].children = Append(old, m)
        /\ DOMAIN Append(old, m) = 1..(L + 1)
        /\ Append(old, m)[L + 1] = m
        /\ \A k \in 1..L : Append(old, m)[k] = old[k]
    <3>1. u.node[d].children = Append(old, m)
      BY <1>1
    <3>2. m \in Nat
      BY <1>1
    <3>. HIDE DEF old
    <3>3. /\ Append(old, m) \in Seq(Nat) /\ Len(Append(old, m)) = L + 1
          /\ Append(old, m)[L + 1] = m
          /\ \A k \in 1..L : Append(old, m)[k] = old[k]
      BY <2>1, <3>2, AppendProperties
    <3>4. DOMAIN Append(old, m) = 1..(L + 1)
      BY <3>3, LenProperties
    <3>. QED
      BY <3>1, <3>3, <3>4
  <2>. HIDE DEF old
  <2>3. ks = {k \in 1..L : s.node[old[k]].name = x}
    BY <2>1 DEF Children, old
  <2>. HIDE DEF L
  <2>4. \A k \in 1..(L + 1) : k \in 1..L \/ k = L + 1
    BY <2>1
  <2>5. \A k \in 1..L : k \in 1..(L + 1)
    BY <2>1
  <2>6. L + 1 \notin 1..L /\ L + 1 \in 1..(L + 1)
    BY <2>1
  <2>7. Children(u, d, x) = IF x = name THEN ks \cup {L + 1} ELSE ks
    <3>1. Children(u, d, x) = {k \in 1..(L + 1) : u.node[Append(old, m)[k]].name = x}
      BY <2>2 DEF Children
    <3>2. ASSUME NEW k \in 1..L
          PROVE  u.node[Append(old, m)[k]].name = s.node[old[k]].name
      <4>1. Append(old, m)[k] = old[k] /\ old[k] \in 1..Len(s.node)
        BY <2>1, <2>2
      <4>. QED
        BY <1>1, <4>1
    <3>3. u.node[Append(old, m)[L + 1]].name = name
      BY <1>1, <2>2
    <3>. HIDE DEF ks
    <3>. QED
      BY <2>3, <2>4, <2>5, <2>6, <3>1, <3>2, <3>3
  <2>. HIDE DEF ks
  <2>8. d # NULL
    BY <1>1 DEF NULL
  <2>9. Go(s, d, x) = NULL <=> ks = {}
    BY GoNowhere DEF ks
  <2>10. CASE ks # {}
    <3>1. /\ Hit(ks) \in ks /\ \A k \in ks : Hit(ks) <= k
          /\ Hit(ks) \in 1..L /\ old[Hit(ks)] \in 1..Len(s.node)
      BY <2>10, HitIsLeast DEF ks, old, L
    <3>2. Hit(Children(u, d, x)) = Hit(ks)
      <4>1. CASE x = name
        <5>. DEFINE ls == ks \cup {L + 1}
        <5>1. ks \subseteq 1..L
          BY <2>3
        <5>2. Hit(ks) \in Int /\ L + 1 \in Int /\ Hit(ks) <= L + 1
          BY <2>1, <3>1
        <5>3. ASSUME NEW k \in ls PROVE k \in Int /\ Hit(ks) <= k
          <6>1. CASE k \in ks
            <7>1. k \in 1..L
              BY <5>1, <6>1
            <7>. QED
              BY <2>1, <3>1, <6>1, <7>1
          <6>2. CASE k = L + 1
            BY <5>2, <6>2
          <6>. QED
            BY <6>1, <6>2
        <5>4. Hit(ks) \in ls
          BY <3>1
        <5>. HIDE DEF ls
        <5>5. \A k \in ls : (\A j \in ls : k <= j) => k = Hit(ks)
          BY <5>2, <5>3, <5>4
        <5>6. Hit(ls) = Hit(ks)
          BY <5>3, <5>4, <5>5 DEF Hit, Min
        <5>. QED
          BY <2>7, <4>1, <5>6 DEF ls
      <4>2. CASE x # name
        BY <2>7, <4>2
      <4>. QED
        BY <4>1, <4>2
    <3>3. Children(u, d, x) # {}
      BY <2>7, <2>10
    <3>4. Go(u, d, x) = Entered(u, Append(old, m)[Hit(ks)])
      BY <2>2, <2>8, <3>2, <3>3 DEF Go
    <3>5. Go(s, d, x) = Entered(s, old[Hit(ks)])
      BY <2>8, <2>10 DEF Go, ks, old
    <3>6. Go(u, d, x) = Go(s, d, x)
      BY <1>2, <2>2, <3>1, <3>4, <3>5
    <3>. QED
      BY <2>9, <2>10, <3>6
  <2>11. CASE ks = {} /\ x = name
    <3>1. Children(u, d, x) = {L + 1}
      BY <2>7, <2>11
    <3>2. Hit({L + 1}) = L + 1
      <4>1. L + 1 \in {L + 1} /\ \A k \in {L + 1} : L + 1 <= k
        BY <2>1
      <4>. QED
        BY <4>1 DEF Hit, Min
    <3>3. Go(u, d, x) = Entered(u, m)
      BY <2>2, <2>8, <3>1, <3>2 DEF Go
    <3>. QED
      BY <1>3, <2>9, <2>11, <3>3
  <2>12. CASE ks = {} /\ x # name
    <3>1. Children(u, d, x) = {}
      BY <2>7, <2>12
    <3>. QED
      BY <2>9, <2>12, <3>1 DEF Go
  <2>. QED
    BY <2>10, <2>11, <2>12
<1>7. ASSUME NEW n \in 0..Len(s.node), NEW x
      PROVE  Go(u, n, x) = IF n = d /\ Go(s, n, x) = NULL /\ x = name THEN m
                           ELSE Go(s, n, x)
  BY <1>5, <1>6
<1>. QED
  BY <1>4, <1>7 DEF m

\* The new name of a made node, and nothing else, is added to what paths name.
LEMMA ListsNamed ==
  ASSUME NEW s, Typed(s), Carried(s), NEW u, Typed(u),
         NEW d \in 1..Len(s.node), NEW name, Lists(s, u, d, name),
         NEW from \in 0..Len(s.node), NEW X, NEW path \in Seq(X), path # <<>>
  PROVE  Named(u, from, path) =
           IF /\ Named(s, from, path) = NULL
              /\ Named(s, from, Front(path)) = d
              /\ Last(path) = name
           THEN New(u) ELSE Named(s, from, path)
<1>. DEFINE n == Len(path)
            m == New(u)
            a(k) == At(s, from, path, k)
            b(k) == At(u, from, path, k)
            Here(k) == a(k) = NULL /\ a(k - 1) = d /\ path[k] = name
            S == {k \in 0..n : b(k) = IF k >= 1 /\ Here(k) THEN m ELSE a(k)}
<1>1. Len(s.node) \in Nat /\ m = Len(s.node) + 1 /\ Len(u.node) = m
  BY TypedFacts DEF Lists, New
<1>2. from \in 0..Len(u.node)
  BY <1>1
<1>3. /\ n \in Nat /\ a(0) = from /\ b(0) = from
      /\ \A k \in 0..n : a(k) \in 0..Len(s.node)
      /\ \A k \in 1..n : a(k) = Go(s, a(k - 1), path[k]) /\ b(k) = Go(u, b(k - 1), path[k])
      /\ Named(s, from, path) = a(n) /\ Named(u, from, path) = b(n)
  BY <1>2, NamesAlong
<1>4. /\ \A x : Go(u, m, x) = NULL
      /\ \A p \in 0..Len(s.node) : \A x :
           Go(u, p, x) = IF p = d /\ Go(s, p, x) = NULL /\ x = name THEN m ELSE Go(s, p, x)
  BY ListsGo
<1>5. n >= 1
  <2>1. n # 0
    BY EmptySeq
  <2>. QED
    BY <1>3, <2>1
<1>. HIDE DEF n, m, a, b
<1>6. 0 \in S
  BY <1>3
<1>7. ASSUME NEW k \in 1..n, k - 1 \in S PROVE k \in S
  <2>1. /\ k \in 0..n /\ k - 1 \in 0..n /\ k >= 1
        /\ a(k - 1) \in 0..Len(s.node)
        /\ a(k) = Go(s, a(k - 1), path[k]) /\ b(k) = Go(u, b(k - 1), path[k])
    BY <1>3
  <2>2. b(k - 1) = IF k - 1 >= 1 /\ Here(k - 1) THEN m ELSE a(k - 1)
    BY <1>7
  <2>3. CASE k - 1 >= 1 /\ Here(k - 1)
    <3>1. b(k) = NULL
      BY <1>4, <2>1, <2>2, <2>3
    <3>2. a(k - 1) = NULL
      BY <2>3
    <3>3. a(k) = NULL
      BY <2>1, <3>2 DEF Go
    <3>4. ~Here(k)
      <4>1. d # NULL
        BY <1>1 DEF NULL
      <4>. QED
        BY <3>2, <4>1
    <3>. HIDE DEF Here
    <3>. QED
      BY <2>1, <3>1, <3>3, <3>4
  <2>4. CASE ~(k - 1 >= 1 /\ Here(k - 1))
    <3>1. b(k - 1) = a(k - 1)
      BY <2>2, <2>4
    <3>2. b(k) = IF a(k - 1) = d /\ a(k) = NULL /\ path[k] = name THEN m ELSE a(k)
      BY <1>4, <2>1, <3>1
    <3>3. b(k) = IF k >= 1 /\ Here(k) THEN m ELSE a(k)
      BY <2>1, <3>2
    <3>. QED
      BY <2>1, <3>3
  <2>. QED
    BY <2>3, <2>4
<1>8. \A k \in 0..n : k \in S
  <2>. HIDE DEF S
  <2>. QED
    BY <1>3, <1>6, <1>7, UpTo
<1>9. n \in S
  BY <1>3, <1>8
<1>10. b(n) = IF Here(n) THEN m ELSE a(n)
  BY <1>5, <1>9
<1>11. Named(s, from, Front(path)) = a(n - 1) /\ Last(path) = path[n]
  BY DEF Front, Last, a, At, n
<1>. QED
  BY <1>3, <1>10, <1>11 DEF m

\* What a mount changes of where names lead.
LEMMA MountGo ==
  ASSUME NEW s, Typed(s), NEW m \in 1..Len(s.node), NEW f \in 1..Len(s.node),
         s.phase # "wild", s.node[m].type = "DIRECTORY",
         \A n \in DOMAIN s.node : s.node[n].type = "MOUNTPOINT" => s.node[n].ptr # m,
         NEW u, u = vfs_mount(s, m, f),
         NEW n \in 0..Len(s.node), NEW x
  PROVE  Go(u, n, x) = IF Go(s, n, x) = m THEN f ELSE Go(s, n, x)
<1>1. Len(s.node) \in Nat /\ DOMAIN s.node = 1..Len(s.node) /\ m # NULL
  BY TypedFacts DEF NULL
<1>2. /\ u.node[m].type = "MOUNTPOINT" /\ u.node[m].ptr = f
      /\ \A k \in 1..Len(s.node) : /\ u.node[k].name = s.node[k].name
                                   /\ u.node[k].children = s.node[k].children
                                   /\ k # m => u.node[k] = s.node[k]
  BY MountFacts
<1>3. \A k \in 1..Len(s.node) : Entered(u, k) = IF Entered(s, k) = m THEN f ELSE Entered(s, k)
  BY <1>1, <1>2 DEF Entered
<1>4. CASE n = NULL
  BY <1>1, <1>4 DEF Go
<1>5. CASE n # NULL
  <2>1. n \in 1..Len(s.node) /\ u.node[n].children = s.node[n].children
    BY <1>1, <1>2, <1>5 DEF NULL
  <2>2. \A k \in DOMAIN s.node[n].children : s.node[n].children[k] \in 1..Len(s.node)
    BY SMTT(30), <2>1, TypedFacts DEF Typed, Linked
  <2>3. Children(u, n, x) = Children(s, n, x)
    BY SMTT(30), <1>2, <2>1, <2>2 DEF Children
  <2>4. CASE Children(s, n, x) = {}
    BY <1>1, <2>3, <2>4 DEF Go
  <2>5. CASE Children(s, n, x) # {}
    <3>. DEFINE c == s.node[n].children[Hit(Children(s, n, x))]
    <3>1. c \in 1..Len(s.node)
      BY <2>1, <2>5, HitIsLeast
    <3>2. Go(s, n, x) = Entered(s, c)
      BY <1>5, <2>5 DEF Go
    <3>3. Go(u, n, x) = Entered(u, c)
      BY <1>2, <1>5, <2>1, <2>3, <2>5 DEF Go
    <3>. HIDE DEF c
    <3>. QED
      BY <1>3, <3>1, <3>2, <3>3
  <2>. QED
    BY <2>4, <2>5
<1>. QED
  BY <1>4, <1>5

Through(s, from, path, m) == {k \in DOMAIN path : Named(s, from, SubSeq(path, 1, k)) = m}

\* A mount changes the paths through its mount point, and no others.
LEMMA MountNamed ==
  ASSUME NEW s, Typed(s), NEW m \in 1..Len(s.node), NEW f \in 1..Len(s.node),
         s.phase # "wild", s.node[m].type = "DIRECTORY",
         \A n \in DOMAIN s.node : s.node[n].type = "MOUNTPOINT" => s.node[n].ptr # m,
         NEW u, u = vfs_mount(s, m, f),
         NEW from \in 0..Len(s.node), NEW X, NEW path \in Seq(X)
  PROVE  Named(u, from, path) =
           IF Through(s, from, path, m) = {} THEN Named(s, from, path)
           ELSE Named(u, f, SubSeq(path, Min(Through(s, from, path, m)) + 1, Len(path)))
<1>. DEFINE n == Len(path)
            a(k) == At(s, from, path, k)
            b(k) == At(u, from, path, k)
            through == Through(s, from, path, m)
<1>1. Len(s.node) \in Nat /\ Typed(u) /\ Len(u.node) = Len(s.node)
  BY TypedFacts, MountFacts DEF New
<1>2. /\ n \in Nat /\ a(0) = from /\ b(0) = from
      /\ \A k \in 0..n : a(k) \in 0..Len(s.node)
      /\ \A k \in 1..n : a(k) = Go(s, a(k - 1), path[k]) /\ b(k) = Go(u, b(k - 1), path[k])
      /\ Named(s, from, path) = a(n) /\ Named(u, from, path) = b(n)
  BY SMTT(30), <1>1, NamesAlong
<1>3. \A p \in 0..Len(s.node) : \A x :
        Go(u, p, x) = IF Go(s, p, x) = m THEN f ELSE Go(s, p, x)
  BY MountGo
<1>4. through = {k \in 1..n : a(k) = m}
  BY LenProperties DEF At, Through
<1>. DEFINE S == {k \in 0..n : (\A j \in 1..k : a(j) # m) => b(k) = a(k)}
<1>. HIDE DEF n, a, b, through
<1>5. \A k \in 0..n : k \in S
  <2>1. 0 \in S
    BY <1>2
  <2>2. ASSUME NEW k \in 1..n, k - 1 \in S PROVE k \in S
    <3>1. k \in 0..n /\ k - 1 \in 0..n /\ \A j \in 1..(k - 1) : j \in 1..k
      BY <1>2
    <3>2. ASSUME \A j \in 1..k : a(j) # m PROVE b(k) = a(k)
      <4>1. b(k - 1) = a(k - 1)
        BY <2>2, <3>1, <3>2
      <4>2. a(k) # m
        BY <1>2, <3>2
      <4>. QED
        BY <1>2, <1>3, <3>1, <4>1, <4>2
    <3>. QED
      BY <3>1, <3>2
  <2>. HIDE DEF S
  <2>. QED
    BY <1>2, <2>1, <2>2, UpTo
<1>6. CASE through = {}
  <2>1. \A j \in 1..n : a(j) # m
    BY <1>4, <1>6
  <2>2. n \in 0..n
    BY <1>2
  <2>3. n \in S
    BY <1>5, <2>2
  <2>4. b(n) = a(n)
    BY <2>1, <2>3
  <2>. QED
    BY <1>2, <1>6, <2>4 DEF through
<1>7. CASE through # {}
  <2>. DEFINE h == Min(through)
              rest == SubSeq(path, h + 1, n)
              c(j) == At(u, f, rest, j)
              T == {j \in 0..(n - h) : c(j) = b(h + j)}
  <2>1. h \in through /\ \A k \in through : h <= k
    <3>1. through \in SUBSET Nat
      BY <1>4
    <3>2. \E k \in through : \A j \in through : k <= j
      BY <1>7, <3>1, LeastNatural
    <3>. QED
      BY <3>2 DEF Min
  <2>. HIDE DEF h
  <2>2. h \in 1..n /\ h - 1 \in 0..n /\ a(h) = m
    BY <1>2, <1>4, <2>1
  <2>3. \A j \in 1..(h - 1) : a(j) # m
    <3>1. \A j \in 1..(h - 1) : j \in 1..n /\ ~(h <= j)
      BY <1>2, <2>2
    <3>. QED
      BY <1>4, <2>1, <3>1
  <2>4. b(h - 1) = a(h - 1)
    BY <1>5, <2>2, <2>3
  <2>5. b(h) = f
    <3>1. Go(s, a(h - 1), path[h]) = m
      BY <1>2, <2>2
    <3>. QED
      BY SMTT(30), <1>2, <1>3, <2>2, <2>4, <3>1
  <2>6. rest \in Seq(X) /\ Len(rest) = n - h /\ \A j \in 1..(n - h) : rest[j] = path[h + j]
    <3>1. \A k \in (h + 1)..n : path[k] \in X
      BY <1>2, <2>2, ElementOfSeq DEF n
    <3>2. h + 1 \in Int /\ n \in Int
      BY <1>2, <2>2
    <3>3. /\ rest \in Seq(X)
          /\ Len(rest) = IF h + 1 <= n THEN n - (h + 1) + 1 ELSE 0
          /\ \A j \in 1..(n - (h + 1) + 1) : rest[j] = path[h + 1 + j - 1]
      BY SMTT(30), <3>1, <3>2, SubSeqProperties
    <3>4. n - (h + 1) + 1 = n - h /\ \A j \in 1..(n - h) : h + 1 + j - 1 = h + j
      BY <1>2, <2>2
    <3>5. ~(h + 1 <= n) => n - h = 0
      BY <1>2, <2>2
    <3>6. Len(rest) = n - h
      BY <3>3, <3>4, <3>5
    <3>. QED
      BY <3>3, <3>4, <3>6
  <2>. HIDE DEF rest
  <2>7. /\ c(0) = f /\ n - h \in Nat
        /\ \A j \in 1..(n - h) : c(j) = Go(u, c(j - 1), rest[j])
        /\ Named(u, f, rest) = c(n - h)
    <3>1. f \in 0..Len(u.node) /\ Typed(u) /\ rest \in Seq(X)
      BY <1>1, <2>6
    <3>2. /\ Len(rest) \in Nat /\ c(0) = f
          /\ \A j \in 1..Len(rest) : c(j) = Go(u, c(j - 1), rest[j])
          /\ Named(u, f, rest) = c(Len(rest))
      BY <3>1, NamesAlong
    <3>. HIDE DEF c
    <3>. QED
      BY <2>6, <3>2
  <2>. HIDE DEF c
  <2>8. 0 \in T
    <3>1. h + 0 = h
      BY <2>2
    <3>. QED
      BY <2>5, <2>7, <3>1
  <2>9. ASSUME NEW j \in 1..(n - h), j - 1 \in T PROVE j \in T
    <3>1. /\ j \in 0..(n - h) /\ h + j \in 1..n /\ h + (j - 1) = (h + j) - 1
      BY <1>2, <2>2
    <3>2. c(j - 1) = b((h + j) - 1)
      BY <2>9, <3>1
    <3>3. c(j) = Go(u, b((h + j) - 1), path[h + j])
      BY <2>6, <2>7, <3>2
    <3>4. b(h + j) = Go(u, b((h + j) - 1), path[h + j])
      BY <1>2, <3>1
    <3>. QED
      BY <3>1, <3>3, <3>4
  <2>10. \A j \in 0..(n - h) : j \in T
    <3>. HIDE DEF T
    <3>. QED
      BY <2>7, <2>8, <2>9, UpTo
  <2>11. c(n - h) = b(h + (n - h))
    BY <2>7, <2>10
  <2>12. h + (n - h) = n
    BY <1>2, <2>2
  <2>. QED
    BY <1>2, <1>7, <2>7, <2>11, <2>12 DEF rest, h, n, through
<1>. QED
  BY <1>6, <1>7

-----------------------------------------------------------------------------
(* What a step may do to what paths name.                                  *)

LEMMA MakePath ==
  ASSUME NEW s, Typed(s), Carried(s), NEW u, Typed(u), ROOT \in 1..Len(s.node),
         NEW d \in 1..Len(s.node), NEW name, Lists(s, u, d, name),
         NEW c, c = <<"make", d, name>>, NEW path \in Path, path # <<>>
  PROVE  PathRight(s, u, c, path)
<1>1. path \in Seq(Name \cup {DEV})
  BY DEF Path, BoundedSeq, SeqOf
<1>2. ROOT \in 0..Len(s.node)
  BY TypedFacts
<1>3. Named(u, ROOT, path) =
        IF /\ Named(s, ROOT, path) = NULL
           /\ Named(s, ROOT, Front(path)) = d
           /\ Last(path) = name
        THEN New(u) ELSE Named(s, ROOT, path)
  BY <1>1, <1>2, ListsNamed
<1>4. c[1] = "make" /\ c[2] = d /\ c[3] = name
  OBVIOUS
<1>. QED
  BY <1>3, <1>4 DEF PathRight

\* Nodes that are as they were lead where they did.
LEMMA SamePath ==
  ASSUME NEW s, Typed(s), NEW u, Typed(u), ROOT \in 1..Len(s.node),
         Len(s.node) <= Len(u.node), \A n \in DOMAIN s.node : Untouched(s, u, n),
         NEW c, c[1] # "make", c[1] # "mount", NEW path \in Path
  PROVE  PathRight(s, u, c, path)
<1>1. path \in Seq(Name \cup {DEV})
  BY DEF Path, BoundedSeq, SeqOf
<1>2. ROOT \in 0..Len(s.node) /\ DOMAIN s.node = 1..Len(s.node) /\ Len(s.node) \in Nat
  BY TypedFacts
<1>3. \A m \in 1..Len(s.node) : u.node[m].name = s.node[m].name /\ Entered(u, m) = Entered(s, m)
  BY <1>2 DEF Untouched, Entered
<1>4. \A n \in 1..Len(s.node) : u.node[n].children = s.node[n].children
  BY <1>2 DEF Untouched
<1>5. ASSUME NEW n \in 0..Len(s.node), NEW name PROVE Go(u, n, name) = Go(s, n, name)
  <2>1. n # NULL => u.node[n].children = s.node[n].children
    BY <1>2, <1>4 DEF NULL
  <2>. QED
    BY <1>3, <2>1, SameGo
<1>6. Named(u, ROOT, path) = Named(s, ROOT, path)
  BY <1>1, <1>2, <1>5, SameNamed
<1>. QED
  BY <1>6 DEF PathRight

LEMMA MountPath ==
  ASSUME NEW s, Typed(s), ROOT \in 1..Len(s.node), s.phase # "wild",
         NEW m \in 1..Len(s.node), NEW f \in 1..Len(s.node), s.node[m].type = "DIRECTORY",
         \A n \in DOMAIN s.node : s.node[n].type = "MOUNTPOINT" => s.node[n].ptr # m,
         NEW u, u = vfs_mount(s, m, f),
         NEW c, c = <<"mount", m, f>>, NEW path \in Path
  PROVE  PathRight(s, u, c, path)
<1>. DEFINE through == Through(s, ROOT, path, m)
<1>1. path \in Seq(Name \cup {DEV})
  BY DEF Path, BoundedSeq, SeqOf
<1>2. ROOT \in 0..Len(s.node)
  BY TypedFacts
<1>3. Named(u, ROOT, path) =
        IF through = {} THEN Named(s, ROOT, path)
        ELSE Named(u, f, SubSeq(path, Min(through) + 1, Len(path)))
  BY <1>1, <1>2, MountNamed
<1>4. c[1] = "mount" /\ c[2] = m /\ c[3] = f /\ c[1] # "make"
  OBVIOUS
<1>. QED
  BY <1>3, <1>4 DEF PathRight, Through

\* A lookup never returns a root nobody points to.
LEMMA LookupAvoids ==
  ASSUME NEW s, Typed(s), NEW from \in 0..Len(s.node), NEW X, NEW path \in Seq(X),
         NEW p, p # NULL, from # p, Unlisted(s, p),
         \A n \in DOMAIN s.node : s.node[n].type = "MOUNTPOINT" => s.node[n].ptr # p
  PROVE  Lookup(s, from, path) # p
<1>1. PICK f : WalksOn(s, from, path, f)
  BY WalkExists
<1>. DEFINE S == {k \in 0..Len(path) : f[k].node # p}
<1>2. /\ Len(path) \in Nat /\ f \in [0..Len(path) -> Places(s)]
      /\ f[0] = [node |-> from, found_child |-> FALSE]
      /\ \A k \in 1..Len(path) : f[k] = Step(s, f[k - 1], path[k])
  BY <1>1, LenProperties DEF WalksOn
<1>3. Len(s.node) \in Nat /\ DOMAIN s.node = 1..Len(s.node)
  BY TypedFacts
<1>4. ASSUME NEW at \in Places(s), at.node # p, NEW name PROVE Step(s, at, name).node # p
  <2>. DEFINE ks == Children(s, at.node, name)
  <2>1. at.node # NULL => at.node \in 1..Len(s.node)
    <3>1. at.node \in 0..Len(s.node)
      BY DEF Places
    <3>. QED
      BY <1>3, <3>1 DEF NULL
  <2>2. CASE at.node = NULL \/ (s.node[at.node].children = <<>> /\ at.found_child)
    BY <1>4, <2>2 DEF Step
  <2>3. CASE /\ ~(at.node = NULL \/ (s.node[at.node].children = <<>> /\ at.found_child))
             /\ ks = {}
    BY <2>3 DEF Step
  <2>4. CASE /\ ~(at.node = NULL \/ (s.node[at.node].children = <<>> /\ at.found_child))
             /\ ks # {}
    <3>. DEFINE c == s.node[at.node].children[Hit(ks)]
    <3>1. at.node \in 1..Len(s.node)
      <4>. HIDE DEF ks
      <4>. QED
        BY ZenonT(30), <2>1, <2>4
    <3>2. Hit(ks) \in DOMAIN s.node[at.node].children /\ c \in 1..Len(s.node)
      <4>1. Hit(ks) \in ks /\ c \in 1..Len(s.node)
        BY <2>4, <3>1, HitIsLeast
      <4>. QED
        BY <4>1 DEF Children
    <3>3. c # p
      BY <1>3, <3>1, <3>2 DEF Unlisted
    <3>4. Step(s, at, name).node = Entered(s, c)
      BY <2>4 DEF Step
    <3>5. c \in DOMAIN s.node
      BY <1>3, <3>2
    <3>. HIDE DEF c, ks
    <3>6. Entered(s, c) # p
      BY <3>3, <3>5 DEF Entered
    <3>. QED
      BY ZenonT(30), <3>4, <3>6
  <2>. QED
    BY <2>2, <2>3, <2>4
<1>5. 0 \in S
  BY <1>2
<1>6. ASSUME NEW k \in 1..Len(path), k - 1 \in S PROVE k \in S
  <2>1. k \in 0..Len(path) /\ k - 1 \in 0..Len(path) /\ f[k - 1] \in Places(s)
    BY <1>2
  <2>. QED
    BY <1>2, <1>4, <1>6, <2>1
<1>7. \A k \in 0..Len(path) : k \in S
  <2>. HIDE DEF S
  <2>. QED
    BY <1>2, <1>5, <1>6, UpTo
<1>8. Len(path) \in S
  BY <1>2, <1>7
<1>9. Lookup(s, from, path) = f[Len(path)].node
  BY <1>1, LookupWalks
<1>. QED
  BY <1>8, <1>9

\* A mount point carries devfs, or a filesystem made before it; so nothing is
\* mounted on a node a mount point carries, and no lookup returns a filesystem
\* that nothing carries yet.
PathInv ==
  fs.phase = "up" =>
    /\ \A n \in DOMAIN fs.node : fs.node[n].type = "MOUNTPOINT" =>
         /\ fs.node[n].ptr # NULL
         /\ fs.node[n].ptr = devfs_root \/ fs.node[n].ptr < n
    /\ parsed # NULL => devfs_root < parsed /\ fs.node[parsed].name = NULL
    /\ parsed = Len(fs.node) => result # parsed

PathsStep ==
  /\ PathInv'
  /\ fs.phase = "up" /\ fs'.phase = "up" =>
       \A path \in Path \ {<<>>} : PathRight(fs, fs', call', path)

LEMMA PathFacts ==
  ASSUME TreeInv, PathInv, fs.phase = "up"
  PROVE  /\ ROOT \in 1..Len(fs.node) /\ Carried(fs)
         /\ \A n \in 1..Len(fs.node) : fs.node[n].type = "MOUNTPOINT" =>
              fs.node[n].ptr # NULL /\ (fs.node[n].ptr = devfs_root \/ fs.node[n].ptr < n)
         /\ \A n \in DOMAIN fs.node : fs.node[n].ptr \in 0..Len(fs.node)
         /\ parsed # NULL => devfs_root < parsed /\ fs.node[parsed].name = NULL
         /\ parsed = Len(fs.node) => result # parsed
<1>1. ROOT \in 1..Len(fs.node)
  BY UpFacts DEF ROOT
<1>2. \A n \in DOMAIN fs.node : fs.node[n].ptr \in 0..Len(fs.node)
  BY UpFacts, TypedFacts
<1>. QED
  BY <1>1, <1>2, UpFacts DEF PathInv, Carried

\* A node is made in a directory.
LEMMA MakePaths ==
  ASSUME TreeInv, PathInv, fs.phase = "up", Typed(fs'),
         NEW d \in 1..Len(fs.node), NEW name,
         fs'.phase # "wild" => Lists(fs, fs', d, name),
         call' = <<"make", d, name>>, devfs_root' = devfs_root, parsed' = parsed
  PROVE  PathsStep
<1>1. Len(fs'.node) \in Nat /\ DOMAIN fs'.node = 1..Len(fs'.node)
  <2>1. \A s : Typed(s) => Len(s.node) \in Nat /\ DOMAIN s.node = 1..Len(s.node)
    BY TypedFacts
  <2>. QED
    BY <2>1
<1>2. ASSUME fs'.phase = "up" PROVE Lists(fs, fs', d, name)
  BY <1>2
<1>3. ASSUME fs'.phase = "up"
      PROVE  /\ Len(fs'.node) = Len(fs.node) + 1
             /\ fs'.node[Len(fs'.node)].type # "MOUNTPOINT"
             /\ \A n \in 1..Len(fs.node) : /\ fs'.node[n].type = fs.node[n].type
                                           /\ fs'.node[n].name = fs.node[n].name
                                           /\ fs'.node[n].ptr = fs.node[n].ptr
  BY <1>2, <1>3 DEF Lists, New
<1>4. PathInv'
  <2>. SUFFICES ASSUME fs'.phase = "up"
                PROVE  /\ \A n \in DOMAIN fs'.node : fs'.node[n].type = "MOUNTPOINT" =>
                            /\ fs'.node[n].ptr # NULL
                            /\ fs'.node[n].ptr = devfs_root' \/ fs'.node[n].ptr < n
                       /\ parsed' # NULL => /\ devfs_root' < parsed'
                                            /\ fs'.node[parsed'].name = NULL
                       /\ parsed' = Len(fs'.node) => result' # parsed'
    BY DEF PathInv
  <2>1. ASSUME NEW n \in DOMAIN fs'.node, fs'.node[n].type = "MOUNTPOINT"
        PROVE  fs'.node[n].ptr # NULL /\ (fs'.node[n].ptr = devfs_root' \/ fs'.node[n].ptr < n)
    <3>1. n \in 1..Len(fs'.node) /\ n # Len(fs'.node) /\ Len(fs.node) \in Nat
      BY <1>1, <1>3, <2>1, UpFacts
    <3>2. n \in 1..Len(fs.node)
      BY <1>3, <3>1
    <3>. QED
      BY <1>3, <2>1, <3>2, PathFacts
  <2>2. parsed' # NULL => devfs_root' < parsed' /\ fs'.node[parsed'].name = NULL
    <3>1. parsed # NULL => parsed \in 1..Len(fs.node)
      BY UpFacts DEF NULL
    <3>. QED
      BY <1>3, <3>1, PathFacts
  <2>3. parsed' # Len(fs'.node)
    BY <1>3, UpFacts
  <2>. QED
    BY <2>1, <2>2, <2>3
<1>5. ASSUME fs'.phase = "up", NEW path \in Path, path # <<>>
      PROVE  PathRight(fs, fs', call', path)
  BY <1>2, <1>5, UpFacts, PathFacts, MakePath
<1>. QED
  BY <1>4, <1>5 DEF PathsStep

LEMMA IdlePaths ==
  ASSUME TreeInv, PathInv, fs.phase = "up", fs' = fs, result' = NULL, call' = <<"none">>,
         devfs_root' = devfs_root, parsed' = parsed
  PROVE  PathsStep
<1>1. PathInv'
  <2>1. parsed = Len(fs.node) => parsed # NULL
    BY UpFacts DEF NULL
  <2>. QED
    BY <2>1 DEF PathInv
<1>2. call'[1] # "make" /\ call'[1] # "mount"
  OBVIOUS
<1>3. ASSUME NEW path \in Path PROVE PathRight(fs, fs', call', path)
  <2>1. \A n \in DOMAIN fs.node : Untouched(fs, fs', n)
    BY DEF Untouched
  <2>2. Typed(fs') /\ Len(fs.node) <= Len(fs'.node)
    BY UpFacts
  <2>. QED
    BY <1>2, <2>1, <2>2, UpFacts, PathFacts, SamePath
<1>. QED
  BY <1>1, <1>3 DEF PathsStep

LEMMA MkdirPaths ==
  ASSUME TreeInv, TreeInv', PathInv, NEW name \in Name, vfs_mkdir(name) PROVE PathsStep
<1>1. /\ fs.phase = "up" /\ result \in 1..Len(fs.node)
      /\ devfs_root' = devfs_root /\ parsed' = parsed
  BY UpFacts DEF vfs_mkdir, NULL
<1>2. CASE fs.node[result].type = "DIRECTORY"
  <2>1. fs' = Mkdir(fs, result, name) /\ call' = <<"make", result, name>>
    BY <1>2 DEF vfs_mkdir, Does
  <2>2. fs'.phase # "wild" => Lists(fs, fs', result, name)
    BY <1>1, <1>2, <2>1, UpFacts, MkdirLists
  <2>. QED
    BY <1>1, <2>1, <2>2, MakePaths DEF TreeInv
<1>3. CASE fs.node[result].type # "DIRECTORY"
  <2>1. fs' = fs /\ result' = NULL /\ call' = <<"none">>
    BY <1>1, <1>3 DEF vfs_mkdir, Does, Returns
  <2>. QED
    BY <1>1, <2>1, IdlePaths
<1>. QED
  BY <1>2, <1>3

LEMMA MkfilePaths ==
  ASSUME TreeInv, TreeInv', PathInv, NEW name \in Name, vfs_mkfile(name) PROVE PathsStep
<1>1. /\ fs.phase = "up" /\ result \in 1..Len(fs.node)
      /\ devfs_root' = devfs_root /\ parsed' = parsed
  BY UpFacts DEF vfs_mkfile, NULL
<1>2. CASE fs.node[result].type = "DIRECTORY"
  <2>1. fs' = Mkfile(fs, result, "FILE", name) /\ call' = <<"make", result, name>>
    BY <1>2 DEF vfs_mkfile, Does
  <2>2. fs'.phase # "wild" => Lists(fs, fs', result, name)
    BY <1>1, <1>2, <2>1, UpFacts, MkfileLists
  <2>. QED
    BY <1>1, <2>1, <2>2, MakePaths DEF TreeInv
<1>3. CASE fs.node[result].type # "DIRECTORY"
  <2>1. fs' = fs /\ result' = NULL /\ call' = <<"none">>
    BY <1>1, <1>3 DEF vfs_mkfile, Does, Returns
  <2>. QED
    BY <1>1, <2>1, IdlePaths
<1>. QED
  BY <1>2, <1>3

LEMMA DevicePaths ==
  ASSUME TreeInv, TreeInv', PathInv, NEW name \in Name, add_new_device(name)
  PROVE  PathsStep
<1>1. /\ fs.phase = "up" /\ fs' = Mkfile(fs, devfs_root, "DEVICE", name)
      /\ call' = <<"make", devfs_root, name>>
      /\ devfs_root' = devfs_root /\ parsed' = parsed
  BY DEF add_new_device, Does
<1>2. fs'.phase # "wild" => Lists(fs, fs', devfs_root, name)
  BY <1>1, UpFacts, MkfileLists
<1>. QED
  BY <1>1, <1>2, UpFacts, MakePaths DEF TreeInv

\* Nothing leads to an archive that was parsed before it is mounted.
LEMMA ParsePaths ==
  ASSUME TreeInv, TreeInv', PathInv, ParseArchive PROVE PathsStep
<1>. DEFINE r == Len(fs.node) + 1
<1>1. /\ fs.phase = "up" /\ fs' = tar_parse_filesystem(fs) /\ result' = NULL
      /\ parsed' = IF fs'.phase = "wild" THEN NULL ELSE r
      /\ devfs_root' = devfs_root /\ call' = <<"none">>
  BY DEF ParseArchive, Does, Returns, New
<1>2. Loaded(fs, fs')
  BY <1>1, UpFacts, ParseFacts
<1>3. Typed(fs') /\ Len(fs.node) <= Len(fs'.node) /\ DOMAIN fs'.node = 1..Len(fs'.node)
  <2>1. \A s : Typed(s) => DOMAIN s.node = 1..Len(s.node)
    BY TypedFacts
  <2>. QED
    BY <1>2, <2>1 DEF Loaded, Keeps
<1>4. fs'.phase # "wild" =>
        /\ r <= Len(fs'.node) /\ fs'.node[r].name = NULL
        /\ fs'.node[r].type = "DIRECTORY"
        /\ \A n \in (Len(fs.node) + 2)..Len(fs'.node) : fs'.node[n].type # "MOUNTPOINT"
        /\ \A n \in DOMAIN fs.node : Untouched(fs, fs', n)
  BY <1>2 DEF Loaded, New
<1>5. PathInv'
  <2>. SUFFICES ASSUME fs'.phase = "up"
                PROVE  /\ \A n \in DOMAIN fs'.node : fs'.node[n].type = "MOUNTPOINT" =>
                            /\ fs'.node[n].ptr # NULL
                            /\ fs'.node[n].ptr = devfs_root' \/ fs'.node[n].ptr < n
                       /\ parsed' # NULL => /\ devfs_root' < parsed'
                                            /\ fs'.node[parsed'].name = NULL
                       /\ parsed' = Len(fs'.node) => result' # parsed'
    BY DEF PathInv
  <2>1. ASSUME NEW n \in DOMAIN fs'.node, fs'.node[n].type = "MOUNTPOINT"
        PROVE  fs'.node[n].ptr # NULL /\ (fs'.node[n].ptr = devfs_root' \/ fs'.node[n].ptr < n)
    <3>1. n \in 1..Len(fs'.node) /\ Len(fs.node) \in Nat
      BY <1>1, <1>3, UpFacts
    <3>2. n \in 1..Len(fs.node) \/ n = r \/ n \in (Len(fs.node) + 2)..Len(fs'.node)
      BY <3>1
    <3>3. n \in 1..Len(fs.node)
      BY <1>4, <2>1, <3>2
    <3>4. fs'.node[n].type = fs.node[n].type /\ fs'.node[n].ptr = fs.node[n].ptr
      BY <1>1, <1>4, <3>3, UpFacts DEF Untouched
    <3>. QED
      BY <1>1, <2>1, <3>3, <3>4, PathFacts
  <2>2. parsed' = r /\ r # NULL /\ devfs_root' < r
    BY <1>1, UpFacts DEF NULL
  <2>3. fs'.node[parsed'].name = NULL /\ result' # parsed'
    BY <1>1, <1>4, <2>2
  <2>. QED
    BY <2>1, <2>2, <2>3
<1>6. call'[1] # "make" /\ call'[1] # "mount"
  BY <1>1
<1>7. ASSUME fs'.phase = "up", NEW path \in Path PROVE PathRight(fs, fs', call', path)
  BY <1>1, <1>3, <1>4, <1>6, <1>7, UpFacts, PathFacts, SamePath
<1>. QED
  BY <1>5, <1>7 DEF PathsStep

LEMMA GetPaths ==
  ASSUME TreeInv, TreeInv', PathInv, NEW path \in Path, vfs_get(path) PROVE PathsStep
<1>1. /\ fs.phase = "up" /\ fs' = vfs_token_path(fs, path)
      /\ result' = IF fs'.phase = "wild" THEN NULL ELSE Lookup(fs, ROOT, path)
      /\ devfs_root' = devfs_root /\ parsed' = parsed /\ call' = <<"vfs_get">>
  BY DEF vfs_get, Does, Returns
<1>2. Typed(fs') /\ fs'.node = fs.node
  BY <1>1, UpFacts, TokenFacts
<1>3. path \in Seq(Name \cup {DEV})
  BY DEF Path, BoundedSeq, SeqOf
<1>4. ASSUME parsed = Len(fs.node) PROVE Lookup(fs, ROOT, path) # parsed
  <2>1. parsed # NULL /\ parsed \in 1..Len(fs.node)
    BY <1>1, <1>4, UpFacts DEF NULL
  <2>2. parsed \in Roots /\ Unlisted(fs, parsed)
    <3>1. parsed \in Roots
      BY <1>1, <2>1, UpFacts, PathFacts DEF Roots, Made
    <3>. QED
      BY <1>1, <3>1, UpFacts DEF Placed
  <2>3. ROOT # parsed /\ ROOT \in 0..Len(fs.node)
    BY <1>1, <2>1, UpFacts, PathFacts DEF ROOT
  <2>4. ASSUME NEW n \in DOMAIN fs.node, fs.node[n].type = "MOUNTPOINT"
        PROVE  fs.node[n].ptr # parsed
    <3>1. n \in 1..Len(fs.node) /\ fs.node[n].ptr \in 0..Len(fs.node)
      BY <1>1, UpFacts, PathFacts
    <3>2. fs.node[n].ptr = devfs_root \/ fs.node[n].ptr < n
      BY <1>1, <2>4, <3>1, PathFacts
    <3>3. devfs_root < parsed
      BY <1>1, <2>1, PathFacts
    <3>. QED
      BY <1>1, <1>4, <3>1, <3>2, <3>3, UpFacts
  <2>. QED
    BY <1>1, <1>3, <2>1, <2>2, <2>3, <2>4, UpFacts, LookupAvoids
<1>5. PathInv'
  <2>1. fs'.phase = "up" => (parsed' = Len(fs'.node) => result' # parsed')
    BY <1>1, <1>2, <1>4
  <2>. QED
    BY <1>1, <1>2, <2>1 DEF PathInv
<1>6. call'[1] # "make" /\ call'[1] # "mount"
  BY <1>1
<1>7. ASSUME NEW p \in Path PROVE PathRight(fs, fs', call', p)
  <2>1. \A n \in DOMAIN fs.node : Untouched(fs, fs', n)
    BY <1>2 DEF Untouched
  <2>2. Len(fs.node) <= Len(fs'.node)
    BY <1>1, <1>2, UpFacts
  <2>. QED
    BY <1>1, <1>2, <1>6, <2>1, <2>2, UpFacts, PathFacts, SamePath
<1>. QED
  BY <1>5, <1>7 DEF PathsStep

\* Nothing was mounted where a mount point leads to.
LEMMA MountPaths ==
  ASSUME TreeInv, TreeInv', PathInv, Mount PROVE PathsStep
<1>1. /\ fs.phase = "up" /\ parsed # NULL /\ result = Len(fs.node)
      /\ fs.node[result].type = "DIRECTORY"
      /\ fs' = vfs_mount(fs, result, parsed) /\ result' = NULL
      /\ devfs_root' = devfs_root /\ parsed' = parsed
      /\ call' = <<"mount", result, parsed>>
  BY DEF Mount, Does, Returns, New
<1>2. /\ result \in 1..Len(fs.node) /\ parsed \in 1..Len(fs.node)
      /\ devfs_root < parsed /\ parsed < result
  BY <1>1, UpFacts, PathFacts DEF NULL
<1>3. /\ Len(fs'.node) = Len(fs.node)
      /\ fs'.node[result].ptr = parsed
      /\ \A n \in 1..Len(fs.node) :
           /\ fs'.node[n].name = fs.node[n].name
           /\ n # result => fs'.node[n] = fs.node[n]
  BY SMTT(30), <1>1, <1>2, UpFacts, MountFacts DEF New
<1>4. DOMAIN fs'.node = 1..Len(fs.node)
  <2>1. \A s : Typed(s) => DOMAIN s.node = 1..Len(s.node)
    BY TypedFacts
  <2>. QED
    BY <1>3, <2>1 DEF TreeInv
<1>5. ASSUME NEW n \in DOMAIN fs.node, fs.node[n].type = "MOUNTPOINT"
      PROVE  fs.node[n].ptr # result
  <2>1. n \in 1..Len(fs.node) /\ fs.node[n].ptr \in 0..Len(fs.node)
    BY <1>1, UpFacts, PathFacts
  <2>2. fs.node[n].ptr = devfs_root \/ fs.node[n].ptr < n
    BY <1>1, <1>5, <2>1, PathFacts
  <2>. QED
    BY <1>1, <1>2, <2>1, <2>2, UpFacts
<1>6. PathInv'
  <2>1. ASSUME NEW n \in DOMAIN fs'.node, fs'.node[n].type = "MOUNTPOINT"
        PROVE  fs'.node[n].ptr # NULL /\ (fs'.node[n].ptr = devfs_root' \/ fs'.node[n].ptr < n)
    <3>1. CASE n = result
      BY <1>1, <1>2, <1>3, <3>1
    <3>2. CASE n # result
      <4>1. n \in 1..Len(fs.node) /\ fs'.node[n] = fs.node[n]
        BY <1>3, <1>4, <3>2
      <4>. QED
        BY <1>1, <2>1, <4>1, PathFacts
    <3>. QED
      BY <3>1, <3>2
  <2>2. devfs_root' < parsed' /\ fs'.node[parsed'].name = NULL
    BY <1>1, <1>2, <1>3, PathFacts
  <2>3. result' # parsed'
    BY <1>1
  <2>. QED
    BY <2>1, <2>2, <2>3 DEF PathInv
<1>7. ASSUME NEW path \in Path PROVE PathRight(fs, fs', call', path)
  <2>1. fs.phase # "wild"
    BY <1>1
  <2>. QED
    BY <1>1, <1>2, <1>5, <2>1, UpFacts, PathFacts, MountPath
<1>. QED
  BY <1>6, <1>7 DEF PathsStep

\* The first mount point carries the root of devfs.
LEMMA DevfsPaths ==
  ASSUME TreeInv, TreeInv', devfs_init PROVE PathsStep
<1>. DEFINE r == vfs_token_path(fs, <<>>)
            s == Mkdir(r, ROOT, DEV)
            t == NewDirectory(s, DEV)
            u == vfs_mount(t, New(s), New(t))
            v == [u EXCEPT !.phase = "up"]
<1>1. /\ Typed(fs) /\ fs.phase = "boot" /\ Len(fs.node) = 1 /\ DOMAIN fs.node = 1..1
      /\ fs.node[ROOT].type = "DIRECTORY" /\ parsed = NULL
  BY TypedFacts DEF TreeInv, devfs_init
<1>2. /\ fs' = IF u.phase = "wild" THEN u ELSE v
      /\ devfs_root' = IF u.phase = "wild" THEN 0 ELSE New(t)
      /\ parsed' = NULL
  BY <1>1 DEF devfs_init, Does, NULL
<1>3. Typed(r) /\ Keeps(fs, r) /\ r.node = fs.node
  BY <1>1, TokenFacts
<1>. HIDE DEF r
<1>4. Makes(r, s, "DIRECTORY", DEV)
  <2>1. ROOT \in 1..Len(r.node) /\ r.node[ROOT].type = "DIRECTORY"
    BY <1>1, <1>3 DEF ROOT
  <2>. QED
    BY <1>3, <2>1, MkdirFacts
<1>. HIDE DEF s
<1>5. /\ Typed(s) /\ Keeps(r, s)
      /\ s.phase # "wild" => New(s) = 2 /\ s.node[2].type = "DIRECTORY"
  <2>1. New(r) = 1
    BY <1>1, <1>3 DEF New
  <2>. QED
    BY <1>4, <2>1 DEF Makes
<1>6. /\ Typed(t) /\ Keeps(s, t)
      /\ t.phase # "wild" =>
           /\ s.phase # "wild" /\ New(t) = 3 /\ t.node[3].type = "DIRECTORY"
  <2>1. /\ Typed(t) /\ Keeps(s, t)
        /\ t.phase # "wild" => /\ s.phase # "wild" /\ New(t) = New(s) + 1
                               /\ t.node[New(t)].type = "DIRECTORY"
    BY <1>5, NewDirectoryFacts
  <2>. HIDE DEF t
  <2>. QED
    BY <1>5, <2>1
<1>. HIDE DEF t
<1>7. CASE t.phase = "wild"
  <2>1. u = t
    BY <1>7 DEF vfs_mount
  <2>2. fs'.phase = "wild"
    BY <1>2, <1>7, <2>1
  <2>. QED
    BY <1>1, <2>2 DEF PathsStep, PathInv
<1>8. CASE t.phase # "wild"
  <2>1. /\ Len(t.node) = 3 /\ DOMAIN t.node = 1..3 /\ New(s) = 2 /\ New(t) = 3
        /\ 2 \in 1..Len(t.node) /\ 3 \in 1..Len(t.node)
    BY <1>5, <1>6, <1>8, TypedFacts DEF New
  <2>2. t.node[1].type = "DIRECTORY" /\ t.node[2].type = "DIRECTORY"
    <3>1. DOMAIN s.node = 1..2
      BY <1>5, <1>6, <1>8, TypedFacts DEF New
    <3>2. s.node[1].type = "DIRECTORY"
      BY <1>1, <1>3, <1>5 DEF Keeps, ROOT
    <3>3. 1 \in DOMAIN s.node /\ 2 \in DOMAIN s.node
      BY <3>1
    <3>. QED
      BY <1>5, <1>6, <1>8, <3>2, <3>3 DEF Keeps
  <2>3. /\ Typed(u) /\ u.phase = t.phase /\ New(u) = 3
        /\ u.node[2].ptr = 3
        /\ \A n \in 1..Len(t.node) : n # 2 => u.node[n] = t.node[n]
    <3>. HIDE DEF u
    <3>1. u = vfs_mount(t, 2, 3)
      BY <2>1 DEF u
    <3>. QED
      BY SMTT(30), <1>6, <1>8, <2>1, <2>2, <3>1, MountFacts
  <2>. HIDE DEF u
  <2>4. v.node = u.node
    BY <2>3 DEF Typed, Trees
  <2>. HIDE DEF v
  <2>5. fs'.node = u.node /\ devfs_root' = 3
    BY <1>2, <1>8, <2>1, <2>3, <2>4
  <2>6. Len(fs'.node) = 3 /\ DOMAIN fs'.node = 1..3
    BY <2>3, <2>5, TypedFacts DEF New
  <2>7. ASSUME NEW n \in DOMAIN fs'.node, fs'.node[n].type = "MOUNTPOINT"
        PROVE  fs'.node[n].ptr # NULL /\ fs'.node[n].ptr = devfs_root'
    <3>1. n = 1 \/ n = 2 \/ n = 3
      BY <2>6
    <3>2. fs'.node[1].type = "DIRECTORY" /\ fs'.node[3].type = "DIRECTORY"
      BY <1>6, <1>8, <2>1, <2>2, <2>3, <2>5
    <3>3. n = 2
      BY <2>7, <3>1, <3>2
    <3>. QED
      BY <2>3, <2>5, <3>3 DEF NULL
  <2>8. parsed' # Len(fs'.node)
    BY <1>2, <2>6 DEF NULL
  <2>9. PathInv'
    BY <1>2, <2>7, <2>8 DEF PathInv
  <2>. QED
    BY <1>1, <2>9 DEF PathsStep
<1>. QED
  BY <1>7, <1>8

LEMMA PathStep ==
  ASSUME TreeInv, TreeInv', PathInv, Next PROVE PathsStep
<1>1. ASSUME vfs_init PROVE PathsStep
  <2>1. fs.phase = "off"
    BY <1>1 DEF vfs_init
  <2>2. fs'.phase # "up"
    <3>1. devfs_root' = NULL /\ devfs_root' \notin 1..Len(fs'.node)
      BY <1>1 DEF vfs_init, TreeInv, NULL
    <3>. QED
      BY <3>1 DEF TreeInv
  <2>. QED
    BY <2>1, <2>2 DEF PathsStep, PathInv
<1>. QED
  BY <1>1, DevfsPaths, GetPaths, MkdirPaths, MkfilePaths, DevicePaths, ParsePaths,
     MountPaths DEF Next

\* What paths name changes only by the steps that are meant to change it: the new
\* name of a made node is added, and a mount changes the paths through its mount
\* point into those of the filesystem it carries.
THEOREM PathsLeadRight == Spec => PathsRight
<1>1. Init => PathInv
  BY DEF Init, PathInv
<1>2. TreeInv /\ TreeInv' /\ PathInv /\ [Next]_vars =>
        /\ PathInv'
        /\ [fs.phase = "up" /\ fs'.phase = "up" =>
              \A path \in Path \ {<<>>} : PathRight(fs, fs', call', path)]_vars
  <2>1. ASSUME TreeInv, TreeInv', PathInv, Next PROVE PathsStep
    BY <2>1, PathStep
  <2>2. ASSUME PathInv, UNCHANGED vars PROVE PathInv'
    BY <2>2 DEF PathInv, vars
  <2>. QED
    BY <2>1, <2>2 DEF PathsStep
<1>. QED
  BY <1>1, <1>2, TreeInit, TreeStep, PTL DEF Spec, PathsRight

-----------------------------------------------------------------------------
(* Octal numbers: what tar writes, getsize reads.                          *)

LEMMA RestFacts ==
  ASSUME NEW s \in Nat
  PROVE  /\ Tar!Rest(s) \in [0..DIGITS -> Nat] /\ Tar!Rest(s)[0] = s
         /\ \A k \in 1..DIGITS : Tar!Rest(s)[k] = Tar!Rest(s)[k - 1] \div 8
<1>. DEFINE Rec(f) == f = [k \in 0..DIGITS |-> IF k = 0 THEN s ELSE f[k - 1] \div 8]
            op == [p \in (1..DIGITS) \X Nat |-> p[2] \div 8]
<1>1. DIGITS \in Nat
  BY TarAssumption
<1>2. op \in [(1..DIGITS) \X Nat -> Nat]
  OBVIOUS
<1>3. PICK g : Recurs(DIGITS, Nat, s, op, g)
  <2>. HIDE DEF op
  <2>. QED
    BY <1>1, <1>2, RecursionExists
<1>4. Rec(g)
  <2>1. g \in [0..DIGITS -> Nat] /\ g[0] = s
    BY <1>3 DEF Recurs
  <2>2. ASSUME NEW k \in 1..DIGITS PROVE g[k] = g[k - 1] \div 8
    <3>. HIDE DEF op
    <3>1. k - 1 \in 0..DIGITS
      BY <1>1
    <3>2. g[k - 1] \in Nat /\ g[k] = op[<<k, g[k - 1]>>]
      BY <1>3, <3>1 DEF Recurs
    <3>. QED
      BY <3>2 DEF op
  <2>3. \A k \in 0..DIGITS : k = 0 \/ k \in 1..DIGITS
    BY <1>1
  <2>. QED
    BY <2>1, <2>2, <2>3
<1>5. Tar!Rest(s) = CHOOSE f : Rec(f)
  BY DEF Tar!Rest
<1>6. Rec(Tar!Rest(s))
  <2>. HIDE DEF Rec
  <2>. QED
    BY <1>4, <1>5
<1>7. /\ Tar!Rest(s) = [k \in 0..DIGITS |-> Tar!Rest(s)[k]]
      /\ \A k \in 0..DIGITS : Tar!Rest(s)[k] = IF k = 0 THEN s ELSE Tar!Rest(s)[k - 1] \div 8
  BY <1>6
<1>. HIDE DEF Rec
<1>8. Tar!Rest(s)[0] = s /\ \A k \in 1..DIGITS : Tar!Rest(s)[k] = Tar!Rest(s)[k - 1] \div 8
  <2>1. 0 \in 0..DIGITS /\ \A k \in 1..DIGITS : k \in 0..DIGITS /\ k # 0
    BY <1>1
  <2>. QED
    BY <1>7, <2>1
<1>9. \A k \in 0..DIGITS : k \in {j \in 0..DIGITS : Tar!Rest(s)[j] \in Nat}
  <2>. DEFINE S == {j \in 0..DIGITS : Tar!Rest(s)[j] \in Nat}
  <2>1. 0 \in S /\ \A k \in 1..DIGITS : k - 1 \in S => k \in S
    BY <1>1, <1>8
  <2>. HIDE DEF S
  <2>2. \A k \in 0..DIGITS : k \in S
    BY <1>1, <2>1, UpTo
  <2>. QED
    BY <2>2 DEF S
<1>10. Tar!Rest(s) \in [0..DIGITS -> Nat]
  BY <1>7, <1>9
<1>. QED
  BY <1>8, <1>10

\* The weights of the digits, and the number so far.
Weighs(c) ==
  c = [k \in 0..DIGITS |-> IF k = 0 THEN 1 ELSE (c[k - 1] * 8) % WORD]

Sums(in, c, f) ==
  f = [k \in 0..DIGITS |->
         IF k = 0 THEN 0 ELSE (f[k - 1] + in[DIGITS + 1 - k] * c[k - 1]) % WORD]

LEMMA WeightsFacts ==
  /\ \E c : Weighs(c)
  /\ \A c : Weighs(c) =>
       /\ c[0] = 1 /\ \A k \in 0..DIGITS : c[k] \in Nat
       /\ \A k \in 1..DIGITS : c[k] = (c[k - 1] * 8) % WORD
<1>. DEFINE op == [p \in (1..DIGITS) \X Nat |-> (p[2] * 8) % WORD]
<1>1. DIGITS \in Nat /\ WORD \in Nat /\ WORD > 0
  BY TarAssumption
<1>2. op \in [(1..DIGITS) \X Nat -> Nat]
  BY <1>1
<1>3. PICK g : Recurs(DIGITS, Nat, 1, op, g)
  <2>. HIDE DEF op
  <2>. QED
    BY <1>1, <1>2, RecursionExists
<1>4. Weighs(g)
  <2>1. g \in [0..DIGITS -> Nat] /\ g[0] = 1
    BY <1>3 DEF Recurs
  <2>2. ASSUME NEW k \in 1..DIGITS PROVE g[k] = (g[k - 1] * 8) % WORD
    <3>. HIDE DEF op
    <3>1. k - 1 \in 0..DIGITS
      BY <1>1
    <3>2. g[k - 1] \in Nat /\ g[k] = op[<<k, g[k - 1]>>]
      BY <1>3, <3>1 DEF Recurs
    <3>. QED
      BY <3>2 DEF op
  <2>3. \A k \in 0..DIGITS : k = 0 \/ k \in 1..DIGITS
    BY <1>1
  <2>. QED
    BY <2>1, <2>2, <2>3 DEF Weighs
<1>5. ASSUME NEW c, Weighs(c)
      PROVE  /\ c[0] = 1 /\ \A k \in 0..DIGITS : c[k] \in Nat
             /\ \A k \in 1..DIGITS : c[k] = (c[k - 1] * 8) % WORD
  <2>. DEFINE S == {j \in 0..DIGITS : c[j] \in Nat}
  <2>1. \A k \in 0..DIGITS : c[k] = IF k = 0 THEN 1 ELSE (c[k - 1] * 8) % WORD
    BY <1>5 DEF Weighs
  <2>2. c[0] = 1 /\ \A k \in 1..DIGITS : c[k] = (c[k - 1] * 8) % WORD
    BY <1>1, <2>1
  <2>3. 0 \in S /\ \A k \in 1..DIGITS : k - 1 \in S => k \in S
    BY <1>1, <2>2
  <2>. HIDE DEF S
  <2>4. \A k \in 0..DIGITS : k \in S
    BY <1>1, <2>3, UpTo
  <2>. QED
    BY <2>2, <2>4 DEF S
<1>. QED
  BY <1>4, <1>5

LEMMA SumsFacts ==
  ASSUME NEW in \in [1..DIGITS -> Nat], NEW c, Weighs(c)
  PROVE  /\ \E f : Sums(in, c, f)
         /\ \A f : Sums(in, c, f) =>
              /\ f[0] = 0 /\ \A k \in 0..DIGITS : f[k] \in Nat
              /\ \A k \in 1..DIGITS :
                   f[k] = (f[k - 1] + in[DIGITS + 1 - k] * c[k - 1]) % WORD
<1>. DEFINE op == [p \in (1..DIGITS) \X Nat |->
                     (p[2] + in[DIGITS + 1 - p[1]] * c[p[1] - 1]) % WORD]
<1>1. DIGITS \in Nat /\ WORD \in Nat /\ WORD > 0
  BY TarAssumption
<1>2. \A k \in 1..DIGITS : in[DIGITS + 1 - k] \in Nat /\ c[k - 1] \in Nat
  <2>1. \A k \in 1..DIGITS : DIGITS + 1 - k \in 1..DIGITS /\ k - 1 \in 0..DIGITS
    BY <1>1
  <2>. QED
    BY <2>1, WeightsFacts
<1>3. op \in [(1..DIGITS) \X Nat -> Nat]
  <2>1. ASSUME NEW k \in 1..DIGITS, NEW x \in Nat
        PROVE  (x + in[DIGITS + 1 - k] * c[k - 1]) % WORD \in Nat
    <3>1. x + in[DIGITS + 1 - k] * c[k - 1] \in Nat
      BY <1>2, SMTT(30)
    <3>. QED
      BY <1>1, <3>1
  <2>. QED
    BY <2>1
<1>4. PICK g : Recurs(DIGITS, Nat, 0, op, g)
  <2>. HIDE DEF op
  <2>. QED
    BY <1>1, <1>3, RecursionExists
<1>5. Sums(in, c, g)
  <2>1. g \in [0..DIGITS -> Nat] /\ g[0] = 0
    BY <1>4 DEF Recurs
  <2>2. ASSUME NEW k \in 1..DIGITS
        PROVE  g[k] = (g[k - 1] + in[DIGITS + 1 - k] * c[k - 1]) % WORD
    <3>. HIDE DEF op
    <3>1. k - 1 \in 0..DIGITS
      BY <1>1
    <3>2. g[k - 1] \in Nat /\ g[k] = op[<<k, g[k - 1]>>]
      BY <1>4, <3>1 DEF Recurs
    <3>. QED
      BY <3>2 DEF op
  <2>3. \A k \in 0..DIGITS : k = 0 \/ k \in 1..DIGITS
    BY <1>1
  <2>. HIDE DEF op
  <2>. QED
    BY <2>1, <2>2, <2>3 DEF Sums
<1>6. ASSUME NEW f, Sums(in, c, f)
      PROVE  /\ f[0] = 0 /\ \A k \in 0..DIGITS : f[k] \in Nat
             /\ \A k \in 1..DIGITS :
                  f[k] = (f[k - 1] + in[DIGITS + 1 - k] * c[k - 1]) % WORD
  <2>. DEFINE S == {j \in 0..DIGITS : f[j] \in Nat}
  <2>1. \A k \in 0..DIGITS :
          f[k] = IF k = 0 THEN 0 ELSE (f[k - 1] + in[DIGITS + 1 - k] * c[k - 1]) % WORD
    BY <1>6 DEF Sums
  <2>2. f[0] = 0 /\ \A k \in 1..DIGITS :
          f[k] = (f[k - 1] + in[DIGITS + 1 - k] * c[k - 1]) % WORD
    BY <1>1, <2>1
  <2>3. ASSUME NEW k \in 1..DIGITS, k - 1 \in S PROVE k \in S
    <3>1. f[k - 1] + in[DIGITS + 1 - k] * c[k - 1] \in Nat
      <4>1. f[k - 1] \in Nat /\ in[DIGITS + 1 - k] \in Nat /\ c[k - 1] \in Nat
        BY <1>2, <2>3
      <4>2. in[DIGITS + 1 - k] * c[k - 1] \in Nat
        BY <4>1
      <4>. QED
        BY <4>1, <4>2
    <3>2. f[k] \in Nat
      BY <1>1, <2>2, <3>1, SMTT(30)
    <3>. QED
      BY <3>2
  <2>4. 0 \in S
    BY <1>1, <2>2
  <2>. HIDE DEF S
  <2>5. \A k \in 0..DIGITS : k \in S
    BY <1>1, <2>3, <2>4, UpTo
  <2>. QED
    BY <2>2, <2>5 DEF S
<1>. HIDE DEF op
<1>. QED
  BY <1>5, <1>6

\* A turn of the loop adds the digit d, of weight w, to the number z; q is left.
LEMMA TurnKeeps ==
  ASSUME NEW z \in Nat, NEW d \in Nat, NEW w \in Nat, NEW q \in Nat, NEW m \in Nat, m > 0
  PROVE  Congruent(((z + d * w) % m) + q * ((w * 8) % m), z + (8 * q + d) * w, m)
<1>. DEFINE x == z + d * w  y == w * 8  u == q * (y % m)
<1>1. x \in Nat /\ y \in Nat
  OBVIOUS
<1>2. u \in Nat
  <2>1. y % m \in Nat
    BY <1>1
  <2>. HIDE DEF y
  <2>. QED
    BY <2>1
<1>3. x + q * y = z + (8 * q + d) * w
  OBVIOUS
<1>. HIDE DEF x, y
<1>4. Congruent(x + q * (y % m), x + q * y, m)
  BY <1>1, CongruentProduct
<1>. HIDE DEF u
<1>5. Congruent((x % m) + u, x + u, m)
  BY <1>1, <1>2, CongruentSum
<1>6. Congruent((x % m) + u, x + q * y, m)
  BY <1>4, <1>5 DEF Congruent, u
<1>. QED
  BY <1>3, <1>6 DEF x, y, u

\* What has been read and what is left of the number are the number, modulo a
\* word, at each digit; at the end nothing is left.
LEMMA SizeIsRead ==
  ASSUME NEW s \in Sizes
  PROVE  Tar!Octal(s) \in [1..DIGITS -> Nat] /\ Tar!getsize(Tar!Octal(s)) = s
<1>. DEFINE in == Tar!Octal(s)  rest == Tar!Rest(s)
<1>1. /\ DIGITS \in Nat /\ WORD \in Nat /\ WORD > 0
      /\ s \in Nat /\ s < WORD /\ rest[DIGITS] = 0
  BY TarAssumption
<1>2. /\ \A k \in 0..DIGITS : rest[k] \in Nat
      /\ rest[0] = s
      /\ \A k \in 1..DIGITS : rest[k] = rest[k - 1] \div 8
  BY <1>1, RestFacts
<1>3. in \in [1..DIGITS -> Nat] /\ \A k \in 1..DIGITS : in[DIGITS + 1 - k] = rest[k - 1] % 8
  <2>1. in = [j \in 1..DIGITS |-> rest[DIGITS - j] % 8]
    BY DEF Tar!Octal
  <2>2. \A j \in 1..DIGITS : DIGITS - j \in 0..DIGITS
    BY <1>1
  <2>3. \A k \in 1..DIGITS : /\ DIGITS + 1 - k \in 1..DIGITS
                            /\ DIGITS - (DIGITS + 1 - k) = k - 1
    BY <1>1
  <2>. HIDE DEF in, rest
  <2>4. \A j \in 1..DIGITS : rest[DIGITS - j] % 8 \in Nat
    BY <1>2, <2>2
  <2>. QED
    BY <2>1, <2>3, <2>4
<1>. HIDE DEF in, rest
<1>. DEFINE c == CHOOSE c : Weighs(c)
            f == CHOOSE f : Sums(in, c, f)
<1>4. Weighs(c)
  BY WeightsFacts
<1>. HIDE DEF c
<1>5. Sums(in, c, f)
  BY <1>3, <1>4, SumsFacts
<1>6. Tar!getsize(in) = f[DIGITS]
  BY DEF Tar!getsize, c, Weighs, Sums
<1>. HIDE DEF f
<1>7. /\ c[0] = 1 /\ \A k \in 0..DIGITS : c[k] \in Nat
      /\ \A k \in 1..DIGITS : c[k] = (c[k - 1] * 8) % WORD
  BY <1>4, WeightsFacts
<1>8. /\ f[0] = 0 /\ \A k \in 0..DIGITS : f[k] \in Nat
      /\ \A k \in 1..DIGITS : f[k] = (f[k - 1] + in[DIGITS + 1 - k] * c[k - 1]) % WORD
  BY <1>3, <1>4, <1>5, SumsFacts
<1>. DEFINE S == {k \in 0..DIGITS : (f[k] + rest[k] * c[k]) % WORD = s % WORD}
<1>9. 0 \in S
  BY <1>1, <1>2, <1>7, <1>8
<1>10. ASSUME NEW k \in 1..DIGITS, k - 1 \in S PROVE k \in S
  <2>. DEFINE r == rest[k - 1]  d == in[DIGITS + 1 - k]  w == c[k - 1]  z == f[k - 1]
  <2>0. k - 1 \in 0..DIGITS /\ k \in 0..DIGITS
    BY <1>1
  <2>1. /\ r \in Nat /\ d = r % 8 /\ rest[k] = r \div 8 /\ w \in Nat /\ z \in Nat
        /\ c[k] = (w * 8) % WORD /\ f[k] = (z + d * w) % WORD
        /\ (z + r * w) % WORD = s % WORD
    BY <1>2, <1>3, <1>7, <1>8, <1>10, <2>0
  <2>. HIDE DEF r, d, w, z
  <2>. DEFINE q == r \div 8
  <2>2. q \in Nat /\ d \in Nat /\ r = 8 * q + d
    BY <2>1
  <2>. HIDE DEF q
  <2>3. Congruent(((z + d * w) % WORD) + q * ((w * 8) % WORD), z + (8 * q + d) * w, WORD)
    BY <1>1, <2>1, <2>2, TurnKeeps
  <2>4. (f[k] + rest[k] * c[k]) % WORD = s % WORD
    BY <2>1, <2>2, <2>3 DEF Congruent, q
  <2>. QED
    BY <2>0, <2>4
<1>. HIDE DEF S
<1>11. DIGITS \in S
  <2>1. \A k \in 0..DIGITS : k \in S
    BY <1>1, <1>9, <1>10, UpTo
  <2>. QED
    BY <1>1, <2>1
<1>12. f[DIGITS] % WORD = s
  <2>1. c[DIGITS] \in Nat /\ f[DIGITS] \in Nat
    BY <1>1, <1>7, <1>8
  <2>2. rest[DIGITS] * c[DIGITS] = 0 /\ s % WORD = s
    BY <1>1, <2>1
  <2>. QED
    BY <1>11, <2>1, <2>2 DEF S
<1>13. f[DIGITS] \in 0..(WORD - 1)
  <2>1. CASE DIGITS = 0
    BY <1>1, <1>8, <2>1
  <2>2. CASE DIGITS # 0
    <3>1. DIGITS \in 1..DIGITS /\ DIGITS - 1 \in 0..DIGITS /\ DIGITS + 1 - DIGITS \in 1..DIGITS
      BY <1>1, <2>2
    <3>2. f[DIGITS - 1] + in[DIGITS + 1 - DIGITS] * c[DIGITS - 1] \in Nat
      <4>1. f[DIGITS - 1] \in Nat /\ c[DIGITS - 1] \in Nat /\ in[DIGITS + 1 - DIGITS] \in Nat
        BY <1>3, <1>7, <1>8, <3>1
      <4>. QED
        BY <4>1
    <3>. QED
      BY <1>1, <1>8, <3>1, <3>2
  <2>. QED
    BY <2>1, <2>2
<1>14. f[DIGITS] = s
  BY <1>1, <1>12, <1>13
<1>. QED
  BY <1>3, <1>6, <1>14 DEF in

-----------------------------------------------------------------------------
(* Where the files lie.                                                    *)

File == [name : Names, size : Sizes]

LEMMA RoomFacts ==
  ASSUME NEW s \in Nat
  PROVE  Tar!Room(s) \in Nat /\ Tar!Room(s) > 0 /\ Tar!After(s) = Tar!Room(s)
BY DEF Tar!Room, Tar!After, Tar!HEADER

LEMMA PositionFacts ==
  ASSUME NEW files \in Seq(File)
  PROVE  /\ Tar!Position(files, 1) = 0
         /\ \A i \in 1..(Len(files) + 1) : Tar!Position(files, i) \in Nat
         /\ \A i \in 1..Len(files) :
              Tar!Position(files, i + 1) = Tar!Position(files, i) + Tar!Room(files[i].size)
<1>. DEFINE n == Len(files)
            Rec(f) == f = [k \in 0..Len(files) |->
                             IF k = 0 THEN 0 ELSE f[k - 1] + Tar!Room(files[k].size)]
            op == [p \in (1..n) \X Nat |-> p[2] + Tar!Room(files[p[1]].size)]
<1>1. n \in Nat /\ \A k \in 1..n : files[k].size \in Nat /\ Tar!Room(files[k].size) \in Nat
  <2>1. n \in Nat
    BY LenProperties
  <2>2. ASSUME NEW k \in 1..n PROVE files[k].size \in Nat
    <3>1. files[k] \in File
      BY <2>2, ElementOfSeq
    <3>. QED
      BY <3>1, TarAssumption DEF File
  <2>. QED
    BY <2>1, <2>2, RoomFacts
<1>. HIDE DEF n
<1>2. op \in [(1..n) \X Nat -> Nat]
  BY <1>1, SMTT(30) DEF Tar!HEADER
<1>3. PICK g : Recurs(n, Nat, 0, op, g)
  <2>. HIDE DEF op
  <2>. QED
    BY <1>1, <1>2, RecursionExists
<1>4. Rec(g)
  <2>1. g \in [0..n -> Nat] /\ g[0] = 0
    BY <1>3 DEF Recurs
  <2>2. ASSUME NEW k \in 1..n
        PROVE  g[k] = g[k - 1] + Tar!Room(files[k].size)
    <3>. HIDE DEF op
    <3>1. k - 1 \in 0..n
      BY <1>1
    <3>2. g[k - 1] \in Nat /\ g[k] = op[<<k, g[k - 1]>>]
      BY <1>3, <3>1 DEF Recurs
    <3>. QED
      BY <3>2 DEF op
  <2>3. \A k \in 0..n : k = 0 \/ k \in 1..n
    BY <1>1
  <2>. HIDE DEF op
  <2>. QED
    BY <2>1, <2>2, <2>3 DEF n
<1>. DEFINE at == CHOOSE f : Rec(f)
<1>5. \A i : Tar!Position(files, i) = at[i - 1]
  BY DEF Tar!Position
<1>6. Rec(at)
  <2>. HIDE DEF Rec
  <2>. QED
    BY <1>4
<1>. HIDE DEF at
<1>7. /\ at[0] = 0
      /\ \A k \in 1..n : at[k] = at[k - 1] + Tar!Room(files[k].size)
  <2>1. \A k \in 0..n : at[k] = IF k = 0 THEN 0
                                ELSE at[k - 1] + Tar!Room(files[k].size)
    BY <1>6 DEF n
  <2>2. 0 \in 0..n /\ \A k \in 1..n : k \in 0..n /\ k # 0
    BY <1>1
  <2>. HIDE DEF Rec
  <2>. QED
    BY <2>1, <2>2
<1>. HIDE DEF Rec
<1>8. \A k \in 0..n : at[k] \in Nat
  <2>. DEFINE S == {k \in 0..n : at[k] \in Nat}
  <2>1. 0 \in S
    BY <1>1, <1>7
  <2>2. ASSUME NEW k \in 1..n, k - 1 \in S PROVE k \in S
    BY <1>1, <1>7, <2>2 DEF Tar!HEADER
  <2>. HIDE DEF S
  <2>3. \A k \in 0..n : k \in S
    BY <1>1, <2>1, <2>2, UpTo
  <2>. QED
    BY <2>3 DEF S
<1>9. Tar!Position(files, 1) = 0
  BY <1>5, <1>7
<1>10. ASSUME NEW i \in 1..(n + 1) PROVE Tar!Position(files, i) \in Nat
  <2>1. i - 1 \in 0..n
    BY <1>1
  <2>. QED
    BY <1>5, <1>8, <2>1
<1>11. ASSUME NEW i \in 1..n
       PROVE  Tar!Position(files, i + 1) = Tar!Position(files, i) + Tar!Room(files[i].size)
  <2>1. i + 1 - 1 = i
    BY <1>1
  <2>. QED
    BY <1>5, <1>7, <2>1
<1>. QED
  BY <1>9, <1>10, <1>11 DEF n

\* No two headers have the same position, and none that of the end.
LEMMA PositionsGrow ==
  ASSUME NEW files \in Seq(File), NEW j \in 1..(Len(files) + 1), NEW i \in 1..(j - 1)
  PROVE  Tar!Position(files, i) < Tar!Position(files, j)
<1>. DEFINE n == Len(files) + 1
            S == {k \in 0..n :
                    \A h \in 1..(k - 1) : Tar!Position(files, h) < Tar!Position(files, k)}
<1>1. /\ n \in Nat
      /\ \A k \in 1..n : Tar!Position(files, k) \in Nat
      /\ \A k \in 1..(n - 1) : Tar!Position(files, k) < Tar!Position(files, k + 1)
  <2>1. Len(files) \in Nat
    BY LenProperties
  <2>2. \A k \in 1..n : Tar!Position(files, k) \in Nat
    BY PositionFacts
  <2>3. ASSUME NEW k \in 1..(n - 1) PROVE Tar!Position(files, k) < Tar!Position(files, k + 1)
    <3>1. k \in 1..Len(files) /\ k \in 1..n
      BY <2>1
    <3>2. files[k] \in File
      BY <3>1, ElementOfSeq
    <3>3. Tar!Room(files[k].size) \in Nat /\ Tar!Room(files[k].size) > 0
      BY <3>2, TarAssumption, RoomFacts DEF File
    <3>4. Tar!Position(files, k + 1) = Tar!Position(files, k) + Tar!Room(files[k].size)
      BY <3>1, PositionFacts
    <3>. QED
      BY <2>2, <3>1, <3>3, <3>4
  <2>. QED
    BY <2>1, <2>2, <2>3
<1>. HIDE DEF n
<1>2. 0 \in S
  BY <1>1
<1>3. ASSUME NEW k \in 1..n, k - 1 \in S PROVE k \in S
  <2>. SUFFICES ASSUME NEW h \in 1..(k - 1)
                PROVE  Tar!Position(files, h) < Tar!Position(files, k)
    BY <1>1
  <2>1. k - 1 \in 1..(n - 1) /\ k - 1 \in 1..n /\ k \in 1..n /\ h \in 1..n
    BY <1>1
  <2>2. Tar!Position(files, k - 1) < Tar!Position(files, k)
    <3>1. k - 1 + 1 = k
      BY <1>1
    <3>. QED
      BY <1>1, <2>1, <3>1
  <2>3. CASE h = k - 1
    BY <2>2, <2>3
  <2>4. CASE h # k - 1
    <3>1. h \in 1..(k - 1 - 1)
      BY <2>4
    <3>2. Tar!Position(files, h) < Tar!Position(files, k - 1)
      BY <1>3, <3>1
    <3>. QED
      BY <1>1, <2>1, <2>2, <3>2
  <2>. QED
    BY <2>3, <2>4
<1>. HIDE DEF S
<1>4. j \in S
  <2>1. \A k \in 0..n : k \in S
    BY <1>1, <1>2, <1>3, UpTo
  <2>2. j \in 0..n
    BY <1>1 DEF n
  <2>. QED
    BY <2>1, <2>2
<1>. QED
  BY <1>4 DEF S

-----------------------------------------------------------------------------
(* The tags the boot loader passes.                                        *)

LEMMA TagIsThere ==
  ASSUME NEW X, NEW tags \in Seq(X), NEW id, Tar!stivale2_get_tag(tags, id) # Tar!NULL
  PROVE  id \in Tar!ToSet(tags)
<1>. DEFINE n == Len(tags)
            Rec(f) == f = [t \in 1..(Len(tags) + 1) |->
                             IF t > Len(tags) THEN Tar!NULL
                             ELSE IF tags[t] = id THEN t ELSE f[t + 1]]
            op == [p \in (1..n) \X Nat |->
                     IF tags[n + 1 - p[1]] = id THEN n + 1 - p[1] ELSE p[2]]
<1>1. n \in Nat /\ DOMAIN tags = 1..n
  BY LenProperties
<1>. HIDE DEF n
<1>. SUFFICES ASSUME \A t \in 1..n : tags[t] # id PROVE FALSE
  BY <1>1 DEF Tar!ToSet
<1>2. op \in [(1..n) \X Nat -> Nat]
  BY <1>1
<1>3. PICK g : Recurs(n, Nat, 0, op, g)
  <2>. HIDE DEF op
  <2>. QED
    BY <1>1, <1>2, RecursionExists
<1>. DEFINE f == [t \in 1..(n + 1) |-> g[n + 1 - t]]
<1>4. Rec(f)
  <2>1. g \in [0..n -> Nat] /\ g[0] = 0
    BY <1>3 DEF Recurs
  <2>2. ASSUME NEW t \in 1..(n + 1)
        PROVE  f[t] = IF t > n THEN Tar!NULL ELSE IF tags[t] = id THEN t ELSE f[t + 1]
    <3>1. CASE t = n + 1
      BY <1>1, <2>1, <3>1 DEF Tar!NULL
    <3>2. CASE t # n + 1
      <4>. DEFINE k == n + 1 - t
      <4>1. k \in 1..n /\ n + 1 - k = t /\ n + 1 - (t + 1) = k - 1 /\ t + 1 \in 1..(n + 1)
            /\ k - 1 \in 0..n /\ ~(t > n)
        BY <1>1, <3>2
      <4>2. f[t] = g[k] /\ f[t + 1] = g[k - 1]
        BY <4>1
      <4>. HIDE DEF op, f, k
      <4>3. g[k] = op[<<k, g[k - 1]>>] /\ g[k - 1] \in Nat
        BY <1>3, <4>1 DEF Recurs
      <4>4. op[<<k, g[k - 1]>>] = IF tags[t] = id THEN t ELSE g[k - 1]
        BY <4>1, <4>3 DEF op
      <4>. QED
        BY <4>1, <4>2, <4>3, <4>4
    <3>. QED
      BY <3>1, <3>2
  <2>. HIDE DEF op
  <2>3. f = [t \in 1..(n + 1) |-> f[t]]
    OBVIOUS
  <2>. HIDE DEF f
  <2>. QED
    BY <2>2, <2>3 DEF n
<1>. DEFINE at == CHOOSE h : Rec(h)
<1>5. Tar!stivale2_get_tag(tags, id) = at[1]
  BY DEF Tar!stivale2_get_tag
<1>6. Rec(at)
  <2>. HIDE DEF Rec
  <2>. QED
    BY <1>4
<1>. HIDE DEF at, f
<1>7. \A t \in 1..(n + 1) :
        at[t] = IF t > n THEN Tar!NULL ELSE IF tags[t] = id THEN t ELSE at[t + 1]
  BY <1>6 DEF n
<1>. HIDE DEF Rec
<1>. DEFINE S == {k \in 0..n : at[n + 1 - k] = Tar!NULL}
<1>8. 0 \in S
  <2>1. n + 1 \in 1..(n + 1) /\ n + 1 > n /\ n + 1 - 0 = n + 1
    BY <1>1
  <2>. QED
    BY <1>1, <1>7, <2>1
<1>9. ASSUME NEW k \in 1..n, k - 1 \in S PROVE k \in S
  <2>1. /\ n + 1 - k \in 1..(n + 1) /\ n + 1 - k \in 1..n /\ ~(n + 1 - k > n)
        /\ n + 1 - k + 1 = n + 1 - (k - 1)
    BY <1>1
  <2>2. at[n + 1 - k] = at[n + 1 - k + 1]
    BY <1>7, <2>1
  <2>. QED
    BY <1>9, <2>1, <2>2
<1>. HIDE DEF S
<1>10. n \in S
  <2>1. \A k \in 0..n : k \in S
    BY <1>1, <1>8, <1>9, UpTo
  <2>. QED
    BY <1>1, <2>1
<1>11. at[1] = Tar!NULL
  <2>1. n + 1 - n = 1
    BY <1>1
  <2>. QED
    BY <1>10, <2>1 DEF S
<1>. QED
  BY <1>5, <1>11

-----------------------------------------------------------------------------
(* From the loader to the bytes.                                           *)

\* The node of a file.
Filed(i) == [name |-> Tar!copied_name(archive.files[i].name), size |-> archive.files[i].size,
             offset |-> Tar!Position(archive.files, i) + Tar!HEADER, device |-> device,
             ops |-> {"read"}]

Parsed ==
  /\ nodes \in Seq({Filed(i) : i \in 1..Len(archive.files)})
  /\ Len(nodes) <= Len(archive.files)
  /\ \A i \in 1..Len(nodes) : nodes[i] = Filed(i)

TarTyped ==
  /\ loader.tags \in Seq(Tar!Wanted \cup {"OTHER"})
  /\ loader.modules \in Seq({"initrd", "other"})
  /\ archive.files \in Seq(File)

TarInv ==
  /\ TarTyped
  /\ phase \in {"boot", "tags", "parsing", "up", "wild"}
  /\ phase \in {"boot", "tags"} => device = Tar!NULL /\ nodes = <<>> /\ offset = 0
  /\ phase \in {"tags", "parsing", "up"} => Tar!Wanted \subseteq Tar!ToSet(loader.tags)
  /\ phase \in {"parsing", "up"} => device = Tar!found(loader.modules)
  /\ phase = "parsing" => /\ device # Tar!NULL /\ Parsed
                          /\ offset = Tar!Position(archive.files, Len(nodes) + 1)
  /\ phase = "up" => IF device = Tar!NULL THEN nodes = <<>>
                     ELSE Parsed /\ Len(nodes) = Len(archive.files)
  /\ ReadsRight

LEMMA FewAreSequence ==
  ASSUME NEW X, NEW m \in Nat, NEW n \in Nat, NEW s \in UNION {[1..k -> X] : k \in m..n}
  PROVE  s \in Seq(X)
<1>1. PICK k \in m..n : s \in [1..k -> X]
  OBVIOUS
<1>2. k \in Nat
  OBVIOUS
<1>. QED
  BY <1>1, <1>2, SeqDef

LEMMA TarInit == Tar!Init => TarInv
<1>. SUFFICES ASSUME Tar!Init PROVE TarInv
  OBVIOUS
<1>1. TarTyped
  <2>1. CASE /\ loader \in [tags : UNION {[1..k -> Tar!Wanted \cup {"OTHER"}] : k \in 0..4},
                            modules : UNION {[1..k -> {"initrd", "other"}] : k \in 0..2}]
             /\ archive = [files |-> <<>>, ended |-> TRUE]
    <3>1. loader.tags \in UNION {[1..k -> Tar!Wanted \cup {"OTHER"}] : k \in 0..4}
      BY <2>1
    <3>2. loader.tags \in Seq(Tar!Wanted \cup {"OTHER"})
      BY <3>1, FewAreSequence
    <3>4. loader.modules \in Seq({"initrd", "other"})
      <4>1. loader.modules \in UNION {[1..k -> {"initrd", "other"}] : k \in 0..2}
        BY <2>1
      <4>. QED
        BY <4>1, FewAreSequence
    <3>3. archive.files = <<>> /\ <<>> \in Seq(File)
      BY <2>1, EmptySeq
    <3>. QED
      BY <3>2, <3>3, <3>4 DEF TarTyped
  <2>2. CASE /\ loader = [tags |-> <<"MODULES", "MEMMAP", "FRAMEBUFFER">>,
                          modules |-> <<"other", "initrd", "initrd">>]
             /\ archive \in [files : UNION {[1..k -> [name : Names, size : Sizes]] :
                                            k \in 1..MaxFiles},
                             ended : BOOLEAN]
    <3>1. /\ <<"MODULES", "MEMMAP", "FRAMEBUFFER">> \in Seq(Tar!Wanted \cup {"OTHER"})
          /\ <<"other", "initrd", "initrd">> \in Seq({"initrd", "other"})
      BY DEF Tar!Wanted
    <3>2. archive.files \in UNION {[1..k -> File] : k \in 1..MaxFiles}
      BY <2>2 DEF File
    <3>3. archive.files \in Seq(File)
      BY <3>2, TarAssumption, FewAreSequence
    <3>. QED
      BY <2>2, <3>1, <3>3 DEF TarTyped
  <2>. QED
    BY <2>1, <2>2 DEF Tar!Init
<1>2. phase = "boot" /\ device = Tar!NULL /\ offset = 0 /\ nodes = <<>> /\ got = Tar!NONE
  BY DEF Tar!Init
<1>. QED
  BY <1>1, <1>2 DEF TarInv, ReadsRight, Tar!ReadsRight

\* The header that lies where the parser is.
LEMMA HeaderFacts ==
  ASSUME TarTyped, NEW i \in 1..(Len(archive.files) + 1)
  PROVE  LET p == Tar!Position(archive.files, i)
             f == archive.files[i]
         IN  IF i = Len(archive.files) + 1 THEN Tar!Block(p).kind \in {"zeroes", "past"}
             ELSE Tar!Block(p) = [kind |-> "header", name |-> f.name, size |-> Tar!Octal(f.size)]
<1>. DEFINE files == archive.files  p == Tar!Position(files, i)
<1>1. /\ files \in Seq(File) /\ Len(files) \in Nat /\ DOMAIN files = 1..Len(files)
      /\ \A j \in 1..(Len(files) + 1) : Tar!Position(files, j) \in Nat
  <2>1. files \in Seq(File)
    BY DEF TarTyped
  <2>. QED
    BY <2>1, LenProperties, PositionFacts
<1>2. ASSUME NEW j \in 1..(Len(files) + 1), Tar!Position(files, j) = p PROVE j = i
  <2>1. CASE j < i
    <3>1. j \in 1..(i - 1)
      BY <1>1, <2>1
    <3>. QED
      BY <1>1, <1>2, <3>1, PositionsGrow
  <2>2. CASE i < j
    <3>1. i \in 1..(j - 1)
      BY <1>1, <2>2
    <3>. QED
      BY <1>1, <1>2, <3>1, PositionsGrow
  <2>. QED
    BY <1>1, <2>1, <2>2
<1>0. i \in 1..(Len(files) + 1)
  OBVIOUS
<1>. HIDE DEF files
<1>3. CASE i = Len(files) + 1
  <2>1. p \notin Tar!Layout
    <3>. SUFFICES ASSUME NEW j \in 1..Len(files), Tar!Position(files, j) = p PROVE FALSE
      BY <1>1 DEF Tar!Layout, files
    <3>1. j \in 1..(Len(files) + 1) /\ j # i
      BY <1>1, <1>3
    <3>. QED
      BY <1>2, <3>1
  <2>2. p = Tar!End /\ p >= Tar!End
    BY <1>1, <1>3 DEF Tar!End, files
  <2>. HIDE DEF p
  <2>3. Tar!Block(p).kind \in {"zeroes", "past"}
    BY <2>1, <2>2 DEF Tar!Block
  <2>. QED
    BY <1>3, <2>3 DEF p, files
<1>4. CASE i # Len(files) + 1
  <2>1. i \in 1..Len(files)
    BY <1>0, <1>1, <1>4
  <2>2. p \in Tar!Layout
    BY <1>1, <2>1 DEF Tar!Layout, files
  <2>3. (CHOOSE j \in DOMAIN files : Tar!Position(files, j) = p) = i
    <3>1. \A j \in DOMAIN files : Tar!Position(files, j) = p <=> j = i
      BY <1>1, <1>2, <2>1
    <3>. QED
      BY <1>1, <2>1, <3>1
  <2>. HIDE DEF p
  <2>4. Tar!Block(p) = [kind |-> "header", name |-> files[i].name,
                        size |-> Tar!Octal(files[i].size)]
    BY <2>2, <2>3 DEF Tar!Block, files
  <2>. QED
    BY <1>4, <2>4 DEF p, files
<1>. QED
  BY <1>3, <1>4 DEF files

LEMMA SameReads ==
  ASSUME TarTyped, ReadsRight, UNCHANGED <<loader, archive, got>>
  PROVE  TarTyped' /\ ReadsRight'
<1>1. loader' = loader /\ archive' = archive /\ got' = got
  OBVIOUS
<1>2. TarTyped'
  BY <1>1 DEF TarTyped
<1>3. ReadsRight'
  BY <1>1 DEF ReadsRight, Tar!ReadsRight
<1>. QED
  BY <1>2, <1>3

LEMMA TagsStep == ASSUME TarInv, Tar!GetTags PROVE TarInv'
<1>1. /\ phase = "boot" /\ UNCHANGED <<loader, archive, device, offset, nodes, got>>
      /\ phase' \in {"wild", "tags"}
      /\ phase' = "tags" => \A id \in Tar!Wanted : Tar!stivale2_get_tag(loader.tags, id) # Tar!NULL
  BY DEF Tar!GetTags
<1>2. device = Tar!NULL /\ nodes = <<>> /\ offset = 0 /\ TarTyped /\ ReadsRight
  BY <1>1 DEF TarInv
<1>3. TarTyped' /\ ReadsRight'
  BY <1>1, <1>2, SameReads
<1>4. ASSUME phase' = "tags" PROVE Tar!Wanted \subseteq Tar!ToSet(loader.tags)
  <2>. SUFFICES ASSUME NEW id \in Tar!Wanted PROVE id \in Tar!ToSet(loader.tags)
    OBVIOUS
  <2>1. Tar!stivale2_get_tag(loader.tags, id) # Tar!NULL
    BY <1>1, <1>4
  <2>2. loader.tags \in Seq(Tar!Wanted \cup {"OTHER"})
    BY <1>2 DEF TarTyped
  <2>. QED
    BY <2>1, <2>2, TagIsThere
<1>. QED
  BY <1>1, <1>2, <1>3, <1>4 DEF TarInv

LEMMA InitrdStep == ASSUME TarInv, Tar!init_initrd PROVE TarInv'
<1>1. /\ phase = "tags" /\ UNCHANGED <<loader, archive, offset, nodes, got>>
      /\ device' = Tar!found(loader.modules)
      /\ phase' = IF device' = Tar!NULL THEN "up" ELSE "parsing"
  BY DEF Tar!init_initrd
<1>2. /\ nodes = <<>> /\ offset = 0 /\ TarTyped /\ ReadsRight
      /\ Tar!Wanted \subseteq Tar!ToSet(loader.tags)
  BY <1>1 DEF TarInv
<1>3. TarTyped' /\ ReadsRight'
  BY <1>1, <1>2, SameReads
<1>4. Parsed' /\ offset' = Tar!Position(archive.files, Len(nodes') + 1)
  <2>1. nodes' = <<>> /\ Len(nodes') = 0 /\ archive' = archive /\ offset' = 0
    BY <1>1, <1>2
  <2>2. archive.files \in Seq(File) /\ Len(archive.files) \in Nat
    BY <1>2, LenProperties DEF TarTyped
  <2>3. Tar!Position(archive.files, 1) = 0
    BY <2>2, PositionFacts
  <2>4. Parsed'
    BY <2>1, <2>2, EmptySeq DEF Parsed
  <2>. QED
    BY <2>1, <2>3, <2>4
<1>. QED
  BY <1>1, <1>2, <1>3, <1>4 DEF TarInv

LEMMA HeaderStep == ASSUME TarInv, Tar!ParseHeader PROVE TarInv'
<1>. DEFINE files == archive.files  n == Len(nodes)  i == n + 1
            header == Tar!Block(offset)
<1>1. /\ phase = "parsing" /\ UNCHANGED <<loader, archive, device, got>>
  BY DEF Tar!ParseHeader
<1>2. /\ device # Tar!NULL /\ device = Tar!found(loader.modules) /\ Parsed
      /\ offset = Tar!Position(files, i)
      /\ TarTyped /\ ReadsRight /\ Tar!Wanted \subseteq Tar!ToSet(loader.tags)
  BY <1>1 DEF TarInv
<1>3. TarTyped' /\ ReadsRight'
  BY <1>1, <1>2, SameReads
<1>4. /\ files \in Seq(File) /\ Len(files) \in Nat /\ n \in Nat /\ n <= Len(files)
      /\ i \in 1..(Len(files) + 1)
  <2>1. files \in Seq(File)
    BY <1>2 DEF TarTyped
  <2>2. Len(files) \in Nat /\ n \in Nat /\ n <= Len(files)
    BY <1>2, <2>1, LenProperties DEF Parsed
  <2>. QED
    BY <2>1, <2>2
<1>5. CASE i = Len(files) + 1
  <2>1. header.kind \in {"zeroes", "past"}
    BY <1>2, <1>4, <1>5, HeaderFacts
  <2>. HIDE DEF header
  <2>2. phase' = "up" /\ UNCHANGED <<offset, nodes>>
    BY <2>1 DEF Tar!ParseHeader, header
  <2>3. Parsed' /\ Len(nodes') = Len(archive'.files)
    BY <1>1, <1>2, <1>4, <1>5, <2>2 DEF Parsed, Filed
  <2>. QED
    BY <1>1, <1>2, <1>3, <2>2, <2>3 DEF TarInv
<1>6. CASE i # Len(files) + 1
  <2>. DEFINE f == files[i]
  <2>0. i \in 1..Len(files) /\ f \in File
    <3>1. i \in 1..Len(files)
      BY <1>4, <1>6
    <3>. QED
      BY <1>4, <3>1, ElementOfSeq
  <2>1. header = [kind |-> "header", name |-> f.name, size |-> Tar!Octal(f.size)]
    BY <1>2, <1>4, <1>6, HeaderFacts
  <2>2. f.size \in Sizes /\ f.size \in Nat /\ Tar!getsize(Tar!Octal(f.size)) = f.size
    BY <2>0, TarAssumption, SizeIsRead DEF File
  <2>3. Tar!After(f.size) = Tar!Room(f.size) /\ Tar!Room(f.size) \in Nat
    BY <2>2, RoomFacts
  <2>4. header.kind = "header" /\ header.name = f.name /\ Tar!getsize(header.size) = f.size
    BY <2>1, <2>2
  <2>. HIDE DEF header
  <2>5. /\ nodes' = Append(nodes, [name |-> Tar!copied_name(f.name), size |-> f.size,
                                   offset |-> offset + Tar!HEADER, device |-> device,
                                   ops |-> {"read"}])
        /\ offset' = offset + Tar!After(f.size)
        /\ phase' = phase
    BY <2>4 DEF Tar!ParseHeader, header
  <2>6. nodes' = Append(nodes, Filed(i))
    BY <1>2, <2>5 DEF Filed
  <2>7. offset' = Tar!Position(files, i + 1)
    <3>1. Tar!Position(files, i + 1) = Tar!Position(files, i) + Tar!Room(f.size)
      BY <1>4, <2>0, PositionFacts
    <3>2. Tar!Position(files, i) \in Nat
      BY <1>4, PositionFacts
    <3>. QED
      BY <1>2, <2>3, <2>5, <3>1, <3>2 DEF Tar!HEADER
  <2>. DEFINE S == {Filed(j) : j \in 1..Len(files)}
  <2>8. nodes \in Seq(S) /\ Filed(i) \in S
    BY <1>2, <2>0 DEF Parsed
  <2>. HIDE DEF S
  <2>9. /\ nodes' \in Seq(S) /\ Len(nodes') = n + 1
        /\ \A j \in 1..n : nodes'[j] = nodes[j]
        /\ nodes'[n + 1] = Filed(i)
    BY <2>6, <2>8, AppendProperties
  <2>10. ASSUME NEW j \in 1..(n + 1) PROVE nodes'[j] = Filed(j)
    <3>1. CASE j = n + 1
      BY <2>9, <3>1
    <3>2. CASE j # n + 1
      <4>1. j \in 1..n
        BY <1>4, <3>2
      <4>. QED
        BY <1>2, <2>9, <4>1 DEF Parsed
    <3>. QED
      BY <3>1, <3>2
  <2>11. Parsed'
    <3>1. \A j : Filed(j)' = Filed(j)
      BY <1>1 DEF Filed
    <3>2. Len(nodes') <= Len(files)
      BY <2>0, <2>9
    <3>. QED
      BY <1>1, <2>9, <2>10, <3>1, <3>2 DEF Parsed, S
  <2>12. offset' = Tar!Position(archive'.files, Len(nodes') + 1)
    BY <1>1, <2>7, <2>9
  <2>. QED
    BY <1>1, <1>2, <1>3, <2>5, <2>11, <2>12 DEF TarInv
<1>. QED
  BY <1>5, <1>6

\* The bytes from..(from + value - 1) are those that were asked for.
Clips(data, fsize, at, size, value, from) ==
  IF at >= fsize THEN value = 0
  ELSE value = (IF at + size > fsize THEN fsize - at ELSE size) /\ from = data + at

Gives(data, fsize, at, size, value, from) ==
  {from + k : k \in 0..(value - 1)}
    = {data + k : k \in (at..(at + size - 1)) \cap 0..(fsize - 1)}

LEMMA BytesGiven ==
  ASSUME NEW data \in Nat, NEW fsize \in Nat, NEW at \in Nat, NEW size \in Nat,
         NEW value \in Int, NEW from \in Int,
         Clips(data, fsize, at, size, value, from)
  PROVE  Gives(data, fsize, at, size, value, from)
<1>0. IF at >= fsize THEN value = 0
      ELSE value = (IF at + size > fsize THEN fsize - at ELSE size) /\ from = data + at
  BY DEF Clips
<1>1. CASE at >= fsize
  <2>1. 0..(value - 1) = {}
    BY <1>0, <1>1
  <2>2. (at..(at + size - 1)) \cap 0..(fsize - 1) = {}
    BY <1>1
  <2>. QED
    BY <2>1, <2>2 DEF Gives
<1>2. CASE at < fsize
  <2>1. from = data + at /\ value \in Nat /\ value <= size /\ at + value <= fsize
        /\ (value = size \/ at + value = fsize)
    BY <1>0, <1>2
  <2>2. ASSUME NEW k \in 0..(value - 1)
        PROVE  \E j \in (at..(at + size - 1)) \cap 0..(fsize - 1) : from + k = data + j
    <3>1. at + k \in (at..(at + size - 1)) \cap 0..(fsize - 1) /\ from + k = data + (at + k)
      BY <2>1
    <3>. QED
      BY <3>1
  <2>3. ASSUME NEW j \in (at..(at + size - 1)) \cap 0..(fsize - 1)
        PROVE  \E k \in 0..(value - 1) : from + k = data + j
    <3>1. j - at \in 0..(value - 1) /\ from + (j - at) = data + j
      BY <2>1
    <3>. QED
      BY <3>1
  <2>. DEFINE A == {from + k : k \in 0..(value - 1)}
              B == {data + k : k \in (at..(at + size - 1)) \cap 0..(fsize - 1)}
  <2>4. A \subseteq B
    BY <2>2
  <2>5. B \subseteq A
    BY <2>3
  <2>. HIDE DEF A, B
  <2>6. A = B
    BY <2>4, <2>5
  <2>. QED
    BY <2>6 DEF A, B, Gives
<1>. QED
  BY <1>1, <1>2

LEMMA CallStep ==
  ASSUME TarInv, NEW op \in {"read", "write"}, NEW n \in 1..MaxFiles,
         NEW size \in Lengths, NEW at \in Lengths, Tar!Call(op, n, size, at)
  PROVE  TarInv'
<1>. DEFINE r == IF op \in nodes[n].ops THEN Tar!read(nodes[n], size, at)
                 ELSE [value |-> 0, from |-> 0]
            f == archive.files[n]
<1>1. /\ phase = "up" /\ n \in DOMAIN nodes
      /\ UNCHANGED <<loader, archive, phase, device, offset, nodes>>
      /\ got' = [op |-> op, node |-> n, size |-> size, offset |-> at,
                 value |-> r.value, from |-> r.from]
  BY DEF Tar!Call
<1>2. /\ TarTyped /\ Tar!Wanted \subseteq Tar!ToSet(loader.tags)
      /\ device = Tar!found(loader.modules)
  BY <1>1 DEF TarInv
<1>3. device # Tar!NULL /\ Parsed /\ Len(nodes) = Len(archive.files)
  <2>1. DOMAIN <<>> = {}
    OBVIOUS
  <2>. QED
    BY <1>1, <2>1 DEF TarInv
<1>4. n \in 1..Len(nodes) /\ nodes[n] = Filed(n) /\ n \in 1..Len(archive.files)
  <2>1. DOMAIN nodes = 1..Len(nodes)
    BY <1>3, LenProperties DEF Parsed
  <2>. QED
    BY <1>1, <1>3, <2>1 DEF Parsed
<1>. DEFINE data == Tar!Position(archive.files, n) + Tar!HEADER
<1>5. f.size \in Nat /\ data \in Nat
  <2>1. archive.files \in Seq(File) /\ Len(archive.files) \in Nat
    BY <1>2, LenProperties DEF TarTyped
  <2>2. f \in File /\ n \in 1..(Len(archive.files) + 1)
    BY <1>4, <2>1, ElementOfSeq
  <2>3. Tar!Position(archive.files, n) \in Nat
    BY <2>1, <2>2, PositionFacts
  <2>. QED
    BY <2>2, <2>3, TarAssumption, SMTT(30) DEF File, Tar!HEADER
<1>6. /\ nodes[n].size = f.size /\ nodes[n].offset = data /\ nodes[n].ops = {"read"}
  BY <1>4 DEF Filed
<1>7. size \in Nat /\ at \in Nat /\ WORD \in Nat /\ WORD > 0
  BY TarAssumption
<1>8. ReadsRight'
  <2>. SUFFICES ASSUME op = "read", at + size < WORD
                PROVE  {r.from + k : k \in 0..(r.value - 1)}
                         = {data + k : k \in (at..(at + size - 1)) \cap 0..(f.size - 1)}
    BY <1>1 DEF ReadsRight, Tar!ReadsRight
  <2>1. r = Tar!read(nodes[n], size, at)
    BY <1>6
  <2>2. (at + size) % WORD = at + size
    BY <1>7
  <2>3. /\ r.value \in Int /\ r.from \in Int
        /\ Clips(data, f.size, at, size, r.value, r.from)
    <3>. HIDE DEF data, f
    <3>1. CASE at >= f.size
      BY <1>6, <2>1, <3>1 DEF Tar!read, Clips
    <3>2. CASE ~(at >= f.size)
      <4>1. r = [value |-> IF at + size > f.size THEN f.size - at ELSE size, from |-> data + at]
        BY <1>6, <2>1, <2>2, <3>2 DEF Tar!read, Tar!clipped
      <4>. HIDE DEF r
      <4>. QED
        BY <1>5, <1>7, <3>2, <4>1 DEF Clips
    <3>. QED
      BY <3>1, <3>2
  <2>. DEFINE v == r.value  w == r.from  z == f.size
  <2>4. data \in Nat /\ z \in Nat /\ at \in Nat /\ size \in Nat /\ v \in Int /\ w \in Int
    BY <1>5, <1>7, <2>3
  <2>5. Clips(data, z, at, size, v, w)
    BY <2>3
  <2>. HIDE DEF v, w, z, r, f, data
  <2>6. Gives(data, z, at, size, v, w)
    BY <2>4, <2>5, BytesGiven
  <2>. QED
    BY <2>6 DEF v, w, z, Gives
<1>9. TarTyped' /\ Parsed'
  BY <1>1, <1>2, <1>3 DEF TarTyped, Parsed, Filed
<1>. HIDE DEF r, data, f
<1>. QED
  BY <1>1, <1>2, <1>3, <1>8, <1>9 DEF TarInv

LEMMA TarStep == TarInv /\ [Tar!Next]_(Tar!vars) => TarInv'
<1>. SUFFICES ASSUME TarInv, [Tar!Next]_(Tar!vars) PROVE TarInv'
  OBVIOUS
<1>1. CASE Tar!GetTags
  BY <1>1, TagsStep
<1>2. CASE Tar!init_initrd
  BY <1>2, InitrdStep
<1>3. CASE Tar!ParseHeader
  BY <1>3, HeaderStep
<1>4. ASSUME NEW op \in {"read", "write"}, NEW n \in 1..MaxFiles, NEW size \in Lengths,
             NEW at \in Lengths, Tar!Call(op, n, size, at)
      PROVE  TarInv'
  BY <1>4, CallStep
<1>5. CASE UNCHANGED Tar!vars
  <2>1. /\ UNCHANGED <<loader, archive, got>> /\ phase' = phase /\ device' = device
        /\ offset' = offset /\ nodes' = nodes
    BY <1>5 DEF Tar!vars
  <2>2. TarTyped' /\ ReadsRight'
    BY <2>1, SameReads DEF TarInv
  <2>3. Parsed => Parsed'
    BY <2>1 DEF Parsed, Filed
  <2>. QED
    BY <2>1, <2>2, <2>3 DEF TarInv
<1>. QED
  BY <1>1, <1>2, <1>3, <1>4, <1>5 DEF Tar!Next

\* Every file becomes one node, with the place of its first byte: sizes are
\* read as they were written, and getsize and the rounding of the parser's
\* offset agree with tar about where the next header lies.
THEOREM FilesAreFound == Tar!Spec => []LayoutRight
<1>1. TarInv => LayoutRight
  <2>. SUFFICES ASSUME TarInv PROVE LayoutRight
    OBVIOUS
  <2>1. ASSUME phase \notin {"boot", "wild"}
        PROVE  /\ Tar!Wanted \subseteq Tar!ToSet(loader.tags)
               /\ device # Tar!NULL =>
                    Tar!SelectInSeq(loader.modules, LAMBDA s : s = "initrd") = device
    <3>1. phase \in {"tags", "parsing", "up"}
      BY <2>1 DEF TarInv
    <3>2. /\ Tar!Wanted \subseteq Tar!ToSet(loader.tags)
          /\ device # Tar!NULL => device = Tar!found(loader.modules)
      BY <3>1 DEF TarInv
    <3>3. DOMAIN loader.modules = 1..Len(loader.modules)
      BY LenProperties DEF TarInv, TarTyped
    <3>4. Tar!found(loader.modules) = Tar!SelectInSeq(loader.modules, LAMBDA s : s = "initrd")
      BY <3>3 DEF Tar!found, Tar!SelectInSeq, Tar!NULL
    <3>. QED
      BY <3>2, <3>4
  <2>2. ASSUME phase = "up", device # Tar!NULL
        PROVE  /\ Len(nodes) = Len(archive.files)
               /\ \A i \in DOMAIN nodes :
                    LET f == archive.files[i]
                    IN  /\ nodes[i].size = f.size
                        /\ nodes[i].offset = Tar!Position(archive.files, i) + Tar!HEADER
                        /\ nodes[i].device = device
                        /\ f.name # LONG => nodes[i].name = <<f.name>>
    <3>1. Parsed /\ Len(nodes) = Len(archive.files)
      BY <2>2 DEF TarInv
    <3>2. \A i \in DOMAIN nodes : nodes[i] = Filed(i)
      BY <3>1, LenProperties DEF Parsed
    <3>. QED
      BY <3>1, <3>2 DEF Filed, Tar!copied_name
  <2>. QED
    BY <2>1, <2>2 DEF LayoutRight, Tar!LayoutRight
<1>. QED
  BY TarInit, TarStep, <1>1, PTL DEF Tar!Spec

\* A read gives the bytes of its file that lie between offset and length, and
\* none of what lies around the file in the archive.
THEOREM FilesAreRead == Tar!Spec => []ReadsRight
<1>1. TarInv => ReadsRight
  BY DEF TarInv
<1>. QED
  BY TarInit, TarStep, <1>1, PTL DEF Tar!Spec
=============================================================================
