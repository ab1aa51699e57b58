------------------------------- MODULE FoldLemmas ------------------------------
(***************************************************************************)
(* What the recursive operators of the community modules that the          *)
(* specifications use compute: FlattenSeq, and SumFunctionOnSet on finite  *)
(* sets of indices.  Both are defined by a recursive function, so each law *)
(* first needs that the function exists.  In place of an induction rule,   *)
(* every argument takes the least counterexample.                          *)
(***************************************************************************)
EXTENDS Integers, Sequences, SequencesExt, FiniteSets, Functions,
        FiniteSetTheorems, SequenceTheorems, WellFoundedInduction, TLAPS

\* A set of natural numbers that is not empty has a least element.
LEMMA LeastElement ==
  ASSUME NEW T \in SUBSET Nat, T # {}
  PROVE  \E m \in T : \A k \in T : ~(k < m)
  <1>1. PICK m \in T : \A k \in T : <<k, m>> \notin OpToRel(<, Nat)
    BY WFMin, NatLessThanWellFounded, Zenon
  <1>2. ASSUME NEW k \in T PROVE ~(k < m)
    <2>1. <<k, m>> \in Nat \X Nat /\ <<k, m>> \notin OpToRel(<, Nat)
      BY <1>1
    <2> QED BY <2>1, Zenon DEF OpToRel
  <1> QED BY <1>2

\* A set of natural numbers that has 0, and with each number the next, has them all.
LEMMA AllNumbers ==
  ASSUME NEW T, 0 \in T, \A n \in Nat : n \in T => n + 1 \in T
  PROVE  Nat \subseteq T
  <1> DEFINE B == Nat \ T
  <1>1. SUFFICES ASSUME B # {} PROVE FALSE
    OBVIOUS
  <1>2. PICK m \in B : \A k \in B : ~(k < m)
    <2>1. B \in SUBSET Nat
      OBVIOUS
    <2> HIDE DEF B
    <2> QED BY <1>1, <2>1, LeastElement
  <1>3. m # 0 /\ m - 1 \in Nat /\ m - 1 < m /\ m = (m - 1) + 1
    BY <1>2
  <1>4. m - 1 \in T
    BY <1>2, <1>3
  <1> QED BY <1>2, <1>3, <1>4

--------------------------------------------------------------------------------
(* FlattenSeq *)

\* The first n elements of q, put end to end one after the other.
Flattens(g, q, n) == g = [i \in 1..n |-> IF i = 1 THEN q[i] ELSE g[i - 1] \o q[i]]

\* q and r have their first n elements in common.
Alike(q, r, n) == \A i \in 1..n : q[i] = r[i]

LEMMA FlattensExists ==
  ASSUME NEW q, NEW n \in Nat
  PROVE  \E g : Flattens(g, q, n)
  <1> DEFINE T == {k \in Nat : \E g : Flattens(g, q, k)}
  <1>1. 0 \in T
    <2>1. PICK g : g = [i \in 1..0 |-> 0]
      OBVIOUS
    <2>2. Flattens(g, q, 0)
      BY <2>1 DEF Flattens
    <2> QED BY <2>2
  <1>2. ASSUME NEW k \in Nat, k \in T PROVE k + 1 \in T
    <2>1. PICK h : Flattens(h, q, k)
      BY <1>2
    <2>2. PICK last : last = IF k = 0 THEN q[1] ELSE h[k] \o q[k + 1]
      OBVIOUS
    <2>3. PICK g : g = [i \in 1..k + 1 |-> IF i = k + 1 THEN last ELSE h[i]]
      OBVIOUS
    <2>4. ASSUME NEW i \in 1..k + 1
          PROVE  g[i] = IF i = 1 THEN q[i] ELSE g[i - 1] \o q[i]
      <3>1. CASE i = k + 1
        <4>1. CASE k = 0
          BY <2>2, <2>3, <3>1, <4>1
        <4>2. CASE k # 0
          <5>1. i # 1 /\ i - 1 = k /\ k \in 1..k + 1 /\ k # k + 1
            BY <3>1, <4>2
          <5>2. g[i] = last /\ g[i - 1] = h[k]
            BY <2>3, <3>1, <5>1
          <5> QED BY <2>2, <3>1, <4>2, <5>1, <5>2
        <4> QED BY <4>1, <4>2
      <3>2. CASE i # k + 1
        <4>1. i \in 1..k /\ (i # 1 => i - 1 \in 1..k + 1 /\ i - 1 # k + 1)
          BY <3>2
        <4>2. h[i] = IF i = 1 THEN q[i] ELSE h[i - 1] \o q[i]
          BY <2>1, <4>1 DEF Flattens
        <4>3. g[i] = h[i] /\ (i # 1 => g[i - 1] = h[i - 1])
          BY <2>3, <3>2, <4>1
        <4> QED BY <4>2, <4>3
      <3> QED BY <3>1, <3>2
    <2>5. Flattens(g, q, k + 1)
      BY <2>3, <2>4 DEF Flattens
    <2> QED BY <2>5
  <1>3. Nat \subseteq T
    <2> HIDE DEF T
    <2> QED BY <1>1, <1>2, AllNumbers
  <1> QED BY <1>3

\* It depends on those elements alone.
LEMMA FlattensUnique ==
  ASSUME NEW q, NEW r, NEW g, NEW h, NEW k \in Nat, NEW n \in Nat, n <= k,
         Flattens(g, q, k), Flattens(h, r, n), Alike(q, r, n)
  PROVE  Alike(g, h, n)
  <1> USE DEF Alike
  <1> DEFINE T == {i \in Nat : i \in 1..n => g[i] = h[i]}
  <1>1. 0 \in T
    OBVIOUS
  <1>2. ASSUME NEW i \in Nat, i \in T PROVE i + 1 \in T
    <2>1. SUFFICES ASSUME i + 1 \in 1..n PROVE g[i + 1] = h[i + 1]
      OBVIOUS
    <2>2. i + 1 \in 1..k /\ (i + 1) - 1 = i
      BY <2>1
    <2>3. g[i + 1] = (IF i + 1 = 1 THEN q[i + 1] ELSE g[i] \o q[i + 1])
      BY <2>2 DEF Flattens
    <2>4. h[i + 1] = (IF i + 1 = 1 THEN r[i + 1] ELSE h[i] \o r[i + 1])
      BY <2>1, <2>2 DEF Flattens
    <2>5. CASE i = 0
      BY <2>1, <2>3, <2>4, <2>5
    <2>6. CASE i # 0
      <3>1. i \in 1..n
        BY <2>1, <2>6
      <3> QED BY <1>2, <2>1, <2>3, <2>4, <2>6, <3>1
    <2> QED BY <2>5, <2>6
  <1>3. Nat \subseteq T
    <2> HIDE DEF T
    <2> QED BY <1>1, <1>2, AllNumbers
  <1> QED BY <1>3

LEMMA FlattenDef ==
  ASSUME NEW q, Len(q) \in Nat
  PROVE  \E g : /\ Flattens(g, q, Len(q))
                /\ FlattenSeq(q) = IF Len(q) = 0 THEN q ELSE g[Len(q)]
  <1>1. FlattenSeq(q) = IF Len(q) = 0 THEN q ELSE (CHOOSE g : Flattens(g, q, Len(q)))[Len(q)]
    BY DEF FlattenSeq, Flattens
  <1>2. PICK h : h = CHOOSE g : Flattens(g, q, Len(q))
    OBVIOUS
  <1>3. Flattens(h, q, Len(q))
    BY <1>2, FlattensExists
  <1> QED BY <1>1, <1>2, <1>3

LEMMA FlattenNone == FlattenSeq(<<>>) = <<>>
  <1>1. Len(<<>>) = 0
    OBVIOUS
  <1> QED BY <1>1, FlattenDef

\* A sequence more is one more at the end.
LEMMA FlattenAppend ==
  ASSUME NEW X, NEW r \in Seq(Seq(X)), NEW x \in Seq(X), NEW q, q = Append(r, x)
  PROVE  FlattenSeq(q) = FlattenSeq(r) \o x
  <1>1. PICK n, k : n = Len(q) /\ k = Len(r)
    OBVIOUS
  <1>2. n \in Nat /\ n # 0 /\ k \in Nat /\ k = n - 1 /\ k <= n /\ (n # 1 => k \in 1..k)
    BY <1>1, AppendProperties
  <1>3. q[n] = x /\ \A i \in 1..k : q[i] = r[i]
    BY <1>1, AppendProperties
  <1>4. PICK g : Flattens(g, q, n) /\ FlattenSeq(q) = g[n]
    BY <1>1, <1>2, FlattenDef
  <1>5. PICK h : Flattens(h, r, k) /\ FlattenSeq(r) = IF k = 0 THEN r ELSE h[k]
    BY <1>1, <1>2, FlattenDef
  <1>6. g[n] = IF n = 1 THEN q[n] ELSE g[k] \o q[n]
    <2>1. \A i \in 1..n : g[i] = IF i = 1 THEN q[i] ELSE g[i - 1] \o q[i]
      BY <1>4 DEF Flattens
    <2>2. n \in 1..n
      BY <1>2
    <2>3. g[n] = IF n = 1 THEN q[n] ELSE g[n - 1] \o q[n]
      BY <2>1, <2>2, Zenon
    <2> QED BY <1>2, <2>3, Zenon
  <1>7. CASE n = 1
    <2>1. k = 0 /\ r = <<>>
      <3>1. k = 0
        BY <1>2, <1>7
      <3>2. Len(r) \notin Nat \ {0}
        BY <1>1, <3>1
      <3>3. r = <<>>
        BY <3>2, EmptySeq, Zenon
      <3> QED BY <3>1, <3>3
    <2>2. <<>> \o x = x
      OBVIOUS
    <2>3. FlattenSeq(r) = <<>>
      BY <1>5, <2>1, Zenon
    <2>4. FlattenSeq(q) = x
      BY <1>3, <1>4, <1>6, <1>7, Zenon
    <2> QED BY <2>2, <2>3, <2>4
  <1>8. CASE n # 1
    <2>1. Alike(q, r, k)
      BY <1>3 DEF Alike
    <2>2. Alike(g, h, k)
      BY <1>2, <1>4, <1>5, <2>1, FlattensUnique, Zenon
    <2>3. k \in 1..k
      BY <1>2, <1>8
    <2>4. k # 0 /\ g[k] = h[k]
      BY <2>2, <2>3 DEF Alike
    <2>5. FlattenSeq(r) = g[k]
      BY <1>5, <2>4, Zenon
    <2> QED BY <1>3, <1>4, <1>6, <1>8, <2>5, Zenon
  <1> QED BY <1>7, <1>8

\* Induction over sequences: what a set of them has if it has the empty one, and
\* with each the longer ones by an element.
LEMMA AllSequences ==
  ASSUME NEW X, NEW P, <<>> \in P,
         \A r \in Seq(X), x \in X : r \in P => Append(r, x) \in P
  PROVE  Seq(X) \subseteq P
  <1> DEFINE T == {n \in Nat : \A q \in Seq(X) : Len(q) = n => q \in P}
  <1>1. 0 \in T
    BY EmptySeq
  <1>2. ASSUME NEW n \in Nat, n \in T PROVE n + 1 \in T
    <2> SUFFICES ASSUME NEW q \in Seq(X), Len(q) = n + 1 PROVE q \in P
      OBVIOUS
    <2>1. q # <<>>
      OBVIOUS
    <2>2. PICK r \in Seq(X), x \in X : q = Append(r, x)
      BY <2>1, SequenceEmptyOrAppend
    <2>3. Len(r) = n
      BY <2>2
    <2> QED BY <1>2, <2>2, <2>3
  <1>3. Nat \subseteq T
    <2> HIDE DEF T
    <2> QED BY <1>1, <1>2, AllNumbers
  <1> QED BY <1>3

LEMMA FlattenTyped ==
  ASSUME NEW X, NEW q \in Seq(Seq(X))
  PROVE  FlattenSeq(q) \in Seq(X)
  <1> DEFINE P == {r \in Seq(Seq(X)) : FlattenSeq(r) \in Seq(X)}
  <1>1. <<>> \in P
    <2>1. <<>> \in Seq(X) /\ <<>> \in Seq(Seq(X))
      OBVIOUS
    <2> QED BY <2>1, FlattenNone, Zenon
  <1>2. ASSUME NEW r \in Seq(Seq(X)), NEW x \in Seq(X), r \in P
        PROVE  Append(r, x) \in P
    <2>1. PICK u : u = Append(r, x)
      OBVIOUS
    <2>2. FlattenSeq(u) = FlattenSeq(r) \o x
      BY <2>1, FlattenAppend
    <2>3. u \in Seq(Seq(X))
      BY <2>1, AppendProperties
    <2>4. FlattenSeq(r) \o x \in Seq(X)
      BY <1>2, ConcatProperties
    <2> QED BY <2>1, <2>2, <2>3, <2>4
  <1>3. Seq(Seq(X)) \subseteq P
    <2> HIDE DEF P
    <2> QED BY <1>1, <1>2, AllSequences
  <1> QED BY <1>3

\* Sequences of nothing.
LEMMA FlattenEmpty ==
  ASSUME NEW X, NEW q \in Seq(Seq(X)), \A i \in 1..Len(q) : q[i] = <<>>
  PROVE  FlattenSeq(q) = <<>>
  <1> DEFINE P == {r \in Seq(Seq(X)) :
                     (\A i \in 1..Len(r) : r[i] = <<>>) => FlattenSeq(r) = <<>>}
  <1>1. <<>> \in P
    BY FlattenNone
  <1>2. ASSUME NEW r \in Seq(Seq(X)), NEW x \in Seq(X), r \in P
        PROVE  Append(r, x) \in P
    <2>1. PICK u : u = Append(r, x)
      OBVIOUS
    <2>2. FlattenSeq(u) = FlattenSeq(r) \o x
      BY <2>1, FlattenAppend
    <2>3. /\ u \in Seq(Seq(X)) /\ Len(u) = Len(r) + 1 /\ Len(r) \in Nat
          /\ u[Len(r) + 1] = x /\ \A i \in 1..Len(r) : u[i] = r[i]
      BY <2>1, AppendProperties
    <2>4. ASSUME \A i \in 1..Len(u) : u[i] = <<>> PROVE FlattenSeq(u) = <<>>
      <3>1. x = <<>> /\ \A i \in 1..Len(r) : r[i] = <<>>
        BY <2>3, <2>4
      <3>2. FlattenSeq(r) = <<>>
        BY <1>2, <3>1
      <3>3. <<>> \o <<>> = <<>>
        OBVIOUS
      <3> QED BY <2>2, <3>1, <3>2, <3>3, Zenon
    <2> QED BY <2>1, <2>3, <2>4
  <1>3. Seq(Seq(X)) \subseteq P
    <2> HIDE DEF P
    <2> QED BY <1>1, <1>2, AllSequences
  <1> QED BY <1>3

LEMMA FlattenConcat ==
  ASSUME NEW X, NEW q \in Seq(Seq(X)), NEW r \in Seq(Seq(X))
  PROVE  FlattenSeq(q \o r) = FlattenSeq(q) \o FlattenSeq(r)
  <1> DEFINE P == {s \in Seq(Seq(X)) : FlattenSeq(q \o s) = FlattenSeq(q) \o FlattenSeq(s)}
  <1>1. <<>> \in P
    <2>1. FlattenSeq(q) \in Seq(X)
      BY FlattenTyped
    <2>2. q \o <<>> = q /\ FlattenSeq(q) \o <<>> = FlattenSeq(q)
      BY <2>1, ConcatEmptySeq
    <2>3. FlattenSeq(q \o <<>>) = FlattenSeq(q) \o FlattenSeq(<<>>)
      BY <2>2, FlattenNone, Zenon
    <2> QED BY <2>3
  <1>2. ASSUME NEW s \in Seq(Seq(X)), NEW x \in Seq(X), s \in P
        PROVE  Append(s, x) \in P
    <2>1. PICK u, v, w : u = Append(s, x) /\ v = q \o s /\ w = q \o u
      OBVIOUS
    <2>2. u \in Seq(Seq(X)) /\ v \in Seq(Seq(X)) /\ w = Append(v, x)
      BY <2>1, AppendProperties, ConcatProperties
    <2>3. FlattenSeq(u) = FlattenSeq(s) \o x /\ FlattenSeq(w) = FlattenSeq(v) \o x
      BY <2>1, <2>2, FlattenAppend
    <2>4. FlattenSeq(v) = FlattenSeq(q) \o FlattenSeq(s)
      BY <1>2, <2>1
    <2>5. FlattenSeq(q) \in Seq(X) /\ FlattenSeq(s) \in Seq(X)
      BY FlattenTyped
    <2>6. (FlattenSeq(q) \o FlattenSeq(s)) \o x = FlattenSeq(q) \o (FlattenSeq(s) \o x)
      <3>1. PICK y, z : y = FlattenSeq(q) /\ z = FlattenSeq(s)
        OBVIOUS
      <3>2. (y \o z) \o x = y \o (z \o x)
        BY <2>5, <3>1, ConcatAssociative, SMTT(60)
      <3> QED BY <3>1, <3>2, Zenon
    <2>7. FlattenSeq(w) = FlattenSeq(q) \o FlattenSeq(u)
      BY <2>3, <2>4, <2>6, Zenon
    <2>8. FlattenSeq(q \o u) = FlattenSeq(q) \o FlattenSeq(u)
      BY <2>1, <2>7, Zenon
    <2> QED BY <2>1, <2>2, <2>8
  <1>3. Seq(Seq(X)) \subseteq P
    <2> HIDE DEF P
    <2> QED BY <1>1, <1>2, AllSequences
  <1> QED BY <1>3

\* Concatenation, under a name that the provers take as it is.
Cat(s, t) == s \o t

LEMMA CatAssociative ==
  ASSUME NEW X, NEW s \in Seq(X), NEW t \in Seq(X), NEW u \in Seq(X)
  PROVE  Cat(s, t) \in Seq(X) /\ Cat(Cat(s, t), u) = Cat(s, Cat(t, u))
  BY ConcatAssociative, ConcatProperties DEF Cat

LEMMA FourInARow ==
  ASSUME NEW X, NEW u \in Seq(X), NEW v \in Seq(X), NEW x \in Seq(X), NEW w \in Seq(X)
  PROVE  Cat(Cat(u, Cat(v, x)), w) = Cat(Cat(u, v), Cat(x, w))
  <1>1. Cat(u, v) \in Seq(X) /\ Cat(Cat(u, v), x) = Cat(u, Cat(v, x))
    BY CatAssociative
  <1>2. Cat(Cat(Cat(u, v), x), w) = Cat(Cat(u, v), Cat(x, w))
    BY <1>1, CatAssociative
  <1> QED BY <1>1, <1>2, Zenon

\* Two sequences of sequences that differ from place k on, where the second has the
\* more and the first has nothing after it: the first is the beginning of the second.
LEMMA FlattenPrefix ==
  ASSUME NEW X, NEW q \in Seq(Seq(X)), NEW r \in Seq(Seq(X)), Len(q) = Len(r),
         NEW k \in 1..Len(q), NEW x \in Seq(X), r[k] = q[k] \o x,
         \A i \in 1..k - 1 : r[i] = q[i],
         \A i \in k + 1..Len(q) : q[i] = <<>>
  PROVE  \E z \in Seq(X) : FlattenSeq(r) = FlattenSeq(q) \o z
  <1>1. PICK n : n = Len(q) /\ n = Len(r) /\ n \in Nat /\ k \in 1..n /\ k \in Nat
    BY LenProperties
  <1>2. PICK b, c, d, e : /\ b = SubSeq(q, 1, k - 1) /\ c = SubSeq(q, 1, k)
                          /\ d = SubSeq(q, k + 1, n) /\ e = SubSeq(r, k + 1, n)
    OBVIOUS
  <1>3. PICK f : f = SubSeq(r, 1, k)
    OBVIOUS
  <1>4. /\ b \in Seq(Seq(X)) /\ c \in Seq(Seq(X)) /\ d \in Seq(Seq(X)) /\ e \in Seq(Seq(X))
        /\ f \in Seq(Seq(X)) /\ q[k] \in Seq(X)
    <2>1. \A i \in 1..n : q[i] \in Seq(X) /\ r[i] \in Seq(X)
      BY <1>1
    <2>2. /\ 1 \in Int /\ k \in Int /\ n \in Int /\ k - 1 \in Int /\ k + 1 \in Int
          /\ 1..k - 1 \subseteq 1..n /\ 1..k \subseteq 1..n /\ k + 1..n \subseteq 1..n
      BY <1>1
    <2>3. b \in Seq(Seq(X)) /\ c \in Seq(Seq(X))
      BY <1>2, <2>1, <2>2, SubSeqProperties
    <2>4. d \in Seq(Seq(X)) /\ e \in Seq(Seq(X)) /\ f \in Seq(Seq(X))
      BY <1>2, <1>3, <2>1, <2>2, SubSeqProperties
    <2> QED BY <1>1, <2>1, <2>3, <2>4
  <1>5. q = c \o d /\ r = f \o e
    <2>1. 1 \in 1..n + 1 /\ k \in 1 - 1..n /\ n \in k..n
      BY <1>1
    <2>2. SubSeq(q, 1, k) \o SubSeq(q, k + 1, n) = SubSeq(q, 1, n)
      BY <1>1, <2>1, ConcatAdjacentSubSeq
    <2>3. SubSeq(r, 1, k) \o SubSeq(r, k + 1, n) = SubSeq(r, 1, n)
      BY <1>1, <2>1, ConcatAdjacentSubSeq
    <2> QED BY <1>1, <1>2, <1>3, <2>2, <2>3, SubSeqFull
  <1>6. \A i \in 1..Len(d) : d[i] = <<>>
    <2>1. k + 1 \in Int /\ n \in Int /\ \A i \in k + 1..n : q[i] \in Seq(X)
      BY <1>1
    <2>2. /\ Len(d) = IF k + 1 <= n THEN n - (k + 1) + 1 ELSE 0
          /\ \A i \in 1..n - (k + 1) + 1 : d[i] = q[(k + 1) + i - 1]
      BY <1>2, <2>1, SubSeqProperties
    <2>3. ASSUME NEW i \in 1..Len(d) PROVE d[i] = <<>>
      <3>1. i \in 1..n - (k + 1) + 1 /\ (k + 1) + i - 1 \in k + 1..n
        BY <1>1, <2>2, <2>3
      <3>2. d[i] = q[(k + 1) + i - 1]
        BY <2>2, <3>1
      <3> QED BY <1>1, <3>1, <3>2
    <2> QED BY <2>3
  <1>7. c = Append(b, q[k]) /\ f = Append(b, q[k] \o x)
    <2>1. 1 \in 1..n /\ k \in 1..n
      BY <1>1
    <2>2. c = SubSeq(q, 1, k - 1) \o <<q[k]>> /\ f = SubSeq(r, 1, k - 1) \o <<r[k]>>
      BY <1>1, <1>2, <1>3, <2>1, SubSeqRecursiveSecond
    <2>3. SubSeq(r, 1, k - 1) = b
      <3>1. /\ 1 \in Int /\ k - 1 \in Int /\ (k - 1) - 1 + 1 = k - 1
            /\ \A i \in 1..k - 1 : q[i] \in Seq(X) /\ r[i] \in Seq(X) /\ 1 + i - 1 = i
        BY <1>1
      <3>2. PICK g : g = SubSeq(r, 1, k - 1)
        OBVIOUS
      <3>3. /\ g \in Seq(Seq(X)) /\ Len(g) = IF 1 <= k - 1 THEN k - 1 ELSE 0
            /\ \A i \in 1..k - 1 : g[i] = r[i]
        BY <3>1, <3>2, SubSeqProperties
      <3>4. /\ Len(b) = IF 1 <= k - 1 THEN k - 1 ELSE 0
            /\ \A i \in 1..k - 1 : b[i] = q[i]
        BY <1>2, <3>1, SubSeqProperties
      <3>5. Len(g) = Len(b) /\ \A i \in 1..Len(g) : i \in 1..k - 1
        BY <1>1, <3>3, <3>4
      <3>6. \A i \in 1..Len(g) : g[i] = b[i]
        BY <3>3, <3>4, <3>5
      <3>7. g = b
        <4>1. /\ g \in Seq(Seq(X)) /\ b \in Seq(Seq(X)) /\ Len(g) = Len(b)
              /\ \A i \in 1..Len(g) : g[i] = b[i]
          BY <1>4, <3>3, <3>5, <3>6
        <4> QED BY <4>1, SeqEqual, SMTT(60)
      <3> QED BY <3>2, <3>7
    <2>4. r[k] \in Seq(X)
      BY <1>1
    <2>5. Append(b, q[k]) = b \o <<q[k]>> /\ Append(b, r[k]) = b \o <<r[k]>>
      BY <1>4, <2>4, AppendIsConcat
    <2> QED BY <1>2, <2>2, <2>3, <2>5, Zenon
  <1>8. PICK u, v, w : u = FlattenSeq(b) /\ v = q[k] /\ w = FlattenSeq(e)
    OBVIOUS
  <1>9. u \in Seq(X) /\ v \in Seq(X) /\ w \in Seq(X)
    BY <1>4, <1>8, FlattenTyped
  <1>10. FlattenSeq(q) = u \o v
    <2>1. FlattenSeq(q) = FlattenSeq(c) \o FlattenSeq(d)
      BY <1>4, <1>5, FlattenConcat, Zenon
    <2>2. FlattenSeq(d) = <<>>
      BY <1>4, <1>6, FlattenEmpty
    <2>3. FlattenSeq(c) = u \o v
      BY <1>4, <1>7, <1>8, FlattenAppend, Zenon
    <2>4. (u \o v) \o <<>> = u \o v
      BY <1>9
    <2> QED BY <2>1, <2>2, <2>3, <2>4, Zenon
  <1>11. FlattenSeq(r) = (u \o v) \o (x \o w)
    <2>1. FlattenSeq(r) = FlattenSeq(f) \o w
      BY <1>4, <1>5, <1>8, FlattenConcat, Zenon
    <2>2. PICK y : y = v \o x
      OBVIOUS
    <2>3. y \in Seq(X)
      BY <1>9, <2>2
    <2>4. FlattenSeq(f) = u \o y
      BY <1>4, <1>7, <1>8, <2>2, <2>3, FlattenAppend, Zenon
    <2>5. (u \o (v \o x)) \o w = (u \o v) \o (x \o w)
      <3>1. Cat(Cat(u, Cat(v, x)), w) = Cat(Cat(u, v), Cat(x, w))
        BY <1>9, FourInARow
      <3> QED BY <3>1, Zenon DEF Cat
    <2> QED BY <2>1, <2>2, <2>4, <2>5, Zenon
  <1>12. x \o w \in Seq(X)
    BY <1>9, ConcatProperties
  <1> QED BY <1>10, <1>11, <1>12, Zenon

--------------------------------------------------------------------------------
(* SumFunctionOnSet *)

Picked(s) == CHOOSE x \in s : TRUE

\* g[s] is a sum of f over s, for the sets of W.
Sums(g, f, W) == g = [s \in W |-> IF s = {} THEN 0 ELSE f[Picked(s)] + g[s \ {Picked(s)}]]

Small(D, n) == {s \in SUBSET D : Cardinality(s) <= n}

LEMMA SmallSets ==
  ASSUME NEW D, IsFiniteSet(D)
  PROVE  /\ Small(D, 0) = {{}}
         /\ \A n \in Nat : \A s \in Small(D, n + 1) :
              s # {} => Picked(s) \in s /\ \A x \in s : s \ {x} \in Small(D, n)
         /\ \A n \in Nat : Small(D, n) \subseteq Small(D, n + 1)
         /\ Small(D, Cardinality(D)) = SUBSET D /\ Cardinality(D) \in Nat
  <1>1. ASSUME NEW s \in SUBSET D
        PROVE  /\ IsFiniteSet(s) /\ Cardinality(s) \in Nat /\ Cardinality(s) <= Cardinality(D)
               /\ Cardinality(s) = 0 <=> s = {}
               /\ \A x \in s : Cardinality(s \ {x}) = Cardinality(s) - 1
    <2>1. IsFiniteSet(s) /\ Cardinality(s) <= Cardinality(D)
      BY FS_Subset
    <2> QED BY <2>1, FS_CardinalityType, FS_EmptySet, FS_RemoveElement
  <1>2. Small(D, 0) = {{}}
    <2>1. \A s \in Small(D, 0) : s = {}
      BY <1>1 DEF Small
    <2>2. {} \in Small(D, 0)
      BY <1>1 DEF Small
    <2> QED BY <2>1, <2>2
  <1>3. ASSUME NEW n \in Nat, NEW s \in Small(D, n + 1), s # {}
        PROVE  Picked(s) \in s /\ \A x \in s : s \ {x} \in Small(D, n)
    <2>1. Picked(s) \in s
      BY <1>3 DEF Picked
    <2>2. ASSUME NEW x \in s PROVE s \ {x} \in Small(D, n)
      <3>1. s \in SUBSET D /\ Cardinality(s) <= n + 1
        BY DEF Small
      <3>2. Cardinality(s) \in Nat /\ Cardinality(s \ {x}) = Cardinality(s) - 1
        BY <1>1, <3>1
      <3> QED BY <3>1, <3>2 DEF Small
    <2> QED BY <2>1, <2>2
  <1>4. \A n \in Nat : Small(D, n) \subseteq Small(D, n + 1)
    BY <1>1 DEF Small
  <1>5. Small(D, Cardinality(D)) = SUBSET D /\ Cardinality(D) \in Nat
    BY <1>1, FS_CardinalityType DEF Small
  <1> QED BY <1>2, <1>3, <1>4, <1>5

LEMMA SumsExists ==
  ASSUME NEW D, IsFiniteSet(D), NEW f
  PROVE  \E g : Sums(g, f, SUBSET D)
  <1> DEFINE T == {n \in Nat : \E g : Sums(g, f, Small(D, n))}
  <1>1. 0 \in T
    <2>1. PICK g : g = [s \in {{}} |-> 0]
      OBVIOUS
    <2>2. Sums(g, f, {{}})
      BY <2>1 DEF Sums
    <2> QED BY <2>2, SmallSets
  <1>2. ASSUME NEW n \in Nat, n \in T PROVE n + 1 \in T
    <2>1. PICK h : Sums(h, f, Small(D, n))
      BY <1>2
    <2>2. PICK g : g = [s \in Small(D, n + 1) |->
                          IF s = {} THEN 0 ELSE f[Picked(s)] + h[s \ {Picked(s)}]]
      OBVIOUS
    <2>3. \A s \in Small(D, n) : g[s] = h[s]
      BY <2>1, <2>2, SmallSets DEF Sums
    <2>4. ASSUME NEW s \in Small(D, n + 1), s # {}
          PROVE  h[s \ {Picked(s)}] = g[s \ {Picked(s)}]
      BY <2>3, <2>4, SmallSets
    <2>5. ASSUME NEW s \in Small(D, n + 1)
          PROVE  g[s] = IF s = {} THEN 0 ELSE f[Picked(s)] + g[s \ {Picked(s)}]
      BY <2>2, <2>4
    <2>6. Sums(g, f, Small(D, n + 1))
      BY <2>2, <2>5 DEF Sums
    <2> QED BY <2>6
  <1>3. Nat \subseteq T
    <2> HIDE DEF T
    <2> QED BY <1>1, <1>2, AllNumbers
  <1>4. Cardinality(D) \in T /\ Small(D, Cardinality(D)) = SUBSET D
    <2> HIDE DEF T
    <2> QED BY <1>3, SmallSets
  <1> QED BY <1>4

\* The sums over the sets in S do not depend on the larger set they are part of.
LEMMA SumsUnique ==
  ASSUME NEW D, IsFiniteSet(D), NEW S \in SUBSET D, NEW f, NEW g, NEW h,
         Sums(g, f, SUBSET S), Sums(h, f, SUBSET D)
  PROVE  g[S] = h[S]
  <1>1. IsFiniteSet(S)
    BY FS_Subset
  <1> DEFINE T == {n \in Nat : \A s \in Small(S, n) : g[s] = h[s]}
  <1>2. \A n \in Nat : \A s \in Small(S, n) : s \in SUBSET S /\ s \in SUBSET D
    BY DEF Small
  <1>3. ASSUME NEW s \in SUBSET S
        PROVE  /\ g[s] = IF s = {} THEN 0 ELSE f[Picked(s)] + g[s \ {Picked(s)}]
               /\ h[s] = IF s = {} THEN 0 ELSE f[Picked(s)] + h[s \ {Picked(s)}]
    <2>1. s \in SUBSET D
      OBVIOUS
    <2> QED BY <2>1 DEF Sums
  <1>4. 0 \in T
    BY <1>1, <1>3, SmallSets
  <1>5. ASSUME NEW n \in Nat, n \in T PROVE n + 1 \in T
    <2>1. SUFFICES ASSUME NEW s \in Small(S, n + 1) PROVE g[s] = h[s]
      OBVIOUS
    <2>2. CASE s = {}
      BY <1>3, <2>2
    <2>3. CASE s # {}
      <3>1. g[s \ {Picked(s)}] = h[s \ {Picked(s)}]
        BY <1>1, <1>5, <2>3, SmallSets
      <3>2. s \in SUBSET S
        BY <1>2
      <3> QED BY <1>3, <2>3, <3>1, <3>2
    <2> QED BY <2>2, <2>3
  <1>6. Nat \subseteq T
    <2> HIDE DEF T
    <2> QED BY <1>4, <1>5, AllNumbers
  <1>7. S \in Small(S, Cardinality(S)) /\ Cardinality(S) \in Nat
    BY <1>1, SmallSets
  <1> QED BY <1>6, <1>7

AllSums(h, f, D) ==
    Sums(h, f, SUBSET D) /\ \A S \in SUBSET D : SumFunctionOnSet(f, S) = h[S]

LEMMA SumDef ==
  ASSUME NEW D, IsFiniteSet(D), NEW f
  PROVE  \E h : AllSums(h, f, D)
  <1>1. PICK h : Sums(h, f, SUBSET D)
    BY SumsExists
  <1>2. ASSUME NEW S \in SUBSET D PROVE SumFunctionOnSet(f, S) = h[S]
    <2>1. SumFunctionOnSet(f, S) = (CHOOSE g : Sums(g, f, SUBSET S))[S]
      BY DEF SumFunctionOnSet, FoldFunctionOnSet, MapThenFoldSet, Sums, Picked
    <2>2. PICK g : g = CHOOSE k : Sums(k, f, SUBSET S)
      OBVIOUS
    <2>3. Sums(g, f, SUBSET S)
      <3>1. \E k : Sums(k, f, SUBSET S)
        BY FS_Subset, SumsExists
      <3> QED BY <2>2, <3>1
    <2> QED BY <1>1, <2>1, <2>2, <2>3, SumsUnique
  <1> QED BY <1>1, <1>2 DEF AllSums

\* In whatever order its elements are picked, a sum of numbers is a number, and an
\* element more adds its own.
LEMMA SumOneLess ==
  ASSUME NEW D, IsFiniteSet(D), NEW f, \A x \in D : f[x] \in Int, NEW h, Sums(h, f, SUBSET D),
         NEW S \in SUBSET D
  PROVE  h[S] \in Int /\ \A x \in S : h[S] = f[x] + h[S \ {x}]
  <1> DEFINE T == {n \in Nat : \A s \in Small(D, n) :
                     h[s] \in Int /\ \A x \in s : h[s] = f[x] + h[s \ {x}]}
  <1>1. ASSUME NEW s \in SUBSET D
        PROVE  h[s] = IF s = {} THEN 0 ELSE f[Picked(s)] + h[s \ {Picked(s)}]
    BY DEF Sums
  <1>2. 0 \in T
    BY <1>1, SmallSets
  <1>3. ASSUME NEW n \in Nat, n \in T PROVE n + 1 \in T
    <2>1. SUFFICES ASSUME NEW s \in Small(D, n + 1)
                   PROVE  h[s] \in Int /\ \A x \in s : h[s] = f[x] + h[s \ {x}]
      OBVIOUS
    <2>2. s \in SUBSET D
      BY DEF Small
    <2>3. CASE s = {}
      BY <1>1, <2>2, <2>3
    <2>4. CASE s # {}
      <3>1. PICK p : p = Picked(s)
        OBVIOUS
      <3>2. p \in s /\ \A x \in s : s \ {x} \in Small(D, n)
        BY <2>4, <3>1, SmallSets
      <3>3. h[s] = f[p] + h[s \ {p}]
        BY <1>1, <2>2, <2>4, <3>1
      <3>4. \A x \in s : /\ f[x] \in Int /\ h[s \ {x}] \in Int
                         /\ \A y \in s \ {x} : h[s \ {x}] = f[y] + h[(s \ {x}) \ {y}]
        BY <1>3, <2>2, <3>2
      <3>5. ASSUME NEW x \in s PROVE h[s] = f[x] + h[s \ {x}]
        <4>1. CASE x = p
          BY <3>3, <4>1
        <4>2. CASE x # p
          <5>1. PICK a, b, c, d : /\ a = h[s \ {p}] /\ b = h[s \ {x}]
                                  /\ c = h[(s \ {p}) \ {x}] /\ d = h[(s \ {x}) \ {p}]
            OBVIOUS
          <5>2. (s \ {p}) \ {x} = (s \ {x}) \ {p}
            OBVIOUS
          <5>3. c = d
            BY <5>1, <5>2
          <5>4. a = f[x] + c /\ b = f[p] + d
            BY <3>2, <3>4, <4>2, <5>1
          <5>5. p \in D /\ x \in D /\ (s \ {p}) \ {x} \in Small(D, n)
            <6>1. Cardinality(s \ {p}) <= n /\ IsFiniteSet(s \ {p}) /\ x \in s \ {p}
              BY <2>2, <3>2, <4>2, FS_Subset DEF Small
            <6>2. Cardinality((s \ {p}) \ {x}) = Cardinality(s \ {p}) - 1
              BY <6>1, FS_RemoveElement
            <6>3. Cardinality(s \ {p}) \in Nat
              BY <6>1, FS_CardinalityType
            <6> QED BY <2>2, <3>2, <6>1, <6>2, <6>3 DEF Small
          <5>6. f[x] \in Int /\ f[p] \in Int /\ c \in Int
            BY <1>3, <5>1, <5>5
          <5>7. f[p] + a = f[x] + b
            BY <5>3, <5>4, <5>6
          <5> QED BY <3>3, <5>1, <5>7
        <4> QED BY <4>1, <4>2
      <3>6. h[s] \in Int
        <4>1. f[p] \in Int /\ h[s \ {p}] \in Int
          BY <3>2, <3>4
        <4> QED BY <3>3, <4>1
      <3> QED BY <3>5, <3>6
    <2> QED BY <2>3, <2>4
  <1>4. Nat \subseteq T
    <2> HIDE DEF T
    <2> QED BY <1>2, <1>3, AllNumbers
  <1>5. S \in Small(D, Cardinality(D)) /\ Cardinality(D) \in Nat
    BY SmallSets
  <1> QED BY <1>4, <1>5

LEMMA SumOfNumbers ==
  ASSUME NEW D, IsFiniteSet(D), NEW f, \A x \in D : f[x] \in Int, NEW S \in SUBSET D
  PROVE  /\ SumFunctionOnSet(f, {}) = 0
         /\ SumFunctionOnSet(f, S) \in Int
         /\ \A x \in D \ S : SumFunctionOnSet(f, S \union {x}) = SumFunctionOnSet(f, S) + f[x]
  <1>1. PICK h : Sums(h, f, SUBSET D) /\ \A s \in SUBSET D : SumFunctionOnSet(f, s) = h[s]
    <2>1. \E h : AllSums(h, f, D)
      BY SumDef
    <2> QED BY <2>1 DEF AllSums
  <1>2. h[{}] = 0
    BY <1>1 DEF Sums
  <1>3. \A s \in SUBSET D : h[s] \in Int /\ \A x \in s : h[s] = f[x] + h[s \ {x}]
    BY <1>1, SumOneLess
  <1>4. ASSUME NEW x \in D \ S PROVE SumFunctionOnSet(f, S \union {x}) = SumFunctionOnSet(f, S) + f[x]
    <2>1. PICK u : u = S \union {x}
      OBVIOUS
    <2>2. u \in SUBSET D /\ x \in u /\ u \ {x} = S
      BY <2>1
    <2>3. h[u] = f[x] + h[S] /\ h[S] \in Int /\ f[x] \in Int
      BY <1>3, <2>2
    <2>4. SumFunctionOnSet(f, u) = h[u] /\ SumFunctionOnSet(f, S) = h[S]
      BY <1>1, <2>2
    <2> QED BY <2>1, <2>3, <2>4
  <1> QED BY <1>1, <1>2, <1>3, <1>4

================================================================================
