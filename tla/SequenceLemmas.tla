--------------------------- MODULE SequenceLemmas ---------------------------
(***************************************************************************)
(* Facts about the operators of SequencesExt and FiniteSetsExt that the    *)
(* library proves nothing about: least elements, what removing leaves,     *)
(* and what flattening is from either end.  Recursive functions need       *)
(* induction, which here goes over sets: a set of numbers has a least one. *)
(***************************************************************************)
EXTENDS Integers, SequencesExt, SequenceTheorems, FiniteSetTheorems, TLAPS

(* Among intervals ordered by inclusion, those up to elements of I have a  *)
(* least one.                                                              *)
LEMMA LeastNatural ==
    ASSUME NEW I, I \subseteq Nat, I # {}
    PROVE  \E x \in I : \A y \in I : x <= y
<1> DEFINE T == {1 .. n : n \in I}
           R == StrictSubsetOrdering(Nat)
<1>1. IsWellFoundedOn(R, FiniteSubsetsOf(Nat))
  BY FS_StrictSubsetOrderingWellFounded
<1>2. T \subseteq FiniteSubsetsOf(Nat) /\ T # {}
  <2>1. \A n \in I : IsFiniteSet(1 .. n) /\ 1 .. n \subseteq Nat
    BY FS_Interval
  <2> QED BY <2>1 DEF FiniteSubsetsOf
<1> HIDE DEF T, R
<1>3. PICK t \in T : \A u \in T : ~ (<<u, t>> \in R)
  BY <1>1, <1>2, WFMin
<1>4. PICK x \in I : t = 1 .. x
  BY DEF T
<1>5. ASSUME NEW y \in I
      PROVE  x <= y
  <2> SUFFICES ASSUME y < x
               PROVE  FALSE
    OBVIOUS
  <2>1. 1 .. y \in T
    BY DEF T
  <2>2. 1 .. y \subseteq 1 .. x /\ 1 .. y # 1 .. x
    <3>1. x \in 1 .. x /\ x \notin 1 .. y
      OBVIOUS
    <3> QED BY <3>1
  <2>3. 1 .. y \in SUBSET Nat /\ 1 .. x \in SUBSET Nat
    OBVIOUS
  <2>4. <<1 .. y, t>> \in R
    BY <1>4, <2>2, <2>3 DEF R, StrictSubsetOrdering
  <2> QED BY <1>3, <2>1, <2>4
<1> QED BY <1>5

LEMMA MinIsLeast ==
    ASSUME NEW I, I \subseteq Nat, I # {}
    PROVE  Min(I) \in I /\ \A y \in I : Min(I) <= y
BY LeastNatural DEF Min

LEMMA MaxIsGreatest ==
    ASSUME NEW I, I \subseteq Nat, I # {}, NEW N \in Nat, \A i \in I : i <= N
    PROVE  Max(I) \in I /\ \A i \in I : i <= Max(I)
<1> DEFINE J == {N - i : i \in I}
<1>1. J \subseteq Nat /\ J # {}
  <2>1. \A i \in I : N - i \in Nat
    OBVIOUS
  <2> QED BY <2>1
<1> HIDE DEF J
<1>2. PICK l \in J : \A j \in J : l <= j
  BY <1>1, LeastNatural
<1>3. PICK m \in I : l = N - m
  BY <1>2 DEF J
<1>4. \A i \in I : i \in Nat /\ N - i \in J
  BY DEF J
<1>5. \A i \in I : m >= i
  BY <1>2, <1>3, <1>4
<1>6. Max(I) \in I /\ \A i \in I : Max(I) >= i
  BY <1>5 DEF Max
<1>7. Max(I) \in Nat
  BY <1>6
<1> QED BY <1>4, <1>6, <1>7

(* What RemoveFirst() takes out is one of the elements.                    *)
LEMMA FirstPosition ==
    ASSUME NEW s, Len(s) \in Nat, NEW e, \E i \in 1 .. Len(s) : s[i] = e
    PROVE  \E k \in 1 .. Len(s) : RemoveFirst(s, e) = RemoveAt(s, k)
<1> DEFINE I == {i \in 1 .. Len(s) : s[i] = e}
<1>1. I # {} /\ I \subseteq Nat /\ I \subseteq 1 .. Len(s)
  OBVIOUS
<1>2. Min(I) \in 1 .. Len(s)
  <2> HIDE DEF I
  <2> QED BY <1>1, MinIsLeast
<1>3. SelectInSeq(s, LAMBDA v : v = e) = Min({i \in 1 .. Len(s) : s[i] = e})
  BY <1>1 DEF SelectInSeq
<1>4. RemoveFirst(s, e) = RemoveAt(s, Min({i \in 1 .. Len(s) : s[i] = e}))
  BY <1>3 DEF RemoveFirst
<1> QED BY <1>2, <1>4

LEMMA RemovingKeepsType ==
    ASSUME NEW S, NEW s \in Seq(S), NEW e
    PROVE  RemoveFirst(s, e) \in Seq(S)
<1>1. CASE \E i \in 1 .. Len(s) : s[i] = e
  <2>1. PICK k \in 1 .. Len(s) : RemoveFirst(s, e) = RemoveAt(s, k)
    BY <1>1, FirstPosition, LenProperties
  <2>3. Len(s) \in Nat /\ \A i \in 1 .. Len(s) : s[i] \in S
    BY LenProperties, ElementOfSeq
  <2>4. \A i \in 1 .. k - 1 : s[i] \in S
    BY <2>1, <2>3
  <2>5. \A i \in k + 1 .. Len(s) : s[i] \in S
    BY <2>1, <2>3
  <2>6. SubSeq(s, 1, k - 1) \in Seq(S)
    BY <2>1, <2>3, <2>4, SubSeqProperties
  <2>7. SubSeq(s, k + 1, Len(s)) \in Seq(S)
    BY <2>1, <2>3, <2>5, SubSeqProperties
  <2> QED BY <2>1, <2>6, <2>7, ConcatProperties DEF RemoveAt
<1>2. CASE ~ \E i \in 1 .. Len(s) : s[i] = e
  BY <1>2 DEF RemoveFirst
<1> QED BY <1>1, <1>2

-----------------------------------------------------------------------------
(* Induction up to N, with the set of those that have the property.        *)
LEMMA Induction ==
    ASSUME NEW N \in Nat, N # 0, NEW P, P \subseteq 1 .. N, 1 \in P,
           \A n \in P : n + 1 \in 1 .. N => n + 1 \in P
    PROVE  N \in P /\ \A n \in 1 .. N : n \in P
<1> DEFINE Bad == (1 .. N) \ P
<1>1. CASE Bad # {}
  <2>1. Bad \subseteq Nat
    OBVIOUS
  <2>2. PICK n \in Bad : \A m \in Bad : n <= m
    <3> HIDE DEF Bad
    <3> QED BY <1>1, <2>1, LeastNatural
  <2>3. n - 1 \in 1 .. N /\ ~(n <= n - 1) /\ (n - 1) + 1 = n
    BY <2>2
  <2>4. n - 1 \in P
    BY <2>2, <2>3
  <2> QED BY <2>2, <2>3, <2>4
<1>2. CASE Bad = {}
  BY <1>2
<1> QED BY <1>1, <1>2

(* The first n concatenations that FlattenSeq() walks through.             *)
Flattens(q, n, f) ==
    f = [i \in 1 .. n |-> IF i = 1 THEN q[i] ELSE f[i - 1] \o q[i]]

(* One concatenation more.                                                 *)
LEMMA FlattenOneMore ==
    ASSUME NEW q, NEW n \in Nat, n # 0, NEW f, Flattens(q, n, f)
    PROVE  \E g : Flattens(q, n + 1, g)
<1> DEFINE g == [i \in 1 .. n + 1 |->
                   IF i = n + 1 THEN f[n] \o q[n + 1] ELSE f[i]]
           h == [i \in 1 .. n + 1 |-> IF i = 1 THEN q[i] ELSE g[i - 1] \o q[i]]
<1>1. \A i \in 1 .. n : f[i] = IF i = 1 THEN q[i] ELSE f[i - 1] \o q[i]
  BY DEF Flattens
<1>2. ASSUME NEW i \in 1 .. n + 1
      PROVE  g[i] = h[i]
  <2>1. CASE i = n + 1
    <3>1. i # 1 /\ i - 1 \in 1 .. n /\ i - 1 # n + 1 /\ i - 1 = n
          /\ i - 1 \in 1 .. n + 1
      BY <2>1
    <3>2. g[i] = f[n] \o q[n + 1] /\ g[i - 1] = f[n]
      BY <2>1, <3>1
    <3> HIDE DEF g
    <3> QED BY <2>1, <3>1, <3>2
  <2>2. CASE i # n + 1
    <3>1. i \in 1 .. n /\ g[i] = f[i]
      BY <2>2
    <3>2. i # 1 => g[i - 1] = f[i - 1]
      BY <2>2
    <3> HIDE DEF g
    <3> QED BY <1>1, <3>1, <3>2
  <2> QED BY <2>1, <2>2
<1>3. g = h
  BY <1>2
<1> HIDE DEF g
<1> QED BY <1>3 DEF Flattens

LEMMA FlattensAll ==
    ASSUME NEW q, NEW N \in Nat, N # 0
    PROVE  \E f : Flattens(q, N, f)
<1> DEFINE P == {n \in 1 .. N : \E f : Flattens(q, n, f)}
<1>1. 1 \in P
  <2>1. Flattens(q, 1, [i \in 1 .. 1 |-> q[i]])
    BY DEF Flattens
  <2> QED BY <2>1
<1>2. ASSUME NEW n \in P, n + 1 \in 1 .. N
      PROVE  n + 1 \in P
  <2>1. n \in Nat /\ n # 0 /\ \E f : Flattens(q, n, f)
    OBVIOUS
  <2>2. \E g : Flattens(q, n + 1, g)
    BY <2>1, FlattenOneMore
  <2> QED BY <1>2, <2>2
<1>3. N \in P
  <2>1. P \subseteq 1 .. N
    OBVIOUS
  <2> HIDE DEF P
  <2> QED BY <1>1, <1>2, <2>1, Induction
<1> QED BY <1>3

(* FlattenSeq() is the last of them.                                       *)
LEMMA FlattenIsLast ==
    ASSUME NEW q, Len(q) \in Nat, Len(q) # 0
    PROVE \E f : Flattens(q, Len(q), f) /\ FlattenSeq(q) = f[Len(q)]
<1>1. PICK f : Flattens(q, Len(q), f)
  BY FlattensAll
<1>2. FlattenSeq(q) = (CHOOSE g : Flattens(q, Len(q), g))[Len(q)]
  BY DEF FlattenSeq, Flattens
<1>3. Flattens(q, Len(q), CHOOSE g : Flattens(q, Len(q), g))
  BY <1>1
<1> QED BY <1>2, <1>3
(* What flattening is, from either end.                                    *)
LEMMA FlattenEmpty == FlattenSeq(<<>>) = <<>>
BY DEF FlattenSeq

(* Its equations, one by one.                                              *)
LEMMA FlattensAt ==
    ASSUME NEW q, NEW N \in Nat, N # 0, NEW f, Flattens(q, N, f)
    PROVE  /\ f[1] = q[1]
           /\ \A n \in 1 .. N : n + 1 \in 1 .. N => f[n + 1] = f[n] \o q[n + 1]
<1>1. \A i \in 1 .. N : f[i] = IF i = 1 THEN q[i] ELSE f[i - 1] \o q[i]
  BY DEF Flattens
<1>2. f[1] = q[1]
  BY <1>1
<1>3. ASSUME NEW n \in 1 .. N, n + 1 \in 1 .. N
      PROVE  f[n + 1] = f[n] \o q[n + 1]
  <2>1. n + 1 # 1 /\ (n + 1) - 1 = n
    OBVIOUS
  <2> QED BY <1>1, <1>3, <2>1
<1> QED BY <1>2, <1>3

LEMMA FlattenTypes ==
    ASSUME NEW S, NEW q, NEW N \in Nat, N # 0,
           \A i \in 1 .. N : q[i] \in Seq(S), NEW f, Flattens(q, N, f)
    PROVE  \A i \in 1 .. N : f[i] \in Seq(S)
<1> DEFINE P == {i \in 1 .. N : f[i] \in Seq(S)}
<1>0. /\ f[1] = q[1]
      /\ \A n \in 1 .. N : n + 1 \in 1 .. N => f[n + 1] = f[n] \o q[n + 1]
  BY FlattensAt
<1>1. 1 \in P
  <2>1. 1 \in 1 .. N
    OBVIOUS
  <2> QED BY <1>0, <2>1
<1>2. ASSUME NEW n \in P, n + 1 \in 1 .. N
      PROVE  n + 1 \in P
  <2>1. f[n + 1] = f[n] \o q[n + 1]
    BY <1>0, <1>2
  <2>2. f[n] \in Seq(S) /\ q[n + 1] \in Seq(S)
    BY <1>2
  <2>3. f[n] \o q[n + 1] \in Seq(S)
    BY <2>2, ConcatProperties
  <2> QED BY <1>2, <2>1, <2>3
<1>3. \A i \in 1 .. N : i \in P
  <2>1. P \subseteq 1 .. N
    OBVIOUS
  <2> HIDE DEF P
  <2> QED BY <1>0, <1>1, <1>2, <2>1, Induction
<1> QED BY <1>3

LEMMA FlattenKeepsType ==
    ASSUME NEW S, NEW q \in Seq(Seq(S))
    PROVE  FlattenSeq(q) \in Seq(S)
<1>0. Len(q) \in Nat /\ (Len(q) = 0 => q = <<>>)
  BY EmptySeq, LenProperties
<1>1. CASE Len(q) = 0
  BY <1>0, <1>1, FlattenEmpty, EmptySeq
<1>2. CASE Len(q) # 0
  <2>1. PICK f : Flattens(q, Len(q), f) /\ FlattenSeq(q) = f[Len(q)]
    BY <1>0, <1>2, FlattenIsLast
  <2>2. Len(q) \in 1 .. Len(q) /\ \A i \in 1 .. Len(q) : q[i] \in Seq(S)
    BY <1>0, <1>2, ElementOfSeq
  <2> QED BY <1>0, <1>2, <2>1, <2>2, FlattenTypes
<1> QED BY <1>1, <1>2

LEMMA FlattenAppend ==
    ASSUME NEW S, NEW q \in Seq(Seq(S)), NEW p \in Seq(S)
    PROVE  FlattenSeq(Append(q, p)) = FlattenSeq(q) \o p
<1> DEFINE r == Append(q, p)
           N == Len(q)
<1>0. /\ N \in Nat /\ (N = 0 => q = <<>>)
      /\ Len(r) = N + 1 /\ r[N + 1] = p
      /\ \A i \in 1 .. N : r[i] = q[i]
  BY EmptySeq, LenProperties, AppendProperties
<1> HIDE DEF r, N
<1>1. PICK f : Flattens(r, N + 1, f) /\ FlattenSeq(r) = f[N + 1]
  BY <1>0, FlattenIsLast
<1>2. /\ f[1] = r[1]
      /\ \A n \in 1 .. N + 1 : n + 1 \in 1 .. N + 1 =>
            f[n + 1] = f[n] \o r[n + 1]
  <2> DEFINE M == N + 1
  <2>1. M \in Nat /\ M # 0 /\ Flattens(r, M, f)
    BY <1>0, <1>1
  <2> HIDE DEF M
  <2>2. /\ f[1] = r[1]
        /\ \A n \in 1 .. M : n + 1 \in 1 .. M => f[n + 1] = f[n] \o r[n + 1]
    BY <2>1, FlattensAt
  <2> QED BY <2>2 DEF M
<1>3. CASE N = 0
  <2>1. f[N + 1] = p
    BY <1>0, <1>2, <1>3
  <2>2. FlattenSeq(q) \o p = p
    BY <1>0, <1>3, FlattenEmpty, ConcatEmptySeq
  <2> QED BY <1>1, <2>1, <2>2 DEF r
<1>4. CASE N # 0
  <2>1. PICK g : Flattens(q, N, g) /\ FlattenSeq(q) = g[N]
    BY <1>0, <1>4, FlattenIsLast DEF N
  <2>2. /\ g[1] = q[1]
        /\ \A n \in 1 .. N : n + 1 \in 1 .. N => g[n + 1] = g[n] \o q[n + 1]
    BY <1>0, <1>4, <2>1, FlattensAt
  <2> DEFINE P == {i \in 1 .. N : f[i] = g[i]}
  <2>3. 1 \in P
    BY <1>0, <1>2, <1>4, <2>2
  <2>4. ASSUME NEW n \in P, n + 1 \in 1 .. N
        PROVE  n + 1 \in P
    <3>1. n \in 1 .. N /\ n \in 1 .. N + 1 /\ n + 1 \in 1 .. N + 1
      BY <1>0, <2>4
    <3>2. f[n + 1] = f[n] \o r[n + 1] /\ g[n + 1] = g[n] \o q[n + 1]
      BY <1>2, <2>2, <2>4, <3>1
    <3> QED BY <1>0, <2>4, <3>2
  <2>5. N \in P
    <3>1. P \subseteq 1 .. N
      OBVIOUS
    <3> HIDE DEF P
    <3> QED BY <1>0, <1>4, <2>3, <2>4, <3>1, Induction
  <2>6. f[N + 1] = f[N] \o r[N + 1]
    <3>1. N \in 1 .. N + 1 /\ N + 1 \in 1 .. N + 1
      BY <1>0, <1>4
    <3> QED BY <1>2, <3>1
  <2> QED BY <1>0, <1>1, <2>1, <2>5, <2>6 DEF r
<1> QED BY <1>3, <1>4

LEMMA FlattenPrepend ==
    ASSUME NEW S, NEW q \in Seq(Seq(S)), NEW p \in Seq(S)
    PROVE  FlattenSeq(<<p>> \o q) = p \o FlattenSeq(q)
<1> DEFINE r == <<p>> \o q
           N == Len(q)
<1>0. /\ N \in Nat /\ (N = 0 => q = <<>>)
      /\ Len(r) = N + 1 /\ r[1] = p
      /\ \A i \in 1 .. N : r[i + 1] = q[i]
  <2>1. <<p>> \in Seq(Seq(S)) /\ Len(<<p>>) = 1 /\ <<p>>[1] = p
    OBVIOUS
  <2>2. N \in Nat /\ (N = 0 => q = <<>>)
    BY EmptySeq, LenProperties
  <2>3. /\ Len(r) = 1 + N
        /\ \A i \in 1 .. 1 + N : r[i] = IF i <= 1 THEN <<p>>[i] ELSE q[i - 1]
    BY <2>1, ConcatProperties
  <2> HIDE DEF r, N
  <2> QED BY <2>1, <2>2, <2>3
<1> HIDE DEF r, N
<1>1. PICK f : Flattens(r, N + 1, f) /\ FlattenSeq(r) = f[N + 1]
  BY <1>0, FlattenIsLast
<1>2. /\ f[1] = r[1]
      /\ \A n \in 1 .. N + 1 : n + 1 \in 1 .. N + 1 =>
            f[n + 1] = f[n] \o r[n + 1]
  <2> DEFINE M == N + 1
  <2>1. M \in Nat /\ M # 0 /\ Flattens(r, M, f)
    BY <1>0, <1>1
  <2> HIDE DEF M
  <2>2. /\ f[1] = r[1]
        /\ \A n \in 1 .. M : n + 1 \in 1 .. M => f[n + 1] = f[n] \o r[n + 1]
    BY <2>1, FlattensAt
  <2> QED BY <2>2 DEF M
<1>3. CASE N = 0
  <2>1. f[N + 1] = p
    BY <1>0, <1>2, <1>3
  <2>2. p \o FlattenSeq(q) = p
    BY <1>0, <1>3, FlattenEmpty, ConcatEmptySeq
  <2> QED BY <1>1, <2>1, <2>2 DEF r
<1>0a. \A s, t \in Seq(S) : (p \o s) \o t = p \o (s \o t)
  BY ConcatAssociative
<1>4. CASE N # 0
  <2>1. PICK g : Flattens(q, N, g) /\ FlattenSeq(q) = g[N]
    BY <1>0, <1>4, FlattenIsLast DEF N
  <2>2. /\ g[1] = q[1]
        /\ \A n \in 1 .. N : n + 1 \in 1 .. N => g[n + 1] = g[n] \o q[n + 1]
    BY <1>0, <1>4, <2>1, FlattensAt
  <2>0. \A i \in 1 .. N : q[i] \in Seq(S)
    BY ElementOfSeq DEF N
  <2>3. \A i \in 1 .. N : g[i] \in Seq(S) /\ q[i] \in Seq(S)
    BY <1>0, <1>4, <2>1, <2>0, FlattenTypes
  <2> DEFINE P == {i \in 1 .. N : f[i + 1] = p \o g[i]}
  <2>4. 1 \in P
    <3>1. 1 + 1 \in 1 .. N + 1 /\ 1 \in 1 .. N + 1 /\ 1 \in 1 .. N
      BY <1>0, <1>4
    <3>2. f[1] = r[1] /\ f[1 + 1] = f[1] \o r[1 + 1]
      BY <1>2, <3>1
    <3>3. r[1 + 1] = q[1] /\ g[1] = q[1]
      BY <1>0, <2>2, <3>1
    <3> QED BY <1>0, <3>1, <3>2, <3>3
  <2>5. ASSUME NEW n \in P, n + 1 \in 1 .. N
        PROVE  n + 1 \in P
    <3>1. /\ n \in 1 .. N /\ n + 1 \in 1 .. N + 1
          /\ (n + 1) + 1 \in 1 .. N + 1
      BY <1>0, <2>5
    <3>2. /\ f[(n + 1) + 1] = f[n + 1] \o r[(n + 1) + 1]
          /\ g[n + 1] = g[n] \o q[n + 1]
      BY <1>2, <2>2, <2>5, <3>1
    <3>3. r[(n + 1) + 1] = q[n + 1] /\ f[n + 1] = p \o g[n]
      BY <1>0, <2>5
    <3>4. (p \o g[n]) \o q[n + 1] = p \o (g[n] \o q[n + 1])
      <4>1. g[n] \in Seq(S) /\ q[n + 1] \in Seq(S)
        BY <2>3, <2>5, <3>1
      <4> QED BY <1>0a, <4>1
    <3> QED BY <2>5, <3>2, <3>3, <3>4
  <2>6. N \in P
    <3>1. P \subseteq 1 .. N
      OBVIOUS
    <3> HIDE DEF P
    <3> QED BY <1>0, <1>4, <2>4, <2>5, <3>1, Induction
  <2> QED BY <1>1, <2>1, <2>6 DEF r
<1> QED BY <1>3, <1>4

(* Flattening is unmoved by empty sequences in front.                      *)
LEMMA FlattenSkips ==
    ASSUME NEW S, NEW q \in Seq(Seq(S)), NEW k \in 0 .. Len(q),
           \A i \in 1 .. k : q[i] = <<>>
    PROVE  FlattenSeq(q) = FlattenSeq(SubSeq(q, k + 1, Len(q)))
<1> DEFINE N == Len(q)
           P == {n \in 1 .. k + 1 :
                   FlattenSeq(q) = FlattenSeq(SubSeq(q, n, N))}
<1>0. /\ N \in Nat /\ k \in Nat /\ k + 1 \in Nat /\ k + 1 # 0 /\ k <= N
      /\ \A i \in 1 .. N : q[i] \in Seq(S)
  BY LenProperties, ElementOfSeq
<1>1. 1 \in P
  <2>1. SubSeq(q, 1, N) = q
    BY SubSeqFull
  <2>2. 1 \in 1 .. k + 1
    BY <1>0
  <2>3. FlattenSeq(q) = FlattenSeq(SubSeq(q, 1, N))
    BY <2>1
  <2> QED BY <2>2, <2>3
<1>2. ASSUME NEW n \in P, n + 1 \in 1 .. k + 1
      PROVE  n + 1 \in P
  <2>1. n \in 1 .. N /\ q[n] = <<>> /\ n + 1 \in 1 .. N + 1
    BY <1>0, <1>2
  <2>2. SubSeq(q, n, N) = <<q[n]>> \o SubSeq(q, n + 1, N)
    BY <2>1, SubSeqRecursiveFirst
  <2>3. SubSeq(q, n + 1, N) \in Seq(Seq(S))
    <3>1. \A i \in n + 1 .. N : q[i] \in Seq(S)
      BY <1>0, <2>1
    <3>2. n + 1 \in Int /\ N \in Int
      BY <1>0, <2>1
    <3> QED BY <3>1, <3>2, SubSeqProperties
  <2>4. <<>> \in Seq(S)
    BY EmptySeq
  <2>5. FlattenSeq(SubSeq(q, n, N)) = <<>> \o FlattenSeq(SubSeq(q, n + 1, N))
    BY <2>1, <2>2, <2>3, <2>4, FlattenPrepend
  <2>6. FlattenSeq(SubSeq(q, n + 1, N)) \in Seq(S)
    BY <2>3, FlattenKeepsType
  <2>7. FlattenSeq(SubSeq(q, n, N)) = FlattenSeq(SubSeq(q, n + 1, N))
    BY <2>5, <2>6, ConcatEmptySeq
  <2> QED BY <1>2, <2>7
<1>3. k + 1 \in P
  <2>1. P \subseteq 1 .. k + 1
    OBVIOUS
  <2> HIDE DEF P
  <2> QED BY <1>0, <1>1, <1>2, <2>1, Induction
<1> QED BY <1>3

LEMMA FlattenNothing ==
    ASSUME NEW S, NEW q \in Seq(Seq(S)), \A i \in 1 .. Len(q) : q[i] = <<>>
    PROVE  FlattenSeq(q) = <<>>
<1>1. Len(q) \in Nat /\ Len(q) \in 0 .. Len(q)
  BY LenProperties
<1>2. SubSeq(q, Len(q) + 1, Len(q)) = <<>>
  BY <1>1, SubSeqEmpty
<1> QED BY <1>1, <1>2, FlattenSkips, FlattenEmpty

-----------------------------------------------------------------------------
(* What inserting puts where.                                              *)
LEMMA InsertingAt ==
    ASSUME NEW S, NEW s \in Seq(S), NEW i \in 1 .. Len(s) + 1, NEW e \in S
    PROVE  /\ InsertAt(s, i, e) \in Seq(S)
           /\ Len(InsertAt(s, i, e)) = Len(s) + 1
           /\ \A j \in 1 .. Len(s) + 1 :
                 InsertAt(s, i, e)[j] = IF j < i THEN s[j]
                                        ELSE IF j = i THEN e ELSE s[j - 1]
           /\ SubSeq(InsertAt(s, i, e), i, Len(s) + 1)
                 = <<e>> \o SubSeq(s, i, Len(s))
<1> DEFINE N == Len(s)
           M == N - i + 1
           a == SubSeq(s, 1, i - 1)
           b == SubSeq(s, i, N)
           c == a \o <<e>>
           t == c \o b
<1>0. /\ N \in Nat /\ i \in Nat /\ i # 0 /\ i <= N + 1 /\ M \in Nat
      /\ i + M = N + 1 /\ \A j \in 1 .. N : s[j] \in S
  BY LenProperties, ElementOfSeq
<1>1. a \in Seq(S) /\ Len(a) = i - 1 /\ \A j \in 1 .. i - 1 : a[j] = s[j]
  BY <1>0, SubSeqProperties
<1>2. b \in Seq(S) /\ Len(b) = M /\ \A j \in 1 .. M : b[j] = s[i + j - 1]
  BY <1>0, SubSeqProperties
<1>3. <<e>> \in Seq(S) /\ Len(<<e>>) = 1 /\ <<e>>[1] = e
  OBVIOUS
<1>4. InsertAt(s, i, e) = t
  BY DEF InsertAt
<1>9. i + M = N + 1
  BY <1>0
<1> HIDE DEF N, M, a, b, c, t
<1>5. /\ c \in Seq(S) /\ Len(c) = i
      /\ \A j \in 1 .. i : c[j] = IF j < i THEN s[j] ELSE e
  <2>1. /\ c \in Seq(S) /\ Len(c) = (i - 1) + 1
        /\ \A j \in 1 .. (i - 1) + 1 :
              c[j] = IF j <= i - 1 THEN a[j] ELSE <<e>>[j - (i - 1)]
    BY <1>1, <1>3, ConcatProperties DEF c
  <2> QED BY <1>0, <1>1, <1>3, <2>1
<1>6. /\ t \in Seq(S) /\ Len(t) = N + 1
      /\ \A j \in 1 .. N + 1 : t[j] = IF j <= i THEN c[j] ELSE b[j - i]
  <2>1. /\ t \in Seq(S) /\ Len(t) = i + M
        /\ \A j \in 1 .. i + M : t[j] = IF j <= i THEN c[j] ELSE b[j - i]
    BY <1>2, <1>5, ConcatProperties DEF t
  <2> QED BY <1>9, <2>1
<1>7. ASSUME NEW j \in 1 .. N + 1
      PROVE  t[j] = IF j < i THEN s[j] ELSE IF j = i THEN e ELSE s[j - 1]
  <2>1. CASE j <= i
    <3>1. j \in 1 .. i /\ t[j] = c[j]
      BY <1>0, <1>6, <2>1
    <3> QED BY <1>0, <1>5, <2>1, <3>1
  <2>2. CASE ~(j <= i)
    <3>1. j - i \in 1 .. M /\ i + (j - i) - 1 = j - 1 /\ ~(j < i) /\ j # i
      BY <1>0, <2>2
    <3>2. t[j] = b[j - i]
      BY <1>6, <2>2
    <3> QED BY <1>2, <3>1, <3>2
  <2> QED BY <2>1, <2>2
<1>8. SubSeq(t, i, N + 1) = <<e>> \o b
  <2> DEFINE u == SubSeq(t, i, N + 1)
             v == <<e>> \o b
  <2>1. \A j \in i .. N + 1 : t[j] \in S
    <3>1. \A j \in 1 .. N + 1 : t[j] \in S
      BY <1>6, ElementOfSeq
    <3> QED BY <1>0, <3>1
  <2>2. /\ u \in Seq(S) /\ Len(u) = M + 1
        /\ \A j \in 1 .. M + 1 : u[j] = t[i + j - 1]
    <3>1. i \in Int /\ N + 1 \in Int /\ i <= N + 1 /\ (N + 1) - i + 1 = M + 1
      BY <1>0
    <3> QED BY <2>1, <3>1, SubSeqProperties
  <2>3. /\ v \in Seq(S) /\ Len(v) = 1 + M
        /\ \A j \in 1 .. 1 + M : v[j] = IF j <= 1 THEN <<e>>[j] ELSE b[j - 1]
    BY <1>2, <1>3, ConcatProperties
  <2> HIDE DEF u, v
  <2>4. Len(u) = Len(v)
    BY <1>0, <2>2, <2>3
  <2>5. ASSUME NEW j \in 1 .. M + 1
        PROVE  u[j] = v[j]
    <3>1. i + j - 1 \in 1 .. N + 1 /\ u[j] = t[i + j - 1]
      BY <1>0, <2>2
    <3>2. CASE j = 1
      <4>1. i + j - 1 = i /\ ~(i < i) /\ j \in 1 .. 1 + M /\ j <= 1
        BY <1>0, <3>2
      <4>2. t[i] = e
        BY <1>7, <3>1, <4>1
      <4> QED BY <1>3, <2>3, <3>1, <3>2, <4>1, <4>2
    <3>3. CASE j # 1
      <4>1. /\ j - 1 \in 1 .. M /\ j \in 1 .. 1 + M /\ ~(j <= 1)
            /\ ~(i + j - 1 < i) /\ i + j - 1 # i
            /\ i + (j - 1) - 1 = (i + j - 1) - 1
        BY <1>0, <3>3
      <4>2. v[j] = b[j - 1] /\ b[j - 1] = s[i + (j - 1) - 1]
        BY <1>2, <2>3, <4>1
      <4>3. t[i + j - 1] = s[(i + j - 1) - 1]
        BY <1>7, <3>1, <4>1
      <4> QED BY <3>1, <4>1, <4>2, <4>3
    <3> QED BY <3>2, <3>3
  <2> QED BY <2>2, <2>3, <2>4, <2>5, SeqEqual DEF u, v
<1> QED BY <1>4, <1>6, <1>7, <1>8 DEF b, N

-----------------------------------------------------------------------------
(* What is left of a sequence after its first k elements.                  *)
LEMMA Leaving ==
    ASSUME NEW S, NEW s \in Seq(S), NEW k \in 0 .. Len(s)
    PROVE  /\ SubSeq(s, k + 1, Len(s)) \in Seq(S)
           /\ Len(SubSeq(s, k + 1, Len(s))) = Len(s) - k
           /\ \A i \in 1 .. Len(s) - k :
                 SubSeq(s, k + 1, Len(s))[i] = s[k + i]
<1> DEFINE N == Len(s)
           u == SubSeq(s, k + 1, N)
<1>1. /\ N \in Nat /\ k \in Nat /\ k <= N /\ k + 1 \in Int /\ N \in Int
      /\ \A i \in 1 .. N : s[i] \in S
  BY LenProperties, ElementOfSeq
<1>2. \A i \in k + 1 .. N : s[i] \in S
  BY <1>1
<1>3. /\ u \in Seq(S) /\ Len(u) = IF k + 1 <= N THEN N - (k + 1) + 1 ELSE 0
      /\ \A i \in 1 .. N - (k + 1) + 1 : u[i] = s[(k + 1) + i - 1]
  BY <1>1, <1>2, SubSeqProperties
<1> HIDE DEF u, N
<1>4. Len(u) = N - k
  BY <1>1, <1>3
<1>5. ASSUME NEW i \in 1 .. N - k
      PROVE  u[i] = s[k + i]
  <2>1. i \in 1 .. N - (k + 1) + 1 /\ (k + 1) + i - 1 = k + i
    BY <1>1
  <2> QED BY <1>3, <2>1
<1> QED BY <1>3, <1>4, <1>5 DEF u, N

LEMMA LeavingTwice ==
    ASSUME NEW S, NEW s \in Seq(S), NEW c \in 0 .. Len(s),
           NEW r, r = SubSeq(s, c + 1, Len(s)), NEW k \in 0 .. Len(r)
    PROVE  SubSeq(r, k + 1, Len(r)) = SubSeq(s, (c + k) + 1, Len(s))
<1> DEFINE N == Len(s)
           u == SubSeq(r, k + 1, Len(r))
           v == SubSeq(s, (c + k) + 1, N)
           d == c + k
<1>1. /\ N \in Nat /\ r \in Seq(S) /\ Len(r) = N - c /\ c \in 0 .. N
      /\ \A i \in 1 .. N - c : r[i] = s[c + i]
  BY LenProperties, Leaving
<1>2. /\ u \in Seq(S) /\ Len(u) = (N - c) - k
      /\ \A i \in 1 .. (N - c) - k : u[i] = r[k + i]
  BY <1>1, Leaving
<1>3. d \in 0 .. N
  BY <1>1
<1>4. /\ v \in Seq(S) /\ Len(v) = N - d
      /\ \A i \in 1 .. N - d : v[i] = s[d + i]
  <2> HIDE DEF d
  <2>1. /\ SubSeq(s, d + 1, N) \in Seq(S)
        /\ Len(SubSeq(s, d + 1, N)) = N - d
        /\ \A i \in 1 .. N - d : SubSeq(s, d + 1, N)[i] = s[d + i]
    BY <1>3, Leaving
  <2> QED BY <2>1 DEF d
<1> HIDE DEF u, v, N
<1>5. Len(u) = Len(v)
  BY <1>1, <1>2, <1>4
<1>6. ASSUME NEW i \in 1 .. Len(u)
      PROVE  u[i] = v[i]
  <2>1. /\ i \in 1 .. (N - c) - k /\ i \in 1 .. N - d /\ k + i \in 1 .. N - c
        /\ c + (k + i) = d + i
    BY <1>1, <1>2
  <2> QED BY <1>1, <1>2, <1>4, <2>1
<1> QED BY <1>2, <1>4, <1>5, <1>6, SeqEqual DEF u, v, N

-----------------------------------------------------------------------------
(* A finite set of numbers can be listed from the least to the greatest:   *)
(* each stands in the place that counts those up to it.                    *)
LEMMA ListedInOrder ==
    ASSUME NEW I \in SUBSET Nat, IsFiniteSet(I)
    PROVE  \E s \in [1 .. Cardinality(I) -> I] :
              \A j, k \in DOMAIN s : j < k => s[j] < s[k]
<1> DEFINE n       == Cardinality(I)
           UpTo(i) == {j \in I : j <= i}
           r       == [i \in I |-> Cardinality(UpTo(i))]
           s       == [k \in 1 .. n |-> CHOOSE i \in I : r[i] = k]
<1>1. n \in Nat
  BY FS_CardinalityType
<1>2. ASSUME NEW i \in I
      PROVE  /\ IsFiniteSet(UpTo(i)) /\ Cardinality(UpTo(i)) \in 1 .. n
  <2>1. UpTo(i) \in SUBSET I /\ i \in UpTo(i)
    OBVIOUS
  <2> HIDE DEF UpTo
  <2>2. IsFiniteSet(UpTo(i)) /\ Cardinality(UpTo(i)) <= n
    BY <2>1, FS_Subset
  <2>3. Cardinality(UpTo(i)) \in Nat /\ Cardinality(UpTo(i)) # 0
    BY <2>1, <2>2, FS_CardinalityType, FS_EmptySet
  <2> QED BY <1>1, <2>2, <2>3
<1>3. ASSUME NEW i \in I, NEW j \in I, i < j
      PROVE  r[i] < r[j]
  <2>0. \A l \in I : l \in Nat
    OBVIOUS
  <2>1. UpTo(i) \in SUBSET UpTo(j) /\ j \in UpTo(j) /\ j \notin UpTo(i)
    <3>1. i \in Nat /\ j \in Nat
      BY <2>0
    <3>2. j \in UpTo(j) /\ j \notin UpTo(i)
      BY <1>3, <3>1
    <3>3. \A l \in UpTo(i) : l \in UpTo(j)
      BY <1>3, <2>0, <3>1
    <3> QED BY <3>2, <3>3
  <2>2. /\ r[i] = Cardinality(UpTo(i)) /\ r[j] = Cardinality(UpTo(j))
        /\ r[i] \in Nat /\ r[j] \in Nat
    BY <1>2
  <2> HIDE DEF UpTo, r
  <2>3. /\ Cardinality(UpTo(i)) <= Cardinality(UpTo(j))
        /\ Cardinality(UpTo(j)) = Cardinality(UpTo(i)) => UpTo(j) = UpTo(i)
    BY <1>2, <2>1, FS_Subset
  <2> QED BY <2>1, <2>2, <2>3
<1>4. r \in [I -> 1 .. n]
  BY <1>2
<1> HIDE DEF r
<1>5. r \in Injection(I, 1 .. n)
  <2>1. \A i, j \in I : i < j \/ j < i \/ i = j
    OBVIOUS
  <2>2. \A i \in I : r[i] \in Nat
    BY <1>1, <1>4
  <2>3. \A i, j \in I : r[i] = r[j] => i = j
    BY <1>3, <2>1, <2>2
  <2> QED BY <1>4, <2>3 DEF Injection, IsInjective
<1>6. r \in Surjection(I, 1 .. n)
  <2>1. IsFiniteSet(1 .. n) /\ Cardinality(1 .. n) = n
    BY <1>1, FS_Interval
  <2> QED BY <1>5, <2>1, FS_Injection
<1>7. \A k \in 1 .. n : \E i \in I : r[i] = k
  BY <1>6 DEF Surjection
<1>8. \A k \in 1 .. n : s[k] \in I /\ r[s[k]] = k
  BY <1>7
<1>9. s \in [1 .. n -> I]
  BY <1>8
<1>10. ASSUME NEW j \in 1 .. n, NEW k \in 1 .. n, j < k
       PROVE  s[j] < s[k]
  <2> HIDE DEF s
  <2>1. s[j] \in I /\ s[k] \in I /\ r[s[j]] = j /\ r[s[k]] = k
    BY <1>8
  <2>2. s[j] \in Nat /\ s[k] \in Nat
    BY <2>1
  <2>3. ASSUME s[k] < s[j]
        PROVE  FALSE
    <3>1. r[s[k]] < r[s[j]]
      BY <1>3, <2>1, <2>3
    <3> QED BY <1>1, <1>10, <2>1, <3>1
  <2>4. s[j] # s[k]
    BY <1>1, <1>10, <2>1
  <2> QED BY <2>2, <2>3, <2>4
<1>11. DOMAIN s = 1 .. n
  OBVIOUS
<1> HIDE DEF s
<1> QED BY <1>9, <1>10, <1>11

(* Such a list has everything in the set.                                  *)
LEMMA ListedWhole ==
    ASSUME NEW I \in SUBSET Nat, IsFiniteSet(I),
           NEW s \in [1 .. Cardinality(I) -> I],
           \A j, k \in DOMAIN s : j < k => s[j] < s[k]
    PROVE  /\ Cardinality(I) \in Nat
           /\ \A i \in I : \E k \in 1 .. Cardinality(I) : s[k] = i
<1> DEFINE n == Cardinality(I)
<1>1. n \in Nat
  BY FS_CardinalityType
<1>2. IsFiniteSet(1 .. n) /\ Cardinality(1 .. n) = n
  BY <1>1, FS_Interval
<1> HIDE DEF n
<1>3. s \in Injection(1 .. n, I)
  <2>1. \A j \in 1 .. n : s[j] \in Nat
    BY DEF n
  <2>2. ASSUME NEW j \in 1 .. n, NEW k \in 1 .. n, s[j] = s[k]
        PROVE  j = k
    <3>1. ~(j < k) /\ ~(k < j)
      BY <2>1, <2>2 DEF n
    <3> QED BY <1>1, <3>1
  <2> QED BY <2>2 DEF n, Injection, IsInjective
<1>4. s \in Surjection(1 .. n, I)
  BY <1>2, <1>3, FS_Injection DEF n
<1> QED BY <1>1, <1>4 DEF n, Surjection
=============================================================================
