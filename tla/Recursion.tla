------------------------------ MODULE Recursion ------------------------------
(***************************************************************************)
(* Induction and recursion over any set with a measure, folds over the     *)
(* places of a sequence, and sequences put together of others, as facts    *)
(* about sets and functions: what the recursive functions and the folds of *)
(* the models compute is proved from these.                                *)
(***************************************************************************)
EXTENDS Integers, SequencesExt, SequenceTheorems, WellFoundedInduction, TLAPS

(* A set of natural numbers has a least element.                            *)
LEMMA LeastElement ==
  ASSUME NEW T \in SUBSET Nat, T # {}
  PROVE  \E n \in T : \A m \in T : n <= m
  <1> DEFINE R == OpToRel(<, Nat)
  <1>1. IsWellFoundedOn(R, Nat)
    BY NatLessThanWellFounded
  <1>2. PICK n \in T : \A m \in T : <<m, n>> \notin R
    <2> HIDE DEF R
    <2> QED BY <1>1, WFMin
  <1>3. \A m \in T : ~(m < n)
    BY <1>2 DEF OpToRel
  <1> HIDE DEF R
  <1>4. \A m \in T : m \in Nat /\ n \in Nat
    OBVIOUS
  <1> QED BY <1>3, <1>4

(* T has each element of S whose smaller ones it has, by the measure m.     *)
IsInductive(S, m, T) ==
  /\ m \in [S -> Nat]
  /\ \A x \in S : (\A y \in S : m[y] < m[x] => y \in T) => x \in T

(* Then it has them all.                                                    *)
LEMMA MeasureInduction ==
  ASSUME NEW S, NEW m, NEW T, IsInductive(S, m, T)
  PROVE  S \subseteq T
  <1> USE DEF IsInductive
  <1> SUFFICES ASSUME NEW bad \in S, bad \notin T PROVE FALSE
    OBVIOUS
  <1> DEFINE Bad == {m[x] : x \in S \ T}
  <1>1. Bad \in SUBSET Nat /\ Bad # {}
    OBVIOUS
  <1>2. PICK n \in Bad : \A k \in Bad : n <= k
    BY <1>1, LeastElement
  <1>3. PICK x \in S \ T : n = m[x]
    OBVIOUS
  <1>4. ASSUME NEW y \in S, m[y] < m[x] PROVE y \in T
    <2>1. m[y] \in Nat /\ m[x] \in Nat
      OBVIOUS
    <2>2. ~(n <= m[y])
      BY <1>3, <1>4, <2>1
    <2>3. m[y] \notin Bad
      BY <1>2, <2>2
    <2> QED BY <2>3
  <1> QED BY <1>3, <1>4

(* Mathematical induction, for a set.                                       *)
LEMMA SetInduction ==
  ASSUME NEW T, 0 \in T, \A n \in Nat : n \in T => n + 1 \in T
  PROVE  Nat \subseteq T
  <1> DEFINE m == [n \in Nat |-> n]
  <1>1. \A x \in Nat : (\A y \in Nat : m[y] < m[x] => y \in T) => x \in T
    <2> SUFFICES ASSUME NEW x \in Nat, \A y \in Nat : y < x => y \in T PROVE x \in T
      OBVIOUS
    <2>1. CASE x = 0
      BY <2>1
    <2>2. CASE x # 0
      <3>1. x - 1 \in Nat /\ x - 1 < x /\ (x - 1) + 1 = x
        BY <2>2
      <3> QED BY <3>1
    <2> QED BY <2>1, <2>2
  <1>2. m \in [Nat -> Nat]
    OBVIOUS
  <1> HIDE DEF m
  <1> QED BY <1>1, <1>2, MeasureInduction DEF IsInductive

(***************************************************************************)
(* F defines the value at x, given a function f for the values at the      *)
(* elements of smaller measure.  Some function satisfies such a definition.*)
(***************************************************************************)
IsRecursion(S, V, m, F) ==
  /\ V # {}
  /\ m \in [S -> Nat]
  /\ F \in [S \X [S -> V] -> V]
  /\ \A x \in S : \A g, h \in [S -> V] :
       (\A y \in S : m[y] < m[x] => g[y] = h[y]) => F[<<x, g>>] = F[<<x, h>>]

(* A function that F defines exists.                                        *)
LEMMA RecursionExists ==
  ASSUME NEW S, NEW V, NEW m, NEW F, IsRecursion(S, V, m, F)
  PROVE  \E f \in [S -> V] : \A x \in S : f[x] = F[<<x, f>>]
  <1> USE DEF IsRecursion
  <1> PICK v0 \in V : TRUE
    OBVIOUS
  <1> DEFINE Good(n) == {g \in [S -> V] : \A x \in S : m[x] < n => g[x] = F[<<x, g>>]}
  <1>1. ASSUME NEW n \in Nat, NEW k \in Nat, NEW g \in Good(n), NEW h \in Good(k), n <= k
        PROVE  \A x \in S : m[x] < n => g[x] = h[x]
    <2> DEFINE T == {x \in S : m[x] < n => g[x] = h[x]}
    <2>1. ASSUME NEW x \in S, \A y \in S : m[y] < m[x] => y \in T PROVE x \in T
      <3> SUFFICES ASSUME m[x] < n PROVE g[x] = h[x]
        OBVIOUS
      <3>1. m[x] \in Nat /\ m[x] < k
        BY <1>1
      <3>2. ASSUME NEW y \in S, m[y] < m[x] PROVE g[y] = h[y]
        <4>1. m[y] \in Nat /\ m[y] < n
          BY <3>1, <3>2
        <4> QED BY <2>1, <3>2, <4>1
      <3>3. g \in [S -> V] /\ h \in [S -> V] /\ g[x] = F[<<x, g>>] /\ h[x] = F[<<x, h>>]
        BY <3>1
      <3>4. F[<<x, g>>] = F[<<x, h>>]
        BY <3>2, <3>3
      <3> QED BY <3>3, <3>4
    <2> HIDE DEF T
    <2>2. S \subseteq T
      BY <2>1, MeasureInduction DEF IsInductive
    <2> QED BY <2>2 DEF T
  <1>2. \A n \in Nat : Good(n) # {}
    <2> DEFINE T == {n \in Nat : Good(n) # {}}
    <2>1. 0 \in T
      <3> DEFINE g == [x \in S |-> v0]
      <3>1. g \in [S -> V] /\ \A x \in S : ~(m[x] < 0)
        OBVIOUS
      <3>2. g \in Good(0)
        BY <3>1
      <3> QED BY <3>2
    <2>2. ASSUME NEW n \in Nat, n \in T PROVE n + 1 \in T
      <3>1. PICK g : g \in Good(n)
        BY <2>2
      <3>2. g \in [S -> V]
        BY <3>1
      <3> DEFINE h == [x \in S |-> IF m[x] = n THEN F[<<x, g>>] ELSE g[x]]
      <3>3. h \in [S -> V]
        <4> SUFFICES ASSUME NEW x \in S PROVE F[<<x, g>>] \in V /\ g[x] \in V
          OBVIOUS
        <4> QED BY <3>2
      <3>4. ASSUME NEW x \in S, m[x] < n + 1 PROVE h[x] = F[<<x, h>>]
        <4>1. m[x] \in Nat /\ (m[x] = n \/ m[x] < n)
          BY <3>4
        <4>2. \A y \in S : m[y] < m[x] => g[y] = h[y]
          <5> SUFFICES ASSUME NEW y \in S, m[y] < m[x] PROVE g[y] = h[y]
            OBVIOUS
          <5>1. m[y] \in Nat /\ m[y] # n
            BY <4>1
          <5> QED BY <5>1
        <4>3. F[<<x, g>>] = F[<<x, h>>]
          BY <3>2, <3>3, <4>2
        <4>4. CASE m[x] = n
          BY <4>3, <4>4
        <4>5. CASE m[x] < n
          <5>1. g[x] = F[<<x, g>>]
            BY <3>1, <4>5
          <5>2. m[x] # n
            BY <4>1, <4>5
          <5> QED BY <4>3, <5>1, <5>2
        <4> QED BY <4>1, <4>4, <4>5
      <3>5. h \in Good(n + 1)
        <4> HIDE DEF h
        <4> QED BY <3>3, <3>4
      <3>6. n + 1 \in Nat
        OBVIOUS
      <3> HIDE DEF h, Good
      <3> QED BY <3>5, <3>6
    <2> HIDE DEF T
    <2>3. Nat \subseteq T
      BY <2>1, <2>2, SetInduction
    <2> QED BY <2>3 DEF T
  <1> DEFINE At(x) == CHOOSE g : g \in Good(m[x] + 1)
             f == [x \in S |-> At(x)[x]]
  <1> HIDE DEF Good
  <1>3. ASSUME NEW x \in S PROVE At(x) \in Good(m[x] + 1)
    <2>1. m[x] + 1 \in Nat
      OBVIOUS
    <2> QED BY <1>2, <2>1
  <1>4. ASSUME NEW x \in S, NEW y \in S, m[y] < m[x] PROVE At(y)[y] = At(x)[y]
    <2>1. m[x] \in Nat /\ m[y] \in Nat
      OBVIOUS
    <2>2. m[y] + 1 \in Nat /\ m[x] + 1 \in Nat /\ m[y] + 1 <= m[x] + 1 /\ m[y] < m[y] + 1
      BY <1>4, <2>1
    <2>3. At(y) \in Good(m[y] + 1) /\ At(x) \in Good(m[x] + 1)
      BY <1>3
    <2> HIDE DEF At
    <2> QED BY <1>1, <2>2, <2>3
  <1> HIDE DEF At
  <1>5. ASSUME NEW x \in S PROVE /\ At(x) \in [S -> V]
                                 /\ At(x)[x] = F[<<x, At(x)>>]
    <2>1. m[x] \in Nat /\ m[x] < m[x] + 1
      OBVIOUS
    <2>2. At(x) \in Good(m[x] + 1)
      BY <1>3
    <2> QED BY <2>1, <2>2 DEF Good
  <1>6. f \in [S -> V]
    BY <1>5
  <1>7. ASSUME NEW x \in S PROVE f[x] = F[<<x, f>>]
    <2>1. \A y \in S : m[y] < m[x] => f[y] = At(x)[y]
      BY <1>4
    <2>2. F[<<x, f>>] = F[<<x, At(x)>>]
      <3>1. At(x) \in [S -> V]
        BY <1>5
      <3> HIDE DEF f
      <3> QED BY <1>6, <2>1, <3>1
    <2>3. f[x] = At(x)[x]
      OBVIOUS
    <2> HIDE DEF f
    <2> QED BY <1>5, <2>2, <2>3
  <1> HIDE DEF f
  <1> QED BY <1>6, <1>7
-----------------------------------------------------------------------------
(* The largest of some places of a sequence of length n.                    *)
LEMMA LargestPlace ==
  ASSUME NEW n \in Nat, NEW T \in SUBSET (1..n), T # {}
  PROVE  Max(T) \in T /\ \A x \in T : x <= Max(T)
  <1> DEFINE Left == {n - x : x \in T}
  <1>1. Left \in SUBSET Nat /\ Left # {}
    <2>1. \A x \in T : n - x \in Nat
      OBVIOUS
    <2> QED BY <2>1
  <1>2. PICK d \in Left : \A e \in Left : d <= e
    <2> HIDE DEF Left
    <2> QED BY <1>1, LeastElement
  <1>3. PICK x \in T : d = n - x
    OBVIOUS
  <1>4. \A y \in T : x >= y
    <2> SUFFICES ASSUME NEW y \in T PROVE x >= y
      OBVIOUS
    <2>1. n - x <= n - y
      BY <1>2, <1>3
    <2> QED BY <2>1
  <1>5. Max(T) \in T /\ \A y \in T : Max(T) >= y
    BY <1>4, Zenon DEF Max
  <1> QED BY <1>5

(* Of the first k places the largest is k, and the others are the first k-1.*)
LEMMA FirstPlaces ==
  ASSUME NEW n \in Nat, NEW k \in 1..n
  PROVE  /\ (1..k) \in SUBSET (1..n) /\ (1..k) # {}
         /\ Max(1..k) = k /\ (1..k) \ {Max(1..k)} = 1..(k - 1)
  <1> DEFINE S == 1..k
  <1>1. S \in SUBSET (1..n) /\ S # {} /\ k \in S /\ S \ {k} = 1..(k - 1)
    OBVIOUS
  <1>2. \A x \in S : x <= k /\ x \in Nat
    OBVIOUS
  <1> HIDE DEF S
  <1>3. Max(S) \in S /\ \A x \in S : x <= Max(S)
    BY <1>1, LargestPlace
  <1>4. Max(S) = k
    BY <1>1, <1>3, <1>2
  <1>5. S \ {Max(S)} = 1..(k - 1)
    BY <1>1, <1>4, Zenon
  <1> QED BY <1>1, <1>4, <1>5, Zenon DEF S

(***************************************************************************)
(* What the folds of the models compute, they compute over the sets of     *)
(* places of a sequence, taking the largest first: f folds by F.           *)
(***************************************************************************)
Foldable(n, V, base, F) == n \in Nat /\ base \in V /\ F \in [(1..n) \X V -> V]

FoldsBy(f, n, V, base, F) ==
  /\ f \in [SUBSET (1..n) -> V]
  /\ \A T \in SUBSET (1..n) :
       f[T] = IF T = {} THEN base ELSE F[<<Max(T), f[T \ {Max(T)}]>>]

(* There is such a function.                                                *)
LEMMA FoldExists ==
  ASSUME NEW n, NEW V, NEW base, NEW F, Foldable(n, V, base, F)
  PROVE  \E f : FoldsBy(f, n, V, base, F)
  <1> USE DEF Foldable
  <1> DEFINE S == SUBSET (1..n)
             m == [T \in S |-> IF T = {} THEN 0 ELSE Max(T)]
             Body(T, it) == IF T = {} THEN base ELSE F[<<Max(T), it[T \ {Max(T)}]>>]
             G == [x \in S \X [S -> V] |-> Body(x[1], x[2])]
  <1>1. ASSUME NEW T \in S, T # {}
        PROVE  /\ Max(T) \in 1..n /\ T \ {Max(T)} \in S
               /\ m[T \ {Max(T)}] < m[T]
    <2>1. Max(T) \in T /\ \A x \in T : x <= Max(T)
      BY <1>1, LargestPlace
    <2>2. T \ {Max(T)} \in S /\ Max(T) \in 1..n
      BY <2>1
    <2>3. CASE T \ {Max(T)} = {}
      BY <1>1, <2>2, <2>3
    <2>4. CASE T \ {Max(T)} # {}
      <3> DEFINE U == T \ {Max(T)}
      <3>1. Max(U) \in U
        BY <2>2, <2>4, LargestPlace
      <3>2. Max(U) \in 1..n /\ Max(U) <= Max(T) /\ Max(U) # Max(T)
        BY <2>1, <3>1
      <3>3. m[U] = Max(U) /\ m[T] = Max(T)
        BY <1>1, <2>2, <2>4
      <3> HIDE DEF m, U
      <3>4. m[U] < m[T]
        BY <2>2, <3>2, <3>3
      <3> QED BY <2>2, <3>4 DEF U
    <2> QED BY <2>2, <2>3, <2>4
  <1>2. m \in [S -> Nat]
    <2>1. ASSUME NEW T \in S PROVE (IF T = {} THEN 0 ELSE Max(T)) \in Nat
      <3>1. T # {} => Max(T) \in 1..n
        BY <1>1
      <3> QED BY <3>1
    <2> QED BY <2>1
  <1>3. \A T \in S : \A it \in [S -> V] : Body(T, it) \in V
    <2> SUFFICES ASSUME NEW T \in S, NEW it \in [S -> V], T # {}
                 PROVE  F[<<Max(T), it[T \ {Max(T)}]>>] \in V
      OBVIOUS
    <2>1. Max(T) \in 1..n /\ T \ {Max(T)} \in S
      BY <1>1
    <2>2. it[T \ {Max(T)}] \in V
      BY <2>1
    <2> QED BY <2>1, <2>2
  <1>4. ASSUME NEW T \in S, NEW g \in [S -> V], NEW h \in [S -> V],
               \A U \in S : m[U] < m[T] => g[U] = h[U]
        PROVE  Body(T, g) = Body(T, h)
    <2>1. T # {} => g[T \ {Max(T)}] = h[T \ {Max(T)}]
      <3> SUFFICES ASSUME T # {} PROVE g[T \ {Max(T)}] = h[T \ {Max(T)}]
        OBVIOUS
      <3>1. T \ {Max(T)} \in S /\ m[T \ {Max(T)}] < m[T]
        BY <1>1
      <3> HIDE DEF m, S
      <3> QED BY <1>4, <3>1
    <2> QED BY <2>1
  <1>5. S \X [S -> V] = S \X [S -> V] /\ V # {}
    OBVIOUS
  <1> HIDE DEF S, m, Body
  <1>6. \A T \in S : \A it \in [S -> V] : G[<<T, it>>] = Body(T, it)
    OBVIOUS
  <1>7. G \in [S \X [S -> V] -> V]
    BY <1>3
  <1> HIDE DEF G
  <1>8. \A T \in S : \A g, h \in [S -> V] :
          (\A U \in S : m[U] < m[T] => g[U] = h[U]) => G[<<T, g>>] = G[<<T, h>>]
    BY <1>4, <1>6
  <1>9. \E it \in [S -> V] : \A T \in S : it[T] = G[<<T, it>>]
    <2>1. IsRecursion(S, V, m, G)
      BY <1>2, <1>5, <1>7, <1>8 DEF IsRecursion
    <2> QED BY <2>1, RecursionExists
  <1>10. \E it \in [S -> V] : \A T \in S : it[T] = Body(T, it)
    BY <1>6, <1>9
  <1> QED BY <1>10 DEF S, Body, FoldsBy

-----------------------------------------------------------------------------
(***************************************************************************)
(* Sequences: the one that FlattenSeq() makes of several, and its parts.   *)
(***************************************************************************)

IsFlattening(f, ss) == f = [i \in 1..Len(ss) |-> IF i = 1 THEN ss[i] ELSE f[i - 1] \o ss[i]]

(* FlattenSeq is defined by a function that exists for sequences of         *)
(* sequences.                                                               *)
LEMMA FlatteningExists ==
  ASSUME NEW S, NEW ss \in Seq(Seq(S))
  PROVE  \E f \in [1..Len(ss) -> Seq(S)] : IsFlattening(f, ss)
  <1> DEFINE X == Seq(S)
             D == 1..Len(ss)
             m == [i \in D |-> i]
             Body(i, f) == IF i = 1 THEN ss[i] ELSE f[i - 1] \o ss[i]
             F == [p \in D \X [D -> X] |-> Body(p[1], p[2])]
  <1>1. \A a, b \in X : a \o b \in X
    OBVIOUS
  <1>2. <<>> \in X
    OBVIOUS
  <1>3. ss \in Seq(X) /\ Len(ss) \in Nat
    OBVIOUS
  <1> HIDE DEF X
  <1>4. \A i \in D : ss[i] \in X /\ (i # 1 => i - 1 \in D /\ i - 1 < i) /\ i \in Nat
    BY <1>3
  <1>5. \A i \in D : \A f \in [D -> X] : Body(i, f) \in X
    BY <1>1, <1>4
  <1>6. \A i \in D : \A f, g \in [D -> X] :
          (\A k \in D : m[k] < m[i] => f[k] = g[k]) => Body(i, f) = Body(i, g)
    BY <1>4
  <1>7. \A i \in D : \A f \in [D -> X] : F[<<i, f>>] = Body(i, f)
    OBVIOUS
  <1>8. F \in [D \X [D -> X] -> X] /\ m \in [D -> Nat]
    <2> HIDE DEF D, Body
    <2>1. \A p \in D \X [D -> X] : p[1] \in D /\ p[2] \in [D -> X]
      OBVIOUS
    <2>2. \A p \in D \X [D -> X] : Body(p[1], p[2]) \in X
      BY <1>5, <2>1
    <2> QED BY <1>4, <2>2
  <1> HIDE DEF F, Body, m, D
  <1>9. IsRecursion(D, X, m, F)
    <2>1. \A i \in D : \A f, g \in [D -> X] :
            (\A k \in D : m[k] < m[i] => f[k] = g[k]) => F[<<i, f>>] = F[<<i, g>>]
      BY <1>6, <1>7
    <2> QED BY <1>2, <1>8, <2>1 DEF IsRecursion
  <1>10. PICK f \in [D -> X] : \A i \in D : f[i] = F[<<i, f>>]
    BY <1>9, RecursionExists
  <1>11. \A i \in D : f[i] = Body(i, f)
    BY <1>7, <1>10
  <1>12. f = [i \in D |-> Body(i, f)]
    BY <1>11
  <1>13. IsFlattening(f, ss)
    BY <1>12 DEF Body, D, IsFlattening
  <1> QED BY <1>13 DEF D, X

LEMMA FlattenSeqHas ==
  ASSUME NEW S, NEW ss \in Seq(Seq(S)), ss # <<>>
  PROVE  \E f : IsFlattening(f, ss) /\ FlattenSeq(ss) = f[Len(ss)]
  <1> DEFINE f == CHOOSE f : f = [i \in 1..Len(ss) |-> IF i = 1 THEN ss[i] ELSE f[i - 1] \o ss[i]]
  <1>1. f = [i \in 1..Len(ss) |-> IF i = 1 THEN ss[i] ELSE f[i - 1] \o ss[i]]
    <2>1. \E g : g = [i \in 1..Len(ss) |-> IF i = 1 THEN ss[i] ELSE g[i - 1] \o ss[i]]
      <3>1. PICK g \in [1..Len(ss) -> Seq(S)] : IsFlattening(g, ss)
        BY FlatteningExists
      <3>2. g = [i \in 1..Len(ss) |-> IF i = 1 THEN ss[i] ELSE g[i - 1] \o ss[i]]
        BY <3>1, Zenon DEF IsFlattening
      <3> QED BY <3>2, Zenon
    <2> QED BY <2>1, Zenon
  <1>2. Len(ss) # 0
    OBVIOUS
  <1>3. FlattenSeq(ss) = f[Len(ss)]
    BY <1>2, Zenon DEF FlattenSeq
  <1> QED BY <1>1, <1>3 DEF IsFlattening

LEMMA FlatteningValues ==
  ASSUME NEW S, NEW ss \in Seq(Seq(S)), NEW f, IsFlattening(f, ss)
  PROVE  \A i \in 1..Len(ss) : /\ f[i] = IF i = 1 THEN ss[i] ELSE f[i - 1] \o ss[i]
                               /\ f[i] \in Seq(S)
  <1> DEFINE X == Seq(S)
             T == {n \in Nat : \A i \in 1..Len(ss) : i <= n => f[i] \in X}
  <1>1. \A a, b \in X : a \o b \in X
    OBVIOUS
  <1>2. ss \in Seq(X) /\ Len(ss) \in Nat
    OBVIOUS
  <1>3. \A i \in 1..Len(ss) : f[i] = IF i = 1 THEN ss[i] ELSE f[i - 1] \o ss[i]
    BY DEF IsFlattening
  <1> HIDE DEF X
  <1>4. 0 \in T
    OBVIOUS
  <1>5. ASSUME NEW n \in Nat, n \in T PROVE n + 1 \in T
    <2>1. ASSUME NEW i \in 1..Len(ss), i = n + 1 PROVE f[i] \in X
      <3>1. ss[i] \in X
        BY <1>2
      <3>2. CASE i = 1
        BY <1>3, <3>1, <3>2
      <3>3. CASE i # 1
        <4>1. i - 1 \in 1..Len(ss) /\ i - 1 <= n
          BY <1>2, <2>1, <3>3
        <4> QED BY <1>1, <1>3, <1>5, <3>1, <3>3, <4>1
      <3> QED BY <3>2, <3>3
    <2>2. \A i \in 1..Len(ss) : i <= n + 1 => i <= n \/ i = n + 1
      BY <1>2
    <2> QED BY <1>5, <2>1, <2>2
  <1>6. Nat \subseteq T
    BY <1>4, <1>5, SetInduction
  <1>7. Len(ss) \in T
    BY <1>2, <1>6
  <1>8. \A i \in 1..Len(ss) : i <= Len(ss)
    BY <1>2
  <1> QED BY <1>3, <1>7, <1>8 DEF X

(* One more sequence at the end.                                            *)
LEMMA FlattenAppend ==
  ASSUME NEW S, NEW ss \in Seq(Seq(S)), NEW s \in Seq(S)
  PROVE  /\ FlattenSeq(ss) \in Seq(S)
         /\ FlattenSeq(Append(ss, s)) = FlattenSeq(ss) \o s
  <1> DEFINE X == Seq(S)
             tt == Append(ss, s)
             n == Len(ss)
  <1>1. FlattenSeq(ss) \in Seq(S)
    <2>1. CASE ss = <<>>
      BY <2>1 DEF FlattenSeq
    <2>2. CASE ss # <<>>
      <3>1. Len(ss) \in 1..Len(ss)
        BY <2>2
      <3> QED BY <2>2, <3>1, FlattenSeqHas, FlatteningValues
    <2> QED BY <2>1, <2>2
  <1>2. ss \in Seq(X) /\ s \in X
    OBVIOUS
  <1>3. <<>> \o s = s
    OBVIOUS
  <1> HIDE DEF X
  <1>4. /\ tt \in Seq(X) /\ Len(tt) = n + 1 /\ n \in Nat /\ tt # <<>>
        /\ tt[n + 1] = s /\ \A i \in 1..n : tt[i] = ss[i]
    BY <1>2
  <1> HIDE DEF tt, n
  <1>5. PICK g : IsFlattening(g, tt) /\ FlattenSeq(tt) = g[n + 1]
    BY <1>4, FlattenSeqHas DEF X
  <1>6. \A i \in 1..(n + 1) : g[i] = IF i = 1 THEN tt[i] ELSE g[i - 1] \o tt[i]
    <2>1. tt \in Seq(Seq(S)) /\ IsFlattening(g, tt) /\ Len(tt) = n + 1
      BY <1>4, <1>5 DEF X
    <2>2. \A i \in 1..Len(tt) : /\ g[i] = IF i = 1 THEN tt[i] ELSE g[i - 1] \o tt[i]
                                /\ g[i] \in Seq(S)
      <3> HIDE DEF IsFlattening
      <3> QED BY <2>1, FlatteningValues, Zenon
    <2> QED BY <2>1, <2>2
  <1>7. CASE n = 0
    <2>1. FlattenSeq(ss) = <<>>
      BY <1>2, <1>7 DEF FlattenSeq, n
    <2> QED BY <1>1, <1>3, <1>4, <1>5, <1>6, <1>7, <2>1 DEF tt
  <1>8. CASE n # 0
    <2>1. ss # <<>>
      BY <1>2, <1>8 DEF n
    <2>2. PICK f : IsFlattening(f, ss) /\ FlattenSeq(ss) = f[n]
      BY <2>1, FlattenSeqHas DEF n
    <2>3. \A i \in 1..n : f[i] = IF i = 1 THEN ss[i] ELSE f[i - 1] \o ss[i]
      BY <2>2, FlatteningValues DEF n
    <2> DEFINE T == {k \in Nat : \A i \in 1..n : i <= k => f[i] = g[i]}
    <2>4. 0 \in T
      OBVIOUS
    <2>5. ASSUME NEW k \in Nat, k \in T PROVE k + 1 \in T
      <3>1. ASSUME NEW i \in 1..n, i = k + 1 PROVE f[i] = g[i]
        <4>1. i \in 1..(n + 1) /\ tt[i] = ss[i]
          BY <1>4
        <4>2. i # 1 => i - 1 \in 1..n /\ i - 1 <= k
          BY <1>4, <3>1
        <4> QED BY <1>6, <2>3, <2>5, <4>1, <4>2
      <3>2. \A i \in 1..n : i <= k + 1 => i <= k \/ i = k + 1
        BY <1>4
      <3> QED BY <2>5, <3>1, <3>2
    <2>6. Nat \subseteq T
      BY <2>4, <2>5, SetInduction
    <2>7. f[n] = g[n]
      <3>1. n \in Nat /\ n \in 1..n /\ n <= n
        BY <1>4, <1>8
      <3>2. n \in T
        BY <2>6, <3>1
      <3> QED BY <3>1, <3>2
    <2>8. n + 1 \in 1..(n + 1) /\ n + 1 # 1 /\ (n + 1) - 1 = n
      BY <1>4, <1>8
    <2> QED BY <1>1, <1>4, <1>5, <1>6, <2>2, <2>7, <2>8 DEF tt
  <1> QED BY <1>7, <1>8

(* Induction over sequences, for a set.                                     *)
LEMMA SequenceInduction ==
  ASSUME NEW S, NEW T, <<>> \in T,
         \A s \in Seq(S) : \A e \in S : s \in T => Append(s, e) \in T
  PROVE  Seq(S) \subseteq T
  <1> DEFINE N == {n \in Nat : \A s \in Seq(S) : Len(s) = n => s \in T}
  <1>1. 0 \in N
    <2>1. \A s \in Seq(S) : Len(s) = 0 => s = <<>>
      OBVIOUS
    <2> QED BY <2>1
  <1>2. ASSUME NEW n \in Nat, n \in N PROVE n + 1 \in N
    <2>1. ASSUME NEW s \in Seq(S), Len(s) = n + 1 PROVE s \in T
      <3>1. s # <<>>
        BY <2>1
      <3>2. PICK t \in Seq(S), e \in S : s = Append(t, e)
        BY <3>1, SequenceEmptyOrAppend
      <3>3. Len(t) = n
        BY <2>1, <3>2
      <3> QED BY <1>2, <3>2, <3>3
    <2> QED BY <2>1
  <1>3. Nat \subseteq N
    BY <1>1, <1>2, SetInduction
  <1>4. \A s \in Seq(S) : Len(s) \in Nat
    OBVIOUS
  <1> QED BY <1>3, <1>4

-----------------------------------------------------------------------------
(* The sequences that g gives for the elements of s, one after another.     *)
Images(s, g)  == [i \in DOMAIN s |-> g[s[i]]]
FlatMap(s, g) == FlattenSeq(Images(s, g))

LEMMA ImagesType ==
  ASSUME NEW S, NEW X, NEW g \in [S -> X], NEW s \in Seq(S)
  PROVE  /\ Images(s, g) \in Seq(X) /\ Len(Images(s, g)) = Len(s)
         /\ \A i \in 1..Len(s) : Images(s, g)[i] = g[s[i]]
  BY DEF Images

LEMMA ImagesAppend ==
  ASSUME NEW S, NEW X, NEW g \in [S -> X], NEW s \in Seq(S), NEW e \in S
  PROVE  Images(Append(s, e), g) = Append(Images(s, g), g[e])
  <1>1. \A t \in Seq(S) : /\ Images(t, g) \in Seq(X) /\ Len(Images(t, g)) = Len(t)
                          /\ \A i \in 1..Len(t) : Images(t, g)[i] = g[t[i]]
    BY DEF Images
  <1> DEFINE t == Append(s, e)
             a == Images(t, g)
             b == Append(Images(s, g), g[e])
  <1>2. /\ t \in Seq(S) /\ Len(t) = Len(s) + 1 /\ Len(s) \in Nat
        /\ t[Len(s) + 1] = e /\ \A i \in 1..Len(s) : t[i] = s[i]
    OBVIOUS
  <1> HIDE DEF t
  <1>3. a \in Seq(X) /\ Len(a) = Len(s) + 1 /\ \A i \in 1..(Len(s) + 1) : a[i] = g[t[i]]
    BY <1>1, <1>2
  <1>4. /\ b \in Seq(X) /\ Len(b) = Len(s) + 1 /\ b[Len(s) + 1] = g[e]
        /\ \A i \in 1..Len(s) : b[i] = g[s[i]]
    BY <1>1
  <1>5. \A i \in 1..(Len(s) + 1) : a[i] = b[i]
    BY <1>2, <1>3, <1>4
  <1>6. a = b
    BY <1>3, <1>4, <1>5, SeqEqual
  <1> QED BY <1>1, <1>6 DEF t

LEMMA FlatMapNone ==
  ASSUME NEW g
  PROVE  FlatMap(<<>>, g) = <<>> /\ <<>> \o <<>> = <<>>
  <1>1. DOMAIN <<>> = {}
    OBVIOUS
  <1>2. Images(<<>>, g) = <<>> /\ Len(<<>>) = 0
    BY <1>1 DEF Images
  <1> QED BY <1>2 DEF FlatMap, FlattenSeq

LEMMA FlatMapType ==
  ASSUME NEW S, NEW R, NEW g \in [S -> Seq(R)], NEW s \in Seq(S)
  PROVE  FlatMap(s, g) \in Seq(R)
  <1> DEFINE X == Seq(R)
  <1>1. g \in [S -> X]
    OBVIOUS
  <1> HIDE DEF X
  <1>2. Images(s, g) \in Seq(X)
    BY <1>1, ImagesType
  <1>3. <<>> \in Seq(R)
    OBVIOUS
  <1> QED BY <1>2, <1>3, FlattenAppend DEF FlatMap, X

LEMMA FlatMapAppend ==
  ASSUME NEW S, NEW R, NEW g \in [S -> Seq(R)], NEW s \in Seq(S), NEW e \in S
  PROVE  FlatMap(Append(s, e), g) = FlatMap(s, g) \o g[e]
  <1> DEFINE X == Seq(R)
  <1>1. g \in [S -> X]
    OBVIOUS
  <1> HIDE DEF X
  <1>2. Images(s, g) \in Seq(X) /\ g[e] \in X
    BY <1>1, ImagesType
  <1>3. Images(Append(s, e), g) = Append(Images(s, g), g[e])
    BY <1>1, ImagesAppend, Zenon
  <1> QED BY <1>2, <1>3, FlattenAppend DEF FlatMap, X

LEMMA FlatMapOne ==
  ASSUME NEW S, NEW R, NEW g \in [S -> Seq(R)], NEW e \in S
  PROVE  FlatMap(<<e>>, g) = g[e]
  <1>1. <<>> \in Seq(S) /\ <<e>> = Append(<<>>, e) /\ <<>> \o g[e] = g[e]
    OBVIOUS
  <1>2. FlatMap(Append(<<>>, e), g) = FlatMap(<<>>, g) \o g[e]
    BY <1>1, FlatMapAppend, Zenon
  <1> QED BY <1>1, <1>2, FlatMapNone

LEMMA FlatMapConcat ==
  ASSUME NEW S, NEW R, NEW g \in [S -> Seq(R)], NEW s \in Seq(S), NEW t \in Seq(S)
  PROVE  FlatMap(s \o t, g) = FlatMap(s, g) \o FlatMap(t, g)
  <1> DEFINE T == {u \in Seq(S) : FlatMap(s \o u, g) = FlatMap(s, g) \o FlatMap(u, g)}
  <1>1. <<>> \in T
    <2>1. CASE S = {}
      <3>1. s = <<>>
        BY <2>1
      <3> QED BY <3>1, FlatMapNone
    <2>2. ASSUME NEW e \in S PROVE <<>> \in T
      <3>1. FlatMap(s, g) \in Seq(R) /\ FlatMap(<<>>, g) = <<>>
        BY FlatMapType, FlatMapNone
      <3>2. FlatMap(s, g) \o <<>> = FlatMap(s, g) /\ s \o <<>> = s
        BY <3>1
      <3> QED BY <3>1, <3>2
    <2> QED BY <2>1, <2>2
  <1>2. ASSUME NEW u \in Seq(S), NEW e \in S, u \in T PROVE Append(u, e) \in T
    <2>1. s \o Append(u, e) = Append(s \o u, e) /\ s \o u \in Seq(S)
      OBVIOUS
    <2>2. /\ FlatMap(Append(s \o u, e), g) = FlatMap(s \o u, g) \o g[e]
          /\ FlatMap(Append(u, e), g) = FlatMap(u, g) \o g[e]
      <3> HIDE DEF T
      <3> QED BY <2>1, FlatMapAppend, Zenon
    <2>3. FlatMap(s, g) \in Seq(R) /\ FlatMap(u, g) \in Seq(R) /\ g[e] \in Seq(R)
      BY FlatMapType
    <2>4. (FlatMap(s, g) \o FlatMap(u, g)) \o g[e] = FlatMap(s, g) \o (FlatMap(u, g) \o g[e])
      BY <2>3, ConcatAssociative
    <2>5. FlatMap(s \o u, g) = FlatMap(s, g) \o FlatMap(u, g)
      BY <1>2
    <2>6. FlatMap(s \o Append(u, e), g) = FlatMap(s, g) \o FlatMap(Append(u, e), g)
      BY <2>1, <2>2, <2>4, <2>5
    <2> QED BY <2>6
  <1>3. Seq(S) \subseteq T
    BY <1>1, <1>2, SequenceInduction
  <1> QED BY <1>3

LEMMA Singleton ==
  ASSUME NEW X, NEW x \in X
  PROVE  <<x>> \in Seq(X) /\ Len(<<x>>) = 1 /\ <<x>>[1] = x
  OBVIOUS

LEMMA SeqElements ==
  ASSUME NEW X, NEW s \in Seq(X)
  PROVE  /\ \A i \in DOMAIN s : s[i] \in X
         /\ s # <<>> => s[1] \in X
         /\ Len(s) = 1 => s = <<s[1]>>
  OBVIOUS

(* The first elements of a sequence.                                        *)
LEMMA Fronts ==
  ASSUME NEW X, NEW s \in Seq(X), NEW k \in 0..Len(s)
  PROVE  /\ SubSeq(s, 1, k) \in Seq(X) /\ Len(SubSeq(s, 1, k)) = k
         /\ \A i \in 1..k : SubSeq(s, 1, k)[i] = s[i]
         /\ k > 0 => s[k] \in X /\ SubSeq(s, 1, k) = SubSeq(s, 1, k - 1) \o <<s[k]>>
         /\ k = 0 => SubSeq(s, 1, k) = <<>>
         /\ k = Len(s) => SubSeq(s, 1, k) = s
  <1> DEFINE t == SubSeq(s, 1, k)
  <1>1. k \in Int /\ 1 \in Int /\ Len(s) \in Nat /\ \A i \in 1..k : s[i] \in X
    OBVIOUS
  <1>2. /\ t \in Seq(X) /\ Len(t) = IF 1 <= k THEN k - 1 + 1 ELSE 0
        /\ \A i \in 1..(k - 1 + 1) : t[i] = s[1 + i - 1]
    BY <1>1, SubSeqProperties
  <1> HIDE DEF t
  <1>3. Len(t) = k /\ \A i \in 1..k : t[i] = s[i]
    BY <1>1, <1>2
  <1>4. ASSUME k > 0 PROVE s[k] \in X /\ t = SubSeq(s, 1, k - 1) \o <<s[k]>>
    <2>1. 1 \in 1..Len(s) /\ k \in 1..Len(s)
      BY <1>1, <1>4
    <2> QED BY <2>1, SubSeqRecursiveSecond DEF t
  <1>5. k = 0 => t = <<>>
    BY SubSeqEmpty DEF t
  <1>6. k = Len(s) => t = s
    BY SubSeqFull DEF t
  <1> QED BY <1>2, <1>3, <1>4, <1>5, <1>6 DEF t

LEMMA Joined ==
  ASSUME NEW X, NEW s \in Seq(X), NEW t \in Seq(X), NEW u \in Seq(X)
  PROVE  /\ s \o t \in Seq(X) /\ Len(s \o t) = Len(s) + Len(t)
         /\ Len(s) \in Nat /\ Len(t) \in Nat
         /\ s \o <<>> = s /\ <<>> \o s = s
         /\ (s \o t) \o u = s \o (t \o u)
  BY ConcatProperties, ConcatEmptySeq, ConcatAssociative, LenProperties

LEMMA Associates ==
  ASSUME NEW X
  PROVE  \A s, t, u \in Seq(X) : (s \o t) \o u = s \o (t \o u)
  BY ConcatAssociative

LEMMA LastJoined ==
  ASSUME NEW X, NEW w \in Seq(X), NEW l \in Seq(X), Len(l) = 1
  PROVE  /\ w \o l \in Seq(X) /\ Len(w \o l) = Len(w) + 1
         /\ (w \o l)[Len(w) + 1] = l[1]
  <1>0. w \o l \in Seq(X) /\ Len(w \o l) = Len(w) + Len(l) /\ Len(w) \in Nat
    BY ONLY w \in Seq(X), l \in Seq(X), ConcatProperties
  <1>1. \A i \in 1..(Len(w) + Len(l)) :
          (w \o l)[i] = IF i <= Len(w) THEN w[i] ELSE l[i - Len(w)]
    BY ONLY w \in Seq(X), l \in Seq(X), ConcatProperties
  <1>2. /\ Len(w) + 1 \in 1..(Len(w) + Len(l)) /\ ~(Len(w) + 1 <= Len(w))
        /\ (Len(w) + 1) - Len(w) = 1
    BY <1>0
  <1> QED BY <1>0, <1>1, <1>2
=============================================================================
