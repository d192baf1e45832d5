--------------------------- MODULE DbTableProofs -----------------------------
(***************************************************************************)
(* What the C library's qsort() and bsearch() compute with the comparison  *)
(* of the subscriber table, for every array: the recursion of each is      *)
(* unfolded with Recursion, and the rest is induction over the size of     *)
(* what is left to merge, to sort or to search.                            *)
(***************************************************************************)
EXTENDS DbTable, Recursion, FiniteSetTheorems, TLAPS

Pairs == Seq(Entry) \X Seq(Entry)

(* The body of Merge.                                                       *)
MergeStep(p, f) ==
  LET a == p[1]
      b == p[2]
  IN  IF a = <<>> \/ b = <<>> THEN a \o b
      ELSE IF Compare(Head(a).number, Head(b).number) <= 0
           THEN <<Head(a)>> \o f[<<Tail(a), b>>]
           ELSE <<Head(b)>> \o f[<<a, Tail(b)>>]

PairSize == [p \in Pairs |-> Len(p[1]) + Len(p[2])]

(* The measure of a merge: what is left of both halves.                     *)
LEMMA PairsAreTuples ==
  /\ \A p \in Pairs : \E a, b \in Seq(Entry) : p = <<a, b>>
  /\ \A a, b \in Seq(Entry) : <<a, b>> \in Pairs /\ PairSize[<<a, b>>] = Len(a) + Len(b)
  /\ PairSize \in [Pairs -> Nat]
  <1>1. \A p \in Pairs : \E a, b \in Seq(Entry) : p = <<a, b>>
    BY DEF Pairs
  <1>2. ASSUME NEW a \in Seq(Entry), NEW b \in Seq(Entry)
        PROVE  /\ <<a, b>> \in Pairs /\ PairSize[<<a, b>>] = Len(a) + Len(b)
               /\ PairSize[<<a, b>>] \in Nat
    <2>1. <<a, b>> \in Pairs
      BY DEF Pairs
    <2>2. PairSize[<<a, b>>] = Len(a) + Len(b)
      BY <2>1 DEF PairSize
    <2> QED BY <2>1, <2>2
  <1>3. \A p \in Pairs : PairSize[p] \in Nat
    BY <1>1, <1>2
  <1>4. PairSize = [p \in Pairs |-> PairSize[p]]
    BY DEF PairSize
  <1> HIDE DEF PairSize
  <1> QED BY <1>1, <1>2, <1>3, <1>4

(* What is left of a pair when one of the heads is taken is smaller.        *)
LEMMA SmallerPairs ==
  ASSUME NEW a \in Seq(Entry), NEW b \in Seq(Entry), a # <<>>, b # <<>>
  PROVE  /\ Head(a) \in Entry /\ Head(b) \in Entry
         /\ <<Tail(a), b>> \in Pairs /\ PairSize[<<Tail(a), b>>] < PairSize[<<a, b>>]
         /\ <<a, Tail(b)>> \in Pairs /\ PairSize[<<a, Tail(b)>>] < PairSize[<<a, b>>]
  <1>1. /\ Tail(a) \in Seq(Entry) /\ Tail(b) \in Seq(Entry)
        /\ Head(a) \in Entry /\ Head(b) \in Entry
        /\ Len(a) \in Nat /\ Len(b) \in Nat
        /\ Len(Tail(a)) = Len(a) - 1 /\ Len(Tail(b)) = Len(b) - 1
    OBVIOUS
  <1>2. /\ PairSize[<<Tail(a), b>>] = Len(a) - 1 + Len(b)
        /\ PairSize[<<a, Tail(b)>>] = Len(a) + Len(b) - 1
        /\ PairSize[<<a, b>>] = Len(a) + Len(b)
        /\ <<Tail(a), b>> \in Pairs /\ <<a, Tail(b)>> \in Pairs
    BY <1>1, PairsAreTuples
  <1> QED BY <1>1, <1>2

(* Merge is the function its definition describes.                          *)
LEMMA MergeEquation == Merge = [p \in Pairs |-> MergeStep(p, Merge)]
  <1> DEFINE V == Seq(Entry)
             F == [x \in Pairs \X [Pairs -> V] |-> MergeStep(x[1], x[2])]
  <1>1. ASSUME NEW p \in Pairs, NEW f \in [Pairs -> V] PROVE MergeStep(p, f) \in V
    <2>1. PICK a \in V, b \in V : p = <<a, b>>
      BY PairsAreTuples
    <2>2. CASE a = <<>> \/ b = <<>>
      BY <2>1, <2>2 DEF MergeStep
    <2>3. CASE a # <<>> /\ b # <<>>
      <3>1. f[<<Tail(a), b>>] \in V /\ f[<<a, Tail(b)>>] \in V
        BY <2>3, SmallerPairs
      <3>2. Head(a) \in Entry /\ Head(b) \in Entry
        BY <2>3, SmallerPairs
      <3> QED BY <2>1, <2>3, <3>1, <3>2 DEF MergeStep
    <2> QED BY <2>2, <2>3
  <1>2. ASSUME NEW p \in Pairs, NEW g \in [Pairs -> V], NEW h \in [Pairs -> V],
               \A q \in Pairs : PairSize[q] < PairSize[p] => g[q] = h[q]
        PROVE  MergeStep(p, g) = MergeStep(p, h)
    <2>1. PICK a \in V, b \in V : p = <<a, b>>
      BY PairsAreTuples
    <2>2. CASE a = <<>> \/ b = <<>>
      BY <2>1, <2>2 DEF MergeStep
    <2>3. CASE a # <<>> /\ b # <<>>
      <3>1. g[<<Tail(a), b>>] = h[<<Tail(a), b>>] /\ g[<<a, Tail(b)>>] = h[<<a, Tail(b)>>]
        BY <1>2, <2>1, <2>3, SmallerPairs
      <3> QED BY <2>1, <3>1 DEF MergeStep
    <2> QED BY <2>2, <2>3
  <1>3. \E f \in [Pairs -> V] : \A p \in Pairs : f[p] = F[<<p, f>>]
    <2>1. V # {}
      BY <<>> \in V
    <2>2. F \in [Pairs \X [Pairs -> V] -> V]
      BY <1>1
    <2>3. \A p \in Pairs : \A g, h \in [Pairs -> V] :
            (\A q \in Pairs : PairSize[q] < PairSize[p] => g[q] = h[q]) => F[<<p, g>>] = F[<<p, h>>]
      BY <1>2
    <2>4. PairSize \in [Pairs -> Nat]
      BY PairsAreTuples
    <2> HIDE DEF V, F
    <2>5. IsRecursion(Pairs, V, PairSize, F)
      BY <2>1, <2>2, <2>3, <2>4 DEF IsRecursion
    <2> QED BY <2>5, RecursionExists
  <1>4. \E f : f = [p \in Pairs |-> MergeStep(p, f)]
    <2>1. PICK f \in [Pairs -> V] : \A p \in Pairs : f[p] = F[<<p, f>>]
      BY <1>3
    <2>2. \A p \in Pairs : f[p] = MergeStep(p, f)
      BY <2>1
    <2>3. f = [p \in Pairs |-> MergeStep(p, f)]
      BY <2>2
    <2> QED BY <2>3
  <1> QED BY <1>4, Zenon DEF Merge, MergeStep, Pairs

-----------------------------------------------------------------------------
(* Where an entry is in a sequence, how often, and what the sequence holds. *)
Places(s, e) == {i \in 1..Len(s) : s[i] = e}
Count(s, e)  == Cardinality(Places(s, e))
Elements(s)  == {s[i] : i \in 1..Len(s)}

(* An entry is in a sequence a natural number of times.                     *)
LEMMA PlacesFinite ==
  ASSUME NEW s \in Seq(Entry), NEW e
  PROVE  /\ Places(s, e) \subseteq 1..Len(s)
         /\ IsFiniteSet(Places(s, e)) /\ Count(s, e) \in Nat
  <1>1. Len(s) \in Nat /\ IsFiniteSet(1..Len(s))
    BY FS_Interval
  <1>2. Places(s, e) \in SUBSET (1..Len(s))
    BY DEF Places
  <1>3. IsFiniteSet(Places(s, e))
    BY <1>1, <1>2, FS_Subset
  <1> QED BY <1>2, <1>3, FS_CardinalityType DEF Count

(* Adding a number to each element of a set keeps how many there are.       *)
LEMMA Shifted ==
  ASSUME NEW S \in SUBSET Nat, IsFiniteSet(S), NEW k \in Nat
  PROVE  LET T == {i + k : i \in S}
         IN  IsFiniteSet(T) /\ Cardinality(T) = Cardinality(S)
  <1> DEFINE T == {i + k : i \in S}
             f == [i \in S |-> i + k]
  <1>1. f \in Bijection(S, T)
    <2>1. f \in [S -> T]
      OBVIOUS
    <2>2. \A i, j \in S : f[i] = f[j] => i = j
      OBVIOUS
    <2>3. \A x \in T : \E i \in S : f[i] = x
      OBVIOUS
    <2> HIDE DEF f, T
    <2> QED BY <2>1, <2>2, <2>3 DEF Bijection, Injection, Surjection, IsInjective
  <1>2. ExistsBijection(S, T)
    BY <1>1 DEF ExistsBijection
  <1> QED BY <1>2, FS_Bijection

(* How often an entry is in two sequences put together.                     *)
LEMMA CountConcat ==
  ASSUME NEW s \in Seq(Entry), NEW t \in Seq(Entry), NEW e
  PROVE  Count(s \o t, e) = Count(s, e) + Count(t, e)
  <1> DEFINE n == Len(s)
             T == {i + n : i \in Places(t, e)}
  <1>1. /\ n \in Nat /\ Len(t) \in Nat /\ Len(s \o t) = n + Len(t)
        /\ \A i \in 1..n : (s \o t)[i] = s[i]
        /\ \A i \in 1..Len(t) : (s \o t)[i + n] = t[i]
    OBVIOUS
  <1>2. Places(s \o t, e) = Places(s, e) \cup T
    <2>1. ASSUME NEW i \in Places(s \o t, e) PROVE i \in Places(s, e) \cup T
      <3>1. i \in 1..(n + Len(t)) /\ (s \o t)[i] = e
        BY <1>1 DEF Places
      <3>2. CASE i <= n
        BY <1>1, <3>1, <3>2 DEF Places
      <3>3. CASE i > n
        <4>1. i - n \in 1..Len(t) /\ (i - n) + n = i
          BY <1>1, <3>1, <3>3
        <4>2. i - n \in Places(t, e)
          BY <1>1, <3>1, <4>1 DEF Places
        <4> QED BY <4>1, <4>2
      <3> QED BY <1>1, <3>1, <3>2, <3>3
    <2>2. ASSUME NEW i \in Places(s, e) PROVE i \in Places(s \o t, e)
      BY <1>1 DEF Places
    <2>3. ASSUME NEW i \in Places(t, e) PROVE i + n \in Places(s \o t, e)
      BY <1>1 DEF Places
    <2> QED BY <2>1, <2>2, <2>3
  <1>3. Places(t, e) \in SUBSET Nat /\ IsFiniteSet(Places(t, e)) /\ IsFiniteSet(Places(s, e))
    BY <1>1, PlacesFinite
  <1>4. IsFiniteSet(T) /\ Cardinality(T) = Count(t, e)
    BY <1>1, <1>3, Shifted DEF Count
  <1>5. Places(s, e) \cap T = {}
    <2> SUFFICES ASSUME NEW i \in Places(t, e) PROVE i + n \notin Places(s, e)
      OBVIOUS
    <2>1. i \in 1..Len(t) /\ Places(s, e) \subseteq 1..n
      BY PlacesFinite
    <2>2. i + n \notin 1..n
      BY <1>1, <2>1
    <2> QED BY <2>1, <2>2
  <1> HIDE DEF T, n
  <1>6. Cardinality(Places(s, e) \cup T)
          = Cardinality(Places(s, e)) + Cardinality(T) - Cardinality({})
    BY <1>3, <1>4, <1>5, FS_Union
  <1> QED BY <1>2, <1>4, <1>6, FS_EmptySet, PlacesFinite DEF Count

(* A sequence is its head and its tail, for what it holds and how often.    *)
LEMMA HeadAndTail ==
  ASSUME NEW s \in Seq(Entry), s # <<>>
  PROVE  /\ Elements(s) = {Head(s)} \cup Elements(Tail(s))
         /\ \A e : Count(s, e) = Count(<<Head(s)>>, e) + Count(Tail(s), e)
  <1>1. /\ Head(s) \in Entry /\ Tail(s) \in Seq(Entry) /\ Len(s) \in Nat \ {0}
        /\ Len(Tail(s)) = Len(s) - 1 /\ s = <<Head(s)>> \o Tail(s)
        /\ Head(s) = s[1] /\ \A i \in 1..(Len(s) - 1) : Tail(s)[i] = s[i + 1]
    OBVIOUS
  <1>2. \A e : Count(<<Head(s)>> \o Tail(s), e) = Count(<<Head(s)>>, e) + Count(Tail(s), e)
    <2>1. <<Head(s)>> \in Seq(Entry)
      BY <1>1
    <2> QED BY <1>1, <2>1, CountConcat
  <1>3. ASSUME NEW i \in 1..Len(s) PROVE s[i] \in {Head(s)} \cup Elements(Tail(s))
    <2>1. CASE i = 1
      BY <1>1, <2>1
    <2>2. CASE i # 1
      <3>1. i - 1 \in 1..(Len(s) - 1) /\ (i - 1) + 1 = i
        BY <1>1, <2>2
      <3>2. s[i] = Tail(s)[i - 1] /\ i - 1 \in 1..Len(Tail(s))
        BY <1>1, <3>1
      <3> QED BY <3>2 DEF Elements
    <2> QED BY <2>1, <2>2
  <1>4. ASSUME NEW i \in 1..Len(Tail(s)) PROVE Tail(s)[i] \in Elements(s)
    <2>1. i \in 1..(Len(s) - 1) /\ i + 1 \in 1..Len(s)
      BY <1>1
    <2> QED BY <1>1, <2>1 DEF Elements
  <1>5. Head(s) \in Elements(s)
    <2>1. 1 \in 1..Len(s)
      BY <1>1
    <2> QED BY <1>1, <2>1 DEF Elements
  <1>6. Elements(s) = {Head(s)} \cup Elements(Tail(s))
    BY <1>3, <1>4, <1>5 DEF Elements
  <1> QED BY <1>1, <1>2, <1>6

(* And so is a sequence that is put together from them.                     *)
LEMMA Prepended ==
  ASSUME NEW x \in Entry, NEW s \in Seq(Entry)
  PROVE  LET xs == <<x>> \o s
         IN  /\ xs \in Seq(Entry) /\ xs # <<>> /\ Head(xs) = x /\ Tail(xs) = s
             /\ Len(xs) = Len(s) + 1
  OBVIOUS

-----------------------------------------------------------------------------
Sorted(s) == \A i, j \in 1..Len(s) : i < j => s[i].number <= s[j].number

(* Numbers no two of which are half the range of subscriber_num apart.      *)
WithinHalf(S) == \A x, y \in S : x - y < NumMod \div 2

NumbersIn(E) == {x.number : x \in E}

(* On such numbers the wrapped difference has the sign of the true one.     *)
LEMMA CompareOrders ==
  ASSUME NEW x \in Int, NEW y \in Int, x - y < NumMod \div 2, y - x < NumMod \div 2
  PROVE  /\ Compare(x, y) \in Int
         /\ Compare(x, y) < 0 <=> x < y
         /\ Compare(x, y) > 0 <=> x > y
         /\ Compare(x, y) = 0 <=> x = y
  <1> DEFINE H == NumMod \div 2
             d == x - y
  <1>1. H \in Nat /\ NumMod = 2 * H /\ H > 0 /\ NumMod \in Nat
    BY DbTableAssumption
  <1>2. d \in Int /\ d < H /\ -d < H
    OBVIOUS
  <1>3. d % NumMod = IF d >= 0 THEN d ELSE d + NumMod
    <2> HIDE DEF H, d
    <2>1. CASE d >= 0
      BY <1>1, <1>2, <2>1
    <2>2. CASE d < 0
      BY <1>1, <1>2, <2>2
    <2> QED BY <1>2, <2>1, <2>2
  <1>4. Compare(x, y) = IF d % NumMod >= H THEN (d % NumMod) - NumMod ELSE d % NumMod
    BY DEF Compare, Signed
  <1> HIDE DEF H
  <1>5. Compare(x, y) = d
    BY <1>1, <1>2, <1>3, <1>4
  <1> QED BY <1>5

(* The tail of a sorted sequence is sorted, and its head a least entry.     *)
LEMMA SortedTail ==
  ASSUME NEW s \in Seq(Entry), s # <<>>, Sorted(s)
  PROVE  /\ Sorted(Tail(s))
         /\ \A y \in Elements(s) : Head(s).number <= y.number
  <1>1. /\ Len(s) \in Nat \ {0} /\ Len(Tail(s)) = Len(s) - 1 /\ Head(s) = s[1]
        /\ \A i \in 1..(Len(s) - 1) : Tail(s)[i] = s[i + 1]
        /\ \A i \in 1..Len(s) : s[i] \in Entry
    OBVIOUS
  <1>2. Sorted(Tail(s))
    <2> SUFFICES ASSUME NEW i \in 1..(Len(s) - 1), NEW j \in 1..(Len(s) - 1), i < j
                 PROVE  Tail(s)[i].number <= Tail(s)[j].number
      BY <1>1 DEF Sorted
    <2>1. i + 1 \in 1..Len(s) /\ j + 1 \in 1..Len(s) /\ i + 1 < j + 1
      BY <1>1
    <2> QED BY <1>1, <2>1 DEF Sorted
  <1>3. ASSUME NEW i \in 1..Len(s) PROVE Head(s).number <= s[i].number
    <2>1. CASE i = 1
      <3>1. s[1].number \in Int
        BY <1>1, DbTableAssumption DEF Entry
      <3> QED BY <1>1, <2>1, <3>1
    <2>2. CASE i # 1
      <3>1. 1 \in 1..Len(s) /\ 1 < i
        BY <1>1, <2>2
      <3> QED BY <1>1, <3>1 DEF Sorted
    <2> QED BY <2>1, <2>2
  <1> QED BY <1>2, <1>3 DEF Elements

(* A sorted sequence stays sorted with a least entry put before it.         *)
LEMMA SortedPrepended ==
  ASSUME NEW x \in Entry, NEW s \in Seq(Entry), Sorted(s),
         \A y \in Elements(s) : x.number <= y.number
  PROVE  Sorted(<<x>> \o s)
  <1> DEFINE xs == <<x>> \o s
  <1>1. /\ Len(s) \in Nat /\ Len(xs) = Len(s) + 1 /\ xs[1] = x
        /\ \A i \in 1..Len(s) : xs[i + 1] = s[i]
    OBVIOUS
  <1> HIDE DEF xs
  <1>2. \A i \in 2..Len(xs) : i - 1 \in 1..Len(s) /\ xs[i] = s[i - 1]
    <2> SUFFICES ASSUME NEW i \in 2..Len(xs) PROVE i - 1 \in 1..Len(s) /\ xs[i] = s[i - 1]
      OBVIOUS
    <2>1. i - 1 \in 1..Len(s) /\ (i - 1) + 1 = i
      BY <1>1
    <2> QED BY <1>1, <2>1
  <1>3. ASSUME NEW i \in 1..Len(xs), NEW j \in 1..Len(xs), i < j
        PROVE  xs[i].number <= xs[j].number
    <2>1. j \in 2..Len(xs)
      BY <1>1, <1>3
    <2>2. xs[j] \in Elements(s)
      BY <1>2, <2>1 DEF Elements
    <2>3. CASE i = 1
      BY <1>1, <2>2, <2>3
    <2>4. CASE i # 1
      <3>1. i \in 2..Len(xs) /\ i - 1 < j - 1
        BY <1>1, <1>3, <2>4
      <3> QED BY <1>2, <2>1, <3>1 DEF Sorted
    <2> QED BY <2>3, <2>4
  <1>4. Sorted(xs)
    BY <1>3 DEF Sorted
  <1> QED BY <1>4 DEF xs

-----------------------------------------------------------------------------
(* What a merge m of a and b is.                                            *)
MergeOf(m, a, b) ==
  /\ m \in Seq(Entry) /\ Len(m) = Len(a) + Len(b)
  /\ Elements(m) = Elements(a) \cup Elements(b)
  /\ \A e : Count(m, e) = Count(a, e) + Count(b, e)
  /\ Sorted(a) /\ Sorted(b) /\ WithinHalf(NumbersIn(Elements(a) \cup Elements(b))) => Sorted(m)

(* The empty sequence holds nothing, and is sorted.                         *)
LEMMA EmptyElements ==
  /\ Elements(<<>>) = {} /\ \A e : Count(<<>>, e) = 0
  /\ Sorted(<<>>)
  <1>1. \A e : Places(<<>>, e) = {}
    BY DEF Places
  <1> QED BY <1>1, FS_EmptySet DEF Elements, Count, Sorted

(* What a sequence of entries holds are entries, with numbers.              *)
LEMMA ElementsAreEntries ==
  ASSUME NEW s \in Seq(Entry)
  PROVE  Elements(s) \subseteq Entry /\ NumbersIn(Elements(s)) \subseteq Int
  <1>1. \A i \in 1..Len(s) : s[i] \in Entry
    OBVIOUS
  <1>2. \A x \in Entry : x.number \in Int
    BY DbTableAssumption DEF Entry
  <1> QED BY <1>1, <1>2 DEF Elements, NumbersIn

(* Nothing to merge with.                                                   *)
LEMMA MergeOfEmpty ==
  ASSUME NEW a \in Seq(Entry), NEW b \in Seq(Entry), a = <<>> \/ b = <<>>
  PROVE  MergeOf(a \o b, a, b)
  <1>1. CASE a = <<>>
    <2>1. a \o b = b /\ Len(b) = Len(a) + Len(b)
      BY <1>1
    <2>2. \A e : Count(b, e) = Count(a, e) + Count(b, e)
      BY <1>1, EmptyElements, PlacesFinite
    <2> QED BY <1>1, <2>1, <2>2, EmptyElements DEF MergeOf
  <1>2. CASE b = <<>>
    <2>1. a \o b = a /\ Len(a) = Len(a) + Len(b)
      BY <1>2
    <2>2. \A e : Count(a, e) = Count(a, e) + Count(b, e)
      BY <1>2, EmptyElements, PlacesFinite
    <2> QED BY <1>2, <2>1, <2>2, EmptyElements DEF MergeOf
  <1> QED BY <1>1, <1>2

(* A step of the merge: the head of s, not greater than that of t, goes     *)
(* before the merge of the rest.                                            *)
LEMMA MergeOfHead ==
  ASSUME NEW s \in Seq(Entry), s # <<>>, NEW t \in Seq(Entry), NEW m, MergeOf(m, Tail(s), t),
         WithinHalf(NumbersIn(Elements(s) \cup Elements(t))) /\ Sorted(t) =>
           \A y \in Elements(t) : Head(s).number <= y.number
  PROVE  MergeOf(<<Head(s)>> \o m, s, t)
  <1> DEFINE h  == Head(s)
             hm == <<h>> \o m
  <1>1. /\ h \in Entry /\ Tail(s) \in Seq(Entry) /\ Len(Tail(s)) = Len(s) - 1
        /\ Len(s) \in Nat /\ Len(t) \in Nat
    OBVIOUS
  <1>2. /\ m \in Seq(Entry) /\ Len(m) = Len(s) - 1 + Len(t)
        /\ Elements(m) = Elements(Tail(s)) \cup Elements(t)
        /\ \A e : Count(m, e) = Count(Tail(s), e) + Count(t, e)
    BY <1>1 DEF MergeOf
  <1>3. /\ hm \in Seq(Entry) /\ hm # <<>> /\ Head(hm) = h /\ Tail(hm) = m /\ Len(hm) = Len(m) + 1
    BY <1>1, <1>2, Prepended
  <1>4. Elements(s) = {h} \cup Elements(Tail(s))
    BY HeadAndTail
  <1> HIDE DEF hm
  <1>5. Elements(hm) = Elements(s) \cup Elements(t)
    <2>1. Elements(hm) = {h} \cup Elements(m)
      BY <1>3, HeadAndTail
    <2> QED BY <1>2, <1>4, <2>1
  <1>6. ASSUME NEW e PROVE Count(hm, e) = Count(s, e) + Count(t, e)
    <2>1. Count(hm, e) = Count(<<h>>, e) + Count(m, e)
      BY <1>3, HeadAndTail
    <2>2. Count(s, e) = Count(<<h>>, e) + Count(Tail(s), e)
      BY HeadAndTail
    <2>3. <<h>> \in Seq(Entry)
      BY <1>1
    <2>4. Count(<<h>>, e) \in Nat /\ Count(Tail(s), e) \in Nat /\ Count(t, e) \in Nat
      BY <1>1, <2>3, PlacesFinite
    <2> QED BY <1>2, <2>1, <2>2, <2>4
  <1>7. ASSUME Sorted(s), Sorted(t), WithinHalf(NumbersIn(Elements(s) \cup Elements(t)))
        PROVE  Sorted(hm)
    <2>1. Sorted(Tail(s)) /\ \A y \in Elements(s) : h.number <= y.number
      BY <1>7, SortedTail
    <2>2. WithinHalf(NumbersIn(Elements(Tail(s)) \cup Elements(t)))
      BY <1>4, <1>7 DEF WithinHalf, NumbersIn
    <2>3. Sorted(m)
      BY <1>7, <2>1, <2>2 DEF MergeOf
    <2>4. \A y \in Elements(m) : h.number <= y.number
      BY <1>2, <1>4, <1>7, <2>1
    <2> QED BY <1>1, <1>2, <2>3, <2>4, SortedPrepended DEF hm
  <1>8. Len(hm) = Len(s) + Len(t)
    BY <1>1, <1>2, <1>3
  <1> QED BY <1>3, <1>5, <1>6, <1>7, <1>8 DEF MergeOf, hm

(* Either sequence may come first.                                          *)
LEMMA MergeOfSwapped ==
  ASSUME NEW a \in Seq(Entry), NEW b \in Seq(Entry), NEW m, MergeOf(m, a, b)
  PROVE  MergeOf(m, b, a)
  <1>1. Len(a) \in Nat /\ Len(b) \in Nat
    OBVIOUS
  <1>2. \A e : Count(a, e) \in Nat /\ Count(b, e) \in Nat
    BY PlacesFinite
  <1>3. Len(a) + Len(b) = Len(b) + Len(a)
    BY <1>1
  <1>4. \A e : Count(a, e) + Count(b, e) = Count(b, e) + Count(a, e)
    BY <1>2
  <1>5. Elements(a) \cup Elements(b) = Elements(b) \cup Elements(a)
    OBVIOUS
  <1> QED BY <1>3, <1>4, <1>5 DEF MergeOf

(* Merge merges.                                                            *)
LEMMA MergeMerges ==
  ASSUME NEW a \in Seq(Entry), NEW b \in Seq(Entry)
  PROVE  MergeOf(Merge[<<a, b>>], a, b)
  <1> DEFINE T == {p \in Pairs : MergeOf(Merge[p], p[1], p[2])}
  <1>1. ASSUME NEW p \in Pairs, \A q \in Pairs : PairSize[q] < PairSize[p] => q \in T
        PROVE  p \in T
    <2>1. PICK s \in Seq(Entry), t \in Seq(Entry) : p = <<s, t>>
      BY PairsAreTuples
    <2>2. Merge[p] = MergeStep(p, Merge)
      BY MergeEquation
    <2>3. CASE s = <<>> \/ t = <<>>
      <3>1. Merge[p] = s \o t
        BY <2>1, <2>2, <2>3 DEF MergeStep
      <3> QED BY <2>1, <2>3, <3>1, MergeOfEmpty
    <2>4. CASE s # <<>> /\ t # <<>>
      <3> DEFINE q == <<Tail(s), t>>
                 r == <<s, Tail(t)>>
                 le == Compare(Head(s).number, Head(t).number) <= 0
      <3>1. q \in T /\ r \in T
        BY <1>1, <2>1, <2>4, SmallerPairs
      <3>2. MergeOf(Merge[q], Tail(s), t) /\ MergeOf(Merge[r], s, Tail(t))
        BY <3>1
      <3>3. Merge[p] = IF le THEN <<Head(s)>> \o Merge[q] ELSE <<Head(t)>> \o Merge[r]
        BY <2>1, <2>2, <2>4 DEF MergeStep
      <3>4. Head(s) \in Elements(s) /\ Head(t) \in Elements(t)
        BY <2>4, HeadAndTail
      <3>5. Head(s).number \in Int /\ Head(t).number \in Int
        BY <3>4, ElementsAreEntries DEF NumbersIn
      <3>6. WithinHalf(NumbersIn(Elements(s) \cup Elements(t))) =>
              (le <=> Head(s).number <= Head(t).number)
        <4> SUFFICES ASSUME WithinHalf(NumbersIn(Elements(s) \cup Elements(t)))
                     PROVE  le <=> Head(s).number <= Head(t).number
          OBVIOUS
        <4> DEFINE x == Head(s).number
                   y == Head(t).number
        <4>1. x - y < NumMod \div 2 /\ y - x < NumMod \div 2
          BY <3>4 DEF WithinHalf, NumbersIn
        <4>2. /\ Compare(x, y) \in Int /\ x \in Int /\ y \in Int
              /\ Compare(x, y) > 0 <=> x > y
          BY <3>5, <4>1, CompareOrders
        <4> HIDE DEF x, y
        <4>3. Compare(x, y) <= 0 <=> x <= y
          BY <4>2
        <4> QED BY <4>3 DEF x, y
      <3> HIDE DEF q, r
      <3>7. CASE le
        <4>1. WithinHalf(NumbersIn(Elements(s) \cup Elements(t))) /\ Sorted(t) =>
                \A y \in Elements(t) : Head(s).number <= y.number
          <5> SUFFICES ASSUME WithinHalf(NumbersIn(Elements(s) \cup Elements(t))), Sorted(t),
                              NEW y \in Elements(t)
                       PROVE  Head(s).number <= y.number
            OBVIOUS
          <5>1. Head(s).number <= Head(t).number /\ Head(t).number <= y.number
            BY <2>4, <3>6, <3>7, SortedTail
          <5>2. y.number \in Int
            BY ElementsAreEntries DEF NumbersIn
          <5> QED BY <3>5, <5>1, <5>2
        <4> HIDE DEF le
        <4>2. MergeOf(<<Head(s)>> \o Merge[q], s, t)
          BY <2>4, <3>2, <4>1, MergeOfHead
        <4> QED BY <2>1, <3>3, <3>7, <4>2
      <3>8. CASE ~le
        <4>1. WithinHalf(NumbersIn(Elements(t) \cup Elements(s))) /\ Sorted(s) =>
                \A y \in Elements(s) : Head(t).number <= y.number
          <5> SUFFICES ASSUME WithinHalf(NumbersIn(Elements(t) \cup Elements(s))), Sorted(s),
                              NEW y \in Elements(s)
                       PROVE  Head(t).number <= y.number
            OBVIOUS
          <5>1. Elements(t) \cup Elements(s) = Elements(s) \cup Elements(t)
            OBVIOUS
          <5>2. ~(Head(s).number <= Head(t).number) /\ Head(s).number <= y.number
            BY <2>4, <3>6, <3>8, <5>1, SortedTail
          <5>3. y.number \in Int
            BY ElementsAreEntries DEF NumbersIn
          <5> QED BY <3>5, <5>2, <5>3
        <4> HIDE DEF le
        <4>2. MergeOf(Merge[r], Tail(t), s)
          <5>1. Tail(t) \in Seq(Entry)
            BY <2>4
          <5> QED BY <3>2, <5>1, MergeOfSwapped
        <4>3. MergeOf(<<Head(t)>> \o Merge[r], t, s)
          BY <2>4, <4>1, <4>2, MergeOfHead
        <4>4. MergeOf(Merge[p], s, t)
          BY <3>3, <3>8, <4>3, MergeOfSwapped
        <4> QED BY <2>1, <4>4
      <3> QED BY <3>7, <3>8
    <2> QED BY <2>3, <2>4
  <1> HIDE DEF T
  <1>2. IsInductive(Pairs, PairSize, T)
    BY <1>1, PairsAreTuples DEF IsInductive
  <1>3. Pairs \subseteq T
    BY <1>2, MeasureInduction
  <1>4. <<a, b>> \in T
    BY <1>3, PairsAreTuples
  <1> QED BY <1>4 DEF T

-----------------------------------------------------------------------------
(* The body of QSort.                                                       *)
QSortStep(s, f) ==
  LET half == Len(s) \div 2
  IN  IF half = 0 THEN s
      ELSE Merge[<<f[SubSeq(s, 1, half)], f[SubSeq(s, half + 1, Len(s))]>>]

SeqSize == [s \in Seq(Entry) |-> Len(s)]

(* The halves of a sequence.                                                *)
LEMMA Halves ==
  ASSUME NEW s \in Seq(Entry), Len(s) \div 2 # 0
  PROVE  LET half  == Len(s) \div 2
             front == SubSeq(s, 1, half)
             back  == SubSeq(s, half + 1, Len(s))
         IN  /\ front \in Seq(Entry) /\ SeqSize[front] < SeqSize[s]
             /\ back \in Seq(Entry) /\ SeqSize[back] < SeqSize[s]
             /\ s = front \o back
  <1> DEFINE half  == Len(s) \div 2
             front == SubSeq(s, 1, half)
             back  == SubSeq(s, half + 1, Len(s))
  <1>1. half \in Nat /\ half >= 1 /\ half < Len(s) /\ Len(s) \in Nat
    OBVIOUS
  <1> HIDE DEF half
  <1>2. /\ front \in Seq(Entry) /\ Len(front) = half
        /\ back \in Seq(Entry) /\ Len(back) = Len(s) - half
        /\ s = front \o back
    BY <1>1
  <1> HIDE DEF front, back
  <1>3. SeqSize[front] = half /\ SeqSize[back] = Len(s) - half /\ SeqSize[s] = Len(s)
    BY <1>2 DEF SeqSize
  <1>4. SeqSize[front] < SeqSize[s] /\ SeqSize[back] < SeqSize[s]
    BY <1>1, <1>3
  <1> QED BY <1>2, <1>4 DEF half, front, back

(* QSort is the function its definition describes.                          *)
LEMMA QSortEquation == QSort = [s \in Seq(Entry) |-> QSortStep(s, QSort)]
  <1> DEFINE V == Seq(Entry)
             F == [x \in V \X [V -> V] |-> QSortStep(x[1], x[2])]
  <1>1. ASSUME NEW s \in V, NEW f \in [V -> V] PROVE QSortStep(s, f) \in V
    <2> DEFINE half == Len(s) \div 2
               a == f[SubSeq(s, 1, half)]
               b == f[SubSeq(s, half + 1, Len(s))]
    <2>1. CASE half = 0
      BY <2>1 DEF QSortStep
    <2>2. CASE half # 0
      <3>1. a \in Seq(Entry) /\ b \in Seq(Entry)
        BY <2>2, Halves
      <3>2. QSortStep(s, f) = Merge[<<a, b>>]
        BY <2>2 DEF QSortStep
      <3> HIDE DEF a, b
      <3> QED BY <3>1, <3>2, MergeMerges DEF MergeOf
    <2> QED BY <2>1, <2>2
  <1>2. ASSUME NEW s \in V, NEW g \in [V -> V], NEW h \in [V -> V],
               \A t \in V : SeqSize[t] < SeqSize[s] => g[t] = h[t]
        PROVE  QSortStep(s, g) = QSortStep(s, h)
    <2> DEFINE half == Len(s) \div 2
    <2>1. CASE half = 0
      BY <2>1 DEF QSortStep
    <2>2. CASE half # 0
      <3>1. /\ g[SubSeq(s, 1, half)] = h[SubSeq(s, 1, half)]
            /\ g[SubSeq(s, half + 1, Len(s))] = h[SubSeq(s, half + 1, Len(s))]
        BY <1>2, <2>2, Halves
      <3> QED BY <3>1 DEF QSortStep
    <2> QED BY <2>1, <2>2
  <1>3. \E f \in [V -> V] : \A s \in V : f[s] = F[<<s, f>>]
    <2>1. V # {}
      BY <<>> \in V
    <2>2. F \in [V \X [V -> V] -> V]
      BY <1>1
    <2>3. \A s \in V : \A g, h \in [V -> V] :
            (\A t \in V : SeqSize[t] < SeqSize[s] => g[t] = h[t]) => F[<<s, g>>] = F[<<s, h>>]
      BY <1>2
    <2>4. SeqSize \in [V -> Nat]
      BY DEF SeqSize
    <2> HIDE DEF V, F
    <2>5. IsRecursion(V, V, SeqSize, F)
      BY <2>1, <2>2, <2>3, <2>4 DEF IsRecursion
    <2> QED BY <2>5, RecursionExists
  <1>4. \E f : f = [s \in V |-> QSortStep(s, f)]
    <2>1. PICK f \in [V -> V] : \A s \in V : f[s] = F[<<s, f>>]
      BY <1>3
    <2>2. \A s \in V : f[s] = QSortStep(s, f)
      BY <2>1
    <2>3. f = [s \in V |-> QSortStep(s, f)]
      BY <2>2
    <2> QED BY <2>3
  <1> QED BY <1>4, Zenon DEF QSort, QSortStep

(* What a sorted version t of s is; sorted, if the numbers allow it.        *)
SortOf(t, s) ==
  /\ t \in Seq(Entry) /\ Len(t) = Len(s)
  /\ Elements(t) = Elements(s)
  /\ \A e : Count(t, e) = Count(s, e)
  /\ WithinHalf(NumbersIn(Elements(s))) => Sorted(t)

(* What two sequences put together hold.                                    *)
LEMMA ElementsConcat ==
  ASSUME NEW s \in Seq(Entry), NEW t \in Seq(Entry)
  PROVE  Elements(s \o t) = Elements(s) \cup Elements(t)
  <1> DEFINE n == Len(s)
  <1>1. /\ n \in Nat /\ Len(t) \in Nat /\ Len(s \o t) = n + Len(t)
        /\ \A i \in 1..n : (s \o t)[i] = s[i]
        /\ \A i \in 1..Len(t) : (s \o t)[i + n] = t[i]
    OBVIOUS
  <1>2. ASSUME NEW i \in 1..(n + Len(t))
        PROVE  (s \o t)[i] \in Elements(s) \cup Elements(t)
    <2>1. CASE i <= n
      BY <1>1, <2>1 DEF Elements
    <2>2. CASE i > n
      <3>1. i - n \in 1..Len(t) /\ (i - n) + n = i
        BY <1>1, <2>2
      <3> QED BY <1>1, <3>1 DEF Elements
    <2> QED BY <1>1, <2>1, <2>2
  <1>3. ASSUME NEW i \in 1..n PROVE s[i] \in Elements(s \o t)
    BY <1>1 DEF Elements
  <1>4. ASSUME NEW i \in 1..Len(t) PROVE t[i] \in Elements(s \o t)
    <2>1. i + n \in 1..(n + Len(t))
      BY <1>1
    <2> QED BY <1>1, <2>1 DEF Elements
  <1> QED BY <1>1, <1>2, <1>3, <1>4 DEF Elements

(***************************************************************************)
(* qsort() keeps every entry as often as it is there, for every array; and *)
(* orders it by number when no two numbers are half the range apart.       *)
(***************************************************************************)
THEOREM QSortSorts ==
  ASSUME NEW s \in Seq(Entry)
  PROVE  SortOf(QSort[s], s)
  <1> DEFINE T == {t \in Seq(Entry) : SortOf(QSort[t], t)}
  <1>1. ASSUME NEW t \in Seq(Entry), \A u \in Seq(Entry) : SeqSize[u] < SeqSize[t] => u \in T
        PROVE  t \in T
    <2> DEFINE half  == Len(t) \div 2
               front == SubSeq(t, 1, half)
               back  == SubSeq(t, half + 1, Len(t))
    <2>1. QSort[t] = QSortStep(t, QSort)
      BY QSortEquation
    <2>2. CASE half = 0
      <3>1. QSort[t] = t
        BY <2>1, <2>2 DEF QSortStep
      <3>2. Len(t) \in Nat /\ Len(t) < 2
        BY <2>2
      <3>3. Sorted(t)
        BY <3>2 DEF Sorted
      <3> QED BY <3>1, <3>3 DEF SortOf
    <2>3. CASE half # 0
      <3> DEFINE a == QSort[front]
                 b == QSort[back]
      <3>1. /\ front \in Seq(Entry) /\ back \in Seq(Entry) /\ t = front \o back
            /\ front \in T /\ back \in T
        BY <1>1, <2>3, Halves
      <3>2. QSort[t] = Merge[<<a, b>>]
        BY <2>1, <2>3 DEF QSortStep
      <3> HIDE DEF front, back
      <3>3. SortOf(a, front) /\ SortOf(b, back)
        BY <3>1
      <3>4. a \in Seq(Entry) /\ b \in Seq(Entry)
        BY <3>3 DEF SortOf
      <3> HIDE DEF a, b
      <3>5. MergeOf(QSort[t], a, b)
        BY <3>2, <3>4, MergeMerges
      <3>6. Len(t) = Len(front) + Len(back)
        BY <3>1
      <3>7. Elements(t) = Elements(front) \cup Elements(back)
        BY <3>1, ElementsConcat
      <3>8. \A e : Count(t, e) = Count(front, e) + Count(back, e)
        BY <3>1, CountConcat
      <3>9. /\ QSort[t] \in Seq(Entry) /\ Len(QSort[t]) = Len(t)
            /\ Elements(QSort[t]) = Elements(t)
            /\ \A e : Count(QSort[t], e) = Count(t, e)
        BY <3>3, <3>5, <3>6, <3>7, <3>8 DEF MergeOf, SortOf
      <3>10. ASSUME WithinHalf(NumbersIn(Elements(t))) PROVE Sorted(QSort[t])
        <4>1. WithinHalf(NumbersIn(Elements(front))) /\ WithinHalf(NumbersIn(Elements(back)))
          BY <3>7, <3>10 DEF WithinHalf, NumbersIn
        <4>2. Sorted(a) /\ Sorted(b)
          BY <3>3, <4>1 DEF SortOf
        <4>3. Elements(a) \cup Elements(b) = Elements(t)
          BY <3>3, <3>7 DEF SortOf
        <4> QED BY <3>5, <3>10, <4>2, <4>3 DEF MergeOf
      <3> QED BY <3>9, <3>10 DEF SortOf
    <2> QED BY <2>2, <2>3
  <1> HIDE DEF T
  <1>2. SeqSize \in [Seq(Entry) -> Nat]
    BY DEF SeqSize
  <1>3. IsInductive(Seq(Entry), SeqSize, T)
    BY <1>1, <1>2 DEF IsInductive
  <1>4. Seq(Entry) \subseteq T
    BY <1>3, MeasureInduction
  <1>5. s \in T
    BY <1>4
  <1> QED BY <1>5 DEF T

-----------------------------------------------------------------------------
(* The body of BSearch.                                                     *)
Middle(s)    == (s.l + s.u) \div 2
Below(s)     == [s EXCEPT !.u = Middle(s)]
Above(s)     == [s EXCEPT !.l = Middle(s) + 1]
AtMiddle(s)  == Compare(s.num, s.table[Middle(s) + 1].number)

BSearchStep(s, f) ==
  IF s.l >= s.u THEN 0
  ELSE IF AtMiddle(s) < 0 THEN f[Below(s)]
  ELSE IF AtMiddle(s) > 0 THEN f[Above(s)]
  ELSE Middle(s) + 1

SearchSize == [s \in Searches |-> IF s.u > s.l THEN s.u - s.l ELSE 0]

(* Either side of the middle is a smaller stretch of the same table.        *)
LEMMA Sides ==
  ASSUME NEW s \in Searches, s.l < s.u
  PROVE  /\ Middle(s) \in s.l..(s.u - 1)
         /\ Below(s) \in Searches /\ SearchSize[Below(s)] < SearchSize[s]
         /\ Above(s) \in Searches /\ SearchSize[Above(s)] < SearchSize[s]
         /\ Below(s).table = s.table /\ Below(s).num = s.num
         /\ Below(s).l = s.l /\ Below(s).u = Middle(s)
         /\ Above(s).table = s.table /\ Above(s).num = s.num
         /\ Above(s).l = Middle(s) + 1 /\ Above(s).u = s.u
  <1>1. s.l \in Nat /\ s.u \in Nat
    BY DEF Searches
  <1>2. Middle(s) \in Nat /\ s.l <= Middle(s) /\ Middle(s) < s.u
    BY <1>1 DEF Middle
  <1> DEFINE m == Middle(s)
  <1> HIDE DEF m
  <1>3. m \in Nat /\ s.l <= m /\ m < s.u
    BY <1>2 DEF m
  <1>4. Below(s) = [s EXCEPT !.u = m] /\ Above(s) = [s EXCEPT !.l = m + 1]
    BY DEF Below, Above, m
  <1>5. /\ Below(s) \in Searches /\ Above(s) \in Searches
        /\ Below(s).table = s.table /\ Below(s).num = s.num
        /\ Below(s).l = s.l /\ Below(s).u = m
        /\ Above(s).table = s.table /\ Above(s).num = s.num
        /\ Above(s).l = m + 1 /\ Above(s).u = s.u
    BY <1>1, <1>3, <1>4 DEF Searches
  <1>6. /\ SearchSize[s] = s.u - s.l
        /\ SearchSize[Below(s)] = IF m > s.l THEN m - s.l ELSE 0
        /\ SearchSize[Above(s)] = IF s.u > m + 1 THEN s.u - (m + 1) ELSE 0
    BY <1>1, <1>3, <1>5 DEF SearchSize
  <1>7. SearchSize[Below(s)] < SearchSize[s] /\ SearchSize[Above(s)] < SearchSize[s]
    BY <1>1, <1>3, <1>6
  <1>8. m \in s.l..(s.u - 1)
    BY <1>1, <1>3
  <1> QED BY <1>5, <1>7, <1>8 DEF m

(* The measure of a search is a natural number.                             *)
LEMMA SearchSizeType == SearchSize \in [Searches -> Nat]
  <1>1. ASSUME NEW s \in Searches PROVE (IF s.u > s.l THEN s.u - s.l ELSE 0) \in Nat
    BY DEF Searches
  <1> QED BY <1>1 DEF SearchSize

(* BSearch is the function its definition describes.                        *)
LEMMA BSearchEquation == BSearch = [s \in Searches |-> BSearchStep(s, BSearch)]
  <1> DEFINE F == [x \in Searches \X [Searches -> Nat] |-> BSearchStep(x[1], x[2])]
  <1>1. ASSUME NEW s \in Searches, NEW f \in [Searches -> Nat] PROVE BSearchStep(s, f) \in Nat
    <2>1. CASE s.l >= s.u
      BY <2>1 DEF BSearchStep
    <2>2. CASE ~(s.l >= s.u)
      <3>1. s.l < s.u
        BY <2>2 DEF Searches
      <3>2. f[Below(s)] \in Nat /\ f[Above(s)] \in Nat /\ Middle(s) + 1 \in Nat
        <4>1. Middle(s) \in s.l..(s.u - 1) /\ s.l \in Nat /\ s.u \in Nat
          BY <3>1, Sides DEF Searches
        <4> QED BY <3>1, <4>1, Sides
      <3> QED BY <3>2 DEF BSearchStep
    <2> QED BY <2>1, <2>2
  <1>2. ASSUME NEW s \in Searches, NEW g \in [Searches -> Nat], NEW h \in [Searches -> Nat],
               \A t \in Searches : SearchSize[t] < SearchSize[s] => g[t] = h[t]
        PROVE  BSearchStep(s, g) = BSearchStep(s, h)
    <2>1. CASE s.l >= s.u
      BY <2>1 DEF BSearchStep
    <2>2. CASE ~(s.l >= s.u)
      <3>1. s.l < s.u
        BY <2>2 DEF Searches
      <3>2. g[Below(s)] = h[Below(s)] /\ g[Above(s)] = h[Above(s)]
        BY <1>2, <3>1, Sides
      <3> QED BY <3>2 DEF BSearchStep
    <2> QED BY <2>1, <2>2
  <1>3. \E f \in [Searches -> Nat] : \A s \in Searches : f[s] = F[<<s, f>>]
    <2>1. F \in [Searches \X [Searches -> Nat] -> Nat]
      BY <1>1
    <2>2. \A s \in Searches : \A g, h \in [Searches -> Nat] :
            (\A t \in Searches : SearchSize[t] < SearchSize[s] => g[t] = h[t])
              => F[<<s, g>>] = F[<<s, h>>]
      BY <1>2
    <2> HIDE DEF F
    <2>3. IsRecursion(Searches, Nat, SearchSize, F)
      BY <2>1, <2>2, SearchSizeType DEF IsRecursion
    <2> QED BY <2>3, RecursionExists
  <1>4. \E f : f = [s \in Searches |-> BSearchStep(s, f)]
    <2>1. PICK f \in [Searches -> Nat] : \A s \in Searches : f[s] = F[<<s, f>>]
      BY <1>3
    <2>2. \A s \in Searches : f[s] = BSearchStep(s, f)
      BY <2>1
    <2>3. f = [s \in Searches |-> BSearchStep(s, f)]
      BY <2>2
    <2> QED BY <2>3
  <1> QED BY <1>4, Zenon
          DEF BSearch, BSearchStep, Middle, Below, Above, AtMiddle

(* No entry of the table is half the range from the number looked up.       *)
Near(num, table) ==
  \A i \in 1..Len(table) : /\ num - table[i].number < NumMod \div 2
                           /\ table[i].number - num < NumMod \div 2

(* What the result r of a search of l..u-1 is.                              *)
Outcome(r, table, num, l, u) ==
  /\ r \in 0..Len(table)
  /\ Sorted(table) /\ Near(num, table) =>
       IF \E i \in (l + 1)..u : table[i].number = num
       THEN r # 0 /\ table[r].number = num
       ELSE r = 0

ResultOf(r, s) == Outcome(r, s.table, s.num, s.l, s.u)

(***************************************************************************)
(* bsearch() yields an index of the array, or NULL, whatever the array and *)
(* the number; in a sorted array it finds the number if it is there, when  *)
(* no number is half the range from it.                                    *)
(***************************************************************************)
LEMMA BSearchFinds ==
  ASSUME NEW search \in Searches, search.u <= Len(search.table)
  PROVE  ResultOf(BSearch[search], search)
  <1> DEFINE T == {s \in Searches : s.u <= Len(s.table) => ResultOf(BSearch[s], s)}
  <1>1. ASSUME NEW s \in Searches,
               \A t \in Searches : SearchSize[t] < SearchSize[s] => t \in T,
               s.u <= Len(s.table)
        PROVE  ResultOf(BSearch[s], s)
    <2> DEFINE table == s.table
               num == s.num
               l == s.l
               u == s.u
               m == Middle(s)
               c == AtMiddle(s)
    <2>1. /\ table \in Seq(Entry) /\ Len(table) \in Nat /\ num \in Int
          /\ l \in Nat /\ u \in Nat /\ u <= Len(table)
      BY <1>1 DEF Searches
    <2>2. BSearch[s] = BSearchStep(s, BSearch)
      BY BSearchEquation
    <2>3. CASE l >= u
      <3>1. BSearch[s] = 0
        BY <2>2, <2>3 DEF BSearchStep
      <3>2. (l + 1)..u = {}
        BY <2>1, <2>3
      <3> QED BY <2>1, <3>1, <3>2 DEF ResultOf, Outcome
    <2>4. CASE l < u
      <3>1. m \in l..(u - 1)
        BY <2>4, Sides
      <3>2. m + 1 \in 1..Len(table) /\ m \in Nat /\ table[m + 1] \in Entry
            /\ table[m + 1].number \in Int
        <4>1. m + 1 \in 1..Len(table) /\ m \in Nat
          BY <2>1, <3>1
        <4>2. table[m + 1] \in Entry
          BY <2>1, <4>1
        <4> QED BY <4>1, <4>2, DbTableAssumption DEF Entry
      <3>3. Near(num, table) =>
              /\ c \in Int
              /\ c < 0 <=> num < table[m + 1].number
              /\ c > 0 <=> num > table[m + 1].number
        <4> SUFFICES ASSUME Near(num, table)
                     PROVE  /\ c \in Int
                            /\ c < 0 <=> num < table[m + 1].number
                            /\ c > 0 <=> num > table[m + 1].number
          OBVIOUS
        <4>1. /\ num - table[m + 1].number < NumMod \div 2
              /\ table[m + 1].number - num < NumMod \div 2
          BY <3>2 DEF Near
        <4> QED BY <2>1, <3>2, <4>1, CompareOrders DEF AtMiddle
      <3>4. BSearch[s] = IF c < 0 THEN BSearch[Below(s)]
                         ELSE IF c > 0 THEN BSearch[Above(s)] ELSE m + 1
        BY <2>1, <2>2, <2>4 DEF BSearchStep
      <3>5. ResultOf(BSearch[Below(s)], Below(s)) /\ ResultOf(BSearch[Above(s)], Above(s))
        <4>1. Below(s) \in T /\ Above(s) \in T
          BY <1>1, <2>4, Sides
        <4>2. Below(s).u <= Len(Below(s).table) /\ Above(s).u <= Len(Above(s).table)
          BY <2>1, <2>4, <3>1, Sides
        <4> QED BY <4>1, <4>2
      <3> HIDE DEF m, c
      <3>6. Outcome(BSearch[Below(s)], table, num, l, m)
        <4>1. Outcome(BSearch[Below(s)], Below(s).table, Below(s).num, Below(s).l, Below(s).u)
          BY <3>5 DEF ResultOf
        <4> QED BY <2>4, <4>1, Sides DEF m
      <3>7. Outcome(BSearch[Above(s)], table, num, m + 1, u)
        <4>1. Outcome(BSearch[Above(s)], Above(s).table, Above(s).num, Above(s).l, Above(s).u)
          BY <3>5 DEF ResultOf
        <4> QED BY <2>4, <4>1, Sides DEF m
      <3>8. BSearch[s] \in 0..Len(table)
        BY <3>2, <3>4, <3>6, <3>7 DEF Outcome
      <3>9. ASSUME Sorted(table), Near(num, table)
            PROVE  IF \E i \in (l + 1)..u : table[i].number = num
                   THEN BSearch[s] # 0 /\ table[BSearch[s]].number = num
                   ELSE BSearch[s] = 0
        <4>1. \A i \in 1..Len(table) : table[i].number \in Int
          BY <2>1, ElementsAreEntries DEF Elements, NumbersIn
        <4>2. CASE c < 0
          <5>1. num < table[m + 1].number
            BY <3>3, <3>9, <4>2
          <5>2. ASSUME NEW i \in (m + 1)..u PROVE table[i].number # num
            <6>1. i \in 1..Len(table) /\ (i = m + 1 \/ m + 1 < i)
              BY <2>1, <3>2
            <6>2. table[m + 1].number <= table[i].number
              BY <3>2, <3>9, <4>1, <6>1 DEF Sorted
            <6> QED BY <2>1, <3>2, <4>1, <5>1, <6>1, <6>2
          <5>3. (\E i \in (l + 1)..u : table[i].number = num)
                  <=> (\E i \in (l + 1)..m : table[i].number = num)
            <6>1. \A i \in (l + 1)..u : i \in (l + 1)..m \/ i \in (m + 1)..u
              BY <2>1, <3>2
            <6>2. \A i \in (l + 1)..m : i \in (l + 1)..u
              BY <2>1, <3>1
            <6> QED BY <5>2, <6>1, <6>2
          <5> QED BY <3>4, <3>6, <3>9, <4>2, <5>3 DEF Outcome
        <4>3. CASE c > 0
          <5>1. num > table[m + 1].number /\ ~(c < 0)
            BY <3>3, <3>9, <4>3
          <5>2. ASSUME NEW i \in (l + 1)..(m + 1) PROVE table[i].number # num
            <6>1. i \in 1..Len(table) /\ (i = m + 1 \/ i < m + 1)
              BY <2>1, <3>2
            <6>2. table[i].number <= table[m + 1].number
              BY <3>2, <3>9, <4>1, <6>1 DEF Sorted
            <6> QED BY <2>1, <3>2, <4>1, <5>1, <6>1, <6>2
          <5>3. (\E i \in (l + 1)..u : table[i].number = num)
                  <=> (\E i \in (m + 2)..u : table[i].number = num)
            <6>1. \A i \in (l + 1)..u : i \in (m + 2)..u \/ i \in (l + 1)..(m + 1)
              BY <2>1, <3>2
            <6>2. \A i \in (m + 2)..u : i \in (l + 1)..u
              BY <2>1, <3>1, <3>2
            <6> QED BY <5>2, <6>1, <6>2
          <5>4. (m + 1) + 1 = m + 2
            BY <3>2
          <5> QED BY <3>2, <3>4, <3>7, <3>9, <4>3, <5>1, <5>3, <5>4 DEF Outcome
        <4>4. CASE ~(c < 0) /\ ~(c > 0)
          <5>1. num = table[m + 1].number
            BY <2>1, <3>2, <3>3, <3>9, <4>4
          <5>2. m + 1 \in (l + 1)..u /\ BSearch[s] = m + 1
            BY <2>1, <3>1, <3>4, <4>4
          <5> QED BY <3>2, <5>1, <5>2
        <4> QED BY <4>2, <4>3, <4>4
      <3> QED BY <3>8, <3>9 DEF ResultOf, Outcome
    <2> QED BY <2>1, <2>3, <2>4
  <1>2. IsInductive(Searches, SearchSize, T)
    <2>1. \A s \in Searches : (\A t \in Searches : SearchSize[t] < SearchSize[s] => t \in T)
                                => s \in T
      BY <1>1
    <2> HIDE DEF T
    <2> QED BY <2>1, SearchSizeType DEF IsInductive
  <1> HIDE DEF T
  <1>3. search \in T
    BY <1>2, MeasureInduction
  <1> QED BY <1>3 DEF T

(***************************************************************************)
(* lookup(): an index of the array or NULL, whatever the array; and, in a  *)
(* sorted array near the number, the entry that has it when one does.      *)
(***************************************************************************)
THEOREM LookupFinds ==
  ASSUME NEW table \in Seq(Entry), NEW num \in Int
  PROVE  LET r == Lookup(table, num)
         IN  /\ r \in 0..Len(table)
             /\ Sorted(table) /\ Near(num, table) =>
                  IF \E i \in 1..Len(table) : table[i].number = num
                  THEN r # 0 /\ table[r].number = num
                  ELSE r = 0
  <1> DEFINE s == [table |-> table, num |-> num, l |-> 0, u |-> Len(table)]
  <1>1. s \in Searches /\ s.u <= Len(s.table)
    BY DEF Searches
  <1>2. s.table = table /\ s.num = num /\ s.l = 0 /\ s.u = Len(table)
    OBVIOUS
  <1>3. Lookup(table, num) = BSearch[s]
    BY DEF Lookup
  <1> HIDE DEF s
  <1>4. ResultOf(BSearch[s], s)
    BY <1>1, BSearchFinds
  <1> QED BY <1>2, <1>3, <1>4 DEF ResultOf, Outcome

-----------------------------------------------------------------------------
(* The parser takes the entries before the first malformed line.            *)
LEMMA ParsedIsTheEntriesBefore ==
  ASSUME NEW f \in Seq(Entry \cup {Malformed})
  PROVE  \E n \in ParsedLines(f) :
           /\ \A m \in ParsedLines(f) : m <= n
           /\ Parsed(f) = SubSeq(f, 1, n) /\ Parsed(f) \in Seq(Entry) /\ Len(Parsed(f)) = n
  <1> DEFINE P == ParsedLines(f)
             Rest == {Len(f) - m : m \in P}
             Final(n) == \A m \in P : m <= n
  <1>1. Len(f) \in Nat /\ P \in SUBSET (0..Len(f))
    BY DEF ParsedLines
  <1>2. 0 \in P
    BY <1>1 DEF ParsedLines
  <1>3. Rest \in SUBSET Nat /\ Rest # {}
    BY <1>1, <1>2
  <1>4. \E n \in P : Final(n)
    <2>1. PICK r \in Rest : \A x \in Rest : r <= x
      <3> HIDE DEF Rest
      <3> QED BY <1>3, LeastElement
    <2>2. PICK n \in P : r = Len(f) - n
      BY <2>1
    <2>3. \A m \in P : Len(f) - n <= Len(f) - m
      BY <2>1, <2>2
    <2>4. \A m \in P : m <= n
      BY <1>1, <2>3
    <2> QED BY <2>4
  <1> DEFINE n == CHOOSE k \in P : Final(k)
  <1>5. n \in P /\ Final(n)
    <2> HIDE DEF Final, P
    <2> QED BY <1>4
  <1>6. Parsed(f) = SubSeq(f, 1, n)
    BY DEF Parsed
  <1> HIDE DEF n
  <1>7. n \in 0..Len(f) /\ \A i \in 1..n : f[i] # Malformed
    BY <1>5 DEF ParsedLines
  <1>8. \A i \in 1..n : i \in 1..Len(f) /\ f[i] \in Entry
    BY <1>1, <1>7
  <1>9. SubSeq(f, 1, n) = [i \in 1..n |-> f[i]]
    BY <1>7
  <1>10. SubSeq(f, 1, n) \in Seq(Entry) /\ Len(SubSeq(f, 1, n)) = n
    <2>1. \A i \in 1..n : f[i] \in Entry
      BY <1>8
    <2>2. n \in Nat
      BY <1>7
    <2> QED BY <1>9, <2>1, <2>2
  <1> QED BY <1>5, <1>6, <1>10

(* Of a file without malformed lines it takes them all.                     *)
LEMMA ParsedWhole ==
  ASSUME NEW f \in Seq(Entry)
  PROVE  Parsed(f) = f
  <1>1. Len(f) \in Nat /\ \A i \in 1..Len(f) : f[i] \in Entry
    OBVIOUS
  <1>2. Malformed \notin Entry
    BY DbTableAssumption DEF Entry, Malformed
  <1>3. Len(f) \in ParsedLines(f)
    BY <1>1, <1>2 DEF ParsedLines
  <1>4. f \in Seq(Entry \cup {Malformed})
    OBVIOUS
  <1>5. PICK n \in ParsedLines(f) :
          /\ \A m \in ParsedLines(f) : m <= n
          /\ Parsed(f) = SubSeq(f, 1, n)
    BY <1>4, ParsedIsTheEntriesBefore
  <1>6. n = Len(f)
    BY <1>1, <1>3, <1>5 DEF ParsedLines
  <1>7. SubSeq(f, 1, Len(f)) = f
    BY <1>1
  <1> QED BY <1>5, <1>6, <1>7
=============================================================================
