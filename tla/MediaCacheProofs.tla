--------------------------- MODULE MediaCacheProofs ---------------------------
(***************************************************************************)
(* Theorems about MediaCache, for every set of videos, goroutines and       *)
(* passes, every length of the files and every limit.                      *)
(***************************************************************************)
EXTENDS MediaCache, FiniteSetTheorems, SequenceTheorems, TLAPS

(* Sums.  What the fold of the community modules computes is found by induction  *)
(* on the set: no set is a smallest counterexample.                             *)

\* A nonempty set of subsets of a finite set has a smallest element.
LEMMA FiniteMin ==
  ASSUME NEW S, IsFiniteSet(S), NEW T \in SUBSET (SUBSET S), T # {}
  PROVE  \E x \in T : \A y \in T : ~(y \subseteq x /\ y # x)
<1>1. T \subseteq FiniteSubsetsOf(S)
  BY FS_FiniteSubsetsOfFinite
<1>2. \E x \in T : \A y \in T : <<y, x>> \notin StrictSubsetOrdering(S)
  BY <1>1, FS_StrictSubsetOrderingWellFounded, WFMin
<1> QED BY <1>2 DEF StrictSubsetOrdering

Pick(S) == CHOOSE v \in S : TRUE

\* g is the function that the fold over S is the value of.
Adds(g, S) ==
  g = [s \in SUBSET S |-> IF s = {} THEN 0 ELSE size[Pick(s)] + g[s \ {Pick(s)}]]

\* The element that is picked is one.
LEMMA PickIn ==
  ASSUME NEW S, NEW s \in SUBSET S, s # {}
  PROVE  Pick(s) \in s /\ s \ {Pick(s)} \in SUBSET S /\ s \ {Pick(s)} # s
BY DEF Pick

\* The recursion on a finite set has one solution,
LEMMA AddsUnique ==
  ASSUME NEW S, IsFiniteSet(S), NEW g, NEW h, Adds(g, S), Adds(h, S)
  PROVE  g = h
<1> DEFINE D == {s \in SUBSET S : g[s] # h[s]}
<1>1. CASE D # {}
  <2>1. D \in SUBSET (SUBSET S)
    OBVIOUS
  <2> HIDE DEF D
  <2>2. PICK s \in D : \A r \in D : ~(r \subseteq s /\ r # s)
    BY <1>1, <2>1, FiniteMin
  <2> USE DEF D
  <2>3. s # {}
    BY <2>2 DEF Adds
  <2>4. s \ {Pick(s)} \notin D /\ s \ {Pick(s)} \in SUBSET S
    BY <2>2, <2>3, PickIn
  <2> QED BY <2>2, <2>3, <2>4 DEF Adds
<1>2. CASE D = {}
  <2>1. \A s \in SUBSET S : g[s] = h[s]
    BY <1>2
  <2> QED BY <2>1 DEF Adds
<1> QED BY <1>1, <1>2

\* which a subset inherits,
LEMMA AddsSubset ==
  ASSUME NEW S, NEW R \in SUBSET S, NEW g, Adds(g, S)
  PROVE  Adds([s \in SUBSET R |-> g[s]], R)
<1> DEFINE h == [s \in SUBSET R |-> g[s]]
<1>1. ASSUME NEW s \in SUBSET R
      PROVE  h[s] = IF s = {} THEN 0 ELSE size[Pick(s)] + h[s \ {Pick(s)}]
  <2>1. s \in SUBSET S /\ (s # {} => s \ {Pick(s)} \in SUBSET R)
    OBVIOUS
  <2> QED BY <2>1 DEF Adds
<1> QED BY <1>1 DEF Adds

\* and there is one.
LEMMA AddsExists ==
  ASSUME NEW S, IsFiniteSet(S)
  PROVE  \E g : Adds(g, S)
<1> DEFINE T == {s \in SUBSET S : ~\E g : Adds(g, s)}
           G(s) == CHOOSE g : Adds(g, s)
<1>1. T \in SUBSET (SUBSET S)
  OBVIOUS
<1>2. ASSUME T # {} PROVE FALSE
  <2> HIDE DEF T
  <2>1. PICK s \in T : \A r \in T : ~(r \subseteq s /\ r # s)
    BY <1>1, <1>2, FiniteMin
  <2> USE DEF T
  <2>2. s \in SUBSET S
    OBVIOUS
  <2>3. ASSUME NEW r \in SUBSET s, r # s PROVE Adds(G(r), r) /\ IsFiniteSet(r)
    <3>1. r \in SUBSET S /\ r \notin T
      BY <2>1, <2>2, <2>3
    <3>2. \E g : Adds(g, r)
      BY <3>1
    <3> QED BY <3>1, <3>2, FS_Subset
  <2> HIDE DEF G
  <2> DEFINE h == [r \in SUBSET s |->
                     IF r = {} THEN 0 ELSE size[Pick(r)] + G(r \ {Pick(r)})[r \ {Pick(r)}]]
  <2>4. ASSUME NEW r \in SUBSET s, r # s PROVE h[r] = G(r)[r]
    <3>1. Adds(G(r), r) /\ IsFiniteSet(r)
      BY <2>3, <2>4
    <3>2. CASE r = {}
      BY <3>1, <3>2 DEF Adds
    <3>3. CASE r # {}
      <4> DEFINE q == r \ {Pick(r)}
      <4>1. q \in SUBSET r /\ q # r /\ q \in SUBSET s /\ q # s
        BY <3>3, PickIn
      <4>2. Adds(G(q), q) /\ IsFiniteSet(q)
        BY <2>3, <4>1
      <4>3. Adds([t \in SUBSET q |-> G(r)[t]], q)
        BY <3>1, <4>1, AddsSubset
      <4>4. G(q) = [t \in SUBSET q |-> G(r)[t]]
        BY <4>2, <4>3, AddsUnique
      <4>5. G(q)[q] = G(r)[q]
        BY <4>4
      <4>6. G(r)[r] = size[Pick(r)] + G(r)[q]
        BY <3>1, <3>3 DEF Adds
      <4> QED BY <3>3, <4>5, <4>6
    <3> QED BY <3>2, <3>3
  <2>5. ASSUME NEW r \in SUBSET s, r # {} PROVE h[r] = size[Pick(r)] + h[r \ {Pick(r)}]
    <3>1. r \ {Pick(r)} \in SUBSET s /\ r \ {Pick(r)} # s
      BY <2>5, PickIn
    <3>2. h[r] = size[Pick(r)] + G(r \ {Pick(r)})[r \ {Pick(r)}]
      BY <2>5
    <3> HIDE DEF h
    <3> QED BY <2>4, <3>1, <3>2
  <2>6. Adds(h, s)
    <3>1. h = [r \in SUBSET s |-> IF r = {} THEN 0 ELSE size[Pick(r)] + h[r \ {Pick(r)}]]
      <4>1. \A r \in SUBSET s : h[r] = IF r = {} THEN 0 ELSE size[Pick(r)] + h[r \ {Pick(r)}]
        <5>1. h[{}] = 0
          OBVIOUS
        <5> HIDE DEF h
        <5> QED BY <2>5, <5>1
      <4>2. h = [r \in SUBSET s |-> h[r]]
        OBVIOUS
      <4> HIDE DEF h
      <4> QED BY <4>1, <4>2
    <3> HIDE DEF h
    <3> QED BY <3>1 DEF Adds
  <2> QED BY <2>1, <2>6
<1>3. S \notin T
  BY <1>2
<1> QED BY <1>3

\* The bytes of a finite set of rows are the value of that function,
LEMMA BytesAdd ==
  ASSUME NEW S, IsFiniteSet(S)
  PROVE  \E g : Adds(g, S) /\ Bytes(S) = g[S]
<1>1. Bytes(S) = (CHOOSE g : Adds(g, S))[S]
  BY DEF Bytes, MapThenSumSet, MapThenFoldSet, Adds, Pick
<1> QED BY <1>1, AddsExists

\* and a length.
LEMMA BytesType ==
  ASSUME size \in [Videos -> Nat], NEW S \in SUBSET Videos, IsFiniteSet(S)
  PROVE  Bytes(S) \in Nat
<1>1. PICK g : Adds(g, S) /\ Bytes(S) = g[S]
  BY BytesAdd
<1> DEFINE D == {s \in SUBSET S : g[s] \notin Nat}
<1>2. ASSUME D # {} PROVE FALSE
  <2>1. D \in SUBSET (SUBSET S)
    OBVIOUS
  <2> HIDE DEF D
  <2>2. PICK s \in D : \A r \in D : ~(r \subseteq s /\ r # s)
    BY <1>2, <2>1, FiniteMin
  <2> USE DEF D
  <2>3. g[s] = IF s = {} THEN 0 ELSE size[Pick(s)] + g[s \ {Pick(s)}]
    BY <1>1, <2>2 DEF Adds
  <2>4. CASE s # {}
    <3>1. Pick(s) \in s /\ s \ {Pick(s)} \in SUBSET S /\ s \ {Pick(s)} # s
      BY <2>2, <2>4, PickIn
    <3>2. g[s \ {Pick(s)}] \in Nat
      BY <2>2, <3>1
    <3>3. size[Pick(s)] \in Nat
      BY <2>2, <3>1
    <3> QED BY <2>2, <2>3, <2>4, <3>2, <3>3
  <2> QED BY <2>2, <2>3, <2>4
<1>3. g[S] \in Nat
  BY <1>2
<1> QED BY <1>1, <1>3

\* Bytes goes by what is picked,
LEMMA BytesStep ==
  ASSUME NEW S, IsFiniteSet(S)
  PROVE  Bytes(S) = IF S = {} THEN 0 ELSE size[Pick(S)] + Bytes(S \ {Pick(S)})
<1>1. PICK g : Adds(g, S) /\ Bytes(S) = g[S]
  BY BytesAdd
<1>2. CASE S = {}
  BY <1>1, <1>2 DEF Adds
<1>3. CASE S # {}
  <2> DEFINE R == S \ {Pick(S)}
  <2>1. R \in SUBSET S /\ IsFiniteSet(R)
    BY FS_Subset
  <2>2. PICK h : Adds(h, R) /\ Bytes(R) = h[R]
    BY <2>1, BytesAdd
  <2>3. Adds([s \in SUBSET R |-> g[s]], R)
    BY <1>1, <2>1, AddsSubset
  <2>4. h = [s \in SUBSET R |-> g[s]]
    BY <2>1, <2>2, <2>3, AddsUnique
  <2>5. Bytes(R) = g[R]
    BY <2>2, <2>4
  <2>6. Bytes(S) = size[Pick(S)] + g[R]
    BY <1>1, <1>3 DEF Adds
  <2> QED BY <1>3, <2>5, <2>6
<1> QED BY <1>2, <1>3

\* but any element will do,
LEMMA BytesOfOne ==
  ASSUME size \in [Videos -> Nat], NEW S \in SUBSET Videos, IsFiniteSet(S), NEW x \in S
  PROVE  Bytes(S) = size[x] + Bytes(S \ {x})
<1> DEFINE D == {s \in SUBSET S : \E y \in s : Bytes(s) # size[y] + Bytes(s \ {y})}
<1>1. ASSUME D # {} PROVE FALSE
  <2>1. D \in SUBSET (SUBSET S)
    OBVIOUS
  <2> HIDE DEF D
  <2>2. PICK s \in D : \A r \in D : ~(r \subseteq s /\ r # s)
    BY <1>1, <2>1, FiniteMin
  <2> USE DEF D
  <2>3. PICK y \in s : Bytes(s) # size[y] + Bytes(s \ {y})
    OBVIOUS
  <2> DEFINE z == Pick(s)
  <2>4. s \in SUBSET S /\ z \in s
    BY <2>3, PickIn
  <2>5. ASSUME NEW r \in SUBSET s PROVE Bytes(r) \in Nat /\ IsFiniteSet(r)
    <3>1. r \in SUBSET Videos /\ IsFiniteSet(r)
      BY <2>4, FS_Subset
    <3> QED BY <3>1, BytesType
  <2>6. Bytes(s) = size[z] + Bytes(s \ {z})
    BY <2>3, <2>5, BytesStep
  <2> HIDE DEF z
  <2>7. y # z
    BY <2>3, <2>6
  <2>8. s \ {y} \notin D /\ s \ {z} \notin D /\ s \ {y} \in SUBSET S /\ s \ {z} \in SUBSET S
    BY <2>2, <2>3, <2>4
  <2>9. Bytes(s \ {y}) = size[z] + Bytes((s \ {y}) \ {z})
    BY <2>4, <2>7, <2>8
  <2>10. Bytes(s \ {z}) = size[y] + Bytes((s \ {z}) \ {y})
    BY <2>3, <2>7, <2>8
  <2>11. (s \ {y}) \ {z} = (s \ {z}) \ {y}
    OBVIOUS
  <2>12. Bytes((s \ {z}) \ {y}) \in Nat /\ size[y] \in Nat /\ size[z] \in Nat
    BY <2>3, <2>4, <2>5
  <2> QED BY <2>3, <2>6, <2>9, <2>10, <2>11, <2>12
<1> QED BY <1>1

\* and the bytes of a part and of the rest are those of the whole.
LEMMA BytesOfRest ==
  ASSUME size \in [Videos -> Nat], NEW S \in SUBSET Videos, IsFiniteSet(S), NEW R \in SUBSET S
  PROVE  Bytes(S) = Bytes(R) + Bytes(S \ R)
<1> DEFINE D == {r \in SUBSET S : Bytes(S) # Bytes(r) + Bytes(S \ r)}
<1>0. ASSUME NEW r \in SUBSET S PROVE Bytes(r) \in Nat /\ IsFiniteSet(r) /\ r \in SUBSET Videos
  BY FS_Subset, BytesType
<1>1. ASSUME D # {} PROVE FALSE
  <2>1. D \in SUBSET (SUBSET S)
    OBVIOUS
  <2> HIDE DEF D
  <2>2. PICK r \in D : \A q \in D : ~(q \subseteq r /\ q # r)
    BY <1>1, <2>1, FiniteMin
  <2> USE DEF D
  <2>3. r \in SUBSET S /\ Bytes(S) # Bytes(r) + Bytes(S \ r)
    OBVIOUS
  <2>4. CASE r = {}
    <3>1. Bytes(r) = 0 /\ S \ r = S /\ Bytes(S) \in Nat
      BY <1>0, <2>4, BytesStep
    <3> QED BY <2>3, <3>1
  <2>5. CASE r # {}
    <3>1. PICK x \in r : TRUE
      BY <2>5
    <3> DEFINE q == r \ {x}
    <3>2. Bytes(S) = Bytes(q) + Bytes(S \ q)
      BY <2>2, <2>3, <3>1
    <3>3. Bytes(r) = size[x] + Bytes(q)
      BY <1>0, <2>3, <3>1, BytesOfOne
    <3>4. S \ q \in SUBSET S /\ x \in S \ q /\ (S \ q) \ {x} = S \ r
      BY <2>3, <3>1
    <3>5. Bytes(S \ q) = size[x] + Bytes(S \ r)
      BY <1>0, <3>4, BytesOfOne
    <3>6. Bytes(q) \in Nat /\ Bytes(S \ r) \in Nat /\ size[x] \in Nat
      BY <1>0, <2>3, <3>1
    <3> HIDE DEF q
    <3> QED BY <2>3, <3>2, <3>3, <3>5, <3>6
  <2> QED BY <2>4, <2>5
<1> QED BY <1>1

-------------------------------------------------------------------------------
(* Tables, and what is left to do *)

\* A nonempty set of numbers has a least one.
LEMMA Least ==
  ASSUME NEW S \in SUBSET Nat, S # {}
  PROVE  Min(S) \in S /\ \A n \in S : Min(S) <= n
<1>1. PICK n \in S : TRUE
  OBVIOUS
<1> DEFINE K == 0 .. n
           T == {t \in SUBSET K : \E m \in S : m <= n /\ t = 0 .. m}
<1>2. IsFiniteSet(K)
  BY FS_Interval
<1>3. T \in SUBSET (SUBSET K) /\ 0 .. n \in T
  BY <1>1
<1>4. PICK x \in T : \A y \in T : ~(y \subseteq x /\ y # x)
  <2> HIDE DEF T, K
  <2> QED BY <1>2, <1>3, FiniteMin
<1>5. PICK m \in S : m <= n /\ x = 0 .. m
  OBVIOUS
<1>6. ASSUME NEW k \in S PROVE m <= k
  <2>1. CASE k < m
    <3>1. 0 .. k \in T
      BY <1>5, <2>1
    <3>2. 0 .. k \subseteq x /\ m \in x /\ m \notin 0 .. k
      BY <1>5, <2>1
    <3> HIDE DEF T
    <3> QED BY <1>4, <3>1, <3>2
  <2> QED BY <2>1
<1> QED BY <1>6 DEF Min

\* The rows of a table are finitely many.
LEMMA RowsFinite ==
  ASSUME NEW s \in Seq(Videos)
  PROVE  IsFiniteSet(ToSet(s)) /\ ToSet(s) \in SUBSET Videos
<1>1. IsFiniteSet(1 .. Len(s))
  BY FS_Interval
<1>2. s \in Surjection(1 .. Len(s), ToSet(s))
  BY DEF Surjection, ToSet
<1> QED BY <1>1, <1>2, FS_Surjection DEF ToSet

\* What follows the head of a sequence without repetitions has none.
LEMMA TailInjective ==
  ASSUME NEW S, NEW s \in Seq(S), s # <<>>, IsInjective(s)
  PROVE  IsInjective(Tail(s))
<1> DEFINE t == Tail(s)
<1>1. /\ t \in Seq(S) /\ Len(t) = Len(s) - 1 /\ Len(s) \in Nat
      /\ \A i \in 1 .. Len(t) : t[i] = s[i + 1]
  BY HeadTailProperties
<1> HIDE DEF t
<1>2. DOMAIN s = 1 .. Len(s) /\ DOMAIN t = 1 .. Len(s) - 1
  BY <1>1
<1>3. ASSUME NEW a \in DOMAIN t, NEW b \in DOMAIN t, t[a] = t[b]
      PROVE  a = b
  <2>1. a + 1 \in DOMAIN s /\ b + 1 \in DOMAIN s /\ s[a + 1] = s[b + 1]
    BY <1>1, <1>2, <1>3
  <2> QED BY <1>2, <2>1 DEF IsInjective
<1>4. IsInjective(t)
  BY <1>3 DEF IsInjective
<1> QED BY <1>4 DEF t

\* RemoveFirst
LEMMA Removed ==
  ASSUME NEW s \in Seq(Videos), IsInjective(s), NEW v
  PROVE  /\ RemoveFirst(s, v) \in Seq(Videos) /\ IsInjective(RemoveFirst(s, v))
         /\ ToSet(RemoveFirst(s, v)) = ToSet(s) \ {v}
<1>1. CASE \E i \in 1 .. Len(s) : s[i] = v
  <2> DEFINE I == {i \in 1 .. Len(s) : s[i] = v}
             k == Min(I)
             r == SubSeq(s, 1, k - 1) \o SubSeq(s, k + 1, Len(s))
  <2>0. I \in SUBSET Nat /\ I # {}
    BY <1>1
  <2>1. Len(s) \in Nat /\ k \in 1 .. Len(s) /\ s[k] = v
    <3>1. k \in I
      BY <2>0, Least
    <3> HIDE DEF k
    <3> QED BY <3>1
  <2>2. RemoveFirst(s, v) = r
    BY <1>1 DEF RemoveFirst, RemoveAt, SelectInSeq
  <2>3. \A i \in 1 .. Len(s) : s[i] = v => i = k
    BY <2>1 DEF IsInjective
  <2> HIDE DEF k
  <2>4. /\ r \in Seq(Videos) /\ Len(r) = Len(s) - 1
        /\ \A i \in 1 .. Len(r) : r[i] = IF i < k THEN s[i] ELSE s[i + 1]
    <3> DEFINE a == SubSeq(s, 1, k - 1)
               b == SubSeq(s, k + 1, Len(s))
    <3>1. /\ a \in Seq(Videos) /\ Len(a) = k - 1
          /\ \A i \in 1 .. k - 1 : a[i] = s[i]
      BY <2>1, SubSeqProperties
    <3>2. /\ b \in Seq(Videos) /\ Len(b) = Len(s) - k
          /\ \A i \in 1 .. Len(s) - k : b[i] = s[k + i]
      BY <2>1, SubSeqProperties
    <3> HIDE DEF a, b
    <3>3. /\ a \o b \in Seq(Videos) /\ Len(a \o b) = Len(a) + Len(b)
          /\ \A i \in 1 .. Len(a) + Len(b) :
               (a \o b)[i] = IF i <= Len(a) THEN a[i] ELSE b[i - Len(a)]
      BY <3>1, <3>2, ConcatProperties
    <3>4. ASSUME NEW i \in 1 .. Len(s) - 1
          PROVE  (a \o b)[i] = IF i < k THEN s[i] ELSE s[i + 1]
      <4>1. CASE i < k
        BY <2>1, <3>1, <3>2, <3>3, <4>1
      <4>2. CASE i >= k
        <5>1. i - Len(a) \in 1 .. Len(s) - k /\ i - Len(a) = i - k + 1
          BY <2>1, <3>1, <4>2
        <5>2. b[i - Len(a)] = s[k + (i - k + 1)]
          BY <3>2, <5>1
        <5> QED BY <2>1, <3>1, <3>2, <3>3, <4>2, <5>2
      <4>3. i < k \/ i >= k
        BY <2>1
      <4> QED BY <4>1, <4>2, <4>3
    <3>5. Len(a \o b) = Len(s) - 1
      BY <2>1, <3>1, <3>2, <3>3
    <3>6. r = a \o b
      BY DEF a, b
    <3> QED BY <3>3, <3>4, <3>5, <3>6
  <2> HIDE DEF r
  <2>5. IsInjective(r)
    <3> SUFFICES ASSUME NEW i \in 1 .. Len(r), NEW j \in 1 .. Len(r), r[i] = r[j]
                 PROVE  i = j
      BY <2>4 DEF IsInjective
    <3> DEFINE at(n) == IF n < k THEN n ELSE n + 1
    <3>1. ASSUME NEW n \in 1 .. Len(r) PROVE at(n) \in 1 .. Len(s) /\ r[n] = s[at(n)]
      <4>1. n \in Nat /\ 1 <= n /\ n <= Len(s) - 1
        BY <2>1, <2>4
      <4>2. at(n) \in 1 .. Len(s)
        BY <2>1, <4>1
      <4> QED BY <2>4, <4>2
    <3>2. at(i) = at(j)
      <4> HIDE DEF at
      <4> QED BY <3>1 DEF IsInjective
    <3>3. i \in Nat /\ j \in Nat /\ k \in Nat
      BY <2>1, <2>4
    <3> QED BY <3>2, <3>3
  <2>6. ASSUME NEW x PROVE x \in ToSet(r) <=> x \in ToSet(s) \ {v}
    <3>1. ASSUME NEW i \in 1 .. Len(r), x = r[i] PROVE x \in ToSet(s) \ {v}
      <4>1. i \in 1 .. Len(s) /\ i + 1 \in 1 .. Len(s)
        BY <2>1, <2>4
      <4>2. PICK j \in 1 .. Len(s) : j # k /\ x = s[j]
        <5>1. CASE i < k
          BY <2>1, <2>4, <3>1, <4>1, <5>1
        <5>2. CASE i >= k
          BY <2>1, <2>4, <3>1, <4>1, <5>2
        <5> QED BY <2>1, <4>1, <5>1, <5>2
      <4> QED BY <2>3, <4>2 DEF ToSet
    <3>2. ASSUME NEW i \in 1 .. Len(s), x = s[i], x # v PROVE x \in ToSet(r)
      <4>1. CASE i < k
        <5>1. i \in 1 .. Len(r) /\ r[i] = x
          BY <2>1, <2>4, <3>2, <4>1
        <5> QED BY <5>1, <2>4 DEF ToSet
      <4>2. CASE i > k
        <5>1. i - 1 \in 1 .. Len(r) /\ r[i - 1] = x
          BY <2>1, <2>4, <3>2, <4>2
        <5> QED BY <5>1, <2>4 DEF ToSet
      <4> QED BY <2>1, <3>2, <4>1, <4>2
    <3> QED BY <2>4, <3>1, <3>2 DEF ToSet
  <2> QED BY <2>2, <2>4, <2>5, <2>6
<1>2. CASE ~ \E i \in 1 .. Len(s) : s[i] = v
  BY <1>2 DEF RemoveFirst, ToSet
<1> QED BY <1>1, <1>2

\* A row that is entered comes last.
LEMMA Entered ==
  ASSUME NEW s \in Seq(Videos), IsInjective(s), NEW v \in Videos
  PROVE  LET r == Append(RemoveFirst(s, v), v)
         IN  r \in Seq(Videos) /\ IsInjective(r) /\ ToSet(r) = ToSet(s) \cup {v}
<1> DEFINE q == RemoveFirst(s, v)
           r == Append(q, v)
<1>1. q \in Seq(Videos) /\ IsInjective(q) /\ ToSet(q) = ToSet(s) \ {v}
  BY Removed
<1> HIDE DEF q
<1>2. /\ r \in Seq(Videos) /\ Len(r) = Len(q) + 1
      /\ \A i \in 1 .. Len(q) : r[i] = q[i] /\ q[i] # v
      /\ r[Len(q) + 1] = v
  <2>1. \A i \in 1 .. Len(q) : q[i] # v
    BY <1>1 DEF ToSet
  <2> QED BY <1>1, <2>1, AppendProperties
<1> HIDE DEF r
<1>3. IsInjective(r)
  <2> SUFFICES ASSUME NEW i \in 1 .. Len(r), NEW j \in 1 .. Len(r), r[i] = r[j]
               PROVE  i = j
    BY <1>2 DEF IsInjective
  <2>1. Len(q) \in Nat
    BY <1>1
  <2>2. CASE i \in 1 .. Len(q) /\ j \in 1 .. Len(q)
    BY <1>1, <1>2, <2>2 DEF IsInjective
  <2>3. CASE i = Len(q) + 1 \/ j = Len(q) + 1
    BY <1>2, <2>1, <2>3
  <2> QED BY <1>2, <2>1, <2>2, <2>3
<1>4. ToSet(r) = ToSet(q) \cup {v}
  <2>1. /\ DOMAIN r = 1 .. Len(q) + 1 /\ DOMAIN q = 1 .. Len(q) /\ Len(q) \in Nat
        /\ ToSet(r) = {r[i] : i \in DOMAIN r} /\ ToSet(q) = {q[i] : i \in DOMAIN q}
    BY <1>1, <1>2 DEF ToSet
  <2>2. DOMAIN r = DOMAIN q \cup {Len(q) + 1}
    BY <2>1
  <2>3. \A i \in DOMAIN q : r[i] = q[i]
    BY <1>2, <2>1
  <2> QED BY <1>2, <2>1, <2>2, <2>3
<1> QED BY <1>1, <1>3, <1>4 DEF q, r

\* The members of a sequence are its first one and the rest.
LEMMA HeadAndTail ==
  ASSUME NEW S, NEW s \in Seq(S), s # <<>>
  PROVE  ToSet(s) = {Head(s)} \cup ToSet(Tail(s))
<1>1. /\ Len(s) \in Nat \ {0} /\ DOMAIN s = 1 .. Len(s) /\ Head(s) = s[1]
      /\ DOMAIN Tail(s) = 1 .. Len(s) - 1
      /\ \A i \in 1 .. Len(s) - 1 : Tail(s)[i] = s[i + 1]
  BY EmptySeq, LenProperties, HeadTailProperties
<1>2. ASSUME NEW i \in 1 .. Len(s) PROVE s[i] \in {Head(s)} \cup ToSet(Tail(s))
  <2>1. CASE i = 1
    BY <1>1, <2>1
  <2>2. CASE i # 1
    <3>1. i - 1 \in DOMAIN Tail(s) /\ Tail(s)[i - 1] = s[i]
      BY <1>1, <2>2
    <3> QED BY <3>1 DEF ToSet
  <2> QED BY <2>1, <2>2
<1>3. ASSUME NEW i \in DOMAIN Tail(s) PROVE i + 1 \in DOMAIN s /\ Tail(s)[i] = s[i + 1]
  BY <1>1
<1>4. 1 \in DOMAIN s
  BY <1>1
<1> QED BY <1>1, <1>2, <1>3, <1>4 DEF ToSet

\* What follows a step of a registration.
LEMMA TodoTail ==
  ASSUME NEW t \in Todos, t # <<>>, Head(t) \in {"mark", "stat", "upsert"}
  PROVE  Tail(t) \in Todos /\ (Head(t) = "stat" => Tail(t) # <<>>)
<1>1. CASE t = <<"stat", "upsert">>
  <2>1. Tail(t) = <<"upsert">>
    BY <1>1
  <2> QED BY <1>1, <2>1 DEF Todos
<1>2. CASE t = <<"upsert">>
  <2>1. Tail(t) = <<>>
    BY <1>2
  <2> QED BY <1>2, <2>1 DEF Todos
<1>3. CASE t = <<"stat", "mark", "upsert">>
  <2>1. Tail(t) = <<"mark", "upsert">>
    BY <1>3
  <2> QED BY <1>3, <2>1 DEF Todos
<1>4. CASE t = <<"mark", "upsert">>
  <2>1. Tail(t) = <<"upsert">>
    BY <1>4
  <2> QED BY <1>4, <2>1 DEF Todos
<1>5. CASE t = <<"stat", "upsert", "mark">>
  <2>1. Tail(t) = <<"upsert", "mark">>
    BY <1>5
  <2> QED BY <1>5, <2>1 DEF Todos
<1>6. CASE t = <<"upsert", "mark">>
  <2>1. Tail(t) = <<"mark">>
    BY <1>6
  <2> QED BY <1>6, <2>1 DEF Todos
<1>7. CASE t = <<"mark">>
  <2>1. Tail(t) = <<>>
    BY <1>7
  <2> QED BY <1>7, <2>1 DEF Todos
<1>8. CASE t = <<"stat", "upsert", "exit">>
  <2>1. Tail(t) = <<"upsert", "exit">>
    BY <1>8
  <2> QED BY <1>8, <2>1 DEF Todos
<1>9. CASE t = <<"upsert", "exit">>
  <2>1. Tail(t) = <<"exit">>
    BY <1>9
  <2> QED BY <1>9, <2>1 DEF Todos
<1> QED BY <1>1, <1>2, <1>3, <1>4, <1>5, <1>6, <1>7, <1>8, <1>9 DEF Todos

\* What makes a file one that will be entered.
Will == {"fetch", "grow", "upsert"}

\* Marking and looking at a file are not among it,
LEMMA TodoRest ==
  ASSUME NEW t \in Todos, t # <<>>, Head(t) \in {"mark", "stat"}
  PROVE  ToSet(Tail(t)) \cap Will = ToSet(t) \cap Will
<1> DEFINE K == {"mark", "stat", "upsert", "exit"}
<1>1. ASSUME NEW a \in K, NEW b \in K, NEW c \in K
      PROVE  <<a>> \in Seq(K) /\ <<a, b>> \in Seq(K) /\ <<a, b, c>> \in Seq(K)
  OBVIOUS
<1>2. t \in {<<"mark">>, <<"stat", "upsert">>, <<"mark", "upsert">>,
             <<"stat", "mark", "upsert">>, <<"stat", "upsert", "mark">>,
             <<"stat", "upsert", "exit">>}
  BY DEF Todos
<1>3. t \in Seq(K)
  <2>1. {"mark", "stat", "upsert", "exit"} \subseteq K
    OBVIOUS
  <2> HIDE DEF K
  <2> QED BY <1>1, <1>2, <2>1
<1> QED BY <1>3, HeadAndTail DEF Will

\* and the other steps are the only one left.
LEMMA TodoLast ==
  ASSUME NEW t \in Todos, t # <<>>, Head(t) \in {"resolve", "download", "exit"}
  PROVE  ToSet(t) \cap Will = {}
BY DEF Todos, Will, ToSet

-------------------------------------------------------------------------------
(* Types *)

\* The size of the cache is a number,
LEMMA TotalType ==
  ASSUME FilesOK
  PROVE  Total \in Nat
BY RowsFinite, BytesType DEF FilesOK, Total

\* and the oldest rows are a beginning of the table, no longer than it need be.
LEMMA OldestRows ==
  ASSUME FilesOK, NEW limit
  PROVE  /\ Oldest(limit) \in Seq(Videos) /\ IsInjective(Oldest(limit))
         /\ \E m \in 0 .. Len(lru) :
              /\ Oldest(limit) = SubSeq(lru, 1, m)
              /\ m = Len(lru) \/ Bytes(ToSet(SubSeq(lru, 1, m))) >= limit
              /\ \A n \in 1 .. m - 1 : ~(Bytes(ToSet(SubSeq(lru, 1, n))) >= limit)
<1> DEFINE ms == {Len(lru)} \cup {n \in 1 .. Len(lru) : Bytes(ToSet(SubSeq(lru, 1, n))) >= limit}
           m == Min(ms)
<1>1. ms \in SUBSET Nat /\ ms # {} /\ \A n \in ms : n <= Len(lru)
  BY LenProperties DEF FilesOK
<1>2. m \in ms /\ m \in Nat /\ m <= Len(lru) /\ \A n \in ms : m <= n
  <2> HIDE DEF ms
  <2> QED BY <1>1, Least
<1>3. Oldest(limit) = SubSeq(lru, 1, m)
  BY DEF Oldest
<1> HIDE DEF m
<1>4. /\ SubSeq(lru, 1, m) \in Seq(Videos) /\ DOMAIN SubSeq(lru, 1, m) = 1 .. m
      /\ \A i \in 1 .. m : i \in DOMAIN lru /\ SubSeq(lru, 1, m)[i] = lru[i]
  BY <1>2 DEF FilesOK
<1>5. Oldest(limit) \in Seq(Videos) /\ IsInjective(Oldest(limit))
  BY <1>3, <1>4 DEF FilesOK, IsInjective
<1>6. Len(lru) \in Nat
  BY LenProperties DEF FilesOK
<1>7. m = Len(lru) \/ Bytes(ToSet(SubSeq(lru, 1, m))) >= limit
  BY <1>2
<1>8. ASSUME NEW n \in 1 .. m - 1 PROVE ~(Bytes(ToSet(SubSeq(lru, 1, n))) >= limit)
  <2>1. n \in 1 .. Len(lru) /\ ~(m <= n)
    BY <1>2, <1>6
  <2> QED BY <1>2, <2>1
<1> QED BY <1>2, <1>3, <1>5, <1>6, <1>7, <1>8

\* A goroutine that has something to do does it to a video,
LEMMA TurnTypes ==
  ASSUME WritersOK, NEW n \in Names, writer[n].todo # <<>>, NEW steps \in Todos,
         NEW t \in BOOLEAN, Turn(n, steps, t)
  PROVE  /\ WritersOK'
         /\ writer[n].vid \in Videos
         /\ writer'[n].todo = steps /\ (steps # <<>> => writer'[n].vid = writer[n].vid)
         /\ \A k \in Names : k # n => writer'[k] = writer[k]
<1>1. Idle \in [todo : Todos, vid : MaybeVideo, len : Nat, thumb : BOOLEAN]
  BY DEF Idle, Busy, Todos, MaybeVideo
<1> QED BY <1>1 DEF WritersOK, Turn, MaybeVideo, Idle, Busy

\* to the same file, as a rule,
LEMMA ThenTypes ==
  ASSUME WritersOK, NEW n \in Names, writer[n].todo # <<>>, NEW steps \in Todos, Then(n, steps)
  PROVE  /\ WritersOK'
         /\ writer[n].vid \in Videos
         /\ writer'[n].todo = steps /\ (steps # <<>> => writer'[n].vid = writer[n].vid)
         /\ \A k \in Names : k # n => writer'[k] = writer[k]
<1>1. writer[n].thumb \in BOOLEAN /\ Turn(n, steps, writer[n].thumb)
  BY DEF WritersOK, Then
<1> QED BY <1>1, TurnTypes

\* and one that has not may get something to do.
LEMMA BeginTypes ==
  ASSUME WritersOK, NEW n \in Names, NEW v \in Videos, NEW t \in Todos, t # <<>>,
         writer' = [writer EXCEPT ![n] = Busy(t, v)]
  PROVE  WritersOK'
BY MediaCacheAssumption DEF WritersOK, MaybeVideo, MediaCacheAssumption, Busy

\* Whatever a goroutine finds, it goes on with something to do,
LEMMA Turns ==
  ASSUME WritersOK, NEW n \in Names, Play(n) \/ Fetch(n)
  PROVE  \E steps \in Todos, t \in BOOLEAN : Turn(n, steps, t)
<1>1. writer[n].thumb \in BOOLEAN
  BY DEF WritersOK
<1>2. ASSUME NEW steps \in Todos, Then(n, steps)
      PROVE  \E s \in Todos, t \in BOOLEAN : Turn(n, s, t)
  BY <1>1, <1>2 DEF Then
<1>3. {<<>>, <<"stat", "upsert">>, <<"stat", "mark", "upsert">>, <<"download">>, <<"fetch">>,
       <<"grow">>, <<"exit">>, <<"stat", "upsert", "exit">>, <<"stat", "upsert", "mark">>}
        \subseteq Todos
  BY DEF Todos
<1>4. CASE ResolveCachedPath(n)
  <2>1. \/ \E steps \in {<<>>, <<"stat", "mark", "upsert">>, <<"download">>} : Then(n, steps)
        \/ Turn(n, <<"stat", "upsert">>, <<"song", writer[n].vid>> \in thumbs)
    BY <1>4 DEF ResolveCachedPath, Done
  <2>2. (<<"song", writer[n].vid>> \in thumbs) \in BOOLEAN
    OBVIOUS
  <2>3. <<"stat", "upsert">> \in Todos
    BY <1>3
  <2>4. CASE Turn(n, <<"stat", "upsert">>, <<"song", writer[n].vid>> \in thumbs)
    BY <2>2, <2>3, <2>4, Zenon
  <2> QED BY <1>2, <1>3, <2>1, <2>4
<1>5. CASE StartBackgroundDownload(n) \/ WorkerExit(n)
  <2>1. \E steps \in {<<>>, <<"stat", "upsert">>, <<"fetch">>} : Then(n, steps)
    BY <1>5 DEF StartBackgroundDownload, WorkerExit, Done
  <2> QED BY <1>2, <1>3, <2>1
<1>6. CASE FetchBegins(n)
  BY <1>2, <1>3, <1>6 DEF FetchBegins
<1>7. CASE FetchEnds(n)
  <2>1. \/ \E steps \in {<<>>, <<"exit">>, <<"stat", "upsert", "exit">>} : Then(n, steps)
        \/ \E t \in BOOLEAN : Turn(n, <<"stat", "upsert", "mark">>, t)
    BY <1>7 DEF FetchEnds, Done
  <2> QED BY <1>2, <1>3, <2>1
<1> QED BY <1>4, <1>5, <1>6, <1>7 DEF Play, Fetch

\* and the file that it registers is that of its row.
LEMMA NamedTypes ==
  ASSUME FilesOK, NEW n
  PROVE  /\ Named(n, "song") \subseteq ({"media"} \X ToSet(lru))
                                         \cup ({"song"} \X (path \cup {writer[n].vid}))
         /\ Named(n, "media") \subseteq ({"media"} \X (ToSet(lru) \cup {writer[n].vid}))
                                         \cup ({"song"} \X path)
         /\ thumbs \subseteq ({"media"} \X ToSet(lru))
                               \cup ({"song"} \X (path \cup {writer[n].vid}))
<1>1. thumbs \subseteq ({"media"} \X ToSet(lru)) \cup ({"song"} \X path)
  BY DEF FilesOK
<1>2. /\ Named(n, "song") \subseteq thumbs \cup {<<"song", writer[n].vid>>}
      /\ Named(n, "media") \subseteq thumbs \cup {<<"media", writer[n].vid>>}
  BY DEF Named
<1> QED BY <1>1, <1>2

\* Registration keeps the types,
LEMMA RegisterTypes ==
  ASSUME TypeOK, NEW n \in Names, Register(n)
  PROVE  TypeOK'
<1> DEFINE t == writer[n].todo
           v == writer[n].vid
<1> USE DEF TypeOK
<1>1. t \in Todos /\ t # <<>> /\ v \in Videos /\ Tail(t) \in Todos /\ writer[n].len \in Nat
  <2>1. t \in Todos /\ t # <<>> /\ Head(t) \in {"mark", "stat", "upsert"}
    BY DEF WritersOK, Register, MarkDownloaded, Stat, UpsertMediaCache, Todo
  <2> QED BY <2>1, TodoTail DEF WritersOK, MaybeVideo
<1>2. CASE MarkDownloaded(n)
  <2>1. WritersOK'
    BY <1>1, <1>2, ThenTypes DEF MarkDownloaded
  <2>2. thumbs' \subseteq ({"media"} \X ToSet(lru)) \cup ({"song"} \X (path \cup {v}))
    BY <1>2, NamedTypes DEF MarkDownloaded
  <2>3. path' = path \cup {v} /\ UNCHANGED <<disk, lru, size, active>>
    BY <1>2 DEF MarkDownloaded
  <2>4. FilesOK'
    BY <1>1, <2>2, <2>3 DEF FilesOK
  <2> QED BY <1>2, <2>1, <2>4 DEF MarkDownloaded, PassesOK
<1>3. CASE Stat(n)
  <2>1. Tail(t) # <<>>
    BY <1>1, <1>3, TodoTail DEF Stat, Todo
  <2>2. disk[v] \in Nat
    BY <1>1 DEF FilesOK
  <2>3. PICK len \in Nat : writer' = [writer EXCEPT ![n].todo = Tail(t), ![n].len = len]
    BY <1>3, <2>2, MediaCacheAssumption DEF Stat, MediaCacheAssumption
  <2>4. WritersOK'
    BY <1>1, <2>1, <2>3 DEF WritersOK
  <2> QED BY <1>3, <2>4 DEF Stat, FilesOK, PassesOK, tables
<1>4. CASE UpsertMediaCache(n)
  <2>1. WritersOK'
    BY <1>1, <1>4, ThenTypes DEF UpsertMediaCache
  <2>2. lru' \in Seq(Videos) /\ IsInjective(lru') /\ ToSet(lru') = ToSet(lru) \cup {v}
    BY <1>1, <1>4, Entered DEF UpsertMediaCache, FilesOK
  <2>4. thumbs' \subseteq ({"media"} \X ToSet(lru')) \cup ({"song"} \X path)
    BY <1>4, <2>2, NamedTypes DEF UpsertMediaCache
  <2>5. size' = [size EXCEPT ![v] = writer[n].len] /\ UNCHANGED <<disk, path, active>>
    BY <1>4 DEF UpsertMediaCache
  <2>3. FilesOK'
    BY <1>1, <2>2, <2>4, <2>5 DEF FilesOK
  <2> QED BY <1>4, <2>1, <2>3 DEF UpsertMediaCache, PassesOK
<1> QED BY <1>2, <1>3, <1>4 DEF Register

\* downloads do,
LEMMA FetchTypes ==
  ASSUME TypeOK, NEW n \in Names, Fetch(n) \/ FetchFails(n)
  PROVE  TypeOK'
<1> DEFINE v == writer[n].vid
<1> USE DEF TypeOK
<1>1. writer[n].todo # <<>> /\ v \in Videos /\ SizeOf[v] \in Nat /\ SizeOf[v] >= 1
  <2>1. writer[n].todo # <<>>
    BY DEF Fetch, FetchBegins, FetchEnds, FetchFails, Todo
  <2> QED BY <2>1, MediaCacheAssumption DEF WritersOK, MaybeVideo, MediaCacheAssumption
<1>2. {<<>>, <<"grow">>, <<"exit">>} \subseteq Todos
  BY DEF Todos
<1>3. CASE FetchBegins(n)
  <2>1. WritersOK'
    BY <1>1, <1>2, <1>3, ThenTypes DEF FetchBegins
  <2> QED BY <1>1, <1>3, <2>1 DEF FetchBegins, FilesOK, PassesOK, tables
<1>4. CASE FetchEnds(n)
  <2>1. WritersOK'
    BY <1>1, <1>4, Turns, TurnTypes DEF Fetch
  <2>2. disk' \in [Videos -> Nat] /\ \A k \in Videos : disk'[k] <= SizeOf[k]
    <3>1. disk' = [disk EXCEPT ![v] = SizeOf[v]] \/ disk' = disk
      BY <1>4 DEF FetchEnds
    <3>2. disk \in [Videos -> Nat] /\ \A k \in Videos : disk[k] <= SizeOf[k]
      BY DEF FilesOK
    <3> HIDE DEF v
    <3> QED BY <1>1, <3>1, <3>2
  <2>3. UNCHANGED <<tables, active, downloads, pass, sync, events>>
    BY <1>4 DEF FetchEnds
  <2> QED BY <2>1, <2>2, <2>3 DEF FilesOK, PassesOK, tables
<1>5. CASE FetchFails(n)
  <2>1. WritersOK'
    BY <1>1, <1>2, <1>5, ThenTypes DEF FetchFails
  <2> QED BY <1>5, <2>1 DEF FetchFails, FilesOK, PassesOK, tables, Event
<1> QED BY <1>3, <1>4, <1>5 DEF Fetch

\* the goroutines of StartStream, the prefetch worker and SyncCacheDir do,
LEMMA PlayTypes ==
  ASSUME TypeOK, NEW n \in Names, Play(n)
  PROVE  TypeOK'
<1> USE DEF TypeOK
<1>1. writer[n].todo # <<>>
  BY DEF Play, ResolveCachedPath, StartBackgroundDownload, WorkerExit, Todo
<1>3. WritersOK' /\ writer[n].vid \in Videos
  BY <1>1, Turns, TurnTypes
<1>4. downloads' \subseteq Videos
  BY <1>3 DEF Play, ResolveCachedPath, StartBackgroundDownload, WorkerExit
<1>5. UNCHANGED <<disk, tables, active, pass, sync, events>>
  BY DEF Play, ResolveCachedPath, StartBackgroundDownload, WorkerExit
<1> QED BY <1>3, <1>4, <1>5 DEF FilesOK, PassesOK, tables

LEMMA BeginningTypes ==
  ASSUME TypeOK,
         \/ \E v \in Videos : PrefetchTrack(v) \/ \E w \in Writers : StartStream(w, v)
         \/ Sync
  PROVE  TypeOK'
<1> USE DEF TypeOK
<1>1. ASSUME NEW v \in Videos, PrefetchTrack(v) PROVE TypeOK'
  <2>1. WritersOK'
    BY <1>1, BeginTypes DEF PrefetchTrack, Names, Todos
  <2> QED BY <1>1, <2>1 DEF PrefetchTrack, FilesOK, PassesOK, tables, Event
<1>2. ASSUME NEW v \in Videos, NEW w \in Writers, StartStream(w, v) PROVE TypeOK'
  <2>1. WritersOK'
    BY <1>2, BeginTypes DEF StartStream, Names, Todos
  <2> QED BY <1>2, <2>1 DEF StartStream, FilesOK, PassesOK, tables, Event, MaybeVideo
<1>3. CASE SyncReadDir \/ SyncReport
  BY <1>3 DEF SyncReadDir, SyncReport, FilesOK, PassesOK, WritersOK, tables
<1>4. CASE SyncFile
  <2>1. ASSUME NEW v \in sync.left,
               writer' = [writer EXCEPT ![Syncer] =
                            Busy(<<"stat", "mark", "upsert">>, v)]
        PROVE  WritersOK'
    <3>1. Syncer \in Names /\ v \in Videos /\ <<"stat", "mark", "upsert">> \in Todos
      BY DEF Names, Todos
    <3> QED BY <2>1, <3>1, BeginTypes
  <2>2. WritersOK'
    BY <1>4, <2>1 DEF SyncFile, WritersOK
  <2>3. sync' \in [at : {"dir", "report", "files", "done"}, left : SUBSET Videos]
    BY <1>4 DEF SyncFile
  <2> QED BY <1>4, <2>2, <2>3 DEF SyncFile, FilesOK, PassesOK, tables
<1> QED BY <1>1, <1>2, <1>3, <1>4 DEF Sync

\* passes do,
LEMMA EvictTypes ==
  ASSUME TypeOK, NEW p \in Passes, Evict(p) \/ \E v \in Videos : ClearCache(p, v)
  PROVE  TypeOK'
<1> DEFINE rows == pass[p].rows
           Pass == [at : {"rest", "rows", "active", "files", "row"}, rows : Seq(Videos),
                    active : MaybeVideo, excess : Nat]
           Good(r) == /\ r \in Pass /\ (r.rows = <<>> <=> r.at \in {"rest", "rows"})
                      /\ IsInjective(r.rows) /\ (r.excess > 0 <=> r.at = "rows")
<1> USE DEF TypeOK
<1>1. Good(pass[p]) /\ rows \in Seq(Videos)
  BY DEF PassesOK
<1>2. PassesOK => \A r : Good(r) /\ pass' = [pass EXCEPT ![p] = r] => PassesOK'
  BY DEF PassesOK
<1>3. Good(Rest)
  BY DEF Rest, MaybeVideo, IsInjective
<1>4. CASE GetCacheTotalSize(p)
  <2>1. Total - MaxBytes \in Nat /\ Total - MaxBytes > 0
    BY <1>4, TotalType, MediaCacheAssumption DEF GetCacheTotalSize, MediaCacheAssumption
  <2>2. PassesOK'
    BY <1>1, <1>4, <2>1 DEF GetCacheTotalSize, PassesOK
  <2> QED BY <1>4, <2>2 DEF GetCacheTotalSize, FilesOK, WritersOK, tables
<1>5. CASE GetLRUMediaFiles(p)
  <2>1. Oldest(pass[p].excess) \in Seq(Videos) /\ IsInjective(Oldest(pass[p].excess))
    BY OldestRows
  <2>2. PassesOK'
    <3>1. CASE Oldest(pass[p].excess) = <<>>
      BY <1>1, <1>5, <2>1, <3>1 DEF GetLRUMediaFiles, Goto, PassesOK
    <3>2. CASE Oldest(pass[p].excess) # <<>>
      BY <1>1, <1>5, <2>1, <3>2 DEF GetLRUMediaFiles, Goto, PassesOK
    <3> QED BY <3>1, <3>2
  <2> QED BY <1>5, <2>2 DEF GetLRUMediaFiles, FilesOK, WritersOK, tables
<1>6. CASE ReadActive(p)
  <2>1. PassesOK'
    BY <1>1, <1>6 DEF ReadActive, PassesOK, FilesOK
  <2> QED BY <1>6, <2>1 DEF ReadActive, FilesOK, WritersOK, tables
<1>7. pass[p].at \in {"files", "row"} /\ NextRow(p) => PassesOK'
  <2> SUFFICES ASSUME pass[p].at \in {"files", "row"}, NextRow(p) PROVE PassesOK'
    OBVIOUS
  <2>1. CASE Len(rows) = 1
    <3>1. pass' = [pass EXCEPT ![p] = Rest]
      BY <2>1 DEF NextRow
    <3> QED BY <1>2, <1>3, <3>1
  <2>2. CASE Len(rows) # 1
    <3>1. rows # <<>>
      BY <1>1
    <3>2. /\ Tail(rows) \in Seq(Videos) /\ Len(Tail(rows)) = Len(rows) - 1
          /\ \A i \in 1 .. Len(Tail(rows)) : Tail(rows)[i] = rows[i + 1]
          /\ Len(rows) \in Nat \ {0}
      BY <1>1, <3>1, HeadTailProperties, EmptySeq
    <3>3. IsInjective(Tail(rows))
      BY <1>1, <3>1, TailInjective
    <3>4. Tail(rows) # <<>>
      <4>1. Len(Tail(rows)) # 0
        BY <2>2, <3>2
      <4> HIDE DEF rows
      <4> QED BY <4>1, EmptySeq
    <3>5. Good([pass[p] EXCEPT !.at = "files", !.rows = Tail(rows)])
      <4>1. pass[p].at \in {"files", "row"} /\ pass[p] \in Pass /\ ~(pass[p].excess > 0)
        BY <1>1
      <4> QED BY <3>2, <3>3, <3>4, <4>1
    <3>6. pass' = [pass EXCEPT ![p] = [pass[p] EXCEPT !.at = "files", !.rows = Tail(rows)]]
      BY <2>2 DEF NextRow
    <3> HIDE DEF Good
    <3> QED BY <1>2, <3>5, <3>6
  <2> QED BY <2>1, <2>2
<1>8. CASE SkipActive(p)
  BY <1>7, <1>8 DEF SkipActive, FilesOK, WritersOK, tables
<1>9. pass[p].at \in {"files", "row"} => Head(rows) \in Videos
  BY <1>1, HeadTailProperties
<1>10. CASE DeleteCacheFiles(p)
  <2>1. PassesOK'
    BY <1>1, <1>10 DEF DeleteCacheFiles, PassesOK
  <2>2. disk' \in [Videos -> Nat] /\ \A v \in Videos : disk'[v] <= SizeOf[v]
    <3>1. Head(rows) \in Videos /\ disk' = [disk EXCEPT ![Head(rows)] = 0]
      BY <1>9, <1>10 DEF DeleteCacheFiles
    <3>2. \A v \in Videos : SizeOf[v] \in Nat
      BY MediaCacheAssumption DEF MediaCacheAssumption
    <3> HIDE DEF rows
    <3> QED BY <3>1, <3>2 DEF FilesOK
  <2>3. UNCHANGED <<tables, active, downloads, writer, sync, events>>
    BY <1>10 DEF DeleteCacheFiles
  <2> QED BY <2>1, <2>2, <2>3 DEF FilesOK, WritersOK, tables
<1>11. CASE DeleteCacheByVideoID(p)
  <2>1. PassesOK'
    BY <1>7, <1>11 DEF DeleteCacheByVideoID
  <2>2. FilesOK'
    BY <1>9, <1>11, Removed DEF DeleteCacheByVideoID, FilesOK
  <2> QED BY <1>11, <2>1, <2>2 DEF DeleteCacheByVideoID, WritersOK, Event
<1>12. ASSUME NEW v \in Videos, ClearCache(p, v) PROVE TypeOK'
  <2>1. <<v>> \in Seq(Videos) /\ IsInjective(<<v>>) /\ <<v>> # <<>>
    BY DEF IsInjective
  <2>2. PassesOK'
    BY <1>1, <1>12, <2>1 DEF ClearCache, PassesOK
  <2> QED BY <1>12, <2>2 DEF ClearCache, FilesOK, WritersOK, tables, Event
<1> QED BY <1>4, <1>5, <1>6, <1>8, <1>10, <1>11, <1>12 DEF Evict

\* A pass that has been told the size of the cache as it is takes as many rows as
\* bring it to the limit, whatever the sizes of the files, and with one row less
\* it would not have been enough.
THEOREM PassFreesEnough ==
  ASSUME FilesOK, Total > MaxBytes
  PROVE  LET rows == Oldest(Total - MaxBytes)
         IN  /\ rows # <<>>
             /\ Bytes(ToSet(lru) \ ToSet(rows)) <= MaxBytes
             /\ \A n \in 1 .. Len(rows) - 1 :
                  Bytes(ToSet(lru) \ ToSet(SubSeq(lru, 1, n))) > MaxBytes
<1> DEFINE limit == Total - MaxBytes
           rows == Oldest(limit)
<1>1. Total \in Nat /\ MaxBytes \in Nat /\ limit \in Nat \ {0}
  BY TotalType, MediaCacheAssumption DEF MediaCacheAssumption
<1>2. lru \in Seq(Videos) /\ Len(lru) \in Nat /\ size \in [Videos -> Nat]
  BY LenProperties DEF FilesOK
<1> HIDE DEF limit
<1>3. PICK m \in 0 .. Len(lru) :
        /\ rows = SubSeq(lru, 1, m)
        /\ m = Len(lru) \/ Bytes(ToSet(SubSeq(lru, 1, m))) >= limit
        /\ \A n \in 1 .. m - 1 : ~(Bytes(ToSet(SubSeq(lru, 1, n))) >= limit)
  BY OldestRows
<1>4. ASSUME NEW n \in 0 .. Len(lru)
      PROVE  /\ Bytes(ToSet(SubSeq(lru, 1, n))) \in Nat
             /\ Bytes(ToSet(lru) \ ToSet(SubSeq(lru, 1, n))) \in Nat
             /\ Total = Bytes(ToSet(SubSeq(lru, 1, n)))
                          + Bytes(ToSet(lru) \ ToSet(SubSeq(lru, 1, n)))
             /\ Len(SubSeq(lru, 1, n)) = n
  <2> DEFINE S == ToSet(lru)
             R == ToSet(SubSeq(lru, 1, n))
  <2>1. /\ SubSeq(lru, 1, n) \in Seq(Videos) /\ DOMAIN SubSeq(lru, 1, n) = 1 .. n
        /\ Len(SubSeq(lru, 1, n)) = n
        /\ \A i \in 1 .. n : i \in DOMAIN lru /\ SubSeq(lru, 1, n)[i] = lru[i]
    BY <1>2
  <2>2. R \in SUBSET S
    BY <2>1 DEF ToSet
  <2>3. S \in SUBSET Videos /\ IsFiniteSet(S) /\ IsFiniteSet(R) /\ IsFiniteSet(S \ R)
    BY <1>2, <2>2, RowsFinite, FS_Subset
  <2>4. Total = Bytes(S)
    BY DEF Total
  <2> HIDE DEF S, R
  <2>5. Bytes(R) \in Nat /\ Bytes(S \ R) \in Nat /\ Bytes(S) = Bytes(R) + Bytes(S \ R)
    BY <1>2, <2>2, <2>3, BytesType, BytesOfRest
  <2> QED BY <2>1, <2>4, <2>5 DEF S, R
<1>5. Bytes(ToSet(rows)) >= limit
  <2>1. CASE m = Len(lru)
    <3>1. SubSeq(lru, 1, m) = lru
      BY <1>2, <2>1, SubSeqFull
    <3>2. Bytes(ToSet(rows)) = Total
      BY <1>3, <3>1 DEF Total
    <3> QED BY <1>1, <3>2 DEF limit
  <2>2. CASE m # Len(lru)
    BY <1>3, <2>2
  <2> QED BY <2>1, <2>2
<1>6. Bytes(ToSet(lru) \ ToSet(rows)) <= MaxBytes
  <2> DEFINE R == SubSeq(lru, 1, m)
  <2>1. /\ Bytes(ToSet(R)) \in Nat /\ Bytes(ToSet(lru) \ ToSet(R)) \in Nat
        /\ Total = Bytes(ToSet(R)) + Bytes(ToSet(lru) \ ToSet(R))
    BY <1>4
  <2>2. rows = R /\ Bytes(ToSet(R)) >= limit
    BY <1>3, <1>5
  <2> HIDE DEF R, rows
  <2> QED BY <1>1, <2>1, <2>2 DEF limit
<1>7. ASSUME NEW n \in 1 .. Len(rows) - 1
      PROVE  Bytes(ToSet(lru) \ ToSet(SubSeq(lru, 1, n))) > MaxBytes
  <2>1. n \in 1 .. m - 1 /\ n \in 0 .. Len(lru)
    BY <1>2, <1>3, <1>4
  <2>2. Bytes(ToSet(SubSeq(lru, 1, n))) < limit
    <3>1. ~(Bytes(ToSet(SubSeq(lru, 1, n))) >= limit)
      BY <1>3, <2>1
    <3>2. Bytes(ToSet(SubSeq(lru, 1, n))) \in Nat
      BY <1>4, <2>1
    <3> QED BY <1>1, <3>1, <3>2
  <2> DEFINE R == SubSeq(lru, 1, n)
  <2>3. /\ Bytes(ToSet(R)) \in Nat /\ Bytes(ToSet(lru) \ ToSet(R)) \in Nat
        /\ Total = Bytes(ToSet(R)) + Bytes(ToSet(lru) \ ToSet(R))
    BY <1>4, <2>1
  <2>4. Bytes(ToSet(R)) < limit
    BY <2>2
  <2> HIDE DEF R
  <2>5. Bytes(ToSet(lru) \ ToSet(R)) > MaxBytes
    BY <1>1, <2>3, <2>4 DEF limit
  <2> QED BY <2>5 DEF R
<1>8. rows # <<>>
  <2>1. CASE rows = <<>>
    <3>1. ToSet(rows) = {}
      BY <2>1 DEF ToSet
    <3>2. Bytes(ToSet(rows)) = 0
      BY <3>1, FS_EmptySet, BytesStep
    <3> QED BY <1>1, <1>5, <3>2
  <2> QED BY <2>1
<1> QED BY <1>6, <1>7, <1>8 DEF limit

\* What the worker and the tables rely on, however registrations, downloads,
\* passes and crashes overlap: a video has one row in media_cache, only a video
\* with a row counts, a pass never deletes the same video twice and never has an
\* empty list of rows to delete, and no file is longer than its song.
THEOREM CacheTypes == Spec => []TypeOK
<1>1. Init => TypeOK
  <2> SUFFICES ASSUME Init PROVE TypeOK
    OBVIOUS
  <2> USE MediaCacheAssumption DEF MediaCacheAssumption
  <2>1. lru \in Seq(Videos) /\ IsInjective(lru)
    <3>1. PICK n \in 0 .. Cardinality(Videos) : lru \in [1 .. n -> Videos]
      BY Zenon DEF Init
    <3> QED BY <3>1 DEF Init
  <2>2. FilesOK
    <3>1. disk = size /\ size \in [Videos -> Nat]
      <4>1. \A v \in Videos : SizeOf[v] \in Nat
        OBVIOUS
      <4> QED BY <4>1 DEF Init
    <3>2. ASSUME NEW v \in Videos
          PROVE  disk[v] <= SizeOf[v] /\ (v \notin ToSet(lru) => size[v] = 0)
      <4>1. SizeOf[v] \in Nat
        OBVIOUS
      <4>2. /\ size[v] = (IF v \in ToSet(lru) THEN SizeOf[v] ELSE 0)
            /\ disk[v] = size[v]
        BY DEF Init
      <4> QED BY <4>1, <4>2
    <3>3. path \subseteq Videos /\ thumbs = {}
      BY <2>1 DEF Init, ToSet
    <3>4. active \in MaybeVideo
      BY DEF Init, MaybeVideo
    <3> QED BY <2>1, <3>1, <3>2, <3>3, <3>4 DEF FilesOK
  <2>3. PassesOK
    BY DEF Init, PassesOK, Rest, IsInjective, MaybeVideo
  <2>4. WritersOK
    BY DEF Init, WritersOK, Idle, Busy, Todos, MaybeVideo
  <2> QED BY <2>2, <2>3, <2>4 DEF Init, TypeOK
<1>2. TypeOK /\ [Next]_vars => TypeOK'
  <2> SUFFICES ASSUME TypeOK, [Next]_vars PROVE TypeOK'
    OBVIOUS
  <2>1. ASSUME NEW v \in Videos, TouchMediaCache(v) PROVE TypeOK'
    <3>1. lru' \in Seq(Videos) /\ IsInjective(lru') /\ ToSet(lru') = ToSet(lru)
      <4>1. /\ lru \in Seq(Videos) /\ IsInjective(lru) /\ v \in ToSet(lru)
            /\ lru' = Append(RemoveFirst(lru, v), v)
        BY <2>1 DEF TouchMediaCache, TypeOK, FilesOK
      <4>2. LET r == Append(RemoveFirst(lru, v), v)
            IN  r \in Seq(Videos) /\ IsInjective(r) /\ ToSet(r) = ToSet(lru) \cup {v}
        BY <4>1, Entered, Zenon
      <4> QED BY <4>1, <4>2
    <3> QED BY <2>1, <3>1 DEF TouchMediaCache, TypeOK, FilesOK, PassesOK, WritersOK
  <2>2. CASE Crash
    <3>1. PassesOK'
      BY <2>2 DEF Crash, PassesOK, Rest, IsInjective, MaybeVideo
    <3>2. WritersOK'
      BY <2>2 DEF Crash, WritersOK, Idle, Busy, Todos, MaybeVideo
    <3> QED BY <2>2, <3>1, <3>2 DEF Crash, TypeOK, FilesOK, MaybeVideo, tables, Event
  <2>3. CASE UNCHANGED vars
    BY <2>3 DEF vars, tables, TypeOK, FilesOK, PassesOK, WritersOK
  <2>4. Writers \subseteq Names
    BY DEF Names
  <2> QED BY <2>1, <2>2, <2>3, <2>4, RegisterTypes, FetchTypes, PlayTypes, BeginningTypes,
             EvictTypes DEF Next, Passes
<1> QED BY <1>1, <1>2, PTL DEF Spec

-------------------------------------------------------------------------------
(* Files that nobody counts *)

\* n will enter the file of v.
Enters(n, v) == writer[n].vid = v /\ ToSet(writer[n].todo) \cap Will # {}

\* What keeps a file from being forgotten: it is not written, its row stays, and
\* whoever was to enter it still is.
LEMMA NotForgotten ==
  ASSUME NEW v, ~Uncounted(v),
         disk'[v] > 0 => disk[v] > 0,
         v \in ToSet(lru) => v \in ToSet(lru'),
         \A n \in Names : Enters(n, v) => Enters(n, v)'
  PROVE  ~Uncounted(v)'
BY DEF Uncounted, Enters, Will

\* A goroutine that was not to enter a file is not missed,
LEMMA OthersEnter ==
  ASSUME NEW n \in Names, NEW v, ~Enters(n, v) \/ Enters(n, v)',
         \A k \in Names : k # n => writer'[k] = writer[k]
  PROVE  \A k \in Names : Enters(k, v) => Enters(k, v)'
BY DEF Enters

\* and one with nothing to do enters none.
LEMMA IdleEnters ==
  ASSUME NEW n, writer[n] = Idle, NEW v
  PROVE  ~Enters(n, v)
BY DEF Idle, Busy, Enters, ToSet

\* A registration enters the file,
LEMMA RegisterForgets ==
  ASSUME TypeOK, NEW n \in Names, Register(n), NEW v \in Videos, ~Uncounted(v)
  PROVE  ~Uncounted(v)'
<1> DEFINE t == writer[n].todo
<1>1. t \in Todos /\ t # <<>> /\ Head(t) \in {"mark", "stat", "upsert"} /\ Tail(t) \in Todos
  <2>1. t \in Todos /\ t # <<>> /\ Head(t) \in {"mark", "stat", "upsert"}
    BY DEF TypeOK, WritersOK, Register, MarkDownloaded, Stat, UpsertMediaCache, Todo
  <2> QED BY <2>1, TodoTail
<1>2. CASE MarkDownloaded(n)
  <2>1. Then(n, Tail(t)) /\ UNCHANGED <<disk, lru>> /\ Head(t) = "mark"
    BY <1>2 DEF MarkDownloaded, Todo
  <2>2. ToSet(Tail(t)) \cap Will = ToSet(t) \cap Will
    BY <1>1, <2>1, TodoRest
  <2>3. /\ writer'[n].todo = Tail(t) /\ (Tail(t) # <<>> => writer'[n].vid = writer[n].vid)
        /\ \A k \in Names : k # n => writer'[k] = writer[k]
    BY <1>1, <2>1, ThenTypes DEF TypeOK
  <2>4. Tail(t) = <<>> => ToSet(Tail(t)) = {}
    BY DEF ToSet
  <2>5. ~Enters(n, v) \/ Enters(n, v)'
    BY <2>2, <2>3, <2>4 DEF Enters
  <2> QED BY <2>1, <2>3, <2>5, OthersEnter, NotForgotten
<1>3. CASE Stat(n)
  <2>1. Head(t) = "stat" /\ UNCHANGED <<disk, lru>>
    BY <1>3 DEF Stat, Todo, tables
  <2>2. /\ writer'[n].todo = Tail(t) /\ writer'[n].vid = writer[n].vid
        /\ \A k \in Names : k # n => writer'[k] = writer[k]
    BY <1>3 DEF Stat, TypeOK, WritersOK
  <2>3. ToSet(Tail(t)) \cap Will = ToSet(t) \cap Will
    BY <1>1, <2>1, TodoRest
  <2>4. ~Enters(n, v) \/ Enters(n, v)'
    BY <2>2, <2>3 DEF Enters
  <2> QED BY <2>1, <2>2, <2>4, OthersEnter, NotForgotten
<1>4. CASE UpsertMediaCache(n)
  <2>1. Then(n, Tail(t)) /\ UNCHANGED disk
    BY <1>4 DEF UpsertMediaCache
  <2>2. /\ writer[n].vid \in Videos
        /\ \A k \in Names : k # n => writer'[k] = writer[k]
    BY <1>1, <2>1, ThenTypes DEF TypeOK
  <2>3. ToSet(lru') = ToSet(lru) \cup {writer[n].vid}
    BY <1>4, <2>2, Entered DEF UpsertMediaCache, TypeOK, FilesOK
  <2>4. CASE v = writer[n].vid
    BY <2>3, <2>4 DEF Uncounted
  <2>5. CASE v # writer[n].vid
    <3>1. ~Enters(n, v)
      BY <2>5 DEF Enters
    <3> QED BY <2>1, <2>2, <2>3, <3>1, OthersEnter, NotForgotten
  <2> QED BY <2>4, <2>5
<1> QED BY <1>2, <1>3, <1>4 DEF Register

\* a download that does not fail will,
LEMMA FetchForgets ==
  ASSUME TypeOK, NEW n \in Names, Fetch(n), NEW v \in Videos, ~Uncounted(v)
  PROVE  ~Uncounted(v)'
<1> DEFINE t == writer[n].todo
           w == writer[n].vid
<1>1. t # <<>>
  BY DEF Fetch, FetchBegins, FetchEnds, Todo
<1>2. lru' = lru /\ w \in Videos /\ \A k \in Names : k # n => writer'[k] = writer[k]
  <2>1. WritersOK /\ lru' = lru
    BY DEF TypeOK, Fetch, FetchBegins, FetchEnds, tables
  <2> QED BY <1>1, <2>1, Turns, TurnTypes
<1>3. CASE v # w
  <2>1. ~Enters(n, v)
    BY <1>3 DEF Enters
  <2>2. disk'[v] = disk[v]
    BY <1>3 DEF Fetch, FetchBegins, FetchEnds, TypeOK, FilesOK
  <2> QED BY <1>2, <2>1, <2>2, OthersEnter, NotForgotten
<1>4. CASE v = w /\ Enters(n, v)'
  BY <1>4 DEF Uncounted, Enters, Will
<1>5. CASE v = w /\ ~(disk'[v] > 0)
  BY <1>5 DEF Uncounted
<1>6. v = w => Enters(n, v)' \/ ~(disk'[v] > 0)
  <2> SUFFICES ASSUME v = w, disk'[v] > 0 PROVE Enters(n, v)'
    OBVIOUS
  <2>1. ASSUME NEW steps \in {<<"grow">>, <<"stat", "upsert", "mark">>,
                              <<"stat", "upsert", "exit">>}
        PROVE  ToSet(steps) \cap Will # {} /\ steps \in Todos
    BY DEF ToSet, Will, Todos
  <2>2. WritersOK /\ writer[n].thumb \in BOOLEAN
    BY DEF TypeOK, WritersOK
  <2>3. \E steps \in {<<"grow">>, <<"stat", "upsert", "mark">>, <<"stat", "upsert", "exit">>},
           b \in BOOLEAN : Turn(n, steps, b)
    <3>1. CASE FetchBegins(n)
      BY <2>2, <3>1 DEF FetchBegins, Then
    <3>2. CASE FetchEnds(n)
      <4>1. ~(disk[w] = 0)
        <5>1. disk[w] > 0 \/ disk' = disk
          BY <3>2 DEF FetchEnds
        <5> QED BY <5>1
      <4>2. \/ Then(n, <<"stat", "upsert", "exit">>)
            \/ \E b \in BOOLEAN : Turn(n, <<"stat", "upsert", "mark">>, b)
        BY <3>2, <4>1 DEF FetchEnds
      <4> QED BY <2>2, <4>2 DEF Then
    <3> QED BY <3>1, <3>2 DEF Fetch
  <2>4. PICK steps \in Todos, b \in BOOLEAN :
           Turn(n, steps, b) /\ ToSet(steps) \cap Will # {}
    BY <2>1, <2>3
  <2>5. steps # <<>>
    BY <2>4 DEF ToSet
  <2>6. writer'[n].todo = steps /\ writer'[n].vid = w
    BY <1>1, <2>2, <2>4, <2>5, TurnTypes
  <2> QED BY <2>4, <2>6 DEF Enters
<1> QED BY <1>3, <1>4, <1>5, <1>6

\* and no other goroutine has been going to.
LEMMA PlayForgets ==
  ASSUME TypeOK, NEW n \in Names, Play(n), NEW v \in Videos, ~Uncounted(v)
  PROVE  ~Uncounted(v)'
<1> DEFINE t == writer[n].todo
<1>1. t \in Todos /\ t # <<>> /\ Head(t) \in {"resolve", "download", "exit"}
  BY DEF Play, ResolveCachedPath, StartBackgroundDownload, WorkerExit, Todo, TypeOK, WritersOK
<1>2. ~Enters(n, v)
  BY <1>1, TodoLast DEF Enters
<1>3. UNCHANGED <<disk, lru>>
  BY DEF Play, ResolveCachedPath, StartBackgroundDownload, WorkerExit, tables
<1>5. \A k \in Names : k # n => writer'[k] = writer[k]
  BY <1>1, Turns, TurnTypes DEF TypeOK
<1> QED BY <1>2, <1>3, <1>5, OthersEnter, NotForgotten

\* Nor has one that only begins.
LEMMA BeginningForgets ==
  ASSUME TypeOK, NEW v \in Videos, ~Uncounted(v),
         \/ \E k \in Videos : PrefetchTrack(k) \/ \E w \in Writers : StartStream(w, k)
         \/ Sync
  PROVE  ~Uncounted(v)'
<1>1. UNCHANGED <<disk, lru>>
  BY DEF PrefetchTrack, StartStream, Sync, SyncReadDir, SyncReport, SyncFile, tables
<1>2. \/ UNCHANGED writer
      \/ \E n \in Names : /\ writer[n] = Idle
                          /\ \A k \in Names : k # n => writer'[k] = writer[k]
  <2>1. Prefetcher \in Names /\ Syncer \in Names /\ Writers \subseteq Names
    BY DEF Names
  <2> QED BY <2>1 DEF PrefetchTrack, StartStream, Sync, SyncReadDir, SyncReport, SyncFile,
                      TypeOK, WritersOK
<1>3. \A k \in Names : Enters(k, v) => Enters(k, v)'
  <2>1. UNCHANGED writer => \A k \in Names : Enters(k, v) => Enters(k, v)'
    BY DEF Enters
  <2> QED BY <1>2, <2>1, IdleEnters, OthersEnter
<1> QED BY <1>1, <1>3, NotForgotten

\* A pass forgets no file but the one whose row it deletes.
LEMMA EvictForgets ==
  ASSUME TypeOK, NEW p \in Passes, Evict(p) \/ \E k \in Videos : ClearCache(p, k),
         NEW v \in Videos, ~Uncounted(v), Uncounted(v)'
  PROVE  DeleteCacheByVideoID(p) /\ v = Head(pass[p].rows)
<1>1. \A n \in Names : Enters(n, v) => Enters(n, v)'
  BY DEF Evict, ClearCache, GetCacheTotalSize, GetLRUMediaFiles, ReadActive, SkipActive,
         DeleteCacheFiles, DeleteCacheByVideoID, Enters
<1>2. disk'[v] > 0 => disk[v] > 0
  <2>1. CASE DeleteCacheFiles(p)
    BY <2>1 DEF DeleteCacheFiles, TypeOK, FilesOK
  <2>2. CASE UNCHANGED disk
    BY <2>2
  <2> QED BY <2>1, <2>2 DEF Evict, ClearCache, GetCacheTotalSize, GetLRUMediaFiles,
                            ReadActive, SkipActive, DeleteCacheByVideoID
<1>3. v \in ToSet(lru) /\ v \notin ToSet(lru')
  BY <1>1, <1>2, NotForgotten
<1>4. DeleteCacheByVideoID(p)
  BY <1>3 DEF Evict, ClearCache, GetCacheTotalSize, GetLRUMediaFiles, ReadActive, SkipActive,
              DeleteCacheFiles, tables
<1>5. ToSet(lru) \ {Head(pass[p].rows)} \subseteq ToSet(lru')
  BY <1>4, Removed DEF DeleteCacheByVideoID, TypeOK, FilesOK
<1> QED BY <1>3, <1>4, <1>5

\* Whatever overlaps, a file drops out of the count in three ways only: a pass or
\* a clear_cache deletes the row of a video whose file is there (again), its
\* download fails, or the process dies.
THEOREM CountIsKept == Spec => UncountedWhereDeleted
<1> DEFINE Why(v) ==
             \/ \E p \in Passes : DeleteCacheByVideoID(p) /\ v = Head(pass[p].rows)
             \/ \E n \in Names : FetchFails(n) /\ v = writer[n].vid
             \/ Crash
<1>1. TypeOK /\ [Next]_vars => [\A v \in Videos : ~Uncounted(v) /\ Uncounted(v)' => Why(v)]_vars
  <2> SUFFICES ASSUME TypeOK, Next, NEW v \in Videos, ~Uncounted(v), Uncounted(v)'
               PROVE  Why(v)
    OBVIOUS
  <2>1. ASSUME NEW n \in Names, FetchFails(n) PROVE Why(v)
    <3>1. UNCHANGED <<disk, lru>>
      BY <2>1 DEF FetchFails, tables
    <3>2. writer[n].todo # <<>> /\ \E steps \in Todos : Then(n, steps)
      BY <2>1 DEF FetchFails, Todo, Todos
    <3>3. \A k \in Names : k # n => writer'[k] = writer[k]
      BY <3>2, ThenTypes DEF TypeOK
    <3>4. Enters(n, v)
      BY <3>1, <3>3, OthersEnter, NotForgotten
    <3> QED BY <2>1, <3>4 DEF Enters
  <2>2. ASSUME NEW k \in Videos, TouchMediaCache(k) PROVE FALSE
    <3>1. ToSet(lru) \subseteq ToSet(lru')
      BY <2>2, Entered DEF TouchMediaCache, TypeOK, FilesOK
    <3>2. \A n \in Names : Enters(n, v) => Enters(n, v)'
      BY <2>2 DEF TouchMediaCache, Enters
    <3> QED BY <2>2, <3>1, <3>2, NotForgotten DEF TouchMediaCache
  <2>3. ASSUME NEW p \in Passes, Evict(p) \/ \E k \in Videos : ClearCache(p, k) PROVE Why(v)
    BY <2>3, EvictForgets
  <2>4. ASSUME NEW n \in Names, Register(n) \/ Fetch(n) PROVE FALSE
    BY <2>4, RegisterForgets, FetchForgets
  <2>5. ASSUME NEW w \in Writers, Play(w) PROVE FALSE
    BY <2>5, PlayForgets DEF Names
  <2>6. CASE Crash
    BY <2>6
  <2> QED BY <2>1, <2>2, <2>3, <2>4, <2>5, <2>6, BeginningForgets DEF Next, Passes
<1> QED BY <1>1, CacheTypes, PTL DEF Spec, UncountedWhereDeleted
==============================================================================
