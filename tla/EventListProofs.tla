--------------------------- MODULE EventListProofs ---------------------------
(***************************************************************************)
(* What the list operations of EventList return, for lists of any length:  *)
(* the lemmas the proofs about the event queue rest on.                    *)
(***************************************************************************)
EXTENDS EventList, FiniteSetTheorems, WellFoundedInduction, TLAPS

\* Every nonempty set of naturals has a least element.
LEMMA LeastNat ==
    ASSUME NEW T \in SUBSET Nat, T # {}
    PROVE  \E n \in T : \A m \in T : n <= m
<1>1. IsWellFoundedOn(OpToRel(<, Nat), Nat)
  BY NatLessThanWellFounded
<1>2. PICK n \in T : \A m \in T : ~ (<<m, n>> \in OpToRel(<, Nat))
  BY <1>1, WFMin
<1>3. \A m \in T : ~ (m < n)
  BY <1>2 DEF OpToRel
<1> QED
  BY <1>3

\* Every nonempty set of naturals with an upper bound has a greatest element.
LEMMA GreatestNat ==
    ASSUME NEW T \in SUBSET Nat, T # {}, NEW b \in Nat, \A n \in T : n <= b
    PROVE  \E n \in T : \A m \in T : m <= n
<1> DEFINE D == {b - n : n \in T}
<1>1. D \in SUBSET Nat
  OBVIOUS
<1>2. D # {}
  <2>1. PICK t \in T : TRUE
    OBVIOUS
  <2>2. b - t \in D
    BY <2>1
  <2> QED
    BY <2>2
<1> HIDE DEF D
<1>3. PICK d \in D : \A x \in D : d <= x
  BY <1>1, <1>2, LeastNat
<1>4. PICK n \in T : d = b - n
  BY <1>3 DEF D
<1>5. \A m \in T : b - n <= b - m
  BY <1>3, <1>4 DEF D
<1> QED
  BY <1>5

\* The number of kept positions up to i.
Rank(s, X, i) == Cardinality({j \in Kept(s, X) : j <= i})

\* Ranks number the kept positions from 1 without gaps, in their order.
LEMMA RankOrder ==
    ASSUME NEW S, NEW s \in Seq(S), NEW X
    PROVE  /\ IsFiniteSet(Kept(s, X))
           /\ \A i \in Kept(s, X) : Rank(s, X, i) \in 1 .. Cardinality(Kept(s, X))
           /\ \A i, j \in Kept(s, X) : i < j => Rank(s, X, i) < Rank(s, X, j)
<1> DEFINE K == Kept(s, X)
           Upto(i) == {j \in K : j <= i}
<1>1. K \subseteq 1 .. Len(s) /\ IsFiniteSet(K)
  <2>1. K \subseteq 1 .. Len(s)
    BY DEF Kept
  <2>2. IsFiniteSet(1 .. Len(s))
    BY FS_Interval
  <2> QED
    BY <2>1, <2>2, FS_Subset
<1>2. ASSUME NEW i \in K
      PROVE  /\ IsFiniteSet(Upto(i)) /\ Cardinality(Upto(i)) \in Nat
             /\ Cardinality(Upto(i)) <= Cardinality(K)
             /\ Cardinality(Upto(i)) >= 1
  <2>1. Upto(i) \in SUBSET K
    OBVIOUS
  <2>2. IsFiniteSet(Upto(i)) /\ Cardinality(Upto(i)) <= Cardinality(K)
    BY <1>1, <2>1, FS_Subset
  <2>3. Cardinality(Upto(i)) \in Nat
    BY <2>2, FS_CardinalityType
  <2>4. i \in Upto(i)
    BY <1>1
  <2>5. Cardinality(Upto(i)) # 0
    BY <2>2, <2>4, FS_EmptySet
  <2> QED
    BY <2>2, <2>3, <2>5
<1>3. ASSUME NEW i \in K, NEW j \in K, i < j
      PROVE  Cardinality(Upto(i)) < Cardinality(Upto(j))
  <2>1. Upto(i) \in SUBSET Upto(j)
    BY <1>1, <1>3
  <2>2. j \in Upto(j) /\ j \notin Upto(i)
    BY <1>1, <1>3
  <2>3. /\ Cardinality(Upto(i)) <= Cardinality(Upto(j))
        /\ Cardinality(Upto(j)) = Cardinality(Upto(i)) => Upto(i) = Upto(j)
    BY <1>2, <2>1, FS_Subset
  <2>4. Upto(i) # Upto(j)
    BY <2>2
  <2>5. Cardinality(Upto(i)) \in Nat /\ Cardinality(Upto(j)) \in Nat
    BY <1>2
  <2> HIDE DEF Upto
  <2> QED
    BY <2>3, <2>4, <2>5
<1>4. Cardinality(K) \in Nat
  BY <1>1, FS_CardinalityType
<1>5. \A i \in K : Rank(s, X, i) = Cardinality(Upto(i))
  BY DEF Rank
<1> HIDE DEF Upto
<1>6. \A i \in K : Rank(s, X, i) \in 1 .. Cardinality(K)
  BY <1>2, <1>4, <1>5
<1>7. \A i, j \in K : i < j => Rank(s, X, i) < Rank(s, X, j)
  BY <1>3, <1>5
<1> QED
  BY <1>1, <1>6, <1>7

\* Each number is the rank of one kept position: KeptAt finds it.
LEMMA KeptAtProperties ==
    ASSUME NEW S, NEW s \in Seq(S), NEW X, NEW k \in 1 .. Cardinality(Kept(s, X))
    PROVE  KeptAt(s, X, k) \in Kept(s, X) /\ Rank(s, X, KeptAt(s, X, k)) = k
<1> DEFINE K == Kept(s, X)
           n == Cardinality(K)
           f == [i \in K |-> Rank(s, X, i)]
<1>1. IsFiniteSet(K) /\ n \in Nat
  BY RankOrder, FS_CardinalityType
<1>2. K \subseteq Int
  BY DEF Kept
<1>3. f \in [K -> 1 .. n]
  BY RankOrder
<1>4. \A i, j \in K : f[i] = f[j] => i = j
  BY <1>2, RankOrder, <1>1
<1>5. f \in Injection(K, 1 .. n)
  BY <1>3, <1>4 DEF Injection, IsInjective
<1>6. IsFiniteSet(1 .. n) /\ Cardinality(1 .. n) = n
  BY <1>1, FS_Interval
<1>7. f \in Surjection(K, 1 .. n)
  BY <1>5, <1>6, FS_Injection
<1>8. \E i \in K : Rank(s, X, i) = k
  BY <1>7 DEF Surjection
<1> QED
  BY <1>8 DEF KeptAt, Rank

\* RemoveIf yields a list of the other elements, in their order.
LEMMA RemoveIfProperties ==
    ASSUME NEW S, NEW s \in Seq(S), NEW X
    PROVE  /\ RemoveIf(s, X) \in Seq(S)
           /\ Members(RemoveIf(s, X)) \subseteq Members(s) \ X
           /\ \A a, b \in DOMAIN RemoveIf(s, X) : a < b =>
                 \E i, j \in DOMAIN s : /\ i < j
                                       /\ RemoveIf(s, X)[a] = s[i]
                                       /\ RemoveIf(s, X)[b] = s[j]
<1> DEFINE K == Kept(s, X)
           n == Cardinality(K)
           r == RemoveIf(s, X)
<1>1. n \in Nat
  BY RankOrder, FS_CardinalityType
<1>2. \A k \in 1 .. n : KeptAt(s, X, k) \in K /\ Rank(s, X, KeptAt(s, X, k)) = k
  BY KeptAtProperties
<1>3. K \subseteq DOMAIN s /\ DOMAIN s \subseteq Int /\ \A i \in K : s[i] \in S \ X
  BY DEF Kept
<1>4. r = [k \in 1 .. n |-> s[KeptAt(s, X, k)]]
  BY DEF RemoveIf
<1>5. r \in Seq(S)
  BY <1>1, <1>2, <1>3, <1>4
<1>6. DOMAIN r = 1 .. n
  BY <1>4
<1>7. Members(r) \subseteq Members(s) \ X
  BY <1>2, <1>3, <1>4, <1>6 DEF Members
<1>8. ASSUME NEW a \in 1 .. n, NEW b \in 1 .. n, a < b
      PROVE  KeptAt(s, X, a) < KeptAt(s, X, b)
  <2>1. CASE KeptAt(s, X, a) = KeptAt(s, X, b)
    BY <1>2, <1>8, <2>1
  <2>2. CASE KeptAt(s, X, b) < KeptAt(s, X, a)
    <3>1. Rank(s, X, KeptAt(s, X, b)) < Rank(s, X, KeptAt(s, X, a))
      BY <1>2, <2>2, RankOrder
    <3> QED
      BY <1>2, <1>8, <3>1
  <2> QED
    BY <1>2, <1>3, <2>1, <2>2
<1>9. ASSUME NEW a \in 1 .. n, NEW b \in 1 .. n, a < b
      PROVE  \E i, j \in DOMAIN s : i < j /\ r[a] = s[i] /\ r[b] = s[j]
  BY <1>2, <1>3, <1>4, <1>8, <1>9
<1> QED
  BY <1>5, <1>6, <1>7, <1>9

\* RemoveIf drops nothing but the elements to erase.
LEMMA RemoveIfMembers ==
    ASSUME NEW S, NEW s \in Seq(S), NEW X
    PROVE  Members(RemoveIf(s, X)) = Members(s) \ X
<1> DEFINE K == Kept(s, X)
           n == Cardinality(K)
<1>1. n \in Nat /\ RemoveIf(s, X) = [k \in 1 .. n |-> s[KeptAt(s, X, k)]]
  BY RankOrder, FS_CardinalityType DEF RemoveIf
<1>2. ASSUME NEW i \in DOMAIN s, s[i] \notin X
      PROVE  s[i] \in Members(RemoveIf(s, X))
  <2>1. i \in K /\ Rank(s, X, i) \in 1 .. n
    BY <1>2, RankOrder DEF Kept
  <2>2. KeptAt(s, X, Rank(s, X, i)) \in K /\ Rank(s, X, KeptAt(s, X, Rank(s, X, i))) = Rank(s, X, i)
    BY <2>1, KeptAtProperties
  <2>3. KeptAt(s, X, Rank(s, X, i)) = i
    <3> DEFINE j == KeptAt(s, X, Rank(s, X, i))
    <3>1. j \in Int /\ i \in Int /\ Rank(s, X, i) \in Int
      BY <1>1, <2>1, <2>2 DEF Kept
    <3>2. j < i => Rank(s, X, j) < Rank(s, X, i)
      BY <2>1, <2>2, RankOrder
    <3>3. i < j => Rank(s, X, i) < Rank(s, X, j)
      BY <2>1, <2>2, RankOrder
    <3>4. Rank(s, X, j) = Rank(s, X, i)
      BY <2>2
    <3> HIDE DEF j
    <3>5. ~(j < i) /\ ~(i < j)
      BY <3>1, <3>2, <3>3, <3>4
    <3>6. j = i
      BY <3>1, <3>5
    <3> QED
      BY <3>6 DEF j
  <2> QED
    BY <1>1, <2>1, <2>3 DEF Members
<1> QED
  BY <1>2, RemoveIfProperties DEF Members

\* The order of time survives erasing.
LEMMA RemoveIfInTimeOrder ==
    ASSUME NEW S, NEW s \in Seq(S), NEW X, NEW time, InTimeOrder(s, time)
    PROVE  InTimeOrder(RemoveIf(s, X), time)
BY RemoveIfProperties DEF InTimeOrder

\* A list whose head is not erased keeps it; an empty list stays empty.
LEMMA RemoveIfHead ==
    ASSUME NEW S, NEW s \in Seq(S), NEW X
    PROVE  /\ s = <<>> => RemoveIf(s, X) = <<>>
           /\ s # <<>> /\ s[1] \notin X => RemoveIf(s, X) # <<>> /\ RemoveIf(s, X)[1] = s[1]
<1> DEFINE K == Kept(s, X)
           n == Cardinality(K)
<1>1. n \in Nat /\ RemoveIf(s, X) = [k \in 1 .. n |-> s[KeptAt(s, X, k)]]
  BY RankOrder, FS_CardinalityType DEF RemoveIf
<1>2. ASSUME s = <<>>
      PROVE  RemoveIf(s, X) = <<>>
  <2>1. K = {}
    BY <1>2 DEF Kept
  <2>2. n = 0
    BY <2>1, FS_EmptySet
  <2> QED
    BY <1>1, <2>2
<1>3. ASSUME s # <<>>, s[1] \notin X
      PROVE  RemoveIf(s, X) # <<>> /\ RemoveIf(s, X)[1] = s[1]
  <2>1. 1 \in K /\ K \subseteq 1 .. Len(s)
    BY <1>3 DEF Kept
  <2>2. \A i \in K : Rank(s, X, i) \in 1 .. n
    BY RankOrder
  <2>3. 1 \in 1 .. n
    BY <1>1, <2>1, <2>2
  <2>4. KeptAt(s, X, 1) \in K /\ Rank(s, X, KeptAt(s, X, 1)) = 1
    BY <2>3, KeptAtProperties
  <2>5. ~ (1 < KeptAt(s, X, 1))
    <3> SUFFICES ASSUME 1 < KeptAt(s, X, 1) PROVE FALSE
      OBVIOUS
    <3>1. Rank(s, X, 1) < Rank(s, X, KeptAt(s, X, 1))
      BY <2>1, <2>4, RankOrder
    <3> QED
      BY <2>1, <2>2, <2>4, <3>1
  <2>6. KeptAt(s, X, 1) = 1
    BY <2>1, <2>4, <2>5
  <2> QED
    BY <1>1, <2>3, <2>6
<1> QED
  BY <1>2, <1>3

\* FirstIn finds an element of X if the list holds one.
LEMMA FirstInProperties ==
    ASSUME NEW S, NEW s \in Seq(S), NEW X, Members(s) \intersect X # {}
    PROVE  FirstIn(s, X) \in Members(s) \intersect X
<1> DEFINE T == {i \in DOMAIN s : s[i] \in X}
<1>1. T \in SUBSET Nat /\ T # {}
  BY DEF Members
<1>2. PICK i \in T : \A j \in T : i <= j
  BY <1>1, LeastNat
<1>3. \E k \in DOMAIN s : s[k] \in X /\ \A j \in DOMAIN s : s[j] \in X => k <= j
  BY <1>2
<1> QED
  BY <1>3 DEF FirstIn, Members

\* FirstIn finds the first one.
LEMMA FirstInIsFirst ==
    ASSUME NEW S, NEW s \in Seq(S), NEW X, Members(s) \intersect X # {}
    PROVE  \E i \in DOMAIN s : /\ FirstIn(s, X) = s[i] /\ s[i] \in X
                               /\ \A j \in DOMAIN s : s[j] \in X => i <= j
<1> DEFINE T == {i \in DOMAIN s : s[i] \in X}
<1>1. T \in SUBSET Nat /\ T # {}
  BY DEF Members
<1>2. PICK i \in T : \A j \in T : i <= j
  BY <1>1, LeastNat
<1>3. \E k \in DOMAIN s : s[k] \in X /\ \A j \in DOMAIN s : s[j] \in X => k <= j
  BY <1>2
<1> QED
  BY <1>3 DEF FirstIn

\* What inserting behind k elements yields.
LEMMA InsertBehindProperties ==
    ASSUME NEW S, NEW s \in Seq(S), NEW k \in 0 .. Len(s), NEW e \in S
    PROVE  /\ InsertBehind(s, k, e) \in Seq(S)
           /\ Len(InsertBehind(s, k, e)) = Len(s) + 1
           /\ \A i \in 1 .. Len(s) + 1 :
                 InsertBehind(s, k, e)[i] =
                     IF i <= k THEN s[i] ELSE IF i = k + 1 THEN e ELSE s[i - 1]
           /\ Members(InsertBehind(s, k, e)) = Members(s) \union {e}
<1> DEFINE r == InsertBehind(s, k, e)
           a == SubSeq(s, 1, k)
           b == SubSeq(s, k + 1, Len(s))
<1>1. a \in Seq(S) /\ Len(a) = k /\ \A i \in 1 .. k : a[i] = s[i]
  OBVIOUS
<1>2. b \in Seq(S) /\ Len(b) = Len(s) - k /\ \A i \in 1 .. Len(s) - k : b[i] = s[k + i]
  OBVIOUS
<1> HIDE DEF a, b
<1>3. a \o <<e>> \in Seq(S) /\ Len(a \o <<e>>) = k + 1
      /\ \A i \in 1 .. k + 1 : (a \o <<e>>)[i] = IF i <= k THEN s[i] ELSE e
  BY <1>1
<1>4. r = (a \o <<e>>) \o b
  BY DEF InsertBehind, a, b
<1>5. r \in Seq(S) /\ Len(r) = Len(s) + 1
  BY <1>2, <1>3, <1>4
<1>6. ASSUME NEW i \in 1 .. Len(s) + 1
      PROVE  r[i] = IF i <= k THEN s[i] ELSE IF i = k + 1 THEN e ELSE s[i - 1]
  <2>1. CASE i <= k + 1
    BY <1>2, <1>3, <1>4, <2>1
  <2>2. CASE i > k + 1
    <3>1. r[i] = b[i - (k + 1)]
      BY <1>2, <1>3, <1>4, <2>2
    <3>2. i - (k + 1) \in 1 .. Len(s) - k
      BY <2>2
    <3> QED
      BY <1>2, <2>2, <3>1, <3>2
  <2> QED
    BY <2>1, <2>2
<1>7. Members(r) = Members(s) \union {e}
  <2>1. DOMAIN r = 1 .. Len(s) + 1 /\ DOMAIN s = 1 .. Len(s)
    BY <1>5
  <2> HIDE DEF r
  <2>2. ASSUME NEW i \in DOMAIN r PROVE r[i] \in Members(s) \union {e}
    <3>1. CASE i <= k
      <4>1. i \in DOMAIN s /\ r[i] = s[i]
        BY <1>6, <2>1, <3>1
      <4> QED
        BY <4>1 DEF Members
    <3>2. CASE i = k + 1
      BY <1>6, <2>1, <3>2
    <3>3. CASE i > k + 1
      <4>1. i - 1 \in DOMAIN s /\ r[i] = s[i - 1]
        BY <1>6, <2>1, <3>3
      <4> QED
        BY <4>1 DEF Members
    <3> QED
      BY <2>1, <3>1, <3>2, <3>3
  <2>3. ASSUME NEW j \in DOMAIN s PROVE s[j] \in Members(r)
    <3>1. CASE j <= k
      BY <1>6, <2>1, <3>1 DEF Members
    <3>2. CASE j > k
      <4>1. j + 1 \in DOMAIN r /\ r[j + 1] = s[j]
        BY <1>6, <2>1, <3>2
      <4> QED
        BY <4>1 DEF Members
    <3> QED
      BY <2>1, <3>1, <3>2
  <2>4. e \in Members(r)
    <3>1. k + 1 \in DOMAIN r /\ r[k + 1] = e
      BY <1>6, <2>1
    <3> QED
      BY <3>1 DEF Members
  <2> QED
    BY <2>2, <2>3, <2>4 DEF Members
<1> QED
  BY <1>5, <1>6, <1>7

\* The AT_END scan stops somewhere.
LEMMA NotLaterPrefixProperties ==
    ASSUME NEW S, NEW s \in Seq(S), NEW e \in S, NEW time \in [S -> Int]
    PROVE  LET k == NotLaterPrefix(s, e, time)
           IN  /\ k \in 0 .. Len(s)
               /\ k # 0 => time[s[k]] <= time[e]
               /\ \A j \in (k + 1) .. Len(s) : time[s[j]] > time[e]
<1> DEFINE T == {0} \union {j \in 1 .. Len(s) : time[s[j]] <= time[e]}
<1>1. T \in SUBSET Nat /\ T # {} /\ \A n \in T : n <= Len(s)
  OBVIOUS
<1>2. PICK k \in T : \A j \in T : j <= k
  <2>1. Len(s) \in Nat
    OBVIOUS
  <2> HIDE DEF T
  <2> QED
    BY <1>1, <2>1, GreatestNat
<1>3. \A j \in (k + 1) .. Len(s) : time[s[j]] > time[e]
  <2> TAKE j \in (k + 1) .. Len(s)
  <2>1. j \in 1 .. Len(s) /\ j \notin T
    BY <1>1, <1>2
  <2>2. time[s[j]] \in Int /\ time[e] \in Int
    BY <2>1
  <2> QED
    BY <2>1, <2>2
<1>4. k \in 0 .. Len(s) /\ (k # 0 => time[s[k]] <= time[e])
  BY <1>1
<1> QED
  BY <1>3, <1>4 DEF NotLaterPrefix

\* A list stays in the order of time if the new element fits between its neighbours.
LEMMA InsertBehindInTimeOrder ==
    ASSUME NEW S, NEW s \in Seq(S), NEW e \in S, NEW time \in [S -> Int],
           InTimeOrder(s, time), NEW k \in 0 .. Len(s),
           k # 0 => time[s[k]] <= time[e],
           k # Len(s) => time[e] <= time[s[k + 1]]
    PROVE  InTimeOrder(InsertBehind(s, k, e), time)
<1> DEFINE r == InsertBehind(s, k, e)
<1>1. /\ DOMAIN r = 1 .. Len(s) + 1
      /\ \A i \in 1 .. Len(s) + 1 :
             r[i] = IF i <= k THEN s[i] ELSE IF i = k + 1 THEN e ELSE s[i - 1]
  BY InsertBehindProperties
<1>3. \A i \in 1 .. Len(s) : time[s[i]] \in Int
  OBVIOUS
<1>2. ASSUME NEW i \in 1 .. Len(s), NEW j \in 1 .. Len(s), i <= j
      PROVE  time[s[i]] <= time[s[j]]
  <2>1. CASE i < j
    <3>1. i \in DOMAIN s /\ j \in DOMAIN s
      OBVIOUS
    <3> QED
      BY <2>1, <3>1 DEF InTimeOrder
  <2>2. CASE i = j
    BY <1>3, <2>2
  <2> QED
    BY <1>2, <2>1, <2>2
<1>4. time[e] \in Int
  OBVIOUS
<1>5. \A i \in 1 .. k : time[s[i]] <= time[e]
  BY <1>2, <1>3, <1>4
<1>6. \A i \in (k + 1) .. Len(s) : time[e] <= time[s[i]]
  BY <1>2, <1>3, <1>4
<1> HIDE DEF r
<1>7. ASSUME NEW i \in 1 .. Len(s) + 1, NEW j \in 1 .. Len(s) + 1, i < j
      PROVE  time[r[i]] <= time[r[j]]
  <2>1. CASE j <= k
    <3>1. i \in 1 .. Len(s) /\ j \in 1 .. Len(s) /\ i <= j
      BY <1>7, <2>1
    <3>2. r[i] = s[i] /\ r[j] = s[j]
      BY <1>1, <1>7, <2>1
    <3> QED
      BY <1>2, <3>1, <3>2
  <2>2. CASE j = k + 1
    <3>1. i \in 1 .. k
      BY <1>7, <2>2
    <3>2. r[i] = s[i] /\ r[j] = e
      BY <1>1, <1>7, <2>2
    <3> QED
      BY <1>5, <3>1, <3>2
  <2>3. CASE j > k + 1 /\ i <= k
    <3>1. i \in 1 .. Len(s) /\ j - 1 \in 1 .. Len(s) /\ i <= j - 1
      BY <2>3
    <3>2. r[i] = s[i] /\ r[j] = s[j - 1]
      BY <1>1, <2>3
    <3> QED
      BY <1>2, <3>1, <3>2
  <2>4. CASE j > k + 1 /\ i = k + 1
    BY <1>1, <1>6, <1>7, <2>4
  <2>5. CASE j > k + 1 /\ i > k + 1
    <3>1. i - 1 \in 1 .. Len(s) /\ j - 1 \in 1 .. Len(s) /\ i - 1 <= j - 1
      BY <1>7, <2>5
    <3>2. r[i] = s[i - 1] /\ r[j] = s[j - 1]
      BY <1>1, <2>5
    <3> QED
      BY <1>2, <3>1, <3>2
  <2> QED
    BY <1>7, <2>1, <2>2, <2>3, <2>4, <2>5
<1> QED
  BY <1>1, <1>7 DEF InTimeOrder, r

\* A list without repetition stays one when an element it does not hold is inserted.
LEMMA InsertBehindDistinct ==
    ASSUME NEW S, NEW s \in Seq(S), NEW k \in 0 .. Len(s), NEW e \in S, e \notin Members(s),
           \A i, j \in DOMAIN s : s[i] = s[j] => i = j
    PROVE  \A a, b \in DOMAIN InsertBehind(s, k, e) :
               InsertBehind(s, k, e)[a] = InsertBehind(s, k, e)[b] => a = b
<1> DEFINE r == InsertBehind(s, k, e)
           Old(i) == IF i <= k THEN i ELSE i - 1
<1>1. /\ DOMAIN r = 1 .. Len(s) + 1
      /\ \A i \in 1 .. Len(s) + 1 :
             r[i] = IF i <= k THEN s[i] ELSE IF i = k + 1 THEN e ELSE s[i - 1]
  BY InsertBehindProperties
<1>2. \A i \in DOMAIN s : s[i] # e
  BY DEF Members
<1> HIDE DEF r
<1>3. ASSUME NEW i \in DOMAIN r
      PROVE  \/ i = k + 1 /\ r[i] = e
             \/ i # k + 1 /\ Old(i) \in DOMAIN s /\ r[i] = s[Old(i)] /\ r[i] # e
  <2>1. i \in 1 .. Len(s) + 1 /\ Len(s) \in Nat /\ DOMAIN s = 1 .. Len(s)
    BY <1>1
  <2>2. i # k + 1 => Old(i) \in DOMAIN s
    BY <2>1
  <2> QED
    BY <1>1, <1>2, <2>1, <2>2
<1>4. ASSUME NEW a \in DOMAIN r, NEW b \in DOMAIN r, r[a] = r[b]
      PROVE  a = b
  <2>1. CASE r[a] = e
    <3>1. a = k + 1 /\ b = k + 1
      BY <1>3, <1>4, <2>1
    <3> QED
      BY <3>1
  <2>2. CASE r[a] # e
    <3>1. /\ a # k + 1 /\ Old(a) \in DOMAIN s /\ r[a] = s[Old(a)]
          /\ b # k + 1 /\ Old(b) \in DOMAIN s /\ r[b] = s[Old(b)]
      BY <1>3, <1>4, <2>2
    <3>2. Old(a) = Old(b)
      BY <1>4, <3>1
    <3>3. a \in Int /\ b \in Int
      BY <1>1
    <3> QED
      BY <3>1, <3>2, <3>3
  <2> QED
    BY <2>1, <2>2
<1> QED
  BY <1>4 DEF r
=============================================================================
