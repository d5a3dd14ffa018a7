--------------------------- MODULE FfrtQueueProofs ---------------------------
(***************************************************************************)
(* FfrtQueue: what EventQueueFFRT finds and removes by the names of its    *)
(* tasks is what EventQueueBase would by its filters, for every number of  *)
(* handlers, events and threads, every id and param, whatever names the    *)
(* tasks have, and every name without an operator that RemoveTask is asked *)
(* for.                                                                    *)
(*                                                                         *)
(* Two parts. That a pattern matches the name of an event exactly if the   *)
(* event has the data asked for is about texts: numbers are written        *)
(* without a bar and no two of them alike, so a text that ends in a bar    *)
(* cannot be mistaken. That every queued event has its sender's data is    *)
(* about steps: a free object is in no queue and in no call (FfrtInv). And *)
(* that, of those steps, the handlers see what EventDispatch allows.       *)
(***************************************************************************)
EXTENDS FfrtQueue, SequenceTheorems, WellFoundedInduction, TLAPS

\* Every nonempty set of naturals has a least element.
LEMMA LeastNat ==
    ASSUME NEW T \in SUBSET Nat, T # {}
    PROVE  \E n \in T : \A m \in T : n <= m
<1>1. IsWellFoundedOn(OpToRel(<, Nat), Nat)
  BY NatLessThanWellFounded
<1>2. PICK n \in T : \A m \in T : ~ (<<m, n>> \in OpToRel(<, Nat))
  BY <1>1, WFMin
<1>3. \A m \in T : ~ (m < n)
  BY <1>2 DEF OpToRel
<1> QED
  BY <1>3

-----------------------------------------------------------------------------
(* Numbers. Digits is the function its recursive definition describes:     *)
(* solutions of the equation on 0 .. n exist for every n, and they agree.  *)

\* Division by ten.
LEMMA Decimals ==
    ASSUME NEW n \in Nat
    PROVE  /\ n \div 10 \in Nat /\ n % 10 \in 0 .. 9
           /\ n = 10 * (n \div 10) + (n % 10)
           /\ n >= 10 => n \div 10 < n
           /\ n < 10 => n % 10 = n
OBVIOUS

\* The two cases of Digits, and functions that solve its recursion up to n.
One(n) == <<Digit(n)>>
More(s, n) == Append(s, Digit(n))

Solves(g, n) == g = [m \in 0 .. n |-> IF m < 10 THEN One(m) ELSE More(g[m \div 10], m)]

\* Two solutions agree wherever both are defined.
LEMMA SolutionsAgree ==
    ASSUME NEW n \in Nat, NEW k \in Nat, NEW g, NEW f, Solves(g, n), Solves(f, k),
           NEW m \in Nat, m <= n, m <= k
    PROVE  g[m] = f[m]
<1> DEFINE T == {i \in Nat : i <= n /\ i <= k /\ g[i] # f[i]}
<1> SUFFICES ASSUME T # {} PROVE FALSE
  OBVIOUS
<1>1. PICK i \in T : \A j \in T : i <= j
  BY LeastNat
<1>2. /\ g[i] = IF i < 10 THEN One(i) ELSE More(g[i \div 10], i)
      /\ f[i] = IF i < 10 THEN One(i) ELSE More(f[i \div 10], i)
  BY <1>1 DEF Solves
<1>3. i >= 10 => g[i \div 10] = f[i \div 10]
  BY <1>1, Decimals
<1> QED
  BY <1>1, <1>2, <1>3

\* Every n has a solution up to n.
LEMMA SolutionExists ==
    ASSUME NEW n \in Nat
    PROVE  \E g : Solves(g, n)
<1> DEFINE T == {i \in Nat : ~ \E g : Solves(g, i)}
<1> SUFFICES ASSUME T # {} PROVE FALSE
  OBVIOUS
<1>1. PICK i \in T : \A j \in T : i <= j
  BY LeastNat
<1>2. CASE i = 0
  <2> DEFINE g == [m \in 0 .. 0 |-> One(m)]
  <2>1. g = [m \in 0 .. 0 |-> IF m < 10 THEN One(m) ELSE More(g[m \div 10], m)]
    OBVIOUS
  <2> QED
    BY <1>1, <1>2, <2>1 DEF Solves
<1>3. CASE i # 0
  <2>1. i - 1 \in Nat /\ i - 1 \notin T
    BY <1>1, <1>3
  <2>2. PICK f : Solves(f, i - 1)
    BY <2>1
  <2> DEFINE g == [m \in 0 .. i |-> IF m < 10 THEN One(m) ELSE More(f[m \div 10], m)]
  <2>3. ASSUME NEW m \in 0 .. i
        PROVE  g[m] = IF m < 10 THEN One(m) ELSE More(g[m \div 10], m)
    <3>1. CASE m < 10
      BY <3>1
    <3>2. CASE m >= 10
      <4>1. m \div 10 \in 0 .. (i - 1)
        BY <3>2, Decimals
      <4>2. g[m \div 10] = f[m \div 10]
        BY <2>2, <4>1 DEF Solves
      <4> QED
        BY <3>2, <4>2
    <3> QED
      BY <3>1, <3>2
  <2>4. g = [m \in 0 .. i |-> IF m < 10 THEN One(m) ELSE More(g[m \div 10], m)]
    BY <2>3
  <2> QED
    BY <1>1, <2>4 DEF Solves
<1> QED
  BY <1>2, <1>3

\* std::to_string satisfies the recursion it is written as.
LEMMA DigitsUnfold ==
    ASSUME NEW n \in Nat
    PROVE  /\ n < 10 => Digits[n] = <<Digit(n)>>
           /\ n >= 10 => Digits[n] = Append(Digits[n \div 10], Digit(n))
<1> DEFINE G(m) == CHOOSE g : Solves(g, m)
           F == [m \in Nat |-> G(m)[m]]
<1>1. \A m \in Nat : Solves(G(m), m)
  BY SolutionExists
<1>2. ASSUME NEW m \in Nat
      PROVE  F[m] = IF m < 10 THEN One(m) ELSE More(F[m \div 10], m)
  <2>1. F[m] = IF m < 10 THEN One(m) ELSE More(G(m)[m \div 10], m)
    <3>1. \A g : Solves(g, m) => g[m] = IF m < 10 THEN One(m) ELSE More(g[m \div 10], m)
      BY DEF Solves
    <3>2. Solves(G(m), m)
      BY <1>1
    <3>3. F[m] = G(m)[m]
      OBVIOUS
    <3> HIDE DEF G, F
    <3> QED
      BY <3>1, <3>2, <3>3
  <2>2. CASE m >= 10
    <3> DEFINE k == m \div 10
    <3>1. k \in Nat /\ k <= m
      BY <2>2, Decimals
    <3>2. Solves(G(m), m) /\ Solves(G(k), k)
      BY <1>1, <3>1
    <3> HIDE DEF G, k
    <3>3. G(m)[k] = G(k)[k]
      BY <3>1, <3>2, SolutionsAgree
    <3>4. G(m)[k] = F[k]
      BY <3>1, <3>3
    <3> QED
      BY <2>1, <2>2, <3>4 DEF k
  <2> QED
    BY <2>1, <2>2
<1> HIDE DEF F
<1>3. F = [m \in Nat |-> IF m < 10 THEN One(m) ELSE More(F[m \div 10], m)]
  <2>1. F = [m \in Nat |-> F[m]]
    BY DEF F
  <2> QED
    BY <1>2, <2>1
<1>4. Digits = [m \in Nat |-> IF m < 10 THEN One(m) ELSE More(Digits[m \div 10], m)]
  BY <1>3 DEF Digits, One, More
<1>5. Digits[n] = IF n < 10 THEN One(n) ELSE More(Digits[n \div 10], n)
  BY <1>4
<1> QED
  BY <1>5 DEF One, More

\* The characters of numbers.
Numerals == {"0", "1", "2", "3", "4", "5", "6", "7", "8", "9"}

\* A digit is a numeral, and tells the number modulo ten.
LEMMA DigitProperties ==
    /\ \A n \in Nat : Digit(n) \in Numerals
    /\ \A n, m \in Nat : Digit(n) = Digit(m) => n % 10 = m % 10
<1> DEFINE Row == <<"0", "1", "2", "3", "4", "5", "6", "7", "8", "9">>
<1>1. \A i \in 1 .. 10 : Row[i] \in Numerals
  BY DEF Numerals
<1>2. \A i, j \in 1 .. 10 : Row[i] = Row[j] => i = j
  OBVIOUS
<1> HIDE DEF Row
<1>3. \A n \in Nat : Digit(n) = Row[(n % 10) + 1] /\ (n % 10) + 1 \in 1 .. 10
  <2>1. \A n \in Nat : (n % 10) + 1 \in 1 .. 10
    BY Decimals
  <2> QED
    BY <2>1 DEF Digit, Row
<1>4. \A n \in Nat : n % 10 \in Int
  BY Decimals
<1> QED
  BY <1>1, <1>2, <1>3, <1>4

\* A list of one element, and a list with one more.
LEMMA OneMore ==
    ASSUME NEW S, NEW x \in S, NEW s \in Seq(S)
    PROVE  /\ <<x>> \in Seq(S) /\ Len(<<x>>) = 1 /\ <<x>>[1] = x
           /\ Append(s, x) \in Seq(S) /\ Len(Append(s, x)) = Len(s) + 1
OBVIOUS

\* The text of a number is a nonempty list of numerals.
LEMMA DigitsType ==
    ASSUME NEW n \in Nat
    PROVE  Digits[n] \in Seq(Numerals) /\ Len(Digits[n]) >= 1
<1> DEFINE P(i) == Digits[i] \in Seq(Numerals) /\ Len(Digits[i]) >= 1
           T == {i \in Nat : ~ P(i)}
<1> SUFFICES ASSUME T # {} PROVE FALSE
  OBVIOUS
<1>1. PICK i \in T : \A j \in T : i <= j
  BY LeastNat
<1>2. CASE i < 10
  <2>1. Digits[i] = <<Digit(i)>> /\ Digit(i) \in Numerals
    BY <1>1, <1>2, DigitsUnfold, DigitProperties
  <2>2. <<>> \in Seq(Numerals)
    OBVIOUS
  <2>3. <<Digit(i)>> \in Seq(Numerals) /\ Len(<<Digit(i)>>) = 1
    BY ONLY <2>1, <2>2, OneMore
  <2>4. P(i)
    BY ONLY <2>1, <2>3
  <2> HIDE DEF P
  <2> QED
    BY <1>1, <2>4
<1>3. CASE i >= 10
  <2>1. i \div 10 \in Nat /\ i \div 10 \notin T
    BY <1>1, <1>3, Decimals
  <2>2. Digits[i] = Append(Digits[i \div 10], Digit(i)) /\ Digit(i) \in Numerals
    BY <1>1, <1>3, DigitsUnfold, DigitProperties
  <2>3. Digits[i \div 10] \in Seq(Numerals) /\ Len(Digits[i \div 10]) >= 1
    BY <2>1
  <2>4. /\ Append(Digits[i \div 10], Digit(i)) \in Seq(Numerals)
        /\ Len(Append(Digits[i \div 10], Digit(i))) = Len(Digits[i \div 10]) + 1
    BY ONLY <2>2, <2>3, OneMore
  <2>5. Len(Digits[i \div 10]) \in Nat
    BY <2>3
  <2>6. P(i)
    BY ONLY <2>2, <2>3, <2>4, <2>5
  <2> HIDE DEF P
  <2> QED
    BY <1>1, <2>6
<1> QED
  BY <1>1, <1>2, <1>3

\* No two naturals have the same text.
LEMMA DigitsInjective ==
    ASSUME NEW n \in Nat, NEW m \in Nat, Digits[n] = Digits[m]
    PROVE  n = m
<1> DEFINE T == {i \in Nat : \E j \in Nat : Digits[i] = Digits[j] /\ i # j}
<1> SUFFICES ASSUME T # {} PROVE FALSE
  OBVIOUS
<1>1. PICK i \in T : \A j \in T : i <= j
  BY LeastNat
<1>2. PICK j \in Nat : Digits[i] = Digits[j] /\ i # j
  BY <1>1
<1>3. i <= j
  <2>1. j \in T
    BY <1>1, <1>2
  <2> QED
    BY <1>1, <2>1
<1>4. CASE j < 10
  <2>1. Digits[i] = <<Digit(i)>> /\ Digits[j] = <<Digit(j)>>
    BY <1>1, <1>3, <1>4, DigitsUnfold
  <2>2. Digit(i) = Digit(j)
    <3>1. <<Digit(i)>> = <<Digit(j)>>
      BY <1>2, <2>1
    <3> QED
      BY ONLY <3>1
  <2>3. i % 10 = j % 10
    BY <1>1, <2>2, DigitProperties
  <2> QED
    BY <1>1, <1>2, <1>3, <1>4, <2>3, Decimals
<1>5. CASE i < 10 /\ j >= 10
  <2>1. Digits[i] = <<Digit(i)>>
    BY <1>1, <1>5, DigitsUnfold
  <2>2. j \div 10 \in Nat /\ Digits[j] = Append(Digits[j \div 10], Digit(j))
    BY <1>5, DigitsUnfold, Decimals
  <2>3. Len(Digits[j]) >= 2
    BY <2>2, DigitsType, DigitProperties
  <2> QED
    BY <1>2, <2>1, <2>3
<1>6. CASE i >= 10
  <2>0. i \div 10 \in Nat /\ i \div 10 < i /\ j \div 10 \in Nat /\ j >= 10
    BY <1>1, <1>3, <1>6, Decimals
  <2>1. /\ i \div 10 \in Nat /\ i \div 10 \notin T /\ j \div 10 \in Nat
        /\ Digits[i] = Append(Digits[i \div 10], Digit(i))
        /\ Digits[j] = Append(Digits[j \div 10], Digit(j))
    <3>1. i \div 10 \notin T
      BY <1>1, <2>0
    <3>2. Digits[i] = Append(Digits[i \div 10], Digit(i))
      BY <1>1, <1>6, DigitsUnfold
    <3>3. Digits[j] = Append(Digits[j \div 10], Digit(j))
      BY <2>0, DigitsUnfold
    <3> HIDE DEF T
    <3> QED
      BY <2>0, <3>1, <3>2, <3>3
  <2> DEFINE a == Digits[i \div 10]
             b == Digits[j \div 10]
  <2>2. /\ a \in Seq(Numerals) /\ b \in Seq(Numerals)
        /\ Digit(i) \in Numerals /\ Digit(j) \in Numerals
    BY <1>1, <2>1, DigitsType, DigitProperties
  <2>3. Append(a, Digit(i)) = Append(b, Digit(j))
    BY <1>2, <2>1
  <2> HIDE DEF a, b
  <2>4. a = b /\ Digit(i) = Digit(j)
    <3>1. Len(a) = Len(b)
      BY <2>2, <2>3
    <3>2. Digit(i) = Digit(j)
      BY <2>2, <2>3, <3>1
    <3>3. \A k \in 1 .. Len(a) : a[k] = b[k]
      BY <2>2, <2>3, <3>1
    <3> QED
      BY <2>2, <3>1, <3>2, <3>3, SeqEqual
  <2>5. i \div 10 = j \div 10 /\ i % 10 = j % 10
    BY <1>1, <2>1, <2>4, DigitProperties DEF a, b
  <2> QED
    BY <1>1, <1>2, <2>5, Decimals
<1> QED
  BY <1>1, <1>3, <1>4, <1>5, <1>6

Signs == Numerals \union {"-"}

\* A text without a bar.
BarFree(s) == \A i \in 1 .. Len(s) : s[i] # "|"

\* The text of a negative number: a minus sign before that of its absolute value.
LEMMA NegativeDigits ==
    ASSUME NEW n \in Nat
    PROVE  LET s == <<"-">> \o Digits[n]
           IN  /\ s \in Seq(Signs) /\ BarFree(s) /\ Len(s) = Len(Digits[n]) + 1 /\ s[1] = "-"
               /\ \A i \in 1 .. Len(Digits[n]) : s[i + 1] = Digits[n][i]
<1> DEFINE d == Digits[n]
           s == <<"-">> \o d
<1>1. d \in Seq(Numerals)
  BY DigitsType
<1> HIDE DEF d
<1>2. d \in Seq(Signs) /\ <<"-">> \in Seq(Signs) /\ Len(<<"-">>) = 1 /\ <<"-">>[1] = "-"
  <2>1. Numerals \subseteq Signs /\ "-" \in Signs
    BY DEF Signs
  <2>2. d \in Seq(Signs)
    BY <1>1, <2>1, SeqMonotonic
  <2> QED
    BY <2>1, <2>2, OneMore
<1>3. /\ s \in Seq(Signs) /\ Len(s) = 1 + Len(d)
      /\ \A i \in 1 .. 1 + Len(d) : s[i] = IF i <= 1 THEN <<"-">>[i] ELSE d[i - 1]
  BY <1>2, ConcatProperties, Zenon
<1>4. Len(d) \in Nat /\ \A i \in 1 .. Len(d) : d[i] # "|"
  BY <1>1 DEF Numerals
<1> HIDE DEF s
<1>5. s[1] = "-" /\ \A i \in 1 .. Len(d) : s[i + 1] = d[i]
  <2>1. 1 \in 1 .. 1 + Len(d)
    BY <1>4
  <2>2. s[1] = "-"
    BY <1>2, <1>3, <2>1
  <2>3. ASSUME NEW i \in 1 .. Len(d) PROVE s[i + 1] = d[i]
    <3>1. i + 1 \in 1 .. 1 + Len(d) /\ ~ (i + 1 <= 1) /\ (i + 1) - 1 = i
      BY <1>4
    <3> QED
      BY <1>3, <3>1
  <2> QED
    BY <2>2, <2>3
<1>6. \A i \in 1 .. Len(s) : s[i] # "|"
  BY <1>2, <1>3, <1>4
<1> QED
  BY <1>3, <1>4, <1>5, <1>6 DEF BarFree, d, s

\* A number is written without a bar, and no two numbers are written alike.
LEMMA DecimalProperties ==
    /\ \A n \in Int : Decimal(n) \in Seq(Signs) /\ BarFree(Decimal(n))
    /\ \A n, m \in Int : Decimal(n) = Decimal(m) => n = m
<1>1. \A n \in Nat : /\ Digits[n] \in Seq(Signs) /\ BarFree(Digits[n]) /\ Len(Digits[n]) >= 1
                     /\ Digits[n][1] # "-"
  <2> SUFFICES ASSUME NEW n \in Nat
               PROVE  /\ Digits[n] \in Seq(Signs) /\ BarFree(Digits[n]) /\ Len(Digits[n]) >= 1
                      /\ Digits[n][1] # "-"
    OBVIOUS
  <2> DEFINE d == Digits[n]
  <2>1. d \in Seq(Numerals) /\ Len(d) >= 1
    BY DigitsType
  <2> HIDE DEF d
  <2>2. \A i \in 1 .. Len(d) : d[i] \in Numerals
    BY <2>1
  <2>3. Numerals \subseteq Signs /\ "|" \notin Numerals /\ "-" \notin Numerals
    BY DEF Numerals, Signs
  <2>4. d \in Seq(Signs)
    BY <2>1, <2>3, SeqMonotonic
  <2>5. 1 \in 1 .. Len(d)
    BY <2>1
  <2> QED
    BY <2>1, <2>2, <2>3, <2>4, <2>5 DEF BarFree, d
<1>2. \A n \in Int : n < 0 => Decimal(n) = <<"-">> \o Digits[-n] /\ -n \in Nat
  BY DEF Decimal
<1>3. \A n \in Int : ~ (n < 0) => Decimal(n) = Digits[n] /\ n \in Nat
  BY DEF Decimal
<1>4. ASSUME NEW n \in Int PROVE Decimal(n) \in Seq(Signs) /\ BarFree(Decimal(n))
  BY <1>1, <1>2, <1>3, NegativeDigits
<1>5. ASSUME NEW n \in Int, NEW m \in Int, Decimal(n) = Decimal(m) PROVE n = m
  <2>1. CASE n < 0 /\ m < 0
    <3> DEFINE a == Digits[-n]
               b == Digits[-m]
    <3>1. -n \in Nat /\ -m \in Nat /\ <<"-">> \o a = <<"-">> \o b
      BY <1>2, <1>5, <2>1
    <3>2. /\ a \in Seq(Signs) /\ b \in Seq(Signs)
          /\ Len(<<"-">> \o a) = Len(a) + 1 /\ Len(<<"-">> \o b) = Len(b) + 1
          /\ \A i \in 1 .. Len(a) : (<<"-">> \o a)[i + 1] = a[i]
          /\ \A i \in 1 .. Len(b) : (<<"-">> \o b)[i + 1] = b[i]
      <4>1. -n \in Nat /\ -m \in Nat
        BY <3>1
      <4>2. a \in Seq(Signs) /\ b \in Seq(Signs)
        BY <1>1, <4>1
      <4> QED
        BY <4>1, <4>2, NegativeDigits
    <3> DEFINE c == <<"-">> \o b
    <3>3. <<"-">> \o a = c
      BY <3>1
    <3> HIDE DEF a, b, c
    <3>5. /\ Len(a) \in Nat /\ Len(b) \in Nat /\ Len(c) = Len(a) + 1 /\ Len(c) = Len(b) + 1
          /\ \A i \in 1 .. Len(a) : c[i + 1] = a[i]
          /\ \A i \in 1 .. Len(b) : c[i + 1] = b[i]
      <4>1. Len(a) \in Nat /\ Len(b) \in Nat
        BY <3>2
      <4> QED
        BY <3>2, <3>3, <4>1 DEF c
    <3>6. Len(a) = Len(b) /\ \A i \in 1 .. Len(a) : a[i] = b[i]
      BY <3>5
    <3>7. a = b
      BY <3>2, <3>6, SeqEqual
    <3>4. -n = -m
      BY <3>1, <3>7, DigitsInjective DEF a, b
    <3> QED
      BY <3>4
  <2>2. CASE ~ (n < 0) /\ ~ (m < 0)
    BY <1>3, <1>5, <2>2, DigitsInjective
  <2>3. CASE n < 0 /\ ~ (m < 0)
    <3>1. (<<"-">> \o Digits[-n])[1] = "-"
      BY <1>2, <2>3, NegativeDigits
    <3>2. Decimal(n)[1] = "-" /\ Decimal(m)[1] # "-"
      BY <1>1, <1>2, <1>3, <2>3, <3>1
    <3> QED
      BY <1>5, <3>2
  <2>4. CASE ~ (n < 0) /\ m < 0
    <3>1. (<<"-">> \o Digits[-m])[1] = "-"
      BY <1>2, <2>4, NegativeDigits
    <3>2. Decimal(m)[1] = "-" /\ Decimal(n)[1] # "-"
      BY <1>1, <1>2, <1>3, <2>4, <3>1
    <3> QED
      BY <1>5, <3>2
  <2> QED
    BY <2>1, <2>2, <2>3, <2>4
<1> QED
  BY <1>4, <1>5

-----------------------------------------------------------------------------
(* Where a text stands in another *)

\* A text stands in another to the letter.
Stands(text, name, k) ==
    /\ k + Len(text) <= Len(name)
    /\ \A i \in DOMAIN text : name[k + i] = text[i]

\* That is what it takes to match a text without a dot, and more than any text asks for.
LEMMA StandsOccurs ==
    ASSUME NEW t, NEW s, NEW k
    PROVE  /\ Stands(t, s, k) => OccursAt(t, s, k)
           /\ Dotless(t) => (OccursAt(t, s, k) <=> Stands(t, s, k))
BY DEF Stands, OccursAt, Dotless

\* A concatenation stands where its parts stand one behind the other.
LEMMA OccursConcat ==
    ASSUME NEW S, NEW t \in Seq(S), NEW w \in Seq(S), NEW s \in Seq(S), NEW k \in Nat
    PROVE  Stands(t \o w, s, k) <=> Stands(t, s, k) /\ Stands(w, s, k + Len(t))
<1> DEFINE c == t \o w
<1>1. /\ c \in Seq(S) /\ Len(c) = Len(t) + Len(w)
      /\ \A i \in 1 .. Len(t) + Len(w) : c[i] = IF i <= Len(t) THEN t[i] ELSE w[i - Len(t)]
  BY ConcatProperties, Zenon
<1>2. /\ Len(t) \in Nat /\ Len(w) \in Nat /\ Len(s) \in Nat
      /\ DOMAIN t = 1 .. Len(t) /\ DOMAIN w = 1 .. Len(w) /\ DOMAIN c = 1 .. Len(t) + Len(w)
  BY <1>1, LenProperties
<1> HIDE DEF c
<1>3. ASSUME Stands(c, s, k) PROVE Stands(t, s, k) /\ Stands(w, s, k + Len(t))
  <2>1. /\ k + (Len(t) + Len(w)) <= Len(s)
        /\ \A i \in 1 .. Len(t) + Len(w) : s[k + i] = c[i]
    BY <1>1, <1>2, <1>3 DEF Stands
  <2>2. ASSUME NEW i \in 1 .. Len(t) PROVE s[k + i] = t[i]
    <3>1. i \in 1 .. Len(t) + Len(w) /\ i <= Len(t)
      BY <1>2
    <3> QED
      BY <1>1, <2>1, <3>1
  <2>3. ASSUME NEW i \in 1 .. Len(w) PROVE s[k + Len(t) + i] = w[i]
    <3>1. /\ Len(t) + i \in 1 .. Len(t) + Len(w) /\ ~ (Len(t) + i <= Len(t))
          /\ (Len(t) + i) - Len(t) = i /\ k + (Len(t) + i) = k + Len(t) + i
      BY <1>2
    <3> QED
      BY <1>1, <2>1, <3>1
  <2> QED
    BY <1>2, <2>1, <2>2, <2>3 DEF Stands
<1>4. ASSUME Stands(t, s, k), Stands(w, s, k + Len(t)) PROVE Stands(c, s, k)
  <2>1. /\ k + Len(t) + Len(w) <= Len(s)
        /\ \A i \in 1 .. Len(t) : s[k + i] = t[i]
        /\ \A i \in 1 .. Len(w) : s[k + Len(t) + i] = w[i]
    BY <1>2, <1>4 DEF Stands
  <2>2. ASSUME NEW i \in 1 .. Len(t) + Len(w) PROVE s[k + i] = c[i]
    <3>1. CASE i <= Len(t)
      BY <1>1, <1>2, <2>1, <3>1
    <3>2. CASE ~ (i <= Len(t))
      <4>1. i - Len(t) \in 1 .. Len(w) /\ k + Len(t) + (i - Len(t)) = k + i
        BY <1>2, <3>2
      <4> QED
        BY <1>1, <2>1, <3>2, <4>1
    <3> QED
      BY <3>1, <3>2
  <2> QED
    BY <1>1, <1>2, <2>1, <2>2 DEF Stands
<1> QED
  BY <1>3, <1>4 DEF c

\* What stands behind the first part of a text.
LEMMA OccursBehind ==
    ASSUME NEW S, NEW u \in Seq(S), NEW s \in Seq(S), NEW t \in Seq(S), NEW k \in Nat
    PROVE  Stands(t, u \o s, Len(u) + k) <=> Stands(t, s, k)
<1> DEFINE c == u \o s
<1>1. /\ c \in Seq(S) /\ Len(c) = Len(u) + Len(s)
      /\ \A i \in 1 .. Len(u) + Len(s) : c[i] = IF i <= Len(u) THEN u[i] ELSE s[i - Len(u)]
  BY ConcatProperties, Zenon
<1>2. Len(t) \in Nat /\ Len(u) \in Nat /\ Len(s) \in Nat /\ DOMAIN t = 1 .. Len(t)
  BY LenProperties
<1> HIDE DEF c
<1>3. Len(u) + k + Len(t) <= Len(c) <=> k + Len(t) <= Len(s)
  BY <1>1, <1>2
<1>4. ASSUME k + Len(t) <= Len(s), NEW i \in 1 .. Len(t) PROVE c[Len(u) + k + i] = s[k + i]
  <2>1. /\ Len(u) + k + i \in 1 .. Len(u) + Len(s) /\ ~ (Len(u) + k + i <= Len(u))
        /\ (Len(u) + k + i) - Len(u) = k + i
    BY <1>2, <1>4
  <2> QED
    BY <1>1, <2>1
<1> QED
  BY <1>2, <1>3, <1>4 DEF Stands, c

\* A text no longer than the first part of another stands at its front.
LEMMA OccursInFront ==
    ASSUME NEW S, NEW u \in Seq(S), NEW s \in Seq(S), NEW t \in Seq(S), Len(t) <= Len(u)
    PROVE  Stands(t, u \o s, 0) <=> Stands(t, u, 0)
<1> DEFINE c == u \o s
<1>1. /\ c \in Seq(S) /\ Len(c) = Len(u) + Len(s)
      /\ \A i \in 1 .. Len(u) + Len(s) : c[i] = IF i <= Len(u) THEN u[i] ELSE s[i - Len(u)]
  BY ConcatProperties, Zenon
<1>2. Len(t) \in Nat /\ Len(u) \in Nat /\ Len(s) \in Nat /\ DOMAIN t = 1 .. Len(t)
  BY LenProperties
<1> HIDE DEF c
<1>3. 0 + Len(t) <= Len(c) /\ 0 + Len(t) <= Len(u)
  BY <1>1, <1>2
<1>4. ASSUME NEW i \in 1 .. Len(t) PROVE c[0 + i] = u[0 + i]
  BY <1>1, <1>2
<1> QED
  BY <1>2, <1>3, <1>4 DEF Stands, c

\* Up to the first bar: two texts without a bar that a bar follows are equal if one stands at
\* the front of the other.
LEMMA BarSplit ==
    ASSUME NEW S, "|" \in S, NEW u \in Seq(S), NEW v \in Seq(S), BarFree(u), BarFree(v),
           NEW x \in Seq(S), NEW y \in Seq(S)
    PROVE  Stands(v \o (Bar \o y), u \o (Bar \o x), 0) <=> u = v /\ Stands(y, x, 0)
<1>1. Bar \in Seq(S) /\ Len(Bar) = 1 /\ Bar[1] = "|" /\ DOMAIN Bar = 1 .. 1
  BY DEF Bar
<1> DEFINE bx == Bar \o x
           by == Bar \o y
           c == u \o bx
<1>2. bx \in Seq(S) /\ by \in Seq(S) /\ Len(bx) = 1 + Len(x) /\ bx[1] = "|"
  <2>1. /\ bx \in Seq(S) /\ by \in Seq(S) /\ Len(bx) = Len(Bar) + Len(x)
        /\ \A i \in 1 .. Len(Bar) + Len(x) : bx[i] = IF i <= Len(Bar) THEN Bar[i] ELSE x[i - Len(Bar)]
    BY <1>1, ConcatProperties, Zenon
  <2>2. 1 \in 1 .. 1 + Len(x)
    BY LenProperties
  <2> HIDE DEF bx, by
  <2> QED
    BY <1>1, <2>1, <2>2
<1>3. /\ Len(u) \in Nat /\ Len(v) \in Nat /\ Len(x) \in Nat
      /\ DOMAIN v = 1 .. Len(v) /\ DOMAIN u = 1 .. Len(u)
  BY LenProperties
<1> HIDE DEF bx, by
<1>4. /\ c \in Seq(S) /\ Len(c) = Len(u) + 1 + Len(x)
      /\ \A i \in 1 .. Len(u) : c[i] = u[i]
      /\ c[Len(u) + 1] = "|"
  <2>1. /\ c \in Seq(S) /\ Len(c) = Len(u) + Len(bx)
        /\ \A i \in 1 .. Len(u) + Len(bx) : c[i] = IF i <= Len(u) THEN u[i] ELSE bx[i - Len(u)]
    <3>1. u \in Seq(S) /\ bx \in Seq(S)
      BY <1>2
    <3> QED
      BY ONLY <3>1, ConcatProperties, Zenon
  <2> HIDE DEF c
  <2>2. c[Len(u) + 1] = bx[1]
    <3>1. /\ Len(u) + 1 \in 1 .. Len(u) + Len(bx) /\ ~ (Len(u) + 1 <= Len(u))
          /\ (Len(u) + 1) - Len(u) = 1
      BY <1>2, <1>3
    <3> QED
      BY <2>1, <3>1
  <2> QED
    BY <1>2, <1>3, <2>1, <2>2
<1>5. Stands(v \o by, c, 0) <=> /\ Stands(v, c, 0) /\ Stands(Bar, c, Len(v))
                                  /\ Stands(y, c, Len(v) + 1)
  <2>1. Stands(v \o by, c, 0) <=> Stands(v, c, 0) /\ Stands(by, c, 0 + Len(v))
    BY <1>2, <1>4, OccursConcat
  <2>2. Stands(by, c, Len(v)) <=> Stands(Bar, c, Len(v)) /\ Stands(y, c, Len(v) + Len(Bar))
    BY <1>1, <1>3, <1>4, OccursConcat DEF by
  <2>3. 0 + Len(v) = Len(v)
    BY <1>3
  <2> HIDE DEF c
  <2> QED
    BY <1>1, <2>1, <2>2, <2>3
<1> HIDE DEF c
<1>6. ASSUME Stands(v, c, 0), Stands(Bar, c, Len(v)) PROVE u = v
  <2>1. /\ \A i \in 1 .. Len(v) : c[i] = v[i]
        /\ c[Len(v) + 1] = "|" /\ Len(v) + 1 <= Len(c)
    <3>1. \A i \in 1 .. Len(v) : c[0 + i] = v[i] /\ 0 + i = i
      BY <1>3, <1>6 DEF Stands
    <3>2. c[Len(v) + 1] = "|" /\ Len(v) + 1 <= Len(c)
      BY <1>1, <1>6 DEF Stands
    <3> QED
      BY <3>1, <3>2
  <2>2. ~ (Len(v) < Len(u))
    BY <1>3, <1>4, <2>1 DEF BarFree
  <2>3. ~ (Len(u) < Len(v))
    <3> SUFFICES ASSUME Len(u) < Len(v) PROVE FALSE
      OBVIOUS
    <3>1. Len(u) + 1 \in 1 .. Len(v)
      BY <1>3
    <3>2. v[Len(u) + 1] = "|"
      BY <1>4, <2>1, <3>1
    <3> QED
      BY <3>1, <3>2 DEF BarFree
  <2>4. Len(u) = Len(v)
    <3>1. Len(u) \in Nat /\ Len(v) \in Nat
      BY <1>3
    <3> QED
      BY ONLY <2>2, <2>3, <3>1
  <2> QED
    BY <1>4, <2>1, <2>4, SeqEqual
<1>7. ASSUME u = v PROVE Stands(v, c, 0) /\ Stands(Bar, c, Len(v))
  BY <1>1, <1>3, <1>4, <1>7 DEF Stands
<1>8. ASSUME u = v PROVE Stands(y, c, Len(v) + 1) <=> Stands(y, x, 0)
  <2>1. Stands(y, c, Len(u) + 1) <=> Stands(y, bx, 1)
    BY <1>2, OccursBehind DEF c
  <2>2. Stands(y, bx, Len(Bar) + 0) <=> Stands(y, x, 0)
    BY <1>1, OccursBehind DEF bx
  <2>3. Len(Bar) + 0 = 1
    BY <1>1
  <2> QED
    BY <1>8, <2>1, <2>2, <2>3
<1> QED
  BY <1>5, <1>6, <1>7, <1>8 DEF by, bx, c

\* A text ends in a bar and another text.
EndsIn(u, v) == Len(v) < Len(u) /\ SubSeq(u, Len(u) - Len(v), Len(u)) = Bar \o v

\* Letter by letter.
LEMMA EndsInLetters ==
    ASSUME NEW S, "|" \in S, NEW u \in Seq(S), NEW v \in Seq(S), Len(v) < Len(u)
    PROVE  EndsIn(u, v) <=> /\ u[Len(u) - Len(v)] = "|"
                            /\ \A i \in 1 .. Len(v) : u[Len(u) - Len(v) + i] = v[i]
<1>1. Bar \in Seq(S) /\ Len(Bar) = 1 /\ Bar[1] = "|"
  BY DEF Bar
<1>2. Len(u) \in Nat /\ Len(v) \in Nat /\ DOMAIN u = 1 .. Len(u)
  BY LenProperties
<1> DEFINE m == Len(u) - Len(v)
           w == SubSeq(u, m, Len(u))
           bv == Bar \o v
<1>3. /\ bv \in Seq(S) /\ Len(bv) = 1 + Len(v) /\ bv[1] = "|"
      /\ \A i \in 1 .. Len(v) : bv[1 + i] = v[i]
  <2>1. /\ bv \in Seq(S) /\ Len(bv) = Len(Bar) + Len(v)
        /\ \A i \in 1 .. Len(Bar) + Len(v) :
               bv[i] = IF i <= Len(Bar) THEN Bar[i] ELSE v[i - Len(Bar)]
    BY <1>1, ConcatProperties, Zenon
  <2> HIDE DEF bv
  <2>2. bv[1] = "|"
    <3>1. 1 \in 1 .. Len(Bar) + Len(v)
      BY <1>1, <1>2
    <3> QED
      BY <1>1, <2>1, <3>1
  <2>3. ASSUME NEW i \in 1 .. Len(v) PROVE bv[1 + i] = v[i]
    <3>1. 1 + i \in 1 .. 1 + Len(v) /\ ~ (1 + i <= 1) /\ (1 + i) - 1 = i
      BY <1>2
    <3> QED
      BY <1>1, <2>1, <3>1
  <2> QED
    BY <1>1, <2>1, <2>2, <2>3
<1>4. /\ w \in Seq(S) /\ Len(w) = Len(v) + 1
      /\ \A i \in 1 .. Len(v) + 1 : w[i] = u[m + i - 1]
  <2>1. m \in Int /\ Len(u) \in Int /\ m <= Len(u) /\ Len(u) - m + 1 = Len(v) + 1
    BY <1>2
  <2>2. \A i \in m .. Len(u) : u[i] \in S
    BY <1>2
  <2> HIDE DEF m
  <2> QED
    BY <2>1, <2>2, SubSeqProperties
<1>5. w[1] = u[m] /\ \A i \in 1 .. Len(v) : w[1 + i] = u[m + i]
  <2>1. 1 \in 1 .. Len(v) + 1 /\ m + 1 - 1 = m
    BY <1>2
  <2>2. ASSUME NEW i \in 1 .. Len(v) PROVE 1 + i \in 1 .. Len(v) + 1 /\ m + (1 + i) - 1 = m + i
    BY <1>2
  <2> HIDE DEF w, m
  <2> QED
    BY <1>4, <2>1, <2>2
<1> HIDE DEF w, bv, m
<1>6. ASSUME w = bv PROVE u[m] = "|" /\ \A i \in 1 .. Len(v) : u[m + i] = v[i]
  BY <1>3, <1>5, <1>6
<1>7. ASSUME u[m] = "|", \A i \in 1 .. Len(v) : u[m + i] = v[i] PROVE w = bv
  <2>1. ASSUME NEW j \in 1 .. Len(v) + 1 PROVE w[j] = bv[j]
    <3>1. CASE j = 1
      BY <1>3, <1>5, <1>7, <3>1
    <3>2. CASE j # 1
      <4> PICK i \in 1 .. Len(v) : j = 1 + i
        <5>1. j - 1 \in 1 .. Len(v) /\ j = 1 + (j - 1)
          BY <1>2, <3>2
        <5> QED
          BY <5>1
      <4> QED
        BY <1>3, <1>5, <1>7
    <3> QED
      BY <3>1, <3>2
  <2>2. Len(w) = Len(bv) /\ Len(w) = Len(v) + 1
    BY <1>2, <1>3, <1>4
  <2> QED
    BY <1>3, <1>4, <2>1, <2>2, SeqEqual
<1> QED
  BY <1>6, <1>7 DEF EndsIn, w, bv, m

\* At the end: a bar and a text without one end another text, or are the end of all behind a bar.
LEMMA LastBar ==
    ASSUME NEW S, "|" \in S, NEW z \in Seq(S), NEW u \in Seq(S), NEW v \in Seq(S),
           BarFree(v), Len(v) <= Len(z) + Len(u)
    PROVE  Stands(Bar \o v, z \o (Bar \o u), Len(z) + Len(u) - Len(v)) <=> u = v \/ EndsIn(u, v)
<1>1. Bar \in Seq(S) /\ Len(Bar) = 1 /\ Bar[1] = "|" /\ DOMAIN Bar = 1 .. 1
  BY DEF Bar
<1> DEFINE bu == Bar \o u
           c == z \o bu
           k == Len(z) + Len(u) - Len(v)
<1>2. /\ Len(u) \in Nat /\ Len(v) \in Nat /\ Len(z) \in Nat /\ k \in Nat
      /\ DOMAIN v = 1 .. Len(v) /\ DOMAIN u = 1 .. Len(u)
  BY LenProperties
<1>3. /\ bu \in Seq(S) /\ Len(bu) = 1 + Len(u)
      /\ \A i \in 1 .. 1 + Len(u) : bu[i] = IF i <= 1 THEN Bar[i] ELSE u[i - 1]
  <2>1. /\ bu \in Seq(S) /\ Len(bu) = Len(Bar) + Len(u)
        /\ \A i \in 1 .. Len(Bar) + Len(u) :
               bu[i] = IF i <= Len(Bar) THEN Bar[i] ELSE u[i - Len(Bar)]
    BY <1>1, ConcatProperties, Zenon
  <2> HIDE DEF bu
  <2> QED
    BY <1>1, <2>1
<1>4. /\ c \in Seq(S) /\ Len(c) = Len(z) + Len(bu)
      /\ \A i \in 1 .. Len(z) + Len(bu) : c[i] = IF i <= Len(z) THEN z[i] ELSE bu[i - Len(z)]
  <2>1. bu \in Seq(S)
    BY <1>3
  <2> HIDE DEF bu
  <2> QED
    BY <2>1, ConcatProperties, Zenon
<1> HIDE DEF bu, c, k
<1>5. /\ Len(c) = Len(z) + 1 + Len(u) /\ c[Len(z) + 1] = "|"
      /\ \A i \in 1 .. Len(u) : c[Len(z) + 1 + i] = u[i]
  <2>1. c[Len(z) + 1] = bu[1]
    <3>1. /\ Len(z) + 1 \in 1 .. Len(z) + Len(bu) /\ ~ (Len(z) + 1 <= Len(z))
          /\ (Len(z) + 1) - Len(z) = 1
      BY <1>2, <1>3
    <3> QED
      BY <1>4, <3>1
  <2>2. bu[1] = "|"
    BY <1>1, <1>2, <1>3
  <2>3. ASSUME NEW i \in 1 .. Len(u) PROVE c[Len(z) + 1 + i] = u[i]
    <3>1. /\ Len(z) + 1 + i \in 1 .. Len(z) + Len(bu) /\ ~ (Len(z) + 1 + i <= Len(z))
          /\ (Len(z) + 1 + i) - Len(z) = 1 + i
      BY <1>2, <1>3
    <3>2. c[Len(z) + 1 + i] = bu[1 + i]
      BY <1>4, <3>1
    <3>3. 1 + i \in 1 .. 1 + Len(u) /\ ~ (1 + i <= 1) /\ (1 + i) - 1 = i
      BY <1>2
    <3> QED
      BY <1>3, <3>2, <3>3
  <2> QED
    BY <1>2, <1>3, <1>4, <2>1, <2>2, <2>3
<1>6. Stands(Bar \o v, c, k) <=> Stands(Bar, c, k) /\ Stands(v, c, k + 1)
  <2>1. Stands(Bar \o v, c, k) <=> Stands(Bar, c, k) /\ Stands(v, c, k + Len(Bar))
    BY <1>1, <1>2, <1>4, OccursConcat
  <2> QED
    BY <1>1, <2>1
<1>7. ASSUME Stands(Bar, c, k), Stands(v, c, k + 1) PROVE u = v \/ EndsIn(u, v)
  <2>1. c[k + 1] = "|"
    BY <1>1, <1>7 DEF Stands
  <2>2. \A i \in 1 .. Len(v) : c[k + 1 + i] = v[i]
    BY <1>2, <1>7 DEF Stands
  <2>3. ~ (k < Len(z))
    <3> SUFFICES ASSUME k < Len(z) PROVE FALSE
      OBVIOUS
    <3> DEFINE i == Len(z) - k
    <3>1. i \in 1 .. Len(v) /\ k + 1 + i = Len(z) + 1
      BY <1>2 DEF k
    <3> QED
      BY <1>5, <2>2, <3>1 DEF BarFree
  <2>4. CASE k = Len(z)
    <3>1. Len(u) = Len(v)
      <4>1. Len(u) \in Nat /\ Len(v) \in Nat /\ Len(z) \in Nat /\ k = Len(z) + Len(u) - Len(v)
        BY <1>2 DEF k
      <4> QED
        BY ONLY <2>4, <4>1
    <3> QED
      BY <1>5, <2>2, <2>4, <3>1, SeqEqual
  <2>5. CASE k > Len(z)
    <3>1. Len(v) < Len(u) /\ k - Len(z) = Len(u) - Len(v)
      BY <1>2, <2>5 DEF k
    <3>2. u[Len(u) - Len(v)] = "|"
      <4>1. Len(u) - Len(v) \in 1 .. Len(u) /\ Len(z) + 1 + (Len(u) - Len(v)) = k + 1
        <5>1. Len(u) \in Nat /\ Len(v) \in Nat /\ Len(z) \in Nat /\ k \in Int
          BY <1>2
        <5> QED
          BY ONLY <3>1, <5>1
      <4> QED
        BY <1>5, <2>1, <4>1
    <3>3. ASSUME NEW i \in 1 .. Len(v) PROVE u[Len(u) - Len(v) + i] = v[i]
      <4>1. /\ Len(u) - Len(v) + i \in 1 .. Len(u)
            /\ Len(z) + 1 + (Len(u) - Len(v) + i) = k + 1 + i
        BY <1>2, <3>1
      <4> QED
        BY <1>5, <2>2, <4>1
    <3> QED
      BY <3>1, <3>2, <3>3, EndsInLetters
  <2> QED
    BY <1>2, <2>3, <2>4, <2>5
<1>8. ASSUME u = v PROVE Stands(Bar, c, k) /\ Stands(v, c, k + 1)
  <2>1. k = Len(z)
    BY <1>2, <1>8 DEF k
  <2> QED
    BY <1>1, <1>2, <1>5, <1>8, <2>1 DEF Stands
<1>9. ASSUME EndsIn(u, v) PROVE Stands(Bar, c, k) /\ Stands(v, c, k + 1)
  <2>1. Len(v) < Len(u) /\ k - Len(z) = Len(u) - Len(v)
    BY <1>2, <1>9 DEF EndsIn, k
  <2>2. /\ u[Len(u) - Len(v)] = "|"
        /\ \A i \in 1 .. Len(v) : u[Len(u) - Len(v) + i] = v[i]
    BY <1>9, <2>1, EndsInLetters
  <2>3. c[k + 1] = "|"
    <3>1. Len(u) - Len(v) \in 1 .. Len(u) /\ Len(z) + 1 + (Len(u) - Len(v)) = k + 1
      <4>1. Len(u) \in Nat /\ Len(v) \in Nat /\ Len(z) \in Nat /\ k \in Int
        BY <1>2
      <4> QED
        BY ONLY <2>1, <4>1
    <3> QED
      BY <1>5, <2>2, <3>1
  <2>4. ASSUME NEW i \in 1 .. Len(v) PROVE c[k + 1 + i] = v[i]
    <3>1. /\ Len(u) - Len(v) + i \in 1 .. Len(u)
          /\ Len(z) + 1 + (Len(u) - Len(v) + i) = k + 1 + i
      BY <1>2, <2>1
    <3> QED
      BY <1>5, <2>2, <3>1
  <2>5. k + 1 <= Len(c) /\ k + 1 + Len(v) <= Len(c)
    BY <1>2, <1>5, <2>1
  <2>6. Stands(Bar, c, k)
    BY <1>1, <2>3, <2>5 DEF Stands
  <2>7. Stands(v, c, k + 1)
    BY <1>2, <2>4, <2>5 DEF Stands
  <2> QED
    BY <2>6, <2>7
<1> QED
  BY <1>6, <1>7, <1>8, <1>9 DEF c, bu, k

-----------------------------------------------------------------------------
(* Patterns *)

\* A pattern of two texts matches the names that begin with the one and end with the other.
LEMMA TwoTexts ==
    ASSUME NEW S, NEW t \in Seq(S), NEW w \in Seq(S), NEW s \in Seq(S)
    PROVE  Matches(<<t, w>>, s) <=> /\ OccursAt(t, s, 0) /\ Len(t) + Len(w) <= Len(s)
                                    /\ OccursAt(w, s, Len(s) - Len(w))
<1> DEFINE p == <<t, w>>
<1>1. DOMAIN p = {1, 2} /\ Len(p) = 2 /\ p[1] = t /\ p[2] = w
  OBVIOUS
<1>2. Len(t) \in Nat /\ Len(w) \in Nat /\ Len(s) \in Nat
  BY LenProperties
<1> HIDE DEF p
<1> DEFINE fit == /\ OccursAt(t, s, 0) /\ Len(t) + Len(w) <= Len(s)
                  /\ OccursAt(w, s, Len(s) - Len(w))
<1>3. ASSUME NEW at
      PROVE  /\ Place(p, s, at, 1) = 0
             /\ Place(p, s, at, 2) = Len(s) - Len(w)
  BY <1>1 DEF Place
<1>4. ASSUME NEW at
      PROVE  fit <=> \A i \in DOMAIN p :
                         /\ i > 1 => Place(p, s, at, i - 1) + Len(p[i - 1]) <= Place(p, s, at, i)
                         /\ OccursAt(p[i], s, Place(p, s, at, i))
  <2>1. fit <=> /\ OccursAt(p[1], s, Place(p, s, at, 1))
                /\ Place(p, s, at, 1) + Len(p[1]) <= Place(p, s, at, 2)
                /\ OccursAt(p[2], s, Place(p, s, at, 2))
    BY <1>1, <1>2, <1>3
  <2> QED
    BY <1>1, <2>1
<1>5. \E at : at \in [2 .. Len(p) - 1 -> 0 .. Len(s)]
  <2>1. [i \in 2 .. Len(p) - 1 |-> 0] \in [2 .. Len(p) - 1 -> 0 .. Len(s)]
    BY <1>1, <1>2
  <2> QED
    BY <2>1
<1>6. Matches(p, s) <=> fit
  BY <1>4, <1>5 DEF Matches
<1> QED
  BY <1>6 DEF p

\* A pattern that ends in ".*" matches the names that begin with its text.
LEMMA OneText ==
    ASSUME NEW S, NEW t \in Seq(S), NEW s \in Seq(S), Dotless(t)
    PROVE  Matches(<<t, <<>>>>, s) <=> Stands(t, s, 0)
<1> DEFINE w == <<>>
<1>1. w \in Seq(S) /\ Len(w) = 0 /\ DOMAIN w = {}
  OBVIOUS
<1> HIDE DEF w
<1>2. Matches(<<t, w>>, s) <=> /\ OccursAt(t, s, 0) /\ Len(t) + Len(w) <= Len(s)
                               /\ OccursAt(w, s, Len(s) - Len(w))
  BY <1>1, TwoTexts
<1>3. Len(t) \in Nat /\ Len(s) \in Nat
  BY LenProperties
<1>4. OccursAt(w, s, Len(s) - Len(w))
  BY <1>1, <1>3 DEF OccursAt
<1>5. OccursAt(t, s, 0) => Len(t) + Len(w) <= Len(s)
  BY <1>1, <1>3 DEF OccursAt
<1> QED
  BY <1>2, <1>4, <1>5, StandsOccurs DEF w

\* A pattern "t.*w.*" matches any name that begins with t and has w behind it.
LEMMA MiddleText ==
    ASSUME NEW S, NEW t \in Seq(S), NEW w \in Seq(S), NEW s \in Seq(S), Stands(t, s, 0),
           NEW k \in Nat, Len(t) <= k, Stands(w, s, k)
    PROVE  Matches(<<t, w, <<>>>>, s)
<1> DEFINE p == <<t, w, <<>>>>
           at == [i \in 2 .. 2 |-> k]
           e == <<>>
<1>1. DOMAIN p = {1, 2, 3} /\ Len(p) = 3 /\ p[1] = t /\ p[2] = w /\ p[3] = e
  OBVIOUS
<1>2. Len(e) = 0 /\ DOMAIN e = {}
  OBVIOUS
<1>3. Len(t) \in Nat /\ Len(w) \in Nat /\ Len(s) \in Nat /\ k + Len(w) <= Len(s)
  BY LenProperties DEF Stands
<1>4. at \in [2 .. Len(p) - 1 -> 0 .. Len(s)] /\ at[2] = k
  BY <1>1, <1>3
<1> HIDE DEF p, at, e
<1>5. /\ Place(p, s, at, 1) = 0 /\ Place(p, s, at, 2) = k /\ Place(p, s, at, 3) = Len(s)
      /\ OccursAt(e, s, Len(s))
  BY <1>1, <1>2, <1>3, <1>4 DEF OccursAt, Place
<1>6. ASSUME NEW i \in {1, 2, 3}
      PROVE  /\ i > 1 => Place(p, s, at, i - 1) + Len(p[i - 1]) <= Place(p, s, at, i)
             /\ OccursAt(p[i], s, Place(p, s, at, i))
  <2>1. CASE i = 1
    BY <1>1, <1>3, <1>5, <2>1, StandsOccurs
  <2>2. CASE i = 2
    BY <1>1, <1>3, <1>5, <2>2, StandsOccurs
  <2>3. CASE i = 3
    BY <1>1, <1>2, <1>3, <1>5, <2>3
  <2> QED
    BY <2>1, <2>2, <2>3
<1>7. Matches(p, s)
  BY <1>1, <1>4, <1>6 DEF Matches
<1> QED
  BY <1>7 DEF p

\* The characters of names.
Alphabet == Signs \union STRING \union Handlers \union {"|"}

\* The fixed part of a name.
LEMMA BeginType ==
    ASSUME NEW h \in Handlers, NEW f \in BOOLEAN
    PROVE  /\ Begin(h, f) \in Seq(Alphabet) /\ Len(Begin(h, f)) = 4
           /\ Begin(h, f)[1] = h /\ Begin(h, f)[2] = "|" /\ Begin(h, f)[4] = "|"
           /\ Begin(h, f)[3] = IF f THEN "1" ELSE "0"
<1>1. h \in Alphabet /\ "|" \in Alphabet /\ "0" \in Alphabet /\ "1" \in Alphabet
  BY DEF Alphabet, Signs, Numerals
<1> QED
  BY <1>1 DEF Begin

\* It tells the handler, and whether the event has a task.
LEMMA BeginOccurs ==
    ASSUME NEW h \in Handlers, NEW f \in BOOLEAN, NEW o \in Handlers, NEW g \in BOOLEAN,
           NEW x \in Seq(Alphabet)
    PROVE  Stands(Begin(h, f), Begin(o, g) \o x, 0) <=> h = o /\ f = g
<1> DEFINE b == Begin(h, f)
           c == Begin(o, g)
<1>1. /\ b \in Seq(Alphabet) /\ Len(b) = 4 /\ b[1] = h /\ b[2] = "|" /\ b[4] = "|"
      /\ b[3] = IF f THEN "1" ELSE "0"
  BY BeginType
<1>2. /\ c \in Seq(Alphabet) /\ Len(c) = 4 /\ c[1] = o /\ c[2] = "|" /\ c[4] = "|"
      /\ c[3] = IF g THEN "1" ELSE "0"
  BY BeginType
<1>3. DOMAIN b = 1 .. 4
  BY <1>1, LenProperties
<1> HIDE DEF b, c
<1>4. Stands(b, c, 0) <=> \A i \in 1 .. 4 : c[0 + i] = b[i]
  BY <1>1, <1>2, <1>3 DEF Stands
<1>5. (\A i \in 1 .. 4 : c[0 + i] = b[i])
          <=> c[1] = b[1] /\ c[2] = b[2] /\ c[3] = b[3] /\ c[4] = b[4]
  <2>1. 1 .. 4 = {1, 2, 3, 4} /\ 0 + 1 = 1 /\ 0 + 2 = 2 /\ 0 + 3 = 3 /\ 0 + 4 = 4
    OBVIOUS
  <2> QED
    BY <2>1
<1>6. c[3] = b[3] <=> f = g
  BY <1>1, <1>2
<1>7. Stands(b, c \o x, 0) <=> Stands(b, c, 0)
  BY <1>1, <1>2, OccursInFront
<1> QED
  BY <1>1, <1>2, <1>4, <1>5, <1>6, <1>7 DEF b, c

\* Up to its first bar it tells the handler.
LEMMA OwnerOccurs ==
    ASSUME NEW h \in Handlers, NEW o \in Handlers, NEW g \in BOOLEAN, NEW x \in Seq(Alphabet)
    PROVE  Stands(<<h, "|">>, Begin(o, g) \o x, 0) <=> h = o
<1> DEFINE c == Begin(o, g)
           t == <<h, "|">>
<1>1. c \in Seq(Alphabet) /\ Len(c) = 4 /\ c[1] = o /\ c[2] = "|"
  BY BeginType
<1>2. t \in Seq(Alphabet) /\ Len(t) = 2 /\ t[1] = h /\ t[2] = "|"
  BY DEF Alphabet
<1>3. DOMAIN t = 1 .. 2
  BY <1>2, LenProperties
<1> HIDE DEF c, t
<1>4. Stands(t, c, 0) <=> \A i \in 1 .. 2 : c[0 + i] = t[i]
  BY <1>1, <1>2, <1>3 DEF Stands
<1>5. (\A i \in 1 .. 2 : c[0 + i] = t[i]) <=> c[1] = t[1] /\ c[2] = t[2]
  <2>1. 1 .. 2 = {1, 2} /\ 0 + 1 = 1 /\ 0 + 2 = 2
    OBVIOUS
  <2> QED
    BY <2>1
<1>6. Stands(t, c \o x, 0) <=> Stands(t, c, 0)
  BY <1>1, <1>2, OccursInFront
<1> QED
  BY <1>1, <1>2, <1>4, <1>5, <1>6 DEF c, t

\* What is compared behind it.
LEMMA BeginSplit ==
    ASSUME NEW h \in Handlers, NEW f \in BOOLEAN, NEW o \in Handlers, NEW g \in BOOLEAN,
           NEW x \in Seq(Alphabet), NEW y \in Seq(Alphabet)
    PROVE  Stands(Begin(h, f) \o y, Begin(o, g) \o x, 0) <=> h = o /\ f = g /\ Stands(y, x, 0)
<1> DEFINE b == Begin(h, f)
           c == Begin(o, g)
           s == c \o x
<1>1. b \in Seq(Alphabet) /\ c \in Seq(Alphabet) /\ Len(b) = 4 /\ Len(c) = 4
  BY BeginType
<1>2. Stands(b, s, 0) <=> h = o /\ f = g
  BY BeginOccurs
<1> HIDE DEF b, c
<1>3. s \in Seq(Alphabet)
  BY <1>1, ConcatProperties
<1>4. Stands(y, s, Len(c) + 0) <=> Stands(y, x, 0)
  BY <1>1, OccursBehind
<1> HIDE DEF s
<1>5. Stands(b \o y, s, 0) <=> Stands(b, s, 0) /\ Stands(y, s, 0 + Len(b))
  BY <1>1, <1>3, OccursConcat
<1>6. 0 + Len(b) = Len(c) + 0
  BY <1>1
<1> QED
  BY <1>2, <1>4, <1>5, <1>6 DEF b, c, s

\* The parts of a name.
Rest(d) == Decimal(d.innerEventId) \o (Bar \o (Decimal(d.param) \o (Bar \o d.name)))
EndOf(d) == Decimal(d.param) \o (Bar \o d.name)

\* Numbers are texts without a bar.
LEMMA DecimalType ==
    ASSUME NEW n \in Int
    PROVE  Decimal(n) \in Seq(Alphabet) /\ BarFree(Decimal(n))
<1>1. Signs \subseteq Alphabet
  BY DEF Alphabet
<1> QED
  BY <1>1, DecimalProperties, SeqMonotonic

\* The bar is a text.
LEMMA BarType == "|" \in Alphabet /\ Bar \in Seq(Alphabet) /\ Len(Bar) = 1
BY DEF Alphabet, Bar

\* What is written as a number is one.
LEMMA NumbersAreIntegers ==
    /\ \A id \in Ids \union {0} : id \in Int
    /\ \A param \in Params \union {0} : param \in Int
BY FfrtAssumption

\* Task names are texts; those that RemoveTask is asked for have no bar.
LEMMA NameType ==
    ASSUME NEW name \in Names
    PROVE  name \in Seq(Alphabet) /\ (name \in Expressions => BarFree(name))
<1>1. name \in Seq(STRING)
  BY FfrtAssumption
<1>2. DOMAIN name = 1 .. Len(name)
  BY <1>1, LenProperties
<1>3. STRING \subseteq Alphabet
  BY DEF Alphabet
<1>4. name \in Expressions => \A k \in 1 .. Len(name) : name[k] # "|"
  BY <1>2 DEF Expressions, Operators
<1> QED
  BY <1>1, <1>3, <1>4, SeqMonotonic DEF BarFree

\* No dot comes from anything but a task name.
LEMMA DotlessTexts ==
    /\ Dotless(Bar)
    /\ \A h \in Handlers : Dotless(<<h, "|">>) /\ \A g \in BOOLEAN : Dotless(Begin(h, g))
    /\ \A n \in Int : Dotless(Decimal(n))
<1>1. Dotless(Bar)
  BY DEF Dotless, Bar
<1>2. ASSUME NEW h \in Handlers PROVE Dotless(<<h, "|">>)
  BY FfrtAssumption DEF Dotless
<1>3. ASSUME NEW h \in Handlers, NEW g \in BOOLEAN PROVE Dotless(Begin(h, g))
  <2>1. h # "."
    BY FfrtAssumption
  <2>2. DOMAIN Begin(h, g) = {1, 2, 3, 4}
    BY DEF Begin
  <2> QED
    BY <2>1, <2>2, BeginType DEF Dotless
<1>4. ASSUME NEW n \in Int PROVE Dotless(Decimal(n))
  <2>1. Decimal(n) \in Seq(Signs)
    BY DecimalProperties
  <2>2. "." \notin Signs
    BY DEF Signs, Numerals
  <2> HIDE DEF Signs
  <2> QED
    BY <2>1, <2>2 DEF Dotless
<1> QED
  BY <1>1, <1>2, <1>3, <1>4

LEMMA DotlessConcat ==
    ASSUME NEW u \in Seq(Alphabet), NEW v \in Seq(Alphabet), Dotless(u), Dotless(v)
    PROVE  Dotless(u \o v)
<1> DEFINE c == u \o v
<1>1. /\ c \in Seq(Alphabet) /\ Len(c) = Len(u) + Len(v)
      /\ \A k \in 1 .. Len(u) + Len(v) : c[k] = IF k <= Len(u) THEN u[k] ELSE v[k - Len(u)]
  BY ConcatProperties, Zenon
<1>2. /\ Len(u) \in Nat /\ Len(v) \in Nat /\ DOMAIN c = 1 .. Len(c)
      /\ DOMAIN u = 1 .. Len(u) /\ DOMAIN v = 1 .. Len(v)
  BY <1>1, LenProperties
<1> HIDE DEF c
<1>3. ASSUME NEW k \in 1 .. Len(u) + Len(v) PROVE c[k] # "."
  <2>1. CASE k <= Len(u)
    <3>1. k \in 1 .. Len(u)
      BY <1>2, <2>1
    <3> QED
      BY <1>1, <1>2, <2>1, <3>1 DEF Dotless
  <2>2. CASE ~ (k <= Len(u))
    <3>1. k - Len(u) \in 1 .. Len(v)
      BY <1>2, <2>2
    <3> QED
      BY <1>1, <1>2, <2>2, <3>1 DEF Dotless
  <2> QED
    BY <2>1, <2>2
<1> QED
  BY <1>1, <1>2, <1>3 DEF Dotless, c

\* The parts of the name of an event.
LEMMA PartsType ==
    ASSUME NEW d \in Content
    PROVE  /\ d.owner \in Handlers /\ d.hasTask \in BOOLEAN /\ d.innerEventId \in Int /\ d.param \in Int
           /\ d.name \in Seq(Alphabet)
           /\ (Bar \o d.name) \in Seq(Alphabet)
           /\ EndOf(d) \in Seq(Alphabet) /\ (Bar \o EndOf(d)) \in Seq(Alphabet)
           /\ Rest(d) \in Seq(Alphabet)
           /\ Rest(d) = Decimal(d.innerEventId) \o (Bar \o EndOf(d))
           /\ TaskName(d) = Begin(d.owner, d.hasTask) \o Rest(d)
           /\ TaskName(d) \in Seq(Alphabet)
<1>1. /\ d.owner \in Handlers /\ d.hasTask \in BOOLEAN /\ d.innerEventId \in Ids \union {0}
      /\ d.param \in Params \union {0} /\ d.name \in Names
  BY DEF Content
<1>2. d.innerEventId \in Int /\ d.param \in Int
  BY <1>1, NumbersAreIntegers
<1>3. d.name \in Seq(Alphabet)
  BY <1>1, NameType
<1> DEFINE n == d.name
           p == Decimal(d.param)
           q == Decimal(d.innerEventId)
           b == Begin(d.owner, d.hasTask)
<1>4. /\ n \in Seq(Alphabet) /\ p \in Seq(Alphabet) /\ q \in Seq(Alphabet) /\ b \in Seq(Alphabet)
      /\ Bar \in Seq(Alphabet)
  BY <1>1, <1>2, <1>3, DecimalType, BeginType, BarType
<1> HIDE DEF n, p, q, b
<1>5. \A u, v \in Seq(Alphabet) : u \o v \in Seq(Alphabet)
  BY ConcatProperties
<1>6. /\ Bar \o n \in Seq(Alphabet) /\ p \o (Bar \o n) \in Seq(Alphabet)
      /\ Bar \o (p \o (Bar \o n)) \in Seq(Alphabet)
      /\ q \o (Bar \o (p \o (Bar \o n))) \in Seq(Alphabet)
      /\ b \o (q \o (Bar \o (p \o (Bar \o n)))) \in Seq(Alphabet)
  BY <1>4, <1>5
<1>7. /\ EndOf(d) = p \o (Bar \o n) /\ Rest(d) = q \o (Bar \o (p \o (Bar \o n)))
      /\ TaskName(d) = b \o Rest(d)
  BY DEF EndOf, Rest, TaskName, n, p, q, b
<1> QED
  BY <1>1, <1>2, <1>3, <1>6, <1>7 DEF n, q, b

\* RemoveAll and RemoveOrphan match the names of the handler's events.
LEMMA OwnerMatches ==
    ASSUME NEW d \in Content, NEW h \in Handlers
    PROVE  Matches(OwnerPattern(h), TaskName(d)) <=> d.owner = h
<1>1. <<h, "|">> \in Seq(Alphabet) /\ Dotless(<<h, "|">>)
  BY DotlessTexts DEF Alphabet
<1>2. Stands(<<h, "|">>, TaskName(d), 0) <=> h = d.owner
  <2>1. d.owner \in Handlers /\ d.hasTask \in BOOLEAN /\ Rest(d) \in Seq(Alphabet)
    BY PartsType
  <2>2. Stands(<<h, "|">>, Begin(d.owner, d.hasTask) \o Rest(d), 0) <=> h = d.owner
    BY ONLY <2>1, OwnerOccurs, h \in Handlers
  <2> QED
    BY <2>2, PartsType, Zenon
<1> QED
  BY <1>1, <1>2, PartsType, OneText DEF OwnerPattern

\* Remove of an id matches the names of the events without a task that have the id.
LEMMA IdMatches ==
    ASSUME NEW d \in Content, NEW h \in Handlers, NEW id \in Ids
    PROVE  Matches(IdPattern(h, id), TaskName(d))
               <=> d.owner = h /\ ~ d.hasTask /\ d.innerEventId = id
<1> DEFINE q == Decimal(id)
           e == <<>>
           r == Decimal(d.innerEventId)
           t == Begin(h, FALSE) \o (q \o Bar)
<1>1. /\ q \in Seq(Alphabet) /\ BarFree(q) /\ r \in Seq(Alphabet) /\ BarFree(r)
      /\ (q = r <=> id = d.innerEventId)
  BY NumbersAreIntegers, DecimalType, DecimalProperties, PartsType
<1>2. e \in Seq(Alphabet) /\ Bar \o e = Bar
  BY BarType, ConcatEmptySeq
<1>3. Stands(e, EndOf(d), 0)
  BY PartsType DEF Stands
<1> HIDE DEF q, r, e
<1>4. Stands(q \o (Bar \o e), r \o (Bar \o EndOf(d)), 0) <=> r = q /\ Stands(e, EndOf(d), 0)
  BY <1>1, <1>2, BarType, BarSplit, PartsType
<1>5. Stands(q \o Bar, Rest(d), 0) <=> q = r
  BY <1>2, <1>3, <1>4, PartsType DEF r
<1>6. q \o Bar \in Seq(Alphabet) /\ Dotless(q \o Bar)
  <2>1. Dotless(q)
    BY NumbersAreIntegers, DotlessTexts DEF q
  <2> QED
    BY <1>1, <2>1, BarType, ConcatProperties, DotlessTexts, DotlessConcat
<1>7. t \in Seq(Alphabet) /\ Dotless(t)
  <2> DEFINE b == Begin(h, FALSE)
             w == q \o Bar
  <2>1. b \in Seq(Alphabet) /\ Dotless(b)
    BY BeginType, DotlessTexts
  <2>2. w \in Seq(Alphabet) /\ Dotless(w) /\ t = b \o w
    BY <1>6
  <2> HIDE DEF b, w, t
  <2> QED
    BY <2>1, <2>2, ConcatProperties, DotlessConcat
<1>8. Stands(t, TaskName(d), 0) <=> h = d.owner /\ FALSE = d.hasTask /\ q = r
  <2>1. d.owner \in Handlers /\ d.hasTask \in BOOLEAN /\ Rest(d) \in Seq(Alphabet)
    BY PartsType
  <2>2. TaskName(d) = Begin(d.owner, d.hasTask) \o Rest(d)
    BY PartsType
  <2> DEFINE f == FALSE
             w == q \o Bar
  <2>3. w \in Seq(Alphabet) /\ t = Begin(h, f) \o w /\ f \in BOOLEAN
    BY <1>6
  <2> HIDE DEF w, t, f
  <2>4. Stands(Begin(h, f) \o w, Begin(d.owner, d.hasTask) \o Rest(d), 0)
            <=> h = d.owner /\ f = d.hasTask /\ Stands(w, Rest(d), 0)
    BY ONLY <2>1, <2>3, BeginSplit, h \in Handlers
  <2> QED
    BY <1>5, <2>2, <2>3, <2>4 DEF w, f
<1>9. Matches(<<t, <<>>>>, TaskName(d)) <=> Stands(t, TaskName(d), 0)
  BY <1>7, OneText, PartsType
<1>10. IdPattern(h, id) = <<t, <<>>>>
  BY DEF IdPattern, q
<1> HIDE DEF t
<1> QED
  BY <1>1, <1>8, <1>9, <1>10, PartsType

\* Remove of an id and a param matches the names of those that have both.
LEMMA IdParamMatches ==
    ASSUME NEW d \in Content, NEW h \in Handlers, NEW id \in Ids, NEW param \in Params
    PROVE  Matches(IdParamPattern(h, id, param), TaskName(d))
               <=> d.owner = h /\ ~ d.hasTask /\ d.innerEventId = id /\ d.param = param
<1> DEFINE q == Decimal(id)
           e == <<>>
           r == Decimal(d.innerEventId)
           p == Decimal(param)
           a == Decimal(d.param)
           y == p \o Bar
           t == Begin(h, FALSE) \o (q \o (Bar \o y))
<1>1. /\ q \in Seq(Alphabet) /\ BarFree(q) /\ r \in Seq(Alphabet) /\ BarFree(r)
      /\ p \in Seq(Alphabet) /\ BarFree(p) /\ a \in Seq(Alphabet) /\ BarFree(a)
      /\ (q = r <=> id = d.innerEventId) /\ (p = a <=> param = d.param)
  BY NumbersAreIntegers, DecimalType, DecimalProperties, PartsType
<1>2. e \in Seq(Alphabet) /\ Bar \o e = Bar
  BY BarType, ConcatEmptySeq
<1>3. Stands(e, d.name, 0)
  BY PartsType DEF Stands
<1> HIDE DEF q, r, e, p, a
<1>4. Stands(p \o (Bar \o e), a \o (Bar \o d.name), 0) <=> a = p /\ Stands(e, d.name, 0)
  BY <1>1, <1>2, BarType, BarSplit, PartsType
<1>5. y \in Seq(Alphabet) /\ Dotless(y) /\ (Stands(y, EndOf(d), 0) <=> p = a)
  <2>1. y \in Seq(Alphabet) /\ Dotless(y)
    <3>1. Dotless(p)
      BY NumbersAreIntegers, DotlessTexts DEF p
    <3> QED
      BY <1>1, <3>1, BarType, ConcatProperties, DotlessTexts, DotlessConcat
  <2>2. EndOf(d) = a \o (Bar \o d.name)
    BY DEF EndOf, a
  <2> QED
    BY <1>2, <1>3, <1>4, <2>1, <2>2
<1> HIDE DEF y
<1>6. Stands(q \o (Bar \o y), r \o (Bar \o EndOf(d)), 0) <=> r = q /\ Stands(y, EndOf(d), 0)
  BY <1>1, <1>5, BarType, BarSplit, PartsType
<1>7. q \o (Bar \o y) \in Seq(Alphabet) /\ Dotless(q \o (Bar \o y))
  <2> DEFINE w == Bar \o y
  <2>1. w \in Seq(Alphabet) /\ Dotless(w)
    BY <1>5, BarType, ConcatProperties, DotlessTexts, DotlessConcat
  <2>2. Dotless(q)
    BY NumbersAreIntegers, DotlessTexts DEF q
  <2> HIDE DEF w
  <2>3. q \o w \in Seq(Alphabet) /\ Dotless(q \o w)
    BY <1>1, <2>1, <2>2, ConcatProperties, DotlessConcat
  <2> QED
    BY <2>3 DEF w
<1>8. t \in Seq(Alphabet) /\ Dotless(t)
  <2> DEFINE b == Begin(h, FALSE)
             w == q \o (Bar \o y)
  <2>1. b \in Seq(Alphabet) /\ Dotless(b)
    BY BeginType, DotlessTexts
  <2>2. w \in Seq(Alphabet) /\ Dotless(w) /\ t = b \o w
    BY <1>7
  <2> HIDE DEF b, w, t
  <2> QED
    BY <2>1, <2>2, ConcatProperties, DotlessConcat
<1>9. Stands(q \o (Bar \o y), Rest(d), 0) <=> r = q /\ p = a
  BY <1>5, <1>6, PartsType DEF r
<1>10. Stands(t, TaskName(d), 0) <=> h = d.owner /\ FALSE = d.hasTask /\ r = q /\ p = a
  <2>1. d.owner \in Handlers /\ d.hasTask \in BOOLEAN /\ Rest(d) \in Seq(Alphabet)
    BY PartsType
  <2>2. TaskName(d) = Begin(d.owner, d.hasTask) \o Rest(d)
    BY PartsType
  <2> DEFINE f == FALSE
             w == q \o (Bar \o y)
  <2>3. w \in Seq(Alphabet) /\ t = Begin(h, f) \o w /\ f \in BOOLEAN
    BY <1>7
  <2> HIDE DEF w, t, f
  <2>4. Stands(Begin(h, f) \o w, Begin(d.owner, d.hasTask) \o Rest(d), 0)
            <=> h = d.owner /\ f = d.hasTask /\ Stands(w, Rest(d), 0)
    BY ONLY <2>1, <2>3, BeginSplit, h \in Handlers
  <2> QED
    BY <1>9, <2>2, <2>3, <2>4 DEF w, f
<1>11. Matches(<<t, <<>>>>, TaskName(d)) <=> Stands(t, TaskName(d), 0)
  BY <1>8, OneText, PartsType
<1>12. IdParamPattern(h, id, param) = <<t, <<>>>>
  BY DEF IdParamPattern, q, p, y
<1> HIDE DEF t
<1> QED
  BY <1>1, <1>10, <1>11, <1>12, PartsType

\* Concatenation is associative.
LEMMA Associative ==
    ASSUME NEW u \in Seq(Alphabet), NEW v \in Seq(Alphabet), NEW x \in Seq(Alphabet)
    PROVE  u \o (v \o x) = (u \o v) \o x
BY ONLY ConcatAssociative

\* Remove of a task name matches the names of the handler's tasks that are called so, or whose
\* last part is; with a dot in it, it may match others of the handler's.
LEMMA NameMatches ==
    ASSUME NEW d \in Content, NEW h \in Handlers, NEW name \in Expressions
    PROVE  LET matches == Matches(NamePattern(h, name), TaskName(d))
               asked == d.owner = h /\ d.hasTask /\ (d.name = name \/ EndsIn(d.name, name))
           IN  /\ asked => matches
               /\ matches => d.owner = h /\ d.hasTask
               /\ Dotless(name) => (matches => asked)
<1> DEFINE n == d.name
           r == Decimal(d.innerEventId)
           p == Decimal(d.param)
           b == Begin(d.owner, d.hasTask)
           N == TaskName(d)
           front == b \o (r \o (Bar \o p))
           f == TRUE
           t == Begin(h, f)
           w == Bar \o name
<1>1. /\ n \in Seq(Alphabet) /\ name \in Seq(Alphabet) /\ BarFree(name)
      /\ r \in Seq(Alphabet) /\ p \in Seq(Alphabet) /\ b \in Seq(Alphabet) /\ Len(b) = 4
      /\ Bar \in Seq(Alphabet) /\ Len(Bar) = 1 /\ "|" \in Alphabet
  <2>1. n \in Seq(Alphabet) /\ name \in Seq(Alphabet) /\ BarFree(name)
    BY NameType, PartsType DEF Expressions
  <2>2. r \in Seq(Alphabet) /\ p \in Seq(Alphabet)
    BY PartsType, DecimalType
  <2>3. b \in Seq(Alphabet) /\ Len(b) = 4
    BY PartsType, BeginType
  <2> QED
    BY <2>1, <2>2, <2>3, BarType
<1>2. N = b \o (r \o (Bar \o (p \o (Bar \o n)))) /\ N \in Seq(Alphabet)
  BY PartsType DEF Rest, EndOf
<1>3. t \in Seq(Alphabet) /\ Len(t) = 4
  BY BeginType
<1>4. Stands(t, N, 0) <=> h = d.owner /\ f = d.hasTask
  <2>1. d.owner \in Handlers /\ d.hasTask \in BOOLEAN /\ Rest(d) \in Seq(Alphabet) /\ f \in BOOLEAN
    BY PartsType
  <2>2. N = Begin(d.owner, d.hasTask) \o Rest(d)
    BY PartsType
  <2> HIDE DEF f, N
  <2>3. Stands(Begin(h, f), Begin(d.owner, d.hasTask) \o Rest(d), 0)
            <=> h = d.owner /\ f = d.hasTask
    BY ONLY <2>1, BeginOccurs, h \in Handlers
  <2> QED
    BY <2>2, <2>3
<1> HIDE DEF n, r, p, b, N, f, t
<1>5. \A u, v \in Seq(Alphabet) : u \o v \in Seq(Alphabet) /\ Len(u \o v) = Len(u) + Len(v)
  BY ConcatProperties
<1>7. N = front \o (Bar \o n)
  <2> DEFINE Cat(u, v) == u \o v
             x == Cat(Bar, n)
             m == Cat(Bar, p)
             l == Cat(r, m)
  <2>1. \A u, v \in Seq(Alphabet) : Cat(u, v) \in Seq(Alphabet)
    BY <1>5
  <2>2. \A u, v, y \in Seq(Alphabet) : Cat(u, Cat(v, y)) = Cat(Cat(u, v), y)
    BY Associative
  <2>3. /\ Bar \in Seq(Alphabet) /\ n \in Seq(Alphabet) /\ p \in Seq(Alphabet)
        /\ r \in Seq(Alphabet) /\ b \in Seq(Alphabet)
    BY <1>1
  <2>4. N = Cat(b, Cat(r, Cat(Bar, Cat(p, x)))) /\ front \o (Bar \o n) = Cat(Cat(b, l), x)
    BY <1>2
  <2> HIDE DEF Cat
  <2>5. x \in Seq(Alphabet) /\ m \in Seq(Alphabet) /\ l \in Seq(Alphabet)
    BY <2>1, <2>3
  <2>6. Cat(Bar, Cat(p, x)) = Cat(m, x) /\ Cat(r, Cat(m, x)) = Cat(l, x)
    <3> HIDE DEF x
    <3> QED
      BY <2>2, <2>3, <2>5
  <2>7. Cat(b, Cat(l, x)) = Cat(Cat(b, l), x)
    <3> HIDE DEF x, l
    <3> QED
      BY <2>2, <2>3, <2>5
  <2> QED
    BY <2>4, <2>6, <2>7
<1>8. front \in Seq(Alphabet) /\ Len(front) >= 4
  <2>1. Bar \o p \in Seq(Alphabet) /\ r \o (Bar \o p) \in Seq(Alphabet)
    BY <1>1, <1>5
  <2>2. front \in Seq(Alphabet) /\ Len(front) = 4 + Len(r \o (Bar \o p))
    BY <1>1, <1>5, <2>1
  <2>3. Len(r \o (Bar \o p)) \in Nat
    BY <2>1
  <2> QED
    BY <2>2, <2>3
<1> HIDE DEF front
<1>9. w \in Seq(Alphabet) /\ Len(w) = 1 + Len(name) /\ Len(N) = Len(front) + 1 + Len(n)
  <2>1. Len(Bar \o n) = 1 + Len(n) /\ Bar \o n \in Seq(Alphabet)
    BY <1>1, <1>5
  <2>2. Len(N) = Len(front) + (1 + Len(n))
    BY <1>5, <1>7, <1>8, <2>1
  <2>3. Len(front) \in Nat /\ Len(n) \in Nat
    BY <1>1, <1>8
  <2>4. w \in Seq(Alphabet) /\ Len(w) = 1 + Len(name)
    BY <1>1, <1>5
  <2> HIDE DEF w
  <2> QED
    BY <2>2, <2>3, <2>4
<1>10. Len(n) \in Nat /\ Len(name) \in Nat /\ Len(front) \in Nat
  BY <1>1, <1>8
<1>11. ASSUME Len(name) <= Len(front) + Len(n)
       PROVE  Stands(w, N, Len(N) - Len(w)) <=> n = name \/ EndsIn(n, name)
  <2>1. Stands(Bar \o name, front \o (Bar \o n), Len(front) + Len(n) - Len(name))
            <=> n = name \/ EndsIn(n, name)
    BY <1>1, <1>8, <1>11, LastBar
  <2>2. Len(N) - Len(w) = Len(front) + Len(n) - Len(name)
    BY <1>9, <1>10
  <2> QED
    BY <1>7, <2>1, <2>2
<1>12. Dotless(t) /\ (Dotless(name) => Dotless(w))
  BY <1>1, DotlessTexts, DotlessConcat DEF t, f
<1> HIDE DEF w
<1>13. Matches(<<t, w>>, N) <=> /\ OccursAt(t, N, 0) /\ Len(t) + Len(w) <= Len(N)
                                /\ OccursAt(w, N, Len(N) - Len(w))
  BY <1>2, <1>3, <1>9, TwoTexts
<1>14. OccursAt(t, N, 0) <=> h = d.owner /\ f = d.hasTask
  BY <1>4, <1>12, StandsOccurs
<1>15. Len(t) + Len(w) <= Len(N) => Len(name) <= Len(front) + Len(n)
  BY <1>3, <1>9, <1>10
<1>16. ASSUME n = name \/ EndsIn(n, name)
       PROVE  Len(t) + Len(w) <= Len(N) /\ OccursAt(w, N, Len(N) - Len(w))
  <2>1. Len(name) <= Len(n)
    BY <1>10, <1>16 DEF EndsIn
  <2>2. Len(name) <= Len(front) + Len(n) /\ Len(t) + Len(w) <= Len(N)
    BY <1>3, <1>8, <1>9, <1>10, <2>1
  <2> QED
    BY <1>11, <1>16, <2>2, StandsOccurs
<1>17. ASSUME Dotless(name), Len(t) + Len(w) <= Len(N), OccursAt(w, N, Len(N) - Len(w))
       PROVE  n = name \/ EndsIn(n, name)
  BY <1>11, <1>12, <1>15, <1>17, StandsOccurs
<1>18. NamePattern(h, name) = <<t, w>>
  BY DEF NamePattern, t, w, f
<1>19. f = d.hasTask <=> d.hasTask
  BY PartsType DEF f
<1> QED
  BY <1>13, <1>14, <1>16, <1>17, <1>18, <1>19 DEF N, n

\* HasInnerEvent of a param matches the names of the events that have it (and others).
LEMMA ParamMatches ==
    ASSUME NEW d \in Content, NEW h \in Handlers, d.owner = h, ~ d.hasTask
    PROVE  Matches(ParamPattern(h, d.param), TaskName(d))
<1> DEFINE r == Decimal(d.innerEventId)
           p == Decimal(d.param)
           f == FALSE
           b == Begin(h, f)
           N == TaskName(d)
           w == p \o Bar
           e == <<>>
           k == 4 + (Len(r) + (1 + 0))
<1>1. /\ r \in Seq(Alphabet) /\ p \in Seq(Alphabet) /\ BarFree(p)
      /\ b \in Seq(Alphabet) /\ Len(b) = 4
      /\ Bar \in Seq(Alphabet) /\ Len(Bar) = 1 /\ "|" \in Alphabet
  BY PartsType, DecimalType, BeginType, BarType
<1>2. /\ N = b \o Rest(d) /\ N \in Seq(Alphabet) /\ Rest(d) \in Seq(Alphabet)
      /\ Rest(d) = r \o (Bar \o EndOf(d)) /\ EndOf(d) \in Seq(Alphabet)
      /\ Bar \o EndOf(d) \in Seq(Alphabet) /\ EndOf(d) = p \o (Bar \o d.name)
      /\ d.name \in Seq(Alphabet)
  <2>1. d.hasTask = f
    BY PartsType
  <2> QED
    BY <2>1, PartsType DEF EndOf
<1>3. Stands(b, N, 0)
  <2>1. d.owner \in Handlers /\ d.hasTask \in BOOLEAN /\ f \in BOOLEAN /\ f = d.hasTask
    BY PartsType
  <2> HIDE DEF f
  <2>2. Stands(Begin(h, f), Begin(h, f) \o Rest(d), 0) <=> h = h /\ f = f
    BY ONLY <2>1, <1>2, BeginOccurs, h \in Handlers
  <2> QED
    BY <1>2, <2>2
<1>4. e \in Seq(Alphabet) /\ Bar \o e = Bar /\ Stands(e, d.name, 0)
  BY <1>2, BarType, ConcatEmptySeq DEF Stands
<1> HIDE DEF r, p, b, N, f, e
<1>5. Stands(p \o (Bar \o e), p \o (Bar \o d.name), 0) <=> p = p /\ Stands(e, d.name, 0)
  BY <1>1, <1>2, <1>4, BarSplit
<1>6. w \in Seq(Alphabet) /\ Stands(w, EndOf(d), 0)
  BY <1>1, <1>2, <1>4, <1>5, ConcatProperties
<1> HIDE DEF w
<1>7. Stands(w, Bar \o EndOf(d), Len(Bar) + 0)
  BY <1>1, <1>2, <1>6, OccursBehind
<1>8. Len(r) \in Nat
  BY <1>1
<1>9. Stands(w, Rest(d), Len(r) + 1)
  <2>1. Stands(w, Bar \o EndOf(d), 1)
    BY <1>1, <1>7
  <2> DEFINE x == Bar \o EndOf(d)
  <2>2. x \in Seq(Alphabet) /\ Rest(d) = r \o x /\ Stands(w, x, 1)
    BY <1>2, <2>1
  <2> HIDE DEF x
  <2>3. Stands(w, r \o x, Len(r) + 1) <=> Stands(w, x, 1)
    BY ONLY <1>1, <1>6, <2>2, OccursBehind
  <2> QED
    BY <2>2, <2>3
<1>10. Stands(w, N, 4 + (Len(r) + 1))
  <2>1. Len(r) + 1 \in Nat
    BY <1>8
  <2>2. Stands(w, b \o Rest(d), Len(b) + (Len(r) + 1)) <=> Stands(w, Rest(d), Len(r) + 1)
    BY <1>1, <1>2, <1>6, <2>1, OccursBehind
  <2> QED
    BY <1>1, <1>2, <1>9, <2>2
<1>11. Matches(<<b, w, <<>>>>, N)
  <2>1. 4 + (Len(r) + 1) \in Nat /\ 4 <= 4 + (Len(r) + 1)
    BY <1>8
  <2> QED
    BY <1>1, <1>2, <1>3, <1>6, <1>10, <2>1, MiddleText
<1>12. ParamPattern(h, d.param) = <<b, w, <<>>>>
  BY DEF ParamPattern, b, f, w, p
<1> QED
  BY <1>11, <1>12 DEF N

-----------------------------------------------------------------------------
(* The queries and removals of a queue, given its types *)

\* With one owner's data in every queued event, the patterns are the filters.
LEMMA PatternsAreFiltersOfTypes == TypeOK => PatternsAreFilters
<1> SUFFICES ASSUME TypeOK PROVE PatternsAreFilters
  OBVIOUS
<1>1. /\ \A r \in Runners : tasks[r] \subseteq Events
      /\ \A r \in Runners : \A e \in tasks[r] :
             data[e] \in Content /\ RunnerOf[data[e].owner] = r /\ data[e].owner \in Handlers
      /\ \A h \in Handlers : RunnerOf[h] \in Runners
  <2>1. ASSUME NEW r \in Runners, NEW e \in tasks[r]
        PROVE  data[e] \in Content /\ RunnerOf[data[e].owner] = r /\ data[e].owner \in Handlers
    <3>1. e \in Events /\ data[e] # None /\ RunnerOf[data[e].owner] = r
      BY DEF TypeOK
    <3>2. data[e] \in Content
      BY <3>1 DEF TypeOK
    <3> QED
      BY <3>1, <3>2, PartsType
  <2> QED
    BY <2>1, FfrtAssumption DEF TypeOK
<1>2. ASSUME NEW h \in Handlers
      PROVE  /\ Found(h, OwnerPattern(h)) = Filtered(h, FALSE) \union Filtered(h, TRUE)
             /\ \A id \in Ids : /\ Found(h, IdPattern(h, id)) = FilteredById(h, id)
                                /\ HasInnerEvent(h, id) <=> FilteredById(h, id) # {}
             /\ \A id \in Ids, param \in Params :
                    Found(h, IdParamPattern(h, id, param))
                        = FilteredById(h, id) \intersect FilteredByParam(h, param)
             /\ \A name \in Expressions :
                    LET asked == FilteredByName(h, name) \union FilteredByNamePart(h, name)
                        found == Found(h, NamePattern(h, name))
                    IN  /\ asked \subseteq found /\ found \subseteq Filtered(h, TRUE)
                        /\ Dotless(name) => found = asked
             /\ \A param \in Params : FilteredByParam(h, param) # {} => HasInnerEventParam(h, param)
  <2> DEFINE Q == tasks[RunnerOf[h]]
  <2>1. \A e \in Q : /\ data[e] \in Content /\ data[e].hasTask \in BOOLEAN
                     /\ data[e].owner = h => data[e].owner \in Handlers
    BY <1>1, PartsType
  <2>2. Found(h, OwnerPattern(h)) = Filtered(h, FALSE) \union Filtered(h, TRUE)
    <3>1. \A e \in Q : Matches(OwnerPattern(h), TaskName(data[e])) <=> data[e].owner = h
      BY <2>1, OwnerMatches
    <3> QED
      BY <2>1, <3>1 DEF Found, Filtered
  <2>3. ASSUME NEW id \in Ids
        PROVE  Found(h, IdPattern(h, id)) = FilteredById(h, id)
    <3>1. \A e \in Q : Matches(IdPattern(h, id), TaskName(data[e]))
                           <=> data[e].owner = h /\ ~ data[e].hasTask /\ data[e].innerEventId = id
      BY <2>1, IdMatches
    <3> QED
      BY <2>1, <3>1 DEF Found, FilteredById, Filtered
  <2>4. ASSUME NEW id \in Ids, NEW param \in Params
        PROVE  Found(h, IdParamPattern(h, id, param))
                   = FilteredById(h, id) \intersect FilteredByParam(h, param)
    <3>1. \A e \in Q : Matches(IdParamPattern(h, id, param), TaskName(data[e]))
                           <=> /\ data[e].owner = h /\ ~ data[e].hasTask
                               /\ data[e].innerEventId = id /\ data[e].param = param
      BY <2>1, IdParamMatches
    <3> QED
      BY <2>1, <3>1 DEF Found, FilteredById, FilteredByParam, Filtered
  <2>5. ASSUME NEW name \in Expressions
        PROVE  LET asked == FilteredByName(h, name) \union FilteredByNamePart(h, name)
                   found == Found(h, NamePattern(h, name))
               IN  /\ asked \subseteq found /\ found \subseteq Filtered(h, TRUE)
                   /\ Dotless(name) => found = asked
    <3> DEFINE found == {e \in Q : Matches(NamePattern(h, name), TaskName(data[e]))}
               asked == {e \in Q : /\ data[e].owner = h /\ data[e].hasTask
                                   /\ data[e].name = name \/ EndsIn(data[e].name, name)}
    <3>1. ASSUME NEW e \in Q
          PROVE  /\ e \in asked => e \in found
                 /\ e \in found => data[e].owner = h /\ data[e].hasTask
                 /\ Dotless(name) => (e \in found => e \in asked)
      BY <2>1, <2>5, NameMatches
    <3>2. Found(h, NamePattern(h, name)) = found
      BY DEF Found
    <3>3. FilteredByName(h, name) \union FilteredByNamePart(h, name) = asked
      BY <2>1 DEF FilteredByName, FilteredByNamePart, Filtered, EndsIn
    <3>4. Filtered(h, TRUE) = {e \in Q : data[e].owner = h /\ data[e].hasTask}
      BY <2>1 DEF Filtered
    <3>5. found \subseteq Q /\ asked \subseteq Q
      OBVIOUS
    <3> HIDE DEF found, asked, Q
    <3> QED
      BY <3>1, <3>2, <3>3, <3>4, <3>5
  <2>6. ASSUME NEW param \in Params, FilteredByParam(h, param) # {}
        PROVE  HasInnerEventParam(h, param)
    <3>1. PICK e \in Q : data[e].owner = h /\ ~ data[e].hasTask /\ data[e].param = param
      BY <2>1, <2>6 DEF FilteredByParam, Filtered
    <3>2. Matches(ParamPattern(h, param), TaskName(data[e]))
      BY <2>1, <3>1, ParamMatches
    <3> QED
      BY <3>1, <3>2 DEF HasInnerEventParam, Found
  <2>7. \A id \in Ids : HasInnerEvent(h, id) <=> FilteredById(h, id) # {}
    BY <2>3 DEF HasInnerEvent
  <2> QED
    BY <2>2, <2>3, <2>4, <2>5, <2>6, <2>7
<1>3. ASSUME NEW r \in Runners
      PROVE  IsQueueEmpty(r) <=> \A h \in Handlers : RunnerOf[h] = r =>
                 \A e \in Filtered(h, FALSE) \union Filtered(h, TRUE) : data[e].idle
  <2>1. \A e \in tasks[r] : data[e].hasTask \in BOOLEAN /\ data[e].idle \in BOOLEAN
    BY <1>1 DEF Content
  <2>2. \A h \in Handlers : RunnerOf[h] = r =>
            Filtered(h, FALSE) \union Filtered(h, TRUE) = {e \in tasks[r] : data[e].owner = h}
    BY <2>1 DEF Filtered
  <2> QED
    <3>1. ASSUME \A h \in Handlers : RunnerOf[h] = r =>
                     \A e \in Filtered(h, FALSE) \union Filtered(h, TRUE) : data[e].idle,
                 NEW e \in tasks[r]
          PROVE  data[e].idle
      <4> DEFINE h == data[e].owner
      <4>1. h \in Handlers /\ RunnerOf[h] = r
        BY <1>1
      <4>2. e \in {x \in tasks[r] : data[x].owner = h}
        OBVIOUS
      <4> HIDE DEF h
      <4>3. e \in Filtered(h, FALSE) \union Filtered(h, TRUE)
        BY <2>2, <4>1, <4>2
      <4> QED
        BY <3>1, <4>1, <4>3
    <3>2. ASSUME \A e \in tasks[r] : data[e].idle,
                 NEW h \in Handlers, RunnerOf[h] = r,
                 NEW e \in Filtered(h, FALSE) \union Filtered(h, TRUE)
          PROVE  data[e].idle
      <4>1. e \in tasks[r]
        BY <2>2, <3>2
      <4> QED
        BY <3>2, <4>1
    <3> QED
      BY <3>1, <3>2 DEF IsQueueEmpty
<1> QED
  BY <1>2, <1>3 DEF PatternsAreFilters

-----------------------------------------------------------------------------
(* The invariant, and the steps that preserve it *)

\* Calls that carry an event.
Carries(c) == c.op \in {"task", "wait"}

\* An event in a call has its data; one whose task runs is its queue's, and in no queue.
CallsOK ==
    \A t \in Threads : \A i \in 1 .. Len(calls[t]) :
        LET c == calls[t][i]
        IN  /\ Carries(c) => data[c.event] # None
            /\ c.op = "task" => /\ i = 1 /\ t = RunnerOf[data[c.event].owner]
                               /\ \A r \in Runners : c.event \notin tasks[r]

\* A queued event has its data, and is in the queue of its owner.
QueuesOK == \A r \in Runners : \A e \in tasks[r] : data[e] # None /\ RunnerOf[data[e].owner] = r

\* The inductive invariant.
FfrtInv ==
    /\ data \in [Events -> Content \union {None}]
    /\ tasks \in [Runners -> SUBSET Events]
    /\ calls \in [Threads -> Seq(Call)]
    /\ QueuesOK
    /\ CallsOK
    /\ held \subseteq Handlers /\ cleaned \subseteq Handlers \ held

\* What is in a call.
LEMMA CallType ==
    ASSUME NEW c \in Call
    PROVE  /\ c.op \in {"task", "wait", "in place", "drain"}
           /\ Carries(c) => c.event \in Events
           /\ c.op = "in place" => c.handler \in Handlers
           /\ c.op = "drain" => c.runner \in Runners
BY DEF Call, Carries

\* Nothing is queued at first, and nobody is in a call.
LEMMA InitFfrt == Init => FfrtInv
<1> SUFFICES ASSUME Init PROVE FfrtInv
  OBVIOUS
<1>1. \A t \in Threads : calls[t] = <<>> /\ Len(calls[t]) = 0
  BY DEF Init
<1>2. calls \in [Threads -> Seq(Call)]
  BY DEF Init
<1>3. CallsOK
  BY <1>1 DEF CallsOK
<1> QED
  BY <1>2, <1>3 DEF FfrtInv, Init, QueuesOK

\* The type invariant follows.
LEMMA InvImpliesTypeOK == FfrtInv => TypeOK
<1> SUFFICES ASSUME FfrtInv PROVE TypeOK
  OBVIOUS
<1>1. ASSUME NEW t \in Threads, NEW i \in DOMAIN calls[t]
      PROVE  LET c == calls[t][i]
             IN  /\ c \in Call
                 /\ c.op = "task" => /\ i = 1 /\ t = RunnerOf[data[c.event].owner]
                                    /\ c.event \notin Queued
  <2> DEFINE c == calls[t][i]
  <2>1. calls[t] \in Seq(Call) /\ i \in 1 .. Len(calls[t])
    BY DEF FfrtInv
  <2>2. c \in Call
    BY <2>1
  <2>3. c.op = "task" => /\ i = 1 /\ t = RunnerOf[data[c.event].owner]
                         /\ \A r \in Runners : c.event \notin tasks[r]
    BY <2>1 DEF FfrtInv, CallsOK
  <2>4. (\A r \in Runners : c.event \notin tasks[r]) => c.event \notin Queued
    BY DEF Queued
  <2> QED
    BY <2>2, <2>3, <2>4
<1> QED
  BY <1>1 DEF FfrtInv, TypeOK, QueuesOK

\* Steps that send nothing.
NewCall(t, i) ==
    LET c == calls'[t][i]
    IN  \/ i \in 1 .. Len(calls[t]) /\ c = calls[t][i]
        \/ ~ Carries(c)
        \/ c.op = "task" /\ i = 1 /\ t \in Runners /\ c.event \in tasks[t] \ tasks'[t]

\* A step that sends nothing, takes a task only to the thread of its queue, and leaves the
\* data of the events in use alone, preserves the invariant.
LEMMA NothingSent ==
    ASSUME FfrtInv,
           data' \in [Events -> Content \union {None}],
           tasks' \in [Runners -> SUBSET Events], calls' \in [Threads -> Seq(Call)],
           \A r \in Runners : tasks'[r] \subseteq tasks[r],
           \A r \in Runners : \A e \in tasks'[r] : data'[e] = data[e],
           \A t \in Threads : \A i \in 1 .. Len(calls'[t]) :
               /\ NewCall(t, i)
               /\ Carries(calls'[t][i]) => data'[calls'[t][i].event] = data[calls'[t][i].event],
           held' \subseteq held, cleaned' \subseteq Handlers \ held'
    PROVE  FfrtInv'
<1>1. QueuesOK'
  <2> SUFFICES ASSUME NEW r \in Runners, NEW e \in tasks'[r]
               PROVE  data'[e] # None /\ RunnerOf[data'[e].owner] = r
    BY DEF QueuesOK
  <2>1. e \in tasks[r] /\ data'[e] = data[e]
    OBVIOUS
  <2> QED
    BY <2>1 DEF FfrtInv, QueuesOK
<1>2. CallsOK'
  <2> SUFFICES ASSUME NEW t \in Threads, NEW i \in 1 .. Len(calls'[t])
               PROVE  LET c == calls'[t][i]
                      IN  /\ Carries(c) => data'[c.event] # None
                          /\ c.op = "task" => /\ i = 1 /\ t = RunnerOf[data'[c.event].owner]
                                             /\ \A r \in Runners : c.event \notin tasks'[r]
    BY DEF CallsOK, Carries
  <2> DEFINE c == calls'[t][i]
  <2>1. Carries(c) => data'[c.event] = data[c.event]
    OBVIOUS
  <2>2. c.op = "task" => Carries(c)
    BY DEF Carries
  <2>3. CASE i \in 1 .. Len(calls[t]) /\ c = calls[t][i]
    <3>1. /\ Carries(c) => data[c.event] # None
          /\ c.op = "task" => /\ i = 1 /\ t = RunnerOf[data[c.event].owner]
                             /\ \A r \in Runners : c.event \notin tasks[r]
      BY <2>3 DEF FfrtInv, CallsOK
    <3> QED
      BY <2>1, <2>2, <3>1
  <2>4. CASE ~ Carries(c)
    BY <2>2, <2>4
  <2>5. CASE c.op = "task" /\ i = 1 /\ t \in Runners /\ c.event \in tasks[t] \ tasks'[t]
    <3>1. data[c.event] # None /\ RunnerOf[data[c.event].owner] = t
      BY <2>5 DEF FfrtInv, QueuesOK
    <3>2. ASSUME NEW r \in Runners, c.event \in tasks'[r] PROVE FALSE
      <4>1. c.event \in tasks[r]
        BY <3>2
      <4>2. RunnerOf[data[c.event].owner] = r
        BY <4>1 DEF FfrtInv, QueuesOK
      <4> HIDE DEF c
      <4> QED
        BY <2>5, <3>1, <3>2, <4>2
    <3> QED
      BY <2>1, <2>2, <2>5, <3>1, <3>2
  <2>6. NewCall(t, i)
    OBVIOUS
  <2> QED
    BY <2>3, <2>4, <2>5, <2>6 DEF NewCall
<1> QED
  BY <1>1, <1>2 DEF FfrtInv

\* Recycling leaves the data of the events in use alone.
LEMMA RecycleKeeps ==
    ASSUME FfrtInv, Recycle, tasks' \in [Runners -> SUBSET Events],
           calls' \in [Threads -> Seq(Call)]
    PROVE  /\ data' \in [Events -> Content \union {None}]
           /\ \A r \in Runners : \A e \in tasks'[r] : data'[e] = data[e]
           /\ \A t \in Threads : \A i \in 1 .. Len(calls'[t]) :
                  Carries(calls'[t][i]) => data'[calls'[t][i].event] = data[calls'[t][i].event]
<1>1. data' = [e \in Events |->
                  IF \/ \E r \in Runners : e \in tasks'[r]
                     \/ \E t \in Threads : \E i \in DOMAIN calls'[t] :
                            Carries(calls'[t][i]) /\ calls'[t][i].event = e
                  THEN data[e] ELSE None]
  BY DEF Recycle, Recycled, Carries
<1>2. data \in [Events -> Content \union {None}]
  BY DEF FfrtInv
<1>3. data' \in [Events -> Content \union {None}]
  BY <1>1, <1>2
<1>4. ASSUME NEW r \in Runners, NEW e \in tasks'[r] PROVE data'[e] = data[e]
  <2>1. e \in Events
    OBVIOUS
  <2> QED
    BY <1>1, <2>1
<1>5. ASSUME NEW t \in Threads, NEW i \in 1 .. Len(calls'[t]), Carries(calls'[t][i])
      PROVE  data'[calls'[t][i].event] = data[calls'[t][i].event]
  <2>1. calls'[t] \in Seq(Call)
    OBVIOUS
  <2>2. i \in DOMAIN calls'[t] /\ calls'[t][i] \in Call
    BY <2>1
  <2>3. calls'[t][i].event \in Events
    BY <1>5, <2>2, CallType
  <2> QED
    BY <1>1, <1>5, <2>2, <2>3
<1> QED
  BY <1>3, <1>4, <1>5

\* The calls of a thread after one more call.
LEMMA PushProperties ==
    ASSUME calls \in [Threads -> Seq(Call)], NEW t \in Threads, NEW c \in Call, Push(t, c)
    PROVE  /\ calls' \in [Threads -> Seq(Call)]
           /\ \A u \in Threads : \A i \in 1 .. Len(calls'[u]) :
                  \/ i \in 1 .. Len(calls[u]) /\ calls'[u][i] = calls[u][i]
                  \/ u = t /\ i = Len(calls[t]) + 1 /\ calls'[u][i] = c
<1>1. calls' = [calls EXCEPT ![t] = Append(calls[t], c)]
  BY DEF Push
<1>2. \A u \in Threads : calls[u] \in Seq(Call)
  OBVIOUS
<1>3. /\ Append(calls[t], c) \in Seq(Call) /\ Len(Append(calls[t], c)) = Len(calls[t]) + 1
      /\ \A i \in 1 .. Len(calls[t]) : Append(calls[t], c)[i] = calls[t][i]
      /\ Append(calls[t], c)[Len(calls[t]) + 1] = c
  BY <1>2
<1> DEFINE longer == Append(calls[t], c)
<1> HIDE DEF longer
<1>4. calls'[t] = longer /\ \A u \in Threads : u # t => calls'[u] = calls[u]
  BY <1>1 DEF longer
<1>5. calls' \in [Threads -> Seq(Call)]
  BY <1>1, <1>3
<1>6. ASSUME NEW u \in Threads, NEW i \in 1 .. Len(calls'[u])
      PROVE  \/ i \in 1 .. Len(calls[u]) /\ calls'[u][i] = calls[u][i]
             \/ u = t /\ i = Len(calls[t]) + 1 /\ calls'[u][i] = c
  <2>1. CASE u # t
    BY <1>4, <2>1
  <2>2. CASE u = t
    <3>1. Len(calls[t]) \in Nat /\ i \in 1 .. Len(calls[t]) + 1
      BY <1>2, <1>3, <1>4, <2>2 DEF longer
    <3>2. CASE i \in 1 .. Len(calls[t])
      BY <1>3, <1>4, <2>2, <3>2 DEF longer
    <3>3. CASE i = Len(calls[t]) + 1
      BY <1>3, <1>4, <2>2, <3>3 DEF longer
    <3> QED
      BY <3>1, <3>2, <3>3
  <2> QED
    BY <2>1, <2>2
<1> QED
  BY <1>5, <1>6

\* The calls of a thread after a return.
LEMMA PopProperties ==
    ASSUME calls \in [Threads -> Seq(Call)], NEW t \in Threads, calls[t] # <<>>, Pop(t)
    PROVE  /\ calls' \in [Threads -> Seq(Call)]
           /\ \A u \in Threads : \A i \in 1 .. Len(calls'[u]) :
                  i \in 1 .. Len(calls[u]) /\ calls'[u][i] = calls[u][i]
<1> DEFINE s == calls[t]
           shorter == SubSeq(s, 1, Len(s) - 1)
<1>1. s \in Seq(Call) /\ Len(s) \in Nat /\ Len(s) >= 1
  BY EmptySeq
<1>2. calls' = [calls EXCEPT ![t] = shorter]
  BY DEF Pop, Front
<1> HIDE DEF s
<1>3. /\ shorter \in Seq(Call) /\ Len(shorter) = Len(s) - 1
      /\ \A i \in 1 .. Len(s) - 1 : shorter[i] = s[i]
  <2> DEFINE n == Len(s) - 1
  <2>1. n \in Nat /\ \A i \in 1 .. n : s[i] \in Call
    BY <1>1
  <2> HIDE DEF n
  <2>2. /\ SubSeq(s, 1, n) \in Seq(Call)
        /\ Len(SubSeq(s, 1, n)) = IF 1 <= n THEN n - 1 + 1 ELSE 0
        /\ \A i \in 1 .. n - 1 + 1 : SubSeq(s, 1, n)[i] = s[1 + i - 1]
    BY <2>1, SubSeqProperties
  <2>3. n - 1 + 1 = n /\ (~ (1 <= n) => n = 0) /\ \A i \in 1 .. n : 1 + i - 1 = i
    BY <2>1
  <2>4. \A i \in 1 .. n : SubSeq(s, 1, n)[i] = s[i]
    BY <2>2, <2>3
  <2> QED
    BY <2>2, <2>3, <2>4 DEF n
<1> HIDE DEF shorter
<1>4. calls'[t] = shorter /\ \A u \in Threads : u # t => calls'[u] = calls[u]
  BY <1>2
<1>5. calls' \in [Threads -> Seq(Call)]
  BY <1>2, <1>3
<1>6. ASSUME NEW u \in Threads, NEW i \in 1 .. Len(calls'[u])
      PROVE  i \in 1 .. Len(calls[u]) /\ calls'[u][i] = calls[u][i]
  <2>1. CASE u # t
    BY <1>4, <2>1
  <2>2. CASE u = t
    BY <1>1, <1>3, <1>4, <2>2 DEF s
  <2> QED
    BY <2>1, <2>2
<1> QED
  BY <1>5, <1>6

\* InsertEvent fills an object that is in no queue and in no call.
LEMMA SendingKeepsFfrtInv ==
    ASSUME FfrtInv, NEW h \in Handlers, NEW e \in Events,
           NEW content \in InnerEvents \union TaskEvents, NEW priority,
           InsertEvent(h, e, content, priority),
           \/ UNCHANGED calls
           \/ \E t \in Threads : Push(t, [op |-> "wait", event |-> e])
    PROVE  FfrtInv'
<1> DEFINE v == [owner |-> h, hasTask |-> content.hasTask, innerEventId |-> content.innerEventId,
                 param |-> content.param, name |-> content.name,
                 idle |-> TransferInnerPriority(priority) = "ffrt_inner_queue_priority_idle"]
           q == RunnerOf[h]
           c == [op |-> "wait", event |-> e]
<1>1. v \in Content /\ v.owner = h
  <2>1. /\ content.hasTask \in BOOLEAN /\ content.innerEventId \in Ids \union {0}
        /\ content.param \in Params \union {0} /\ content.name \in Names
    BY FfrtAssumption DEF InnerEvents, TaskEvents
  <2> QED
    BY <2>1 DEF Content
<1>2. v # None
  BY <1>1, FfrtAssumption DEF Content
<1>3. /\ data[e] = None /\ data' = [data EXCEPT ![e] = v]
      /\ tasks' = [tasks EXCEPT ![q] = @ \union {e}] /\ UNCHANGED <<held, cleaned>>
  BY DEF InsertEvent
<1>4. q \in Runners
  BY FfrtAssumption
<1> HIDE DEF v
<1>5. /\ data' \in [Events -> Content \union {None}]
      /\ data'[e] = v /\ \A f : f # e => data'[f] = data[f]
  <2>1. data \in [Events -> Content \union {None}]
    BY DEF FfrtInv
  <2>2. data' \in [Events -> Content \union {None}] /\ data'[e] = v
    BY <1>1, <1>3, <2>1
  <2>3. \A f : f # e => data'[f] = data[f]
    BY <1>3, <2>1
  <2> QED
    BY <2>2, <2>3
<1>6. /\ tasks' \in [Runners -> SUBSET Events]
      /\ \A r \in Runners : \A f \in tasks'[r] : f \in tasks[r] \/ (f = e /\ r = q)
  BY <1>3, <1>4 DEF FfrtInv
<1>7. QueuesOK'
  BY <1>1, <1>2, <1>3, <1>5, <1>6 DEF QueuesOK, FfrtInv
<1>8. c \in Call /\ c.op = "wait" /\ c.event = e
  BY DEF Call
<1> HIDE DEF c
<1>9. /\ calls' \in [Threads -> Seq(Call)]
      /\ \A u \in Threads : \A i \in 1 .. Len(calls'[u]) :
             \/ i \in 1 .. Len(calls[u]) /\ calls'[u][i] = calls[u][i]
             \/ calls'[u][i] = c
  <2>1. calls \in [Threads -> Seq(Call)]
    BY DEF FfrtInv
  <2>2. CASE UNCHANGED calls
    BY <2>1, <2>2
  <2>3. CASE \E t \in Threads : Push(t, c)
    BY <1>8, <2>1, <2>3, PushProperties
  <2> QED
    BY <2>2, <2>3 DEF c
<1>10. CallsOK'
  <2> SUFFICES ASSUME NEW t \in Threads, NEW i \in 1 .. Len(calls'[t])
               PROVE  LET d == calls'[t][i]
                      IN  /\ Carries(d) => data'[d.event] # None
                          /\ d.op = "task" => /\ i = 1 /\ t = RunnerOf[data'[d.event].owner]
                                             /\ \A r \in Runners : d.event \notin tasks'[r]
    BY DEF CallsOK, Carries
  <2> DEFINE d == calls'[t][i]
  <2>1. CASE i \in 1 .. Len(calls[t]) /\ d = calls[t][i]
    <3>1. /\ Carries(d) => data[d.event] # None
          /\ d.op = "task" => /\ i = 1 /\ t = RunnerOf[data[d.event].owner]
                             /\ \A r \in Runners : d.event \notin tasks[r]
      BY <2>1 DEF FfrtInv, CallsOK
    <3>2. Carries(d) => d.event # e
      BY <1>3, <3>1
    <3>3. d.op = "task" => Carries(d)
      BY DEF Carries
    <3>4. Carries(d) => data'[d.event] = data[d.event]
      BY <1>5, <3>2
    <3>5. d.op = "task" => \A r \in Runners : d.event \notin tasks'[r]
      BY <1>6, <3>1, <3>2, <3>3
    <3> QED
      BY <3>1, <3>3, <3>4, <3>5
  <2>2. CASE d = c
    BY <1>2, <1>5, <1>8, <2>2
  <2> QED
    BY <1>9, <2>1, <2>2
<1> QED
  BY <1>3, <1>5, <1>6, <1>7, <1>9, <1>10 DEF FfrtInv

\* A removal only takes tasks out.
LEMMA CancelKeepsFfrtInv ==
    ASSUME FfrtInv, NEW h \in Handlers, NEW pattern, CancelByName(h, pattern),
           cleaned' \subseteq Handlers \ held
    PROVE  FfrtInv'
<1>1. tasks' = [tasks EXCEPT ![RunnerOf[h]] = @ \ Found(h, pattern)] /\ UNCHANGED <<calls, held>>
  BY DEF CancelByName
<1>2. /\ tasks' \in [Runners -> SUBSET Events]
      /\ \A r \in Runners : tasks'[r] \subseteq tasks[r]
  BY <1>1 DEF FfrtInv
<1>3. calls' \in [Threads -> Seq(Call)]
  BY <1>1 DEF FfrtInv
<1>4. \A t \in Threads : \A i \in 1 .. Len(calls'[t]) : NewCall(t, i)
  BY <1>1 DEF NewCall
<1>5. Recycle
  BY DEF CancelByName
<1> QED
  BY <1>1, <1>2, <1>3, <1>4, <1>5, RecycleKeeps, NothingSent

\* A call that carries no event.
LEMMA PushKeepsFfrtInv ==
    ASSUME FfrtInv, NEW t \in Threads, NEW c \in Call, ~ Carries(c), Push(t, c),
           UNCHANGED <<held, cleaned>>,
           \/ UNCHANGED <<data, tasks>>
           \/ /\ Recycle
              /\ \E r \in Runners : tasks' = [tasks EXCEPT ![r] = {}]
    PROVE  FfrtInv'
<1>1. /\ tasks' \in [Runners -> SUBSET Events]
      /\ \A r \in Runners : tasks'[r] \subseteq tasks[r]
  BY DEF FfrtInv
<1>2. /\ calls' \in [Threads -> Seq(Call)]
      /\ \A u \in Threads : \A i \in 1 .. Len(calls'[u]) :
             \/ i \in 1 .. Len(calls[u]) /\ calls'[u][i] = calls[u][i]
             \/ u = t /\ i = Len(calls[t]) + 1 /\ calls'[u][i] = c
  BY PushProperties DEF FfrtInv
<1>3. \A u \in Threads : \A i \in 1 .. Len(calls'[u]) : NewCall(u, i)
  BY <1>2 DEF NewCall
<1>4. /\ data' \in [Events -> Content \union {None}]
      /\ \A r \in Runners : \A e \in tasks'[r] : data'[e] = data[e]
      /\ \A u \in Threads : \A i \in 1 .. Len(calls'[u]) :
             Carries(calls'[u][i]) => data'[calls'[u][i].event] = data[calls'[u][i].event]
  <2>1. CASE UNCHANGED <<data, tasks>>
    BY <2>1 DEF FfrtInv
  <2>2. CASE Recycle
    BY <1>1, <1>2, <2>2, RecycleKeeps
  <2> QED
    BY <2>1, <2>2
<1> QED
  BY <1>1, <1>2, <1>3, <1>4, NothingSent DEF FfrtInv

\* A return.
LEMMA PopKeepsFfrtInv ==
    ASSUME FfrtInv, NEW t \in Threads, calls[t] # <<>>, Pop(t), UNCHANGED <<tasks, held, cleaned>>,
           Recycle \/ UNCHANGED data
    PROVE  FfrtInv'
<1>1. /\ tasks' \in [Runners -> SUBSET Events]
      /\ \A r \in Runners : tasks'[r] \subseteq tasks[r]
  BY DEF FfrtInv
<1>2. /\ calls' \in [Threads -> Seq(Call)]
      /\ \A u \in Threads : \A i \in 1 .. Len(calls'[u]) :
             i \in 1 .. Len(calls[u]) /\ calls'[u][i] = calls[u][i]
  BY PopProperties DEF FfrtInv
<1>3. \A u \in Threads : \A i \in 1 .. Len(calls'[u]) : NewCall(u, i)
  BY <1>2 DEF NewCall
<1>4. /\ data' \in [Events -> Content \union {None}]
      /\ \A r \in Runners : \A e \in tasks'[r] : data'[e] = data[e]
      /\ \A u \in Threads : \A i \in 1 .. Len(calls'[u]) :
             Carries(calls'[u][i]) => data'[calls'[u][i].event] = data[calls'[u][i].event]
  <2>1. CASE UNCHANGED data
    BY <2>1 DEF FfrtInv
  <2>2. CASE Recycle
    BY <1>1, <1>2, <2>2, RecycleKeeps
  <2> QED
    BY <2>1, <2>2
<1> QED
  BY <1>1, <1>2, <1>3, <1>4, NothingSent DEF FfrtInv

\* A task moves from its queue to the call of the queue's thread, or is dropped.
LEMMA RunTaskKeepsFfrtInv ==
    ASSUME FfrtInv, NEW r \in Runners, RunTask(r)
    PROVE  FfrtInv'
<1>1. PICK e \in tasks[r] :
            /\ calls[r] = <<>>
            /\ tasks' = [tasks EXCEPT ![r] = @ \ {e}]
            /\ IF Expired(data[e].owner) THEN UNCHANGED calls
               ELSE Push(r, [op |-> "task", event |-> e])
            /\ Recycle
            /\ UNCHANGED <<held, cleaned>>
  BY DEF RunTask
<1> DEFINE c == [op |-> "task", event |-> e]
<1>2. /\ tasks' \in [Runners -> SUBSET Events] /\ e \notin tasks'[r] /\ e \in Events
      /\ \A q \in Runners : tasks'[q] \subseteq tasks[q]
  BY <1>1 DEF FfrtInv
<1>3. r \in Threads /\ c \in Call /\ c.op = "task" /\ c.event = e
  BY <1>2 DEF Threads, Call
<1> HIDE DEF c
<1>4. calls \in [Threads -> Seq(Call)] /\ Len(calls[r]) + 1 = 1
  BY <1>1 DEF FfrtInv
<1>5. /\ calls' \in [Threads -> Seq(Call)]
      /\ \A u \in Threads : \A i \in 1 .. Len(calls'[u]) : NewCall(u, i)
  <2>1. CASE UNCHANGED calls
    BY <1>4, <2>1 DEF NewCall
  <2>2. CASE Push(r, c)
    <3>1. /\ calls' \in [Threads -> Seq(Call)]
          /\ \A u \in Threads : \A i \in 1 .. Len(calls'[u]) :
                 \/ i \in 1 .. Len(calls[u]) /\ calls'[u][i] = calls[u][i]
                 \/ u = r /\ i = Len(calls[r]) + 1 /\ calls'[u][i] = c
      BY <1>3, <1>4, <2>2, PushProperties
    <3> QED
      BY <1>1, <1>2, <1>3, <1>4, <3>1 DEF NewCall
  <2> QED
    BY <1>1, <2>1, <2>2 DEF c
<1>6. Recycle /\ UNCHANGED <<held, cleaned>>
  BY <1>1
<1>7. held' \subseteq held /\ cleaned' \subseteq Handlers \ held'
  BY <1>6 DEF FfrtInv
<1> QED
  BY <1>2, <1>5, <1>6, <1>7, RecycleKeeps, NothingSent

\* The one path of the asynchronous calls.
LEMMA PostKeepsFfrtInv ==
    ASSUME FfrtInv, NEW h \in Handlers, NEW content \in InnerEvents \union TaskEvents,
           NEW priority, Post(h, content, priority)
    PROVE  FfrtInv'
BY SendingKeepsFfrtInv DEF Post

\* The asynchronous calls.
LEMMA SendKeepsFfrtInv ==
    ASSUME FfrtInv, NEW h \in Handlers, Send(h)
    PROVE  FfrtInv'
<1>1. PICK content \in InnerEvents \union TaskEvents : \E p : Post(h, content, p)
  BY DEF Send, SendEvent, SendImmediateEvent, SendHighPriorityEvent, SendTimingEvent, PostTask,
         PostTimingTask, PostTaskAt, PostImmediateTask, PostHighPriorityTask, PostIdleTask
<1> QED
  BY <1>1, PostKeepsFfrtInv

\* The synchronous calls, in place or by a task.
LEMMA SendSyncKeepsFfrtInv ==
    ASSUME FfrtInv, NEW t \in Threads, NEW h \in Handlers, SendSyncEvent(t, h) \/ PostSyncTask(t, h)
    PROVE  FfrtInv'
<1>1. PICK content \in InnerEvents \union TaskEvents, p \in Priorities, only \in BOOLEAN :
            SendSync(t, h, content, p, only)
  BY DEF SendSyncEvent, PostSyncTask
<1> DEFINE c == [op |-> "in place", handler |-> h]
<1>2. CASE Push(t, c) /\ UNCHANGED <<data, tasks, held, cleaned>>
  <2>1. c \in Call /\ ~ Carries(c)
    BY DEF Call, Carries
  <2> HIDE DEF c
  <2> QED
    BY <1>2, <2>1, PushKeepsFfrtInv
<1>3. CASE \E e \in Events : /\ InsertEvent(h, e, content, p)
                             /\ Push(t, [op |-> "wait", event |-> e])
  BY <1>3, SendingKeepsFfrtInv
<1> QED
  BY <1>1, <1>2, <1>3 DEF SendSync

\* TaskCancelAndWait.
LEMMA CancelAndWaitKeepsFfrtInv ==
    ASSUME FfrtInv, NEW t \in Threads, NEW h \in Handlers, CancelAndWait(t, h)
    PROVE  FfrtInv'
<1> DEFINE c == [op |-> "drain", runner |-> RunnerOf[h]]
<1>1. RunnerOf[h] \in Runners
  BY FfrtAssumption
<1>2. c \in Call /\ ~ Carries(c)
  BY <1>1 DEF Call, Carries
<1>3. /\ Push(t, c) /\ Recycle /\ UNCHANGED <<held, cleaned>>
      /\ tasks' = [tasks EXCEPT ![RunnerOf[h]] = {}]
  BY DEF CancelAndWait
<1> HIDE DEF c
<1> QED
  BY <1>1, <1>2, <1>3, PushKeepsFfrtInv

\* The removals.
LEMMA RemovingKeepsFfrtInv ==
    ASSUME FfrtInv, NEW h \in Handlers,
           \/ RemoveAllEvents(h) \/ RemoveOrphanByHandlerId(h)
           \/ \E id \in Ids : RemoveEvent(h, id)
           \/ \E id \in Ids, param \in Params : RemoveEventParam(h, id, param)
           \/ \E name \in Expressions : RemoveTask(h, name)
    PROVE  FfrtInv'
<1>1. cleaned \subseteq Handlers \ held
  BY DEF FfrtInv
<1>2. CASE RemoveOrphanByHandlerId(h)
  <2>1. CancelByName(h, OwnerPattern(h)) /\ cleaned' \subseteq Handlers \ held
    BY <1>1, <1>2 DEF RemoveOrphanByHandlerId, Expired
  <2> QED
    BY <2>1, CancelKeepsFfrtInv
<1>3. ASSUME NEW pattern, CancelByName(h, pattern), UNCHANGED cleaned PROVE FfrtInv'
  BY <1>1, <1>3, CancelKeepsFfrtInv
<1> QED
  BY <1>2, <1>3 DEF RemoveAllEvents, RemoveEvent, RemoveEventParam, RemoveTask

\* The returns.
LEMMA ReturnKeepsFfrtInv ==
    ASSUME FfrtInv, NEW t \in Threads,
           EndDistribution(t) \/ ReturnFromWait(t) \/ ReturnFromCancel(t)
    PROVE  FfrtInv'
<1>1. calls[t] # <<>> /\ Pop(t) /\ UNCHANGED <<tasks, held, cleaned>> /\ (Recycle \/ UNCHANGED data)
  BY DEF EndDistribution, ReturnFromWait, ReturnFromCancel, In
<1> QED
  BY <1>1, PopKeepsFfrtInv

\* A handler is let go.
LEMMA ReleaseKeepsFfrtInv ==
    ASSUME FfrtInv, NEW h \in Handlers, ReleaseHandler(h)
    PROVE  FfrtInv'
<1>1. UNCHANGED <<data, tasks, calls, cleaned>> /\ held' = held \ {h}
  BY DEF ReleaseHandler
<1> QED
  BY <1>1 DEF FfrtInv, QueuesOK, CallsOK, Carries

\* Every step preserves the invariant.
LEMMA StepKeepsFfrtInv == FfrtInv /\ [Next]_vars => FfrtInv'
<1> SUFFICES ASSUME FfrtInv, [Next]_vars PROVE FfrtInv'
  OBVIOUS
<1>1. ASSUME NEW h \in Handlers, Send(h) PROVE FfrtInv'
  BY <1>1, SendKeepsFfrtInv
<1>2. ASSUME NEW h \in Handlers,
             \/ RemoveAllEvents(h) \/ RemoveOrphanByHandlerId(h)
             \/ \E id \in Ids : RemoveEvent(h, id)
             \/ \E id \in Ids, param \in Params : RemoveEventParam(h, id, param)
             \/ \E name \in Expressions : RemoveTask(h, name)
      PROVE  FfrtInv'
  BY <1>2, RemovingKeepsFfrtInv
<1>3. ASSUME NEW h \in Handlers, ReleaseHandler(h) PROVE FfrtInv'
  BY <1>3, ReleaseKeepsFfrtInv
<1>4. ASSUME NEW h \in Handlers, NEW t \in Threads, SendSyncEvent(t, h) \/ PostSyncTask(t, h)
      PROVE  FfrtInv'
  BY <1>4, SendSyncKeepsFfrtInv
<1>5. ASSUME NEW h \in Handlers, NEW t \in Threads, CancelAndWait(t, h) PROVE FfrtInv'
  BY <1>5, CancelAndWaitKeepsFfrtInv
<1>6. ASSUME NEW r \in Runners, RunTask(r) PROVE FfrtInv'
  BY <1>6, RunTaskKeepsFfrtInv
<1>7. ASSUME NEW t \in Threads, EndDistribution(t) \/ ReturnFromWait(t) \/ ReturnFromCancel(t)
      PROVE  FfrtInv'
  BY <1>7, ReturnKeepsFfrtInv
<1>8. ASSUME UNCHANGED vars PROVE FfrtInv'
  BY <1>8 DEF vars, FfrtInv, QueuesOK, CallsOK, Carries
<1> QED
  BY <1>1, <1>2, <1>3, <1>4, <1>5, <1>6, <1>7, <1>8 DEF Next

\* The invariant holds always.
LEMMA FfrtInvariant == Spec => []FfrtInv
BY InitFfrt, StepKeepsFfrtInv, PTL DEF Spec

\* An event object in use is in one place, in the queue of its owner's runner or taken out by
\* that queue's thread, with the data its sender put into it (InsertEvent, RunTask, the removals).
THEOREM ObjectsAreInOnePlace == Spec => []TypeOK
BY FfrtInvariant, InvImpliesTypeOK, PTL

\* Every removal and question of EventQueueFFRT, by a regular expression on task names, selects
\* the events the filters of EventQueueBase would, but for the three differences that
\* PatternsAreFilters names: for every id and param, whatever the names of the queued tasks, for
\* every name without an operator that RemoveTask is asked for, for every number of events, and
\* whatever the threads do meanwhile.
THEOREM PatternsSelectLikeFilters == Spec => []PatternsAreFilters
BY FfrtInvariant, InvImpliesTypeOK, PatternsAreFiltersOfTypes, PTL

-----------------------------------------------------------------------------
(* The queue is an EventDispatch. *)

\* Some thread is in the call c.
Made(c) == \E t \in Threads : \E i \in 1 .. Len(calls[t]) : calls[t][i] = c

\* The call c holds the handler h.
Keeps(c, h) ==
    \/ c.op = "in place" /\ c.handler = h
    \/ Carries(c) /\ data[c.event].owner = h

TaskCall(e) == [op |-> "task", event |-> e]

\* Entries are told apart by their events.
LEMMA EntriesAre ==
    ASSUME NEW D, NEW A, NEW B
    PROVE  /\ Entries(D, A \ B) = Entries(D, A) \ Entries(D, B)
           /\ Entries(D, A \union B) = Entries(D, A) \union Entries(D, B)
           /\ A \subseteq B => Entries(D, A) \subseteq Entries(D, B)
           /\ \A p \in Entries(D, A) : p.event \in A /\ p.owner = D[p.event].owner
BY DEF Entries

LEMMA EntryOf ==
    ASSUME NEW D, NEW e
    PROVE  Entries(D, {e}) = {[event |-> e, owner |-> D[e].owner]}
BY DEF Entries

LEMMA EntriesBut ==
    ASSUME NEW D, NEW A, NEW e
    PROVE  Entries(D, A \ {e}) = Entries(D, A) \ {[event |-> e, owner |-> D[e].owner]}
BY DEF Entries

\* They depend on the data of their events alone.
LEMMA EntriesKept ==
    ASSUME NEW D, NEW E, NEW A, \A e \in A : E[e] = D[e]
    PROVE  Entries(E, A) = Entries(D, A)
BY DEF Entries

\* A call that distributes a task is known by its event.
LEMMA TaskCalls ==
    ASSUME NEW c \in Call, c.op = "task"
    PROVE  c = TaskCall(c.event) /\ c.event \in Events
BY DEF Call, TaskCall

\* Expired and Distributed, in terms of the calls that are made.
CallsTell ==
    /\ \A c : Made(c) => c \in Call
    /\ \A h : Expired(h) <=> h \notin held /\ \A c : Made(c) => ~ Keeps(c, h)
    /\ \A e : e \in Distributed <=> Made(TaskCall(e))

LEMMA MadeCalls == FfrtInv => CallsTell
<1> SUFFICES ASSUME calls \in [Threads -> Seq(Call)] PROVE CallsTell
  BY DEF FfrtInv
<1>1. \A t \in Threads : DOMAIN calls[t] = 1 .. Len(calls[t])
                         /\ \A i \in 1 .. Len(calls[t]) : calls[t][i] \in Call
  OBVIOUS
<1>2. \A c : Made(c) => c \in Call
  BY <1>1 DEF Made
<1>3. \A h : Expired(h) <=> h \notin held /\ \A c : Made(c) => ~ Keeps(c, h)
  BY <1>1 DEF Expired, Made, Keeps, Carries
<1>4. ASSUME NEW e PROVE e \in Distributed <=> Made(TaskCall(e))
  <2>1. TaskCall(e).op = "task" /\ TaskCall(e).event = e
    BY DEF TaskCall
  <2>2. Made(TaskCall(e)) => e \in Events
    BY <1>2, <2>1, CallType DEF Carries
  <2>3. ASSUME NEW t \in Threads, NEW i \in 1 .. Len(calls[t]),
               calls[t][i].op = "task", calls[t][i].event = e
        PROVE  calls[t][i] = TaskCall(e)
    BY <1>1, <2>3, TaskCalls
  <2>4. e \in Distributed <=>
            /\ e \in Events
            /\ \E t \in Threads : \E i \in 1 .. Len(calls[t]) :
                   calls[t][i].op = "task" /\ calls[t][i].event = e
    BY <1>1 DEF Distributed
  <2>5. Made(TaskCall(e)) <=>
            \E t \in Threads : \E i \in 1 .. Len(calls[t]) :
                   calls[t][i].op = "task" /\ calls[t][i].event = e
    BY <2>1, <2>3 DEF Made
  <2> QED
    BY <2>2, <2>4, <2>5
<1> QED
  BY <1>2, <1>3, <1>4 DEF CallsTell

LEMMA MadeCallsNext == FfrtInv' => CallsTell'
BY MadeCalls, PTL

LEMMA PushMakes ==
    ASSUME calls \in [Threads -> Seq(Call)], NEW t \in Threads, NEW c \in Call, Push(t, c)
    PROVE  \A d : Made(d)' <=> Made(d) \/ d = c
<1> DEFINE longer == Append(calls[t], c)
<1>1. calls' = [calls EXCEPT ![t] = longer] /\ calls[t] \in Seq(Call)
  BY DEF Push
<1>2. /\ Len(longer) = Len(calls[t]) + 1 /\ Len(calls[t]) \in Nat
      /\ \A i \in 1 .. Len(calls[t]) : longer[i] = calls[t][i]
      /\ longer[Len(calls[t]) + 1] = c
  BY <1>1
<1> HIDE DEF longer
<1>3. calls'[t] = longer /\ \A u \in Threads : u # t => calls'[u] = calls[u]
  BY <1>1
<1>4. \A d : Made(d)' => Made(d) \/ d = c
  BY PushProperties DEF Made
<1>5. ASSUME NEW d, Made(d) PROVE Made(d)'
  <2>1. PICK u \in Threads : \E i \in 1 .. Len(calls[u]) : calls[u][i] = d
    BY <1>5 DEF Made
  <2>2. PICK i \in 1 .. Len(calls[u]) : calls[u][i] = d
    BY <2>1
  <2>3. i \in 1 .. Len(calls'[u]) /\ calls'[u][i] = d
    BY <1>2, <1>3, <2>2
  <2> QED
    BY <2>3 DEF Made
<1>6. Len(calls[t]) + 1 \in 1 .. Len(calls'[t]) /\ calls'[t][Len(calls[t]) + 1] = c
  BY <1>2, <1>3
<1> QED
  BY <1>4, <1>5, <1>6 DEF Made

LEMMA PopEnds ==
    ASSUME calls \in [Threads -> Seq(Call)], NEW t \in Threads, calls[t] # <<>>, Pop(t)
    PROVE  /\ Made(Top(t)) /\ Top(t) = calls[t][Len(calls[t])]
           /\ Len(calls[t]) \in Nat \ {0} /\ Len(calls'[t]) = Len(calls[t]) - 1
           /\ \A d : Made(d)' => Made(d)
           /\ \A d : Made(d) => Made(d)' \/ d = Top(t)
<1> DEFINE s == calls[t]
           shorter == SubSeq(s, 1, Len(s) - 1)
<1>1. s \in Seq(Call) /\ Len(s) \in Nat /\ Len(s) >= 1
  BY EmptySeq
<1>2. calls' = [calls EXCEPT ![t] = shorter] /\ Top(t) = s[Len(s)]
  BY DEF Pop, Front, Top, Last
<1> HIDE DEF s
<1>3. Len(shorter) = Len(s) - 1 /\ \A i \in 1 .. Len(s) - 1 : shorter[i] = s[i]
  <2> DEFINE n == Len(s) - 1
  <2>1. n \in Nat /\ \A i \in 1 .. n : s[i] \in Call
    BY <1>1
  <2> HIDE DEF n
  <2>2. /\ Len(SubSeq(s, 1, n)) = IF 1 <= n THEN n - 1 + 1 ELSE 0
        /\ \A i \in 1 .. n - 1 + 1 : SubSeq(s, 1, n)[i] = s[1 + i - 1]
    BY <2>1, SubSeqProperties
  <2>3. n - 1 + 1 = n /\ (~ (1 <= n) => n = 0) /\ \A i \in 1 .. n : 1 + i - 1 = i
    BY <2>1
  <2>4. \A i \in 1 .. n : SubSeq(s, 1, n)[i] = s[i]
    BY <2>2, <2>3
  <2> QED
    BY <2>2, <2>3, <2>4 DEF n
<1> HIDE DEF shorter
<1>4. calls'[t] = shorter /\ \A u \in Threads : u # t => calls'[u] = calls[u]
  BY <1>2
<1>5. \A d : Made(d)' => Made(d)
  BY PopProperties DEF Made
<1>6. ASSUME NEW d, Made(d), d # Top(t) PROVE Made(d)'
  <2>1. PICK u \in Threads : \E i \in 1 .. Len(calls[u]) : calls[u][i] = d
    BY <1>6 DEF Made
  <2>2. PICK i \in 1 .. Len(calls[u]) : calls[u][i] = d
    BY <2>1
  <2>3. i \in 1 .. Len(calls'[u]) /\ calls'[u][i] = d
    <3>1. CASE u # t
      BY <1>4, <2>2, <3>1
    <3>2. CASE u = t
      <4>1. i \in 1 .. Len(s) /\ s[i] = d
        BY <2>2, <3>2 DEF s
      <4>2. i # Len(s)
        BY <1>2, <1>6, <4>1
      <4>3. i \in 1 .. Len(s) - 1
        BY <1>1, <4>1, <4>2
      <4> QED
        BY <1>3, <1>4, <3>2, <4>1, <4>3
    <3> QED
      BY <3>1, <3>2
  <2> QED
    BY <2>3 DEF Made
<1>7. Made(Top(t))
  <2>1. Len(s) \in 1 .. Len(s)
    BY <1>1
  <2> QED
    BY <1>2, <2>1 DEF Made, s
<1>8. /\ Top(t) = calls[t][Len(calls[t])] /\ Len(calls[t]) \in Nat \ {0}
      /\ Len(calls'[t]) = Len(calls[t]) - 1
  BY <1>1, <1>2, <1>3, <1>4 DEF s
<1> QED
  BY <1>5, <1>6, <1>7, <1>8

\* What is known of the events that are queued or carried by a call.
LEMMA InUse ==
    ASSUME FfrtInv
    PROVE  /\ \A e \in Queued : /\ e \in Events /\ data[e] \in Content /\ data[e].owner \in Handlers
                                /\ e \in tasks[RunnerOf[data[e].owner]]
           /\ \A c : Made(c) /\ Carries(c) =>
                  c.event \in Events /\ data[c.event] \in Content /\ data[c.event].owner \in Handlers
           /\ \A e \in Distributed :
                  /\ e \in Events /\ data[e] \in Content /\ data[e].owner \in Handlers
                  /\ e \notin Queued
                  /\ calls[RunnerOf[data[e].owner]] # <<>>
<1>1. \A v \in Content : v.owner \in Handlers
  BY DEF Content
<1>2. ASSUME NEW e \in Queued
      PROVE  /\ e \in Events /\ data[e] \in Content
             /\ e \in tasks[RunnerOf[data[e].owner]]
  <2>1. PICK r \in Runners : e \in tasks[r]
    BY DEF Queued
  <2>2. e \in Events /\ data[e] # None /\ RunnerOf[data[e].owner] = r
    BY <2>1 DEF FfrtInv, QueuesOK
  <2> QED
    BY <2>1, <2>2 DEF FfrtInv
<1>3. ASSUME NEW c, Made(c)
      PROVE  /\ Carries(c) => c.event \in Events /\ data[c.event] \in Content
             /\ c.op = "task" => /\ calls[RunnerOf[data[c.event].owner]] # <<>>
                                /\ c.event \notin Queued
  <2>1. PICK t \in Threads : \E i \in 1 .. Len(calls[t]) : calls[t][i] = c
    BY <1>3 DEF Made
  <2>2. PICK i \in 1 .. Len(calls[t]) : calls[t][i] = c
    BY <2>1
  <2>3. /\ Carries(c) => data[c.event] # None
        /\ c.op = "task" => /\ t = RunnerOf[data[c.event].owner]
                           /\ \A r \in Runners : c.event \notin tasks[r]
    BY <2>2 DEF FfrtInv, CallsOK
  <2>4. c \in Call
    BY <1>3, MadeCalls DEF CallsTell
  <2>5. Carries(c) => c.event \in Events /\ data[c.event] \in Content
    BY <2>3, <2>4, CallType DEF FfrtInv
  <2>6. calls[t] # <<>>
    BY <2>2
  <2> QED
    BY <2>3, <2>5, <2>6 DEF Queued
<1>4. ASSUME NEW e \in Distributed
      PROVE  /\ e \in Events /\ data[e] \in Content /\ e \notin Queued
             /\ calls[RunnerOf[data[e].owner]] # <<>>
  <2>1. Made(TaskCall(e))
    BY MadeCalls DEF CallsTell
  <2>2. TaskCall(e).op = "task" /\ TaskCall(e).event = e /\ Carries(TaskCall(e))
    BY DEF TaskCall, Carries
  <2> QED
    BY <1>3, <2>1, <2>2
<1> QED
  BY <1>1, <1>2, <1>3, <1>4

\* Recycling leaves the data of what stays in use.
LEMMA RecycleLeaves ==
    ASSUME FfrtInv, FfrtInv', Recycle
    PROVE  /\ \A e \in Queued' \union Distributed' : data'[e] = data[e]
           /\ \A c : Made(c)' /\ Carries(c) => data'[c.event] = data[c.event]
<1>1. /\ \A r \in Runners : \A e \in tasks'[r] : data'[e] = data[e]
      /\ \A t \in Threads : \A i \in 1 .. Len(calls'[t]) :
             Carries(calls'[t][i]) => data'[calls'[t][i].event] = data[calls'[t][i].event]
  BY RecycleKeeps DEF FfrtInv
<1>2. \A e \in Queued' : data'[e] = data[e]
  BY <1>1 DEF Queued
<1>3. \A c : Made(c)' /\ Carries(c) => data'[c.event] = data[c.event]
  BY <1>1 DEF Made
<1>4. \A e \in Distributed' : Made(TaskCall(e))'
  BY MadeCallsNext DEF CallsTell
<1>5. \A e : Carries(TaskCall(e)) /\ TaskCall(e).event = e
  BY DEF TaskCall, Carries
<1> QED
  BY <1>2, <1>3, <1>4, <1>5

\* A handler comes by no call while it is gone, and loses none that it has.
LEMMA ExpiryKept ==
    ASSUME FfrtInv, FfrtInv', UNCHANGED held,
           \A c : Made(c) => Made(c)',
           \A c : Made(c) /\ Carries(c) => data'[c.event] = data[c.event],
           \A c : Made(c)' => Made(c) \/ \A h \in Handlers : Keeps(c, h)' => ~ Expired(h)
    PROVE  Gone' = Gone
<1>1. CallsTell /\ CallsTell'
  BY MadeCalls, MadeCallsNext
<1>2. \A c, h : Made(c) => (Keeps(c, h)' <=> Keeps(c, h))
  BY DEF Keeps
<1>3. ASSUME NEW h \in Handlers, Expired(h) PROVE Expired(h)'
  BY <1>1, <1>2, <1>3 DEF CallsTell
<1>4. ASSUME NEW h \in Handlers, Expired(h)' PROVE Expired(h)
  BY <1>1, <1>2, <1>4 DEF CallsTell
<1> QED
  BY <1>3, <1>4 DEF Gone

\* Nothing that concerns the handlers.
LEMMA DispatchKept ==
    ASSUME UNCHANGED <<Queued, Distributed, Gone>>,
           \A e \in Queued \union Distributed : data'[e] = data[e]
    PROVE  UNCHANGED ED!vars
BY EntriesKept DEF ED!vars

\* One handler lets go of what kept it.
LEMMA ExpireDispatch ==
    ASSUME FfrtInv', UNCHANGED <<Queued, Distributed>>,
           \A e \in Queued \union Distributed : data'[e] = data[e],
           NEW h \in Handlers, Gone \subseteq Gone', Gone' \subseteq Gone \union {h}
    PROVE  ED!Serving \/ UNCHANGED ED!vars
<1>1. CASE h \notin Gone' \/ h \in Gone
  <2>1. Gone' = Gone
    BY <1>1
  <2> QED
    BY <2>1, DispatchKept
<1>2. CASE h \in Gone' /\ h \notin Gone
  <2>1. Gone' = Gone \union {h}
    BY <1>2
  <2>2. /\ Entries(data, Queued)' = Entries(data, Queued)
        /\ Entries(data, Distributed)' = Entries(data, Distributed)
    BY EntriesKept
  <2>3. ASSUME NEW e \in Distributed PROVE data[e].owner # h
    <3>1. Made(TaskCall(e))' /\ ~ Keeps(TaskCall(e), h)'
      BY <1>2, MadeCallsNext DEF CallsTell, Gone
    <3> QED
      BY <3>1 DEF Keeps, Carries, TaskCall
  <2>4. \A p \in Entries(data, Distributed) : p.owner # h
    BY <2>3 DEF Entries
  <2>5. ED!Expire(h)
    BY <2>1, <2>2, <2>4 DEF ED!Expire
  <2> QED
    BY <1>2, <2>5 DEF ED!Serving
<1> QED
  BY <1>1, <1>2

\* An event is posted, and waited for by the thread that made a synchronous call.
LEMMA InsertDispatch ==
    ASSUME FfrtInv, FfrtInv', NEW h \in Handlers, NEW e \in Events, NEW content, NEW priority,
           InsertEvent(h, e, content, priority), ~ Expired(h),
           \/ UNCHANGED calls
           \/ \E t \in Threads : Push(t, [op |-> "wait", event |-> e])
    PROVE  ED!Serving
<1> DEFINE c == [op |-> "wait", event |-> e]
           p == [event |-> e, owner |-> h]
<1>1. /\ data[e] = None /\ data' = [data EXCEPT ![e] = data'[e]] /\ data'[e].owner = h
      /\ tasks' = [tasks EXCEPT ![RunnerOf[h]] = @ \union {e}] /\ UNCHANGED held
  BY DEF InsertEvent, FfrtInv
<1>2. \A f \in Events : f # e => data'[f] = data[f]
  <2>1. data \in [Events -> Content \union {None}]
    BY DEF FfrtInv
  <2> DEFINE v == data'[e]
  <2>2. data' = [data EXCEPT ![e] = v]
    BY <1>1
  <2> HIDE DEF v
  <2> QED
    BY <2>1, <2>2
<1>3. None \notin Content
  BY FfrtAssumption DEF Content
<1>4. e \notin Queued \union Distributed /\ Queued \union Distributed \subseteq Events
  BY <1>1, <1>3, InUse
<1>5. Queued' = Queued \union {e}
  <2>1. RunnerOf[h] \in Runners
    BY FfrtAssumption
  <2>2. tasks \in [Runners -> SUBSET Events]
    BY DEF FfrtInv
  <2> QED
    BY <1>1, <2>1, <2>2 DEF Queued
<1>6. c.op = "wait" /\ c.event = e /\ c \in Call /\ Carries(c)
  BY DEF Call, Carries
<1> HIDE DEF c
<1>7. \A d : Made(d) => Made(d)'
  <2>1. CASE UNCHANGED calls
    BY <2>1 DEF Made
  <2>2. CASE \E t \in Threads : Push(t, c)
    BY <1>6, <2>2, PushMakes DEF FfrtInv
  <2> QED
    BY <2>1, <2>2 DEF c
<1>8. \A d : Made(d)' => Made(d) \/ d = c
  <2>1. CASE UNCHANGED calls
    BY <2>1 DEF Made
  <2>2. CASE \E t \in Threads : Push(t, c)
    BY <1>6, <2>2, PushMakes DEF FfrtInv
  <2> QED
    BY <2>1, <2>2 DEF c
<1>9. \A d : Made(d) /\ Carries(d) => data'[d.event] = data[d.event]
  BY <1>1, <1>2, <1>3, InUse
<1>10. Gone' = Gone
  <2>1. \A g : Keeps(c, g)' => g = h
    BY <1>1, <1>6 DEF Keeps
  <2>2. \A g \in Handlers : Keeps(c, g)' => ~ Expired(g)
    BY <2>1
  <2> HIDE DEF c
  <2>3. \A d : Made(d)' => Made(d) \/ \A g \in Handlers : Keeps(d, g)' => ~ Expired(g)
    BY <1>8, <2>2
  <2> QED
    BY <1>1, <1>7, <1>9, <2>3, ExpiryKept
<1>11. Distributed' = Distributed
  <2>1. \A f : TaskCall(f) # c
    BY <1>6 DEF TaskCall
  <2> QED
    BY <1>7, <1>8, <2>1, MadeCalls, MadeCallsNext DEF CallsTell
<1>12. Entries(data, Distributed)' = Entries(data, Distributed)
  BY <1>2, <1>4, <1>11, EntriesKept
<1>13. Entries(data, Queued)' = Entries(data, Queued) \union {p}
  <2>1. Entries(data', Queued) = Entries(data, Queued)
    BY <1>2, <1>4, EntriesKept
  <2>2. Entries(data', {e}) = {p}
    BY <1>1, EntryOf
  <2>3. Entries(data, Queued)' = Entries(data', Queued \union {e})
    BY <1>5
  <2>4. Entries(data', Queued \union {e}) = Entries(data', Queued) \union Entries(data', {e})
    BY EntriesAre
  <2> QED
    BY <2>1, <2>2, <2>3, <2>4
<1>14. \A q \in Entries(data, Queued) \union Entries(data, Distributed) : q.event # p.event
  <2>1. \A q \in Entries(data, Queued) : q.event \in Queued
    BY EntriesAre
  <2>2. \A q \in Entries(data, Distributed) : q.event \in Distributed
    BY EntriesAre
  <2> QED
    BY <1>4, <2>1, <2>2
<1>15. p.owner \notin Gone /\ p \in Entries(data, Queued)'
  BY <1>13 DEF Gone
<1>16. ED!Post(p)
  BY <1>10, <1>12, <1>13, <1>14, <1>15 DEF ED!Post
<1> QED
  BY <1>15, <1>16 DEF ED!Serving

\* A handler's pattern finds its own events only.
LEMMA CancelDispatch ==
    ASSUME FfrtInv, FfrtInv', NEW h \in Handlers, NEW pattern, CancelByName(h, pattern),
           \A e \in Found(h, pattern) : data[e].owner = h
    PROVE  ED!Next /\ (Expired(h) => ED!Serving)
<1> DEFINE F == Found(h, pattern)
<1>1. /\ tasks' = [tasks EXCEPT ![RunnerOf[h]] = @ \ F] /\ UNCHANGED <<calls, held>> /\ Recycle
      /\ F \subseteq tasks[RunnerOf[h]] /\ RunnerOf[h] \in Runners
      /\ \A e \in F : data[e].owner = h
  BY FfrtAssumption DEF CancelByName, Found
<1> HIDE DEF F
<1>2. Queued' = Queued \ F /\ F \subseteq Queued
  <2>1. /\ tasks \in [Runners -> SUBSET Events]
        /\ \A r \in Runners : \A e \in tasks[r] : RunnerOf[data[e].owner] = r
    BY DEF FfrtInv, QueuesOK
  <2>2. tasks'[RunnerOf[h]] = tasks[RunnerOf[h]] \ F
    BY <1>1, <2>1
  <2>3. \A r \in Runners : r # RunnerOf[h] => tasks'[r] = tasks[r] /\ tasks[r] \intersect F = {}
    BY <1>1, <2>1
  <2> QED
    BY <1>1, <2>2, <2>3 DEF Queued
<1>3. /\ \A e \in Queued' \union Distributed' : data'[e] = data[e]
      /\ \A c : Made(c)' /\ Carries(c) => data'[c.event] = data[c.event]
  BY <1>1, RecycleLeaves
<1>4. \A c : Made(c)' <=> Made(c)
  BY <1>1 DEF Made
<1>5. Gone' = Gone
  BY <1>1, <1>3, <1>4, ExpiryKept
<1>6. Distributed' = Distributed
  BY <1>1 DEF Distributed
<1>7. Entries(data, Distributed)' = Entries(data, Distributed)
  BY <1>3, <1>6, EntriesKept
<1>8. /\ Entries(data, Queued)' = Entries(data, Queued) \ Entries(data, F)
      /\ Entries(data, F) \in SUBSET Entries(data, Queued)
  <2>1. Entries(data', Queued') = Entries(data, Queued')
    BY <1>3, EntriesKept
  <2> QED
    BY <1>2, <2>1, EntriesAre
<1>9. \A p, q \in Entries(data, F) : p.owner = q.owner
  BY <1>1 DEF Entries
<1>10. ED!Remove(Entries(data, F))
  BY <1>5, <1>7, <1>8, <1>9 DEF ED!Remove
<1>11. ASSUME Expired(h) PROVE ED!Serving
  <2>1. \A p \in Entries(data, F) : p.owner \in Gone
    BY <1>1, <1>11 DEF Entries, Gone
  <2>2. ED!Discard(Entries(data, F))
    BY <1>5, <1>7, <1>8, <2>1 DEF ED!Discard
  <2> QED
    BY <1>8, <2>2 DEF ED!Serving
<1> QED
  BY <1>8, <1>10, <1>11 DEF ED!Next

\* A call that carries no event, and holds no handler that is gone.
LEMMA PushDispatch ==
    ASSUME FfrtInv, FfrtInv', NEW t \in Threads, NEW c \in Call, ~ Carries(c), Push(t, c),
           c.op = "in place" => ~ Expired(c.handler), UNCHANGED held,
           \A d : Made(d)' /\ Carries(d) => data'[d.event] = data[d.event]
    PROVE  Gone' = Gone /\ Distributed' = Distributed
<1>1. \A d : Made(d)' <=> Made(d) \/ d = c
  BY PushMakes DEF FfrtInv
<1>2. \A h \in Handlers : Keeps(c, h)' => ~ Expired(h)
  BY DEF Keeps
<1>3. Gone' = Gone
  BY <1>1, <1>2, ExpiryKept
<1>4. \A f : TaskCall(f) # c
  <2>1. \A f : Carries(TaskCall(f))
    BY DEF TaskCall, Carries
  <2> QED
    BY <2>1
<1>5. Distributed' = Distributed
  BY <1>1, <1>4, MadeCalls, MadeCallsNext DEF CallsTell
<1> QED
  BY <1>3, <1>5

\* TaskCancelAndWait.
LEMMA CancelAndWaitDispatch ==
    ASSUME FfrtInv, FfrtInv', NEW t \in Threads, NEW h \in Handlers, CancelAndWait(t, h)
    PROVE  ED!Next \/ UNCHANGED ED!vars
<1> DEFINE r == RunnerOf[h]
           c == [op |-> "drain", runner |-> r]
           Q == tasks[r]
<1>1. r \in Runners /\ c \in Call /\ ~ Carries(c) /\ c.op = "drain"
  BY FfrtAssumption DEF Call, Carries
<1>2. /\ tasks' = [tasks EXCEPT ![r] = {}] /\ Push(t, c) /\ Recycle /\ UNCHANGED held
  BY DEF CancelAndWait
<1>3. /\ \A e \in Queued' \union Distributed' : data'[e] = data[e]
      /\ \A d : Made(d)' /\ Carries(d) => data'[d.event] = data[d.event]
  BY <1>2, RecycleLeaves
<1> HIDE DEF c
<1>4. Gone' = Gone /\ Distributed' = Distributed
  BY <1>1, <1>2, <1>3, PushDispatch
<1> HIDE DEF r
<1>5. /\ tasks \in [Runners -> SUBSET Events]
      /\ \A q \in Runners : \A e \in tasks[q] : RunnerOf[data[e].owner] = q
  BY DEF FfrtInv, QueuesOK
<1>6. /\ Queued' = {e \in Queued : RunnerOf[data[e].owner] # r}
      /\ Q \subseteq Queued
  <2>1. tasks'[r] = {} /\ \A q \in Runners : q # r => tasks'[q] = tasks[q]
    BY <1>1, <1>2, <1>5
  <2> QED
    BY <1>1, <1>5, <2>1 DEF Queued
<1>7. CASE Q = {}
  <2>1. Queued' = Queued
    BY <1>1, <1>2, <1>5, <1>7 DEF Queued
  <2> QED
    BY <1>3, <1>4, <2>1, DispatchKept
<1>8. CASE Q # {}
  <2>1. PICK e \in Q : e \in Queued /\ RunnerOf[data[e].owner] = r
    BY <1>1, <1>5, <1>6, <1>8
  <2> DEFINE p == [event |-> e, owner |-> data[e].owner]
  <2>2. p \in Entries(data, Queued) /\ RunnerOf[p.owner] = r
    BY <2>1 DEF Entries
  <2>3. Entries(data, Distributed)' = Entries(data, Distributed)
    BY <1>3, <1>4, EntriesKept
  <2>4. Entries(data, Queued)' = {q \in Entries(data, Queued) : RunnerOf[q.owner] # r}
    <3>1. Entries(data', Queued') = Entries(data, Queued')
      BY <1>3, EntriesKept
    <3> QED
      BY <1>6, <3>1 DEF Entries
  <2> HIDE DEF p
  <2>5. ED!Cancel(RunnerOf[p.owner])
    BY <1>1, <1>4, <2>2, <2>3, <2>4 DEF ED!Cancel
  <2> QED
    BY <2>2, <2>5 DEF ED!Next
<1> QED
  BY <1>7, <1>8

\* The thread of a queue takes a task: it distributes the event, or drops it.
LEMMA RunTaskDispatch ==
    ASSUME FfrtInv, FfrtInv', NEW r \in Runners, RunTask(r)
    PROVE  ED!Serving
<1>1. PICK e \in tasks[r] :
            /\ calls[r] = <<>>
            /\ tasks' = [tasks EXCEPT ![r] = @ \ {e}]
            /\ IF Expired(data[e].owner) THEN UNCHANGED calls
               ELSE Push(r, TaskCall(e))
            /\ Recycle
            /\ UNCHANGED held
  BY DEF RunTask, TaskCall
<1> DEFINE p == [event |-> e, owner |-> data[e].owner]
<1>2. /\ e \in Queued /\ e \in Events /\ data[e].owner \in Handlers
      /\ RunnerOf[data[e].owner] = r
  <2>1. e \in Queued
    BY DEF Queued
  <2>2. RunnerOf[data[e].owner] = r
    BY DEF FfrtInv, QueuesOK
  <2> QED
    BY <2>1, <2>2, InUse
<1>3. Queued' = Queued \ {e}
  <2>1. /\ tasks \in [Runners -> SUBSET Events]
        /\ \A q \in Runners : \A f \in tasks[q] : RunnerOf[data[f].owner] = q
    BY DEF FfrtInv, QueuesOK
  <2>2. tasks'[r] = tasks[r] \ {e} /\ \A q \in Runners : q # r => tasks'[q] = tasks[q]
    BY <1>1, <2>1
  <2>3. \A q \in Runners : q # r => e \notin tasks[q]
    BY <1>2, <2>1
  <2> QED
    BY <2>2, <2>3 DEF Queued
<1>4. /\ \A f \in Queued' \union Distributed' : data'[f] = data[f]
      /\ \A c : Made(c)' /\ Carries(c) => data'[c.event] = data[c.event]
  BY <1>1, RecycleLeaves
<1>5. /\ Entries(data, Queued)' = Entries(data, Queued) \ {p} /\ p \in Entries(data, Queued)
  <2>1. Entries(data', Queued') = Entries(data, Queued \ {e})
    BY <1>3, <1>4, EntriesKept
  <2>2. Entries(data, Queued \ {e}) = Entries(data, Queued) \ {p}
    BY EntriesBut
  <2>3. p \in Entries(data, Queued)
    BY <1>2 DEF Entries
  <2> QED
    BY <2>1, <2>2, <2>3
<1>6. p.owner = data[e].owner
  OBVIOUS
<1>7. CASE Expired(data[e].owner)
  <2>1. UNCHANGED calls
    BY <1>1, <1>7
  <2>2. (\A c : Made(c)' <=> Made(c)) /\ Distributed' = Distributed
    BY <2>1 DEF Made, Distributed
  <2>3. Gone' = Gone
    BY <1>1, <1>4, <2>2, ExpiryKept
  <2>4. Entries(data, Distributed)' = Entries(data, Distributed)
    BY <1>4, <2>2, EntriesKept
  <2>5. p.owner \in Gone
    BY <1>2, <1>6, <1>7 DEF Gone
  <2> HIDE DEF p
  <2>6. ED!Discard({p})
    BY <1>5, <2>3, <2>4, <2>5 DEF ED!Discard
  <2>7. {p} \in SUBSET Entries(data, Queued)
    BY <1>5
  <2> QED
    BY <2>6, <2>7 DEF ED!Serving
<1>8. CASE ~ Expired(data[e].owner)
  <2> DEFINE c == TaskCall(e)
  <2>1. c \in Call /\ c.op = "task" /\ c.event = e /\ Carries(c) /\ Push(r, c) /\ r \in Threads
    BY <1>1, <1>2, <1>8 DEF TaskCall, Call, Carries, Threads
  <2>2. \A d : Made(d)' <=> Made(d) \/ d = c
    BY <2>1, PushMakes DEF FfrtInv
  <2>3. Distributed' = Distributed \union {e}
    <3>1. \A f : TaskCall(f) = c <=> f = e
      BY DEF TaskCall
    <3> HIDE DEF c
    <3> QED
      BY <2>2, <3>1, MadeCalls, MadeCallsNext DEF CallsTell
  <2>4. Gone' = Gone
    <3> HIDE DEF c
    <3>1. \A h : Keeps(c, h)' => h = data[e].owner
      BY <1>4, <2>1, <2>2 DEF Keeps
    <3> QED
      BY <1>1, <1>4, <1>8, <2>2, <3>1, ExpiryKept
  <2>5. Entries(data, Distributed)' = Entries(data, Distributed) \union {p}
    <3>1. Entries(data', Distributed') = Entries(data, Distributed \union {e})
      BY <1>4, <2>3, EntriesKept
    <3>2. Entries(data, {e}) = {p}
      BY EntryOf
    <3>3. Entries(data, Distributed \union {e}) = Entries(data, Distributed) \union Entries(data, {e})
      BY EntriesAre
    <3> QED
      BY <3>1, <3>2, <3>3
  <2>6. \A f \in Distributed : RunnerOf[data[f].owner] # r
    BY <1>1, InUse
  <2>7. \A q \in Entries(data, Distributed) : RunnerOf[q.owner] # RunnerOf[p.owner]
    BY <1>2, <2>6 DEF Entries
  <2>8. p.owner \notin Gone
    BY <1>8 DEF Gone
  <2>9. ED!Distribute(p)
    BY <1>5, <2>4, <2>5, <2>7, <2>8 DEF ED!Distribute
  <2> QED
    BY <1>5, <2>9 DEF ED!Serving
<1> QED
  BY <1>7, <1>8

\* A call returns: the handler it held may be gone.
LEMMA ReturnDispatch ==
    ASSUME FfrtInv, FfrtInv', NEW t \in Threads,
           EndDistribution(t) \/ ReturnFromWait(t) \/ ReturnFromCancel(t)
    PROVE  ED!Serving \/ UNCHANGED ED!vars
<1> PICK c : c = Top(t)
  OBVIOUS
<1>1. /\ calls[t] # <<>> /\ Pop(t) /\ UNCHANGED <<tasks, held>> /\ (Recycle \/ UNCHANGED data)
      /\ c.op = "wait" => ~ Made(TaskCall(c.event))
  <2>1. calls \in [Threads -> Seq(Call)]
    BY DEF FfrtInv
  <2>2. ReturnFromWait(t) => ~ Made(TaskCall(c.event))
    BY <2>1 DEF ReturnFromWait, Made, TaskCall
  <2> QED
    BY <2>2 DEF EndDistribution, ReturnFromWait, ReturnFromCancel, In
<1>2. /\ Made(c) /\ c = calls[t][Len(calls[t])]
      /\ Len(calls[t]) \in Nat \ {0} /\ Len(calls'[t]) = Len(calls[t]) - 1
      /\ \A d : Made(d)' => Made(d)
      /\ \A d : Made(d) => Made(d)' \/ d = c
  BY <1>1, PopEnds DEF FfrtInv
<1>3. c \in Call /\ CallsTell /\ CallsTell'
  BY <1>2, MadeCalls, MadeCallsNext DEF CallsTell
<1>4. Queued' = Queued
  BY <1>1 DEF Queued
<1>5. /\ \A e \in Queued \union Distributed' : data'[e] = data[e]
      /\ \A d : Made(d)' /\ Carries(d) => data'[d.event] = data[d.event]
  BY <1>1, <1>4, RecycleLeaves
<1>6. \A h \in Handlers : /\ Expired(h) => Expired(h)'
                          /\ Expired(h)' => Expired(h) \/ Keeps(c, h)
  <2>1. \A d, h : Made(d)' => (Keeps(d, h)' <=> Keeps(d, h))
    BY <1>5 DEF Keeps
  <2>2. ASSUME NEW h \in Handlers, Expired(h) PROVE Expired(h)'
    BY <1>1, <1>2, <1>3, <2>1, <2>2 DEF CallsTell
  <2>3. ASSUME NEW h \in Handlers, Expired(h)', ~ Keeps(c, h) PROVE Expired(h)
    BY <1>1, <1>2, <1>3, <2>1, <2>3 DEF CallsTell
  <2> QED
    BY <2>2, <2>3
<1>7. CASE c.op = "task"
  <2> DEFINE e == c.event
             p == [event |-> e, owner |-> data[e].owner]
  <2>1. c = TaskCall(e) /\ e \in Distributed /\ e \in Events
    BY <1>2, <1>3, <1>7, TaskCalls DEF CallsTell
  <2>2. \A f : TaskCall(f) = c <=> f = e
    <3>1. \A f : TaskCall(f).event = f
      BY DEF TaskCall
    <3> QED
      BY <2>1, <3>1
  <2> HIDE DEF e
  <2>3. ~ Made(c)'
    <3> SUFFICES ASSUME Made(c)' PROVE FALSE
      OBVIOUS
    <3>1. PICK u \in Threads : \E i \in 1 .. Len(calls'[u]) : calls'[u][i] = c
      BY DEF Made
    <3>2. PICK i \in 1 .. Len(calls'[u]) : calls'[u][i] = c
      BY <3>1
    <3>3. i = 1 /\ u = RunnerOf[data'[c.event].owner]
      <4>1. CallsOK'
        BY DEF FfrtInv
      <4> QED
        BY ONLY <1>7, <3>2, <4>1 DEF CallsOK
    <3>4. Len(calls[t]) \in 1 .. Len(calls[t])
      BY <1>2
    <3>5. Len(calls[t]) = 1 /\ t = RunnerOf[data[c.event].owner]
      BY <1>2, <1>7, <3>4 DEF FfrtInv, CallsOK
    <3>6. data'[c.event] = data[c.event]
      BY <1>5, <1>7 DEF Carries
    <3>7. u = t
      BY <3>3, <3>5, <3>6
    <3>8. Len(calls'[t]) = 0
      <4>1. Len(calls'[t]) = Len(calls[t]) - 1
        BY <1>2
      <4>2. Len(calls[t]) = 1
        BY <3>5
      <4> QED
        BY ONLY <4>1, <4>2
    <3> QED
      BY <3>2, <3>7, <3>8
  <2>4. Distributed' = Distributed \ {e}
    BY <1>2, <1>3, <2>2, <2>3 DEF CallsTell
  <2>5. Entries(data, Queued)' = Entries(data, Queued)
    BY <1>4, <1>5, EntriesKept
  <2>6. Entries(data, Distributed)' = Entries(data, Distributed) \ {p} /\ p \in Entries(data, Distributed)
    <3>1. Entries(data', Distributed') = Entries(data, Distributed \ {e})
      BY <1>5, <2>4, EntriesKept
    <3>2. Entries(data, Distributed \ {e}) = Entries(data, Distributed) \ {p}
      BY EntriesBut
    <3>3. p \in Entries(data, Distributed)
      BY <2>1 DEF Entries
    <3> QED
      BY <3>1, <3>2, <3>3
  <2>7. p.owner = data[e].owner /\ \A h : Keeps(c, h) => h = data[e].owner
    BY <1>7 DEF Keeps, e
  <2>8. p.owner \in Handlers
    BY <2>1, <2>7, InUse
  <2> HIDE DEF p
  <2>9. Gone' \in {Gone, Gone \union {p.owner}}
    <3>1. Gone \subseteq Gone' /\ Gone' \subseteq Gone \union {p.owner}
      BY <1>6, <2>7 DEF Gone
    <3> QED
      BY <3>1
  <2>10. ED!Return(p)
    BY <2>5, <2>6, <2>9 DEF ED!Return
  <2> QED
    BY <2>6, <2>10 DEF ED!Serving
<1>8. CASE c.op # "task"
  <2>1. \A f : TaskCall(f) # c
    BY <1>8 DEF TaskCall
  <2>2. Distributed' = Distributed
    BY <1>2, <1>3, <2>1 DEF CallsTell
  <2>3. PICK h : \A g : Keeps(c, g) => g = h
    BY DEF Keeps, Carries
  <2>4. Gone \subseteq Gone' /\ Gone' \subseteq Gone \union {h}
    BY <1>6, <2>3 DEF Gone
  <2>5. CASE h \in Handlers
    BY <1>4, <1>5, <2>2, <2>4, <2>5, ExpireDispatch
  <2>6. CASE h \notin Handlers
    <3>1. Gone' = Gone
      BY <2>4, <2>6 DEF Gone
    <3> QED
      BY <1>4, <1>5, <2>2, <3>1, DispatchKept
  <2> QED
    BY <2>5, <2>6
<1> QED
  BY <1>7, <1>8

\* Clients let a handler go.
LEMMA ReleaseDispatch ==
    ASSUME FfrtInv, FfrtInv', NEW h \in Handlers, ReleaseHandler(h)
    PROVE  ED!Serving \/ UNCHANGED ED!vars
<1>1. UNCHANGED <<data, tasks, calls>> /\ held' = held \ {h}
  BY DEF ReleaseHandler
<1>2. UNCHANGED <<Queued, Distributed>> /\ \A c : Made(c)' <=> Made(c)
  BY <1>1 DEF Queued, Distributed, Made
<1>3. \A c, g : Keeps(c, g)' <=> Keeps(c, g)
  BY <1>1 DEF Keeps
<1>4. Gone \subseteq Gone' /\ Gone' \subseteq Gone \union {h}
  BY <1>1, <1>2, <1>3, MadeCalls, MadeCallsNext DEF CallsTell, Gone
<1> QED
  BY <1>1, <1>2, <1>4, ExpireDispatch

\* The synchronous calls.
LEMMA SendSyncDispatch ==
    ASSUME FfrtInv, FfrtInv', NEW t \in Threads, NEW h \in Handlers,
           SendSyncEvent(t, h) \/ PostSyncTask(t, h)
    PROVE  ED!Serving \/ UNCHANGED ED!vars
<1>1. PICK content \in InnerEvents \union TaskEvents, p \in Priorities, only \in BOOLEAN :
            SendSync(t, h, content, p, only)
  BY DEF SendSyncEvent, PostSyncTask
<1> DEFINE c == [op |-> "in place", handler |-> h]
<1>2. CASE Push(t, c) /\ UNCHANGED <<data, tasks, held, cleaned>>
  <2>1. c \in Call /\ ~ Carries(c) /\ c.handler = h /\ ~ Expired(h)
    BY <1>1 DEF Call, Carries, SendSync
  <2> HIDE DEF c
  <2>2. Gone' = Gone /\ Distributed' = Distributed
    BY <1>2, <2>1, PushDispatch
  <2>3. Queued' = Queued
    BY <1>2 DEF Queued
  <2> QED
    BY <1>2, <2>2, <2>3, DispatchKept
<1>3. CASE \E e \in Events : /\ InsertEvent(h, e, content, p)
                             /\ Push(t, [op |-> "wait", event |-> e])
  <2>1. ~ Expired(h)
    BY <1>1 DEF SendSync
  <2> QED
    BY <1>3, <2>1, InsertDispatch
<1> QED
  BY <1>1, <1>2, <1>3 DEF SendSync

\* The asynchronous calls.
LEMMA SendDispatch ==
    ASSUME FfrtInv, FfrtInv', NEW h \in Handlers, Send(h)
    PROVE  ED!Serving
<1>1. PICK content \in InnerEvents \union TaskEvents : \E p : Post(h, content, p)
  BY DEF Send, SendEvent, SendImmediateEvent, SendHighPriorityEvent, SendTimingEvent, PostTask,
         PostTimingTask, PostTaskAt, PostImmediateTask, PostHighPriorityTask, PostIdleTask
<1> QED
  BY <1>1, InsertDispatch DEF Post

\* The removals: a handler's patterns find only what it has sent.
LEMMA RemovingDispatch ==
    ASSUME FfrtInv, FfrtInv', NEW h \in Handlers,
           \/ RemoveAllEvents(h) \/ RemoveOrphanByHandlerId(h)
           \/ \E id \in Ids : RemoveEvent(h, id)
           \/ \E id \in Ids, param \in Params : RemoveEventParam(h, id, param)
           \/ \E name \in Expressions : RemoveTask(h, name)
    PROVE  ED!Serving \/ (ED!Next /\ Removal)
<1>1. /\ Found(h, OwnerPattern(h)) = Filtered(h, FALSE) \union Filtered(h, TRUE)
      /\ \A id \in Ids : Found(h, IdPattern(h, id)) = FilteredById(h, id)
      /\ \A id \in Ids, param \in Params :
             Found(h, IdParamPattern(h, id, param))
                 = FilteredById(h, id) \intersect FilteredByParam(h, param)
      /\ \A name \in Expressions : Found(h, NamePattern(h, name)) \subseteq Filtered(h, TRUE)
  BY InvImpliesTypeOK, PatternsAreFiltersOfTypes DEF PatternsAreFilters
<1>2. ASSUME NEW pattern, CancelByName(h, pattern),
             Found(h, pattern) \subseteq Filtered(h, FALSE) \union Filtered(h, TRUE)
      PROVE  ED!Next /\ (Expired(h) => ED!Serving)
  <2>1. \A e \in Found(h, pattern) : data[e].owner = h
    BY <1>2 DEF Filtered
  <2> QED
    BY <1>2, <2>1, CancelDispatch
<1>3. ASSUME RemoveAllEvents(h) PROVE ED!Next /\ Removal
  <2>1. CancelByName(h, OwnerPattern(h))
    BY <1>3 DEF RemoveAllEvents
  <2> QED
    BY <1>1, <1>2, <1>3, <2>1 DEF Removal
<1>4. ASSUME RemoveOrphanByHandlerId(h) PROVE ED!Serving
  <2>1. CancelByName(h, OwnerPattern(h)) /\ Expired(h)
    BY <1>4 DEF RemoveOrphanByHandlerId
  <2> QED
    BY <1>1, <1>2, <2>1
<1>5. ASSUME NEW id \in Ids, RemoveEvent(h, id) PROVE ED!Next /\ Removal
  <2>1. CancelByName(h, IdPattern(h, id)) /\ Found(h, IdPattern(h, id)) = FilteredById(h, id)
    BY <1>1, <1>5 DEF RemoveEvent
  <2>2. FilteredById(h, id) \subseteq Filtered(h, FALSE)
    BY DEF FilteredById
  <2> QED
    BY <1>2, <1>5, <2>1, <2>2 DEF Removal
<1>6. ASSUME NEW id \in Ids, NEW param \in Params, RemoveEventParam(h, id, param)
      PROVE  ED!Next /\ Removal
  <2>1. /\ CancelByName(h, IdParamPattern(h, id, param))
        /\ Found(h, IdParamPattern(h, id, param))
               = FilteredById(h, id) \intersect FilteredByParam(h, param)
    BY <1>1, <1>6 DEF RemoveEventParam
  <2>2. FilteredById(h, id) \subseteq Filtered(h, FALSE)
    BY DEF FilteredById
  <2> QED
    BY <1>2, <1>6, <2>1, <2>2 DEF Removal
<1>7. ASSUME NEW name \in Expressions, RemoveTask(h, name) PROVE ED!Next /\ Removal
  <2>1. /\ CancelByName(h, NamePattern(h, name))
        /\ Found(h, NamePattern(h, name)) \subseteq Filtered(h, TRUE)
    BY <1>1, <1>7 DEF RemoveTask
  <2> QED
    BY <1>2, <1>7, <2>1 DEF Removal
<1> QED
  BY <1>3, <1>4, <1>5, <1>6, <1>7

\* Every step of the queue is a step of EventDispatch, or does not concern the handlers.
LEMMA DispatchStep ==
    FfrtInv /\ FfrtInv' /\ [Next]_vars
        => [ED!Next]_(ED!vars) /\ [ED!Serving \/ Removal]_(ED!vars)
<1> SUFFICES ASSUME FfrtInv, FfrtInv', [Next]_vars
             PROVE  ED!Serving \/ (ED!Next /\ Removal) \/ UNCHANGED ED!vars
  BY DEF ED!Next
<1>1. ASSUME NEW h \in Handlers, Send(h) PROVE ED!Serving
  BY <1>1, SendDispatch
<1>2. ASSUME NEW h \in Handlers,
             \/ RemoveAllEvents(h) \/ RemoveOrphanByHandlerId(h)
             \/ \E id \in Ids : RemoveEvent(h, id)
             \/ \E id \in Ids, param \in Params : RemoveEventParam(h, id, param)
             \/ \E name \in Expressions : RemoveTask(h, name)
      PROVE  ED!Serving \/ (ED!Next /\ Removal)
  BY <1>2, RemovingDispatch
<1>3. ASSUME NEW h \in Handlers, ReleaseHandler(h) PROVE ED!Serving \/ UNCHANGED ED!vars
  BY <1>3, ReleaseDispatch
<1>4. ASSUME NEW h \in Handlers, NEW t \in Threads, SendSyncEvent(t, h) \/ PostSyncTask(t, h)
      PROVE  ED!Serving \/ UNCHANGED ED!vars
  BY <1>4, SendSyncDispatch
<1>5. ASSUME NEW h \in Handlers, NEW t \in Threads, CancelAndWait(t, h)
      PROVE  (ED!Next /\ Removal) \/ UNCHANGED ED!vars
  BY <1>5, CancelAndWaitDispatch DEF Removal
<1>6. ASSUME NEW r \in Runners, RunTask(r) PROVE ED!Serving
  BY <1>6, RunTaskDispatch
<1>7. ASSUME NEW t \in Threads, EndDistribution(t) \/ ReturnFromWait(t) \/ ReturnFromCancel(t)
      PROVE  ED!Serving \/ UNCHANGED ED!vars
  BY <1>7, ReturnDispatch
<1>8. CASE UNCHANGED vars
  <2>1. UNCHANGED <<data, tasks, calls, held>>
    BY <1>8 DEF vars
  <2>2. UNCHANGED <<Queued, Distributed, Gone>>
    BY <2>1 DEF Queued, Distributed, Gone, Expired
  <2> QED
    BY <2>1, <2>2, DispatchKept
<1> QED
  BY <1>1, <1>2, <1>3, <1>4, <1>5, <1>6, <1>7, <1>8 DEF Next

\* The FFRT queue keeps what EventDispatch promises, though events are taken out by patterns on
\* names and threads distribute in place or wait: an event is distributed once, on its owner's
\* queue and while the owner exists; and it leaves the queue in no other way, unless its owner
\* removes it or is gone, or the queue is cancelled.
THEOREM FfrtImplementsEventDispatch == Spec => ImplementsEventDispatch
<1>1. Init => ED!Init
  <2> SUFFICES ASSUME Init PROVE ED!Init
    OBVIOUS
  <2>1. Queued = {} /\ Distributed = {} /\ Gone = {}
    BY DEF Init, Queued, Distributed, Gone, Expired
  <2> QED
    BY <2>1 DEF ED!Init, Entries
<1> QED
  BY <1>1, DispatchStep, FfrtInvariant, PTL DEF Spec, ImplementsEventDispatch, ED!Spec
=============================================================================
