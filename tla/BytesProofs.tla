---------------------------- MODULE BytesProofs ----------------------------
(***************************************************************************)
(* Proofs about numbers as digits and about flattened sequences, which the *)
(* proofs about streams, RESP and snapshots have in common.                *)
(*                                                                         *)
(* A recursive definition is a CHOOSE: that a function as it describes     *)
(* exists is shown first, by the least place where it would not.           *)
(***************************************************************************)
EXTENDS Bytes, SequenceTheorems, FiniteSetTheorems, TLAPS

\* What there is of natural numbers has a least one.
LEMMA Least ==
    ASSUME NEW T, T \subseteq Nat, T # {}
    PROVE  \E n \in T : \A m \in T : n <= m
<1>1. PICK n \in T : \A m \in T : ~(<<m, n>> \in OpToRel(<, Nat))
  BY NatLessThanWellFounded, WFMin, Zenon
<1>2. \A m \in T : ~(m < n)
  BY <1>1 DEF OpToRel
<1> QED
  BY <1>2

(***************************************************************************)
(* The decimal digits of a number.                                         *)
(***************************************************************************)
\* The body of Decimal, and a function that satisfies it up to n.
LastDigit(g, m) == IF m < 10 THEN <<48 + m>> ELSE Append(g[m \div 10], 48 + (m % 10))
DecimalUpTo(g, n) == g \in [0 .. n -> Seq(48 .. 57)] /\ \A m \in 0 .. n : g[m] = LastDigit(g, m)

\* Division by ten.
LEMMA DivTen ==
    ASSUME NEW m \in Nat
    PROVE  /\ m \div 10 \in Nat /\ m % 10 \in 0 .. 9 /\ m = 10 * (m \div 10) + (m % 10)
           /\ m >= 10 => m \div 10 < m /\ m \div 10 > 0
<1>1. m \div 10 \in Int /\ m % 10 \in 0 .. 9
  OBVIOUS
<1>2. m = 10 * (m \div 10) + (m % 10)
  OBVIOUS
<1> DEFINE q == m \div 10
           r == m % 10
<1>3. q \in Int /\ r \in 0 .. 9 /\ m = 10 * q + r
  BY <1>1, <1>2
<1> HIDE DEF q, r
<1>4. q \in Nat /\ (m >= 10 => q < m /\ q > 0)
  BY <1>3
<1> QED
  BY <1>3, <1>4 DEF q, r

\* A function that satisfies the body of Decimal exists up to every number.
LEMMA DecimalExists == \A n \in Nat : \E g : DecimalUpTo(g, n)
<1> DEFINE T == {n \in Nat : ~\E g : DecimalUpTo(g, n)}
<1> SUFFICES ASSUME T # {} PROVE FALSE
  OBVIOUS
<1>1. PICK n \in T : \A m \in T : n <= m
  BY Least
<1>2. CASE n = 0
  <2> DEFINE g == [m \in 0 .. 0 |-> <<48 + m>>]
  <2>1. g \in [0 .. 0 -> Seq(48 .. 57)] /\ \A m \in 0 .. 0 : g[m] = LastDigit(g, m)
    BY DEF LastDigit
  <2> QED
    BY <1>2, <2>1 DEF DecimalUpTo
<1>3. CASE n # 0
  <2>1. n \in Nat /\ n - 1 \in Nat /\ n - 1 \notin T
    BY <1>1, <1>3
  <2>2. PICK g : DecimalUpTo(g, n - 1)
    BY <2>1
  <2> DEFINE h == [m \in 0 .. n |-> IF m = n THEN LastDigit(g, n) ELSE g[m]]
  <2>3. \A m \in 0 .. n : m >= 10 => m \div 10 \in 0 .. n - 1 /\ m \div 10 # n
    BY <2>1, DivTen
  <2>4. \A m \in 0 .. n : LastDigit(h, m) = LastDigit(g, m)
    BY <2>3 DEF LastDigit
  <2>5. LastDigit(g, n) \in Seq(48 .. 57)
    <3>1. CASE n < 10
      BY <2>1, <3>1 DEF LastDigit
    <3>2. CASE n >= 10
      <4>1. n \div 10 \in 0 .. n - 1 /\ 48 + (n % 10) \in 48 .. 57
        BY <2>1, <2>3, <3>2, DivTen
      <4>2. g[n \div 10] \in Seq(48 .. 57)
        BY <2>2, <4>1 DEF DecimalUpTo
      <4>3. LastDigit(g, n) = Append(g[n \div 10], 48 + (n % 10))
        BY <2>1, <3>2 DEF LastDigit
      <4> QED
        BY <4>1, <4>2, <4>3
    <3> QED
      BY <2>1, <3>1, <3>2
  <2>6. \A m \in 0 .. n : m # n => m \in 0 .. n - 1
    BY <2>1
  <2>7. \A m \in 0 .. n : h[m] \in Seq(48 .. 57) /\ h[m] = LastDigit(h, m)
    BY <2>2, <2>4, <2>5, <2>6 DEF DecimalUpTo
  <2>8. DecimalUpTo(h, n)
    BY <2>7 DEF DecimalUpTo
  <2> QED
    BY <2>8
<1> QED
  BY <1>2, <1>3

\* Two such functions agree where both are defined.
LEMMA DecimalUnique ==
    ASSUME NEW g, NEW h, NEW n \in Nat, NEW m \in Nat, DecimalUpTo(g, n), DecimalUpTo(h, m)
    PROVE  \A k \in 0 .. n : k <= m => g[k] = h[k]
<1> DEFINE T == {k \in 0 .. n : k <= m /\ g[k] # h[k]}
<1> SUFFICES ASSUME T # {} PROVE FALSE
  OBVIOUS
<1>0. T \subseteq Nat
  OBVIOUS
<1>1. PICK k \in T : \A j \in T : k <= j
  BY <1>0, Least
<1>2. k \in 0 .. n /\ k \in 0 .. m /\ k \in Nat
  BY <1>1
<1>3. g[k] = LastDigit(g, k) /\ h[k] = LastDigit(h, k)
  BY <1>2 DEF DecimalUpTo
<1>4. CASE k < 10
  BY <1>1, <1>3, <1>4 DEF LastDigit
<1>5. CASE k >= 10
  <2>1. k \div 10 \in 0 .. n /\ k \div 10 <= m /\ k \div 10 < k
    BY <1>2, <1>5, DivTen
  <2>2. g[k \div 10] = h[k \div 10]
    BY <1>1, <2>1
  <2> QED
    BY <1>1, <1>3, <2>2 DEF LastDigit
<1> QED
  BY <1>2, <1>4, <1>5

\* Decimal is what its recursive definition says.
LEMMA DecimalDef == Decimal = [n \in Nat |-> LastDigit(Decimal, n)]
<1> DEFINE Upto(n) == CHOOSE g : DecimalUpTo(g, n)
           d == [n \in Nat |-> Upto(n)[n]]
<1>1. \A n \in Nat : DecimalUpTo(Upto(n), n)
  BY DecimalExists
<1>2. \A n \in Nat : \A m \in 0 .. n : d[m] = Upto(n)[m]
  <2> SUFFICES ASSUME NEW n \in Nat, NEW m \in 0 .. n PROVE Upto(m)[m] = Upto(n)[m]
    OBVIOUS
  <2> HIDE DEF Upto
  <2>1. m \in Nat /\ m \in 0 .. m /\ m <= n
    OBVIOUS
  <2>2. DecimalUpTo(Upto(m), m) /\ DecimalUpTo(Upto(n), n)
    BY <1>1, <2>1
  <2> QED
    BY <2>1, <2>2, DecimalUnique
<1> HIDE DEF Upto
<1>3. \A n \in Nat : d[n] = LastDigit(d, n)
  <2> SUFFICES ASSUME NEW n \in Nat PROVE d[n] = LastDigit(d, n)
    OBVIOUS
  <2>1. d[n] = LastDigit(Upto(n), n)
    BY <1>1 DEF DecimalUpTo
  <2>2. n >= 10 => n \div 10 \in 0 .. n
    BY DivTen
  <2>3. n >= 10 => d[n \div 10] = Upto(n)[n \div 10]
    BY <1>2, <2>2
  <2> HIDE DEF d
  <2> QED
    BY <2>1, <2>3 DEF LastDigit
<1>4. d = [n \in Nat |-> LastDigit(d, n)]
  BY <1>3
<1> HIDE DEF d
<1> QED
  BY <1>4 DEF Decimal, LastDigit

\* The two cases of Decimal.
LEMMA DecimalCases ==
    ASSUME NEW n \in Nat
    PROVE  /\ n < 10 => Decimal[n] = <<48 + n>>
           /\ n >= 10 => Decimal[n] = Append(Decimal[n \div 10], 48 + (n % 10))
<1>1. Decimal[n] = LastDigit(Decimal, n)
  BY DecimalDef
<1> QED
  BY <1>1 DEF LastDigit

\* The digits of a number are digits, and one if it is below 10.
LEMMA DecimalType ==
    \A n \in Nat : Decimal[n] \in Seq(48 .. 57) /\ Len(Decimal[n]) \in Nat \ {0}
                   /\ (Len(Decimal[n]) = 1 <=> n < 10)
<1> DEFINE Good(n) == Decimal[n] \in Seq(48 .. 57) /\ Len(Decimal[n]) \in Nat \ {0}
                      /\ (Len(Decimal[n]) = 1 <=> n < 10)
           T == {n \in Nat : ~Good(n)}
<1> SUFFICES ASSUME T # {} PROVE FALSE
  OBVIOUS
<1>2. PICK n \in T : \A m \in T : n <= m
  BY Least
<1>3. CASE n < 10
  <2>0. n \in Nat
    BY <1>2
  <2>1. Decimal[n] = <<48 + n>> /\ 48 + n \in 48 .. 57
    <3>1. Decimal[n] = <<48 + n>>
      BY <2>0, <1>3, DecimalCases, Zenon
    <3> QED
      BY <2>0, <1>3, <3>1
  <2>2. <<48 + n>> \in Seq(48 .. 57) /\ Len(<<48 + n>>) = 1
    BY <2>1
  <2>3. Decimal[n] \in Seq(48 .. 57) /\ Len(Decimal[n]) = 1
    BY <2>1, <2>2
  <2>4. Good(n)
    BY <1>3, <2>3
  <2> QED
    BY <2>4
<1>4. CASE n >= 10
  <2> DEFINE d == n \div 10
  <2>1. n \in Nat /\ d \in Nat /\ d < n /\ 48 + (n % 10) \in 48 .. 57
    BY <1>2, <1>4, DivTen
  <2>2. Good(d)
    BY <1>2, <2>1
  <2>3. Decimal[n] = Append(Decimal[d], 48 + (n % 10))
    BY <1>2, <1>4, DecimalCases
  <2> HIDE DEF d
  <2>4. Decimal[n] \in Seq(48 .. 57) /\ Len(Decimal[n]) = Len(Decimal[d]) + 1
    BY <2>1, <2>2, <2>3
  <2>5. Good(n)
    BY <1>4, <2>1, <2>2, <2>4
  <2> QED
    BY <1>2, <2>5
<1> QED
  BY <1>2, <1>3, <1>4

\* Bytes are numbers, and digits are bytes.
LEMMA ByteFacts == Byte \subseteq Int /\ 48 .. 57 \subseteq Byte /\ 10 \in Byte /\ 13 \in Byte
BY DEF Byte

(***************************************************************************)
(* Digits read as a number.                                                *)
(***************************************************************************)
\* The body of Number, and a function that satisfies it for the first n digits.
NextNumber(g, s, k) == IF k = 0 THEN 0 ELSE 10 * g[k - 1] + (s[k] - 48)
NumberUpTo(g, s, n) ==
    g = [k \in 0 .. n |-> NextNumber(g, s, k)] /\ \A k \in 0 .. n : g[k] \in Int

\* Such a function exists.
LEMMA NumberExists ==
    ASSUME NEW s \in Seq(Int)
    PROVE  \A n \in 0 .. Len(s) : \E g : NumberUpTo(g, s, n)
<1> DEFINE T == {n \in 0 .. Len(s) : ~\E g : NumberUpTo(g, s, n)}
<1> SUFFICES ASSUME T # {} PROVE FALSE
  OBVIOUS
<1>0. T \subseteq Nat
  OBVIOUS
<1>1. PICK n \in T : \A m \in T : n <= m
  BY <1>0, Least
<1>2. n \in Nat /\ n \in 0 .. Len(s) /\ Len(s) \in Nat
  BY <1>1
<1>3. CASE n = 0
  <2> DEFINE g == [k \in 0 .. 0 |-> 0]
  <2>1. NumberUpTo(g, s, 0)
    BY DEF NumberUpTo, NextNumber
  <2> QED
    BY <1>1, <1>3, <2>1
<1>4. CASE n # 0
  <2>1. n - 1 \in 0 .. Len(s) /\ n - 1 \notin T
    BY <1>1, <1>2, <1>4, SMTT(30)
  <2>2. PICK g : NumberUpTo(g, s, n - 1)
    BY <2>1
  <2> DEFINE h == [k \in 0 .. n |-> IF k = n THEN NextNumber(g, s, n) ELSE g[k]]
  <2>3. \A k \in 0 .. n : k # 0 => k - 1 \in 0 .. n - 1 /\ k - 1 # n
    BY <1>2
  <2>4. \A k \in 0 .. n : NextNumber(h, s, k) = NextNumber(g, s, k)
    BY <2>3 DEF NextNumber
  <2>5. \A k \in 0 .. n : k # n => k \in 0 .. n - 1
    BY <1>2
  <2>6. \A k \in 0 .. n - 1 : g[k] \in Int /\ g[k] = NextNumber(g, s, k)
    BY <2>2 DEF NumberUpTo
  <2>7. NextNumber(g, s, n) \in Int
    <3>1. s[n] \in Int /\ g[n - 1] \in Int
      BY <1>2, <1>4, <2>3, <2>6
    <3> QED
      BY <1>4, <3>1, SMTT(30) DEF NextNumber
  <2>8. \A k \in 0 .. n : h[k] \in Int /\ h[k] = NextNumber(h, s, k)
    BY <2>4, <2>5, <2>6, <2>7
  <2>9. h = [k \in 0 .. n |-> NextNumber(h, s, k)]
    BY <2>8
  <2> HIDE DEF h
  <2> QED
    BY <1>1, <2>8, <2>9 DEF NumberUpTo
<1> QED
  BY <1>3, <1>4

\* Number is computed by such a function.
LEMMA NumberDef ==
    ASSUME NEW s \in Seq(Int)
    PROVE  \E g : NumberUpTo(g, s, Len(s)) /\ Number(s) = g[Len(s)]
<1> DEFINE Is(g) == g = [k \in 0 .. Len(s) |-> NextNumber(g, s, k)]
           g == CHOOSE x : Is(x)
<1>1. PICK x : NumberUpTo(x, s, Len(s))
  BY NumberExists
<1>2. Is(x)
  BY <1>1 DEF NumberUpTo
<1>3. Is(g)
  BY <1>2
<1>4. Number(s) = g[Len(s)]
  BY DEF Number, NextNumber
<1> HIDE DEF g
<1>5. \A k \in 0 .. Len(s) : g[k] \in Int
  <2> DEFINE T == {k \in 0 .. Len(s) : g[k] \notin Int}
  <2> SUFFICES ASSUME T # {} PROVE FALSE
    OBVIOUS
  <2>0. T \subseteq Nat
    OBVIOUS
  <2>1. PICK k \in T : \A j \in T : k <= j
    BY <2>0, Least
  <2>2. k \in 0 .. Len(s) /\ Len(s) \in Nat /\ g[k] = NextNumber(g, s, k)
    BY <1>3, <2>1
  <2>3. k = 0 \/ (k - 1 \in 0 .. Len(s) /\ k - 1 \notin T /\ s[k] \in Int)
    BY <2>1, <2>2
  <2> QED
    BY <2>1, <2>2, <2>3, SMTT(30) DEF NextNumber
<1> QED
  BY <1>3, <1>4, <1>5 DEF NumberUpTo

\* One digit more.
LEMMA NumberAppend ==
    ASSUME NEW s \in Seq(Int), NEW d \in Int
    PROVE  Number(s) \in Int /\ Number(Append(s, d)) = 10 * Number(s) + (d - 48)
<1> DEFINE t == Append(s, d)
           n == Len(s)
<1>1. t \in Seq(Int) /\ Len(t) = n + 1 /\ n \in Nat /\ t[n + 1] = d /\ \A k \in 1 .. n : t[k] = s[k]
  BY AppendProperties
<1>2. PICK g : NumberUpTo(g, s, n) /\ Number(s) = g[n]
  BY NumberDef
<1>3. PICK h : NumberUpTo(h, t, n + 1) /\ Number(t) = h[n + 1]
  <2>1. \E h : NumberUpTo(h, t, Len(t)) /\ Number(t) = h[Len(t)]
    BY <1>1, NumberDef
  <2> QED
    BY <1>1, <2>1
<1> HIDE DEF t, n
<1>4. \A k \in 0 .. n : g[k] = NextNumber(g, s, k) /\ g[k] \in Int
  BY <1>2 DEF NumberUpTo
<1>5. \A k \in 0 .. n + 1 : h[k] = NextNumber(h, t, k)
  BY <1>3 DEF NumberUpTo
<1>6. \A k \in 0 .. n : h[k] = g[k]
  <2> DEFINE T == {k \in 0 .. n : h[k] # g[k]}
  <2> SUFFICES ASSUME T # {} PROVE FALSE
    OBVIOUS
  <2>0. T \subseteq Nat
    BY <1>1
  <2>1. PICK k \in T : \A j \in T : k <= j
    BY <2>0, Least
  <2>2. k \in 0 .. n /\ k \in 0 .. n + 1 /\ k \in Nat
    BY <1>1, <2>1
  <2>3. k = 0 \/ (k - 1 \in 0 .. n /\ k - 1 \notin T /\ k \in 1 .. n)
    BY <1>1, <2>1, <2>2
  <2>4. NextNumber(h, t, k) = NextNumber(g, s, k)
    BY <1>1, <2>3 DEF NextNumber
  <2> QED
    BY <1>4, <1>5, <2>1, <2>2, <2>4
<1>7. h[n + 1] = 10 * h[n] + (d - 48)
  <2>1. n + 1 \in 0 .. n + 1 /\ n + 1 # 0 /\ (n + 1) - 1 = n
    BY <1>1
  <2> QED
    BY <1>1, <1>5, <2>1 DEF NextNumber
<1>8. n \in 0 .. n
  BY <1>1
<1>9. Number(s) \in Int /\ Number(t) = 10 * Number(s) + (d - 48)
  BY <1>2, <1>3, <1>4, <1>6, <1>7, <1>8
<1> QED
  BY <1>9 DEF t

\* Numbers are numbers.
LEMMA NumberType == \A s \in Seq(Int) : Number(s) \in Int
<1> SUFFICES ASSUME NEW s \in Seq(Int) PROVE Number(s) \in Int
  OBVIOUS
<1>1. 0 \in Int
  OBVIOUS
<1> QED
  BY <1>1, NumberAppend

\* No digits are 0.
LEMMA NumberEmpty == Number(<<>>) = 0
<1>1. <<>> \in Seq(Int) /\ Len(<<>>) = 0
  OBVIOUS
<1>2. PICK g : NumberUpTo(g, <<>>, 0) /\ Number(<<>>) = g[0]
  BY <1>1, NumberDef
<1> QED
  BY <1>2 DEF NumberUpTo, NextNumber

\* A number is read back from its digits: strconv.Atoi of what fmt wrote.
LEMMA NumberOfDecimal == \A n \in Nat : Number(Decimal[n]) = n
<1> DEFINE T == {n \in Nat : Number(Decimal[n]) # n}
<1> SUFFICES ASSUME T # {} PROVE FALSE
  OBVIOUS
<1>1. PICK n \in T : \A m \in T : n <= m
  BY Least
<1>2. CASE n < 10
  <2>1. Decimal[n] = <<48 + n>> /\ n \in Nat
    BY <1>1, <1>2, DecimalCases
  <2>2. <<48 + n>> = Append(<<>>, 48 + n) /\ <<>> \in Seq(Int) /\ 48 + n \in Int
    BY <2>1
  <2>3. Number(Append(<<>>, 48 + n)) = 10 * Number(<<>>) + ((48 + n) - 48)
    BY <2>2, NumberAppend
  <2>4. Number(<<48 + n>>) = n
    BY <2>1, <2>2, <2>3, NumberEmpty
  <2> QED
    BY <1>1, <2>1, <2>4
<1>3. CASE n >= 10
  <2> DEFINE d == n \div 10
             r == n % 10
  <2>1. n \in Nat /\ d \in Nat /\ d < n /\ r \in 0 .. 9 /\ n = 10 * d + r
    BY <1>1, <1>3, DivTen
  <2>2. Decimal[n] = Append(Decimal[d], 48 + r)
    BY <1>1, <1>3, DecimalCases
  <2> HIDE DEF d, r
  <2>3. Number(Decimal[d]) = d
    BY <1>1, <2>1
  <2>4. Decimal[d] \in Seq(Int) /\ 48 + r \in Int
    <3>1. 48 .. 57 \subseteq Int
      OBVIOUS
    <3>2. Decimal[d] \in Seq(48 .. 57)
      BY <2>1, DecimalType
    <3>3. Decimal[d] \in Seq(Int)
      BY <3>1, <3>2, SeqMonotonic
    <3> QED
      BY <2>1, <3>3
  <2>5. Number(Append(Decimal[d], 48 + r)) = 10 * Number(Decimal[d]) + ((48 + r) - 48)
    BY <2>4, NumberAppend
  <2>6. Number(Append(Decimal[d], 48 + r)) = n
    BY <2>1, <2>3, <2>5
  <2> QED
    BY <1>1, <2>2, <2>6
<1> QED
  BY <1>1, <1>2, <1>3

(***************************************************************************)
(* Flattened sequences.                                                    *)
(***************************************************************************)
\* The body of FlattenSeq, and a function that satisfies it for the first n.
NextFlat(g, E, i) == IF i = 1 THEN E[i] ELSE g[i - 1] \o E[i]
FlatUpTo(g, E, n) == g = [i \in 1 .. n |-> NextFlat(g, E, i)]

\* Such a function exists.
LEMMA FlatExists ==
    ASSUME NEW S, NEW E \in Seq(Seq(S))
    PROVE  \A n \in 0 .. Len(E) : \E g : FlatUpTo(g, E, n)
<1> DEFINE T == {n \in 0 .. Len(E) : ~\E g : FlatUpTo(g, E, n)}
<1> SUFFICES ASSUME T # {} PROVE FALSE
  OBVIOUS
<1>0. T \subseteq Nat
  OBVIOUS
<1>1. PICK n \in T : \A m \in T : n <= m
  BY <1>0, Least
<1>2. n \in Nat /\ n \in 0 .. Len(E) /\ Len(E) \in Nat
  BY <1>1
<1>3. CASE n = 0
  <2> DEFINE g == [i \in 1 .. 0 |-> <<>>]
  <2>1. FlatUpTo(g, E, 0)
    BY DEF FlatUpTo
  <2> QED
    BY <1>1, <1>3, <2>1
<1>4. CASE n # 0
  <2>0. n - 1 \in 0 .. Len(E) /\ ~(n <= n - 1)
    BY <1>2, <1>4
  <2>1. n - 1 \in 0 .. Len(E) /\ n - 1 \notin T
    BY <1>1, <2>0, Zenon
  <2>2. PICK g : FlatUpTo(g, E, n - 1)
    BY <2>1
  <2> DEFINE h == [i \in 1 .. n |-> IF i = n THEN NextFlat(g, E, n) ELSE g[i]]
  <2>3. \A i \in 1 .. n : i # 1 => i - 1 \in 1 .. n - 1 /\ i - 1 # n /\ i - 1 \in 1 .. n
    BY <1>2
  <2>4. \A i \in 1 .. n : NextFlat(h, E, i) = NextFlat(g, E, i)
    BY <2>3 DEF NextFlat
  <2>5. \A i \in 1 .. n : i # n => i \in 1 .. n - 1
    BY <1>2
  <2>6. \A i \in 1 .. n - 1 : g[i] = NextFlat(g, E, i)
    BY <2>2 DEF FlatUpTo
  <2>7. \A i \in 1 .. n : h[i] = NextFlat(h, E, i)
    BY <2>4, <2>5, <2>6
  <2>8. h = [i \in 1 .. n |-> NextFlat(h, E, i)]
    BY <2>7
  <2> HIDE DEF h
  <2> QED
    BY <1>1, <2>8 DEF FlatUpTo
<1> QED
  BY <1>3, <1>4

\* FlattenSeq is computed by such a function.
LEMMA FlatDef ==
    ASSUME NEW S, NEW E \in Seq(Seq(S)), Len(E) > 0
    PROVE  \E g : /\ \A i \in 1 .. Len(E) : g[i] = NextFlat(g, E, i) /\ g[i] \in Seq(S)
                  /\ FlattenSeq(E) = g[Len(E)]
<1> DEFINE Is(g) == g = [i \in 1 .. Len(E) |-> NextFlat(g, E, i)]
           g == CHOOSE x : Is(x)
<1>1. PICK x : FlatUpTo(x, E, Len(E))
  BY FlatExists, SMTT(30)
<1>2. Is(x)
  BY <1>1 DEF FlatUpTo
<1>3. Is(g)
  BY <1>2
<1>4. FlattenSeq(E) = g[Len(E)]
  BY DEF FlattenSeq, NextFlat
<1> HIDE DEF g
<1>5. \A i \in 1 .. Len(E) : g[i] = NextFlat(g, E, i)
  BY <1>3
<1>6. \A i \in 1 .. Len(E) : g[i] \in Seq(S)
  <2> DEFINE T == {k \in 1 .. Len(E) : g[k] \notin Seq(S)}
  <2> SUFFICES ASSUME T # {} PROVE FALSE
    OBVIOUS
  <2>0. T \subseteq Nat
    OBVIOUS
  <2>1. PICK k \in T : \A j \in T : k <= j
    BY <2>0, Least
  <2>2. k \in 1 .. Len(E) /\ Len(E) \in Nat /\ E[k] \in Seq(S) /\ g[k] = NextFlat(g, E, k)
    BY <1>5, <2>1
  <2>3. k = 1 \/ (k - 1 \in 1 .. Len(E) /\ k - 1 \notin T)
    BY <2>1, <2>2
  <2>4. g[k] \in Seq(S)
    BY <2>2, <2>3, ConcatProperties DEF NextFlat
  <2> QED
    BY <2>1, <2>4
<1> QED
  BY <1>4, <1>5, <1>6

\* A flattened sequence of sequences over S is one over S.
LEMMA FlatType ==
    ASSUME NEW S, NEW E \in Seq(Seq(S))
    PROVE  FlattenSeq(E) \in Seq(S)
<1>1. CASE Len(E) = 0
  <2>1. E = <<>>
    BY <1>1
  <2> QED
    BY <1>1, <2>1 DEF FlattenSeq
<1>2. CASE Len(E) > 0
  <2>1. Len(E) \in 1 .. Len(E)
    BY <1>2
  <2> QED
    BY <1>2, <2>1, FlatDef
<1> QED
  BY <1>1, <1>2

\* Nothing flattened is nothing.
LEMMA FlatEmpty == FlattenSeq(<<>>) = <<>>
BY DEF FlattenSeq

\* One sequence more at the end.
LEMMA FlatAppend ==
    ASSUME NEW S, NEW E \in Seq(Seq(S)), NEW x \in Seq(S)
    PROVE  FlattenSeq(Append(E, x)) = FlattenSeq(E) \o x
<1> DEFINE F == Append(E, x)
           n == Len(E)
<1>1. /\ F \in Seq(Seq(S)) /\ Len(F) = n + 1 /\ n \in Nat /\ F[n + 1] = x
      /\ \A k \in 1 .. n : F[k] = E[k]
  BY AppendProperties
<1>2. PICK h : /\ \A i \in 1 .. n + 1 : h[i] = NextFlat(h, F, i) /\ h[i] \in Seq(S)
               /\ FlattenSeq(F) = h[n + 1]
  <2>0. Len(F) > 0
    BY <1>1
  <2> HIDE DEF F
  <2>1. \E h : /\ \A i \in 1 .. Len(F) : h[i] = NextFlat(h, F, i) /\ h[i] \in Seq(S)
               /\ FlattenSeq(F) = h[Len(F)]
    BY <1>1, <2>0, FlatDef
  <2> QED
    BY <1>1, <2>1
<1> HIDE DEF F
<1>3. CASE n = 0
  <2>1. E = <<>>
    BY <1>3
  <2>2. h[1] = F[1] /\ n + 1 = 1 /\ F[1] = x
    BY <1>1, <1>2, <1>3 DEF NextFlat
  <2>3. FlattenSeq(F) = x /\ FlattenSeq(E) = <<>>
    BY <1>2, <2>1, <2>2, FlatEmpty
  <2>4. <<>> \o x = x
    OBVIOUS
  <2> QED
    BY <2>3, <2>4 DEF F
<1>4. CASE n # 0
  <2>1. n > 0 /\ n \in 1 .. n /\ n \in 1 .. n + 1 /\ n + 1 \in 1 .. n + 1 /\ n + 1 # 1 /\ (n + 1) - 1 = n
    BY <1>1, <1>4
  <2>2. PICK g : /\ \A i \in 1 .. n : g[i] = NextFlat(g, E, i) /\ g[i] \in Seq(S)
                 /\ FlattenSeq(E) = g[n]
    BY <2>1, FlatDef
  <2> HIDE DEF n
  <2>3. \A k \in 1 .. n : h[k] = g[k]
    <3> DEFINE T == {k \in 1 .. n : h[k] # g[k]}
    <3> SUFFICES ASSUME T # {} PROVE FALSE
      OBVIOUS
    <3>0. T \subseteq Nat
      BY <1>1
    <3>1. PICK k \in T : \A j \in T : k <= j
      BY <3>0, Least
    <3>2. k \in 1 .. n /\ k \in 1 .. n + 1 /\ k \in Nat
      BY <1>1, <3>1
    <3>3. k = 1 \/ (k - 1 \in 1 .. n /\ ~(k <= k - 1))
      BY <1>1, <3>2
    <3>5. k = 1 \/ h[k - 1] = g[k - 1]
      BY <3>1, <3>3, Zenon
    <3>4. NextFlat(h, F, k) = NextFlat(g, E, k)
      BY <1>1, <3>2, <3>5 DEF NextFlat
    <3> QED
      BY <1>2, <2>2, <3>1, <3>2, <3>4
  <2>4. h[n + 1] = h[n] \o F[n + 1]
    BY <1>2, <2>1 DEF NextFlat
  <2>5. FlattenSeq(F) = FlattenSeq(E) \o x
    BY <1>1, <1>2, <2>1, <2>2, <2>3, <2>4
  <2> QED
    BY <2>5 DEF F
<1> QED
  BY <1>3, <1>4

\* Two sequences, one behind the other.
LEMMA Joined ==
    ASSUME NEW S, NEW s \in Seq(S), NEW t \in Seq(S)
    PROVE  /\ s \o t \in Seq(S) /\ Len(s \o t) = Len(s) + Len(t)
           /\ Len(s) \in Nat /\ Len(t) \in Nat
           /\ \A j \in 1 .. Len(s) : (s \o t)[j] = s[j]
           /\ \A j \in 1 .. Len(t) : (s \o t)[Len(s) + j] = t[j]
<1>1. Len(s) \in Nat /\ Len(t) \in Nat
  OBVIOUS
<1>2. s \o t \in Seq(S) /\ Len(s \o t) = Len(s) + Len(t)
  BY ConcatProperties
<1>3. \A i \in 1 .. Len(s) + Len(t) : (s \o t)[i] = IF i <= Len(s) THEN s[i] ELSE t[i - Len(s)]
  BY ConcatProperties
<1>4. \A j \in 1 .. Len(s) : (s \o t)[j] = s[j]
  BY <1>1, <1>3
<1>5. \A j \in 1 .. Len(t) : (s \o t)[Len(s) + j] = t[j]
  BY <1>1, <1>3
<1> QED
  BY <1>1, <1>2, <1>4, <1>5

\* An element behind two sequences.
LEMMA ConcatAppend ==
    ASSUME NEW S, NEW s \in Seq(S), NEW t \in Seq(S), NEW x \in S
    PROVE  s \o t \in Seq(S) /\ s \o Append(t, x) = Append(s \o t, x)
<1>1. s \o t \in Seq(S) /\ <<x>> \in Seq(S)
  BY ConcatProperties
<1>2. Append(t, x) = t \o <<x>> /\ Append(s \o t, x) = (s \o t) \o <<x>>
  BY <1>1, AppendIsConcat
<1>3. (s \o t) \o <<x>> = s \o (t \o <<x>>)
  BY <1>1, ConcatAssociative
<1> QED
  BY <1>1, <1>2, <1>3

\* Sequences one after the other: one more of them.
LEMMA FlatConcatStep ==
    ASSUME NEW S, NEW E \in Seq(Seq(S)), NEW G \in Seq(Seq(S)), NEW x \in Seq(S),
           FlattenSeq(E \o G) = FlattenSeq(E) \o FlattenSeq(G)
    PROVE  FlattenSeq(E \o Append(G, x)) = FlattenSeq(E) \o FlattenSeq(Append(G, x))
<1> DEFINE a == FlattenSeq(E)
           b == FlattenSeq(G)
<1>1. E \o G \in Seq(Seq(S)) /\ E \o Append(G, x) = Append(E \o G, x)
  BY ConcatAppend
<1>2. FlattenSeq(Append(E \o G, x)) = FlattenSeq(E \o G) \o x
  BY <1>1, FlatAppend
<1>3. FlattenSeq(Append(G, x)) = b \o x /\ b \in Seq(S) /\ a \in Seq(S)
  BY FlatAppend, FlatType
<1> HIDE DEF a, b
<1>4. (a \o b) \o x = a \o (b \o x)
  BY <1>3, ConcatAssociative
<1> QED
  BY <1>1, <1>2, <1>3, <1>4 DEF a, b

\* Sequences one after the other.
LEMMA FlatConcat ==
    ASSUME NEW S, NEW E \in Seq(Seq(S))
    PROVE  \A F \in Seq(Seq(S)) : FlattenSeq(E \o F) = FlattenSeq(E) \o FlattenSeq(F)
<1> DEFINE Bad(F) == FlattenSeq(E \o F) # FlattenSeq(E) \o FlattenSeq(F)
           T == {n \in Nat : \E F \in Seq(Seq(S)) : Len(F) = n /\ Bad(F)}
<1> SUFFICES ASSUME T # {} PROVE FALSE
  <2>1. \A F \in Seq(Seq(S)) : Bad(F) => Len(F) \in T
    OBVIOUS
  <2> QED
    BY <2>1
<1>1. PICK n \in T : \A m \in T : n <= m
  BY Least
<1>2. PICK F \in Seq(Seq(S)) : Len(F) = n /\ Bad(F)
  BY <1>1
<1>3. FlattenSeq(E) \in Seq(S)
  BY FlatType
<1>4. CASE F = <<>>
  <2>1. E \o <<>> = E /\ FlattenSeq(E) \o <<>> = FlattenSeq(E)
    BY <1>3, ConcatEmptySeq
  <2> QED
    BY <1>2, <1>4, <2>1, FlatEmpty
<1>5. CASE F # <<>>
  <2>1. PICK G \in Seq(Seq(S)), x \in Seq(S) : F = Append(G, x)
    BY <1>5, SequenceEmptyOrAppend
  <2>2. Len(F) = Len(G) + 1 /\ Len(G) \in Nat
    BY <2>1, AppendProperties
  <2>3. ~(n <= Len(G))
    BY <1>2, <2>2
  <2>4. FlattenSeq(E \o G) = FlattenSeq(E) \o FlattenSeq(G)
    BY <1>1, <2>2, <2>3, Zenon
  <2> QED
    BY <1>2, <2>1, <2>4, FlatConcatStep, Zenon
<1> QED
  BY <1>4, <1>5

\* Sequences over S that make up x.
FlatIs(S, E, x) == E \in Seq(Seq(S)) /\ FlattenSeq(E) = x

\* One behind the other they make up what they make up, one behind the other.
LEMMA FlatJoin ==
    ASSUME NEW S, NEW E, NEW G, NEW x, NEW y, FlatIs(S, E, x), FlatIs(S, G, y)
    PROVE  FlatIs(S, E \o G, x \o y)
<1>1. E \in Seq(Seq(S)) /\ G \in Seq(Seq(S)) /\ x = FlattenSeq(E) /\ y = FlattenSeq(G)
  BY DEF FlatIs
<1>2. E \o G \in Seq(Seq(S))
  BY <1>1, ConcatProperties
<1>3. FlattenSeq(E \o G) = FlattenSeq(E) \o FlattenSeq(G)
  BY <1>1, FlatConcat, Zenon
<1> QED
  BY <1>1, <1>2, <1>3, Zenon DEF FlatIs

\* One sequence.
LEMMA FlatOne ==
    ASSUME NEW S, NEW x \in Seq(S)
    PROVE  FlattenSeq(<<x>>) = x
<1>1. <<x>> = Append(<<>>, x) /\ <<>> \in Seq(Seq(S)) /\ <<>> \o x = x
  OBVIOUS
<1> QED
  BY <1>1, FlatAppend, FlatEmpty

\* The first sequence, then the others.
LEMMA FlatHead ==
    ASSUME NEW S, NEW E \in Seq(Seq(S)), E # <<>>
    PROVE  FlattenSeq(E) = Head(E) \o FlattenSeq(Tail(E))
<1>1. Head(E) \in Seq(S) /\ Tail(E) \in Seq(Seq(S)) /\ <<Head(E)>> \in Seq(Seq(S))
  BY HeadTailProperties
<1>2. E = <<Head(E)>> \o Tail(E)
  OBVIOUS
<1>3. FlattenSeq(<<Head(E)>> \o Tail(E)) = FlattenSeq(<<Head(E)>>) \o FlattenSeq(Tail(E))
  BY <1>1, FlatConcat, Zenon
<1>4. FlattenSeq(<<Head(E)>>) = Head(E)
  BY <1>1, FlatOne, Zenon
<1> QED
  BY <1>2, <1>3, <1>4, Zenon

\* Where the parts of a flattened sequence are: part k is behind the first
\* ends[k - 1] elements.
EndsOf(ends, E) ==
    /\ ends \in [0 .. Len(E) -> Nat] /\ ends[0] = 0 /\ ends[Len(E)] = Len(FlattenSeq(E))
    /\ \A k \in 1 .. Len(E) :
         /\ ends[k] = ends[k - 1] + Len(E[k])
         /\ \A j \in 1 .. Len(E[k]) : FlattenSeq(E)[ends[k - 1] + j] = E[k][j]

\* There are such places.
LEMMA FlatParts ==
    ASSUME NEW S
    PROVE  \A E \in Seq(Seq(S)) : \E ends : EndsOf(ends, E)
<1> DEFINE Bad(E) == ~\E ends : EndsOf(ends, E)
           T == {n \in Nat : \E E \in Seq(Seq(S)) : Len(E) = n /\ Bad(E)}
<1> SUFFICES ASSUME T # {} PROVE FALSE
  <2>1. \A E \in Seq(Seq(S)) : Bad(E) => Len(E) \in T
    OBVIOUS
  <2> QED
    BY <2>1
<1>1. PICK n \in T : \A m \in T : n <= m
  BY Least
<1>2. PICK E \in Seq(Seq(S)) : Len(E) = n /\ Bad(E)
  BY <1>1
<1>3. CASE E = <<>>
  <2> DEFINE e == [k \in 0 .. 0 |-> 0]
  <2>1. EndsOf(e, <<>>)
    BY FlatEmpty DEF EndsOf
  <2> QED
    BY <1>2, <1>3, <2>1
<1>4. CASE E # <<>>
  <2>1. PICK G \in Seq(Seq(S)), x \in Seq(S) : E = Append(G, x)
    BY <1>4, SequenceEmptyOrAppend
  <2> DEFINE l == Len(G)
             fg == FlattenSeq(G)
             fe == FlattenSeq(E)
  <2>2. /\ Len(E) = l + 1 /\ l \in Nat /\ E[l + 1] = x
        /\ \A k \in 1 .. l : E[k] = G[k] /\ G[k] \in Seq(S)
    BY <2>1, AppendProperties
  <2>3. ~(n <= l)
    BY <1>2, <2>2
  <2>4. PICK g : EndsOf(g, G)
    BY <1>1, <2>2, <2>3, Zenon
  <2>5. fe = fg \o x /\ fg \in Seq(S)
    BY <2>1, FlatAppend, FlatType
  <2>6. /\ g \in [0 .. l -> Nat] /\ g[0] = 0 /\ g[l] = Len(fg)
        /\ \A k \in 1 .. l : /\ g[k] = g[k - 1] + Len(G[k])
                             /\ \A j \in 1 .. Len(G[k]) : fg[g[k - 1] + j] = G[k][j]
    BY <2>4 DEF EndsOf
  <2> HIDE DEF l, fg, fe
  <2>7. Len(fe) = Len(fg) + Len(x) /\ Len(fg) \in Nat /\ Len(x) \in Nat
        /\ (\A i \in 1 .. Len(fg) : fe[i] = fg[i]) /\ (\A j \in 1 .. Len(x) : fe[Len(fg) + j] = x[j])
    BY <2>5
  <2> DEFINE e == [k \in 0 .. l + 1 |-> IF k = l + 1 THEN Len(fe) ELSE g[k]]
  <2>8. e \in [0 .. l + 1 -> Nat] /\ e[0] = 0 /\ e[l + 1] = Len(fe) /\ \A k \in 0 .. l : e[k] = g[k]
    BY <2>2, <2>6, <2>7
  <2> HIDE DEF e
  <2>9. ASSUME NEW i \in 1 .. l PROVE g[i] <= Len(fg)
    <3> DEFINE U == {d \in 0 .. l : g[l - d] > Len(fg)}
    <3>1. CASE U = {}
      <4>1. l - i \in 0 .. l /\ l - (l - i) = i /\ g[i] \in Nat
        BY <2>2, <2>6, <2>9
      <4>2. ~(g[l - (l - i)] > Len(fg))
        BY <3>1, <4>1
      <4> QED
        BY <2>7, <4>1, <4>2
    <3>2. CASE U # {}
      <4>0. U \subseteq Nat
        BY <2>2
      <4>1. PICK d \in U : \A c \in U : d <= c
        BY <3>2, <4>0, Least
      <4>2. d \in 0 .. l /\ d # 0 /\ l - 0 = l
        BY <2>2, <2>6, <2>7, <4>1
      <4>8. d - 1 \in 0 .. l /\ ~(d <= d - 1) /\ l - (d - 1) = (l - d) + 1
        BY <2>2, <4>2
      <4>3. ~(g[(l - d) + 1] > Len(fg))
        BY <4>1, <4>8, Zenon
      <4>4. l - d + 1 \in 1 .. l /\ (l - d + 1) - 1 = l - d /\ l - d \in 0 .. l
        BY <2>2, <4>2
      <4>5. Len(G[l - d + 1]) \in Nat /\ g[l - d] \in Nat
        <5>1. G[l - d + 1] \in Seq(S)
          BY <2>2, <4>4
        <5> QED
          BY <2>6, <4>4, <5>1
      <4>6. g[l - d + 1] = g[l - d] + Len(G[l - d + 1])
        BY <2>6, <4>4
      <4>7. ~(g[l - d + 1] > Len(fg)) /\ g[l - d] > Len(fg)
        BY <4>1, <4>3
      <4> QED
        BY <2>7, <4>5, <4>6, <4>7, SMTT(30)
    <3> QED
      BY <3>1, <3>2
  <2>10. ASSUME NEW k \in 1 .. l + 1
         PROVE  /\ e[k] = e[k - 1] + Len(E[k])
                /\ \A j \in 1 .. Len(E[k]) : fe[e[k - 1] + j] = E[k][j]
    <3>1. CASE k = l + 1
      <4>1. k - 1 = l /\ l \in 0 .. l
        BY <2>2, <3>1
      <4>2. e[k] = Len(fe) /\ e[k - 1] = Len(fg) /\ E[k] = x
        BY <2>2, <2>6, <2>8, <3>1, <4>1
      <4> QED
        BY <2>7, <4>2
    <3>2. CASE k # l + 1
      <4>1. k \in 1 .. l /\ k \in 0 .. l /\ k - 1 \in 0 .. l
        BY <2>2, <2>10, <3>2
      <4>2. e[k] = g[k] /\ e[k - 1] = g[k - 1] /\ E[k] = G[k] /\ g[k - 1] \in Nat /\ Len(G[k]) \in Nat
        <5>1. e[k] = g[k] /\ e[k - 1] = g[k - 1] /\ g[k - 1] \in Nat
          BY <2>6, <2>8, <4>1
        <5>2. E[k] = G[k] /\ G[k] \in Seq(S)
          BY <2>2, <4>1
        <5> QED
          BY <5>1, <5>2
      <4>3. g[k] = g[k - 1] + Len(G[k]) /\ g[k] <= Len(fg)
        BY <2>6, <2>9, <4>1
      <4>4. ASSUME NEW j \in 1 .. Len(G[k]) PROVE fe[g[k - 1] + j] = G[k][j]
        <5>3. g[k - 1] \in Nat /\ Len(G[k]) \in Nat /\ g[k - 1] + Len(G[k]) <= Len(fg)
          BY <4>2, <4>3
        <5> DEFINE u == Len(G[k])
                   v == g[k - 1]
        <5>4. v \in Nat /\ u \in Nat /\ v + u <= Len(fg) /\ j \in 1 .. u
          BY <4>4, <5>3
        <5> HIDE DEF u, v
        <5>5. v + j \in 1 .. Len(fg)
          BY <2>7, <5>4
        <5>1. g[k - 1] + j \in 1 .. Len(fg)
          BY <5>5 DEF v
        <5>2. fg[g[k - 1] + j] = G[k][j]
          BY <2>6, <4>1, <4>4
        <5> QED
          BY <2>7, <5>1, <5>2
      <4> QED
        BY <4>2, <4>3, <4>4
    <3> QED
      BY <3>1, <3>2
  <2>11. EndsOf(e, E)
    BY <2>2, <2>8, <2>10 DEF EndsOf, fe
  <2> QED
    BY <1>2, <2>11
<1> QED
  BY <1>3, <1>4

=============================================================================
