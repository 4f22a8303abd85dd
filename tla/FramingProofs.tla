--------------------------- MODULE FramingProofs ---------------------------
(***************************************************************************)
(* Proofs about modules Resp and Framing: what ParseResp makes of the      *)
(* beginning of a command, for commands of any length, and what the two    *)
(* readers that parse their buffer after every line make of a stream of    *)
(* them.                                                                   *)
(***************************************************************************)
EXTENDS Framing, BytesProofs

(***************************************************************************)
(* Lines.                                                                  *)
(***************************************************************************)
\* Without a newline there is no line.
LEMMA NoLine ==
    ASSUME NEW f, NEW i \in Nat, \A j \in i .. Len(f) : f[j] # LF
    PROVE  readLine(f, i) = Err("EOF")
BY DEF readLine

\* The line that ends in the first newline from i on.
LEMMA LineIs ==
    ASSUME NEW f, NEW i \in Nat, Len(f) \in Nat, NEW j \in i .. Len(f),
           f[j] = LF, \A k \in i .. j - 1 : f[k] # LF
    PROVE  /\ j - i < 2 \/ f[j - 1] # CR => readLine(f, i) = Err("invalid input")
           /\ j - i >= 2 /\ f[j - 1] = CR => readLine(f, i) = Got(0, SubSeq(f, i, j - 2), j + 1)
<1> DEFINE ends == {k \in i .. Len(f) : f[k] = LF}
           m == CHOOSE x \in ends : \A y \in ends : x <= y
<1>1. j \in ends /\ \A y \in ends : j <= y
  OBVIOUS
<1>2. \A x \in ends : (\A y \in ends : x <= y) => x = j
  BY <1>1
<1>3. m \in ends /\ \A y \in ends : m <= y
  BY <1>1
<1>4. m = j
  BY <1>2, <1>3
<1>5. readLine(f, i) =
        IF ends = {} THEN Err("EOF")
        ELSE IF m - i < 2 \/ f[m - 1] # CR THEN Err("invalid input")
        ELSE Got(0, SubSeq(f, i, m - 2), m + 1)
  BY DEF readLine
<1>6. ends # {}
  BY <1>1
<1> HIDE DEF ends, m
<1>7. readLine(f, i) = IF j - i < 2 \/ f[j - 1] # CR THEN Err("invalid input")
                      ELSE Got(0, SubSeq(f, i, j - 2), j + 1)
  BY <1>4, <1>5, <1>6, Zenon
<1>8. j - i >= 2 <=> ~(j - i < 2)
  OBVIOUS
<1> QED
  BY <1>7, <1>8, Zenon

\* A line that can be read ends behind the place where it begins.
LEMMA LineAhead ==
    ASSUME NEW f, NEW i \in Nat, Len(f) \in Nat, readLine(f, i).err = "none"
    PROVE  readLine(f, i).at \in Nat /\ readLine(f, i).at > i
<1>1. CASE \A j \in i .. Len(f) : f[j] # LF
  BY <1>1, NoLine DEF Err
<1>2. CASE ~\A j \in i .. Len(f) : f[j] # LF
  <2> DEFINE T == {j \in i .. Len(f) : f[j] = LF}
  <2>1. T # {} /\ T \subseteq Nat
    BY <1>2
  <2>2. PICK j \in T : \A k \in T : j <= k
    BY <2>1, Least
  <2>3. j \in i .. Len(f) /\ f[j] = LF
    BY <2>2
  <2>4. \A k \in i .. j - 1 : f[k] # LF
    BY <2>2, <2>3
  <2>5. readLine(f, i) = Err("invalid input") \/ readLine(f, i) = Got(0, SubSeq(f, i, j - 2), j + 1)
    <3>1. (j - i < 2 \/ f[j - 1] # CR) \/ (j - i >= 2 /\ f[j - 1] = CR)
      BY <2>3
    <3>2. /\ j - i < 2 \/ f[j - 1] # CR => readLine(f, i) = Err("invalid input")
          /\ j - i >= 2 /\ f[j - 1] = CR => readLine(f, i) = Got(0, SubSeq(f, i, j - 2), j + 1)
      BY <2>3, <2>4, LineIs
    <3> QED
      BY <3>1, <3>2, Zenon
  <2>6. Err("invalid input").err # "none"
    BY DEF Err
  <2>7. Got(0, SubSeq(f, i, j - 2), j + 1).at = j + 1
    BY DEF Got
  <2>8. readLine(f, i).at = j + 1
    BY <2>5, <2>6, <2>7, Zenon
  <2> QED
    BY <2>3, <2>8
<1> QED
  BY <1>1, <1>2

\* The length in a header: what writeLen writes, parseLen reads.
LEMMA LengthRead ==
    ASSUME NEW n \in Nat, NEW t \in Byte
    PROVE  parseLen(<<t>> \o Decimal[n]) = n
<1> DEFINE d == Decimal[n]
           line == <<t>> \o d
<1>1. d \in Seq(48 .. 57) /\ Len(d) \in Nat \ {0} /\ Number(d) = n
  BY DecimalType, NumberOfDecimal
<1> HIDE DEF d
<1>2. Tail(line) = d
  <2>1. d \in Seq(Byte)
    <3>1. 48 .. 57 \subseteq Byte
      BY ByteFacts
    <3> QED
      BY <1>1, <3>1, SeqMonotonic
  <2>2. line \in Seq(Byte) /\ line # <<>> /\ Len(line) = Len(d) + 1 /\ \A i \in 1 .. Len(d) : line[i + 1] = d[i]
    BY <2>1
  <2> HIDE DEF line
  <2>3. Tail(line) \in Seq(Byte) /\ Len(Tail(line)) = Len(d) /\ \A i \in 1 .. Len(d) : Tail(line)[i] = d[i]
    BY <1>1, <2>2, HeadTailProperties
  <2> QED
    BY <2>1, <2>3, SeqEqual
<1>3. d # <<>> /\ d[1] \in 48 .. 57 /\ Range(d) \subseteq 48 .. 57
  BY <1>1, RangeOfSeq
<1>4. ~(d # <<>> /\ d[1] \in {43, 45})
  BY <1>3
<1> HIDE DEF line
<1>6. ~(\E x \in Range(d) : x \notin 48 .. 57) /\ ~(Number(d) < -1)
  BY <1>1, <1>3
<1>5. parseLen(line) = Number(d)
  BY <1>2, <1>3, <1>4, <1>6, Zenon DEF parseLen
<1> QED
  BY <1>1, <1>5 DEF line, d

\* A header: a type byte, a length and a line end.
Header(t, n) == <<t>> \o writeLen(n)

\* Its bytes.
LEMMA HeaderBytes ==
    ASSUME NEW n \in Nat, NEW t \in Byte, t # LF
    PROVE  /\ Header(t, n) \in Seq(Byte) /\ Len(Header(t, n)) = Len(Decimal[n]) + 3
           /\ Len(Decimal[n]) \in Nat \ {0}
           /\ Header(t, n)[1] = t /\ Header(t, n)[Len(Decimal[n]) + 3] = LF
           /\ Header(t, n)[Len(Decimal[n]) + 2] = CR
           /\ \A j \in 1 .. Len(Decimal[n]) + 2 : Header(t, n)[j] # LF
           /\ <<t>> \o Decimal[n] \in Seq(Byte) /\ Len(<<t>> \o Decimal[n]) = Len(Decimal[n]) + 1
           /\ \A j \in 1 .. Len(Decimal[n]) + 1 : (<<t>> \o Decimal[n])[j] = Header(t, n)[j]
<1> DEFINE d == Decimal[n]
<1>1. d \in Seq(48 .. 57) /\ Len(d) \in Nat \ {0}
  BY DecimalType
<1>2. d \in Seq(Byte) /\ \A j \in 1 .. Len(d) : d[j] \in 48 .. 57
  <2>1. 48 .. 57 \subseteq Byte
    BY ByteFacts
  <2> QED
    BY <1>1, <2>1, SeqMonotonic
<1>3. Header(t, n) = <<t>> \o (d \o <<13, 10>>)
  BY DEF Header, writeLen, CLRF, CR, LF
<1> HIDE DEF d
<1> DEFINE e == d \o <<13, 10>>
<1>4. /\ e \in Seq(Byte) /\ Len(e) = Len(d) + 2
      /\ \A j \in 1 .. Len(d) : e[j] = d[j]
      /\ e[Len(d) + 1] = 13 /\ e[Len(d) + 2] = 10
  BY <1>1, <1>2, ByteFacts
<1> HIDE DEF e
<1> DEFINE h == <<t>> \o e
<1>5. h \in Seq(Byte) /\ Len(h) = Len(e) + 1 /\ h[1] = t /\ \A j \in 1 .. Len(e) : h[j + 1] = e[j]
  BY <1>4
<1> HIDE DEF h
<1>6. Header(t, n) = h
  BY <1>3 DEF e, h
<1>7. \A j \in 2 .. Len(d) + 3 : h[j] = e[j - 1]
  BY <1>1, <1>4, <1>5
<1>8. h[Len(d) + 3] = 10 /\ h[Len(d) + 2] = 13
  BY <1>1, <1>4, <1>7
<1>9. \A j \in 1 .. Len(d) + 2 : h[j] # 10
  <2> SUFFICES ASSUME NEW j \in 1 .. Len(d) + 2 PROVE h[j] # 10
    OBVIOUS
  <2>1. CASE j = 1
    BY <1>5, <2>1 DEF LF
  <2>2. CASE j = Len(d) + 2
    BY <1>8, <2>2
  <2>3. CASE j # 1 /\ j # Len(d) + 2
    <3>1. j - 1 \in 1 .. Len(d) /\ j \in 2 .. Len(d) + 3
      BY <1>1, <2>3
    <3>2. h[j] = d[j - 1]
      BY <1>4, <1>7, <3>1
    <3>3. d[j - 1] \in 48 .. 57
      BY <1>2, <3>1
    <3> QED
      BY <3>2, <3>3
  <2> QED
    BY <2>1, <2>2, <2>3
<1> DEFINE l == <<t>> \o d
<1>10. l \in Seq(Byte) /\ Len(l) = Len(d) + 1 /\ l[1] = t /\ \A j \in 1 .. Len(d) : l[j + 1] = d[j]
  BY <1>1, <1>2
<1> HIDE DEF l
<1>11. \A j \in 1 .. Len(d) + 1 : l[j] = h[j]
  <2> SUFFICES ASSUME NEW j \in 1 .. Len(d) + 1 PROVE l[j] = h[j]
    OBVIOUS
  <2>1. CASE j = 1
    BY <1>5, <1>10, <2>1
  <2>2. CASE j # 1
    <3>1. j - 1 \in 1 .. Len(d) /\ (j - 1) + 1 = j
      BY <1>1, <2>2
    <3>2. l[j] = d[j - 1] /\ h[j] = e[j - 1] /\ e[j - 1] = d[j - 1]
      <4>2. j - 1 \in 1 .. Len(e)
        BY <1>1, <1>4, <3>1
      <4>1. l[(j - 1) + 1] = d[j - 1] /\ h[(j - 1) + 1] = e[j - 1] /\ e[j - 1] = d[j - 1]
        BY <1>4, <1>5, <1>10, <3>1, <4>2, Zenon
      <4> QED
        BY <3>1, <4>1
    <3> QED
      BY <3>2
  <2> QED
    BY <2>1, <2>2
<1>12. h \in Seq(Byte) /\ Len(h) = Len(d) + 3
  BY <1>1, <1>4, <1>5
<1> QED
  BY <1>1, <1>5, <1>6, <1>8, <1>9, <1>10, <1>11, <1>12 DEF l, d, LF, CR

\* What f holds from i on: s, as far as f goes.
Holds(f, i, s) == \A j \in 1 .. Len(s) : i + j - 1 <= Len(f) => f[i + j - 1] = s[j]

\* A header that is there is read as a line.
LEMMA HeaderRead ==
    ASSUME NEW f \in Seq(Byte), NEW i \in Nat \ {0}, NEW n \in Nat, NEW t \in Byte, t # LF,
           Holds(f, i, Header(t, n)), i + Len(Decimal[n]) + 2 <= Len(f)
    PROVE  readLine(f, i) = Got(0, <<t>> \o Decimal[n], i + Len(Decimal[n]) + 3)
<1> DEFINE h == Header(t, n)
           l == <<t>> \o Decimal[n]
           w == Len(Decimal[n])
           j == i + w + 2
<1>1. /\ h \in Seq(Byte) /\ Len(h) = w + 3 /\ w \in Nat \ {0}
      /\ h[w + 3] = LF /\ h[w + 2] = CR /\ (\A k \in 1 .. w + 2 : h[k] # LF)
      /\ l \in Seq(Byte) /\ Len(l) = w + 1 /\ \A k \in 1 .. w + 1 : l[k] = h[k]
  <2>1. h \in Seq(Byte) /\ Len(h) = w + 3 /\ w \in Nat \ {0} /\ h[w + 3] = LF /\ h[w + 2] = CR
    BY HeaderBytes
  <2>2. \A k \in 1 .. w + 2 : h[k] # LF
    BY HeaderBytes
  <2>3. l \in Seq(Byte) /\ Len(l) = w + 1
    BY HeaderBytes
  <2>4. \A k \in 1 .. w + 1 : l[k] = h[k]
    BY HeaderBytes
  <2> QED
    BY <2>1, <2>2, <2>3, <2>4
<1> HIDE DEF h, l, w
<1>2. \A k \in 1 .. w + 3 : i + k - 1 <= Len(f) /\ f[i + k - 1] = h[k]
  <2> SUFFICES ASSUME NEW k \in 1 .. w + 3 PROVE i + k - 1 <= Len(f) /\ f[i + k - 1] = h[k]
    OBVIOUS
  <2>1. i + k - 1 <= Len(f) /\ k \in 1 .. Len(h)
    BY <1>1 DEF w
  <2> QED
    BY <2>1 DEF Holds, h
<1>3. j \in i .. Len(f) /\ j \in Nat /\ Len(f) \in Nat /\ j - i >= 2
  BY <1>1 DEF w
<1>4. f[j] = LF /\ f[j - 1] = CR
  <2>1. w + 3 \in 1 .. w + 3 /\ w + 2 \in 1 .. w + 3 /\ i + (w + 3) - 1 = j /\ i + (w + 2) - 1 = j - 1
    BY <1>1
  <2>2. f[i + (w + 3) - 1] = h[w + 3] /\ f[i + (w + 2) - 1] = h[w + 2]
    BY <1>2, <2>1
  <2> QED
    BY <1>1, <2>1, <2>2
<1>5. \A k \in i .. j - 1 : f[k] # LF
  <2> SUFFICES ASSUME NEW k \in i .. j - 1 PROVE f[k] # LF
    OBVIOUS
  <2> DEFINE q == k - i + 1
  <2>1. q \in 1 .. w + 3 /\ q \in 1 .. w + 2 /\ i + q - 1 = k
    BY <1>1
  <2> HIDE DEF q
  <2>2. f[i + q - 1] = h[q] /\ h[q] # LF
    BY <1>1, <1>2, <2>1
  <2> QED
    BY <2>1, <2>2
<1>6. SubSeq(f, i, j - 2) = l
  <2> DEFINE s == SubSeq(f, i, j - 2)
  <2>1. \A k \in i .. j - 2 : f[k] \in Byte
    <3> SUFFICES ASSUME NEW k \in i .. j - 2 PROVE f[k] \in Byte
      OBVIOUS
    <3>1. k \in 1 .. Len(f)
      BY <1>3
    <3> QED
      BY <3>1, ElementOfSeq
  <2>2. s \in Seq(Byte) /\ Len(s) = w + 1 /\ \A k \in 1 .. w + 1 : s[k] = f[i + k - 1]
    <3>1. /\ s \in Seq(Byte)
          /\ Len(s) = IF i <= j - 2 THEN (j - 2) - i + 1 ELSE 0
          /\ \A k \in 1 .. (j - 2) - i + 1 : s[k] = f[i + k - 1]
      BY <1>3, <2>1, SubSeqProperties
    <3>2. (j - 2) - i + 1 = w + 1 /\ i <= j - 2
      BY <1>1
    <3> QED
      BY <3>1, <3>2
  <2> HIDE DEF s
  <2>3. \A k \in 1 .. w + 1 : s[k] = l[k]
    <3> SUFFICES ASSUME NEW k \in 1 .. w + 1 PROVE s[k] = l[k]
      OBVIOUS
    <3>1. k \in 1 .. w + 3
      BY <1>1
    <3> QED
      BY <1>1, <1>2, <2>2, <3>1
  <2>4. s = l
    BY <1>1, <2>2, <2>3, SeqEqual
  <2> QED
    BY <2>4 DEF s
<1>7. readLine(f, i) = Got(0, SubSeq(f, i, j - 2), j + 1)
  BY <1>3, <1>4, <1>5, LineIs
<1>8. j + 1 = i + w + 3
  BY <1>1
<1> QED
  BY <1>6, <1>7, <1>8 DEF l, w

\* A header that ends in a newline is all there.
LEMMA HeaderWhole ==
    ASSUME NEW f \in Seq(Byte), NEW i \in Nat \ {0}, NEW n \in Nat, NEW t \in Byte, t # LF,
           Holds(f, i, Header(t, n)), i <= Len(f), f[Len(f)] = LF
    PROVE  i + Len(Decimal[n]) + 2 <= Len(f)
<1> DEFINE h == Header(t, n)
           w == Len(Decimal[n])
           k == Len(f) - i + 1
<1>1. Len(h) = w + 3 /\ w \in Nat \ {0} /\ \A j \in 1 .. w + 2 : h[j] # LF
  BY HeaderBytes
<1> HIDE DEF h, w
<1> SUFFICES ASSUME ~(i + w + 2 <= Len(f)) PROVE FALSE
  BY DEF w
<1>2. k \in 1 .. w + 2 /\ k \in 1 .. w + 3 /\ i + k - 1 = Len(f)
  BY <1>1
<1> HIDE DEF k
<1>3. f[i + k - 1] = h[k]
  BY <1>1, <1>2 DEF Holds, h
<1> QED
  BY <1>1, <1>2, <1>3

(***************************************************************************)
(* Elements is what its recursive definition says: the elements at a       *)
(* position only depend on those further on.                               *)
(***************************************************************************)
\* A line that can be read: it has a type byte, and ends further on.
LEMMA LineType ==
    ASSUME NEW f \in Seq(Byte), NEW i \in Nat \ {0}, readLine(f, i).err = "none"
    PROVE  /\ readLine(f, i).at \in Nat \ {0} /\ readLine(f, i).at > i
           /\ readLine(f, i).data \in Seq(Byte) /\ readLine(f, i).data # <<>>
           /\ i <= Len(f) /\ readLine(f, i).data[1] = f[i]
           /\ \A k \in 1 .. Len(readLine(f, i).data) : readLine(f, i).data[k] = f[i + k - 1]
<1>0. Len(f) \in Nat
  OBVIOUS
<1>1. CASE \A j \in i .. Len(f) : f[j] # LF
  BY <1>1, NoLine DEF Err
<1>2. CASE ~\A j \in i .. Len(f) : f[j] # LF
  <2> DEFINE T == {j \in i .. Len(f) : f[j] = LF}
  <2>1. T # {} /\ T \subseteq Nat
    BY <1>2
  <2>2. PICK j \in T : \A k \in T : j <= k
    BY <2>1, Least
  <2>3. j \in i .. Len(f) /\ f[j] = LF
    BY <2>2
  <2>4. \A k \in i .. j - 1 : f[k] # LF
    BY <2>2, <2>3
  <2>5. /\ j - i < 2 \/ f[j - 1] # CR => readLine(f, i) = Err("invalid input")
        /\ j - i >= 2 /\ f[j - 1] = CR => readLine(f, i) = Got(0, SubSeq(f, i, j - 2), j + 1)
    BY <1>0, <2>3, <2>4, LineIs
  <2>6. Err("invalid input").err # "none"
    BY DEF Err
  <2>7. j - i < 2 \/ j - i >= 2
    BY <2>3
  <2>8. j - i >= 2 /\ readLine(f, i) = Got(0, SubSeq(f, i, j - 2), j + 1)
    BY <2>5, <2>6, <2>7, Zenon
  <2> DEFINE s == SubSeq(f, i, j - 2)
  <2>9. readLine(f, i).at = j + 1 /\ readLine(f, i).data = s
    BY <2>8 DEF Got
  <2>10. \A k \in i .. j - 2 : f[k] \in Byte
    <3> SUFFICES ASSUME NEW k \in i .. j - 2 PROVE f[k] \in Byte
      OBVIOUS
    <3>1. k \in 1 .. Len(f)
      BY <1>0, <2>3
    <3> QED
      BY <3>1, ElementOfSeq
  <2>11. /\ s \in Seq(Byte)
         /\ Len(s) = IF i <= j - 2 THEN (j - 2) - i + 1 ELSE 0
         /\ \A k \in 1 .. (j - 2) - i + 1 : s[k] = f[i + k - 1]
    BY <2>3, <2>10, SubSeqProperties
  <2> HIDE DEF s
  <2>12. Len(s) >= 1 /\ s[1] = f[i]
    <3>1. 1 \in 1 .. (j - 2) - i + 1 /\ i + 1 - 1 = i /\ i <= j - 2
      BY <2>3, <2>8
    <3>2. s[1] = f[i + 1 - 1]
      BY <2>11, <3>1
    <3> QED
      BY <2>3, <2>11, <3>1, <3>2
  <2>13. s # <<>>
    BY <2>12
  <2>14. \A k \in 1 .. Len(s) : s[k] = f[i + k - 1]
    <3>1. Len(s) = (j - 2) - i + 1
      BY <2>3, <2>8, <2>11
    <3> QED
      BY <2>11, <3>1
  <2> QED
    BY <1>0, <2>3, <2>9, <2>11, <2>12, <2>13, <2>14
<1> QED
  BY <1>1, <1>2

\* A length is a number from -2 on.
LEMMA ParseLenType ==
    ASSUME NEW line \in Seq(Byte), line # <<>>
    PROVE  parseLen(line) \in Int /\ parseLen(line) >= -2
<1> DEFINE text == Tail(line)
           signed == text # <<>> /\ text[1] \in {43, 45}
           digits == IF signed THEN Tail(text) ELSE text
           n == IF signed /\ text[1] = 45 THEN 0 - Number(digits) ELSE Number(digits)
<1>1. text \in Seq(Byte)
  BY HeadTailProperties
<1>2. digits \in Seq(Byte)
  BY <1>1, HeadTailProperties
<1>3. digits \in Seq(Int)
  <2>1. Byte \subseteq Int
    BY ByteFacts
  <2> QED
    BY <1>2, <2>1, SeqMonotonic
<1>4. Number(digits) \in Int
  BY <1>3, NumberType, Zenon
<1>5. n \in Int
  BY <1>4
<1>6. parseLen(line) = IF digits = <<>> \/ (\E d \in Range(digits) : d \notin 48 .. 57) \/ n < -1 THEN -2
                       ELSE n
  BY DEF parseLen
<1> HIDE DEF n
<1>7. parseLen(line) = -2 \/ (parseLen(line) = n /\ ~(n < -1))
  BY <1>6, Zenon
<1> QED
  BY <1>5, <1>7

\* What neither a digit nor a sign follows has no length.
LEMMA NoLength ==
    ASSUME NEW line \in Seq(Byte), line # <<>>,
           Len(line) > 1 => line[2] \notin {43, 45} \cup 48 .. 57
    PROVE  parseLen(line) = -2
<1> DEFINE text == Tail(line)
<1>1. /\ text \in Seq(Byte) /\ Len(text) = Len(line) - 1 /\ Len(line) \in Nat
      /\ \A i \in 1 .. Len(text) : text[i] = line[i + 1]
  BY HeadTailProperties
<1>2. text # <<>> => text[1] = line[2] /\ Len(line) > 1 /\ 1 \in 1 .. Len(text)
  BY <1>1
<1> HIDE DEF text
<1>3. ~(text # <<>> /\ text[1] \in {43, 45})
  BY <1>2
<1>4. text = <<>> \/ \E d \in Range(text) : d \notin 48 .. 57
  <2> SUFFICES ASSUME text # <<>> PROVE \E d \in Range(text) : d \notin 48 .. 57
    OBVIOUS
  <2>1. text[1] \in Range(text)
    BY <1>1, <1>2 DEF Range
  <2> QED
    BY <1>2, <2>1
<1> QED
  BY <1>3, <1>4, Zenon DEF parseLen, text

\* A bulk string ends no earlier than its header.
LEMMA BulkAhead ==
    ASSUME NEW f \in Seq(Byte), NEW line, NEW at \in Nat,
           parseLen(line) \in Int, parseLen(line) >= -2, parseBulkString(f, line, at).err = "none"
    PROVE  parseBulkString(f, line, at).at \in Nat /\ parseBulkString(f, line, at).at >= at
<1> DEFINE n == parseLen(line)
           data == ReadFull(f, at, n)
           crlf == ReadFull(f, data.at, 2)
           r == parseBulkString(f, line, at)
<1>1. r = IF n = -2 THEN Err("invalid length")
          ELSE IF n = -1 THEN Got(0, <<>>, at)
          ELSE IF data.err # "none" THEN data
          ELSE IF crlf.err \notin {"none", "EOF"} THEN crlf
          ELSE Got(0, data.data, IF crlf.err = "EOF" THEN data.at ELSE crlf.at)
  BY DEF parseBulkString
<1>2. data.err = "none" => data.at = at + n
  BY DEF ReadFull, Got, Err
<1>3. crlf.err = "none" => crlf.at = data.at + 2
  BY DEF ReadFull, Got, Err
<1>4. /\ Got(0, <<>>, at).at = at /\ Err("invalid length").err # "none"
      /\ Got(0, data.data, IF crlf.err = "EOF" THEN data.at ELSE crlf.at).at
           = IF crlf.err = "EOF" THEN data.at ELSE crlf.at
  BY DEF Got, Err
<1>5. n \in Int /\ n >= -2 /\ r.err = "none"
  OBVIOUS
<1> HIDE DEF n, data, crlf, r
<1>6. n # -2
  BY <1>1, <1>4, <1>5, Zenon
<1>7. CASE n = -1
  <2>1. r.at = at
    BY <1>1, <1>4, <1>6, <1>7, Zenon
  <2> QED
    BY <2>1 DEF r
<1>8. CASE n # -1
  <2>1. data.err = "none" /\ crlf.err \in {"none", "EOF"}
    BY <1>1, <1>5, <1>6, <1>8
  <2>2. r.at = IF crlf.err = "EOF" THEN data.at ELSE crlf.at
    BY <1>1, <1>4, <1>6, <1>8, <2>1, Zenon
  <2>3. data.at = at + n /\ n \in Nat
    BY <1>2, <1>5, <1>6, <1>8, <2>1
  <2>4. r.at = at + n \/ r.at = at + n + 2
    BY <1>3, <2>1, <2>2, <2>3
  <2>5. r.at \in Nat /\ r.at >= at
    BY <2>3, <2>4
  <2> QED
    BY <2>5 DEF r
<1> QED
  BY <1>7, <1>8

\* What a reader returns.
IsResult(r) == r = [err |-> r.err, type |-> r.type, data |-> r.data, at |-> r.at]

\* An error.
LEMMA ErrIs == \A k : IsResult(Err(k)) /\ Err(k).err = k
BY DEF IsResult, Err

\* What was read.
LEMMA GotIs ==
    \A t, d, a : /\ IsResult(Got(t, d, a)) /\ Got(t, d, a).err = "none" /\ Got(t, d, a).type = t
                 /\ Got(t, d, a).data = d /\ Got(t, d, a).at = a
BY DEF IsResult, Got

\* A result with another type.
LEMMA Retyped ==
    ASSUME NEW r, NEW t, IsResult(r)
    PROVE  /\ IsResult([r EXCEPT !.type = t]) /\ [r EXCEPT !.type = t].err = r.err
           /\ [r EXCEPT !.type = t].type = t
           /\ [r EXCEPT !.type = t].data = r.data /\ [r EXCEPT !.type = t].at = r.at
<1> DEFINE q == [err |-> r.err, type |-> r.type, data |-> r.data, at |-> r.at]
<1>1. [q EXCEPT !.type = t] = [err |-> r.err, type |-> t, data |-> r.data, at |-> r.at]
  OBVIOUS
<1>2. r = q
  BY DEF IsResult
<1> HIDE DEF q
<1>3. [r EXCEPT !.type = t] = [err |-> r.err, type |-> t, data |-> r.data, at |-> r.at]
  BY <1>1, <1>2
<1> QED
  BY <1>3 DEF IsResult

\* Elements that end no earlier than they begin.
Forward(g) == \A i \in Nat \ {0} : \A n \in Int :
                /\ IsResult(g[i][n])
                /\ g[i][n].err = "none" => g[i][n].at \in Nat /\ g[i][n].at >= i

\* The value of a line that could be read.
ValueBody(f, g, line, type, n) ==
    IF type \in Bulk THEN parseBulkString(f, line.data, line.at)
    ELSE IF type \notin Arrays \cup {Map} THEN Err("unknown type")
    ELSE IF n = -2 THEN Err("invalid length")
    ELSE g[line.at][IF type = Map THEN 2 * n ELSE n]

\* Bulk strings and lines are results.
LEMMA LineResult ==
    /\ \A f, i : IsResult(readLine(f, i))
    /\ \A f, i, n : IsResult(ReadFull(f, i, n))
    /\ \A f, line, at : IsResult(parseBulkString(f, line, at))
<1>1. \A f, i : IsResult(readLine(f, i))
  BY ErrIs, GotIs DEF readLine
<1>2. \A f, i, n : IsResult(ReadFull(f, i, n))
  BY ErrIs, GotIs DEF ReadFull
<1>3. \A f, line, at : IsResult(parseBulkString(f, line, at))
  BY <1>2, ErrIs, GotIs DEF parseBulkString
<1> QED
  BY <1>1, <1>2, <1>3

\* The value at a position: a result, and if there is one, it ends further on
\* and its type is the byte at that position.
LEMMA ValueAhead ==
    ASSUME NEW f \in Seq(Byte), NEW i \in Nat \ {0}, NEW g, Forward(g)
    PROVE  /\ IsResult(Value(f, i, g))
           /\ Value(f, i, g).err = "none" =>
                /\ Value(f, i, g).at \in Nat \ {0} /\ Value(f, i, g).at > i
                /\ i <= Len(f) /\ Value(f, i, g).type = f[i]
<1> DEFINE line == readLine(f, i)
           type == line.data[1]
           n == parseLen(line.data)
           body == ValueBody(f, g, line, type, n)
           v == Value(f, i, g)
<1>1. v = IF line.err # "none" THEN line
          ELSE IF type \in Simple THEN Got(type, Tail(line.data), line.at)
          ELSE IF body.err = "none" /\ type = Map /\ SameKeys(body.data)
          THEN Err("incomplete input")
          ELSE [body EXCEPT !.type = type]
  BY DEF Value, ValueBody
<1>2. IsResult(line)
  BY LineResult
<1>3. line.err = "none" => /\ line.at \in Nat \ {0} /\ line.at > i /\ i <= Len(f) /\ type = f[i]
                           /\ line.data \in Seq(Byte) /\ line.data # <<>>
  BY LineType
<1>4. line.err = "none" => n \in Int /\ n >= -2
  BY <1>3, ParseLenType
<1>5. CASE line.err # "none"
  <2>1. v = line
    BY <1>1, <1>5, Zenon
  <2> QED
    BY <1>2, <1>5, <2>1
<1>6. CASE line.err = "none"
  <2>1. IsResult(body) /\ (body.err = "none" => body.at \in Nat /\ body.at >= line.at)
    <3>1. CASE type \in Bulk
      <4>1. body = parseBulkString(f, line.data, line.at)
        BY <3>1 DEF ValueBody
      <4> HIDE DEF body, line
      <4> QED
        BY <1>3, <1>4, <1>6, <4>1, LineResult, BulkAhead
    <3>2. CASE type \notin Bulk /\ (type \notin Arrays \cup {Map} \/ n = -2)
      <4>1. body = Err("unknown type") \/ body = Err("invalid length")
        BY <3>2 DEF ValueBody
      <4>2. Err("unknown type").err # "none" /\ Err("invalid length").err # "none"
        BY DEF Err
      <4> HIDE DEF body
      <4>3. IsResult(Err("unknown type")) /\ IsResult(Err("invalid length"))
        BY ErrIs, Zenon
      <4> QED
        BY <4>1, <4>2, <4>3, Zenon
    <3>3. CASE type \notin Bulk /\ ~(type \notin Arrays \cup {Map} \/ n = -2)
      <4> DEFINE k == IF type = Map THEN 2 * n ELSE n
      <4>1. body = g[line.at][k]
        BY <3>3 DEF ValueBody
      <4>2. k \in Int
        BY <1>4, <1>6
      <4>3. line.at \in Nat \ {0}
        BY <1>3, <1>6
      <4> HIDE DEF body, line, k
      <4> QED
        BY <4>1, <4>2, <4>3 DEF Forward
    <3> QED
      BY <3>1, <3>2, <3>3
  <2> HIDE DEF body, line, type, n
  <2>2. CASE type \in Simple
    <3>1. v = Got(type, Tail(line.data), line.at)
      BY <1>1, <1>6, <2>2, Zenon
    <3>2. IsResult(v) /\ v.type = type /\ v.at = line.at
      BY <3>1, GotIs
    <3> HIDE DEF v
    <3> QED
      BY <1>3, <1>6, <3>2 DEF v
  <2>3. CASE type \notin Simple /\ body.err = "none" /\ type = Map /\ SameKeys(body.data)
    <3>1. v = Err("incomplete input")
      BY <1>1, <1>6, <2>3, Zenon
    <3>2. IsResult(v) /\ v.err = "incomplete input"
      BY <3>1, ErrIs
    <3> HIDE DEF v
    <3> QED
      BY <3>2 DEF v
  <2>4. CASE type \notin Simple /\ ~(body.err = "none" /\ type = Map /\ SameKeys(body.data))
    <3>1. v = [body EXCEPT !.type = type]
      BY <1>1, <1>6, <2>4, Zenon
    <3> DEFINE w == [body EXCEPT !.type = type]
    <3>3. IsResult(w) /\ w.type = type /\ w.at = body.at /\ w.err = body.err
      BY <2>1, Retyped
    <3> HIDE DEF w
    <3>2. IsResult(v) /\ v.type = type /\ v.at = body.at /\ v.err = body.err
      BY <3>1, <3>3, Zenon DEF w
    <3> HIDE DEF v
    <3> QED
      BY <1>3, <1>6, <2>1, <3>2 DEF v
  <2> QED
    BY <2>2, <2>3, <2>4
<1> QED
  BY <1>5, <1>6

\* The body of Elements.
NextElements(f, g, i) == [n \in Int |->
    LET first == Value(f, i, g)
        rest == g[first.at][n - 1]
    IN  IF n <= 0 THEN Got(0, <<>>, i)
        ELSE IF first.err # "none" THEN first
        ELSE IF rest.err # "none" THEN rest
        ELSE Got(0, <<Element(first)>> \o rest.data, rest.at)]

\* It is a function like those it is made from.
LEMMA NextForward ==
    ASSUME NEW f \in Seq(Byte), NEW i \in Nat \ {0}, NEW g, Forward(g), NEW n \in Int
    PROVE  /\ IsResult(NextElements(f, g, i)[n])
           /\ NextElements(f, g, i)[n].err = "none" =>
                NextElements(f, g, i)[n].at \in Nat /\ NextElements(f, g, i)[n].at >= i
<1> DEFINE first == Value(f, i, g)
           rest == g[first.at][n - 1]
           all == Got(0, <<Element(first)>> \o rest.data, rest.at)
           none == Got(0, <<>>, i)
           r == NextElements(f, g, i)[n]
<1>1. r = IF n <= 0 THEN none
          ELSE IF first.err # "none" THEN first ELSE IF rest.err # "none" THEN rest ELSE all
  BY DEF NextElements
<1>2. IsResult(first) /\ (first.err = "none" => first.at \in Nat \ {0} /\ first.at > i)
  BY ValueAhead
<1>3. first.err = "none" => IsResult(rest) /\ (rest.err = "none" => rest.at \in Nat /\ rest.at >= first.at)
  <2>1. n - 1 \in Int
    OBVIOUS
  <2> HIDE DEF first
  <2> QED
    BY <1>2, <2>1 DEF Forward
<1>4. IsResult(none) /\ none.at = i /\ IsResult(all) /\ all.at = rest.at
  <2> HIDE DEF first, rest
  <2>1. IsResult(none) /\ none.at = i
    BY GotIs
  <2>2. IsResult(all) /\ all.at = rest.at
    BY GotIs
  <2> QED
    BY <2>1, <2>2
<1> HIDE DEF first, rest, all, none, r
<1>5. IsResult(r) /\ (r.err = "none" => r.at \in Nat /\ r.at >= i)
  <2>1. CASE n <= 0
    BY <1>1, <1>4, <2>1
  <2>2. CASE ~(n <= 0) /\ first.err # "none"
    BY <1>1, <1>2, <2>2
  <2>3. CASE ~(n <= 0) /\ first.err = "none" /\ rest.err # "none"
    BY <1>1, <1>2, <1>3, <2>3
  <2>4. CASE ~(n <= 0) /\ first.err = "none" /\ rest.err = "none"
    <3>1. r = all
      BY <1>1, <2>4, Zenon
    <3>2. r.at = rest.at /\ rest.at \in Nat /\ rest.at >= first.at
      BY <1>3, <1>4, <2>4, <3>1
    <3>3. first.at \in Nat /\ first.at > i
      BY <1>2, <2>4
    <3> QED
      BY <1>4, <3>1, <3>2, <3>3
  <2> QED
    BY <2>1, <2>2, <2>3, <2>4
<1> QED
  BY <1>5 DEF r

\* It only looks further on.
LEMMA NextSame ==
    ASSUME NEW f \in Seq(Byte), NEW i \in Nat \ {0}, NEW g, NEW h, Forward(g),
           \A j \in Nat \ {0} : j > i => g[j] = h[j]
    PROVE  NextElements(f, g, i) = NextElements(f, h, i)
<1>1. Value(f, i, g) = Value(f, i, h)
  <2> DEFINE line == readLine(f, i)
             type == line.data[1]
             n == parseLen(line.data)
             body(x) == ValueBody(f, x, line, type, n)
             val(b) == IF line.err # "none" THEN line
                       ELSE IF type \in Simple THEN Got(type, Tail(line.data), line.at)
                       ELSE IF b.err = "none" /\ type = Map /\ SameKeys(b.data)
                       THEN Err("incomplete input")
                       ELSE [b EXCEPT !.type = type]
  <2>1. Value(f, i, g) = val(body(g)) /\ Value(f, i, h) = val(body(h))
    BY DEF Value, ValueBody
  <2>2. CASE line.err # "none"
    <3> HIDE DEF line
    <3>1. \A b : val(b) = line
      BY <2>2
    <3> HIDE DEF val
    <3> QED
      BY <2>1, <3>1
  <2>3. CASE line.err = "none"
    <3>1. line.at \in Nat \ {0} /\ line.at > i
      BY <2>3, LineType
    <3>2. g[line.at] = h[line.at]
      BY <3>1
    <3> HIDE DEF line, type, n
    <3>3. body(g) = body(h)
      BY <3>2 DEF ValueBody
    <3> HIDE DEF body, val
    <3> QED
      BY <2>1, <3>3
  <2> QED
    BY <2>2, <2>3
<1> DEFINE first == Value(f, i, g)
           res(x, n) == IF n <= 0 THEN Got(0, <<>>, i)
                        ELSE IF first.err # "none" THEN first
                        ELSE IF x[first.at][n - 1].err # "none" THEN x[first.at][n - 1]
                        ELSE Got(0, <<Element(first)>> \o x[first.at][n - 1].data, x[first.at][n - 1].at)
<1>2. /\ NextElements(f, g, i) = [n \in Int |-> res(g, n)]
      /\ NextElements(f, h, i) = [n \in Int |-> res(h, n)]
  BY <1>1 DEF NextElements
<1>3. first.err = "none" => first.at \in Nat \ {0} /\ first.at > i
  BY ValueAhead
<1> HIDE DEF first
<1>4. first.err = "none" => g[first.at] = h[first.at]
  BY <1>3
<1>5. \A n \in Int : res(g, n) = res(h, n)
  BY <1>4
<1> HIDE DEF res
<1> QED
  BY <1>2, <1>5

\* Behind the end there is nothing.
LEMMA NextBeyond ==
    ASSUME NEW f \in Seq(Byte), NEW j \in Nat \ {0}, j >= Len(f) + 1, NEW g
    PROVE  NextElements(f, g, j) = [n \in Int |-> IF n <= 0 THEN Got(0, <<>>, j) ELSE Err("EOF")]
<1>1. \A k \in j .. Len(f) : f[k] # LF
  OBVIOUS
<1>2. readLine(f, j) = Err("EOF")
  BY <1>1, NoLine
<1>3. Value(f, j, g) = Err("EOF") /\ Err("EOF").err # "none"
  BY <1>2 DEF Value, Err
<1> QED
  BY <1>3 DEF NextElements

\* A function that satisfies the body from position i on.
ElementsFrom(f, g, i) ==
    /\ Forward(g) /\ g = [j \in Nat \ {0} |-> g[j]]
    /\ \A j \in Nat \ {0} : j >= i => g[j] = NextElements(f, g, j)

\* Such a function exists.
LEMMA ElementsExist ==
    ASSUME NEW f \in Seq(Byte)
    PROVE  \A d \in 0 .. Len(f) : \E g : ElementsFrom(f, g, Len(f) + 1 - d)
<1> DEFINE T == {d \in 0 .. Len(f) : ~\E g : ElementsFrom(f, g, Len(f) + 1 - d)}
<1> SUFFICES ASSUME T # {} PROVE FALSE
  OBVIOUS
<1>0. T \subseteq Nat /\ Len(f) \in Nat
  OBVIOUS
<1>1. PICK d \in T : \A e \in T : d <= e
  BY <1>0, Least
<1>2. d \in 0 .. Len(f) /\ d \in Nat
  BY <1>0, <1>1
<1>3. CASE d = 0
  <2> DEFINE g == [i \in Nat \ {0} |-> [n \in Int |-> IF n <= 0 THEN Got(0, <<>>, i) ELSE Err("EOF")]]
  <2>0. \A i \in Nat \ {0} : \A n \in Int : g[i][n] = IF n <= 0 THEN Got(0, <<>>, i) ELSE Err("EOF")
    OBVIOUS
  <2>9. \A i \in Nat \ {0} : g[i] = [n \in Int |-> IF n <= 0 THEN Got(0, <<>>, i) ELSE Err("EOF")]
    OBVIOUS
  <2>8. g = [j \in Nat \ {0} |-> g[j]]
    OBVIOUS
  <2> HIDE DEF g
  <2>1. Forward(g)
    <3> SUFFICES ASSUME NEW i \in Nat \ {0}, NEW n \in Int
                 PROVE  /\ IsResult(g[i][n])
                        /\ g[i][n].err = "none" => g[i][n].at \in Nat /\ g[i][n].at >= i
      BY DEF Forward
    <3>1. CASE n <= 0
      <4>1. g[i][n] = Got(0, <<>>, i)
        BY <2>0, <3>1
      <4>2. IsResult(g[i][n]) /\ g[i][n].at = i
        BY <4>1, GotIs
      <4> QED
        BY <4>2
    <3>2. CASE ~(n <= 0)
      <4>1. g[i][n] = Err("EOF")
        BY <2>0, <3>2
      <4>2. IsResult(g[i][n]) /\ g[i][n].err = "EOF"
        BY <4>1, ErrIs
      <4> QED
        BY <4>2
    <3> QED
      BY <3>1, <3>2
  <2>2. ASSUME NEW j \in Nat \ {0}, j >= Len(f) + 1 PROVE g[j] = NextElements(f, g, j)
    <3>1. NextElements(f, g, j) = [n \in Int |-> IF n <= 0 THEN Got(0, <<>>, j) ELSE Err("EOF")]
      BY <2>2, NextBeyond
    <3> QED
      BY <2>9, <3>1
  <2>3. ElementsFrom(f, g, Len(f) + 1 - 0)
    BY <1>0, <2>1, <2>2, <2>8 DEF ElementsFrom
  <2> QED
    BY <1>1, <1>3, <2>3
<1>4. CASE d # 0
  <2>1. d - 1 \in 0 .. Len(f) /\ ~(d <= d - 1)
    BY <1>0, <1>2, <1>4
  <2>2. PICK g : ElementsFrom(f, g, Len(f) + 1 - (d - 1))
    BY <1>1, <2>1, Zenon
  <2> DEFINE i == Len(f) + 1 - d
             new == NextElements(f, g, i)
             h == [j \in Nat \ {0} |-> IF j = i THEN new ELSE g[j]]
  <2>3. i \in Nat \ {0} /\ Len(f) + 1 - (d - 1) = i + 1
    BY <1>0, <1>2, <1>4
  <2>4. Forward(g) /\ \A j \in Nat \ {0} : j >= i + 1 => g[j] = NextElements(f, g, j)
    BY <2>2, <2>3 DEF ElementsFrom
  <2>5. h = [j \in Nat \ {0} |-> h[j]] /\ h[i] = new /\ \A j \in Nat \ {0} : j # i => h[j] = g[j]
    BY <2>3
  <2>6. \A n \in Int : /\ IsResult(new[n])
                       /\ new[n].err = "none" => new[n].at \in Nat /\ new[n].at >= i
    BY <2>3, <2>4, NextForward
  <2> HIDE DEF i, new, h
  <2>7. Forward(h)
    <3> SUFFICES ASSUME NEW j \in Nat \ {0}, NEW n \in Int
                 PROVE  /\ IsResult(h[j][n])
                        /\ h[j][n].err = "none" => h[j][n].at \in Nat /\ h[j][n].at >= j
      BY DEF Forward
    <3>1. CASE j = i
      BY <2>5, <2>6, <3>1
    <3>2. CASE j # i
      <4>1. h[j] = g[j]
        BY <2>5, <3>2
      <4>2. /\ IsResult(g[j][n])
            /\ g[j][n].err = "none" => g[j][n].at \in Nat /\ g[j][n].at >= j
        BY <2>4 DEF Forward
      <4> QED
        BY <4>1, <4>2
    <3> QED
      BY <3>1, <3>2
  <2>8. ASSUME NEW j \in Nat \ {0}, j >= i PROVE h[j] = NextElements(f, h, j)
    <3>1. \A k \in Nat \ {0} : k > j => g[k] = h[k]
      BY <2>3, <2>5, <2>8
    <3>2. NextElements(f, g, j) = NextElements(f, h, j)
      BY <2>4, <3>1, NextSame
    <3>3. CASE j = i
      BY <2>5, <3>2, <3>3 DEF new
    <3>4. CASE j # i
      <4>1. j >= i + 1
        BY <2>3, <2>8, <3>4
      <4> QED
        BY <2>4, <2>5, <3>2, <3>4, <4>1
    <3> QED
      BY <3>3, <3>4
  <2>9. ElementsFrom(f, h, i)
    BY <2>5, <2>7, <2>8 DEF ElementsFrom
  <2> QED
    BY <1>1, <2>9 DEF i
<1> QED
  BY <1>3, <1>4

\* Elements is such a function for the whole buffer.
LEMMA ElementsDef ==
    ASSUME NEW f \in Seq(Byte)
    PROVE  /\ Forward(Elements(f))
           /\ \A i \in Nat \ {0} : Elements(f)[i] = NextElements(f, Elements(f), i)
<1>1. Len(f) \in 0 .. Len(f) /\ Len(f) + 1 - Len(f) = 1 /\ Len(f) \in Nat
  OBVIOUS
<1>2. PICK g : ElementsFrom(f, g, 1)
  <2>1. \E g : ElementsFrom(f, g, Len(f) + 1 - Len(f))
    BY <1>1, ElementsExist
  <2> QED
    BY <1>1, <2>1
<1>3. /\ Forward(g) /\ g = [j \in Nat \ {0} |-> g[j]]
      /\ \A j \in Nat \ {0} : g[j] = NextElements(f, g, j)
  BY <1>2 DEF ElementsFrom
<1>4. g = [j \in Nat \ {0} |-> NextElements(f, g, j)]
  BY <1>3
<1> DEFINE e == Elements(f)
<1>5. e = [j \in Nat \ {0} |-> NextElements(f, e, j)]
  BY <1>4, Zenon DEF Elements, NextElements
<1> HIDE DEF e
<1>6. \A j \in Nat \ {0} : e[j] = NextElements(f, e, j)
  BY <1>5
<1>7. \A j \in Nat \ {0} : j >= Len(f) + 1 => e[j] = g[j]
  <2> SUFFICES ASSUME NEW j \in Nat \ {0}, j >= Len(f) + 1 PROVE e[j] = g[j]
    OBVIOUS
  <2> DEFINE end == [n \in Int |-> IF n <= 0 THEN Got(0, <<>>, j) ELSE Err("EOF")]
  <2>1. NextElements(f, g, j) = end
    BY NextBeyond
  <2>2. NextElements(f, e, j) = end
    BY NextBeyond
  <2> HIDE DEF end
  <2> QED
    BY <1>3, <1>6, <2>1, <2>2
<1>8. \A d \in 0 .. Len(f) : \A j \in Nat \ {0} : j >= Len(f) + 1 - d => e[j] = g[j]
  <2> DEFINE Bad(d) == \E j \in Nat \ {0} : j >= Len(f) + 1 - d /\ e[j] # g[j]
             T == {d \in 0 .. Len(f) : Bad(d)}
  <2> SUFFICES ASSUME T # {} PROVE FALSE
    OBVIOUS
  <2>0. T \subseteq Nat
    BY <1>1
  <2>1. PICK d \in T : \A x \in T : d <= x
    BY <2>0, Least
  <2>2. PICK j \in Nat \ {0} : j >= Len(f) + 1 - d /\ e[j] # g[j]
    BY <2>1
  <2>3. d \in 0 .. Len(f) /\ d # 0
    BY <1>1, <1>7, <2>1, <2>2
  <2>4. d - 1 \in 0 .. Len(f) /\ ~(d <= d - 1)
    BY <1>1, <2>3
  <2>5. ~Bad(d - 1)
    BY <2>1, <2>4, Zenon
  <2>6. \A k \in Nat \ {0} : k > j => k >= Len(f) + 1 - (d - 1)
    BY <1>1, <2>2, <2>3
  <2>7. \A k \in Nat \ {0} : k > j => g[k] = e[k]
    BY <2>5, <2>6
  <2>8. NextElements(f, g, j) = NextElements(f, e, j)
    BY <1>3, <2>7, NextSame
  <2> QED
    BY <1>3, <1>6, <2>2, <2>8
<1>9. \A j \in Nat \ {0} : j >= 1 /\ e[j] = g[j]
  BY <1>1, <1>8
<1>10. e = g
  BY <1>3, <1>5, <1>9
<1> QED
  BY <1>3, <1>6, <1>10 DEF e

(***************************************************************************)
(* The values of a command.                                                *)
(***************************************************************************)
\* A value as RAW writes it.
Item(v) == <<BulkString>> \o writeLen(Len(v)) \o v \o CLRF

\* The length of its header.
Head3(v) == Len(Decimal[Len(v)]) + 3

\* Its bytes.
LEMMA ItemBytes ==
    ASSUME NEW v \in Seq(Byte)
    PROVE  /\ Item(v) \in Seq(Byte) /\ Len(Item(v)) = Head3(v) + Len(v) + 2
           /\ Head3(v) \in Nat /\ Head3(v) >= 4
           /\ \A j \in 1 .. Head3(v) : Item(v)[j] = Header(BulkString, Len(v))[j]
           /\ \A j \in 1 .. Len(v) : Item(v)[Head3(v) + j] = v[j]
           /\ Item(v)[Head3(v) + Len(v) + 1] = CR /\ Item(v)[Head3(v) + Len(v) + 2] = LF
<1> DEFINE h == Header(BulkString, Len(v))
           l == Head3(v)
<1>1. h \in Seq(Byte) /\ Len(h) = l /\ l \in Nat /\ l >= 4
  <2>1. Len(v) \in Nat /\ BulkString \in Byte /\ BulkString # LF
    BY DEF BulkString, LF, Byte
  <2>2. h \in Seq(Byte) /\ Len(h) = Len(Decimal[Len(v)]) + 3 /\ Len(Decimal[Len(v)]) \in Nat \ {0}
    BY <2>1, HeaderBytes
  <2> QED
    BY <2>2 DEF Head3
<1>2. Item(v) = h \o v \o <<13, 10>>
  BY DEF Item, Header, CLRF, CR, LF
<1> HIDE DEF h, l
<1> DEFINE e == h \o v
<1>3. /\ e \in Seq(Byte) /\ Len(e) = l + Len(v) /\ Len(v) \in Nat
      /\ \A j \in 1 .. l : e[j] = h[j]
      /\ \A j \in 1 .. Len(v) : e[l + j] = v[j]
  <2>1. h \in Seq(Byte) /\ v \in Seq(Byte)
    BY <1>1
  <2>2. e \in Seq(Byte) /\ Len(e) = Len(h) + Len(v) /\ Len(v) \in Nat
    BY <2>1, Joined
  <2>3. \A j \in 1 .. Len(h) : e[j] = h[j]
    BY <2>1, Joined
  <2>4. \A j \in 1 .. Len(v) : e[Len(h) + j] = v[j]
    BY <2>1, Joined
  <2> QED
    BY <1>1, <2>2, <2>3, <2>4
<1> HIDE DEF e
<1> DEFINE s == e \o <<13, 10>>
<1>4. /\ s \in Seq(Byte) /\ Len(s) = Len(e) + 2
      /\ \A j \in 1 .. Len(e) : s[j] = e[j]
      /\ s[Len(e) + 1] = 13 /\ s[Len(e) + 2] = 10
  <2> DEFINE t == <<13, 10>>
  <2>1. e \in Seq(Byte) /\ t \in Seq(Byte)
    BY <1>3, ByteFacts
  <2>2. Len(t) = 2 /\ t[1] = 13 /\ t[2] = 10
    OBVIOUS
  <2> HIDE DEF t
  <2>3. s \in Seq(Byte) /\ Len(s) = Len(e) + Len(t)
    BY <2>1, Joined DEF t
  <2>4. \A j \in 1 .. Len(e) : s[j] = e[j]
    BY <2>1, Joined DEF t
  <2>5. \A j \in 1 .. Len(t) : s[Len(e) + j] = t[j]
    BY <2>1, Joined DEF t
  <2>6. 1 \in 1 .. Len(t) /\ 2 \in 1 .. Len(t)
    BY <2>2
  <2> QED
    BY <2>2, <2>3, <2>4, <2>5, <2>6
<1> HIDE DEF s
<1>5. Item(v) = s
  BY <1>2 DEF s, e
<1>6. \A j \in 1 .. l : j \in 1 .. Len(e)
  BY <1>1, <1>3
<1>7. \A j \in 1 .. Len(v) : l + j \in 1 .. Len(e)
  BY <1>1, <1>3
<1>8. \A j \in 1 .. l : s[j] = h[j]
  BY <1>3, <1>4, <1>6
<1>9. \A j \in 1 .. Len(v) : s[l + j] = v[j]
  BY <1>3, <1>4, <1>7
<1>10. Len(s) = l + Len(v) + 2 /\ s[l + Len(v) + 1] = 13 /\ s[l + Len(v) + 2] = 10
  BY <1>1, <1>3, <1>4
<1> QED
  BY <1>1, <1>4, <1>5, <1>8, <1>9, <1>10 DEF h, l, CR, LF

\* Reading the data of a value that is there.
LEMMA DataRead ==
    ASSUME NEW f \in Seq(Byte), NEW v \in Seq(Byte), NEW d \in Nat \ {0},
           Holds(f, d, v), d + Len(v) - 1 <= Len(f)
    PROVE  ReadFull(f, d, Len(v)) = Got(0, v, d + Len(v))
<1> DEFINE n == Len(v)
           s == SubSeq(f, d, d + n - 1)
<1>1. n \in Nat /\ Len(f) \in Nat
  OBVIOUS
<1>2. ReadFull(f, d, n) = Got(0, s, d + n)
  BY DEF ReadFull
<1>3. \A k \in d .. d + n - 1 : f[k] \in Byte
  <2> SUFFICES ASSUME NEW k \in d .. d + n - 1 PROVE f[k] \in Byte
    OBVIOUS
  <2>1. k \in 1 .. Len(f)
    BY <1>1
  <2> QED
    BY <2>1, ElementOfSeq
<1>4. /\ s \in Seq(Byte)
      /\ Len(s) = IF d <= d + n - 1 THEN (d + n - 1) - d + 1 ELSE 0
      /\ \A k \in 1 .. (d + n - 1) - d + 1 : s[k] = f[d + k - 1]
  <2>1. d + n - 1 \in Int /\ d \in Int
    BY <1>1
  <2> QED
    BY <1>3, <2>1, SubSeqProperties
<1> HIDE DEF s
<1>5. Len(s) = n /\ \A k \in 1 .. n : s[k] = f[d + k - 1]
  BY <1>1, <1>4
<1>6. \A k \in 1 .. n : s[k] = v[k]
  <2> SUFFICES ASSUME NEW k \in 1 .. n PROVE s[k] = v[k]
    OBVIOUS
  <2>1. d + k - 1 <= Len(f)
    BY <1>1
  <2>2. f[d + k - 1] = v[k]
    BY <2>1 DEF Holds
  <2> QED
    BY <1>5, <2>2
<1>7. s = v
  <2>1. Len(s) = Len(v) /\ \A k \in 1 .. Len(s) : s[k] = v[k]
    BY <1>5, <1>6
  <2> QED
    BY <1>4, <2>1, SeqEqual
<1> QED
  BY <1>2, <1>7

\* The result r of reading v at d, by how much of v and its line end is there.
BulkOf(f, v, d, r) ==
    /\ d + Len(v) - 1 > Len(f) /\ d > Len(f) => r = Err("EOF")
    /\ d + Len(v) - 1 > Len(f) /\ d <= Len(f) => r = Err("unexpected EOF")
    /\ d + Len(v) - 1 = Len(f) => r = Got(0, v, d + Len(v))
    /\ d + Len(v) + 1 <= Len(f) => r = Got(0, v, d + Len(v) + 2)

\* What a bulk string with the line of v's header makes of what is behind it.
LEMMA BulkCases ==
    ASSUME NEW f \in Seq(Byte), NEW v \in Seq(Byte), NEW d \in Nat \ {0}, NEW line,
           parseLen(line) = Len(v), Holds(f, d, v)
    PROVE  BulkOf(f, v, d, parseBulkString(f, line, d))
<1> DEFINE n == Len(v)
           m == Len(f)
           r == parseBulkString(f, line, d)
<1>0. n \in Nat /\ m \in Nat
  OBVIOUS
<1> DEFINE data == ReadFull(f, d, n)
           crlf == ReadFull(f, data.at, 2)
<1>1. r = IF n = -2 THEN Err("invalid length")
          ELSE IF n = -1 THEN Got(0, <<>>, d)
          ELSE IF data.err # "none" THEN data
          ELSE IF crlf.err \notin {"none", "EOF"} THEN crlf
          ELSE Got(0, data.data, IF crlf.err = "EOF" THEN data.at ELSE crlf.at)
  BY DEF parseBulkString
<1>2. n # -2 /\ n # -1
  BY <1>0
<1>3. r = IF data.err # "none" THEN data
          ELSE IF crlf.err \notin {"none", "EOF"} THEN crlf
          ELSE Got(0, data.data, IF crlf.err = "EOF" THEN data.at ELSE crlf.at)
  BY <1>1, <1>2, Zenon
<1>4. data = IF d + n - 1 <= m THEN Got(0, SubSeq(f, d, d + n - 1), d + n)
             ELSE IF d > m THEN Err("EOF") ELSE Err("unexpected EOF")
  BY DEF ReadFull
<1>5. Err("EOF").err # "none" /\ Err("unexpected EOF").err # "none" /\ Err("EOF").err = "EOF"
  BY DEF Err
<1>6. d + n - 1 <= m => data = Got(0, v, d + n)
  BY DataRead
<1>7. ASSUME d + n - 1 <= m PROVE data.err = "none" /\ data.data = v /\ data.at = d + n
  <2>1. data = Got(0, v, d + n)
    BY <1>6, <1>7
  <2> HIDE DEF data
  <2> QED
    BY <2>1, GotIs
<1>8. crlf = IF data.at + 2 - 1 <= m THEN Got(0, SubSeq(f, data.at, data.at + 2 - 1), data.at + 2)
             ELSE IF data.at > m THEN Err("EOF") ELSE Err("unexpected EOF")
  BY DEF ReadFull
<1> HIDE DEF data, crlf, n, m, r
<1>9. ASSUME d + n - 1 > m, d > m PROVE r = Err("EOF")
  <2>1. data = Err("EOF")
    BY <1>0, <1>4, <1>9
  <2> QED
    BY <1>3, <1>5, <2>1
<1>10. ASSUME d + n - 1 > m, d <= m PROVE r = Err("unexpected EOF")
  <2>2. ~(d + n - 1 <= m) /\ ~(d > m)
    BY <1>0, <1>10
  <2>1. data = Err("unexpected EOF")
    BY <1>4, <2>2, Zenon
  <2> QED
    BY <1>3, <1>5, <2>1
<1>11. ASSUME d + n - 1 = m PROVE r = Got(0, v, d + n)
  <2>1. data.err = "none" /\ data.data = v /\ data.at = d + n
    BY <1>0, <1>7, <1>11
  <2>2. ~((d + n) + 2 - 1 <= m) /\ d + n > m
    BY <1>0, <1>11
  <2>3. crlf = Err("EOF")
    BY <1>8, <2>1, <2>2
  <2> QED
    BY <1>3, <1>5, <2>1, <2>3
<1>12. ASSUME d + n + 1 <= m PROVE r = Got(0, v, d + n + 2)
  <2>1. data.err = "none" /\ data.data = v /\ data.at = d + n
    BY <1>0, <1>7, <1>12
  <2>2. (d + n) + 2 - 1 <= m
    BY <1>0, <1>12
  <2>3. crlf = Got(0, SubSeq(f, d + n, (d + n) + 2 - 1), (d + n) + 2)
    BY <1>8, <2>1, <2>2
  <2>4. crlf.err = "none" /\ crlf.at = d + n + 2
    BY <2>3, GotIs
  <2> QED
    BY <1>3, <2>1, <2>4
<1> QED
  BY <1>9, <1>10, <1>11, <1>12 DEF BulkOf, n, m, r

\* A value with a newline before its last byte, and one that ends in a newline
\* or is empty.
Broken(v) == \E j \in 1 .. Len(v) - 1 : v[j] = LF
Early(v) == v = <<>> \/ v[Len(v)] = LF

\* Where a buffer that ends in a newline can end: it has the header of the
\* value, and does not end between its last two bytes.
LEMMA ItemEnds ==
    ASSUME NEW f \in Seq(Byte), NEW i \in Nat \ {0}, NEW v \in Seq(Byte), i <= Len(f), f[Len(f)] = LF,
           Holds(f, i, Item(v)), NEW h \in Nat, h = Head3(v), NEW n \in Nat, n = Len(v),
           NEW m \in Nat, m = Len(f)
    PROVE  /\ Len(Item(v)) = h + n + 2 /\ h >= 4
           /\ i + h - 1 <= m /\ m # i + h + n
           /\ m = i + h + n - 1 => Early(v)
           /\ i + h - 1 < m /\ m < i + h + n - 1 => Broken(v)
           /\ Holds(f, i, Header(BulkString, n)) /\ Holds(f, i + h, v)
<1>1. /\ Len(Item(v)) = h + n + 2 /\ h >= 4
      /\ \A j \in 1 .. h : Item(v)[j] = Header(BulkString, n)[j]
      /\ \A j \in 1 .. n : Item(v)[h + j] = v[j]
      /\ Item(v)[h + n + 1] = CR
  <2>1. Len(Item(v)) = h + n + 2 /\ h >= 4 /\ Item(v)[h + n + 1] = CR
    BY ItemBytes
  <2>2. \A j \in 1 .. h : Item(v)[j] = Header(BulkString, n)[j]
    BY ItemBytes
  <2>3. \A j \in 1 .. n : Item(v)[h + j] = v[j]
    BY ItemBytes
  <2> QED
    BY <2>1, <2>2, <2>3
<1> DEFINE w == Item(v)
<1>2. \A j \in 1 .. h + n + 2 : i + j - 1 <= m => f[i + j - 1] = w[j]
  BY <1>1 DEF Holds
<1> HIDE DEF w
<1>3. BulkString \in Byte /\ BulkString # LF
  BY DEF BulkString, LF, Byte
<1>4. Len(Header(BulkString, n)) = h
  BY <1>1, <1>3, HeaderBytes DEF Head3
<1>5. Holds(f, i, Header(BulkString, n))
  <2> SUFFICES ASSUME NEW j \in 1 .. h, i + j - 1 <= m PROVE f[i + j - 1] = Header(BulkString, n)[j]
    BY <1>4 DEF Holds
  <2>1. j \in 1 .. h + n + 2
    BY <1>1
  <2> QED
    BY <1>1, <1>2, <2>1 DEF w
<1>6. Holds(f, i + h, v)
  <2> SUFFICES ASSUME NEW j \in 1 .. n, (i + h) + j - 1 <= m PROVE f[(i + h) + j - 1] = v[j]
    BY DEF Holds
  <2>1. h + j \in 1 .. h + n + 2 /\ i + (h + j) - 1 = (i + h) + j - 1
    OBVIOUS
  <2>2. f[i + (h + j) - 1] = w[h + j]
    BY <1>2, <2>1
  <2> QED
    BY <1>1, <2>1, <2>2 DEF w
<1>7. i + h - 1 <= m
  <2>1. i + Len(Decimal[n]) + 2 <= Len(f)
    BY <1>1, <1>3, <1>5, HeaderWhole
  <2>2. h = Len(Decimal[n]) + 3 /\ Len(Decimal[n]) \in Nat
    BY <1>1, DecimalType DEF Head3
  <2> QED
    BY <1>1, <2>1, <2>2
<1>8. m # i + h + n
  <2> SUFFICES ASSUME m = i + h + n PROVE FALSE
    OBVIOUS
  <2> DEFINE j == h + n + 1
  <2>1. j \in 1 .. h + n + 2 /\ i + j - 1 = m /\ i + j - 1 <= m
    OBVIOUS
  <2>4. w[j] = CR
    BY <1>1 DEF w
  <2> HIDE DEF j
  <2>3. f[i + j - 1] = w[j]
    BY <1>2, <2>1, Zenon
  <2>2. f[m] = CR
    BY <2>1, <2>3, <2>4
  <2> QED
    BY <2>2 DEF CR, LF
<1>9. ASSUME m = i + h + n - 1 PROVE Early(v)
  <2>1. CASE n = 0
    <3>1. v = <<>>
      BY <2>1, EmptySeq
    <3> QED
      BY <3>1 DEF Early
  <2>2. CASE n # 0
    <3>1. n \in 1 .. n /\ (i + h) + n - 1 = m
      BY <1>9, <2>2
    <3>3. f[(i + h) + n - 1] = v[n]
      BY <1>6, <3>1 DEF Holds
    <3>2. f[m] = v[n]
      BY <3>1, <3>3
    <3> QED
      BY <3>2 DEF Early
  <2> QED
    BY <2>1, <2>2
<1>10. ASSUME i + h - 1 < m, m < i + h + n - 1 PROVE Broken(v)
  <2> DEFINE j == m - (i + h) + 1
  <2>1. j \in 1 .. n - 1 /\ j \in 1 .. n /\ (i + h) + j - 1 = m
    BY <1>10, SMTT(30)
  <2> HIDE DEF j
  <2>3. f[(i + h) + j - 1] = v[j]
    BY <1>6, <2>1 DEF Holds
  <2>2. f[m] = v[j]
    BY <2>1, <2>3
  <2> QED
    BY <2>1, <2>2 DEF Broken
<1> QED
  BY <1>1, <1>5, <1>6, <1>7, <1>8, <1>9, <1>10

\* The result z of reading v with its header at i, when N bytes are there: all
\* of it, all but its line end, or less.
ItemOf(i, l, N, v, z) ==
    /\ i + l - 1 <= N => z.err = "none" /\ Element(z) = v /\ z.at = i + l
    /\ N < i + l - 1 => N <= i + l - 3
    /\ N = i + l - 3 => Early(v) /\ z.err = "none" /\ Element(z) = v /\ z.at = N + 1
    /\ N < i + l - 3 => z.err \in {"EOF", "unexpected EOF"} /\ (~Broken(v) => z.err = "EOF")

\* A bulk string is an element as it is.
LEMMA BulkElement == \A v : v.type = BulkString => Element(v) = v.data
BY DEF Element, Bulk, BulkString, Simple, SimpleString, Arrays, Array, Map

\* What ParseResp makes of a value.
LEMMA ItemRead ==
    ASSUME NEW f \in Seq(Byte), NEW i \in Nat \ {0}, NEW v \in Seq(Byte), i <= Len(f), f[Len(f)] = LF,
           Holds(f, i, Item(v)), NEW g
    PROVE  ItemOf(i, Len(Item(v)), Len(f), v, Value(f, i, g))
<1> DEFINE l == Len(Item(v))
           z == Value(f, i, g)
           h == Head3(v)
           n == Len(v)
           m == Len(f)
           line == readLine(f, i)
           body == parseBulkString(f, line.data, line.at)
<1>1. /\ m \in Nat /\ n \in Nat /\ h \in Nat /\ l = h + n + 2 /\ h >= 4
      /\ i + h - 1 <= m /\ m # i + h + n
      /\ m = i + h + n - 1 => Early(v)
      /\ i + h - 1 < m /\ m < i + h + n - 1 => Broken(v)
      /\ Holds(f, i, Header(BulkString, n)) /\ Holds(f, i + h, v)
  <2>3. h \in Nat
    BY ItemBytes
  <2>1. m \in Nat /\ n \in Nat /\ h \in Nat
    BY <2>3
  <2>2. /\ Len(Item(v)) = h + n + 2 /\ h >= 4
        /\ i + h - 1 <= m /\ m # i + h + n
        /\ m = i + h + n - 1 => Early(v)
        /\ i + h - 1 < m /\ m < i + h + n - 1 => Broken(v)
        /\ Holds(f, i, Header(BulkString, n)) /\ Holds(f, i + h, v)
    BY <2>1, ItemEnds, Zenon
  <2> QED
    BY <2>1, <2>2
<1>2. BulkString \in Byte /\ BulkString # LF
  BY DEF BulkString, LF, Byte
<1>3. h = Len(Decimal[n]) + 3 /\ Len(Decimal[n]) \in Nat
  BY <1>1, DecimalType DEF Head3
<1> DEFINE head == <<BulkString>> \o Decimal[n]
<1>4. line = Got(0, head, i + h)
  <2>1. i + Len(Decimal[n]) + 2 <= Len(f)
    BY <1>1, <1>3
  <2>2. readLine(f, i) = Got(0, <<BulkString>> \o Decimal[n], i + Len(Decimal[n]) + 3)
    BY <1>1, <1>2, <2>1, HeaderRead
  <2>3. i + Len(Decimal[n]) + 3 = i + h
    BY <1>1, <1>3
  <2> QED
    BY <2>2, <2>3
<1>5. parseLen(head) = n
  BY <1>1, <1>2, LengthRead DEF Byte
<1>6. head[1] = BulkString
  <2>1. Decimal[n] \in Seq(48 .. 57)
    BY <1>1, DecimalType
  <2> QED
    BY <2>1
<1> HIDE DEF head, h, m, n, l
<1>7. line.err = "none" /\ line.data = head /\ line.at = i + h
  BY <1>4, GotIs
<1>8. IsResult(body)
  BY LineResult
<1>9. z = [body EXCEPT !.type = BulkString]
  <2>1. BulkString \in Bulk /\ BulkString \notin Simple /\ BulkString # Map
    BY DEF BulkString, Bulk, Simple, SimpleString, Map
  <2>2. line.data[1] = BulkString
    BY <1>6, <1>7
  <2> HIDE DEF line
  <2>3. Value(f, i, g) = [body EXCEPT !.type = BulkString]
    BY <1>7, <2>1, <2>2, Zenon DEF Value, line
  <2> QED
    BY <2>3
<1>10. z.err = body.err /\ Element(z) = body.data /\ z.at = body.at
  <2> HIDE DEF body, z
  <2>1. z.err = body.err /\ z.type = BulkString /\ z.data = body.data /\ z.at = body.at
    BY <1>8, <1>9, Retyped
  <2> QED
    BY <2>1, BulkElement
<1>11. /\ (i + h) + n - 1 > m /\ i + h > m => body = Err("EOF")
       /\ (i + h) + n - 1 > m /\ i + h <= m => body = Err("unexpected EOF")
       /\ (i + h) + n - 1 = m => body = Got(0, v, (i + h) + n)
       /\ (i + h) + n + 1 <= m => body = Got(0, v, (i + h) + n + 2)
  <2>1. i + h \in Nat \ {0}
    BY <1>1
  <2>2. body = parseBulkString(f, head, i + h)
    BY <1>7
  <2> HIDE DEF body
  <2>3. Holds(f, i + h, v) /\ parseLen(head) = Len(v)
    BY <1>1, <1>5 DEF n
  <2>4. BulkOf(f, v, i + h, body)
    BY <2>1, <2>2, <2>3, BulkCases, Zenon
  <2> QED
    BY <2>4 DEF BulkOf, n, m
<1> HIDE DEF body, z
<1>12. ASSUME i + l - 1 <= m PROVE z.err = "none" /\ Element(z) = v /\ z.at = i + l
  <2>1. (i + h) + n + 1 <= m /\ (i + h) + n + 2 = i + l
    BY <1>1, <1>12
  <2>2. body = Got(0, v, i + l)
    BY <1>11, <2>1
  <2> QED
    BY <1>10, <2>2, GotIs
<1>13. ASSUME m < i + l - 1 PROVE m <= i + l - 3
  BY <1>1, <1>13
<1>14. ASSUME m = i + l - 3 PROVE Early(v) /\ z.err = "none" /\ Element(z) = v /\ z.at = m + 1
  <2>1. (i + h) + n - 1 = m /\ (i + h) + n = m + 1
    BY <1>1, <1>14
  <2>2. body = Got(0, v, m + 1)
    BY <1>11, <2>1
  <2>3. Early(v)
    BY <1>1, <2>1
  <2> QED
    BY <1>10, <2>2, <2>3, GotIs
<1>15. ASSUME m < i + l - 3 PROVE z.err \in {"EOF", "unexpected EOF"} /\ (~Broken(v) => z.err = "EOF")
  <2>1. (i + h) + n - 1 > m
    BY <1>1, <1>15
  <2>2. CASE i + h > m
    <3>1. body = Err("EOF")
      BY <1>11, <2>1, <2>2
    <3> QED
      BY <1>10, <3>1, ErrIs
  <2>3. CASE i + h <= m
    <3>1. body = Err("unexpected EOF")
      BY <1>11, <2>1, <2>3
    <3>2. Broken(v)
      BY <1>1, <2>1, <2>3
    <3> QED
      BY <1>10, <3>1, <3>2, ErrIs
  <2>4. i + h > m \/ i + h <= m
    BY <1>1
  <2> QED
    BY <2>2, <2>3, <2>4, Zenon
<1> QED
  BY <1>12, <1>13, <1>14, <1>15 DEF ItemOf, m, l, z

(***************************************************************************)
(* The values of a command.                                                *)
(***************************************************************************)
\* No values.
LEMMA ElementsNone ==
    ASSUME NEW f \in Seq(Byte), NEW i \in Nat \ {0}
    PROVE  Elements(f)[i][0] = Got(0, <<>>, i)
<1>1. Elements(f)[i] = NextElements(f, Elements(f), i)
  BY ElementsDef
<1>2. NextElements(f, Elements(f), i)[0] = Got(0, <<>>, i)
  BY DEF NextElements
<1> QED
  BY <1>1, <1>2

\* Values that begin behind the buffer.
LEMMA ElementsBeyond ==
    ASSUME NEW f \in Seq(Byte), NEW i \in Nat \ {0}, i > Len(f), NEW n \in Nat \ {0}
    PROVE  Elements(f)[i][n] = Err("EOF")
<1>1. Elements(f)[i] = NextElements(f, Elements(f), i)
  BY ElementsDef
<1>2. i >= Len(f) + 1 /\ n \in Int /\ ~(n <= 0)
  OBVIOUS
<1>3. Elements(f)[i] = [k \in Int |-> IF k <= 0 THEN Got(0, <<>>, i) ELSE Err("EOF")]
  BY <1>1, <1>2, NextBeyond
<1> QED
  BY <1>2, <1>3

\* The result r of reading several values, from those of the first and the
\* others.
StepOf(first, rest, r) ==
    /\ first.err # "none" => r = first
    /\ first.err = "none" /\ rest.err # "none" => r = rest
    /\ first.err = "none" /\ rest.err = "none" =>
         r = Got(0, <<Element(first)>> \o rest.data, rest.at)

\* A first value, and the others.
LEMMA ElementsStep ==
    ASSUME NEW f \in Seq(Byte), NEW i \in Nat \ {0}, NEW n \in Nat \ {0}
    PROVE  StepOf(ParseResp(f, i), Elements(f)[ParseResp(f, i).at][n - 1], Elements(f)[i][n])
<1> DEFINE first == ParseResp(f, i)
           rest == Elements(f)[first.at][n - 1]
<1>1. Elements(f)[i] = NextElements(f, Elements(f), i)
  BY ElementsDef
<1>2. n \in Int /\ ~(n <= 0)
  OBVIOUS
<1>3. first = Value(f, i, Elements(f))
  BY DEF ParseResp
<1>4. NextElements(f, Elements(f), i)[n] =
        IF n <= 0 THEN Got(0, <<>>, i)
        ELSE IF first.err # "none" THEN first
        ELSE IF rest.err # "none" THEN rest
        ELSE Got(0, <<Element(first)>> \o rest.data, rest.at)
  BY <1>2, <1>3 DEF NextElements
<1> QED
  BY <1>1, <1>2, <1>4, Zenon DEF StepOf

\* Where the values of a command are in its bytes: value k begins at a[k].
PlacesOf(a, c) ==
    /\ RAW(c) \in Seq(Byte) /\ a \in [1 .. Len(c) + 1 -> Nat \ {0}]
    /\ a[1] = Len(Header(Array, Len(c))) + 1 /\ a[Len(c) + 1] = Len(RAW(c)) + 1
    /\ \A j \in 1 .. Len(Header(Array, Len(c))) : RAW(c)[j] = Header(Array, Len(c))[j]
    /\ \A k \in 1 .. Len(c) :
         /\ a[k + 1] = a[k] + Len(Item(c[k]))
         /\ \A j \in 1 .. Len(Item(c[k])) : RAW(c)[a[k] + j - 1] = Item(c[k])[j]

\* The commands there are: no fewer than one value.
Lists == Seq(Seq(Byte)) \ {<<>>}

\* How RAW writes a bulk string.
LEMMA RawItem ==
    ASSUME NEW v \in Seq(Byte)
    PROVE  rawElement(v) = Item(v)
<1>1. ~IsTyped(v)
  <2>1. v # <<>> => v[1] \in Byte
    BY EmptySeq
  <2>2. Typed \notin Byte
    BY DEF Typed, Byte
  <2> QED
    BY <2>1, <2>2 DEF IsTyped
<1> QED
  BY <1>1, Zenon DEF rawElement, Item

\* The values of a command are bulk strings.
LEMMA RawIs ==
    ASSUME NEW c \in Lists
    PROVE  RAW(c) = Header(Array, Len(c)) \o FlattenSeq([i \in 1 .. Len(c) |-> Item(c[i])])
<1>1. DOMAIN c = 1 .. Len(c) /\ \A i \in 1 .. Len(c) : c[i] \in Seq(Byte)
  BY LenProperties, ElementOfSeq DEF Lists
<1>2. \A i \in 1 .. Len(c) : rawElement(c[i]) = Item(c[i])
  BY <1>1, RawItem
<1>3. [i \in DOMAIN c |-> rawElement(c[i])] = [i \in 1 .. Len(c) |-> Item(c[i])]
  BY <1>1, <1>2
<1> QED
  BY <1>3 DEF RAW, Header

\* There are such places.
LEMMA Places ==
    ASSUME NEW c \in Lists
    PROVE  \E a : PlacesOf(a, c)
<1>0. c \in Seq(Seq(Byte)) /\ Len(c) \in Nat /\ DOMAIN c = 1 .. Len(c)
      /\ \A k \in 1 .. Len(c) : c[k] \in Seq(Byte)
  BY LenProperties, ElementOfSeq DEF Lists
<1> DEFINE m == Len(c)
           h == Header(Array, m)
           E == [k \in 1 .. m |-> Item(c[k])]
           F == FlattenSeq(E)
<1>1. RAW(c) = h \o F
  BY RawIs
<1>2. h \in Seq(Byte) /\ Len(h) \in Nat
  <2>1. Array \in Byte /\ Array # LF
    BY DEF Array, Byte, LF
  <2>2. m \in Nat
    BY <1>0
  <2> HIDE DEF m
  <2>3. h \in Seq(Byte)
    BY <2>1, <2>2, HeaderBytes
  <2> HIDE DEF h
  <2> QED
    BY <2>3
<1>3. \A k \in 1 .. m : Item(c[k]) \in Seq(Byte)
  BY <1>0, ItemBytes
<1>4. E \in Seq(Seq(Byte)) /\ Len(E) = m /\ \A k \in 1 .. m : E[k] = Item(c[k])
  <2> DEFINE S == Seq(Byte)
  <2>1. \A k \in 1 .. m : E[k] \in S
    BY <1>3
  <2> HIDE DEF S
  <2>2. E \in [1 .. m -> S]
    BY <2>1
  <2>3. m \in Nat
    BY <1>0
  <2>4. \A k \in 1 .. m : E[k] = Item(c[k])
    OBVIOUS
  <2> HIDE DEF m, E
  <2>5. E \in Seq(S) /\ Len(E) = m
    BY <2>2, <2>3
  <2> QED
    BY <2>4, <2>5 DEF S
<1>5. F \in Seq(Byte)
  BY <1>4, FlatType
<1>6. PICK ends : EndsOf(ends, E)
  BY <1>4, FlatParts
<1>7. /\ ends \in [0 .. m -> Nat] /\ ends[0] = 0 /\ ends[m] = Len(F)
      /\ \A k \in 1 .. m : /\ ends[k] = ends[k - 1] + Len(E[k])
                           /\ \A j \in 1 .. Len(E[k]) : F[ends[k - 1] + j] = E[k][j]
  BY <1>4, <1>6 DEF EndsOf
<1> HIDE DEF m, h, E, F
<1>8. /\ RAW(c) \in Seq(Byte) /\ Len(RAW(c)) = Len(h) + Len(F)
      /\ \A j \in 1 .. Len(h) : RAW(c)[j] = h[j]
      /\ \A j \in 1 .. Len(F) : RAW(c)[Len(h) + j] = F[j]
  BY <1>1, <1>2, <1>5, Joined
<1> DEFINE a == [k \in 1 .. m + 1 |-> Len(h) + ends[k - 1] + 1]
<1>9. /\ a \in [1 .. m + 1 -> Nat \ {0}] /\ a[1] = Len(h) + 1 /\ a[m + 1] = Len(RAW(c)) + 1
      /\ \A k \in 1 .. m + 1 : a[k] = Len(h) + ends[k - 1] + 1
  BY <1>0, <1>2, <1>7, <1>8 DEF m
<1> HIDE DEF a
<1>10. ASSUME NEW k \in 1 .. m
       PROVE  /\ a[k + 1] = a[k] + Len(Item(c[k]))
              /\ \A j \in 1 .. Len(Item(c[k])) : RAW(c)[a[k] + j - 1] = Item(c[k])[j]
  <2>1. k \in 1 .. m + 1 /\ k + 1 \in 1 .. m + 1 /\ (k + 1) - 1 = k /\ k \in 0 .. m /\ k - 1 \in 0 .. m
    BY <1>0 DEF m
  <2>2. ends[k] \in Nat /\ ends[k - 1] \in Nat /\ Len(Item(c[k])) \in Nat
    BY <1>3, <1>7, <2>1
  <2>3. a[k + 1] = a[k] + Len(Item(c[k]))
    <3>1. a[k + 1] = Len(h) + ends[k] + 1 /\ a[k] = Len(h) + ends[k - 1] + 1
      BY <1>9, <2>1
    <3>2. ends[k] = ends[k - 1] + Len(Item(c[k]))
      BY <1>4, <1>7
    <3> QED
      BY <1>2, <2>2, <3>1, <3>2
  <2>4. ASSUME NEW j \in 1 .. Len(Item(c[k])) PROVE RAW(c)[a[k] + j - 1] = Item(c[k])[j]
    <3>1. F[ends[k - 1] + j] = Item(c[k])[j]
      BY <1>4, <1>7
    <3>2. ends[k] = ends[k - 1] + Len(Item(c[k])) /\ ends[k] <= Len(F)
      <4>1. ends[k] = ends[k - 1] + Len(Item(c[k]))
        BY <1>4, <1>7
      <4> DEFINE T == {d \in 0 .. m : ends[m - d] > Len(F)}
      <4>2. CASE T = {}
        <5>1. m - k \in 0 .. m /\ m - (m - k) = k
          BY <1>0, <2>1 DEF m
        <5>2. ~(ends[m - (m - k)] > Len(F))
          BY <4>2, <5>1
        <5> QED
          BY <1>5, <2>2, <4>1, <5>1, <5>2
      <4>3. CASE T # {}
        <5>0. T \subseteq Nat
          OBVIOUS
        <5>1. PICK d \in T : \A e \in T : d <= e
          BY <4>3, <5>0, Least
        <5>2. d # 0
          BY <1>0, <1>5, <1>7, <5>1 DEF m
        <5>3. d - 1 \in 0 .. m /\ ~(d <= d - 1) /\ d \in Nat
          BY <1>0, <5>2 DEF m
        <5>4. d - 1 \notin T
          BY <5>1, <5>3, Zenon
        <5> DEFINE p == m - d + 1
        <5>5. p \in 1 .. m /\ p - 1 = m - d /\ p = m - (d - 1) /\ p \in 0 .. m /\ p - 1 \in 0 .. m
          BY <1>0, <5>2, <5>3 DEF m
        <5> HIDE DEF p
        <5>6. ~(ends[p] > Len(F)) /\ ends[p - 1] > Len(F)
          BY <5>1, <5>3, <5>4, <5>5
        <5>7. ends[p] = ends[p - 1] + Len(E[p]) /\ ends[p] \in Nat /\ ends[p - 1] \in Nat /\ Len(E[p]) \in Nat
          BY <1>3, <1>4, <1>7, <5>5, SMTT(30)
        <5> QED
          BY <1>5, <5>6, <5>7
      <4> QED
        BY <4>1, <4>2, <4>3
    <3>3. ends[k - 1] + j \in 1 .. Len(F)
      BY <1>5, <2>2, <3>2
    <3>4. RAW(c)[Len(h) + (ends[k - 1] + j)] = F[ends[k - 1] + j]
      BY <1>8, <3>3
    <3>5. a[k] + j - 1 = Len(h) + (ends[k - 1] + j)
      BY <1>2, <1>9, <2>1, <2>2
    <3> QED
      BY <3>1, <3>4, <3>5
  <2> QED
    BY <2>3, <2>4
<1>11. PlacesOf(a, c)
  BY <1>8, <1>9, <1>10 DEF PlacesOf, m, h
<1> QED
  BY <1>11

\* How many bytes of a command complete it for a reader: those of a command
\* that ends early without its last line end.
Early2(c) == IF Early(c[Len(c)]) THEN 2 ELSE 0
Complete(c) == Len(RAW(c)) - Early2(c)

\* No value of the command has a newline before its last byte.
PlainList(c) == \A k \in 1 .. Len(c) : ~Broken(c[k])

\* What the values from k on are read as, by whether the command is complete.
ReadFrom(f, c, a, k) ==
    /\ Len(f) >= Complete(c) =>
         /\ Elements(f)[a[k]][Len(c) + 1 - k].err = "none"
         /\ Elements(f)[a[k]][Len(c) + 1 - k].data = SubSeq(c, k, Len(c))
    /\ k <= Len(c) /\ Len(f) < Complete(c) =>
         /\ Elements(f)[a[k]][Len(c) + 1 - k].err \in {"EOF", "unexpected EOF"}
         /\ PlainList(c) => Elements(f)[a[k]][Len(c) + 1 - k].err = "EOF"
    /\ k <= Len(c) => a[k] + 6 <= a[Len(c) + 1]

\* One value more.
LEMMA ReadStep ==
    ASSUME NEW c \in Lists, NEW a, PlacesOf(a, c), NEW f \in Seq(Byte), f # <<>>, f[Len(f)] = LF,
           Holds(f, 1, RAW(c)), NEW k \in 1 .. Len(c), ReadFrom(f, c, a, k + 1)
    PROVE  ReadFrom(f, c, a, k)
<1> DEFINE m == Len(c)
           N == Len(f)
           L == Len(RAW(c))
           D == Complete(c)
           i == a[k]
           v == c[k]
           l == Len(Item(v))
           q == m + 1 - k
           first == ParseResp(f, i)
           rest == Elements(f)[first.at][q - 1]
           r == Elements(f)[i][q]
           s == Elements(f)[a[k + 1]][Len(c) + 1 - (k + 1)]
<1>0. c \in Seq(Seq(Byte)) /\ m \in Nat \ {0} /\ v \in Seq(Byte) /\ N \in Nat \ {0}
  <2>1. c \in Seq(Seq(Byte))
    BY DEF Lists
  <2>2. m \in Nat \ {0}
    BY <2>1, LenProperties
  <2>3. v \in Seq(Byte)
    BY <2>1, ElementOfSeq
  <2>4. N \in Nat \ {0}
    BY EmptySeq
  <2> QED
    BY <2>1, <2>2, <2>3, <2>4
<1>a. m \in Nat \ {0} /\ N \in Nat \ {0} /\ k \in 1 .. m
  BY <1>0
<1>b. /\ a \in [1 .. m + 1 -> Nat \ {0}] /\ a[m + 1] = L + 1 /\ RAW(c) \in Seq(Byte)
      /\ \A p \in 1 .. m :
           /\ a[p + 1] = a[p] + Len(Item(c[p]))
           /\ \A j \in 1 .. Len(Item(c[p])) : RAW(c)[a[p] + j - 1] = Item(c[p])[j]
  BY DEF PlacesOf
<1>1. /\ RAW(c) \in Seq(Byte) /\ a[m + 1] = L + 1 /\ i \in Nat \ {0} /\ a[k + 1] = i + l
      /\ \A j \in 1 .. l : RAW(c)[i + j - 1] = Item(v)[j]
  <2>1. k \in 1 .. m + 1
    BY <1>a
  <2>2. i \in Nat \ {0}
    BY <1>b, <2>1
  <2> QED
    BY <1>a, <1>b, <2>2
<1>c. i \in Nat \ {0} /\ a[m + 1] = L + 1 /\ a[k + 1] = i + l
  BY <1>1
<1>2. l \in Nat /\ l >= 6
  <2>1. l = Head3(v) + Len(v) + 2
    BY <1>0, ItemBytes
  <2>2. Head3(v) \in Nat /\ Head3(v) >= 4
    BY <1>0, ItemBytes
  <2>3. Len(v) \in Nat
    BY <1>0
  <2> QED
    BY <2>1, <2>2, <2>3
<1>3. L \in Nat
  BY <1>1
<1>4. D = L - Early2(c) /\ Early2(c) \in {0, 2} /\ (Early(c[m]) => Early2(c) = 2)
  BY DEF Complete, Early2
<1>5. /\ N >= D => s.err = "none" /\ s.data = SubSeq(c, k + 1, m)
      /\ k + 1 <= m /\ N < D => s.err \in {"EOF", "unexpected EOF"} /\ (PlainList(c) => s.err = "EOF")
      /\ k + 1 <= m => a[k + 1] + 6 <= a[m + 1]
  BY DEF ReadFrom
<1>6. i + l <= L + 1 /\ (k < m => i + l + 6 <= L + 1) /\ (k = m => i + l = L + 1)
  <2>1. CASE k < m
    <3>1. k + 1 <= m
      BY <1>0, <2>1
    <3>2. a[k + 1] + 6 <= a[m + 1]
      BY <1>5, <3>1
    <3> QED
      BY <1>1, <1>2, <1>3, <2>1, <3>2
  <2>2. CASE k = m
    BY <1>1, <1>2, <1>3, <2>2
  <2> QED
    BY <1>0, <2>1, <2>2
<1>7. q \in Nat \ {0} /\ q - 1 = m + 1 - (k + 1) /\ (k = m => q - 1 = 0) /\ (k < m => q - 1 \in Nat \ {0})
  BY <1>0
<1>8. /\ first.err # "none" => r = first
      /\ first.err = "none" /\ rest.err # "none" => r = rest
      /\ first.err = "none" /\ rest.err = "none" => r = Got(0, <<Element(first)>> \o rest.data, rest.at)
  <2> HIDE DEF q, i
  <2>1. StepOf(first, rest, r)
    BY <1>c, <1>7, ElementsStep, Zenon
  <2> HIDE DEF first, rest, r
  <2> QED
    BY <2>1 DEF StepOf
<1>d. /\ i \in Nat \ {0} /\ l \in Nat /\ l >= 6 /\ L \in Nat /\ N \in Nat /\ m \in Nat
      /\ i + l <= L + 1 /\ (k < m => i + l + 6 <= L + 1) /\ (k = m => i + l = L + 1)
      /\ (D = L \/ D = L - 2) /\ (Early(c[m]) => D = L - 2)
  BY <1>a, <1>c, <1>2, <1>3, <1>4, <1>6
<1>9. Holds(f, i, Item(v))
  <2> SUFFICES ASSUME NEW j \in 1 .. l, i + j - 1 <= N PROVE f[i + j - 1] = Item(v)[j]
    BY DEF Holds
  <2>0. j \in Nat \ {0} /\ j <= l
    BY <1>d
  <2>1. i + j - 1 \in 1 .. L /\ 1 + (i + j - 1) - 1 = i + j - 1
    <3> HIDE DEF i, L, l
    <3> QED
      BY <1>d, <2>0
  <2>2. f[i + j - 1] = RAW(c)[i + j - 1]
    BY <2>1 DEF Holds
  <2> QED
    BY <1>1, <2>2
<1>10. i <= N => /\ N >= i + l - 1 => first.err = "none" /\ Element(first) = v /\ first.at = i + l
                 /\ N < i + l - 1 => N <= i + l - 3
                 /\ N = i + l - 3 => Early(v) /\ first.err = "none" /\ Element(first) = v /\ first.at = N + 1
                 /\ N < i + l - 3 => first.err \in {"EOF", "unexpected EOF"}
                                     /\ (~Broken(v) => first.err = "EOF")
  <2> SUFFICES ASSUME i <= N
               PROVE  /\ N >= i + l - 1 => first.err = "none" /\ Element(first) = v /\ first.at = i + l
                      /\ N < i + l - 1 => N <= i + l - 3
                      /\ N = i + l - 3 => Early(v) /\ first.err = "none" /\ Element(first) = v /\ first.at = N + 1
                      /\ N < i + l - 3 => first.err \in {"EOF", "unexpected EOF"}
                                     /\ (~Broken(v) => first.err = "EOF")
    OBVIOUS
  <2>1. first = Value(f, i, Elements(f))
    BY DEF ParseResp
  <2> HIDE DEF first, i, v
  <2>2. ItemOf(i, l, N, v, first)
    BY <1>0, <1>c, <1>9, <2>1, ItemRead, Zenon
  <2>6. N >= i + l - 1 <=> i + l - 1 <= N
    BY <1>d
  <2> HIDE DEF N, l
  <2> QED
    BY <2>2, <2>6, Zenon DEF ItemOf
<1>11. PlainList(c) => ~Broken(v)
  BY DEF PlainList
<1>12. rest.err = "none" /\ rest.data = SubSeq(c, k + 1, m) /\ first.err = "none" /\ Element(first) = v
         => r.err = "none" /\ r.data = SubSeq(c, k, m)
  <2> SUFFICES ASSUME rest.err = "none", rest.data = SubSeq(c, k + 1, m), first.err = "none", Element(first) = v
               PROVE  r.err = "none" /\ r.data = SubSeq(c, k, m)
    OBVIOUS
  <2>1. k \in 1 .. Len(c) /\ m \in k .. Len(c)
    BY <1>0
  <2>2. SubSeq(c, k, m) = <<v>> \o SubSeq(c, k + 1, m)
    BY <1>0, <2>1, SubSeqRecursiveFirst
  <2> HIDE DEF first, rest, r, v
  <2>3. r = Got(0, SubSeq(c, k, m), rest.at)
    BY <1>8, <2>2, Zenon
  <2> DEFINE w == SubSeq(c, k, m)
  <2> HIDE DEF w
  <2>4. r = Got(0, w, rest.at)
    BY <2>3 DEF w
  <2>5. r.err = "none" /\ r.data = w
    BY <2>4, GotIs
  <2> QED
    BY <2>5 DEF w
<1> DEFINE Good == r.err = "none" /\ r.data = SubSeq(c, k, m)
           Short == r.err \in {"EOF", "unexpected EOF"} /\ (PlainList(c) => r.err = "EOF")
<1> HIDE DEF m, N, L, D, i, v, l, q, first, rest, r, s
<1>e. i + 6 <= L + 1
  BY <1>d
<1>13. SUFFICES (N >= D => Good) /\ (N < D => Short)
  <2>2. i + 6 <= a[m + 1]
    BY <1>c, <1>e
  <2>1. k <= m => a[k] + 6 <= a[m + 1]
    BY <2>2 DEF i
  <2> QED
    BY <1>13, <2>1 DEF ReadFrom, m, N, D, i, r, q
<1>14. CASE i > N
  <2>1. r = Err("EOF")
    BY <1>c, <1>7, <1>14, ElementsBeyond DEF r, N
  <2>2. ~(N >= D)
    BY <1>d, <1>14
  <2> QED
    BY <2>1, <2>2, ErrIs
<1>15. CASE i <= N /\ N >= i + l - 1
  <2>1. first.err = "none" /\ Element(first) = v /\ first.at = i + l
    BY <1>10, <1>15
  <2>2. rest = s
    BY <1>1, <1>7, <2>1 DEF rest, s, m
  <2>3. N >= D => Good
    BY <1>5, <1>12, <2>1, <2>2
  <2>4. ASSUME N < D PROVE Short
    <3>1. k < m
      BY <1>a, <1>d, <1>15, <2>4
    <3>2. k + 1 <= m
      BY <1>a, <3>1
    <3>3. s.err \in {"EOF", "unexpected EOF"} /\ (PlainList(c) => s.err = "EOF")
      BY <1>5, <2>4, <3>2
    <3>4. r = s
      BY <1>8, <2>1, <2>2, <3>3
    <3> QED
      BY <3>3, <3>4
  <2> QED
    BY <2>3, <2>4
<1>16. CASE i <= N /\ N = i + l - 3
  <2>1. Early(v) /\ first.err = "none" /\ Element(first) = v /\ first.at = N + 1
    BY <1>10, <1>16
  <2>2. N + 1 \in Nat \ {0} /\ N + 1 > N
    BY <1>0
  <2>3. CASE k = m
    <3>1. N = L - 2 /\ D = L - 2
      BY <1>d, <1>16, <2>1, <2>3 DEF v
    <3>2. rest = Got(0, <<>>, N + 1)
      BY <1>7, <2>1, <2>2, <2>3, ElementsNone DEF rest
    <3>3. SubSeq(c, k + 1, m) = <<>>
      <4>1. m < k + 1 /\ k + 1 \in Int /\ m \in Int
        BY <1>0, <2>3
      <4> QED
        BY <4>1, SubSeqEmpty
    <3>6. rest.err = "none" /\ rest.data = <<>>
      BY <3>2, GotIs
    <3>4. Good
      BY <1>12, <2>1, <3>3, <3>6, Zenon
    <3>5. ~(N < D)
      BY <1>a, <3>1
    <3> QED
      BY <3>4, <3>5
  <2>4. CASE k < m
    <3>1. ~(N >= D)
      BY <1>d, <1>16, <2>4
    <3>2. rest = Err("EOF")
      <4>1. Elements(f)[N + 1][q - 1] = Err("EOF")
        BY <1>7, <2>2, <2>4, ElementsBeyond DEF N
      <4> QED
        BY <2>1, <4>1 DEF rest
    <3>3. r = Err("EOF")
      <4>1. rest.err # "none"
        BY <3>2, ErrIs
      <4> QED
        BY <1>8, <2>1, <3>2, <4>1
    <3> QED
      BY <3>1, <3>3, ErrIs
  <2>5. k = m \/ k < m
    BY <1>a
  <2> QED
    BY <2>3, <2>4, <2>5, Zenon
<1>17. CASE i <= N /\ N < i + l - 3
  <2>1. first.err \in {"EOF", "unexpected EOF"} /\ (~Broken(v) => first.err = "EOF")
    BY <1>10, <1>17
  <2>2. r = first
    BY <1>8, <2>1
  <2>3. ~(N >= D)
    BY <1>d, <1>17
  <2> QED
    BY <1>11, <2>1, <2>2, <2>3
<1>18. \/ i > N
       \/ i <= N /\ N >= i + l - 1
       \/ i <= N /\ N = i + l - 3
       \/ i <= N /\ N < i + l - 3
  <2>1. i <= N /\ N < i + l - 1 => N <= i + l - 3
    BY <1>10, Zenon
  <2> QED
    BY <1>d, <2>1
<1> QED
  BY <1>14, <1>15, <1>16, <1>17, <1>18, Zenon

\* All values.
LEMMA ReadAll ==
    ASSUME NEW c \in Lists, NEW a, PlacesOf(a, c), NEW f \in Seq(Byte), f # <<>>, f[Len(f)] = LF,
           Holds(f, 1, RAW(c))
    PROVE  ReadFrom(f, c, a, 1)
<1> DEFINE m == Len(c)
           T == {d \in 0 .. m : ~ReadFrom(f, c, a, m + 1 - d)}
<1>0. m \in Nat
  BY LenProperties DEF Lists
<1>1. CASE T = {}
  <2>1. m \in 0 .. m /\ m + 1 - m = 1
    BY <1>0
  <2> QED
    BY <1>1, <2>1
<1>2. CASE T # {}
  <2>0. T \subseteq Nat
    OBVIOUS
  <2>1. PICK d \in T : \A e \in T : d <= e
    BY <1>2, <2>0, Least
  <2>2. CASE d = 0
    <3>1. ReadFrom(f, c, a, m + 1)
      <4>1. a[m + 1] \in Nat \ {0}
        BY <1>0 DEF PlacesOf
      <4>2. Elements(f)[a[m + 1]][0] = Got(0, <<>>, a[m + 1])
        BY <4>1, ElementsNone
      <4>3. m + 1 - (m + 1) = 0 /\ ~(m + 1 <= m) /\ m < m + 1 /\ m \in Int /\ m + 1 \in Int
        BY <1>0
      <4>4. SubSeq(c, m + 1, m) = <<>>
        BY <4>3, SubSeqEmpty
      <4> DEFINE i == a[m + 1]
      <4>5. Elements(f)[i][m + 1 - (m + 1)] = Got(0, SubSeq(c, m + 1, m), i)
        BY <4>2, <4>3, <4>4
      <4> DEFINE w == SubSeq(c, m + 1, m)
                 r == Elements(f)[i][m + 1 - (m + 1)]
      <4>6. r.err = "none" /\ r.data = w
        <5>1. r = Got(0, w, i)
          BY <4>5
        <5> HIDE DEF w, i, r
        <5> QED
          BY <5>1, GotIs
      <4> QED
        BY <4>3, <4>6 DEF ReadFrom
    <3>2. m + 1 - d = m + 1
      BY <1>0, <2>2
    <3> QED
      BY <2>1, <3>1, <3>2
  <2>3. CASE d # 0
    <3>1. d - 1 \in 0 .. m /\ ~(d <= d - 1)
      BY <1>0, <2>3
    <3>2. d - 1 \notin T
      BY <2>1, <3>1, Zenon
    <3>3. ReadFrom(f, c, a, m + 1 - (d - 1))
      BY <3>1, <3>2
    <3> DEFINE k == m + 1 - d
    <3>4. k \in 1 .. m /\ m + 1 - (d - 1) = k + 1
      BY <1>0, <2>3
    <3> HIDE DEF k
    <3>5. ReadFrom(f, c, a, k + 1)
      BY <3>3, <3>4
    <3>6. ReadFrom(f, c, a, k)
      BY <3>4, <3>5, ReadStep, Zenon
    <3> QED
      BY <2>1, <3>6 DEF k
  <2> QED
    BY <2>2, <2>3
<1> QED
  BY <1>1, <1>2

\* The last bytes of a command: its line end, and the newline that completes
\* it.
LEMMA CommandEnds ==
    ASSUME NEW c \in Lists
    PROVE  /\ RAW(c) \in Seq(Byte) /\ Len(RAW(c)) \in Nat /\ Complete(c) \in Nat /\ Early2(c) \in {0, 2}
           /\ Complete(c) = Len(RAW(c)) - Early2(c) /\ Complete(c) >= 4 /\ RAW(c)[Complete(c)] = LF
           /\ RAW(c)[Len(RAW(c)) - 1] = CR /\ RAW(c)[Len(RAW(c))] = LF
<1>1. PICK a : PlacesOf(a, c)
  BY Places
<1>2. c \in Seq(Seq(Byte)) /\ Len(c) \in Nat \ {0}
  BY EmptySeq DEF Lists
<1> DEFINE m == Len(c)
           L == Len(RAW(c))
           v == c[m]
           l == Len(Item(v))
           n == Len(v)
           h == Head3(v)
           i == a[m]
<1>3. m \in 1 .. m /\ m \in 1 .. m + 1
  BY <1>2
<1>4. v \in Seq(Byte)
  BY <1>2, <1>3, ElementOfSeq
<1>5. /\ RAW(c) \in Seq(Byte) /\ a \in [1 .. m + 1 -> Nat \ {0}] /\ a[m + 1] = L + 1
      /\ \A p \in 1 .. m :
           /\ a[p + 1] = a[p] + Len(Item(c[p]))
           /\ \A j \in 1 .. Len(Item(c[p])) : RAW(c)[a[p] + j - 1] = Item(c[p])[j]
  BY <1>1 DEF PlacesOf
<1>6. i \in Nat \ {0} /\ L + 1 = i + l /\ \A j \in 1 .. l : RAW(c)[i + j - 1] = Item(v)[j]
  BY <1>3, <1>5
<1>7. L \in Nat /\ n \in Nat
  BY <1>4, <1>5
<1>8. l = h + n + 2 /\ h \in Nat /\ h >= 4
  BY <1>4, ItemBytes
<1>9. Item(v)[h + n + 1] = CR /\ Item(v)[h + n + 2] = LF
  BY <1>4, ItemBytes
<1>10. Early2(c) \in {0, 2} /\ Complete(c) = L - Early2(c) /\ (Early2(c) = 2 => Early(v))
  BY DEF Complete, Early2
<1>11. Early(v) => Item(v)[h + n] = LF
  <2>1. CASE v = <<>>
    <3>1. n = 0 /\ h + n = h /\ h \in 1 .. h
      BY <1>8, <2>1
    <3>2. Item(v)[h] = Header(BulkString, n)[h]
      BY <1>4, <3>1, ItemBytes
    <3>3. Header(BulkString, n)[Len(Decimal[n]) + 3] = LF
      <4>1. BulkString \in Byte /\ BulkString # LF
        BY DEF BulkString, Byte, LF
      <4> QED
        BY <1>7, <4>1, HeaderBytes
    <3> QED
      BY <3>1, <3>2, <3>3 DEF Head3
  <2>2. CASE v # <<>> /\ v[Len(v)] = LF
    <3>1. n \in 1 .. n
      BY <1>4, <1>7, <2>2, EmptySeq
    <3>2. Item(v)[h + n] = v[n]
      BY <1>4, <3>1, ItemBytes
    <3> QED
      BY <2>2, <3>2
  <2> QED
    BY <2>1, <2>2 DEF Early
<1> HIDE DEF m, L, v, l, n, h, i
<1>12. RAW(c)[L - 1] = CR /\ RAW(c)[L] = LF
  <2>1. h + n + 1 \in 1 .. l /\ h + n + 2 \in 1 .. l /\ i + (h + n + 1) - 1 = L - 1 /\ i + (h + n + 2) - 1 = L
    BY <1>6, <1>7, <1>8
  <2>2. RAW(c)[i + (h + n + 1) - 1] = CR /\ RAW(c)[i + (h + n + 2) - 1] = LF
    BY <1>6, <1>9, <2>1
  <2> QED
    BY <2>1, <2>2
<1>13. Complete(c) \in Nat /\ Complete(c) >= 4
  <2>1. L >= 6 /\ L \in Nat
    BY <1>6, <1>7, <1>8
  <2> QED
    BY <1>10, <2>1
<1>14. RAW(c)[Complete(c)] = LF
  <2>1. CASE Early2(c) = 0
    BY <1>7, <1>10, <1>12, <2>1
  <2>2. CASE Early2(c) = 2
    <3>1. h + n \in 1 .. l /\ i + (h + n) - 1 = L - 2
      BY <1>6, <1>7, <1>8
    <3>2. RAW(c)[i + (h + n) - 1] = LF
      BY <1>6, <1>10, <1>11, <2>2, <3>1
    <3> QED
      BY <1>10, <2>2, <3>1, <3>2
  <2> QED
    BY <1>10, <2>1, <2>2
<1> QED
  BY <1>5, <1>7, <1>10, <1>12, <1>13, <1>14 DEF L

\* The result p of parsing the first N bytes of a command.
CommandOf(c, N, p) ==
    /\ N >= Complete(c) => p.err = "none" /\ p.type = Array /\ p.data = c
    /\ N < Complete(c) => p.err \in {"EOF", "unexpected EOF"} /\ (PlainList(c) => p.err = "EOF")

\* What ParseResp makes of the first lines of a command.
LEMMA CommandRead ==
    ASSUME NEW c \in Lists, NEW f \in Seq(Byte), f # <<>>, f[Len(f)] = LF, Holds(f, 1, RAW(c))
    PROVE  CommandOf(c, Len(f), ParseResp(f, 1))
<1>1. PICK a : PlacesOf(a, c)
  BY Places
<1>2. c \in Seq(Seq(Byte)) /\ Len(c) \in Nat \ {0} /\ Len(f) \in Nat \ {0}
  BY EmptySeq DEF Lists
<1> DEFINE m == Len(c)
           line == readLine(f, 1)
           body == Elements(f)[a[1]][m]
           z == ParseResp(f, 1)
           head == <<Array>> \o Decimal[m]
           w == Len(Decimal[m])
<1>3. /\ a[1] = Len(Header(Array, m)) + 1 /\ a[1] \in Nat \ {0} /\ RAW(c) \in Seq(Byte)
      /\ \A j \in 1 .. Len(Header(Array, m)) : RAW(c)[j] = Header(Array, m)[j]
  <2>1. 1 \in 1 .. m + 1
    BY <1>2
  <2> QED
    BY <1>1, <2>1 DEF PlacesOf
<1>4. a[m + 1] = Len(RAW(c)) + 1
  BY <1>1 DEF PlacesOf
<1>5. Array \in Byte /\ Array # LF
  BY DEF Array, Byte, LF
<1>6. m \in Nat /\ w \in Nat \ {0} /\ Len(Header(Array, m)) = w + 3
  <2>1. m \in Nat
    BY <1>2
  <2> QED
    BY <1>5, <2>1, HeaderBytes
<1>7. ReadFrom(f, c, a, 1)
  BY <1>1, ReadAll
<1>8. Holds(f, 1, Header(Array, m))
  <2> SUFFICES ASSUME NEW j \in 1 .. Len(Header(Array, m)), 1 + j - 1 <= Len(f)
               PROVE  f[1 + j - 1] = Header(Array, m)[j]
    BY DEF Holds
  <2>1. j \in 1 .. Len(RAW(c))
    <3>1. 1 <= m /\ a[1] + 6 <= a[m + 1]
      <4>1. 1 <= Len(c)
        BY <1>2
      <4> QED
        BY <1>7, <4>1, Zenon DEF ReadFrom
    <3>2. Len(RAW(c)) \in Nat
      BY <1>3
    <3>3. j \in Nat /\ j >= 1 /\ j < a[1]
      BY <1>3, <1>6
    <3> QED
      BY <1>3, <1>4, <3>1, <3>2, <3>3
  <2>2. f[1 + j - 1] = RAW(c)[j]
    BY <2>1 DEF Holds
  <2> QED
    BY <1>3, <2>2
<1>9. 1 + w + 2 <= Len(f)
  <2>1. 1 \in Nat \ {0} /\ 1 <= Len(f)
    BY <1>2
  <2> QED
    BY <1>5, <1>6, <1>8, <2>1, HeaderWhole
<1>10. line = Got(0, head, a[1])
  <2>1. readLine(f, 1) = Got(0, <<Array>> \o Decimal[m], 1 + Len(Decimal[m]) + 3)
    BY <1>5, <1>6, <1>8, <1>9, HeaderRead
  <2>2. 1 + w + 3 = a[1]
    BY <1>3, <1>6
  <2> QED
    BY <2>1, <2>2
<1>11. parseLen(head) = m
  BY <1>5, <1>6, LengthRead
<1>12. head[1] = Array
  <2>1. Decimal[m] \in Seq(48 .. 57)
    BY <1>6, DecimalType
  <2> QED
    BY <2>1
<1> HIDE DEF head, m
<1>13. line.err = "none" /\ line.data = head /\ line.at = a[1]
  BY <1>10, GotIs
<1>14. IsResult(body)
  <2>1. Forward(Elements(f))
    BY ElementsDef
  <2> QED
    BY <1>3, <1>6, <2>1 DEF Forward
<1>15. z = [body EXCEPT !.type = Array]
  <2>1. Array \notin Bulk /\ Array \notin Simple /\ Array # Map /\ Array \in Arrays
    BY DEF Array, Bulk, BulkString, Simple, SimpleString, Map, Arrays
  <2>2. line.data[1] = Array /\ parseLen(line.data) = m /\ m # -2
    BY <1>6, <1>11, <1>12, <1>13
  <2> HIDE DEF line
  <2>3. Value(f, 1, Elements(f)) = [body EXCEPT !.type = Array]
    BY <1>13, <2>1, <2>2, Zenon DEF Value, line
  <2> QED
    BY <2>3 DEF ParseResp
<1>16. z.err = body.err /\ z.data = body.data /\ z.type = Array
  <2> HIDE DEF body, z
  <2> QED
    BY <1>14, <1>15, Retyped
<1>17. m + 1 - 1 = m /\ SubSeq(c, 1, m) = c /\ 1 <= m
  BY <1>2, SubSeqFull DEF m
<1>18. /\ Len(f) >= Complete(c) => body.err = "none" /\ body.data = c
       /\ Len(f) < Complete(c) => body.err \in {"EOF", "unexpected EOF"} /\ (PlainList(c) => body.err = "EOF")
  BY <1>7, <1>17 DEF ReadFrom, m
<1> HIDE DEF body, z
<1> QED
  BY <1>16, <1>18 DEF CommandOf, z

(***************************************************************************)
(* Streams of commands.                                                    *)
(***************************************************************************)
\* The bytes W of the commands s, of which the first k have the first e[k].
Laid(W, e, s) ==
    /\ W \in Seq(Byte) /\ e \in [0 .. Len(s) -> Nat] /\ e[0] = 0 /\ e[Len(s)] = Len(W)
    /\ \A k \in 1 .. Len(s) :
         /\ e[k] = e[k - 1] + Len(RAW(s[k]))
         /\ \A j \in 1 .. Len(RAW(s[k])) : W[e[k - 1] + j] = RAW(s[k])[j]

\* A stream without commands.
LEMMA LaidEmpty == Laid(<<>>, [k \in 0 .. 0 |-> 0], <<>>)
BY DEF Laid

\* A command has bytes.
LEMMA CommandLong ==
    ASSUME NEW c \in Lists
    PROVE  Len(RAW(c)) \in Nat /\ Len(RAW(c)) >= 4 /\ Complete(c) <= Len(RAW(c))
<1>1. Len(RAW(c)) \in Nat /\ Complete(c) \in Nat /\ Early2(c) \in {0, 2}
  BY CommandEnds
<1>2. Complete(c) = Len(RAW(c)) - Early2(c) /\ Complete(c) >= 4
  BY CommandEnds
<1> QED
  BY <1>1, <1>2

\* The places of the commands are in their order.
LEMMA LaidOrder ==
    ASSUME NEW s \in Seq(Lists), NEW W, NEW e, Laid(W, e, s),
           NEW i \in 0 .. Len(s), NEW j \in 0 .. Len(s), i < j
    PROVE  e[i] \in Nat /\ e[j] \in Nat /\ e[i] + Len(RAW(s[i + 1])) <= e[j]
<1> DEFINE l == Len(RAW(s[i + 1]))
           T == {k \in i + 1 .. Len(s) : ~(e[i] + l <= e[k])}
<1>0. Len(s) \in Nat /\ i \in Nat /\ j \in Nat /\ i + 1 \in 1 .. Len(s)
  OBVIOUS
<1>1. \A k \in 0 .. Len(s) : e[k] \in Nat
  BY DEF Laid
<1>2. \A k \in 1 .. Len(s) : e[k] = e[k - 1] + Len(RAW(s[k]))
  BY DEF Laid
<1>3. \A k \in 1 .. Len(s) : Len(RAW(s[k])) \in Nat
  <2> TAKE k \in 1 .. Len(s)
  <2>1. s[k] \in Lists
    OBVIOUS
  <2> QED
    BY <2>1, CommandLong
<1>4. l \in Nat
  BY <1>0, <1>3
<1> HIDE DEF l
<1>5. T = {}
  <2> SUFFICES ASSUME T # {} PROVE FALSE
    OBVIOUS
  <2>0. T \subseteq Nat
    BY <1>0
  <2>1. PICK k \in T : \A n \in T : k <= n
    BY <2>0, Least
  <2>2. k \in i + 1 .. Len(s) /\ ~(e[i] + l <= e[k])
    BY <2>1
  <2>3. CASE k = i + 1
    <3>1. e[k] = e[i] + l
      <4>1. k - 1 = i
        BY <1>0, <2>3
      <4> QED
        BY <1>0, <1>2, <2>3, <4>1 DEF l
    <3> QED
      BY <1>0, <1>1, <1>4, <2>2, <3>1
  <2>4. CASE k # i + 1
    <3>1. k - 1 \in i + 1 .. Len(s) /\ ~(k <= k - 1) /\ k \in 1 .. Len(s) /\ k \in 0 .. Len(s) /\ k - 1 \in 0 .. Len(s)
      BY <1>0, <2>2, <2>4
    <3>2. k - 1 \notin T
      BY <2>1, <3>1, Zenon
    <3>3. e[i] + l <= e[k - 1]
      BY <3>1, <3>2
    <3>4. e[k] = e[k - 1] + Len(RAW(s[k])) /\ Len(RAW(s[k])) \in Nat /\ e[k] \in Nat /\ e[k - 1] \in Nat /\ e[i] \in Nat
      BY <1>0, <1>1, <1>2, <1>3, <3>1
    <3> QED
      BY <1>4, <2>2, <3>3, <3>4, SMTT(30)
  <2> QED
    BY <2>3, <2>4
<1>6. j \in i + 1 .. Len(s)
  BY <1>0
<1>7. e[i] + l <= e[j]
  BY <1>5, <1>6
<1> QED
  BY <1>1, <1>7 DEF l

\* Places, and the last of them.
LEMMA LaidPlace ==
    ASSUME NEW s \in Seq(Lists), NEW W, NEW e, Laid(W, e, s), NEW k \in 1 .. Len(s)
    PROVE  /\ e[k] = e[k - 1] + Len(RAW(s[k])) /\ e[k] \in Nat /\ e[k - 1] \in Nat
           /\ e[k] <= Len(W) /\ Len(W) \in Nat /\ Len(RAW(s[k])) \in Nat /\ s[k] \in Lists
           /\ \A j \in 1 .. Len(RAW(s[k])) : W[e[k - 1] + j] = RAW(s[k])[j]
<1>1. W \in Seq(Byte) /\ e \in [0 .. Len(s) -> Nat] /\ e[Len(s)] = Len(W) /\ e[k] = e[k - 1] + Len(RAW(s[k]))
      /\ \A j \in 1 .. Len(RAW(s[k])) : W[e[k - 1] + j] = RAW(s[k])[j]
  BY DEF Laid
<1>2. Len(s) \in Nat /\ k \in 0 .. Len(s) /\ k - 1 \in 0 .. Len(s) /\ Len(s) \in 0 .. Len(s)
  OBVIOUS
<1>3. s[k] \in Lists
  OBVIOUS
<1>4. Len(RAW(s[k])) \in Nat
  BY <1>3, CommandLong
<1>5. e[k] \in Nat /\ e[k - 1] \in Nat /\ Len(W) \in Nat
  BY <1>1, <1>2
<1>6. e[k] <= Len(W)
  <2>1. CASE k = Len(s)
    BY <1>1, <1>5, <2>1
  <2>2. CASE k < Len(s)
    <3>1. e[k] + Len(RAW(s[k + 1])) <= e[Len(s)]
      BY <1>2, <2>2, LaidOrder
    <3>2. s[k + 1] \in Lists
      BY <1>2, <2>2
    <3>3. Len(RAW(s[k + 1])) \in Nat
      BY <3>2, CommandLong
    <3> QED
      BY <1>1, <1>5, <3>1, <3>3
  <2> QED
    BY <1>2, <2>1, <2>2
<1> QED
  BY <1>1, <1>3, <1>4, <1>5, <1>6

\* Different places are of different commands.
LEMMA LaidDifferent ==
    ASSUME NEW s \in Seq(Lists), NEW W, NEW e, Laid(W, e, s),
           NEW i \in 0 .. Len(s), NEW j \in 0 .. Len(s)
    PROVE  (e[i] < e[j] => i < j) /\ (e[i] = e[j] => i = j)
<1>0. Len(s) \in Nat /\ i \in Nat /\ j \in Nat
  OBVIOUS
<1>1. \A p, q \in 0 .. Len(s) : p < q => e[p] \in Nat /\ e[q] \in Nat /\ e[p] < e[q]
  <2> SUFFICES ASSUME NEW p \in 0 .. Len(s), NEW q \in 0 .. Len(s), p < q
               PROVE  e[p] \in Nat /\ e[q] \in Nat /\ e[p] < e[q]
    OBVIOUS
  <2>1. e[p] \in Nat /\ e[q] \in Nat /\ e[p] + Len(RAW(s[p + 1])) <= e[q]
    BY LaidOrder
  <2>2. s[p + 1] \in Lists
    BY <1>0
  <2>3. Len(RAW(s[p + 1])) \in Nat /\ Len(RAW(s[p + 1])) >= 4
    BY <2>2, CommandLong
  <2> QED
    BY <2>1, <2>3
<1>2. CASE i < j
  BY <1>0, <1>1, <1>2
<1>3. CASE j < i
  BY <1>0, <1>1, <1>3
<1>4. CASE i = j
  <2>1. e[j] \in Nat
    BY DEF Laid
  <2> QED
    BY <1>4, <2>1
<1> QED
  BY <1>0, <1>2, <1>3, <1>4

\* Every byte is of one of the commands.
LEMMA LaidAt ==
    ASSUME NEW s \in Seq(Lists), NEW W, NEW e, Laid(W, e, s), NEW p \in 1 .. Len(W)
    PROVE  \E k \in 1 .. Len(s) : e[k - 1] < p /\ p <= e[k]
<1> DEFINE T == {k \in 0 .. Len(s) : p <= e[k]}
<1>1. Len(s) \in Nat /\ Len(s) \in 0 .. Len(s) /\ p \in Nat \ {0}
  OBVIOUS
<1>2. e \in [0 .. Len(s) -> Nat] /\ e[0] = 0 /\ e[Len(s)] = Len(W) /\ Len(W) \in Nat
  BY DEF Laid
<1>3. Len(s) \in T /\ T \subseteq Nat
  BY <1>1, <1>2
<1>4. PICK k \in T : \A n \in T : k <= n
  BY <1>3, Least
<1>5. k # 0
  BY <1>1, <1>2, <1>4
<1>6. k \in 1 .. Len(s) /\ k - 1 \in 0 .. Len(s) /\ ~(k <= k - 1)
  BY <1>1, <1>4, <1>5
<1>7. k - 1 \notin T
  BY <1>4, <1>6, Zenon
<1>8. ~(p <= e[k - 1]) /\ p <= e[k]
  BY <1>4, <1>6, <1>7
<1>9. e[k - 1] \in Nat
  BY <1>2, <1>6
<1> QED
  BY <1>1, <1>6, <1>8, <1>9

\* One command more.
LEMMA LaidNext ==
    ASSUME NEW s \in Seq(Lists), NEW W, NEW e, Laid(W, e, s), NEW c \in Lists
    PROVE  \E g : Laid(W \o RAW(c), g, Append(s, c)) /\ \A k \in 0 .. Len(s) : g[k] = e[k]
<1> DEFINE V == W \o RAW(c)
           r == Append(s, c)
           n == Len(s)
           g == [k \in 0 .. n + 1 |-> IF k = n + 1 THEN Len(V) ELSE e[k]]
<1>1. W \in Seq(Byte) /\ e \in [0 .. n -> Nat] /\ e[0] = 0 /\ e[n] = Len(W)
  BY DEF Laid
<1>2. RAW(c) \in Seq(Byte)
  BY CommandEnds
<1>3. /\ V \in Seq(Byte) /\ Len(V) = Len(W) + Len(RAW(c)) /\ Len(W) \in Nat /\ Len(RAW(c)) \in Nat
      /\ (\A j \in 1 .. Len(W) : V[j] = W[j]) /\ \A j \in 1 .. Len(RAW(c)) : V[Len(W) + j] = RAW(c)[j]
  BY <1>1, <1>2, Joined
<1>4. n \in Nat /\ Len(r) = n + 1 /\ r[n + 1] = c /\ \A k \in 1 .. n : r[k] = s[k]
  BY AppendProperties
<1> HIDE DEF V, r, n
<1>5. /\ g \in [0 .. n + 1 -> Nat] /\ g[n + 1] = Len(V) /\ (\A k \in 0 .. n : g[k] = e[k]) /\ g[0] = 0
  BY <1>1, <1>3, <1>4
<1> HIDE DEF g
<1>6. ASSUME NEW k \in 1 .. n + 1
      PROVE  /\ g[k] = g[k - 1] + Len(RAW(r[k]))
             /\ \A j \in 1 .. Len(RAW(r[k])) : V[g[k - 1] + j] = RAW(r[k])[j]
  <2>1. CASE k = n + 1
    <3>1. k - 1 = n /\ n \in 0 .. n
      BY <1>4, <2>1
    <3> QED
      BY <1>1, <1>3, <1>4, <1>5, <2>1, <3>1, ZenonT(30)
  <2>2. CASE k # n + 1
    <3>1. k \in 1 .. n /\ k \in 0 .. n /\ k - 1 \in 0 .. n
      BY <1>4, <2>2
    <3>2. /\ e[k] = e[k - 1] + Len(RAW(s[k])) /\ e[k] \in Nat /\ e[k - 1] \in Nat
          /\ e[k] <= Len(W) /\ Len(RAW(s[k])) \in Nat
      BY <3>1, LaidPlace DEF n
    <3>3. \A j \in 1 .. Len(RAW(s[k])) : W[e[k - 1] + j] = RAW(s[k])[j]
      BY <3>1, LaidPlace DEF n
    <3>4. r[k] = s[k] /\ g[k] = e[k] /\ g[k - 1] = e[k - 1]
      BY <1>4, <1>5, <3>1
    <3>5. ASSUME NEW j \in 1 .. Len(RAW(s[k])) PROVE V[e[k - 1] + j] = RAW(s[k])[j]
      <4>1. e[k - 1] + j \in 1 .. Len(W)
        BY <1>3, <3>2, SMTT(30)
      <4> QED
        BY <1>3, <3>3, <4>1
    <3> QED
      BY <3>2, <3>4, <3>5
  <2> QED
    BY <2>1, <2>2
<1>7. Laid(V, g, r)
  BY <1>3, <1>4, <1>5, <1>6 DEF Laid
<1> QED
  BY <1>5, <1>7 DEF V, r, n

\* Commands whose values do not look like commands.
Proper == {c \in Lists : Tame(c)}

\* The commands of the model have a value.
LEMMA CommandsLists == Commands \subseteq Lists
BY FramingAssumption DEF Lists

\* What was sent, when all of it is tame.
LEMMA SentProper == sent \in Seq(Lists) /\ AllTame => sent \in Seq(Proper)
<1> SUFFICES ASSUME sent \in Seq(Lists), AllTame PROVE sent \in Seq(Proper)
  OBVIOUS
<1>1. DOMAIN sent = 1 .. Len(sent) /\ Len(sent) \in Nat /\ sent \in [1 .. Len(sent) -> Lists]
  BY LenProperties
<1>2. \A i \in 1 .. Len(sent) : sent[i] \in Proper
  BY <1>1, ElementOfSeq DEF AllTame, Proper
<1>3. sent \in [1 .. Len(sent) -> Proper]
  BY <1>1, <1>2
<1> QED
  BY <1>1, <1>3

\* Where a byte of a command behind its header is.
LEMMA PlaceAt ==
    ASSUME NEW c \in Lists, NEW a, PlacesOf(a, c), NEW p \in 1 .. Len(RAW(c)), p >= a[1]
    PROVE  \E k \in 1 .. Len(c) : a[k] <= p /\ p < a[k + 1]
<1> DEFINE m == Len(c)
           T == {k \in 1 .. m + 1 : p < a[k]}
<1>1. m \in Nat
  BY LenProperties DEF Lists
<1>2. /\ a \in [1 .. m + 1 -> Nat \ {0}] /\ a[m + 1] = Len(RAW(c)) + 1 /\ Len(RAW(c)) \in Nat
      /\ p \in Nat \ {0}
  BY CommandLong DEF PlacesOf
<1> HIDE DEF m
<1>3. m + 1 \in T /\ T \subseteq Nat
  BY <1>1, <1>2
<1>4. PICK k \in T : \A n \in T : k <= n
  BY <1>3, Least
<1>5. k # 1
  <2>1. a[1] \in Nat
    BY <1>1, <1>2
  <2> QED
    BY <1>2, <1>4, <2>1
<1> DEFINE q == k - 1
<1>6. q \in 1 .. m /\ q + 1 = k /\ q \in 1 .. m + 1 /\ ~(k <= q)
  BY <1>1, <1>4, <1>5
<1> HIDE DEF q
<1>7. q \notin T
  BY <1>4, <1>6, Zenon
<1>8. ~(p < a[q]) /\ p < a[q + 1]
  BY <1>4, <1>6, <1>7
<1>9. a[q] \in Nat
  BY <1>2, <1>6
<1> QED
  BY <1>2, <1>6, <1>8, <1>9 DEF m

\* A line inside a command that begins with an Array has no length.
LEMMA LineStarts ==
    ASSUME NEW c \in Proper, NEW s \in Nat \ {0}, s < Len(RAW(c)), RAW(c)[s] = LF, RAW(c)[s + 1] = Array
    PROVE  s + 2 <= Len(RAW(c)) /\ RAW(c)[s + 2] \notin {43, 45} \cup 48 .. 57
<1>0. c \in Lists /\ Tame(c) /\ c \in Seq(Seq(Byte)) /\ Len(c) \in Nat
  BY LenProperties DEF Proper, Lists
<1>1. PICK a : PlacesOf(a, c)
  BY <1>0, Places
<1> DEFINE m == Len(c)
           L == Len(RAW(c))
           hd == Header(Array, m)
           p == s + 1
<1>2. /\ a \in [1 .. m + 1 -> Nat \ {0}] /\ a[1] = Len(hd) + 1 /\ a[m + 1] = L + 1
      /\ \A j \in 1 .. Len(hd) : RAW(c)[j] = hd[j]
  BY <1>1 DEF PlacesOf
<1>3. \A k \in 1 .. m : /\ a[k + 1] = a[k] + Len(Item(c[k]))
                        /\ \A j \in 1 .. Len(Item(c[k])) : RAW(c)[a[k] + j - 1] = Item(c[k])[j]
  BY <1>1 DEF PlacesOf
<1>4. L \in Nat /\ p \in 1 .. L
  <2>1. L \in Nat
    BY <1>0, CommandLong
  <2> HIDE DEF L
  <2> QED
    BY <2>1 DEF L
<1>5. ~(p < a[1])
  <2> SUFFICES ASSUME p < a[1] PROVE FALSE
    OBVIOUS
  <2>1. Array \in Byte /\ Array # LF
    BY DEF Array, Byte, LF
  <2> DEFINE w == Len(Decimal[m])
  <2>2. Len(hd) = w + 3 /\ w \in Nat \ {0}
    BY <1>0, <2>1, HeaderBytes
  <2>3. \A j \in 1 .. w + 2 : hd[j] # LF
    BY <1>0, <2>1, HeaderBytes
  <2> HIDE DEF w, hd
  <2>4. s \in 1 .. w + 2 /\ s \in 1 .. Len(hd)
    BY <1>2, <2>2
  <2>5. RAW(c)[s] = hd[s] /\ hd[s] # LF
    BY <1>2, <2>3, <2>4
  <2> QED
    BY <2>5
<1>6. PICK k \in 1 .. m : a[k] <= p /\ p < a[k + 1]
  <2>1. p >= a[1]
    <3>1. a[1] \in Nat
      BY <1>0, <1>2
    <3> QED
      BY <1>4, <1>5, <3>1
  <2> QED
    BY <1>0, <1>1, <1>4, <2>1, PlaceAt
<1> DEFINE v == c[k]
           it == Item(v)
           l == Len(it)
           h == Head3(v)
           n == Len(v)
           i == a[k]
           q == p - i + 1
<1>7. v \in Seq(Byte) /\ n \in Nat /\ k \in DOMAIN c
  <2>1. v \in Seq(Byte)
    BY <1>0, ElementOfSeq
  <2>2. k \in DOMAIN c
    BY <1>0, LenProperties
  <2> HIDE DEF v
  <2> QED
    BY <2>1, <2>2
<1>8. l = h + n + 2 /\ h \in Nat /\ h >= 4
  BY <1>7, ItemBytes
<1>9. \A j \in 1 .. h : it[j] = Header(BulkString, n)[j]
  BY <1>7, ItemBytes
<1>10. \A j \in 1 .. n : it[h + j] = v[j]
  BY <1>7, ItemBytes
<1>11. it[h + n + 1] = CR /\ it[h + n + 2] = LF
  BY <1>7, ItemBytes
<1>12. i \in Nat \ {0} /\ a[k + 1] = i + l /\ i + l <= L + 1
  <2>1. k \in 1 .. m + 1
    BY <1>0
  <2>2. i \in Nat \ {0}
    BY <1>2, <2>1
  <2>3. a[k + 1] = i + l
    BY <1>3
  <2> DEFINE T == {d \in 1 .. m + 1 : a[d] > L + 1}
  <2>4. T = {}
    <3> SUFFICES ASSUME T # {} PROVE FALSE
      OBVIOUS
    <3>0. {m + 1 - d : d \in T} \subseteq Nat /\ {m + 1 - d : d \in T} # {}
      BY <1>0
    <3>1. PICK x \in {m + 1 - d : d \in T} : \A y \in {m + 1 - d : d \in T} : x <= y
      BY <3>0, Least
    <3>2. PICK d \in T : x = m + 1 - d
      BY <3>1
    <3>3. \A y \in T : m + 1 - d <= m + 1 - y
      BY <3>1, <3>2
    <3>4. d # m + 1
      BY <1>2, <1>4, <3>2
    <3>5. d \in 1 .. m /\ d + 1 \in 1 .. m + 1 /\ d \in 1 .. m + 1
      BY <1>0, <3>2, <3>4
    <3>6. a[d + 1] = a[d] + Len(Item(c[d])) /\ a[d + 1] \in Nat /\ a[d] \in Nat
      BY <1>2, <1>3, <3>5
    <3>7. Len(Item(c[d])) \in Nat
      <4>1. c[d] \in Seq(Byte)
        BY <1>0, <3>5, ElementOfSeq
      <4>2. Item(c[d]) \in Seq(Byte)
        BY <4>1, ItemBytes
      <4> DEFINE u == Item(c[d])
      <4> HIDE DEF u
      <4>3. Len(u) \in Nat
        BY <4>2 DEF u
      <4> QED
        BY <4>3 DEF u
    <3>8. d + 1 \in T
      <4>1. a[d] > L + 1
        BY <3>2
      <4>2. a[d + 1] > L + 1
        BY <1>4, <3>6, <3>7, <4>1
      <4> QED
        BY <3>5, <4>2
    <3>9. m + 1 - d <= m + 1 - (d + 1)
      BY <3>3, <3>8
    <3> QED
      BY <1>0, <3>5, <3>9
  <2>5. k + 1 \in 1 .. m + 1
    BY <1>0
  <2>6. ~(a[k + 1] > L + 1) /\ a[k + 1] \in Nat
    BY <1>2, <2>4, <2>5
  <2> QED
    BY <1>4, <2>2, <2>3, <2>6
<1>13. \A j \in 1 .. l : RAW(c)[i + j - 1] = it[j]
  BY <1>3
<1>14. BulkString \in Byte /\ BulkString # LF /\ BulkString # Array /\ CR # Array /\ LF # Array
  BY DEF BulkString, Byte, LF, Array, CR
<1>15. Header(BulkString, n)[1] = BulkString /\ \A j \in 1 .. h - 1 : Header(BulkString, n)[j] # LF
  <2>1. Header(BulkString, n)[1] = BulkString
    BY <1>7, <1>14, HeaderBytes
  <2>2. \A j \in 1 .. Len(Decimal[n]) + 2 : Header(BulkString, n)[j] # LF
    BY <1>7, <1>14, HeaderBytes
  <2>3. h = Len(Decimal[n]) + 3 /\ Len(Decimal[n]) \in Nat
    BY <1>7, DecimalType DEF Head3
  <2>4. h - 1 = Len(Decimal[n]) + 2
    BY <2>3
  <2> QED
    BY <2>1, <2>2, <2>4
<1> HIDE DEF L, m, v, it, l, h, n, i
<1>16. q \in 1 .. l /\ i + q - 1 = p /\ q \in Nat
  BY <1>4, <1>6, <1>8, <1>7, <1>12 DEF i
<1> HIDE DEF q
<1>17. it[q] = Array
  BY <1>13, <1>16
<1>18. q > 1 => it[q - 1] = LF
  <2> SUFFICES ASSUME q > 1 PROVE it[q - 1] = LF
    OBVIOUS
  <2>1. q - 1 \in 1 .. l /\ i + (q - 1) - 1 = s
    BY <1>7, <1>8, <1>12, <1>16
  <2>2. RAW(c)[i + (q - 1) - 1] = it[q - 1]
    BY <1>13, <2>1
  <2> QED
    BY <2>1, <2>2
<1>19. q # 1
  <2> SUFFICES ASSUME q = 1 PROVE FALSE
    OBVIOUS
  <2>1. 1 \in 1 .. h
    BY <1>8
  <2> QED
    BY <1>9, <1>14, <1>15, <1>17, <2>1
<1>20. ~(q <= h)
  <2> SUFFICES ASSUME q <= h PROVE FALSE
    OBVIOUS
  <2>1. q - 1 \in 1 .. h - 1 /\ q - 1 \in 1 .. h /\ q > 1
    BY <1>8, <1>16, <1>19
  <2> QED
    BY <1>9, <1>15, <1>18, <2>1
<1>21. q # h + n + 1 /\ q # h + n + 2
  BY <1>11, <1>14, <1>17
<1> DEFINE j == q - h
<1>22. j \in 1 .. n /\ q = h + j /\ j \in Nat
  BY <1>7, <1>8, <1>16, <1>20, <1>21
<1> HIDE DEF j
<1>23. v[j] = Array
  BY <1>10, <1>17, <1>22
<1>24. j > 1 => v[j - 1] = LF
  <2> SUFFICES ASSUME j > 1 PROVE v[j - 1] = LF
    OBVIOUS
  <2>1. j - 1 \in 1 .. n /\ q - 1 = h + (j - 1) /\ q > 1
    BY <1>7, <1>8, <1>22
  <2> QED
    BY <1>10, <1>18, <2>1
<1>25. j = n \/ v[j + 1] \notin {43, 45} \cup 48 .. 57
  <2>1. j \in DOMAIN v
    BY <1>7, <1>22, LenProperties DEF n
  <2>2. \A x \in DOMAIN c[k] : c[k][x] = Array /\ (x > 1 => c[k][x - 1] = LF) =>
          x = Len(c[k]) \/ c[k][x + 1] \notin {43, 45} \cup 48 .. 57
    BY <1>0, <1>7 DEF Tame
  <2> HIDE DEF v
  <2>3. c[k] = v
    BY DEF v
  <2> QED
    BY <1>23, <1>24, <2>1, <2>2, <2>3 DEF n
<1>26. q + 1 \in 1 .. l /\ i + (q + 1) - 1 = s + 2 /\ s + 2 <= L
  BY <1>4, <1>8, <1>12, <1>16, <1>22, <1>7
<1>27. it[q + 1] \notin {43, 45} \cup 48 .. 57
  <2>1. CASE j = n
    <3>1. q + 1 = h + n + 1
      BY <1>22, <2>1
    <3>2. it[q + 1] = CR
      BY <1>11, <3>1
    <3>3. CR \notin {43, 45} \cup 48 .. 57
      BY DEF CR
    <3> QED
      BY <3>2, <3>3
  <2>2. CASE j # n
    <3>1. j + 1 \in 1 .. n /\ q + 1 = h + (j + 1)
      BY <1>7, <1>8, <1>22, <2>2
    <3>2. it[q + 1] = v[j + 1]
      BY <1>10, <3>1
    <3> QED
      BY <1>25, <2>2, <3>2
  <2> QED
    BY <2>1, <2>2
<1>28. RAW(c)[s + 2] = it[q + 1]
  BY <1>13, <1>26
<1> QED
  BY <1>26, <1>27, <1>28 DEF L

(***************************************************************************)
(* Readers.                                                                *)
(***************************************************************************)
\* A reader with a buffer in front of what is left of the stream W: its buffer
\* begins behind the first b bytes.
Reads(W, b, buf, str) ==
    /\ b \in Nat /\ W \in Seq(Byte) /\ buf \in Seq(Byte) /\ str \in Seq(Byte)
    /\ b + Len(buf) + Len(str) <= Len(W)
    /\ \A j \in 1 .. Len(buf) : buf[j] = W[b + j]
    /\ \A j \in 1 .. Len(str) : str[j] = W[b + Len(buf) + j]

\* What it has in front of it with another line.
Line(W, b, buf, f) ==
    /\ b \in Nat /\ W \in Seq(Byte) /\ buf \in Seq(Byte) /\ f \in Seq(Byte)
    /\ f # <<>> /\ f[Len(f)] = LF /\ Len(buf) < Len(f) /\ b + Len(f) <= Len(W)
    /\ \A j \in 1 .. Len(f) : f[j] = W[b + j]
    /\ \A j \in Len(buf) + 1 .. Len(f) - 1 : W[b + j] # LF

\* The reader behind a line: with what it has in front of it as its buffer, or
\* with no buffer.
ReadsNext(W, b, buf, str, f, t) ==
    /\ Line(W, b, buf, f) /\ Reads(W, b, f, t) /\ Reads(W, b + Len(f), <<>>, t)
    /\ Len(f) + Len(t) = Len(buf) + Len(str)

\* Reading a line.
LEMMA ReadsLine ==
    ASSUME NEW W, NEW b, NEW buf, NEW str, Reads(W, b, buf, str),
           NEW n \in 1 .. Len(str), FirstLine(str, n)
    PROVE  ReadsNext(W, b, buf, str, buf \o SubSeq(str, 1, n), SubSeq(str, n + 1, Len(str)))
<1> DEFINE f == buf \o SubSeq(str, 1, n)
           t == SubSeq(str, n + 1, Len(str))
<1>1. b \in Nat /\ W \in Seq(Byte) /\ buf \in Seq(Byte) /\ str \in Seq(Byte)
  BY DEF Reads
<1>2. /\ b + Len(buf) + Len(str) <= Len(W)
      /\ \A j \in 1 .. Len(buf) : buf[j] = W[b + j]
      /\ \A j \in 1 .. Len(str) : str[j] = W[b + Len(buf) + j]
  BY DEF Reads
<1>3. Len(buf) \in Nat /\ Len(str) \in Nat /\ Len(W) \in Nat /\ n \in 1 .. Len(str) /\ n \in Nat
  BY <1>1
<1> DEFINE g == SubSeq(str, 1, n)
<1>4. g \in Seq(Byte) /\ Len(g) = n /\ \A j \in 1 .. n : g[j] = str[j]
  <2>1. \A j \in 1 .. n : str[j] \in Byte
    BY <1>1, <1>3
  <2>2. 1 \in Int /\ n \in Int /\ 1 <= n /\ n - 1 + 1 = n
    BY <1>3
  <2>3. g \in Seq(Byte) /\ Len(g) = IF 1 <= n THEN n - 1 + 1 ELSE 0
    BY <2>1, <2>2, SubSeqProperties
  <2>4. \A j \in 1 .. n - 1 + 1 : g[j] = str[1 + j - 1]
    BY <2>1, <2>2, SubSeqProperties
  <2>5. \A j \in 1 .. n : 1 + j - 1 = j
    OBVIOUS
  <2> QED
    BY <2>2, <2>3, <2>4, <2>5
<1>5. t \in Seq(Byte) /\ Len(t) = Len(str) - n /\ \A j \in 1 .. Len(str) - n : t[j] = str[n + j]
  <2>1. \A j \in n + 1 .. Len(str) : str[j] \in Byte
    BY <1>1, <1>3
  <2>2. n + 1 \in Int /\ Len(str) \in Int /\ Len(str) - (n + 1) + 1 = Len(str) - n
    BY <1>3
  <2>3. t \in Seq(Byte) /\ Len(t) = IF n + 1 <= Len(str) THEN Len(str) - (n + 1) + 1 ELSE 0
    BY <2>1, <2>2, SubSeqProperties
  <2>4. \A j \in 1 .. Len(str) - (n + 1) + 1 : t[j] = str[n + 1 + j - 1]
    <3> DEFINE i == n + 1
               l == Len(str)
    <3>1. i \in Int /\ l \in Int /\ t = SubSeq(str, i, l) /\ \A j \in i .. l : str[j] \in Byte
      BY <2>1, <2>2
    <3> HIDE DEF i, l, t
    <3>2. \A j \in 1 .. l - i + 1 : t[j] = str[i + j - 1]
      BY <3>1, SubSeqProperties
    <3> QED
      BY <3>2 DEF i, l
  <2>5. \A j \in 1 .. Len(str) - n : n + 1 + j - 1 = n + j
    BY <1>3
  <2>6. Len(t) = Len(str) - n
    <3>1. n <= Len(str) /\ (~(n + 1 <= Len(str)) => Len(str) - n = 0)
      BY <1>3
    <3> HIDE DEF t
    <3> QED
      BY <2>2, <2>3, <3>1, Zenon
  <2> QED
    BY <2>2, <2>3, <2>4, <2>5, <2>6
<1>b. f = buf \o g
  OBVIOUS
<1> HIDE DEF f, t, g
<1>6. f \in Seq(Byte) /\ Len(f) = Len(buf) + n
      /\ (\A j \in 1 .. Len(buf) : f[j] = buf[j]) /\ \A j \in 1 .. n : f[Len(buf) + j] = g[j]
  <2>1. f = buf \o g
    BY <1>b
  <2>2. buf \o g \in Seq(Byte) /\ Len(buf \o g) = Len(buf) + Len(g)
    BY <1>1, <1>4, Joined
  <2>3. \A j \in 1 .. Len(buf) : (buf \o g)[j] = buf[j]
    BY <1>1, <1>4, Joined
  <2>4. \A j \in 1 .. Len(g) : (buf \o g)[Len(buf) + j] = g[j]
    BY <1>1, <1>4, Joined
  <2> QED
    BY <1>4, <2>1, <2>2, <2>3, <2>4
<1>a. /\ b \in Nat /\ Len(buf) \in Nat /\ Len(str) \in Nat /\ Len(W) \in Nat /\ n \in 1 .. Len(str)
      /\ Len(f) = Len(buf) + n /\ Len(t) = Len(str) - n /\ b + Len(buf) + Len(str) <= Len(W)
  BY <1>1, <1>2, <1>3, <1>5, <1>6
<1>7. \A j \in 1 .. Len(f) : f[j] = W[b + j]
  <2> TAKE j \in 1 .. Len(f)
  <2>1. CASE j <= Len(buf)
    BY <1>2, <1>3, <1>6, <2>1
  <2>2. CASE j > Len(buf)
    <3> DEFINE i == j - Len(buf)
    <3>1. i \in 1 .. n /\ Len(buf) + i = j /\ i \in 1 .. Len(str) /\ b + Len(buf) + i = b + j
      BY <1>1, <1>3, <1>6, <2>2
    <3> HIDE DEF i
    <3>2. f[Len(buf) + i] = str[i] /\ str[i] = W[b + Len(buf) + i]
      BY <1>2, <1>4, <1>6, <3>1
    <3> QED
      BY <3>1, <3>2
  <2> QED
    BY <1>3, <1>6, <2>1, <2>2
<1>8. f[Len(f)] = LF /\ f # <<>>
  <2>1. n \in 1 .. n /\ Len(f) # 0
    BY <1>3, <1>6
  <2>2. f[Len(f)] = str[n] /\ str[n] = LF
    BY <1>4, <1>6, <2>1 DEF FirstLine
  <2> QED
    BY <2>1, <2>2
<1>9. ASSUME NEW j \in Len(buf) + 1 .. Len(f) - 1 PROVE W[b + j] # LF
  <2> DEFINE i == j - Len(buf)
  <2>1. i \in 1 .. n - 1 /\ i \in 1 .. Len(str) /\ b + Len(buf) + i = b + j
    BY <1>a
  <2> HIDE DEF i
  <2>2. str[i] # LF /\ str[i] = W[b + Len(buf) + i]
    BY <1>2, <2>1 DEF FirstLine
  <2> QED
    BY <2>1, <2>2
<1>10. Len(f) \in Nat /\ Len(t) \in Nat /\ Len(buf) < Len(f) /\ b + Len(f) + Len(t) <= Len(W)
       /\ Len(f) + Len(t) = Len(buf) + Len(str) /\ b + Len(f) <= Len(W) /\ b + Len(f) \in Nat
       /\ Len(str) - n = Len(t)
  BY <1>a
<1>11. ASSUME NEW j \in 1 .. Len(t) PROVE t[j] = W[b + Len(f) + j]
  <2>0. j \in 1 .. Len(str) - n
    BY <1>10
  <2>1. j \in 1 .. Len(str) - n /\ n + j \in 1 .. Len(str) /\ b + Len(buf) + (n + j) = b + Len(f) + j
    BY <1>a, <2>0
  <2>2. t[j] = str[n + j] /\ str[n + j] = W[b + Len(buf) + (n + j)]
    BY <1>2, <1>5, <2>1
  <2> QED
    BY <2>1, <2>2
<1>12. Line(W, b, buf, f)
  BY <1>1, <1>6, <1>7, <1>8, <1>9, <1>10 DEF Line
<1>13. Reads(W, b, f, t)
  BY <1>1, <1>5, <1>6, <1>7, <1>10, <1>11 DEF Reads
<1>14. Reads(W, b + Len(f), <<>>, t)
  <2>1. <<>> \in Seq(Byte) /\ Len(<<>>) = 0
    BY EmptySeq
  <2>2. b + Len(f) + Len(<<>>) = b + Len(f)
    BY <1>10, <2>1
  <2>3. \A j \in 1 .. Len(<<>>) : <<>>[j] = W[b + Len(f) + j]
    BY <2>1
  <2>4. \A j \in 1 .. Len(t) : t[j] = W[b + Len(f) + Len(<<>>) + j]
    BY <1>11, <2>2
  <2>5. b + Len(f) + Len(<<>>) + Len(t) <= Len(W)
    BY <1>10, <2>2
  <2> QED
    BY <1>1, <1>5, <1>10, <2>1, <2>3, <2>4, <2>5 DEF Reads
<1> QED
  BY <1>10, <1>12, <1>13, <1>14 DEF ReadsNext, f, t

\* A buffer that began at a command and did not complete it.
LEMMA AtCommand ==
    ASSUME NEW s \in Seq(Lists), NEW W, NEW e, Laid(W, e, s), NEW b, NEW buf, NEW f, Line(W, b, buf, f),
           NEW k \in 1 .. Len(s), b = e[k - 1], Len(buf) < Complete(s[k])
    PROVE  Len(f) <= Complete(s[k]) /\ CommandOf(s[k], Len(f), ParseResp(f, 1))
<1> DEFINE c == s[k]
           L == Len(RAW(c))
           D == Complete(c)
<1>1. /\ b \in Nat /\ Len(buf) \in Nat /\ Len(f) \in Nat /\ f \in Seq(Byte) /\ f # <<>> /\ f[Len(f)] = LF
      /\ \A j \in 1 .. Len(f) : f[j] = W[b + j]
  BY DEF Line
<1>2. \A j \in Len(buf) + 1 .. Len(f) - 1 : W[b + j] # LF
  BY DEF Line
<1>3. c \in Lists /\ L \in Nat
  BY LaidPlace
<1>4. \A j \in 1 .. L : W[b + j] = RAW(c)[j]
  BY LaidPlace
<1>5. D \in Nat /\ D >= 4 /\ RAW(c)[D] = LF /\ D <= L
  <2>1. D \in Nat /\ D >= 4 /\ RAW(c)[D] = LF
    BY <1>3, CommandEnds
  <2>2. D <= L
    BY <1>3, CommandLong
  <2> QED
    BY <2>1, <2>2
<1> HIDE DEF L, D, c
<1>6. Len(buf) < D
  BY DEF D, c
<1>7. Len(f) <= D
  <2> SUFFICES ASSUME ~(Len(f) <= D) PROVE FALSE
    OBVIOUS
  <2>1. D \in Len(buf) + 1 .. Len(f) - 1 /\ D \in 1 .. L
    BY <1>1, <1>3, <1>5, <1>6
  <2> QED
    BY <1>2, <1>4, <1>5, <2>1
<1>8. Holds(f, 1, RAW(c))
  <2> SUFFICES ASSUME NEW j \in 1 .. L, 1 + j - 1 <= Len(f) PROVE f[1 + j - 1] = RAW(c)[j]
    BY DEF Holds, L
  <2>1. j \in 1 .. Len(f) /\ 1 + j - 1 = j
    BY <1>1, <1>3
  <2> QED
    BY <1>1, <1>4, <2>1
<1>9. CommandOf(c, Len(f), ParseResp(f, 1))
  BY <1>1, <1>3, <1>8, CommandRead
<1> QED
  BY <1>7, <1>9 DEF c, D

\* A line end alone.
OnlyLineEnd(f) == Len(f) = 2 /\ ParseResp(f, 1).err = "invalid input"

\* A buffer that begins at the line end of a command.
LEMMA AtLineEnd ==
    ASSUME NEW s \in Seq(Lists), NEW W, NEW e, Laid(W, e, s), NEW b, NEW f, Line(W, b, <<>>, f),
           NEW k \in 1 .. Len(s), b = e[k] - 2
    PROVE  OnlyLineEnd(f)
<1> DEFINE c == s[k]
           L == Len(RAW(c))
           n == Len(f)
<1>1. /\ b \in Nat /\ n \in Nat /\ f \in Seq(Byte) /\ f[n] = LF /\ n > 0
      /\ \A j \in 1 .. n : f[j] = W[b + j]
  <2>1. Len(<<>>) = 0
    BY EmptySeq
  <2> QED
    BY <2>1 DEF Line
<1>2. \A j \in 1 .. n - 1 : W[b + j] # LF
  <2>1. Len(<<>>) + 1 = 1
    BY EmptySeq
  <2> QED
    BY <2>1 DEF Line
<1>3. c \in Lists /\ L \in Nat /\ e[k] = e[k - 1] + L /\ e[k - 1] \in Nat
  BY LaidPlace
<1>4. \A j \in 1 .. L : W[e[k - 1] + j] = RAW(c)[j]
  BY LaidPlace
<1>5. L >= 4
  BY <1>3, CommandLong
<1>6. RAW(c)[L - 1] = CR /\ RAW(c)[L] = LF
  BY <1>3, CommandEnds
<1> HIDE DEF c, L, n
<1>7. W[b + 1] = CR /\ W[b + 2] = LF
  <2>1. L - 1 \in 1 .. L /\ L \in 1 .. L /\ e[k - 1] + (L - 1) = b + 1 /\ e[k - 1] + L = b + 2
    BY <1>3, <1>5
  <2> QED
    BY <1>4, <1>6, <2>1
<1>8. CR # LF
  BY DEF CR, LF
<1>9. n # 1
  BY <1>1, <1>7, <1>8
<1>10. ~(n > 2)
  <2> SUFFICES ASSUME n > 2 PROVE FALSE
    OBVIOUS
  <2>1. 2 \in 1 .. n - 1
    BY <1>1
  <2> QED
    BY <1>2, <1>7, <2>1
<1>11. n = 2
  BY <1>1, <1>9, <1>10
<1>12. readLine(f, 1) = Err("invalid input")
  <2>1. 2 \in 1 .. Len(f) /\ f[2] = LF /\ Len(f) \in Nat /\ 2 - 1 < 2
    BY <1>1, <1>11 DEF n
  <2>2. \A j \in 1 .. 2 - 1 : f[j] # LF
    BY <1>1, <1>7, <1>8, <1>11
  <2> QED
    BY <2>1, <2>2, LineIs
<1>13. ParseResp(f, 1) = Err("invalid input")
  <2>1. Err("invalid input").err # "none"
    BY DEF Err
  <2> QED
    BY <1>12, <2>1, Zenon DEF ParseResp, Value
<1> QED
  BY <1>11, <1>13, ErrIs DEF n, OnlyLineEnd

\* What is parsed as an Array began with a command.
LEMMA AtArray ==
    ASSUME NEW s \in Seq(Proper), NEW W, NEW e, Laid(W, e, s), NEW b, NEW buf, NEW f, Line(W, b, buf, f),
           b # 0 => W[b] = LF, ParseResp(f, 1).err = "none", ParseResp(f, 1).type = Array
    PROVE  \E k \in 1 .. Len(s) : b = e[k - 1]
<1> DEFINE n == Len(f)
<1>0. s \in Seq(Lists)
  BY DEF Proper
<1>1. b \in Nat /\ n \in Nat \ {0} /\ f \in Seq(Byte) /\ f[n] = LF /\ b + n <= Len(W) /\ Len(W) \in Nat
  <2>1. b \in Nat /\ f \in Seq(Byte) /\ f # <<>> /\ f[n] = LF /\ b + n <= Len(W) /\ W \in Seq(Byte)
    BY DEF Line
  <2> QED
    BY <2>1
<1>2. \A j \in 1 .. n : f[j] = W[b + j]
  BY DEF Line
<1>3. f[1] = Array
  <2>1. Forward(Elements(f)) /\ 1 \in Nat \ {0}
    BY <1>1, ElementsDef
  <2>2. Value(f, 1, Elements(f)).err = "none"
    BY DEF ParseResp
  <2>3. Value(f, 1, Elements(f)).type = f[1]
    BY <1>1, <2>1, <2>2, ValueAhead
  <2> QED
    BY <2>3 DEF ParseResp
<1> HIDE DEF n
<1>4. W[b + 1] = Array /\ b + 1 \in 1 .. Len(W)
  BY <1>1, <1>2, <1>3
<1>5. PICK k \in 1 .. Len(s) : e[k - 1] < b + 1 /\ b + 1 <= e[k]
  BY <1>0, <1>4, LaidAt
<1> DEFINE c == s[k]
           L == Len(RAW(c))
           d == b - e[k - 1]
<1>6. c \in Proper /\ L \in Nat /\ e[k] = e[k - 1] + L /\ e[k - 1] \in Nat
  <2>1. L \in Nat /\ e[k] = e[k - 1] + L /\ e[k - 1] \in Nat
    BY <1>0, LaidPlace
  <2> QED
    BY <2>1
<1>7. \A j \in 1 .. L : W[e[k - 1] + j] = RAW(c)[j]
  BY <1>0, LaidPlace
<1> HIDE DEF c, L
<1>8. SUFFICES ASSUME b # e[k - 1] PROVE FALSE
  OBVIOUS
<1>9. d \in Nat \ {0} /\ d < L /\ e[k - 1] + d = b
  <2>1. b \in Nat
    BY <1>1
  <2> QED
    BY <2>1, <1>5, <1>6, <1>8
<1> HIDE DEF d
<1>10. RAW(c)[d] = LF /\ RAW(c)[d + 1] = Array
  <2>1. d \in 1 .. L /\ d + 1 \in 1 .. L /\ e[k - 1] + (d + 1) = b + 1 /\ b # 0
    BY <1>6, <1>9
  <2> QED
    BY <1>4, <1>7, <1>9, <2>1
<1>11. d + 2 <= L /\ RAW(c)[d + 2] \notin {43, 45} \cup 48 .. 57
  BY <1>6, <1>9, <1>10, LineStarts DEF L
<1>12. W[b + 2] \notin {43, 45} \cup 48 .. 57
  <2>0. d + 2 <= L
    BY <1>11
  <2>1. d + 2 \in 1 .. L /\ e[k - 1] + (d + 2) = b + 2
    BY <1>6, <1>9, <2>0
  <2> QED
    BY <1>7, <1>11, <2>1
<1>13. n >= 2 /\ f[2] \notin {43, 45} \cup 48 .. 57
  <2>1. n # 1
    BY <1>1, <1>3 DEF LF, Array
  <2>2. 2 \in 1 .. n /\ n >= 2
    BY <1>1, <2>1
  <2>3. f[2] = W[b + 2]
    BY <1>2, <2>2
  <2> QED
    BY <1>12, <2>2, <2>3, Zenon
<1> DEFINE line == readLine(f, 1)
<1>14. CASE line.err # "none"
  <2>1. Value(f, 1, Elements(f)) = line
    BY <1>14, Zenon DEF Value
  <2> QED
    BY <1>14, <2>1 DEF ParseResp
<1>15. CASE line.err = "none"
  <2>1. /\ line.data \in Seq(Byte) /\ line.data # <<>> /\ line.data[1] = f[1]
        /\ \A j \in 1 .. Len(line.data) : line.data[j] = f[1 + j - 1]
    BY <1>1, <1>15, LineType
  <2> HIDE DEF line
  <2>2. Len(line.data) > 1 => line.data[2] \notin {43, 45} \cup 48 .. 57
    <3> SUFFICES ASSUME Len(line.data) > 1 PROVE line.data[2] = f[2]
      BY <1>13
    <3>1. 2 \in 1 .. Len(line.data) /\ 1 + 2 - 1 = 2
      BY <2>1
    <3> QED
      BY <2>1, <3>1
  <2>3. parseLen(line.data) = -2
    BY <2>1, <2>2, NoLength
  <2>4. Array \notin Bulk /\ Array \notin Simple /\ Array \in Arrays \cup {Map}
    BY DEF Array, Bulk, BulkString, Simple, SimpleString, Map, Arrays
  <2>5. line.data[1] = Array /\ Err("invalid length").err # "none"
    BY <1>3, <2>1 DEF Err
  <2>6. Value(f, 1, Elements(f)) = [Err("invalid length") EXCEPT !.type = Array]
    BY <1>15, <2>3, <2>4, <2>5, Zenon DEF Value, line
  <2>7. [Err("invalid length") EXCEPT !.type = Array].err = "invalid length"
    BY DEF Err
  <2> QED
    BY <2>6, <2>7 DEF ParseResp
<1> QED
  BY <1>14, <1>15

\* More of the stream.
LEMMA ReadsMore ==
    ASSUME NEW W, NEW b, NEW buf, NEW str, Reads(W, b, buf, str),
           b + Len(buf) + Len(str) = Len(W), NEW x \in Seq(Byte)
    PROVE  /\ Reads(W \o x, b, buf, str \o x)
           /\ b + Len(buf) + Len(str \o x) = Len(W \o x)
           /\ \A j \in 1 .. Len(W) : (W \o x)[j] = W[j]
<1>1. b \in Nat /\ W \in Seq(Byte) /\ buf \in Seq(Byte) /\ str \in Seq(Byte)
  BY DEF Reads
<1>2. /\ \A j \in 1 .. Len(buf) : buf[j] = W[b + j]
      /\ \A j \in 1 .. Len(str) : str[j] = W[b + Len(buf) + j]
  BY DEF Reads
<1> DEFINE V == W \o x
           t == str \o x
<1>3. V \in Seq(Byte) /\ Len(V) = Len(W) + Len(x) /\ Len(W) \in Nat /\ Len(x) \in Nat
  BY <1>1, Joined
<1>4. \A j \in 1 .. Len(W) : V[j] = W[j]
  BY <1>1, Joined
<1>5. \A j \in 1 .. Len(x) : V[Len(W) + j] = x[j]
  BY <1>1, Joined
<1>6. t \in Seq(Byte) /\ Len(t) = Len(str) + Len(x) /\ Len(str) \in Nat /\ Len(buf) \in Nat
  BY <1>1, Joined
<1>7. \A j \in 1 .. Len(str) : t[j] = str[j]
  BY <1>1, Joined
<1>8. \A j \in 1 .. Len(x) : t[Len(str) + j] = x[j]
  BY <1>1, Joined
<1> HIDE DEF V, t
<1> DEFINE lb == Len(buf)
           ls == Len(str)
           lx == Len(x)
           lw == Len(W)
<1>9. lb \in Nat /\ ls \in Nat /\ lx \in Nat /\ lw \in Nat /\ b \in Nat /\ b + lb + ls = lw
      /\ Len(t) = ls + lx /\ Len(V) = lw + lx
  BY <1>1, <1>3, <1>6
<1> HIDE DEF lb, ls, lx, lw
<1>10. b + lb + Len(t) = Len(V) /\ b + lb + Len(t) <= Len(V)
  BY <1>9
<1>11. ASSUME NEW j \in 1 .. lb PROVE buf[j] = V[b + j]
  <2>1. b + j \in 1 .. lw
    BY <1>9
  <2> QED
    BY <1>2, <1>4, <2>1 DEF lb, lw
<1>12. ASSUME NEW j \in 1 .. Len(t) PROVE t[j] = V[b + lb + j]
  <2>1. CASE j <= ls
    <3>1. j \in 1 .. ls /\ b + lb + j \in 1 .. lw
      BY <1>9, <2>1
    <3> QED
      BY <1>2, <1>4, <1>7, <3>1 DEF lb, lw, ls
  <2>2. CASE j > ls
    <3> DEFINE i == j - ls
    <3>1. i \in 1 .. lx /\ ls + i = j /\ b + lb + j = lw + i
      BY <1>9, <2>2
    <3> HIDE DEF i
    <3>2. t[ls + i] = x[i] /\ V[lw + i] = x[i]
      BY <1>5, <1>8, <3>1 DEF lx, lw, ls
    <3> QED
      BY <3>1, <3>2
  <2> QED
    BY <1>9, <2>1, <2>2
<1>13. Reads(V, b, buf, t)
  BY <1>1, <1>3, <1>6, <1>10, <1>11, <1>12 DEF Reads, lb
<1> QED
  BY <1>4, <1>10, <1>13 DEF V, t, lb

\* Less of the stream.
LEMMA ReadsLess ==
    ASSUME NEW W, NEW b, NEW buf, NEW str, Reads(W, b, buf, str), NEW n \in 0 .. Len(str)
    PROVE  Reads(W, b, buf, SubSeq(str, 1, n))
<1>1. b \in Nat /\ W \in Seq(Byte) /\ buf \in Seq(Byte) /\ str \in Seq(Byte)
  BY DEF Reads
<1>2. /\ b + Len(buf) + Len(str) <= Len(W)
      /\ \A j \in 1 .. Len(buf) : buf[j] = W[b + j]
      /\ \A j \in 1 .. Len(str) : str[j] = W[b + Len(buf) + j]
  BY DEF Reads
<1> DEFINE t == SubSeq(str, 1, n)
<1>3. Len(buf) \in Nat /\ Len(str) \in Nat /\ Len(W) \in Nat /\ n \in Nat /\ n <= Len(str)
  BY <1>1
<1>4. t \in Seq(Byte) /\ Len(t) = n /\ \A j \in 1 .. n : t[j] = str[j]
  <2>1. \A j \in 1 .. n : str[j] \in Byte
    BY <1>1, <1>3
  <2>2. 1 \in Int /\ n \in Int /\ n - 1 + 1 = n
    BY <1>3
  <2>3. t \in Seq(Byte) /\ Len(t) = IF 1 <= n THEN n - 1 + 1 ELSE 0
    BY <2>1, <2>2, SubSeqProperties
  <2>4. \A j \in 1 .. n - 1 + 1 : t[j] = str[1 + j - 1]
    BY <2>1, <2>2, SubSeqProperties
  <2>5. \A j \in 1 .. n : 1 + j - 1 = j
    OBVIOUS
  <2>6. ~(1 <= n) => n = 0
    BY <1>3
  <2> HIDE DEF t
  <2>7. Len(t) = n
    BY <2>2, <2>3, <2>6, Zenon
  <2> QED
    BY <2>2, <2>3, <2>4, <2>5, <2>7
<1> HIDE DEF t
<1>5. b + Len(buf) + Len(t) <= Len(W)
  BY <1>1, <1>2, <1>3, <1>4
<1>6. \A j \in 1 .. Len(t) : t[j] = W[b + Len(buf) + j]
  BY <1>2, <1>3, <1>4
<1>7. Reads(W, b, buf, t)
  BY <1>1, <1>2, <1>4, <1>5, <1>6 DEF Reads
<1> QED
  BY <1>7 DEF t

\* What a client sends is what the master propagates.
LEMMA SentIsRaw == \A c \in Lists : WriteStringSlice(c) = RAW(c)
<1> SUFFICES ASSUME NEW c \in Lists PROVE WriteStringSlice(c) = RAW(c)
  OBVIOUS
<1>1. DOMAIN c = 1 .. Len(c)
  BY LenProperties DEF Lists
<1>2. WriteStringSlice(c) = Header(Array, Len(c)) \o FlattenSeq([i \in 1 .. Len(c) |-> Item(c[i])])
  BY <1>1 DEF WriteStringSlice, writeBytesWithType, Header, Item
<1> QED
  BY <1>2, RawIs

\* The plain commands.
LEMMA PlainIs ==
    ASSUME NEW c \in Lists
    PROVE  Plain(c) <=> PlainList(c)
<1>1. c \in Seq(Seq(Byte)) /\ DOMAIN c = 1 .. Len(c)
  BY LenProperties DEF Lists
<1>2. ASSUME NEW i \in 1 .. Len(c)
      PROVE  LF \in Range(SubSeq(c[i], 1, Len(c[i]) - 1)) <=> Broken(c[i])
  <2> DEFINE v == c[i]
             n == Len(v) - 1
             u == SubSeq(v, 1, n)
  <2>1. v \in Seq(Byte)
    BY <1>1, ElementOfSeq
  <2> HIDE DEF v
  <2>2. Len(v) \in Nat /\ n \in Int /\ 1 \in Int /\ \A j \in 1 .. n : v[j] \in Byte
    BY <2>1
  <2>3. u \in Seq(Byte) /\ Len(u) = IF 1 <= n THEN n - 1 + 1 ELSE 0
    BY <2>2, SubSeqProperties
  <2>4. \A j \in 1 .. n - 1 + 1 : u[j] = v[1 + j - 1]
    BY <2>2, SubSeqProperties
  <2>5. n - 1 + 1 = n /\ \A j \in 1 .. n : 1 + j - 1 = j
    BY <2>2
  <2>6. 1 .. Len(u) = 1 .. n
    <3>1. CASE 1 <= n
      BY <2>3, <2>5, <3>1
    <3>2. CASE ~(1 <= n)
      <4>1. Len(u) = 0
        BY <2>3, <3>2
      <4>2. 1 .. 0 = {} /\ 1 .. n = {}
        BY <2>2, <3>2
      <4> QED
        BY <4>1, <4>2
    <3> QED
      BY <3>1, <3>2
  <2>7. \A j \in 1 .. n : u[j] = v[j]
    BY <2>4, <2>5
  <2> HIDE DEF u
  <2>8. Range(u) = {u[j] : j \in 1 .. Len(u)}
    BY <2>3, RangeEquality
  <2>9. LF \in Range(u) <=> \E j \in 1 .. n : v[j] = LF
    BY <2>6, <2>7, <2>8
  <2> QED
    BY <2>9 DEF Broken, u, v
<1> QED
  BY <1>1, <1>2 DEF Plain, PlainList

(***************************************************************************)
(* The connection.                                                         *)
(***************************************************************************)
\* The connection in front of the stream W of what was sent: its buffer begins
\* with a line, command i that was taken is the one sent as at[i], and was
\* taken off the stream in front of the buffer.
Stands(W, e, b, at) ==
    /\ sent \in Seq(Lists) /\ Laid(W, e, sent) /\ Reads(W, b, buffer, wire)
    /\ b # 0 => W[b] = LF
    /\ open \in BOOLEAN
    /\ open => b + Len(buffer) + Len(wire) = Len(W)
    /\ taken \in Seq(Lists) /\ at \in [1 .. Len(taken) -> 1 .. Len(sent)]
    /\ \A i \in 1 .. Len(taken) :
         /\ taken[i] = sent[at[i]] /\ e[at[i] - 1] < b /\ i <= at[i]
         /\ \A j \in 1 .. i - 1 : at[j] < at[i]

\* What it does there: it waits for the rest of a command, or offers one.
Offers(e, b) ==
    /\ pc \in {"reading", "sending", "leaving"}
    /\ pc = "sending" =>
         \E k \in 1 .. Len(sent) : b = e[k - 1] /\ msg = sent[k] /\ Len(buffer) = Complete(sent[k])
    /\ pc # "sending" => msg = <<>>
    /\ pc = "reading" =>
         \A k \in 1 .. Len(sent) : b = e[k - 1] => Len(buffer) < Complete(sent[k])

\* While only plain commands were sent, the next command or the line end in
\* front of it is next.
OutOfStep(s, n) == \E i \in 1 .. n : i <= Len(s) /\ ~PlainList(s[i])
KeepsStep(e, b, at) ==
    /\ \A i \in 1 .. Len(taken) : OutOfStep(sent, i) \/ at[i] = i
    /\ \/ OutOfStep(sent, Len(taken) + 1)
       \/ b = e[Len(taken)]
       \/ Len(taken) >= 1 /\ b = e[Len(taken)] - 2 /\ buffer = <<>> /\ pc # "sending"

ClientInv ==
    \E W, e, b, at : Stands(W, e, b, at) /\ Offers(e, b) /\ KeepsStep(e, b, at)

\* No more commands are taken than were sent.
LEMMA TakenFewer ==
    ASSUME NEW W, NEW e, NEW b, NEW at, Stands(W, e, b, at)
    PROVE  Len(taken) \in Nat /\ Len(sent) \in Nat /\ Len(taken) <= Len(sent)
<1>1. Len(taken) \in Nat /\ Len(sent) \in Nat
  BY DEF Stands
<1>2. CASE Len(taken) = 0
  BY <1>1, <1>2
<1>3. CASE Len(taken) # 0
  <2>1. Len(taken) \in 1 .. Len(taken)
    BY <1>1, <1>3
  <2>2. at[Len(taken)] \in 1 .. Len(sent) /\ Len(taken) <= at[Len(taken)]
    BY <2>1 DEF Stands
  <2> QED
    BY <1>1, <2>2
<1> QED
  BY <1>2, <1>3

\* The first state.
LEMMA ClientInit == Init => ClientInv
<1> SUFFICES ASSUME Init PROVE ClientInv
  OBVIOUS
<1> DEFINE e == [k \in 0 .. 0 |-> 0]
           at == [k \in 1 .. 0 |-> 1]
<1>1. sent = <<>> /\ taken = <<>> /\ wire = <<>> /\ buffer = <<>> /\ pc = "reading" /\ msg = <<>> /\ open = TRUE
  BY DEF Init
<1>2. Laid(<<>>, e, <<>>)
  BY LaidEmpty
<1>3. <<>> \in Seq(Byte) /\ <<>> \in Seq(Lists) /\ Len(<<>>) = 0
  BY EmptySeq
<1>4. Reads(<<>>, 0, <<>>, <<>>)
  BY <1>3 DEF Reads
<1>5. e[0] = 0
  OBVIOUS
<1> HIDE DEF e
<1>6. Stands(<<>>, e, 0, at)
  BY <1>1, <1>2, <1>3, <1>4 DEF Stands
<1>7. Offers(e, 0)
  BY <1>1, <1>3 DEF Offers
<1>8. KeepsStep(e, 0, at)
  BY <1>1, <1>3, <1>5 DEF KeepsStep
<1> QED
  BY <1>6, <1>7, <1>8 DEF ClientInv

\* A command is sent.
LEMMA ClientSend ==
    ASSUME NEW c \in Lists, Send(c), ClientInv
    PROVE  ClientInv'
<1>1. PICK W, e, b, at : Stands(W, e, b, at) /\ Offers(e, b) /\ KeepsStep(e, b, at)
  BY DEF ClientInv
<1> DEFINE n == Len(sent)
           V == W \o RAW(c)
<1>2. /\ open /\ sent' = Append(sent, c) /\ wire' = wire \o RAW(c)
      /\ open' = open /\ buffer' = buffer /\ pc' = pc /\ msg' = msg /\ taken' = taken
  BY SentIsRaw DEF Send, connVars
<1>3. /\ sent \in Seq(Lists) /\ Laid(W, e, sent) /\ Reads(W, b, buffer, wire)
      /\ (b # 0 => W[b] = LF) /\ b + Len(buffer) + Len(wire) = Len(W)
      /\ taken \in Seq(Lists) /\ at \in [1 .. Len(taken) -> 1 .. n] /\ open \in BOOLEAN
  BY <1>1, <1>2 DEF Stands
<1>4. \A i \in 1 .. Len(taken) :
         /\ taken[i] = sent[at[i]] /\ e[at[i] - 1] < b /\ i <= at[i]
         /\ \A j \in 1 .. i - 1 : at[j] < at[i]
  BY <1>1 DEF Stands
<1>5. sent \in Seq(Lists) /\ c \in Lists
  BY <1>3
<1>6. PICK g : Laid(V, g, Append(sent, c)) /\ \A k \in 0 .. n : g[k] = e[k]
  BY <1>3, <1>5, LaidNext
<1>7. RAW(c) \in Seq(Byte)
  BY <1>5, CommandEnds
<1>8. Reads(V, b, buffer, wire') /\ b + Len(buffer) + Len(wire') = Len(V)
  BY <1>2, <1>3, <1>7, ReadsMore
<1>9. \A j \in 1 .. Len(W) : V[j] = W[j]
  BY <1>3, <1>7, ReadsMore
<1>10. b \in Nat /\ Len(W) \in Nat /\ b <= Len(W) /\ Len(buffer) \in Nat /\ Len(wire) \in Nat
  <2>1. b \in Nat /\ W \in Seq(Byte) /\ buffer \in Seq(Byte) /\ wire \in Seq(Byte)
    BY <1>3 DEF Reads
  <2>2. Len(W) \in Nat /\ Len(buffer) \in Nat /\ Len(wire) \in Nat
    BY <2>1
  <2>3. b + Len(buffer) + Len(wire) = Len(W)
    BY <1>3
  <2>4. b <= Len(W)
    BY <2>1, <2>2, <2>3
  <2> QED
    BY <2>1, <2>2, <2>4
<1>11. b # 0 => V[b] = LF
  BY <1>3, <1>9, <1>10
<1> HIDE DEF V
<1>12. n \in Nat /\ Len(sent') = n + 1 /\ sent'[n + 1] = c /\ sent' \in Seq(Lists)
       /\ \A k \in 1 .. n : sent'[k] = sent[k]
  BY <1>2, <1>3, AppendProperties
<1> HIDE DEF n
<1>13. Stands(V, g, b, at)'
  <2>1. ASSUME NEW i \in 1 .. Len(taken)
        PROVE  /\ taken[i] = sent'[at[i]] /\ g[at[i] - 1] < b /\ i <= at[i]
               /\ \A j \in 1 .. i - 1 : at[j] < at[i]
    <3>1. at[i] \in 1 .. n
      BY <1>3
    <3>2. at[i] - 1 \in 0 .. n
      BY <1>12, <3>1
    <3>3. sent'[at[i]] = sent[at[i]] /\ g[at[i] - 1] = e[at[i] - 1]
      BY <1>6, <1>12, <3>1, <3>2
    <3> QED
      BY <1>4, <3>3
  <2>2. at \in [1 .. Len(taken) -> 1 .. n + 1]
    <3>1. 1 .. n \subseteq 1 .. n + 1
      BY <1>12
    <3> QED
      BY <1>3, <3>1
  <2>3. Laid(V, g, sent')
    BY <1>2, <1>6
  <2>4. Reads(V, b, buffer', wire') /\ b + Len(buffer') + Len(wire') = Len(V)
    BY <1>2, <1>8
  <2> QED
    BY <1>2, <1>3, <1>11, <1>12, <2>1, <2>2, <2>3, <2>4 DEF Stands
<1>14. Offers(g, b)'
  <2>1. ASSUME pc = "sending"
        PROVE  \E k \in 1 .. n + 1 : b = g[k - 1] /\ msg = sent'[k] /\ Len(buffer) = Complete(sent'[k])
    <3>1. PICK k \in 1 .. n : b = e[k - 1] /\ msg = sent[k] /\ Len(buffer) = Complete(sent[k])
      BY <1>1, <2>1 DEF Offers, n
    <3>2. k \in 1 .. n + 1 /\ k - 1 \in 0 .. n
      BY <1>12
    <3>3. sent'[k] = sent[k] /\ g[k - 1] = e[k - 1]
      BY <1>6, <1>12, <3>2
    <3> QED
      BY <3>1, <3>2, <3>3
  <2>2. ASSUME pc = "reading", NEW k \in 1 .. n + 1, b = g[k - 1]
        PROVE  Len(buffer) < Complete(sent'[k])
    <3>1. CASE k \in 1 .. n
      <4>1. k - 1 \in 0 .. n
        BY <1>12, <3>1
      <4>2. sent'[k] = sent[k] /\ g[k - 1] = e[k - 1]
        BY <1>6, <1>12, <3>1, <4>1
      <4>3. b = e[k - 1] => Len(buffer) < Complete(sent[k])
        BY <1>1, <2>2, <3>1 DEF Offers, n
      <4> QED
        BY <2>2, <4>2, <4>3
    <3>2. CASE k = n + 1
      <4>1. g[n] = e[n] /\ e[n] = Len(W) /\ k - 1 = n
        <5>1. e[n] = Len(W)
          BY <1>3 DEF Laid, n
        <5> QED
          BY <1>6, <1>12, <3>2, <5>1
      <4>2. Len(buffer) = 0
        BY <1>3, <1>10, <2>2, <4>1
      <4>3. Complete(c) \in Nat /\ Complete(c) >= 4
        BY <1>5, CommandEnds
      <4> QED
        BY <1>12, <3>2, <4>2, <4>3
    <3> QED
      BY <1>12, <3>1, <3>2
  <2> QED
    BY <1>1, <1>2, <1>12, <2>1, <2>2 DEF Offers
<1>15. KeepsStep(g, b, at)'
  <2>0. Len(taken) \in Nat /\ Len(taken) <= n /\ Len(taken) \in 0 .. n
    BY <1>1, TakenFewer DEF n
  <2>1. ASSUME NEW k, OutOfStep(sent, k) PROVE OutOfStep(sent', k)
    <3>1. PICK i \in 1 .. k : i <= n /\ ~PlainList(sent[i])
      BY <2>1 DEF OutOfStep, n
    <3>2. i \in 1 .. n /\ i <= n + 1
      BY <1>12, <3>1
    <3>3. sent'[i] = sent[i]
      BY <1>12, <3>2
    <3> QED
      BY <1>12, <3>1, <3>2, <3>3 DEF OutOfStep
  <2>2. g[Len(taken)] = e[Len(taken)]
    BY <1>6, <2>0
  <2>3. \A i \in 1 .. Len(taken) : OutOfStep(sent', i) \/ at[i] = i
    BY <1>1, <2>1 DEF KeepsStep
  <2>4. \/ OutOfStep(sent, Len(taken) + 1)
        \/ b = e[Len(taken)]
        \/ Len(taken) >= 1 /\ b = e[Len(taken)] - 2 /\ buffer = <<>> /\ pc # "sending"
    BY <1>1 DEF KeepsStep
  <2>5. OutOfStep(sent, Len(taken) + 1) => OutOfStep(sent', Len(taken) + 1)
    BY <2>1
  <2>6. taken' = taken /\ buffer' = buffer /\ pc' = pc
    BY <1>2
  <2> QED
    BY <2>2, <2>3, <2>4, <2>5, <2>6 DEF KeepsStep
<1> QED
  BY <1>13, <1>14, <1>15 DEF ClientInv

\* The connection ends.
LEMMA ClientClose ==
    ASSUME Close, ClientInv
    PROVE  ClientInv'
<1>1. PICK W, e, b, at : Stands(W, e, b, at) /\ Offers(e, b) /\ KeepsStep(e, b, at)
  BY DEF ClientInv
<1>2. PICK n \in 0 .. Len(wire) : wire' = SubSeq(wire, 1, n)
  BY DEF Close
<1>3. /\ open' = FALSE /\ sent' = sent /\ buffer' = buffer /\ pc' = pc /\ msg' = msg /\ taken' = taken
  BY DEF Close, connVars
<1>4. Reads(W, b, buffer, wire)
  BY <1>1 DEF Stands
<1>5. Reads(W, b, buffer', wire')
  BY <1>2, <1>3, <1>4, ReadsLess
<1>6. Stands(W, e, b, at)'
  BY <1>1, <1>3, <1>5 DEF Stands
<1>7. Offers(e, b)'
  BY <1>1, <1>3 DEF Offers
<1>8. KeepsStep(e, b, at)'
  BY <1>1, <1>3 DEF KeepsStep, OutOfStep
<1> QED
  BY <1>6, <1>7, <1>8 DEF ClientInv

\* The connection's goroutine stops.
LEMMA ClientLeave ==
    ASSUME Leave, ClientInv
    PROVE  ClientInv'
<1>1. PICK W, e, b, at : Stands(W, e, b, at) /\ Offers(e, b) /\ KeepsStep(e, b, at)
  BY DEF ClientInv
<1>2. /\ open' = open /\ sent' = sent /\ buffer' = buffer /\ wire' = wire /\ msg' = msg /\ taken' = taken
      /\ pc = "reading" /\ pc' = "leaving"
  BY DEF Leave, clientVars
<1>3. Stands(W, e, b, at)'
  BY <1>1, <1>2 DEF Stands
<1>4. Offers(e, b)'
  BY <1>1, <1>2 DEF Offers
<1>5. KeepsStep(e, b, at)'
  BY <1>1, <1>2 DEF KeepsStep, OutOfStep
<1> QED
  BY <1>3, <1>4, <1>5 DEF ClientInv

\* The loop takes a command.
LEMMA ClientTake ==
    ASSUME Take, ClientInv
    PROVE  ClientInv'
<1>1. PICK W, e, b, at : Stands(W, e, b, at) /\ Offers(e, b) /\ KeepsStep(e, b, at)
  BY DEF ClientInv
<1> DEFINE n == Len(sent)
           t == Len(taken)
<1>2. /\ open' = open /\ sent' = sent /\ wire' = wire /\ pc = "sending" /\ pc' = "reading"
      /\ buffer' = <<>> /\ msg' = <<>> /\ taken' = Append(taken, msg)
  BY DEF Take, clientVars
<1>3. /\ sent \in Seq(Lists) /\ Laid(W, e, sent) /\ Reads(W, b, buffer, wire) /\ open \in BOOLEAN
      /\ taken \in Seq(Lists) /\ at \in [1 .. t -> 1 .. n]
  BY <1>1 DEF Stands
<1>4. \A i \in 1 .. t :
         /\ taken[i] = sent[at[i]] /\ e[at[i] - 1] < b /\ i <= at[i]
         /\ \A j \in 1 .. i - 1 : at[j] < at[i]
  BY <1>1 DEF Stands
<1>5. PICK k \in 1 .. n : b = e[k - 1] /\ msg = sent[k] /\ Len(buffer) = Complete(sent[k])
  BY <1>1, <1>2 DEF Offers
<1> DEFINE c == sent[k]
           D == Complete(c)
           d == b + D
           up == [i \in 1 .. t + 1 |-> IF i = t + 1 THEN k ELSE at[i]]
<1>6. sent \in Seq(Lists) /\ c \in Lists /\ n \in Nat /\ t \in Nat
  <2>1. c \in Lists
    BY <1>3, ElementOfSeq
  <2>2. sent \in Seq(Lists)
    BY <1>3
  <2>3. c \in Lists
    BY <2>2, ElementOfSeq
  <2>4. n \in Nat /\ t \in Nat
    BY <1>3
  <2> QED
    BY <2>1, <2>2, <2>3, <2>4
<1>7. D \in Nat /\ D >= 4 /\ RAW(c)[D] = LF
  BY <1>6, CommandEnds
<1>8. D <= Len(RAW(c)) /\ Len(RAW(c)) \in Nat
  BY <1>6, CommandLong
<1>9. W[b + D] = LF
  <2>1. \A j \in 1 .. Len(RAW(c)) : W[e[k - 1] + j] = RAW(c)[j]
    BY <1>3, <1>6, LaidPlace
  <2>2. D \in 1 .. Len(RAW(c))
    BY <1>7, <1>8
  <2> QED
    BY <1>5, <1>7, <2>1, <2>2
<1>10. b \in Nat /\ e[k - 1] = b /\ e[k] = b + Len(RAW(c))
  <2>1. e[k] = e[k - 1] + Len(RAW(c)) /\ e[k - 1] \in Nat
    BY <1>3, <1>6, LaidPlace
  <2> QED
    BY <1>5, <2>1
<1>11. Reads(W, d, <<>>, wire) /\ (open => d + Len(<<>>) + Len(wire) = Len(W))
  <2>1. /\ W \in Seq(Byte) /\ wire \in Seq(Byte) /\ b + D + Len(wire) <= Len(W)
        /\ \A j \in 1 .. Len(wire) : wire[j] = W[b + D + j]
    BY <1>3, <1>5 DEF Reads
  <2>2. <<>> \in Seq(Byte) /\ Len(<<>>) = 0 /\ d + Len(<<>>) = d /\ d \in Nat
    BY <1>7, <1>10, EmptySeq
  <2>3. open => b + D + Len(wire) = Len(W)
    BY <1>1, <1>5 DEF Stands
  <2> QED
    BY <2>1, <2>2, <2>3 DEF Reads
<1>12. \A i \in 1 .. t : at[i] \in 1 .. n /\ at[i] < k
  <2> TAKE i \in 1 .. t
  <2>1. at[i] \in 1 .. n
    BY <1>3
  <2>2. at[i] - 1 \in 0 .. n /\ k - 1 \in 0 .. n
    BY <1>6, <2>1
  <2>3. e[at[i] - 1] < e[k - 1]
    BY <1>4, <1>10
  <2>4. at[i] - 1 < k - 1
    <3> DEFINE x == at[i] - 1
               y == k - 1
    <3> HIDE DEF x, y
    <3>1. x \in 0 .. Len(sent) /\ y \in 0 .. Len(sent) /\ e[x] < e[y]
      BY <2>2, <2>3 DEF x, y
    <3>2. x < y
      BY <1>3, <1>6, <3>1, LaidDifferent
    <3> QED
      BY <3>2 DEF x, y
  <2> QED
    BY <2>1, <2>4
<1>13. /\ Len(taken') = t + 1 /\ taken'[t + 1] = c /\ taken' \in Seq(Lists)
       /\ \A i \in 1 .. t : taken'[i] = taken[i]
  BY <1>2, <1>3, <1>5, <1>6, AppendProperties
<1> HIDE DEF n, t, c, D
<1>14. /\ up \in [1 .. t + 1 -> 1 .. n] /\ up[t + 1] = k /\ \A i \in 1 .. t : up[i] = at[i]
  BY <1>3, <1>6
<1> HIDE DEF up
<1>15. b < d /\ d # 0 /\ d \in Nat
  BY <1>7, <1>10
<1>16. t < k
  <2>1. CASE t = 0
    BY <1>6, <2>1
  <2>2. CASE t # 0
    <3>1. t \in 1 .. t
      BY <1>6, <2>2
    <3>2. t <= at[t] /\ at[t] < k /\ at[t] \in 1 .. n
      BY <1>4, <1>12, <3>1
    <3> QED
      BY <1>6, <3>2
  <2> QED
    BY <2>1, <2>2
<1>a. PICK dd, uu : dd = d /\ uu = up
  OBVIOUS
<1>17. Stands(W, e, dd, uu)'
  <2>1. ASSUME NEW i \in 1 .. t + 1
        PROVE  /\ taken'[i] = sent[up[i]] /\ e[up[i] - 1] < d /\ i <= up[i]
               /\ \A j \in 1 .. i - 1 : up[j] < up[i]
    <3>1. CASE i = t + 1
      <4>1. up[i] = k /\ taken'[i] = sent[k]
        BY <1>13, <1>14, <3>1 DEF c
      <4>2. \A j \in 1 .. i - 1 : up[j] < k
        BY <1>6, <1>12, <1>14, <3>1
      <4>3. i <= k
        BY <1>6, <1>16, <3>1
      <4> QED
        BY <1>10, <1>15, <4>1, <4>2, <4>3
    <3>2. CASE i # t + 1
      <4>1. i \in 1 .. t
        BY <1>6, <3>2
      <4>2. up[i] = at[i] /\ taken'[i] = taken[i] /\ taken[i] = sent[at[i]] /\ e[at[i] - 1] < b /\ i <= at[i]
        BY <1>4, <1>13, <1>14, <4>1
      <4>3. \A j \in 1 .. i - 1 : j \in 1 .. t /\ up[j] = at[j] /\ at[j] < at[i]
        BY <1>4, <1>6, <1>14, <4>1
      <4>4. e[at[i] - 1] < d
        <5>1. at[i] \in 1 .. n
          BY <1>12, <4>1
        <5>2. e[at[i] - 1] \in Nat
          <6>1. e \in [0 .. n -> Nat]
            BY <1>3 DEF Laid, n
          <6>2. at[i] - 1 \in 0 .. n
            BY <1>6, <5>1
          <6> QED
            BY <6>1, <6>2
        <5> QED
          BY <1>10, <1>15, <4>2, <5>2
      <4> QED
        BY <4>2, <4>3, <4>4
    <3> QED
      BY <3>1, <3>2
  <2>2. sent' = sent /\ wire' = wire /\ buffer' = <<>> /\ open' = open
    BY <1>2
  <2>3. W[d] = LF
    BY <1>9 DEF D
  <2>4. Reads(W, d, buffer', wire') /\ (open' => d + Len(buffer') + Len(wire') = Len(W))
    BY <1>11, <2>2
  <2>5. /\ taken' \in Seq(Lists) /\ up \in [1 .. Len(taken') -> 1 .. Len(sent')]
        /\ \A i \in 1 .. Len(taken') :
             /\ taken'[i] = sent'[up[i]] /\ e[up[i] - 1] < d /\ i <= up[i]
             /\ \A j \in 1 .. i - 1 : up[j] < up[i]
    BY <1>13, <1>14, <2>1, <2>2 DEF n
  <2>6. sent' \in Seq(Lists) /\ Laid(W, e, sent') /\ open' \in BOOLEAN
    BY <1>3, <2>2
  <2> HIDE DEF d
  <2>7. W[dd] = LF /\ Reads(W, dd, buffer', wire') /\ (open' => dd + Len(buffer') + Len(wire') = Len(W))
    BY <1>a, <2>3, <2>4
  <2>8. /\ taken' \in Seq(Lists) /\ uu \in [1 .. Len(taken') -> 1 .. Len(sent')]
        /\ \A i \in 1 .. Len(taken') :
             /\ taken'[i] = sent'[uu[i]] /\ e[uu[i] - 1] < dd /\ i <= uu[i]
             /\ \A j \in 1 .. i - 1 : uu[j] < uu[i]
    BY <1>a, <2>5
  <2> QED
    BY <2>6, <2>7, <2>8 DEF Stands
<1>18. Offers(e, dd)'
  <2>1. ASSUME NEW i \in 1 .. n PROVE Len(<<>>) < Complete(sent[i])
    <3>1. sent[i] \in Lists
      BY <1>6, ElementOfSeq DEF n
    <3>2. Complete(sent[i]) \in Nat /\ Complete(sent[i]) >= 4
      BY <3>1, CommandEnds
    <3>3. Len(<<>>) = 0
      BY EmptySeq
    <3> QED
      BY <3>2, <3>3
  <2> QED
    BY <1>2, <2>1 DEF Offers, n
<1>19. KeepsStep(e, dd, uu)'
  <2>1. ASSUME NEW i, OutOfStep(sent, i) PROVE OutOfStep(sent', i)
    BY <1>2, <2>1 DEF OutOfStep
  <2>2. OutOfStep(sent, t + 1) \/ k = t + 1
    <3>1. SUFFICES ASSUME b = e[t] PROVE k = t + 1
      BY <1>1, <1>2 DEF KeepsStep, t
    <3>2. t \in 0 .. Len(sent) /\ k - 1 \in 0 .. Len(sent)
      BY <1>6, <1>16 DEF n
    <3>3. k - 1 = t
      <4> DEFINE y == k - 1
      <4> HIDE DEF y
      <4>1. y \in 0 .. Len(sent) /\ e[y] = e[t]
        BY <1>10, <3>1, <3>2 DEF y
      <4>2. y = t
        BY <1>3, <1>6, <3>2, <4>1, LaidDifferent
      <4> QED
        BY <4>2 DEF y
    <3> QED
      BY <1>6, <3>3
  <2>3. ASSUME NEW i \in 1 .. t + 1 PROVE OutOfStep(sent', i) \/ up[i] = i
    <3>1. CASE i = t + 1
      BY <1>14, <2>1, <2>2, <3>1
    <3>2. CASE i # t + 1
      <4>1. i \in 1 .. t
        BY <1>6, <3>2
      <4>2. OutOfStep(sent, i) \/ at[i] = i
        BY <1>1, <4>1 DEF KeepsStep, t
      <4> QED
        BY <1>14, <2>1, <4>1, <4>2
    <3> QED
      BY <3>1, <3>2
  <2>4. \/ OutOfStep(sent', (t + 1) + 1)
        \/ d = e[t + 1]
        \/ t + 1 >= 1 /\ d = e[t + 1] - 2
    <3>1. CASE OutOfStep(sent, t + 1)
      <4>1. PICK i \in 1 .. t + 1 : i <= Len(sent) /\ ~PlainList(sent[i])
        BY <3>1 DEF OutOfStep
      <4>2. i \in 1 .. (t + 1) + 1
        BY <1>6, <4>1
      <4> QED
        BY <1>2, <4>1, <4>2 DEF OutOfStep
    <3>2. CASE k = t + 1
      <4>1. Early2(c) \in {0, 2} /\ D = Len(RAW(c)) - Early2(c)
        BY <1>6, CommandEnds DEF D
      <4>2. e[t + 1] = b + Len(RAW(c))
        BY <1>10, <3>2 DEF c
      <4>3. d = e[t + 1] \/ d = e[t + 1] - 2
        BY <1>8, <1>10, <4>1, <4>2 DEF c
      <4> QED
        BY <1>6, <4>3
    <3> QED
      BY <2>2, <3>1, <3>2
  <2>5. buffer' = <<>> /\ pc' # "sending" /\ Len(taken') = t + 1
    BY <1>2, <1>13
  <2>6. \/ OutOfStep(sent', Len(taken') + 1)
        \/ d = e[Len(taken')]
        \/ Len(taken') >= 1 /\ d = e[Len(taken')] - 2 /\ buffer' = <<>> /\ pc' # "sending"
    <3>1. CASE OutOfStep(sent', (t + 1) + 1)
      BY <2>5, <3>1 DEF OutOfStep
    <3>2. CASE d = e[t + 1] \/ (t + 1 >= 1 /\ d = e[t + 1] - 2)
      BY <2>5, <3>2
    <3> QED
      BY <2>4, <3>1, <3>2
  <2> HIDE DEF d
  <2>7. \A i \in 1 .. Len(taken') : OutOfStep(sent', i) \/ uu[i] = i
    BY <1>a, <2>3, <2>5
  <2>8. \/ OutOfStep(sent', Len(taken') + 1)
        \/ dd = e[Len(taken')]
        \/ Len(taken') >= 1 /\ dd = e[Len(taken')] - 2 /\ buffer' = <<>> /\ pc' # "sending"
    BY <1>a, <2>6
  <2> QED
    BY <2>7, <2>8 DEF KeepsStep
<1> QED
  BY <1>17, <1>18, <1>19 DEF ClientInv

\* The connection reads a line.
LEMMA ClientRead ==
    ASSUME ReadLine, ClientInv, AllTame \/ ~OutOfStep(sent, Len(taken) + 1)
    PROVE  ClientInv'
<1>1. PICK W, e, b, at : Stands(W, e, b, at) /\ Offers(e, b) /\ KeepsStep(e, b, at)
  BY DEF ClientInv
<1> DEFINE t == Len(taken)
<1>2. PICK n \in DOMAIN wire :
        /\ FirstLine(wire, n)
        /\ \E p \in Parsed(buffer, wire, n) :
             LET isCommand == p.r.err = "none" /\ p.r.type = Array /\ p.r.data # <<>>
             IN  /\ wire' = SubSeq(wire, n + 1, Len(wire))
                 /\ buffer' = IF p.r.err \in Incomplete \/ isCommand THEN p.bytes ELSE <<>>
                 /\ pc' = IF isCommand THEN "sending" ELSE pc
                 /\ msg' = IF isCommand THEN p.r.data ELSE msg
  BY DEF ReadLine
<1>3. PICK f, z : /\ f = buffer \o SubSeq(wire, 1, n) /\ z = ParseResp(f, 1)
                  /\ wire' = SubSeq(wire, n + 1, Len(wire))
                  /\ LET isCommand == z.err = "none" /\ z.type = Array /\ z.data # <<>>
                     IN  /\ buffer' = IF z.err \in Incomplete \/ isCommand THEN f ELSE <<>>
                         /\ pc' = IF isCommand THEN "sending" ELSE pc
                         /\ msg' = IF isCommand THEN z.data ELSE msg
  <2>1. PICK p \in Parsed(buffer, wire, n) :
          LET isCommand == p.r.err = "none" /\ p.r.type = Array /\ p.r.data # <<>>
          IN  /\ wire' = SubSeq(wire, n + 1, Len(wire))
              /\ buffer' = IF p.r.err \in Incomplete \/ isCommand THEN p.bytes ELSE <<>>
              /\ pc' = IF isCommand THEN "sending" ELSE pc
              /\ msg' = IF isCommand THEN p.r.data ELSE msg
    BY <1>2, Zenon
  <2>2. p.bytes = buffer \o SubSeq(wire, 1, n) /\ p.r = ParseResp(p.bytes, 1)
    <3>1. p \in {[bytes |-> g, r |-> ParseResp(g, 1)] : g \in {buffer \o SubSeq(wire, 1, n)}}
      BY <2>1 DEF Parsed
    <3>2. PICK g \in {buffer \o SubSeq(wire, 1, n)} : p = [bytes |-> g, r |-> ParseResp(g, 1)]
      BY <3>1, Zenon
    <3>3. p.bytes = g /\ p.r = ParseResp(g, 1)
      BY <3>2
    <3> QED
      BY <3>2, <3>3, Zenon
  <2> QED
    BY <2>1, <2>2, Zenon
<1> DEFINE isCommand == z.err = "none" /\ z.type = Array /\ z.data # <<>>
<1>4. /\ pc = "reading" /\ open' = open /\ sent' = sent /\ taken' = taken
  BY DEF ReadLine
<1>5. /\ sent \in Seq(Lists) /\ Laid(W, e, sent) /\ Reads(W, b, buffer, wire) /\ open \in BOOLEAN
      /\ (b # 0 => W[b] = LF) /\ (open => b + Len(buffer) + Len(wire) = Len(W))
      /\ taken \in Seq(Lists) /\ at \in [1 .. Len(taken) -> 1 .. Len(sent)]
  BY <1>1 DEF Stands
<1>6. \A i \in 1 .. Len(taken) :
         /\ taken[i] = sent[at[i]] /\ e[at[i] - 1] < b /\ i <= at[i]
         /\ \A j \in 1 .. i - 1 : at[j] < at[i]
  BY <1>1 DEF Stands
<1>7. sent \in Seq(Lists) /\ (AllTame => sent \in Seq(Proper))
  BY <1>5, SentProper
<1>8. ReadsNext(W, b, buffer, wire, f, wire')
  <2>1. wire \in Seq(Byte)
    BY <1>5 DEF Reads
  <2>2. n \in 1 .. Len(wire)
    BY <1>2, <2>1
  <2> QED
    BY <1>2, <1>3, <1>5, <2>2, ReadsLine
<1>9. /\ Line(W, b, buffer, f) /\ Reads(W, b, f, wire') /\ Reads(W, b + Len(f), <<>>, wire')
      /\ Len(f) + Len(wire') = Len(buffer) + Len(wire)
  BY <1>8 DEF ReadsNext
<1>10. /\ b \in Nat /\ Len(f) \in Nat \ {0} /\ Len(W) \in Nat /\ b + Len(f) <= Len(W) /\ W[b + Len(f)] = LF
       /\ Len(buffer) \in Nat /\ Len(wire) \in Nat /\ Len(wire') \in Nat
  <2>1. /\ b \in Nat /\ W \in Seq(Byte) /\ f \in Seq(Byte) /\ f # <<>> /\ b + Len(f) <= Len(W)
        /\ f[Len(f)] = LF /\ \A j \in 1 .. Len(f) : f[j] = W[b + j]
    BY <1>9 DEF Line
  <2>2. Len(f) \in 1 .. Len(f) /\ Len(f) \in Nat \ {0} /\ Len(W) \in Nat
    BY <2>1, EmptySeq
  <2>3. W[b + Len(f)] = LF
    BY <2>1, <2>2
  <2>4. wire \in Seq(Byte) /\ buffer \in Seq(Byte) /\ wire' \in Seq(Byte)
    BY <1>5, <1>9 DEF Reads
  <2> QED
    BY <2>1, <2>2, <2>3, <2>4
<1>11. ASSUME NEW k \in 1 .. Len(sent), b = e[k - 1]
       PROVE  /\ Len(f) <= Complete(sent[k]) /\ CommandOf(sent[k], Len(f), z)
              /\ Complete(sent[k]) \in Nat /\ sent[k] # <<>>
  <2>1. Len(buffer) < Complete(sent[k])
    BY <1>1, <1>4, <1>11 DEF Offers
  <2>2. Len(f) <= Complete(sent[k]) /\ CommandOf(sent[k], Len(f), ParseResp(f, 1))
    BY <1>5, <1>7, <1>9, <1>11, <2>1, AtCommand
  <2>3. sent[k] \in Lists
    BY <1>7, ElementOfSeq
  <2>4. Complete(sent[k]) \in Nat
    BY <2>3, CommandEnds
  <2> QED
    BY <1>3, <2>2, <2>3, <2>4 DEF Lists
<1>12. ASSUME t >= 1, b = e[t] - 2, buffer = <<>> PROVE Len(f) = 2 /\ z.err = "invalid input"
  <2>1. t \in 1 .. Len(sent)
    BY <1>1, <1>12, TakenFewer
  <2>2. Line(W, b, <<>>, f)
    BY <1>9, <1>12
  <2>3. OnlyLineEnd(f)
    <3>1. Laid(W, e, sent) /\ b = e[t] - 2
      BY <1>5, <1>12
    <3> HIDE DEF t
    <3> QED
      BY <1>7, <2>1, <2>2, <3>1, AtLineEnd, Zenon
  <2> QED
    BY <1>3, <2>3 DEF OnlyLineEnd
<1>13. \/ OutOfStep(sent, t + 1)
       \/ b = e[t]
       \/ t >= 1 /\ b = e[t] - 2 /\ buffer = <<>>
  BY <1>1 DEF KeepsStep
<1>14. \A i \in 1 .. t : OutOfStep(sent, i) \/ at[i] = i
  BY <1>1 DEF KeepsStep
<1>15. "invalid input" \notin Incomplete /\ "EOF" \in Incomplete /\ "none" # "invalid input"
       /\ "none" \notin {"EOF", "unexpected EOF"}
  BY DEF Incomplete
<1>16. ASSUME buffer' = f PROVE Stands(W, e, b, at)'
  <2>1. Reads(W, b, buffer', wire') /\ (open' => b + Len(buffer') + Len(wire') = Len(W))
    <3>1. b + Len(f) + Len(wire') = b + Len(buffer) + Len(wire)
      BY <1>9, <1>10
    <3> QED
      BY <1>4, <1>5, <1>9, <1>16, <3>1
  <2> QED
    BY <1>4, <1>5, <1>6, <2>1 DEF Stands
<1>a. b = e[t] => t + 1 \in 1 .. Len(sent) /\ (t + 1) - 1 = t
  <2> SUFFICES ASSUME b = e[t] PROVE t + 1 \in 1 .. Len(sent) /\ (t + 1) - 1 = t
    OBVIOUS
  <2>1. t \in Nat /\ Len(sent) \in Nat /\ t <= Len(sent)
    BY <1>1, TakenFewer
  <2>2. e[Len(sent)] = Len(W)
    BY <1>5 DEF Laid
  <2>3. t # Len(sent)
    BY <1>10, <2>2
  <2> QED
    BY <2>1, <2>3
<1>17. CASE isCommand
  <2>1. buffer' = f /\ pc' = "sending" /\ msg' = z.data
    BY <1>3, <1>17
  <2>2. PICK k \in 1 .. Len(sent) : b = e[k - 1]
    <3>1. ParseResp(f, 1).err = "none" /\ ParseResp(f, 1).type = Array
      BY <1>3, <1>17
    <3>2. Laid(W, e, sent) /\ (b # 0 => W[b] = LF)
      BY <1>5
    <3>3. Line(W, b, buffer, f)
      BY <1>9
    <3>4. CASE AllTame
      BY <1>7, <3>1, <3>2, <3>3, <3>4, AtArray
    <3>5. CASE ~OutOfStep(sent, t + 1)
      <4>1. b = e[t]
        BY <1>12, <1>13, <1>15, <1>17, <3>5
      <4>2. t + 1 \in 1 .. Len(sent) /\ (t + 1) - 1 = t
        BY <1>a, <4>1
      <4> QED
        BY <4>1, <4>2
    <3> QED
      BY <3>4, <3>5
  <2>3. Len(f) <= Complete(sent[k]) /\ CommandOf(sent[k], Len(f), z) /\ Complete(sent[k]) \in Nat
    BY <1>11, <2>2
  <2>4. Len(f) = Complete(sent[k]) /\ z.data = sent[k]
    <3>1. ~(Len(f) < Complete(sent[k]))
      BY <1>15, <1>17, <2>3 DEF CommandOf
    <3>2. Len(f) = Complete(sent[k]) /\ Len(f) >= Complete(sent[k])
      BY <1>10, <2>3, <3>1
    <3> QED
      BY <2>3, <3>2 DEF CommandOf
  <2>5. Offers(e, b)'
    BY <1>4, <2>1, <2>2, <2>4 DEF Offers
  <2>6. OutOfStep(sent, t + 1) \/ b = e[t]
    BY <1>12, <1>13, <1>15, <1>17
  <2>7. KeepsStep(e, b, at)'
    BY <1>4, <1>14, <2>6 DEF KeepsStep
  <2> QED
    BY <1>16, <2>1, <2>5, <2>7 DEF ClientInv
<1>18. CASE ~isCommand /\ z.err \in Incomplete
  <2>1. buffer' = f /\ pc' = "reading" /\ msg' = msg
    BY <1>3, <1>4, <1>18
  <2>2. ASSUME NEW k \in 1 .. Len(sent), b = e[k - 1] PROVE Len(f) < Complete(sent[k])
    <3>1. /\ Len(f) <= Complete(sent[k]) /\ CommandOf(sent[k], Len(f), z) /\ Complete(sent[k]) \in Nat
          /\ sent[k] # <<>>
      BY <1>11, <2>2
    <3>2. ~(Len(f) >= Complete(sent[k]))
      BY <1>18, <3>1 DEF CommandOf
    <3> QED
      BY <1>10, <3>1, <3>2
  <2>3. Offers(e, b)'
    <3>1. msg = <<>>
      BY <1>1, <1>4 DEF Offers
    <3> QED
      BY <1>4, <2>1, <2>2, <3>1 DEF Offers
  <2>4. OutOfStep(sent, t + 1) \/ b = e[t]
    BY <1>12, <1>13, <1>15, <1>18
  <2>5. KeepsStep(e, b, at)'
    BY <1>4, <1>14, <2>4 DEF KeepsStep
  <2> QED
    BY <1>16, <2>1, <2>3, <2>5 DEF ClientInv
<1>19. CASE ~isCommand /\ z.err \notin Incomplete
  <2>1. buffer' = <<>> /\ pc' = "reading" /\ msg' = msg
    BY <1>3, <1>4, <1>19
  <2> DEFINE d == b + Len(f)
  <2>2. d \in Nat /\ d # 0 /\ b < d /\ W[d] = LF /\ d <= Len(W)
    BY <1>10
  <2>3. Stands(W, e, d, at)'
    <3>1. Reads(W, d, buffer', wire') /\ (open' => d + Len(buffer') + Len(wire') = Len(W))
      <4>1. d + 0 + Len(wire') = b + Len(buffer) + Len(wire)
        BY <1>9, <1>10
      <4>2. Len(<<>>) = 0
        BY EmptySeq
      <4> HIDE DEF d
      <4>3. Reads(W, d, <<>>, wire')
        BY <1>9 DEF d
      <4> QED
        BY <1>4, <1>5, <2>1, <4>1, <4>2, <4>3
    <3>2. \A i \in 1 .. Len(taken) : e[at[i] - 1] < d
      <4> TAKE i \in 1 .. Len(taken)
      <4>1. at[i] - 1 \in 0 .. Len(sent)
        <5>1. at[i] \in 1 .. Len(sent) /\ Len(sent) \in Nat
          BY <1>5
        <5> QED
          BY <5>1
      <4>2. e[at[i] - 1] \in Nat /\ e[at[i] - 1] < b
        BY <1>5, <1>6, <4>1 DEF Laid
      <4> QED
        BY <1>10, <2>2, <4>2
    <3> HIDE DEF d
    <3> QED
      BY <1>4, <1>5, <1>6, <2>2, <3>1, <3>2 DEF Stands
  <2>4. Offers(e, d)'
    <3>1. ASSUME NEW i \in 1 .. Len(sent) PROVE Len(<<>>) < Complete(sent[i])
      <4>1. sent[i] \in Lists
        BY <1>7, ElementOfSeq
      <4>2. Complete(sent[i]) \in Nat /\ Complete(sent[i]) >= 4
        BY <4>1, CommandEnds
      <4>3. Len(<<>>) = 0
        BY EmptySeq
      <4> QED
        BY <4>2, <4>3
    <3>2. msg = <<>>
      BY <1>1, <1>4 DEF Offers
    <3> QED
      BY <1>4, <2>1, <3>1, <3>2 DEF Offers
  <2>5. KeepsStep(e, d, at)'
    <3>1. CASE OutOfStep(sent, t + 1)
      BY <1>4, <1>14, <3>1 DEF KeepsStep
    <3>2. CASE b = e[t]
      <4>1. t \in Nat /\ Len(sent) \in Nat /\ t <= Len(sent)
        BY <1>1, TakenFewer
      <4> DEFINE k == t + 1
      <4>3. k \in 1 .. Len(sent) /\ k - 1 = t
        BY <1>a, <3>2
      <4>4. b = e[k - 1]
        BY <3>2, <4>3
      <4> HIDE DEF k
      <4>5. CommandOf(sent[k], Len(f), z) /\ Complete(sent[k]) \in Nat /\ sent[k] # <<>>
        BY <1>11, <4>3, <4>4
      <4>6. ~(Len(f) >= Complete(sent[k]))
        BY <1>19, <4>5 DEF CommandOf
      <4>7. Len(f) < Complete(sent[k])
        BY <1>10, <4>5, <4>6
      <4>8. ~PlainList(sent[k])
        BY <1>15, <1>19, <4>5, <4>7 DEF CommandOf
      <4>9. OutOfStep(sent, t + 1)
        <5>1. k \in 1 .. t + 1 /\ k <= Len(sent)
          BY <4>1, <4>3 DEF k
        <5> QED
          BY <4>8, <5>1 DEF OutOfStep
      <4> QED
        BY <1>4, <1>14, <4>9 DEF KeepsStep
    <3>3. CASE t >= 1 /\ b = e[t] - 2 /\ buffer = <<>>
      <4>1. Len(f) = 2
        BY <1>12, <3>3
      <4>2. e[t] \in Nat
        <5>1. t \in 0 .. Len(sent)
          BY <1>1, <3>3, TakenFewer
        <5> QED
          BY <1>5, <5>1 DEF Laid
      <4>3. d = e[t]
        BY <1>10, <3>3, <4>1, <4>2
      <4> HIDE DEF d
      <4> QED
        BY <1>4, <1>14, <4>3 DEF KeepsStep
    <3> QED
      BY <1>13, <3>1, <3>2, <3>3
  <2> HIDE DEF d
  <2> QED
    BY <2>3, <2>4, <2>5 DEF ClientInv
<1> QED
  BY <1>17, <1>18, <1>19

\* Every step, of tame commands or of a reader in step.
LEMMA ClientNext ==
    ASSUME ClientInv, [Next]_vars, AllTame \/ ~OutOfStep(sent, Len(taken) + 1)
    PROVE  ClientInv'
<1>1. ASSUME NEW c \in Commands, Send(c) PROVE ClientInv'
  BY <1>1, CommandsLists, ClientSend
<1>2. CASE Close
  BY <1>2, ClientClose
<1>3. CASE ReadLine
  BY <1>3, ClientRead
<1>4. CASE Leave
  BY <1>4, ClientLeave
<1>5. CASE Take
  BY <1>5, ClientTake
<1>6. CASE ReadLink \/ UNCHANGED vars
  <2>1. /\ open' = open /\ sent' = sent /\ buffer' = buffer /\ wire' = wire /\ msg' = msg /\ taken' = taken
        /\ pc' = pc
    BY <1>6 DEF ReadLink, clientVars, connVars, vars
  <2>2. PICK W, e, b, at : Stands(W, e, b, at) /\ Offers(e, b) /\ KeepsStep(e, b, at)
    BY DEF ClientInv
  <2>3. Stands(W, e, b, at)'
    BY <2>1, <2>2 DEF Stands
  <2>4. Offers(e, b)'
    BY <2>1, <2>2 DEF Offers
  <2>5. KeepsStep(e, b, at)'
    BY <2>1, <2>2 DEF KeepsStep, OutOfStep
  <2> QED
    BY <2>3, <2>4, <2>5 DEF ClientInv
<1> QED
  BY <1>1, <1>2, <1>3, <1>4, <1>5, <1>6 DEF Next

(***************************************************************************)
(* The link.                                                               *)
(***************************************************************************)
\* Those of the first x commands that end early.
EarlyIn(s, x) == {i \in 1 .. x : Early2(s[i]) = 2}

\* The replica in front of the stream V of what was taken: it has executed the
\* first commands, stands at the next or at the line end in front of it, and has
\* not counted the line end of a command that ended early.
Follows(V, g, r) ==
    /\ taken \in Seq(Lists) /\ Laid(V, g, taken)
    /\ Reads(V, r, rbuffer, link) /\ r + Len(rbuffer) + Len(link) = Len(V) /\ offset = Len(V)
    /\ executed \in Seq(Lists) /\ Len(executed) <= Len(taken)
    /\ \A i \in 1 .. Len(executed) : executed[i] = taken[i]
    /\ roffset \in Nat /\ roffset + 2 * Cardinality(EarlyIn(taken, Len(executed))) = g[Len(executed)]
    /\ \/ /\ r = g[Len(executed)]
          /\ Len(executed) < Len(taken) => Len(rbuffer) < Complete(taken[Len(executed) + 1])
       \/ Len(executed) >= 1 /\ r = g[Len(executed)] - 2 /\ rbuffer = <<>>

ReplicaInv == \E V, g, r : Follows(V, g, r)

\* There are finitely many of them.
LEMMA EarlyCount ==
    ASSUME NEW s, NEW x \in Nat
    PROVE  /\ IsFiniteSet(EarlyIn(s, x)) /\ Cardinality(EarlyIn(s, x)) \in Nat
           /\ Early2(s[x + 1]) = 2 => Cardinality(EarlyIn(s, x + 1)) = Cardinality(EarlyIn(s, x)) + 1
           /\ Early2(s[x + 1]) # 2 => EarlyIn(s, x + 1) = EarlyIn(s, x)
<1> DEFINE A == EarlyIn(s, x)
           B == EarlyIn(s, x + 1)
<1>1. IsFiniteSet(1 .. x) /\ A \subseteq 1 .. x
  BY FS_Interval DEF EarlyIn
<1>2. IsFiniteSet(A)
  BY <1>1, FS_Subset
<1>3. Cardinality(A) \in Nat
  BY <1>2, FS_CardinalityType
<1>4. Early2(s[x + 1]) = 2 => B = A \cup {x + 1}
  BY DEF EarlyIn
<1>5. x + 1 \notin A
  BY <1>1
<1>6. Early2(s[x + 1]) # 2 => B = A
  BY DEF EarlyIn
<1> HIDE DEF A, B
<1>7. Cardinality(A \cup {x + 1}) = Cardinality(A) + 1
  BY <1>2, <1>5, FS_AddElement
<1> QED
  BY <1>2, <1>3, <1>4, <1>6, <1>7 DEF A, B

\* Those of commands that stay.
LEMMA EarlySame ==
    ASSUME NEW s, NEW u, NEW x \in Nat, \A i \in 1 .. x : s[i] = u[i]
    PROVE  EarlyIn(s, x) = EarlyIn(u, x)
BY DEF EarlyIn

\* The first state.
LEMMA ReplicaInit == Init => ReplicaInv
<1> SUFFICES ASSUME Init PROVE ReplicaInv
  OBVIOUS
<1> DEFINE e == [k \in 0 .. 0 |-> 0]
<1>1. taken = <<>> /\ executed = <<>> /\ link = <<>> /\ rbuffer = <<>> /\ offset = 0 /\ roffset = 0
  BY DEF Init
<1>2. Laid(<<>>, e, <<>>)
  BY LaidEmpty
<1>3. <<>> \in Seq(Byte) /\ <<>> \in Seq(Lists) /\ Len(<<>>) = 0
  BY EmptySeq
<1>4. Reads(<<>>, 0, <<>>, <<>>)
  BY <1>3 DEF Reads
<1>5. e[0] = 0
  OBVIOUS
<1>6. Cardinality(EarlyIn(<<>>, 0)) = 0
  <2>1. EarlyIn(<<>>, 0) = {}
    BY DEF EarlyIn
  <2> QED
    BY <2>1, FS_EmptySet
<1> HIDE DEF e
<1>7. Follows(<<>>, e, 0)
  BY <1>1, <1>2, <1>3, <1>4, <1>5, <1>6 DEF Follows
<1> QED
  BY <1>7 DEF ReplicaInv

\* A command is propagated.
LEMMA ReplicaTake ==
    ASSUME Take, msg \in Lists, ReplicaInv
    PROVE  ReplicaInv'
<1>1. PICK V, g, r : Follows(V, g, r)
  BY DEF ReplicaInv
<1>2. PICK c : c = msg
  OBVIOUS
<1>3. /\ taken' = Append(taken, c) /\ offset' = offset + Len(RAW(c)) /\ link' = link \o RAW(c)
      /\ rbuffer' = rbuffer /\ roffset' = roffset /\ executed' = executed
  BY <1>2 DEF Take, replicaVars
<1> DEFINE n == Len(taken)
           x == Len(executed)
           U == V \o RAW(c)
<1>4. /\ taken \in Seq(Lists) /\ Laid(V, g, taken)
      /\ Reads(V, r, rbuffer, link) /\ r + Len(rbuffer) + Len(link) = Len(V) /\ offset = Len(V)
      /\ executed \in Seq(Lists) /\ x <= n /\ (\A i \in 1 .. x : executed[i] = taken[i])
      /\ roffset \in Nat /\ roffset + 2 * Cardinality(EarlyIn(taken, x)) = g[x]
  BY <1>1 DEF Follows
<1>5. \/ r = g[x] /\ (x < n => Len(rbuffer) < Complete(taken[x + 1]))
      \/ x >= 1 /\ r = g[x] - 2 /\ rbuffer = <<>>
  BY <1>1 DEF Follows
<1>6. c \in Lists /\ taken \in Seq(Lists)
  BY <1>2, <1>4
<1>7. n \in Nat /\ x \in Nat /\ x \in 0 .. n
  <2>1. n \in Nat /\ x \in Nat
    BY <1>4
  <2> QED
    BY <1>4, <2>1
<1>8. PICK h : Laid(U, h, Append(taken, c)) /\ \A k \in 0 .. n : h[k] = g[k]
  BY <1>4, <1>6, LaidNext
<1>9. RAW(c) \in Seq(Byte)
  BY <1>6, CommandEnds
<1>10. Reads(U, r, rbuffer, link \o RAW(c)) /\ r + Len(rbuffer) + Len(link \o RAW(c)) = Len(U)
  BY <1>4, <1>9, ReadsMore
<1>11. Len(U) = Len(V) + Len(RAW(c))
  <2>1. V \in Seq(Byte)
    BY <1>4 DEF Reads
  <2> QED
    BY <1>9, <2>1, Joined
<1>12. /\ taken' \in Seq(Lists) /\ Len(taken') = n + 1 /\ taken'[n + 1] = c
       /\ \A k \in 1 .. n : taken'[k] = taken[k]
  BY <1>3, <1>4, <1>6, AppendProperties
<1> HIDE DEF U, n
<1>13. \A i \in 1 .. x : executed[i] = taken'[i] /\ taken'[i] = taken[i]
  BY <1>4, <1>7, <1>12
<1>14. EarlyIn(taken', x) = EarlyIn(taken, x)
  BY <1>7, <1>13, EarlySame
<1>15. h[x] = g[x] /\ x <= n + 1
  BY <1>7, <1>8
<1>16. \/ r = h[x] /\ (x < n + 1 => Len(rbuffer) < Complete(taken'[x + 1]))
       \/ x >= 1 /\ r = h[x] - 2 /\ rbuffer = <<>>
  <2>1. CASE r = g[x] /\ (x < n => Len(rbuffer) < Complete(taken[x + 1]))
    <3>1. CASE x < n
      <4>1. x + 1 \in 1 .. n
        BY <1>7, <3>1
      <4> QED
        BY <1>12, <1>15, <2>1, <3>1, <4>1
    <3>2. CASE x = n
      <4>1. g[n] = Len(V)
        BY <1>4 DEF Laid, n
      <4>2. rbuffer \in Seq(Byte) /\ link \in Seq(Byte) /\ r \in Nat
        BY <1>4 DEF Reads
      <4>3. Len(rbuffer) \in Nat /\ Len(link) \in Nat
        BY <4>2
      <4>4. r + Len(rbuffer) + Len(link) = r
        BY <1>4, <2>1, <3>2, <4>1
      <4>5. Len(rbuffer) = 0
        BY <4>2, <4>3, <4>4
      <4>6. Complete(c) \in Nat /\ Complete(c) >= 4
        BY <1>6, CommandEnds
      <4>7. Len(rbuffer) < Complete(taken'[x + 1])
        BY <1>12, <3>2, <4>5, <4>6
      <4> QED
        BY <1>15, <2>1, <4>7
    <3> QED
      BY <1>4, <1>7, <3>1, <3>2 DEF n
  <2>2. CASE x >= 1 /\ r = g[x] - 2 /\ rbuffer = <<>>
    BY <1>15, <2>2
  <2> QED
    BY <1>5, <2>1, <2>2 DEF n
<1>17. Follows(U, h, r)'
  <2>1. Laid(U, h, taken')
    BY <1>3, <1>8
  <2>2. Reads(U, r, rbuffer', link') /\ r + Len(rbuffer') + Len(link') = Len(U) /\ offset' = Len(U)
    BY <1>3, <1>4, <1>10, <1>11
  <2>3. executed' \in Seq(Lists) /\ Len(executed') <= Len(taken') /\ executed' = executed
        /\ \A i \in 1 .. Len(executed') : executed'[i] = taken'[i]
    BY <1>3, <1>4, <1>12, <1>13, <1>15
  <2>4. roffset' \in Nat /\ roffset' + 2 * Cardinality(EarlyIn(taken', Len(executed'))) = h[Len(executed')]
    BY <1>3, <1>4, <1>14, <1>15
  <2>5. \/ /\ r = h[Len(executed')]
           /\ Len(executed') < Len(taken') => Len(rbuffer') < Complete(taken'[Len(executed') + 1])
        \/ Len(executed') >= 1 /\ r = h[Len(executed')] - 2 /\ rbuffer' = <<>>
    BY <1>3, <1>12, <1>16
  <2> QED
    BY <1>12, <2>1, <2>2, <2>3, <2>4, <2>5 DEF Follows
<1> QED
  BY <1>17 DEF ReplicaInv

\* The replica reads a line.
LEMMA ReplicaRead ==
    ASSUME ReadLink, ReplicaInv
    PROVE  ReplicaInv'
<1>1. PICK V, g, r : Follows(V, g, r)
  BY DEF ReplicaInv
<1> DEFINE n == Len(taken)
           x == Len(executed)
<1>2. PICK q \in DOMAIN link :
        /\ FirstLine(link, q)
        /\ \E p \in Parsed(rbuffer, link, q) :
             LET isCommand == p.r.err = "none" /\ p.r.type = Array
                 wait == p.r.err \in Incomplete \cup {"unexpected EOF"}
             IN  /\ link' = SubSeq(link, q + 1, Len(link))
                 /\ rbuffer' = IF wait THEN p.bytes ELSE <<>>
                 /\ executed' = IF isCommand THEN Append(executed, p.r.data) ELSE executed
                 /\ roffset' = IF isCommand THEN roffset + Len(p.bytes) ELSE roffset
  BY DEF ReadLink
<1>3. PICK f, z : /\ f = rbuffer \o SubSeq(link, 1, q) /\ z = ParseResp(f, 1)
                  /\ link' = SubSeq(link, q + 1, Len(link))
                  /\ LET isCommand == z.err = "none" /\ z.type = Array
                         wait == z.err \in Incomplete \cup {"unexpected EOF"}
                     IN  /\ rbuffer' = IF wait THEN f ELSE <<>>
                         /\ executed' = IF isCommand THEN Append(executed, z.data) ELSE executed
                         /\ roffset' = IF isCommand THEN roffset + Len(f) ELSE roffset
  <2>1. PICK p \in Parsed(rbuffer, link, q) :
          LET isCommand == p.r.err = "none" /\ p.r.type = Array
              wait == p.r.err \in Incomplete \cup {"unexpected EOF"}
          IN  /\ link' = SubSeq(link, q + 1, Len(link))
              /\ rbuffer' = IF wait THEN p.bytes ELSE <<>>
              /\ executed' = IF isCommand THEN Append(executed, p.r.data) ELSE executed
              /\ roffset' = IF isCommand THEN roffset + Len(p.bytes) ELSE roffset
    BY <1>2, Zenon
  <2>2. p.bytes = rbuffer \o SubSeq(link, 1, q) /\ p.r = ParseResp(p.bytes, 1)
    <3>1. p \in {[bytes |-> b, r |-> ParseResp(b, 1)] : b \in {rbuffer \o SubSeq(link, 1, q)}}
      BY <2>1 DEF Parsed
    <3>2. PICK b \in {rbuffer \o SubSeq(link, 1, q)} : p = [bytes |-> b, r |-> ParseResp(b, 1)]
      BY <3>1, Zenon
    <3>3. p.bytes = b /\ p.r = ParseResp(b, 1)
      BY <3>2
    <3> QED
      BY <3>2, <3>3, Zenon
  <2> QED
    BY <2>1, <2>2, Zenon
<1>4. taken' = taken /\ offset' = offset
  BY DEF ReadLink
<1>5. /\ taken \in Seq(Lists) /\ Laid(V, g, taken)
      /\ Reads(V, r, rbuffer, link) /\ r + Len(rbuffer) + Len(link) = Len(V) /\ offset = Len(V)
      /\ executed \in Seq(Lists) /\ x <= n /\ (\A i \in 1 .. x : executed[i] = taken[i])
      /\ roffset \in Nat /\ roffset + 2 * Cardinality(EarlyIn(taken, x)) = g[x]
  BY <1>1 DEF Follows
<1>6. \/ r = g[x] /\ (x < n => Len(rbuffer) < Complete(taken[x + 1]))
      \/ x >= 1 /\ r = g[x] - 2 /\ rbuffer = <<>>
  BY <1>1 DEF Follows
<1>7. taken \in Seq(Lists) /\ n \in Nat /\ x \in Nat /\ x <= n
  <2>1. n \in Nat /\ x \in Nat
    BY <1>5
  <2>2. taken \in Seq(Lists)
    BY <1>5
  <2> QED
    BY <1>5, <2>1, <2>2
<1>8. ReadsNext(V, r, rbuffer, link, f, link')
  <2>1. link \in Seq(Byte)
    BY <1>5 DEF Reads
  <2>2. q \in 1 .. Len(link)
    <3>1. DOMAIN link = 1 .. Len(link)
      BY <2>1, LenProperties
    <3>2. q \in DOMAIN link
      BY <1>2
    <3> QED
      BY <3>1, <3>2, Zenon
  <2> QED
    BY <1>2, <1>3, <1>5, <2>2, ReadsLine
<1>9. /\ Line(V, r, rbuffer, f) /\ Reads(V, r, f, link') /\ Reads(V, r + Len(f), <<>>, link')
      /\ Len(f) + Len(link') = Len(rbuffer) + Len(link)
  BY <1>8 DEF ReadsNext
<1>10. /\ r \in Nat /\ Len(f) \in Nat \ {0} /\ Len(V) \in Nat /\ r + Len(f) <= Len(V)
       /\ Len(rbuffer) \in Nat /\ Len(link) \in Nat /\ Len(link') \in Nat
  <2>1. r \in Nat /\ V \in Seq(Byte) /\ f \in Seq(Byte) /\ f # <<>> /\ r + Len(f) <= Len(V)
    BY <1>9 DEF Line
  <2>2. Len(f) \in Nat \ {0} /\ Len(V) \in Nat
    BY <2>1, EmptySeq
  <2>4. link \in Seq(Byte) /\ rbuffer \in Seq(Byte) /\ link' \in Seq(Byte)
    BY <1>5, <1>9 DEF Reads
  <2> QED
    BY <2>1, <2>2, <2>4
<1>11. Cardinality(EarlyIn(taken, x)) \in Nat
  BY <1>7, EarlyCount
<1>12. g \in [0 .. n -> Nat] /\ g[n] = Len(V)
  BY <1>5 DEF Laid
<1>13. Len(<<>>) = 0
  BY EmptySeq
<1>14. \A k \in 1 .. n : Complete(taken[k]) \in Nat /\ Complete(taken[k]) >= 4
  <2> TAKE k \in 1 .. n
  <2>1. taken[k] \in Lists
    BY <1>7, ElementOfSeq
  <2> QED
    BY <2>1, CommandEnds
<1>15. "invalid input" \notin Incomplete \cup {"unexpected EOF"} /\ "none" \notin Incomplete \cup {"unexpected EOF"}
       /\ "none" \notin {"EOF", "unexpected EOF"} /\ "invalid input" # "none"
       /\ {"EOF", "unexpected EOF"} \subseteq Incomplete \cup {"unexpected EOF"}
  BY DEF Incomplete
<1>16. CASE x >= 1 /\ r = g[x] - 2 /\ rbuffer = <<>>
  <2>1. OnlyLineEnd(f)
    <3>1. x \in 1 .. Len(taken) /\ r = g[x] - 2 /\ Laid(V, g, taken)
      BY <1>5, <1>7, <1>16
    <3>2. Line(V, r, <<>>, f)
      BY <1>9, <1>16
    <3> HIDE DEF x
    <3> QED
      BY <1>7, <3>1, <3>2, AtLineEnd, Zenon
  <2>2. Len(f) = 2 /\ z.err = "invalid input"
    BY <1>3, <2>1 DEF OnlyLineEnd
  <2>3. rbuffer' = <<>> /\ executed' = executed /\ roffset' = roffset
    BY <1>3, <1>15, <2>2
  <2>4. PICK d : d = r + Len(f)
    OBVIOUS
  <2>5. d = g[x]
    <3>1. g[x] \in Nat
      <4>1. x \in 0 .. n
        BY <1>7
      <4> QED
        BY <1>12, <4>1
    <3>2. d = r + 2
      BY <2>2, <2>4, Zenon
    <3>3. PICK u \in Nat : u = g[x]
      BY <3>1
    <3>4. r = u - 2 /\ r \in Nat
      BY <1>10, <1>16, <3>3, Zenon
    <3>5. d = u
      BY <3>2, <3>4
    <3> QED
      BY <3>3, <3>5, Zenon
  <2>6. Reads(V, d, rbuffer', link') /\ d + Len(rbuffer') + Len(link') = Len(V)
    <3>1. d + 0 + Len(link') = r + Len(rbuffer) + Len(link)
      BY <1>9, <1>10, <2>4
    <3> QED
      BY <1>5, <1>9, <1>13, <2>3, <2>4, <3>1
  <2>7. x < n => Len(<<>>) < Complete(taken[x + 1])
    <3> SUFFICES ASSUME x < n PROVE Len(<<>>) < Complete(taken[x + 1])
      OBVIOUS
    <3>1. x + 1 \in 1 .. n
      BY <1>7
    <3> QED
      BY <1>13, <1>14, <3>1
  <2>8. Follows(V, g, d)'
    BY <1>4, <1>5, <2>3, <2>5, <2>6, <2>7 DEF Follows
  <2> QED
    BY <2>8 DEF ReplicaInv
<1>17. CASE r = g[x] /\ (x < n => Len(rbuffer) < Complete(taken[x + 1]))
  <2>1. x < n
    <3>1. x # n
      BY <1>10, <1>12, <1>17
    <3> QED
      BY <1>7, <3>1
  <2> DEFINE k == x + 1
             c == taken[k]
             D == Complete(c)
  <2>2. k \in 1 .. n /\ k - 1 = x /\ k \in 0 .. n
    BY <1>7, <2>1
  <2>3. Len(f) <= D /\ CommandOf(c, Len(f), z)
    <3>1. r = g[k - 1] /\ Len(rbuffer) < Complete(taken[k])
      BY <1>17, <2>1, <2>2
    <3> HIDE DEF k
    <3>2. Len(f) <= Complete(taken[k]) /\ CommandOf(taken[k], Len(f), ParseResp(f, 1))
      BY <1>5, <1>7, <1>9, <2>2, <3>1, AtCommand
    <3> QED
      BY <1>3, <3>2
  <2>4. c \in Lists /\ D \in Nat
    <3>1. c \in Lists
      BY <1>5, <1>7, <2>2, ElementOfSeq
    <3> QED
      BY <1>14, <2>2, <3>1
  <2> HIDE DEF k
  <2>5. CASE Len(f) < D
    <3>1. z.err \in {"EOF", "unexpected EOF"}
      BY <2>3, <2>5 DEF CommandOf
    <3>2. rbuffer' = f /\ executed' = executed /\ roffset' = roffset
      BY <1>3, <1>15, <3>1
    <3>3. Reads(V, r, rbuffer', link') /\ r + Len(rbuffer') + Len(link') = Len(V)
      <4>1. r + Len(f) + Len(link') = r + Len(rbuffer) + Len(link)
        BY <1>9, <1>10
      <4> QED
        BY <1>5, <1>9, <3>2, <4>1
    <3>4. Len(f) < Complete(taken[x + 1])
      BY <2>5 DEF k
    <3>5. Follows(V, g, r)'
      BY <1>4, <1>5, <1>17, <3>2, <3>3, <3>4 DEF Follows
    <3> QED
      BY <3>5 DEF ReplicaInv
  <2>6. CASE ~(Len(f) < D)
    <3>1. Len(f) = D /\ Len(f) >= D
      BY <1>10, <2>3, <2>4, <2>6
    <3>2. z.err = "none" /\ z.type = Array /\ z.data = c
      BY <2>3, <3>1 DEF CommandOf
    <3>3. rbuffer' = <<>> /\ executed' = Append(executed, c) /\ roffset' = roffset + Len(f)
      BY <1>3, <1>15, <3>2
    <3>4. PICK d : d = r + Len(f)
      OBVIOUS
    <3>5. /\ Early2(c) \in {0, 2} /\ D = Len(RAW(c)) - Early2(c) /\ Len(RAW(c)) \in Nat
      BY <2>4, CommandEnds
    <3>6. g[k] = g[k - 1] + Len(RAW(c)) /\ g[k] \in Nat /\ g[k - 1] \in Nat
      BY <1>5, <1>7, <2>2, LaidPlace, SMTT(30)
    <3>7. d = g[k] - Early2(c) /\ (d = g[k] \/ d = g[k] - 2)
      <4>1. d = g[k - 1] + D
        BY <1>17, <2>2, <3>1, <3>4, Zenon
      <4> HIDE DEF c, D
      <4>2. PICK u \in Nat, w \in Nat, l \in Nat, y \in {0, 2} : u = g[k] /\ w = g[k - 1] /\ l = Len(RAW(c)) /\ y = Early2(c)
        BY <3>5, <3>6, Zenon
      <4>3. y \in {0, 2} /\ D = l - y /\ u = w + l /\ d = w + D
        BY <3>5, <3>6, <4>1, <4>2, Zenon
      <4>4. d = u - y /\ (d = u \/ d = u - 2)
        BY <4>3
      <4> QED
        BY <4>2, <4>4, Zenon
    <3>8. Reads(V, d, rbuffer', link') /\ d + Len(rbuffer') + Len(link') = Len(V)
      <4>1. d + 0 + Len(link') = r + Len(rbuffer) + Len(link)
        BY <1>9, <1>10, <3>4
      <4> QED
        BY <1>5, <1>9, <1>13, <3>3, <3>4, <4>1
    <3>9. /\ Len(executed') = k /\ executed' \in Seq(Lists) /\ executed'[k] = c
          /\ \A i \in 1 .. x : executed'[i] = executed[i]
      BY <1>5, <2>4, <3>3, AppendProperties DEF k
    <3>10. \A i \in 1 .. k : executed'[i] = taken[i]
      <4> TAKE i \in 1 .. k
      <4>1. i = k \/ i \in 1 .. x
        BY <1>7, <2>2
      <4> QED
        BY <1>5, <3>9, <4>1
    <3>11. roffset' \in Nat /\ roffset' + 2 * Cardinality(EarlyIn(taken, k)) = g[k]
      <4> DEFINE y == Cardinality(EarlyIn(taken, x))
                 w == Cardinality(EarlyIn(taken, k))
      <4>1. y \in Nat /\ (Early2(c) = 2 => w = y + 1) /\ (Early2(c) # 2 => w = y)
        BY <1>7, EarlyCount DEF k
      <4>2. roffset + 2 * y = g[k - 1] /\ roffset' = roffset + D /\ roffset \in Nat
        BY <1>5, <2>2, <3>1, <3>3
      <4> HIDE DEF y, w
      <4>3. w \in Nat /\ 2 * w = 2 * y + Early2(c)
        BY <3>5, <4>1
      <4>4. roffset' + 2 * w = g[k]
        BY <2>4, <3>5, <3>6, <4>1, <4>2, <4>3, SMTT(30)
      <4>5. roffset' \in Nat
        BY <2>4, <4>2
      <4> QED
        BY <4>4, <4>5 DEF w
    <3>12. k < n => Len(<<>>) < Complete(taken[k + 1])
      <4> SUFFICES ASSUME k < n PROVE Len(<<>>) < Complete(taken[k + 1])
        OBVIOUS
      <4>1. k + 1 \in 1 .. n
        BY <1>7, <2>2
      <4> QED
        BY <1>13, <1>14, <4>1
    <3>13. k <= n /\ k >= 1
      BY <1>7, <2>2
    <3>14. \/ /\ d = g[Len(executed')]
              /\ Len(executed') < Len(taken') => Len(rbuffer') < Complete(taken'[Len(executed') + 1])
           \/ Len(executed') >= 1 /\ d = g[Len(executed')] - 2 /\ rbuffer' = <<>>
      BY <1>4, <3>3, <3>7, <3>9, <3>12, <3>13
    <3>15. /\ roffset' \in Nat /\ roffset' + 2 * Cardinality(EarlyIn(taken', Len(executed'))) = g[Len(executed')]
           /\ executed' \in Seq(Lists) /\ Len(executed') <= Len(taken')
           /\ \A i \in 1 .. Len(executed') : executed'[i] = taken'[i]
      BY <1>4, <3>9, <3>10, <3>11, <3>13
    <3>16. taken' \in Seq(Lists) /\ Laid(V, g, taken') /\ offset' = Len(V)
      BY <1>4, <1>5
    <3>17. Follows(V, g, d)'
      BY <3>8, <3>14, <3>15, <3>16 DEF Follows
    <3> QED
      BY <3>17 DEF ReplicaInv
  <2> QED
    BY <2>5, <2>6
<1> QED
  BY <1>6, <1>16, <1>17

\* Every step.
LEMMA ReplicaNext == ClientInv /\ ReplicaInv /\ [Next]_vars => ReplicaInv'
<1> SUFFICES ASSUME ClientInv, ReplicaInv, [Next]_vars PROVE ReplicaInv'
  OBVIOUS
<1>1. CASE Take
  <2>1. PICK W, e, b, at : Stands(W, e, b, at) /\ Offers(e, b)
    BY DEF ClientInv
  <2>2. sent \in Seq(Lists) /\ pc = "sending"
    BY <1>1, <2>1 DEF Stands, Take
  <2>3. PICK k \in 1 .. Len(sent) : msg = sent[k]
    BY <2>1, <2>2 DEF Offers
  <2>4. msg \in Lists
    BY <2>2, <2>3, ElementOfSeq
  <2> QED
    BY <1>1, <2>4, ReplicaTake
<1>2. CASE ReadLink
  BY <1>2, ReplicaRead
<1>3. ASSUME UNCHANGED <<offset, link, taken, replicaVars>> PROVE ReplicaInv'
  <2>1. /\ taken' = taken /\ executed' = executed /\ link' = link /\ rbuffer' = rbuffer
        /\ roffset' = roffset /\ offset' = offset
    BY <1>3 DEF replicaVars
  <2>2. PICK V, g, r : Follows(V, g, r)
    BY DEF ReplicaInv
  <2>3. Follows(V, g, r)'
    BY <2>1, <2>2 DEF Follows
  <2> QED
    BY <2>3 DEF ReplicaInv
<1>4. CASE \/ \E c \in Commands : Send(c)
           \/ Close \/ ReadLine \/ Leave \/ UNCHANGED vars
  <2>1. UNCHANGED <<offset, link, taken, replicaVars>>
    BY <1>4 DEF Send, Close, ReadLine, Leave, vars, replicaVars
  <2> QED
    BY <1>3, <2>1
<1> QED
  BY <1>1, <1>2, <1>4 DEF Next

(***************************************************************************)
(* The two readers together, whatever the values hold.                     *)
(***************************************************************************)
\* The histories are sequences.
Histories == sent \in Seq(Commands) /\ \E S : taken \in Seq(S)

\* Out of step for good: the commands before one that is not plain were taken,
\* and nothing is said of the others.
Lost ==
    \E k \in 1 .. Len(taken) + 1 :
      /\ k <= Len(sent) /\ ~PlainList(sent[k])
      /\ \A i \in 1 .. k - 1 : taken[i] = sent[i]

FramingInv ==
    /\ Histories
    /\ AllTame => ClientInv /\ ReplicaInv
    /\ ClientInv \/ Lost

\* The sequence t begins with s.
Grown(s, t) ==
    /\ Len(s) \in Nat /\ Len(t) \in Nat /\ Len(s) <= Len(t)
    /\ \A i \in 1 .. Len(s) : i \in 1 .. Len(t) /\ t[i] = s[i]

\* With an element more, or none.
LEMMA Appended ==
    ASSUME NEW S, NEW s \in Seq(S), NEW x \in S
    PROVE  Append(s, x) \in Seq(S) /\ Grown(s, Append(s, x)) /\ Grown(s, s)
<1>1. /\ Append(s, x) \in Seq(S) /\ Len(Append(s, x)) = Len(s) + 1 /\ Len(s) \in Nat
      /\ \A i \in 1 .. Len(s) : Append(s, x)[i] = s[i]
  BY AppendProperties
<1> QED
  BY <1>1 DEF Grown

\* The histories grow.
LEMMA HistoriesNext ==
    ASSUME Histories, [Next]_vars
    PROVE  Histories' /\ Grown(sent, sent') /\ Grown(taken, taken')
<1>1. PICK S : taken \in Seq(S)
  BY DEF Histories
<1>2. Grown(sent, sent) /\ Grown(taken, taken)
  <2>1. Len(sent) \in Nat /\ Len(taken) \in Nat
    BY <1>1 DEF Histories
  <2> QED
    BY <2>1 DEF Grown
<1>3. CASE \E c \in Commands : Send(c)
  <2>1. PICK c \in Commands : sent' = Append(sent, c) /\ taken' = taken
    BY <1>3 DEF Send
  <2>2. sent' \in Seq(Commands) /\ Grown(sent, sent')
    BY <2>1, Appended DEF Histories
  <2> QED
    BY <1>1, <1>2, <2>1, <2>2 DEF Histories
<1>4. CASE Take
  <2>1. sent' = sent /\ taken' = Append(taken, msg)
    BY <1>4 DEF Take, clientVars
  <2> DEFINE T == S \cup {msg}
  <2>2. taken \in Seq(T) /\ msg \in T
    BY <1>1, SeqMonotonic
  <2> HIDE DEF T
  <2>3. taken' \in Seq(T) /\ Grown(taken, taken')
    BY <2>1, <2>2, Appended
  <2>4. \E U : taken' \in Seq(U)
    BY <2>3
  <2> QED
    BY <1>2, <2>1, <2>3, <2>4 DEF Histories
<1>5. CASE Close \/ ReadLine \/ Leave \/ ReadLink \/ UNCHANGED vars
  <2>1. sent' = sent /\ taken' = taken
    BY <1>5 DEF Close, ReadLine, Leave, ReadLink, clientVars, vars
  <2> QED
    BY <1>1, <1>2, <2>1 DEF Histories
<1> QED
  BY <1>3, <1>4, <1>5 DEF Next

\* What is sent stays sent, and so does what is lost.
LEMMA TameBefore ==
    ASSUME Histories, Histories', Grown(sent, sent'), AllTame'
    PROVE  AllTame
<1>1. DOMAIN sent = 1 .. Len(sent)
  BY LenProperties DEF Histories
<1>2. DOMAIN sent' = 1 .. Len(sent')
  BY LenProperties DEF Histories
<1> QED
  BY <1>1, <1>2 DEF AllTame, Grown

LEMMA LostNext ==
    ASSUME Lost, Grown(sent, sent'), Grown(taken, taken')
    PROVE  Lost'
<1>1. PICK k \in 1 .. Len(taken) + 1 : /\ k <= Len(sent) /\ ~PlainList(sent[k])
                                       /\ \A i \in 1 .. k - 1 : taken[i] = sent[i]
  BY DEF Lost
<1>2. k \in 1 .. Len(taken') + 1 /\ k <= Len(sent') /\ k \in 1 .. Len(sent)
  BY <1>1 DEF Grown
<1>3. sent'[k] = sent[k]
  BY <1>2 DEF Grown
<1>4. ASSUME NEW i \in 1 .. k - 1 PROVE taken'[i] = sent'[i]
  <2>1. i \in 1 .. Len(taken) /\ i \in 1 .. Len(sent)
    BY <1>1, <1>2 DEF Grown
  <2>2. taken'[i] = taken[i] /\ sent'[i] = sent[i]
    BY <2>1 DEF Grown
  <2> QED
    BY <1>1, <2>2
<1> QED
  BY <1>1, <1>2, <1>3, <1>4 DEF Lost

\* A reader that may be out of step has lost a command that is not plain.
LEMMA LostIf ==
    ASSUME ClientInv, OutOfStep(sent, Len(taken) + 1)
    PROVE  Lost
<1>1. PICK W, e, b, at : Stands(W, e, b, at) /\ KeepsStep(e, b, at)
  BY DEF ClientInv
<1>2. Len(taken) \in Nat /\ Len(sent) \in Nat
  BY <1>1, TakenFewer
<1> DEFINE T == {k \in 1 .. Len(taken) + 1 : k <= Len(sent) /\ ~PlainList(sent[k])}
<1>3. T # {} /\ T \subseteq Nat
  BY <1>2 DEF OutOfStep
<1>4. PICK k \in T : \A j \in T : k <= j
  BY <1>3, Least
<1>5. ASSUME NEW i \in 1 .. k - 1 PROVE taken[i] = sent[i]
  <2>1. i \in 1 .. Len(taken) /\ k \in Nat
    BY <1>2, <1>4
  <2>2. ~OutOfStep(sent, i)
    <3> SUFFICES ASSUME NEW j \in 1 .. i, j <= Len(sent), ~PlainList(sent[j]) PROVE FALSE
      BY DEF OutOfStep
    <3>1. j \in T /\ ~(k <= j)
      BY <1>2, <2>1
    <3> QED
      BY <1>4, <3>1
  <2>3. at[i] = i
    BY <1>1, <2>1, <2>2, Zenon DEF KeepsStep
  <2> QED
    BY <1>1, <2>1, <2>3 DEF Stands
<1> QED
  BY <1>4, <1>5 DEF Lost

\* What the two readers keep.
LEMMA FramingInvariant == Spec => []FramingInv
<1>1. Init => FramingInv
  <2> SUFFICES ASSUME Init PROVE FramingInv
    OBVIOUS
  <2>1. ClientInv /\ ReplicaInv
    BY ClientInit, ReplicaInit
  <2>2. Histories
    <3>1. sent = <<>> /\ taken = <<>>
      BY DEF Init
    <3>2. sent \in Seq(Commands) /\ taken \in Seq(Commands)
      BY <3>1, EmptySeq
    <3> QED
      BY <3>2 DEF Histories
  <2> QED
    BY <2>1, <2>2 DEF FramingInv
<1>2. FramingInv /\ [Next]_vars => FramingInv'
  <2> SUFFICES ASSUME FramingInv, [Next]_vars PROVE FramingInv'
    OBVIOUS
  <2>1. Histories' /\ Grown(sent, sent') /\ Grown(taken, taken')
    BY HistoriesNext DEF FramingInv
  <2>2. ASSUME AllTame' PROVE ClientInv' /\ ReplicaInv'
    <3>1. AllTame
      BY <2>1, <2>2, TameBefore DEF FramingInv
    <3>2. ClientInv /\ ReplicaInv
      BY <3>1 DEF FramingInv
    <3>3. ClientInv'
      BY <3>1, <3>2, ClientNext
    <3>4. ReplicaInv'
      BY <3>2, ReplicaNext
    <3> QED
      BY <3>3, <3>4
  <2>3. CASE Lost
    <3>1. Lost'
      BY <2>1, <2>3, LostNext
    <3> QED
      BY <2>1, <2>2, <3>1 DEF FramingInv
  <2>4. CASE ~Lost
    <3>1. ClientInv
      BY <2>4 DEF FramingInv
    <3>2. ~OutOfStep(sent, Len(taken) + 1)
      BY <2>4, <3>1, LostIf
    <3>3. ClientInv'
      BY <3>1, <3>2, ClientNext
    <3> QED
      BY <2>1, <2>2, <3>3 DEF FramingInv
  <2> QED
    BY <2>3, <2>4
<1> QED
  BY <1>1, <1>2, PTL DEF Spec

\* The offset of the replica is one of the places where a command of the
\* master ends, less what the replica does not count.
LEMMA FollowsBehind ==
    ASSUME NEW V, NEW g, NEW r, Follows(V, g, r)
    PROVE  /\ taken \in Seq(Lists) /\ Len(taken) \in Nat /\ Len(executed) \in 0 .. Len(taken)
           /\ g[Len(executed)] \in Nat /\ g[Len(executed)] <= Len(V) /\ Len(V) \in Nat
           /\ roffset \in Nat /\ roffset <= Len(V)
<1>1. taken \in Seq(Lists) /\ Laid(V, g, taken) /\ executed \in Seq(Lists) /\ Len(executed) <= Len(taken)
  BY DEF Follows
<1>2. roffset \in Nat /\ roffset + 2 * Cardinality(EarlyIn(taken, Len(executed))) = g[Len(executed)]
  BY DEF Follows
<1>3. taken \in Seq(Lists)
  BY <1>1
<1>4. Len(taken) \in Nat /\ Len(executed) \in Nat /\ Len(executed) \in 0 .. Len(taken)
  BY <1>1
<1>5. Cardinality(EarlyIn(taken, Len(executed))) \in Nat
  BY <1>4, EarlyCount
<1>6. g[Len(executed)] \in Nat /\ g[Len(executed)] <= Len(V) /\ Len(V) \in Nat
  <2>1. V \in Seq(Byte) /\ g \in [0 .. Len(taken) -> Nat] /\ g[0] = 0
    BY <1>1 DEF Laid
  <2>2. Len(V) \in Nat
    BY <2>1
  <2>3. CASE Len(executed) = 0
    BY <2>1, <2>2, <2>3
  <2>4. CASE Len(executed) # 0
    <3>1. Len(executed) \in 1 .. Len(taken)
      BY <1>4, <2>4
    <3> QED
      BY <1>1, <1>3, <3>1, LaidPlace
  <2> QED
    BY <2>3, <2>4
<1> DEFINE y == Cardinality(EarlyIn(taken, Len(executed)))
<1>7. roffset <= Len(V)
  <2>1. y \in Nat /\ roffset + 2 * y = g[Len(executed)]
    BY <1>2, <1>5
  <2> HIDE DEF y
  <2> QED
    BY <1>2, <1>6, <2>1
<1> QED
  BY <1>2, <1>3, <1>4, <1>6, <1>7

\* While no line of a value looks like a command, the commands, offsets and
\* buffers of both readers keep their types: only commands the client may send
\* ever appear, the connection holds one exactly while it offers it, and the
\* replica never counts more than the master.
THEOREM FramingTypeOK == Spec => [](AllTame => TypeOK)
<1> SUFFICES ASSUME FramingInv, AllTame PROVE TypeOK
  BY FramingInvariant, PTL
<1>0. ClientInv /\ ReplicaInv /\ sent \in Seq(Commands)
  BY DEF FramingInv, Histories
<1>1. PICK W, e, b, at : Stands(W, e, b, at) /\ Offers(e, b)
  BY <1>0 DEF ClientInv
<1>2. PICK V, g, r : Follows(V, g, r)
  BY <1>0 DEF ReplicaInv
<1>3. wire \in Seq(Byte) /\ buffer \in Seq(Byte) /\ open \in BOOLEAN /\ sent \in Seq(Lists) /\ taken \in Seq(Lists)
  BY <1>1 DEF Stands, Reads
<1>4. link \in Seq(Byte) /\ rbuffer \in Seq(Byte) /\ executed \in Seq(Lists) /\ offset = Len(V)
  BY <1>2 DEF Follows, Reads
<1>5. \A s \in {wire, buffer, link, rbuffer} : \A i \in DOMAIN s : s[i] \in Byte
  <2>1. \A s \in Seq(Byte) : \A i \in DOMAIN s : s[i] \in Byte
    <3> TAKE s \in Seq(Byte)
    <3> TAKE i \in DOMAIN s
    <3>1. i \in 1 .. Len(s)
      BY LenProperties
    <3> QED
      BY <3>1, ElementOfSeq
  <2> QED
    BY <1>3, <1>4, <2>1, Zenon
<1>6. \A s \in {sent, taken, executed} : Range(s) \subseteq Commands
  <2>1. Len(sent) \in Nat /\ Len(taken) \in Nat /\ Len(executed) \in Nat
    BY <1>3, <1>4
  <2>2. DOMAIN sent = 1 .. Len(sent) /\ DOMAIN taken = 1 .. Len(taken) /\ DOMAIN executed = 1 .. Len(executed)
    BY <1>3, <1>4, LenProperties
  <2>3. \A i \in 1 .. Len(sent) : sent[i] \in Commands
    BY <1>0, ElementOfSeq
  <2>4. \A i \in 1 .. Len(taken) : taken[i] \in Commands
    <3> TAKE i \in 1 .. Len(taken)
    <3>1. taken[i] = sent[at[i]] /\ at[i] \in 1 .. Len(sent)
      BY <1>1 DEF Stands
    <3> QED
      BY <2>3, <3>1
  <2>5. \A i \in 1 .. Len(executed) : i \in 1 .. Len(taken) /\ executed[i] = taken[i]
    <3>1. Len(executed) <= Len(taken) /\ \A i \in 1 .. Len(executed) : executed[i] = taken[i]
      BY <1>2 DEF Follows
    <3> QED
      BY <2>1, <3>1
  <2>6. Range(sent) \subseteq Commands
    BY <2>2, <2>3 DEF Range
  <2>7. Range(taken) \subseteq Commands
    BY <2>2, <2>4 DEF Range
  <2>8. Range(executed) \subseteq Commands
    BY <2>2, <2>4, <2>5 DEF Range
  <2> QED
    BY <2>6, <2>7, <2>8, Zenon
<1>7. offset \in Nat /\ roffset \in 0 .. offset
  <2>1. Len(V) \in Nat /\ roffset \in Nat /\ roffset <= Len(V)
    BY <1>2, FollowsBehind
  <2> QED
    BY <1>4, <2>1
<1>8. pc \in {"reading", "sending", "leaving"}
  BY <1>1 DEF Offers
<1>9. msg # <<>> <=> pc = "sending"
  <2>1. CASE pc = "sending"
    <3>1. PICK k \in 1 .. Len(sent) : msg = sent[k]
      BY <1>1, <2>1 DEF Offers
    <3>2. msg \in Lists
      BY <1>3, <3>1, ElementOfSeq
    <3>3. msg # <<>>
      BY <3>2 DEF Lists
    <3> QED
      BY <2>1, <3>3
  <2>2. CASE pc # "sending"
    <3>1. msg = <<>>
      BY <1>1, <2>2 DEF Offers
    <3> QED
      BY <2>2, <3>1
  <2> QED
    BY <2>1, <2>2
<1> QED
  BY <1>3, <1>5, <1>6, <1>7, <1>8, <1>9 DEF TypeOK

\* Wherever the connection is cut, the loop gets commands the client has sent,
\* whole, in their order and each once: the buffer of HandleConnection never
\* turns part of one command, or of two, into another, unless a line of a value
\* is a star and a number, which it takes for the beginning of a command.
THEOREM WholeCommands == Spec => []WholeCommandsInOrder
<1> SUFFICES ASSUME FramingInv PROVE WholeCommandsInOrder
  BY FramingInvariant, PTL
<1> SUFFICES ASSUME AllTame PROVE WholeCommandsInOrder
  BY DEF WholeCommandsInOrder
<1>1. PICK W, e, b, at : Stands(W, e, b, at)
  BY DEF FramingInv, ClientInv
<1>2. /\ sent \in Seq(Lists) /\ taken \in Seq(Lists) /\ at \in [1 .. Len(taken) -> 1 .. Len(sent)]
      /\ \A i \in 1 .. Len(taken) : taken[i] = sent[at[i]] /\ \A j \in 1 .. i - 1 : at[j] < at[i]
  BY <1>1 DEF Stands
<1>3. DOMAIN taken = 1 .. Len(taken) /\ DOMAIN sent = 1 .. Len(sent)
  BY <1>2, LenProperties
<1> QED
  BY <1>2, <1>3, Zenon DEF WholeCommandsInOrder

\* InStep is a number of commands: the first that is not plain ends it.
LEMMA InStepIs ==
    ASSUME sent \in Seq(Lists)
    PROVE  /\ InStep \in 0 .. Len(sent) /\ \A i \in 1 .. InStep : PlainList(sent[i])
           /\ ~OutOfStep(sent, InStep)
<1> DEFINE l == Len(sent)
           T == {n \in 0 .. l : n = l \/ ~Plain(sent[n + 1])}
<1>1. sent \in Seq(Lists) /\ l \in Nat
  OBVIOUS
<1> HIDE DEF l
<1>2. T \subseteq Nat /\ l \in T
  BY <1>1
<1>3. PICK n \in T : \A m \in T : n <= m
  BY <1>2, Least
<1>4. n \in 0 .. l /\ (n = l \/ ~Plain(sent[n + 1]))
  BY <1>3
<1>5. \A i \in 1 .. n : Plain(sent[i])
  <2> SUFFICES ASSUME NEW i \in 1 .. n, ~Plain(sent[i]) PROVE FALSE
    OBVIOUS
  <2>1. i - 1 \in 0 .. l /\ (i - 1) + 1 = i /\ ~(n <= i - 1)
    BY <1>1, <1>4
  <2>2. ~Plain(sent[(i - 1) + 1])
    BY <2>1
  <2>3. i - 1 \in T
    BY <2>1, <2>2
  <2> QED
    BY <1>3, <2>1, <2>3, Zenon
<1> DEFINE Fits(m) == (\A i \in 1 .. m : Plain(sent[i])) /\ (m = Len(sent) \/ ~Plain(sent[m + 1]))
<1>6. n \in 0 .. Len(sent) /\ Fits(n)
  BY <1>4, <1>5, Zenon DEF l
<1>7. InStep = CHOOSE m \in 0 .. Len(sent) : Fits(m)
  BY DEF InStep
<1> HIDE DEF Fits
<1>8. InStep \in 0 .. Len(sent) /\ Fits(InStep)
  BY <1>6, <1>7, Zenon
<1>9. PICK k : k = InStep
  OBVIOUS
<1>10. k \in 0 .. l /\ \A i \in 1 .. k : Plain(sent[i])
  BY <1>8, <1>9, Zenon DEF Fits, l
<1>11. \A i \in 1 .. k : PlainList(sent[i])
  <2> TAKE i \in 1 .. k
  <2>1. i \in 1 .. Len(sent)
    BY <1>1, <1>10 DEF l
  <2>2. sent[i] \in Lists
    BY <1>1, <2>1, ElementOfSeq
  <2> QED
    BY <1>10, <2>2, PlainIs
<1>12. ~OutOfStep(sent, k)
  BY <1>11, Zenon DEF OutOfStep
<1> QED
  BY <1>9, <1>10, <1>11, <1>12, Zenon DEF l

\* Fewer commands are out of step than more.
LEMMA OutOfStepGrows ==
    ASSUME NEW s, NEW i \in Nat, NEW n \in Nat, i <= n, OutOfStep(s, i)
    PROVE  OutOfStep(s, n)
<1>1. PICK j \in 1 .. i : j <= Len(s) /\ ~PlainList(s[j])
  BY DEF OutOfStep
<1>2. j \in 1 .. n
  BY <1>1
<1> QED
  BY <1>1, <1>2, Zenon DEF OutOfStep

\* With all of an open connection read, the commands before the first that is
\* not plain have been taken.
LEMMA InStepTaken ==
    ASSUME NEW W, NEW e, NEW b, NEW at, Stands(W, e, b, at), Offers(e, b), KeepsStep(e, b, at),
           open, wire = <<>>, pc = "reading", ~(Len(taken) >= InStep)
    PROVE  FALSE
<1> DEFINE t == Len(taken)
           k == t + 1
           c == sent[k]
<1>1. t \in Nat /\ Len(sent) \in Nat
  BY TakenFewer
<1>2. InStep \in 0 .. Len(sent) /\ ~OutOfStep(sent, InStep)
  BY InStepIs DEF Stands
<1>3. k \in 1 .. Len(sent) /\ k \in Nat /\ k <= InStep /\ InStep \in Nat /\ k - 1 = t
  BY <1>1, <1>2
<1>4. ~OutOfStep(sent, k)
  BY <1>2, <1>3, OutOfStepGrows
<1>5. sent \in Seq(Lists) /\ Laid(W, e, sent)
  BY DEF Stands
<1>6. /\ buffer \in Seq(Byte) /\ b \in Nat /\ b + Len(buffer) + Len(wire) = Len(W)
  BY DEF Stands, Reads
<1>7. Len(buffer) \in Nat /\ Len(wire) = 0
  BY <1>6, EmptySeq
<1>8. e[k] = e[k - 1] + Len(RAW(c)) /\ e[k] <= Len(W) /\ e[k - 1] \in Nat /\ e[k] \in Nat
      /\ Len(W) \in Nat /\ Len(RAW(c)) \in Nat /\ c \in Lists
  <2> HIDE DEF k
  <2> QED
    BY <1>3, <1>5, LaidPlace
<1>9. Complete(c) <= Len(RAW(c)) /\ Complete(c) \in Nat
  <2> HIDE DEF c
  <2>1. Complete(c) = Len(RAW(c)) - Early2(c) /\ Early2(c) \in {0, 2} /\ Complete(c) \in Nat
    BY <1>8, CommandEnds
  <2> QED
    BY <1>8, <2>1
<1>10. CASE b = e[t]
  <2>1. Len(buffer) < Complete(c)
    <3>1. b = e[k - 1]
      BY <1>3, <1>10
    <3> HIDE DEF k
    <3> QED
      BY <1>3, <3>1 DEF Offers
  <2>2. b + Len(buffer) = Len(W) /\ b = e[k - 1]
    BY <1>3, <1>6, <1>7, <1>8, <1>10
  <2> HIDE DEF k, c
  <2> QED
    BY <1>6, <1>7, <1>8, <1>9, <2>1, <2>2
<1>11. CASE t >= 1 /\ b = e[t] - 2 /\ buffer = <<>>
  <2>1. Len(buffer) = 0
    BY <1>11, EmptySeq
  <2>2. b = Len(W)
    BY <1>6, <1>7, <1>8, <2>1
  <2>3. e[t] = e[k - 1]
    BY <1>3
  <2> HIDE DEF k, c
  <2> QED
    BY <1>6, <1>8, <1>11, <2>2, <2>3
<1> QED
  BY <1>4, <1>10, <1>11 DEF KeepsStep

\* Behind a command that is not plain nothing more is claimed.
LEMMA LostNeedsNewline ==
    ASSUME Histories, Lost
    PROVE  LossNeedsNewline
<1>1. PICK k \in 1 .. Len(taken) + 1 : /\ k <= Len(sent) /\ ~PlainList(sent[k])
                                       /\ \A i \in 1 .. k - 1 : taken[i] = sent[i]
  BY DEF Lost
<1>2. sent \in Seq(Lists) /\ Len(sent) \in Nat /\ Len(taken) \in Nat
  BY CommandsLists, SeqMonotonic DEF Histories
<1>3. InStep \in 0 .. Len(sent) /\ \A i \in 1 .. InStep : PlainList(sent[i])
  BY <1>2, InStepIs
<1>4. PICK n : n = InStep
  OBVIOUS
<1>5. n \in 0 .. Len(sent) /\ n < k
  <2>1. k \notin 1 .. n
    BY <1>1, <1>3, <1>4
  <2> QED
    BY <1>2, <1>3, <1>4, <2>1
<1>6. Len(taken) >= n /\ n # Len(sent) /\ \A i \in 1 .. n : taken[i] = sent[i]
  BY <1>1, <1>2, <1>5
<1> QED
  BY <1>4, <1>6, Zenon DEF LossNeedsNewline

\* On an open connection of which everything has been read, every command
\* before the first with a newline inside a value has been handled, in its
\* place, and nothing is left in the buffer when all commands are such: a
\* connection gets out of step through such a value and in no other way,
\* whatever else the values hold.
THEOREM LossOnlyByNewline == Spec => []LossNeedsNewline
<1> SUFFICES ASSUME FramingInv PROVE LossNeedsNewline
  BY FramingInvariant, PTL
<1> SUFFICES ASSUME ClientInv PROVE LossNeedsNewline
  BY LostNeedsNewline DEF FramingInv
<1> SUFFICES ASSUME open, wire = <<>>, pc = "reading"
             PROVE  /\ Len(taken) >= InStep
                    /\ \A i \in 1 .. InStep : taken[i] = sent[i]
                    /\ InStep = Len(sent) => buffer = <<>>
  BY DEF LossNeedsNewline
<1>1. PICK W, e, b, at : Stands(W, e, b, at) /\ Offers(e, b) /\ KeepsStep(e, b, at)
  BY DEF ClientInv
<1>2. Len(taken) >= InStep
  BY <1>1, InStepTaken
<1>3. Len(taken) \in Nat /\ Len(sent) \in Nat /\ Len(taken) <= Len(sent)
  BY <1>1, TakenFewer
<1>4. InStep \in 0 .. Len(sent) /\ ~OutOfStep(sent, InStep)
  BY <1>1, InStepIs DEF Stands
<1>5. ASSUME NEW i \in 1 .. InStep
      PROVE  taken[i] = sent[i]
  <2>1. i \in 1 .. Len(taken) /\ i \in Nat /\ i <= InStep /\ InStep \in Nat
    BY <1>2, <1>3, <1>4
  <2>2. ~OutOfStep(sent, i)
    BY <1>4, <2>1, OutOfStepGrows
  <2>3. at[i] = i
    BY <1>1, <2>1, <2>2, Zenon DEF KeepsStep
  <2>4. taken[i] = sent[at[i]]
    BY <1>1, <2>1 DEF Stands
  <2> QED
    BY <2>3, <2>4
<1>6. ASSUME InStep = Len(sent)
      PROVE  buffer = <<>>
  <2>1. Len(taken) = Len(sent)
    BY <1>2, <1>3, <1>6
  <2>2. ~OutOfStep(sent, Len(taken) + 1)
    <3> SUFFICES ASSUME OutOfStep(sent, Len(taken) + 1) PROVE FALSE
      OBVIOUS
    <3>1. PICK j \in 1 .. Len(taken) + 1 : j <= Len(sent) /\ ~PlainList(sent[j])
      BY DEF OutOfStep
    <3>2. j \in 1 .. Len(sent)
      BY <1>3, <3>1
    <3> QED
      BY <1>4, <1>6, <3>1, <3>2, Zenon DEF OutOfStep
  <2>3. b = e[Len(taken)] \/ buffer = <<>>
    BY <1>1, <2>2, Zenon DEF KeepsStep
  <2>4. ASSUME b = e[Len(taken)] PROVE buffer = <<>>
    <3>1. /\ buffer \in Seq(Byte) /\ b \in Nat /\ b + Len(buffer) + Len(wire) = Len(W) /\ e[Len(sent)] = Len(W)
      BY <1>1 DEF Stands, Reads, Laid
    <3>2. Len(buffer) \in Nat /\ Len(wire) = 0
      BY <3>1, EmptySeq
    <3>3. Len(buffer) = 0
      BY <2>1, <2>4, <3>1, <3>2
    <3> QED
      BY <3>1, <3>3, EmptySeq
  <2> QED
    BY <2>3, <2>4
<1> QED
  BY <1>2, <1>5, <1>6

\* EndsEarly is what the lengths of the commands count.
LEMMA EarlyIs == \A c : EndsEarly(c) <=> Early2(c) = 2
BY DEF EndsEarly, Early2, Early

\* A replica that has read all of its link has executed all the master took.
LEMMA FollowsToEnd ==
    ASSUME NEW V, NEW g, NEW r, Follows(V, g, r), link = <<>>
    PROVE  Len(executed) = Len(taken)
<1> DEFINE x == Len(executed)
           n == Len(taken)
<1>1. /\ taken \in Seq(Lists) /\ n \in Nat /\ x \in 0 .. n /\ g[x] \in Nat /\ g[x] <= Len(V) /\ Len(V) \in Nat
  BY FollowsBehind
<1>2. /\ r \in Nat /\ rbuffer \in Seq(Byte) /\ r + Len(rbuffer) + Len(link) = Len(V) /\ Laid(V, g, taken)
  BY DEF Follows, Reads
<1>3. Len(rbuffer) \in Nat /\ Len(link) = 0
  BY <1>2, EmptySeq
<1>4. r + Len(rbuffer) = Len(V)
  BY <1>1, <1>2, <1>3
<1>5. CASE r = g[x] /\ (x < n => Len(rbuffer) < Complete(taken[x + 1]))
  <2> SUFFICES ASSUME x # n PROVE FALSE
    OBVIOUS
  <2> DEFINE k == x + 1
             c == taken[k]
  <2>1. k \in 1 .. n /\ k - 1 = x /\ Len(rbuffer) < Complete(c)
    BY <1>1, <1>5
  <2> HIDE DEF k
  <2>2. g[k] = g[k - 1] + Len(RAW(c)) /\ g[k] <= Len(V) /\ g[k - 1] \in Nat /\ g[k] \in Nat
        /\ Len(RAW(c)) \in Nat /\ c \in Lists
    BY <1>1, <1>2, <2>1, LaidPlace
  <2>3. Complete(c) = Len(RAW(c)) - Early2(c) /\ Early2(c) \in {0, 2} /\ Complete(c) \in Nat
    BY <2>2, CommandEnds
  <2>4. r = g[k - 1]
    BY <1>5, <2>1
  <2> HIDE DEF c, x, n
  <2> QED
    BY <1>1, <1>2, <1>3, <1>4, <2>1, <2>2, <2>3, <2>4, SMTT(30)
<1>6. CASE x >= 1 /\ r = g[x] - 2 /\ rbuffer = <<>>
  <2>1. Len(rbuffer) = 0
    BY <1>6, EmptySeq
  <2> QED
    BY <1>1, <1>2, <1>4, <1>6, <2>1
<1> QED
  BY <1>5, <1>6 DEF Follows

\* A replica that has read all of its link holds every write of the master, in
\* order, and has counted all of its bytes but two of each write whose last
\* value is empty or ends in a newline, as long as no line of a value is a star
\* and a number.
THEOREM ReplicaBehindByLineEnds == Spec => []ReplicaFallsBehindByLineEnds
<1> SUFFICES ASSUME FramingInv PROVE ReplicaFallsBehindByLineEnds
  BY FramingInvariant, PTL
<1> SUFFICES ASSUME AllTame, link = <<>>
             PROVE  /\ executed = taken
                    /\ offset - roffset = 2 * Cardinality({i \in DOMAIN taken : EndsEarly(taken[i])})
  BY DEF ReplicaFallsBehindByLineEnds
<1>1. PICK V, g, r : Follows(V, g, r)
  BY DEF FramingInv, ReplicaInv
<1> DEFINE n == Len(taken)
           y == Cardinality(EarlyIn(taken, n))
<1>2. Len(executed) = n
  BY <1>1, FollowsToEnd
<1>3. /\ taken \in Seq(Lists) /\ executed \in Seq(Lists) /\ offset = Len(V) /\ g[n] = Len(V)
      /\ (\A i \in 1 .. n : executed[i] = taken[i]) /\ roffset \in Nat /\ roffset + 2 * y = g[n]
  BY <1>1, <1>2 DEF Follows, Laid
<1>4. executed = taken
  BY <1>2, <1>3, SeqEqual
<1>5. {i \in DOMAIN taken : EndsEarly(taken[i])} = EarlyIn(taken, n)
  <2>1. DOMAIN taken = 1 .. n
    BY <1>3, LenProperties
  <2> QED
    BY <2>1, EarlyIs, Zenon DEF EarlyIn
<1>6. offset - roffset = 2 * y
  <2>1. Len(V) \in Nat /\ n \in Nat
    BY <1>1, FollowsBehind
  <2>2. y \in Nat
    BY <2>1, EarlyCount
  <2> HIDE DEF y, n
  <2>3. offset = roffset + 2 * y /\ offset \in Nat
    BY <1>3, <2>1
  <2> QED
    BY <1>3, <2>2, <2>3
<1> QED
  BY <1>4, <1>5, <1>6, Zenon

=============================================================================
