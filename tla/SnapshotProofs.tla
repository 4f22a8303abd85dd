--------------------------- MODULE SnapshotProofs ---------------------------
(***************************************************************************)
(* Proofs about module Snapshot, for every menu of writes and every        *)
(* number of SAVEs: what the saver writes is what the parser reads, of a   *)
(* file that was cut anywhere the parser reads a part, and the file of a   *)
(* SAVE that ran alone is always the beginning of what it has to write.    *)
(***************************************************************************)
EXTENDS Snapshot, BytesProofs

(***************************************************************************)
(* Lengths.                                                                *)
(***************************************************************************)
\* Does f hold s behind its first o bytes.
At(f, o, s) == o + Len(s) <= Len(f) /\ \A j \in 1 .. Len(s) : f[o + j] = s[j]

\* One thing behind another.
LEMMA AtJoined ==
    ASSUME NEW f \in Seq(Nat), NEW o \in Nat, NEW s \in Seq(Nat), NEW t \in Seq(Nat), At(f, o, s \o t)
    PROVE  At(f, o, s) /\ At(f, o + Len(s), t)
<1> DEFINE u == s \o t
<1>1. /\ Len(u) = Len(s) + Len(t) /\ Len(s) \in Nat /\ Len(t) \in Nat /\ Len(f) \in Nat
      /\ \A j \in 1 .. Len(s) : u[j] = s[j]
      /\ \A j \in 1 .. Len(t) : u[Len(s) + j] = t[j]
  BY Joined
<1>2. o + Len(u) <= Len(f) /\ \A j \in 1 .. Len(u) : f[o + j] = u[j]
  BY DEF At
<1> HIDE DEF u
<1>3. ASSUME NEW j \in 1 .. Len(s) PROVE f[o + j] = s[j]
  <2>1. j \in 1 .. Len(u)
    BY <1>1
  <2> QED
    BY <1>1, <1>2, <2>1
<1>4. ASSUME NEW j \in 1 .. Len(t) PROVE f[(o + Len(s)) + j] = t[j]
  <2>1. Len(s) + j \in 1 .. Len(u) /\ o + (Len(s) + j) = (o + Len(s)) + j
    BY <1>1
  <2>2. f[o + (Len(s) + j)] = u[Len(s) + j]
    BY <1>2, <2>1
  <2> QED
    BY <1>1, <2>1, <2>2
<1>5. o + Len(s) <= Len(f) /\ (o + Len(s)) + Len(t) <= Len(f)
  BY <1>1, <1>2
<1> QED
  BY <1>3, <1>4, <1>5 DEF At

\* The lowest byte of a number and the others.
LEMMA LowByte ==
    ASSUME NEW n \in Nat
    PROVE  n = 256 * Shift(n) + (n % 256) /\ Shift(n) \in Nat /\ n % 256 \in 0 .. 255
<1>1. n \div 256 \in Int /\ n % 256 \in 0 .. 255
  OBVIOUS
<1>2. n = 256 * (n \div 256) + (n % 256)
  OBVIOUS
<1>3. PICK a \in Int, r \in 0 .. 255 : a = n \div 256 /\ r = n % 256
  BY <1>1
<1>4. n = 256 * a + r
  BY <1>2, <1>3
<1>5. a \in Nat
  BY <1>4
<1>6. Shift(n) = a
  BY <1>3 DEF Shift
<1> QED
  BY <1>3, <1>4, <1>5, <1>6

\* The greatest length of 32 bits.
Most == 4294967295

\* The four lowest bytes.
B0(n) == n % 256
B1(n) == Shift(n) % 256
B2(n) == Shift(Shift(n)) % 256
B3(n) == Shift(Shift(Shift(n))) % 256

\* Four bytes make up a number below 2^32.
FourOf(n) == \E a \in Nat, b \in Nat, c \in Nat, d \in Nat :
    /\ a = B3(n) /\ b = B2(n) /\ c = B1(n) /\ d = B0(n)
    /\ a <= 255 /\ b <= 255 /\ c <= 255 /\ d <= 255
    /\ n <= Most => n = 256 * (256 * (256 * a + b) + c) + d

\* And any number has four lowest bytes.
LEMMA FourBytes ==
    ASSUME NEW n \in Nat
    PROVE  FourOf(n)
<1> DEFINE a == Shift(n)
           b == Shift(a)
           c == Shift(b)
<1>1. n = 256 * a + B0(n) /\ a \in Nat /\ B0(n) \in 0 .. 255
  BY LowByte DEF B0
<1>2. a = 256 * b + B1(n) /\ b \in Nat /\ B1(n) \in 0 .. 255
  BY <1>1, LowByte, ZenonT(30) DEF B1
<1>3. b = 256 * c + B2(n) /\ c \in Nat /\ B2(n) \in 0 .. 255
  BY <1>2, LowByte DEF B2
<1>4. c = 256 * Shift(c) + B3(n) /\ Shift(c) \in Nat /\ B3(n) \in 0 .. 255
  BY <1>3, LowByte DEF B3
<1> HIDE DEF a, b, c
<1>5. ASSUME n <= Most PROVE n = 256 * (256 * (256 * B3(n) + B2(n)) + B1(n)) + B0(n)
  <2>1. c <= 255
    BY <1>1, <1>2, <1>3, <1>5, SMT DEF Most
  <2>2. Shift(c) = 0
    BY <1>4, <2>1
  <2>3. B3(n) = c
    BY <1>4, <2>2
  <2> QED
    BY <1>1, <1>2, <1>3, <2>3, Zenon
<1>6. B0(n) \in Nat /\ B1(n) \in Nat /\ B2(n) \in Nat /\ B3(n) \in Nat
      /\ B0(n) <= 255 /\ B1(n) <= 255 /\ B2(n) <= 255 /\ B3(n) <= 255
  BY <1>1, <1>2, <1>3, <1>4
<1> QED
  BY <1>5, <1>6, SMTT(30) DEF FourOf

\* A byte, and four, can be read as such.
LEMMA ByteAt ==
    ASSUME NEW f \in Seq(Nat), NEW i \in Nat \ {0}, i <= Len(f), f[i] <= 255
    PROVE  AreBytes(f, i, 1)
<1>1. \A j \in i .. i + 1 - 1 : j = i
  OBVIOUS
<1>2. Has(f, i, 1)
  BY DEF Has
<1> QED
  BY <1>1, <1>2 DEF AreBytes

\* Four bytes that are there.
LEMMA FourAt ==
    ASSUME NEW f \in Seq(Nat), NEW i \in Nat \ {0}, i + 3 <= Len(f),
           f[i] <= 255, f[i + 1] <= 255, f[i + 2] <= 255, f[i + 3] <= 255
    PROVE  AreBytes(f, i, 4)
<1>1. \A j \in i .. i + 4 - 1 : j = i \/ j = i + 1 \/ j = i + 2 \/ j = i + 3
  OBVIOUS
<1>2. Has(f, i, 4)
  BY DEF Has
<1> QED
  BY <1>1, <1>2 DEF AreBytes

\* What the saver writes for a length.
LengthBytes(n) == FlattenSeq(writeLength(n))

\* Two sequences, flattened.
LEMMA FlatTwo ==
    ASSUME NEW S, NEW x \in Seq(S), NEW y \in Seq(S)
    PROVE  FlattenSeq(<<x, y>>) = x \o y
<1>1. <<x>> \in Seq(Seq(S)) /\ <<x, y>> = Append(<<x>>, y)
  OBVIOUS
<1>2. FlattenSeq(<<x>>) = x
  BY FlatOne, Zenon
<1> QED
  BY <1>1, <1>2, FlatAppend

\* Which of the three forms a length has.
Short(n) == n <= 63
Medium(n) == n <= 16383

\* The bytes of the three forms.
LEMMA LengthForms ==
    ASSUME NEW n \in Nat
    PROVE  LengthBytes(n) = IF Short(n) THEN <<n>>
                            ELSE IF Medium(n) THEN <<64 + Shift(n), B0(n)>>
                            ELSE <<128>> \o <<B3(n), B2(n), B1(n), B0(n)>>
<1>1. Shift(n) \in Nat
  BY LowByte
<1>2. PICK a \in Nat, b \in Nat, c \in Nat, d \in Nat : a = B3(n) /\ b = B2(n) /\ c = B1(n) /\ d = B0(n)
  BY FourBytes, ZenonT(30) DEF FourOf
<1>3. writeLength(n) = IF Short(n) THEN <<<<n>>>>
                       ELSE IF Medium(n) THEN <<<<64 + Shift(n), B0(n)>>>>
                       ELSE <<<<128>>, BigEndian4(n)>>
  BY DEF writeLength, Short, Medium, B0
<1>4. CASE Short(n)
  <2>1. writeLength(n) = <<<<n>>>> /\ <<n>> \in Seq(Nat)
    BY <1>3, <1>4
  <2> QED
    BY <1>4, <2>1, FlatOne, Zenon DEF LengthBytes
<1>5. CASE ~Short(n) /\ Medium(n)
  <2>1. writeLength(n) = <<<<64 + Shift(n), B0(n)>>>>
    BY <1>3, <1>5
  <2>2. <<64 + Shift(n), B0(n)>> \in Seq(Nat)
    BY <1>1, <1>2
  <2> QED
    BY <1>5, <2>1, <2>2, FlatOne, Zenon DEF LengthBytes
<1>6. CASE ~Short(n) /\ ~Medium(n)
  <2>1. writeLength(n) = <<<<128>>, BigEndian4(n)>>
    BY <1>3, <1>6
  <2>2. BigEndian4(n) = <<B3(n), B2(n), B1(n), B0(n)>>
    BY DEF BigEndian4, B0, B1, B2, B3
  <2>4. <<128>> \in Seq(Nat) /\ BigEndian4(n) \in Seq(Nat)
    BY <1>2, <2>2
  <2>5. FlattenSeq(<<<<128>>, BigEndian4(n)>>) = <<128>> \o BigEndian4(n)
    BY <2>4, FlatTwo
  <2> QED
    BY <1>6, <2>1, <2>2, <2>5 DEF LengthBytes
<1> QED
  BY <1>4, <1>5, <1>6

\* A length that the saver wrote is the length that the parser reads.
LengthOf(f, o, n) ==
    /\ LengthBytes(n) \in Seq(Nat) /\ Len(LengthBytes(n)) \in Nat
    /\ \E m \in Nat : readLength(f, o + 1) = Read(m, o + Len(LengthBytes(n)) + 1) /\ (n <= Most => m = n)

\* It has one, two or five bytes.
LEMMA LengthRead ==
    ASSUME NEW f \in Seq(Nat), NEW o \in Nat, NEW n \in Nat, At(f, o, LengthBytes(n))
    PROVE  LengthOf(f, o, n)
<1> DEFINE L == LengthBytes(n)
<1>1. o + Len(L) <= Len(f) /\ \A j \in 1 .. Len(L) : f[o + j] = L[j]
  BY DEF At
<1>2. Len(f) \in Nat
  OBVIOUS
<1>3. PICK x \in Nat, r \in Nat : n = 256 * x + r /\ x = Shift(n) /\ r = B0(n) /\ r <= 255
  <2>1. n = 256 * Shift(n) + (n % 256) /\ Shift(n) \in Nat /\ n % 256 \in 0 .. 255
    BY LowByte
  <2>2. B0(n) \in Nat /\ B0(n) <= 255
    BY <2>1 DEF B0
  <2> QED
    BY <2>1, <2>2, Zenon DEF B0
<1>4. CASE Short(n)
  <2>1. L = <<n>>
    BY <1>4, LengthForms
  <2>2. Len(L) = 1 /\ L[1] = n /\ L \in Seq(Nat)
    BY <2>1
  <2> HIDE DEF L
  <2>3. f[o + 1] = n /\ o + 1 <= Len(f) /\ n <= 63
    BY <1>1, <1>4, <2>2 DEF Short
  <2>4. AreBytes(f, o + 1, 1)
    BY <2>3, ByteAt
  <2>5. readLength(f, o + 1) = Read(n, o + 1 + 1)
    BY <2>3, <2>4 DEF readLength
  <2>6. readLength(f, o + 1) = Read(n, o + Len(L) + 1)
    BY <2>2, <2>5
  <2> QED
    BY <2>2, <2>6 DEF LengthOf, L
<1>5. CASE ~Short(n) /\ Medium(n)
  <2>1. L = <<64 + x, r>>
    BY <1>3, <1>5, LengthForms, Zenon
  <2>2. Len(L) = 2 /\ L[1] = 64 + x /\ L[2] = r /\ L \in Seq(Nat)
    BY <2>1
  <2> HIDE DEF L
  <2>3. f[o + 1] = 64 + x /\ f[o + 2] = r /\ o + 2 <= Len(f)
    BY <1>1, <2>2
  <2>4. x <= 63
    <3>1. n = 256 * x + r /\ n <= 16383
      BY <1>3, <1>5, SMT DEF Medium
    <3> QED
      BY <3>1, SMT
  <2>5. AreBytes(f, o + 1, 1)
    <3>1. f[o + 1] <= 255 /\ o + 1 <= Len(f) /\ o + 1 \in Nat \ {0}
      BY <1>2, <2>3, <2>4
    <3> QED
      BY <3>1, ByteAt
  <2>6. o + 1 + 1 = o + 2
    OBVIOUS
  <2>7. AreBytes(f, o + 2, 1)
    <3>1. f[o + 2] <= 255 /\ o + 2 <= Len(f) /\ o + 2 \in Nat \ {0}
      BY <1>2, <1>3, <2>3
    <3> QED
      BY <3>1, ByteAt
  <2>8. ~(f[o + 1] < 64) /\ f[o + 1] < 128
    BY <2>3, <2>4
  <2>9. readLength(f, o + 1) = Read((f[o + 1] - 64) * 256 + f[o + 1 + 1], o + 1 + 2)
    BY <2>5, <2>6, <2>7, <2>8, Zenon DEF readLength
  <2>10. (f[o + 1] - 64) * 256 + f[o + 2] = n
    <3>1. PICK y \in Nat : y = f[o + 1] /\ y = 64 + x
      BY <2>3
    <3>2. (y - 64) * 256 + r = 256 * x + r
      BY <3>1
    <3> QED
      BY <1>3, <2>3, <3>1, <3>2
  <2>11. o + 1 + 2 = o + Len(L) + 1
    BY <2>2
  <2>12. readLength(f, o + 1) = Read(n, o + Len(L) + 1)
    BY <2>6, <2>9, <2>10, <2>11, Zenon
  <2> QED
    BY <2>2, <2>12 DEF LengthOf, L
<1>6. CASE ~Short(n) /\ ~Medium(n)
  <2>1. PICK a \in Nat, b \in Nat, c \in Nat, d \in Nat :
          /\ a = B3(n) /\ b = B2(n) /\ c = B1(n) /\ d = B0(n)
          /\ a <= 255 /\ b <= 255 /\ c <= 255 /\ d <= 255
          /\ n <= Most => n = 256 * (256 * (256 * a + b) + c) + d
    BY FourBytes, Zenon DEF FourOf
  <2> DEFINE q == <<a, b, c, d>>
             h == <<128>>
  <2>2. L = h \o q
    BY <1>6, <2>1, LengthForms, Zenon
  <2>3. q \in Seq(Nat) /\ Len(q) = 4 /\ q[1] = a /\ q[2] = b /\ q[3] = c /\ q[4] = d
    OBVIOUS
  <2>4. h \in Seq(Nat) /\ Len(h) = 1 /\ h[1] = 128
    OBVIOUS
  <2> HIDE DEF q, h
  <2>5. L \in Seq(Nat) /\ Len(L) = Len(h) + Len(q)
    <3>0. h \in Seq(Nat) /\ q \in Seq(Nat)
      BY <2>3, <2>4
    <3>1. h \o q \in Seq(Nat) /\ Len(h \o q) = Len(h) + Len(q)
      BY <3>0, Joined
    <3> QED
      BY <2>2, <3>1, Zenon
  <2>6. At(f, o, h) /\ At(f, o + Len(h), q)
    <3>1. At(f, o, h \o q)
      BY <2>2
    <3> QED
      BY <2>3, <2>4, <3>1, AtJoined, ZenonT(30)
  <2> HIDE DEF L
  <2>7. f[o + 1] = 128
    BY <2>4, <2>6 DEF At
  <2> DEFINE i == o + 1
  <2>8. At(f, i, q)
    BY <2>4, <2>6
  <2>9. i \in Nat \ {0}
    OBVIOUS
  <2> HIDE DEF i
  <2>10. f[i + 1] = a /\ f[i + 2] = b /\ f[i + 3] = c /\ f[i + 4] = d /\ i + 4 <= Len(f)
    BY <2>3, <2>8 DEF At
  <2>11. AreBytes(f, i, 1)
    <3>1. f[i] <= 255 /\ i <= Len(f)
      BY <1>2, <2>7, <2>9, <2>10 DEF i
    <3> QED
      BY <2>9, <3>1, ByteAt
  <2>12. AreBytes(f, i + 1, 4)
    <3>1. PICK j \in Nat \ {0} : j = i + 1
      BY <2>9
    <3>2. j + 1 = i + 2 /\ j + 2 = i + 3 /\ j + 3 = i + 4
      BY <2>9, <3>1
    <3>3. f[j] = a /\ f[j + 1] = b /\ f[j + 2] = c /\ f[j + 3] = d /\ j + 3 <= Len(f)
      BY <2>10, <3>1, <3>2
    <3>4. AreBytes(f, j, 4)
      BY <2>1, <3>3, FourAt
    <3> QED
      BY <3>1, <3>4
  <2>13. PICK m \in Nat : m = 256 * (256 * (256 * a + b) + c) + d
    OBVIOUS
  <2>14. ~(f[i] < 64) /\ ~(f[i] < 128) /\ f[i] < 192
    BY <2>7 DEF i
  <2>15. readLength(f, i) = Read(256 * (256 * (256 * f[i + 1] + f[i + 2]) + f[i + 3]) + f[i + 4], i + 5)
    BY <2>11, <2>12, <2>14, SMT DEF readLength
  <2>16. readLength(f, i) = Read(m, i + 5)
    BY <2>10, <2>13, <2>15, ZenonT(60)
  <2>17. n <= Most => m = n
    BY <2>1, <2>13, Zenon
  <2>18. i + 5 = o + Len(L) + 1 /\ Len(L) \in Nat
    BY <2>3, <2>4, <2>5 DEF i
  <2>19. readLength(f, o + 1) = Read(m, o + Len(L) + 1)
    BY <2>16, <2>18, Zenon DEF i
  <2> QED
    BY <2>5, <2>17, <2>18, <2>19, Zenon DEF LengthOf, L
<1> QED
  BY <1>4, <1>5, <1>6

(***************************************************************************)
(* Where a reader ends, and what it returns.                               *)
(***************************************************************************)
\* What was read from position i ends inside the file.
Ends(f, i, r) == r.ok => r.at \in Nat /\ i < r.at /\ r.at <= Len(f) + 1

\* What AreBytes says of one byte and of four.
LEMMA OneByte ==
    ASSUME NEW f \in Seq(Nat), NEW i \in Nat \ {0}, AreBytes(f, i, 1)
    PROVE  i <= Len(f) /\ f[i] \in Nat /\ f[i] <= 255
<1>1. i + 1 - 1 = i /\ i \in i .. i + 1 - 1
  OBVIOUS
<1>2. i <= Len(f) /\ f[i] <= 255
  BY <1>1 DEF AreBytes, Has
<1>3. i \in 1 .. Len(f)
  BY <1>2
<1> QED
  BY <1>2, <1>3, ElementOfSeq

\* Two bytes are numbers.
LEMMA TwoBytes ==
    ASSUME NEW f \in Seq(Nat), NEW i \in Nat \ {0}, AreBytes(f, i, 2)
    PROVE  /\ i + 1 <= Len(f) /\ f[i] \in Nat /\ f[i] <= 255 /\ f[i + 1] \in Nat /\ f[i + 1] <= 255
<1>1. i + 2 - 1 = i + 1 /\ i \in i .. i + 2 - 1 /\ i + 1 \in i .. i + 2 - 1
  OBVIOUS
<1>2. i + 1 <= Len(f) /\ f[i] <= 255 /\ f[i + 1] <= 255
  BY <1>1 DEF AreBytes, Has
<1>3. i \in 1 .. Len(f) /\ i + 1 \in 1 .. Len(f)
  BY <1>2
<1> QED
  BY <1>2, <1>3, ElementOfSeq

\* Four bytes are numbers.
LEMMA FourInts ==
    ASSUME NEW f \in Seq(Nat), NEW i \in Nat \ {0}, AreBytes(f, i, 4)
    PROVE  /\ i + 3 <= Len(f) /\ f[i] \in Nat /\ f[i + 1] \in Nat /\ f[i + 2] \in Nat /\ f[i + 3] \in Nat
           /\ f[i] <= 255 /\ f[i + 1] <= 255 /\ f[i + 2] <= 255 /\ f[i + 3] <= 255
<1>1. /\ i + 4 - 1 = i + 3 /\ i \in i .. i + 4 - 1 /\ i + 1 \in i .. i + 4 - 1
      /\ i + 2 \in i .. i + 4 - 1 /\ i + 3 \in i .. i + 4 - 1
  OBVIOUS
<1>2. i + 3 <= Len(f) /\ f[i] <= 255 /\ f[i + 1] <= 255 /\ f[i + 2] <= 255 /\ f[i + 3] <= 255
  BY <1>1 DEF AreBytes, Has
<1>3. i \in 1 .. Len(f) /\ i + 1 \in 1 .. Len(f) /\ i + 2 \in 1 .. Len(f) /\ i + 3 \in 1 .. Len(f)
  BY <1>2, SMTT(30)
<1>4. f[i] \in Nat /\ f[i + 1] \in Nat /\ f[i + 2] \in Nat /\ f[i + 3] \in Nat
  BY <1>3, ElementOfSeq
<1> QED
  BY <1>2, <1>4

\* A length is a number of 32 bits.
LengthIs(f, i, r) == Ends(f, i, r) /\ (r.ok => r.val \in Nat /\ r.val <= Most)

\* The fields of what was read.
LEMMA ReadFields == \A v, a : Read(v, a).ok = TRUE /\ Read(v, a).val = v /\ Read(v, a).at = a /\ Read(v, a).special = FALSE
  BY DEF Read

\* What could not be read.
LEMMA FailedFields == Failed.ok = FALSE
  BY DEF Failed

\* The largest of four bytes.
Makes(v, a, b, c, d) == v = 256 * (256 * (256 * a + b) + c) + d

\* It is Most.
LEMMA FourMost ==
    ASSUME NEW a \in Nat, NEW b \in Nat, NEW c \in Nat, NEW d \in Nat, a <= 255, b <= 255, c <= 255, d <= 255,
           NEW v, Makes(v, a, b, c, d)
    PROVE  v \in Nat /\ v <= Most
<1>1. PICK x \in Nat : x = 256 * a + b
  OBVIOUS
<1>2. x <= 65535
  BY <1>1, SMT
<1>3. PICK y \in Nat : y = 256 * x + c
  OBVIOUS
<1>4. y <= 16777215
  BY <1>2, <1>3, SMT
<1>5. PICK z \in Nat : z = 256 * y + d
  OBVIOUS
<1>6. z <= Most
  BY <1>4, <1>5, SMT DEF Most
<1> QED
  BY <1>1, <1>3, <1>5, <1>6 DEF Makes

\* A length that was read.
LEMMA LengthIsRead ==
    ASSUME NEW f, NEW i, NEW v \in Nat, NEW a \in Nat, v <= Most, i < a, a <= Len(f) + 1
    PROVE  LengthIs(f, i, Read(v, a))
BY ReadFields DEF LengthIs, Ends

\* What readLength returns.
LEMMA LengthType ==
    ASSUME NEW f \in Seq(Nat), NEW i \in Nat \ {0}
    PROVE  LengthIs(f, i, readLength(f, i))
<1> DEFINE r == readLength(f, i)
<1>1. CASE r = Failed
  BY <1>1, FailedFields DEF LengthIs, Ends
<1>3. CASE r # Failed
  <2>1. AreBytes(f, i, 1)
    BY <1>3 DEF readLength
  <2>2. i <= Len(f) /\ f[i] \in Nat /\ f[i] <= 255 /\ Len(f) \in Nat
    BY <2>1, OneByte
  <2>3. CASE f[i] < 64
    <3>1. r = Read(f[i], i + 1)
      BY <2>1, <2>3 DEF readLength
    <3>2. f[i] <= Most
      BY <2>2, SMT DEF Most
    <3>3. i + 1 \in Nat /\ i < i + 1 /\ i + 1 <= Len(f) + 1
      BY <2>2
    <3> HIDE DEF r
    <3>4. LengthIs(f, i, Read(f[i], i + 1))
      BY <2>2, <3>2, <3>3, LengthIsRead
    <3> QED
      BY <3>1, <3>4 DEF r
  <2>4. CASE ~(f[i] < 64) /\ f[i] < 128
    <3>1. AreBytes(f, i + 1, 1) /\ r = Read((f[i] - 64) * 256 + f[i + 1], i + 2)
      BY <1>3, <2>1, <2>4 DEF readLength
    <3>2. i + 1 <= Len(f) /\ f[i + 1] \in Nat /\ f[i + 1] <= 255
      BY <3>1, OneByte
    <3>3. PICK v \in Nat : v = (f[i] - 64) * 256 + f[i + 1]
      BY <2>2, <2>4, <3>2, SMTT(30)
    <3>4. v <= Most
      <4>0. PICK x \in Nat, y \in Nat : x = f[i] /\ y = f[i + 1]
        BY <2>2, <3>2
      <4>1. v <= 65535
        <5>1. v = (x - 64) * 256 + y /\ ~(x < 64) /\ x < 128 /\ y <= 255
          BY <2>4, <3>2, <3>3, <4>0, SMT
        <5> QED
          BY <5>1, SMT
      <4> QED
        BY <4>1, SMT DEF Most
    <3>5. i + 2 \in Nat /\ i < i + 2 /\ i + 2 <= Len(f) + 1
      BY <2>2, <3>2
    <3> HIDE DEF r
    <3>6. LengthIs(f, i, Read(v, i + 2))
      BY <3>4, <3>5, LengthIsRead
    <3> QED
      BY <3>1, <3>3, <3>6 DEF r
  <2>5. CASE ~(f[i] < 64) /\ ~(f[i] < 128) /\ f[i] < 192
    <3>1. AreBytes(f, i + 1, 4)
          /\ r = Read(256 * (256 * (256 * f[i + 1] + f[i + 2]) + f[i + 3]) + f[i + 4], i + 5)
      BY <1>3, <2>1, <2>5 DEF readLength
    <3>2. PICK j \in Nat \ {0} : j = i + 1
      OBVIOUS
    <3>3. /\ j + 3 <= Len(f) /\ f[j] \in Nat /\ f[j + 1] \in Nat /\ f[j + 2] \in Nat /\ f[j + 3] \in Nat
          /\ f[j] <= 255 /\ f[j + 1] <= 255 /\ f[j + 2] <= 255 /\ f[j + 3] <= 255
      BY <3>1, <3>2, FourInts
    <3>4. j + 1 = i + 2 /\ j + 2 = i + 3 /\ j + 3 = i + 4
      BY <3>2
    <3>5. PICK a \in Nat, b \in Nat, c \in Nat, d \in Nat :
            a = f[i + 1] /\ b = f[i + 2] /\ c = f[i + 3] /\ d = f[i + 4]
            /\ a <= 255 /\ b <= 255 /\ c <= 255 /\ d <= 255
      BY <3>2, <3>3, <3>4, SMTT(30)
    <3>6. PICK v \in Nat : v = 256 * (256 * (256 * a + b) + c) + d
      OBVIOUS
    <3>7. v <= Most
      <4>1. Makes(v, a, b, c, d)
        BY <3>6 DEF Makes
      <4> QED
        BY <3>5, <4>1, FourMost
    <3>8. r = Read(v, i + 5)
      BY <3>1, <3>5, <3>6
    <3>9. i + 5 \in Nat /\ i < i + 5 /\ i + 5 <= Len(f) + 1
      BY <2>2, <3>2, <3>3
    <3> HIDE DEF r
    <3>10. LengthIs(f, i, Read(v, i + 5))
      BY <3>7, <3>9, LengthIsRead
    <3> QED
      BY <3>8, <3>10 DEF r
  <2>6. CASE ~(f[i] < 64) /\ ~(f[i] < 128) /\ ~(f[i] < 192)
    <3>1. r = [ok |-> TRUE, val |-> f[i] - 192, special |-> TRUE, at |-> i + 1]
      BY <2>1, <2>6 DEF readLength
    <3>2. r.val = f[i] - 192 /\ r.at = i + 1
      BY <3>1
    <3>3. f[i] - 192 \in Nat /\ f[i] - 192 <= Most
      BY <2>2, <2>6, SMT DEF Most
    <3>4. i + 1 \in Nat /\ i < i + 1 /\ i + 1 <= Len(f) + 1
      BY <2>2
    <3> QED
      BY <3>2, <3>3, <3>4 DEF LengthIs, Ends
  <2> QED
    BY <2>3, <2>4, <2>5, <2>6
<1> QED
  BY <1>1, <1>3

\* A number has no more digits than it counts, or one.
LEMMA DecimalShort == \A n \in Nat : Len(Decimal[n]) <= n \/ n = 0
<1> DEFINE T == {n \in Nat : ~(Len(Decimal[n]) <= n \/ n = 0)}
<1> SUFFICES ASSUME T # {} PROVE FALSE
  OBVIOUS
<1>0. T \subseteq Nat
  OBVIOUS
<1>1. PICK n \in T : \A m \in T : n <= m
  BY <1>0, Least
<1>2. n \in Nat /\ ~(Len(Decimal[n]) <= n) /\ n # 0
  BY <1>1
<1>3. PICK l \in Nat : l = Len(Decimal[n]) /\ (n < 10 => l = 1)
  BY <1>2, DecimalType
<1>4. n >= 10
  <2>1. n \in Nat /\ ~(l <= n) /\ n # 0
    BY <1>2, <1>3
  <2>2. \A x, y \in Nat : (x < 10 => y = 1) /\ ~(y <= x) /\ x # 0 => x >= 10
    OBVIOUS
  <2> QED
    BY <1>3, <2>1, <2>2, Zenon
<1> DEFINE d == n \div 10
<1>5. d \in Nat /\ d < n /\ d > 0
  BY <1>2, <1>4, DivTen
<1>6. Decimal[n] = Append(Decimal[d], 48 + (n % 10))
  BY <1>2, <1>4, DecimalCases
<1> HIDE DEF d
<1>7. Decimal[d] \in Seq(48 .. 57)
  BY <1>5, DecimalType
<1>8. Len(Decimal[n]) = Len(Decimal[d]) + 1 /\ Len(Decimal[d]) \in Nat
  BY <1>6, <1>7
<1>9. Len(Decimal[d]) <= d
  <2>1. ~(n <= d)
    BY <1>2, <1>5
  <2>2. d \notin T
    BY <1>1, <2>1, Zenon
  <2> QED
    BY <1>5, <2>2
<1> QED
  BY <1>2, <1>5, <1>8, <1>9

\* The strings over S that fit a length of 32 bits.
Strings(S) == {x \in Seq(S) : Len(x) <= Most}
StringIs(S, f, i, r) == Ends(f, i, r) /\ (r.ok => r.val \in Strings(S))

\* A number of 32 bits as a string.
LEMMA DecimalString ==
    ASSUME NEW S, 48 .. 57 \subseteq S, NEW n \in Nat, n <= Most
    PROVE  Decimal[n] \in Strings(S)
<1>1. Decimal[n] \in Seq(48 .. 57) /\ Len(Decimal[n]) \in Nat
  BY DecimalType
<1>2. Decimal[n] \in Seq(S)
  BY <1>1, SeqMonotonic
<1>3. Len(Decimal[n]) <= Most
  <2>1. CASE n = 0
    <3>1. n < 10
      BY <2>1
    <3>2. Len(Decimal[n]) = 1
      BY <3>1, DecimalType
    <3> QED
      BY <3>2, SMT DEF Most
  <2>2. CASE n # 0
    <3>1. Len(Decimal[n]) <= n
      BY <2>2, DecimalShort
    <3> QED
      BY <1>1, <3>1, SMT DEF Most
  <2> QED
    BY <2>1, <2>2
<1> QED
  BY <1>2, <1>3 DEF Strings

\* Two bytes.
LEMMA TwoMost ==
    ASSUME NEW a \in Nat, NEW b \in Nat, a <= 255, b <= 255
    PROVE  a + 256 * b \in Nat /\ a + 256 * b <= Most
<1>1. PICK v \in Nat : v = a + 256 * b
  OBVIOUS
<1>2. v <= 65535
  BY <1>1, SMT
<1>3. v <= Most
  BY <1>2, SMT DEF Most
<1> QED
  BY <1>1, <1>3

\* A number of 1, 2 or 4 bytes.
LEMMA UnsignedMost ==
    ASSUME NEW f \in Seq(Nat), NEW i \in Nat \ {0}, NEW w \in {1, 2, 4}, AreBytes(f, i, w)
    PROVE  Unsigned(f, i, w) \in Nat /\ Unsigned(f, i, w) <= Most /\ i + w <= Len(f) + 1
<1>2. CASE w = 1
  <2>1. i <= Len(f) /\ f[i] \in Nat /\ f[i] <= 255
    BY <1>2, OneByte
  <2>2. Unsigned(f, i, w) = f[i]
    BY <1>2, <2>1 DEF Unsigned
  <2>3. f[i] <= Most
    BY <2>1, SMT DEF Most
  <2> QED
    BY <1>2, <2>1, <2>2, <2>3
<1>3. CASE w = 2
  <2>1. /\ i + 1 <= Len(f) /\ f[i] \in Nat /\ f[i] <= 255 /\ f[i + 1] \in Nat /\ f[i + 1] <= 255
    BY <1>3, TwoBytes
  <2>2. PICK a \in Nat, b \in Nat : a = f[i] /\ b = f[i + 1] /\ a <= 255 /\ b <= 255
    BY <2>1
  <2>3. Unsigned(f, i, w) = a + 256 * b
    BY <1>3, <2>2 DEF Unsigned
  <2>4. a + 256 * b <= Most /\ a + 256 * b \in Nat
    BY <2>2, TwoMost, ZenonT(30)
  <2> QED
    BY <1>3, <2>1, <2>3, <2>4
<1>4. CASE w = 4
  <2>1. /\ i + 3 <= Len(f) /\ f[i] \in Nat /\ f[i + 1] \in Nat /\ f[i + 2] \in Nat /\ f[i + 3] \in Nat
        /\ f[i] <= 255 /\ f[i + 1] <= 255 /\ f[i + 2] <= 255 /\ f[i + 3] <= 255
    BY <1>4, FourInts
  <2>2. PICK a \in Nat, b \in Nat, c \in Nat, d \in Nat : a = f[i] /\ b = f[i + 1] /\ c = f[i + 2] /\ d = f[i + 3]
    BY <2>1
  <2>3. PICK v : v = Unsigned(f, i, w)
    OBVIOUS
  <2>4. v = a + 256 * (b + 256 * (c + 256 * d))
    BY <1>4, <2>2, <2>3 DEF Unsigned
  <2>5. a <= 255 /\ b <= 255 /\ c <= 255 /\ d <= 255
    BY <2>1, <2>2
  <2>7. Makes(v, d, c, b, a)
    BY <2>4 DEF Makes
  <2>6. v \in Nat /\ v <= Most
    BY <2>5, <2>7, FourMost
  <2> QED
    BY <1>4, <2>1, <2>3, <2>6
<1> QED
  BY <1>2, <1>3, <1>4

\* u are the n bytes at i.
BytesAre(S, f, i, n, u) ==
    /\ readBytes(f, i, n) = Read(u, i + n) /\ i + n <= Len(f) + 1
    /\ u \in Seq(S) /\ Len(u) = n /\ \A j \in 1 .. n : u[j] = f[i + j - 1]

LEMMA BytesType ==
    ASSUME NEW S, NEW f \in Seq(S), NEW i \in Nat \ {0}, NEW n \in Nat, readBytes(f, i, n).ok,
           NEW u, u = SubSeq(f, i, i + n - 1)
    PROVE  BytesAre(S, f, i, n, u)
<1>1. Has(f, i, n) /\ readBytes(f, i, n) = Read(u, i + n)
  BY FailedFields DEF readBytes
<1>2. i + n <= Len(f) + 1
  BY <1>1 DEF Has
<1>3. \A j \in i .. i + n - 1 : f[j] \in S
  <2> TAKE j \in i .. i + n - 1
  <2>1. j \in 1 .. Len(f)
    BY <1>2
  <2> QED
    BY <2>1, ElementOfSeq
<1>4. i \in Int /\ i + n - 1 \in Int
  OBVIOUS
<1>5. /\ u \in Seq(S) /\ Len(u) = IF i <= i + n - 1 THEN (i + n - 1) - i + 1 ELSE 0
      /\ \A j \in 1 .. (i + n - 1) - i + 1 : u[j] = f[i + j - 1]
  BY <1>3, <1>4, SubSeqProperties
<1>6. (i + n - 1) - i + 1 = n /\ (IF i <= i + n - 1 THEN (i + n - 1) - i + 1 ELSE 0) = n
  OBVIOUS
<1> QED
  BY <1>1, <1>2, <1>5, <1>6, Zenon DEF BytesAre

\* Farther to the right.
LEMMA Farther ==
    ASSUME NEW i \in Nat, NEW a \in Nat, NEW n \in Nat, i < a
    PROVE  a + n \in Nat /\ i < a + n
OBVIOUS

\* What readString returns.
LEMMA StringType ==
    ASSUME NEW S, S \subseteq Nat, 48 .. 57 \subseteq S, NEW f \in Seq(S), NEW i \in Nat \ {0}
    PROVE  StringIs(S, f, i, readString(f, i))
<1> DEFINE l == readLength(f, i)
           r == readString(f, i)
           w == IF l.val = 0 THEN 1 ELSE IF l.val = 1 THEN 2 ELSE 4
<1>1. f \in Seq(Nat)
  BY SeqMonotonic
<1>2. LengthIs(f, i, l)
  BY <1>1, LengthType
<1>3. CASE ~r.ok
  BY <1>3 DEF StringIs, Ends
<1>4. CASE r.ok
  <2>1. r = StringOfLength(f, l)
    BY DEF readString
  <2>2. l.ok
    BY <1>4, <2>1, FailedFields DEF StringOfLength
  <2>3. l.val \in Nat /\ l.val <= Most /\ l.at \in Nat \ {0} /\ i < l.at /\ l.at <= Len(f) + 1
    BY <1>2, <2>2 DEF LengthIs, Ends
  <2>4. CASE ~l.special
    <3>1. r = readBytes(f, l.at, l.val)
      BY <2>1, <2>2, <2>4 DEF StringOfLength
    <3> HIDE DEF l, r
    <3>0. PICK a \in Nat \ {0}, n \in Nat : a = l.at /\ n = l.val
      BY <2>3
    <3>2. PICK u : u = SubSeq(f, a, a + n - 1)
      OBVIOUS
    <3>7. readBytes(f, a, n).ok
      BY <1>4, <3>0, <3>1
    <3>8. readBytes(f, a, n) = Read(u, a + n) /\ a + n <= Len(f) + 1 /\ u \in Seq(S) /\ Len(u) = n
      <4>1. BytesAre(S, f, a, n, u)
        BY <3>2, <3>7, BytesType
      <4> QED
        BY <4>1 DEF BytesAre
    <3>3. r = Read(u, a + n) /\ a + n <= Len(f) + 1 /\ u \in Seq(S) /\ Len(u) = n
      BY <3>0, <3>1, <3>8, Zenon
    <3>4. r.at = a + n /\ r.val = u
      BY <3>3, ReadFields
    <3>5. u \in Strings(S)
      BY <2>3, <3>0, <3>3 DEF Strings
    <3>6. a + n \in Nat /\ i < a + n
      <4>1. i < a
        BY <2>3, <3>0
      <4> QED
        BY <4>1, Farther
    <3> QED
      BY <3>3, <3>4, <3>5, <3>6 DEF StringIs, Ends, r
  <2>5. CASE l.special
    <3>1. ~(l.val > 2) /\ AreBytes(f, l.at, w) /\ r = Read(Decimal[Unsigned(f, l.at, w)], l.at + w)
      BY <1>4, <2>1, <2>2, <2>5, FailedFields DEF StringOfLength
    <3>2. w \in {1, 2, 4}
      OBVIOUS
    <3> HIDE DEF l, r, w
    <3>3. Unsigned(f, l.at, w) \in Nat /\ Unsigned(f, l.at, w) <= Most /\ l.at + w <= Len(f) + 1
      BY <1>1, <2>3, <3>1, <3>2, UnsignedMost
    <3>4. Decimal[Unsigned(f, l.at, w)] \in Strings(S)
      BY <3>3, DecimalString
    <3>5. r.at = l.at + w /\ r.val = Decimal[Unsigned(f, l.at, w)]
      BY <3>1, ReadFields
    <3>7. PICK a \in Nat, v \in Nat \ {0} : a = l.at /\ v = w
      BY <2>3, <3>2
    <3>6. l.at + w \in Nat /\ i < l.at + w
      <4>1. i < a
        BY <2>3, <3>7
      <4>2. a + v \in Nat /\ i < a + v
        BY <4>1, Farther
      <4> QED
        BY <3>7, <4>2
    <3> QED
      BY <3>3, <3>4, <3>5, <3>6 DEF StringIs, Ends, r
  <2> QED
    BY <2>4, <2>5
<1> QED
  BY <1>3, <1>4

(***************************************************************************)
(* What a record adds to the data.                                         *)
(***************************************************************************)
\* Maps from strings to values, as kv.store.
IsValue(S, v) == v = Stream \/ \E d \in Strings(S), e \in 0 .. Far : v = String(d, e)
IsData(S, D) ==
    /\ D = [k \in DOMAIN D |-> D[k]] /\ IsFiniteSet(DOMAIN D)
    /\ \A k \in DOMAIN D : k \in Strings(S) /\ IsValue(S, D[k])

\* No keys.
LEMMA EmptyData == \A S : IsData(S, Empty) /\ DOMAIN Empty = {}
<1>1. DOMAIN Empty = {} /\ Empty = [k \in DOMAIN Empty |-> Empty[k]]
  BY DEF Empty
<1>2. IsFiniteSet({})
  BY FS_EmptySet
<1> QED
  BY <1>1, <1>2 DEF IsData

\* One key with its value and its expiry.
Single(k, d, e) == [x \in {k} |-> String(d, e)]

\* They are data.
LEMMA SingleData ==
    ASSUME NEW S, NEW k \in Strings(S), NEW d \in Strings(S), NEW e \in 0 .. Far
    PROVE  IsData(S, Single(k, d, e))
<1> DEFINE D == Single(k, d, e)
<1>1. DOMAIN D = {k} /\ D = [x \in DOMAIN D |-> D[x]] /\ D[k] = String(d, e)
  BY DEF Single
<1>2. IsFiniteSet({k})
  BY FS_Singleton
<1>3. IsValue(S, String(d, e))
  BY DEF IsValue
<1> HIDE DEF D
<1>4. IsData(S, D)
  BY <1>1, <1>2, <1>3, Zenon DEF IsData
<1> QED
  BY <1>4 DEF D

\* One map over another.
LEMMA OverData ==
    ASSUME NEW S, NEW a, NEW b, IsData(S, a), IsData(S, b)
    PROVE  IsData(S, Over(a, b))
<1> DEFINE D == Over(a, b)
<1>1. DOMAIN D = DOMAIN a \cup DOMAIN b /\ D = [k \in DOMAIN D |-> D[k]]
      /\ \A k \in DOMAIN D : D[k] = IF k \in DOMAIN a THEN a[k] ELSE b[k]
  BY DEF Over
<1>2. IsFiniteSet(DOMAIN a \cup DOMAIN b)
  BY FS_Union DEF IsData
<1>3. ASSUME NEW k \in DOMAIN D PROVE k \in Strings(S) /\ IsValue(S, D[k])
  <2>1. CASE k \in DOMAIN a
    BY <1>1, <1>3, <2>1, Zenon DEF IsData
  <2>2. CASE k \notin DOMAIN a
    <3>1. k \in DOMAIN b
      BY <1>1, <1>3, <2>2, Zenon
    <3> QED
      BY <1>1, <1>3, <2>2, <3>1, Zenon DEF IsData
  <2> QED
    BY <2>1, <2>2
<1> HIDE DEF D
<1>4. IsData(S, D)
  BY <1>1, <1>2, <1>3, Zenon DEF IsData
<1> QED
  BY <1>4 DEF D

\* A record ends inside the file and adds data.
RecordIs(S, f, i, r) == Ends(f, i, r) /\ (r.ok => IsData(S, r.val))

\* Two ways to end: at the same place, and where another began.
LEMMA EndsOn ==
    ASSUME NEW f \in Seq(Nat), NEW i \in Nat, NEW j \in Nat, i <= j, NEW r, Ends(f, j, r)
    PROVE  Ends(f, i, r)
<1> SUFFICES ASSUME r.ok PROVE r.at \in Nat /\ i < r.at /\ r.at <= Len(f) + 1
  BY DEF Ends
<1>1. r.at \in Nat /\ j < r.at /\ r.at <= Len(f) + 1
  BY DEF Ends
<1>2. PICK a \in Nat : a = r.at
  BY <1>1
<1>3. j < a
  BY <1>1, <1>2
<1>4. i < a
  BY <1>3
<1> QED
  BY <1>1, <1>2, <1>4

\* A string behind a string.
LEMMA AfterType ==
    ASSUME NEW S, S \subseteq Nat, 48 .. 57 \subseteq S, NEW f \in Seq(S), NEW i \in Nat \ {0},
           NEW r, Ends(f, i, r)
    PROVE  StringIs(S, f, i, StringAfter(f, r)) /\ LengthIs(f, i, LengthAfter(f, r))
<1>0. f \in Seq(Nat)
  BY SeqMonotonic
<1>1. CASE ~r.ok
  <2>1. StringAfter(f, r) = Failed /\ LengthAfter(f, r) = Failed
    BY <1>1 DEF StringAfter, LengthAfter
  <2> QED
    BY <2>1, FailedFields DEF StringIs, LengthIs, Ends
<1>2. CASE r.ok
  <2>1. PICK a \in Nat \ {0} : a = r.at /\ i <= a
    BY <1>2 DEF Ends
  <2>2. StringAfter(f, r) = readString(f, a) /\ LengthAfter(f, r) = readLength(f, a)
    BY <1>2, <2>1 DEF StringAfter, LengthAfter
  <2>3. StringIs(S, f, a, readString(f, a)) /\ LengthIs(f, a, readLength(f, a))
    BY <1>0, StringType, LengthType
  <2>4. Ends(f, i, readString(f, a)) /\ Ends(f, i, readLength(f, a))
    BY <1>0, <2>1, <2>3, EndsOn DEF StringIs, LengthIs
  <2> QED
    BY <2>2, <2>3, <2>4 DEF StringIs, LengthIs
<1> QED
  BY <1>1, <1>2

\* A key with its value.
LEMMA ObjectType ==
    ASSUME NEW S, S \subseteq Nat, 48 .. 57 \subseteq S, NEW f \in Seq(S), NEW i \in Nat \ {0},
           NEW e \in 0 .. Far, NEW t
    PROVE  RecordIs(S, f, i, handleObject(f, i, e, t))
<1> DEFINE k == readString(f, i)
           v == StringAfter(f, k)
           r == handleObject(f, i, e, t)
<1>1. StringIs(S, f, i, k)
  BY StringType
<1>2. Ends(f, i, k)
  BY <1>1 DEF StringIs
<1>3. StringIs(S, f, i, v)
  BY <1>2, AfterType
<1>4. r = putObject(k, v, e, t)
  BY DEF handleObject, objectOfKey
<1>5. CASE ~v.ok
  BY <1>4, <1>5, FailedFields DEF putObject, RecordIs, Ends
<1>6. CASE v.ok
  <2>1. k.ok
    BY <1>6, FailedFields DEF StringAfter
  <2>2. k.val \in Strings(S) /\ v.val \in Strings(S)
    BY <1>1, <1>3, <1>6, <2>1 DEF StringIs
  <2>3. r = Read(IF e > 0 /\ e < t THEN Empty ELSE Single(k.val, v.val, e), v.at)
    BY <1>4, <1>6 DEF putObject, Single
  <2> HIDE DEF k, v, r
  <2>4. r.at = v.at /\ r.val = IF e > 0 /\ e < t THEN Empty ELSE Single(k.val, v.val, e)
    BY <2>3, ReadFields, Zenon
  <2>5. IsData(S, r.val)
    <3>1. IsData(S, Empty) /\ IsData(S, Single(k.val, v.val, e))
      BY <2>2, EmptyData, SingleData, Zenon
    <3> QED
      BY <2>4, <3>1, Zenon
  <2>6. Ends(f, i, r)
    BY <1>3, <1>6, <2>4 DEF StringIs, Ends
  <2>7. RecordIs(S, f, i, r)
    BY <2>5, <2>6 DEF RecordIs
  <2> QED
    BY <2>7 DEF r
<1> QED
  BY <1>5, <1>6

\* A record from further on.
LEMMA RecordOn ==
    ASSUME NEW S, NEW f \in Seq(Nat), NEW i \in Nat, NEW j \in Nat, i <= j, NEW r, RecordIs(S, f, j, r)
    PROVE  RecordIs(S, f, i, r)
BY EndsOn DEF RecordIs

\* No time and the last one.
LEMMA FarTimes == Far \in Nat /\ 0 \in 0 .. Far /\ Far \in 0 .. Far
<1>1. Far \in Nat
  BY SMT DEF Far
<1> QED
  BY <1>1

\* Three bytes, the lowest first.
Low3(a, b, c) == a + 256 * (b + 256 * c)

\* They are less than Far.
LEMMA ThreeFar ==
    ASSUME NEW a \in Nat, NEW b \in Nat, NEW c \in Nat, a <= 255, b <= 255, c <= 255
    PROVE  Low3(a, b, c) \in 0 .. Far
<1>1. PICK x \in Nat : x = b + 256 * c
  OBVIOUS
<1>2. x <= 65535
  BY <1>1, SMT
<1>3. PICK y \in Nat : y = a + 256 * x
  OBVIOUS
<1>4. y <= Far /\ Far \in Nat
  BY <1>2, <1>3, SMT DEF Far
<1>5. y \in 0 .. Far
  BY <1>4
<1> QED
  BY <1>1, <1>3, <1>5 DEF Low3

\* The first bytes of several.
LEMMA ManyBytes ==
    ASSUME NEW f \in Seq(Nat), NEW i \in Nat \ {0}, NEW n \in Nat, AreBytes(f, i, n), NEW j \in 0 .. n - 1
    PROVE  i + j <= Len(f) /\ f[i + j] \in Nat /\ f[i + j] <= 255
<1>1. i + j \in i .. i + n - 1 /\ i + j \in Nat \ {0}
  OBVIOUS
<1>2. i + n - 1 <= Len(f) /\ f[i + j] <= 255
  BY <1>1 DEF AreBytes, Has
<1>3. i + j \in 1 .. Len(f)
  BY <1>2
<1> QED
  BY <1>2, <1>3, ElementOfSeq

\* The time of an expiry.
LEMMA TimeType ==
    ASSUME NEW f \in Seq(Nat), NEW i \in Nat \ {0}, NEW n \in {4, 8}, AreBytes(f, i, n + 1)
    PROVE  Low3(f[i], f[i + 1], f[i + 2]) \in 0 .. Far
<1>1. n + 1 \in Nat /\ 0 \in 0 .. (n + 1) - 1 /\ 1 \in 0 .. (n + 1) - 1 /\ 2 \in 0 .. (n + 1) - 1 /\ i + 0 = i
  OBVIOUS
<1>2. PICK a \in Nat, b \in Nat, c \in Nat :
        a = f[i] /\ b = f[i + 1] /\ c = f[i + 2] /\ a <= 255 /\ b <= 255 /\ c <= 255
  <2>1. f[i + 0] \in Nat /\ f[i + 0] <= 255
    BY <1>1, ManyBytes
  <2>2. f[i + 1] \in Nat /\ f[i + 1] <= 255
    BY <1>1, ManyBytes
  <2>3. f[i + 2] \in Nat /\ f[i + 2] <= 255
    BY <1>1, ManyBytes
  <2> QED
    BY <1>1, <2>1, <2>2, <2>3
<1>3. Low3(a, b, c) \in 0 .. Far
  BY <1>2, ThreeFar
<1> QED
  BY <1>2, <1>3, Zenon

\* A key with a time.
LEMMA ExpiryType ==
    ASSUME NEW S, S \subseteq Nat, 48 .. 57 \subseteq S, NEW f \in Seq(S), NEW i \in Nat \ {0},
           NEW n \in {4, 8}, NEW t
    PROVE  RecordIs(S, f, i, handleExpiryTime(f, i, n, t))
<1> DEFINE r == handleExpiryTime(f, i, n, t)
           low == Low3(f[i], f[i + 1], f[i + 2])
           far == \E j \in i + 3 .. i + n - 1 : f[j] > 0
           e == IF far THEN Far ELSE low
<1>0. f \in Seq(Nat)
  BY SeqMonotonic
<1>1. CASE ~AreBytes(f, i, n + 1) \/ f[i + n] # TypeString
  <2>1. r = Failed
    BY <1>1 DEF handleExpiryTime
  <2> QED
    BY <2>1, FailedFields DEF RecordIs, Ends
<1>2. CASE AreBytes(f, i, n + 1) /\ f[i + n] = TypeString
  <2>1. r = handleObject(f, i + n + 1, e, t)
    BY <1>2 DEF handleExpiryTime, Low3
  <2>2. low \in 0 .. Far
    BY <1>0, <1>2, TimeType
  <2>3. Far \in 0 .. Far
    BY FarTimes
  <2> HIDE DEF low, far
  <2>4. e \in 0 .. Far
    BY <2>2, <2>3, Zenon
  <2> HIDE DEF e, r
  <2>5. PICK j \in Nat \ {0} : j = i + n + 1 /\ i <= j
    OBVIOUS
  <2>6. RecordIs(S, f, j, handleObject(f, j, e, t))
    BY <2>4, ObjectType
  <2>7. RecordIs(S, f, i, handleObject(f, j, e, t))
    BY <1>0, <2>5, <2>6, RecordOn
  <2> QED
    BY <2>1, <2>5, <2>7, Zenon DEF r
<1> QED
  BY <1>1, <1>2

\* A record without data.
LEMMA KeepType ==
    ASSUME NEW S, NEW f, NEW i, NEW r, Ends(f, i, r)
    PROVE  RecordIs(S, f, i, Keep(r))
<1>1. CASE r.ok
  <2>1. Keep(r) = Read(Empty, r.at)
    BY <1>1 DEF Keep
  <2>2. Keep(r).at = r.at /\ Keep(r).val = Empty
    BY <2>1, ReadFields
  <2> QED
    BY <1>1, <2>2, EmptyData, Zenon DEF RecordIs, Ends
<1>2. CASE ~r.ok
  <2>1. Keep(r) = Failed
    BY <1>2 DEF Keep
  <2> QED
    BY <2>1, FailedFields DEF RecordIs, Ends
<1> QED
  BY <1>1, <1>2

\* The kinds of records.
Kinds(f, i, t, r) ==
    \/ r = Failed
    \/ r = Keep(StringAfter(f, readString(f, i + 1)))
    \/ r = Keep(readLength(f, i + 1))
    \/ r = Keep(LengthAfter(f, readLength(f, i + 1)))
    \/ r = handleExpiryTime(f, i + 1, 4, t)
    \/ r = handleExpiryTime(f, i + 1, 8, t)
    \/ r = handleObject(f, i + 1, 0, t)

\* There are no others.
LEMMA RecordKinds == \A f, i, t : Kinds(f, i, t, handleRecord(f, i, t))
BY DEF Kinds, handleRecord, handlerAuxiliaryField, handleSelectDB, handleResizeDB

\* A record ends behind its beginning, and adds data.
LEMMA RecordType ==
    ASSUME NEW S, S \subseteq Nat, 48 .. 57 \subseteq S, NEW f \in Seq(S), NEW i \in Nat \ {0}, NEW t
    PROVE  RecordIs(S, f, i, handleRecord(f, i, t))
<1>0. f \in Seq(Nat)
  BY SeqMonotonic
<1>1. PICK j \in Nat \ {0} : j = i + 1 /\ i <= j
  OBVIOUS
<1> DEFINE r == handleRecord(f, i, t)
<1>2. Kinds(f, i, t, r)
  BY RecordKinds
<1> HIDE DEF r
<1>3. RecordIs(S, f, j, r)
  <2>1. CASE r = Failed
    BY <2>1, FailedFields DEF RecordIs, Ends
  <2>2. StringIs(S, f, j, readString(f, j)) /\ LengthIs(f, j, readLength(f, j))
    BY <1>0, StringType, LengthType
  <2>3. Ends(f, j, readString(f, j)) /\ Ends(f, j, readLength(f, j))
    BY <2>2 DEF StringIs, LengthIs
  <2>4. StringIs(S, f, j, StringAfter(f, readString(f, j))) /\ LengthIs(f, j, LengthAfter(f, readLength(f, j)))
    BY <2>3, AfterType
  <2>5. Ends(f, j, StringAfter(f, readString(f, j))) /\ Ends(f, j, LengthAfter(f, readLength(f, j)))
    BY <2>4 DEF StringIs, LengthIs
  <2>6. CASE r = Keep(StringAfter(f, readString(f, j)))
    BY <2>5, <2>6, KeepType, Zenon
  <2>7. CASE r = Keep(readLength(f, j))
    BY <2>3, <2>7, KeepType, Zenon
  <2>8. CASE r = Keep(LengthAfter(f, readLength(f, j)))
    BY <2>5, <2>8, KeepType, Zenon
  <2>9. CASE r = handleExpiryTime(f, j, 4, t) \/ r = handleExpiryTime(f, j, 8, t)
    BY <2>9, ExpiryType
  <2>10. CASE r = handleObject(f, j, 0, t)
    <3>1. 0 \in 0 .. Far
      BY FarTimes
    <3> QED
      BY <2>10, <3>1, ObjectType
  <2> QED
    BY <1>1, <1>2, <2>1, <2>6, <2>7, <2>8, <2>9, <2>10, Zenon DEF Kinds
<1>4. RecordIs(S, f, i, r)
  BY <1>0, <1>1, <1>3, RecordOn
<1> QED
  BY <1>4 DEF r

(***************************************************************************)
(* The records one after the other.                                        *)
(***************************************************************************)
\* Where a record ends.
LEMMA RecordAt ==
    ASSUME NEW f \in Seq(Nat), NEW i \in Nat \ {0}, NEW t, handleRecord(f, i, t).ok
    PROVE  handleRecord(f, i, t).at \in i + 1 .. Len(f) + 1
<1>1. Nat \subseteq Nat /\ 48 .. 57 \subseteq Nat
  OBVIOUS
<1>2. RecordIs(Nat, f, i, handleRecord(f, i, t))
  BY <1>1, RecordType
<1>3. PICK a \in Nat : a = handleRecord(f, i, t).at /\ i < a /\ a <= Len(f) + 1
  BY <1>2 DEF RecordIs, Ends
<1>4. i < a /\ a <= Len(f) + 1 /\ Len(f) \in Nat
  BY <1>3
<1>5. a \in i + 1 .. Len(f) + 1
  BY <1>4
<1> QED
  BY <1>3, <1>5

\* The body of ParseRecords, and a function that satisfies it from p on.
NextRecords(g, f, t, p) ==
    IF p > Len(f) \/ f[p] = MarkerEOF THEN Read(Empty, p)
    ELSE LET r == handleRecord(f, p, t) IN IF r.ok THEN Followed(r, g[r.at]) ELSE Failed
RecordsFrom(g, f, t, p) == g = [q \in p .. Len(f) + 1 |-> NextRecords(g, f, t, q)]

\* The body looks only at what is behind.
LEMMA NextRecordsLater ==
    ASSUME NEW f \in Seq(Nat), NEW t, NEW q \in 1 .. Len(f) + 1, NEW g, NEW h,
           \A j \in q + 1 .. Len(f) + 1 : g[j] = h[j]
    PROVE  NextRecords(g, f, t, q) = NextRecords(h, f, t, q)
<1> DEFINE r == handleRecord(f, q, t)
<1>1. CASE r.ok
  <2>1. r.at \in q + 1 .. Len(f) + 1
    BY <1>1, RecordAt
  <2>2. g[r.at] = h[r.at]
    BY <2>1
  <2> QED
    BY <2>2, Zenon DEF NextRecords
<1>2. CASE ~r.ok
  BY <1>2, Zenon DEF NextRecords
<1> QED
  BY <1>1, <1>2

\* Such a function exists.
LEMMA RecordsExist ==
    ASSUME NEW f \in Seq(Nat), NEW t
    PROVE  \E g : RecordsFrom(g, f, t, 1)
<1> DEFINE N == Len(f) + 1
           T == {n \in 0 .. Len(f) : ~\E g : RecordsFrom(g, f, t, N - n)}
<1>0. N \in Nat /\ Len(f) \in Nat /\ N - Len(f) = 1 /\ Len(f) \in 0 .. Len(f)
  OBVIOUS
<1> SUFFICES ASSUME T # {} PROVE FALSE
  BY <1>0
<1>1. T \subseteq Nat
  OBVIOUS
<1>2. PICK n \in T : \A m \in T : n <= m
  BY <1>1, Least
<1>3. n \in 0 .. Len(f) /\ ~\E g : RecordsFrom(g, f, t, N - n)
  BY <1>2
<1> HIDE DEF T
<1>4. CASE n = 0
  <2> DEFINE h == [q \in N .. N |-> Read(Empty, q)]
  <2>1. \A q \in N .. N : NextRecords(h, f, t, q) = Read(Empty, q)
    <3> TAKE q \in N .. N
    <3>1. q > Len(f)
      BY <1>0
    <3> QED
      BY <3>1 DEF NextRecords
  <2>2. h = [q \in N .. N |-> NextRecords(h, f, t, q)]
    BY <2>1
  <2>3. N - n = N
    BY <1>0, <1>4
  <2> HIDE DEF h
  <2>4. RecordsFrom(h, f, t, N - n)
    BY <2>2, <2>3 DEF RecordsFrom
  <2> QED
    BY <1>3, <2>4
<1>5. CASE n # 0
  <2> DEFINE p == N - n
  <2>1. p \in 1 .. N /\ n - 1 \in 0 .. Len(f) /\ ~(n <= n - 1) /\ N - (n - 1) = p + 1
    BY <1>0, <1>3, <1>5
  <2>2. n - 1 \notin T
    BY <1>2, <2>1, Zenon
  <2>3. PICK g : RecordsFrom(g, f, t, p + 1)
    BY <2>1, <2>2 DEF T
  <2>9. ~\E h : RecordsFrom(h, f, t, p)
    BY <1>3
  <2> HIDE DEF p, N
  <2> DEFINE h == [q \in p .. N |-> IF q = p THEN NextRecords(g, f, t, p) ELSE g[q]]
  <2>4. \A q \in p .. N : q # p => q \in p + 1 .. N
    BY <1>0, <2>1
  <2>5. \A q \in p + 1 .. N : q \in p .. N /\ q # p
    BY <1>0, <2>1
  <2>6. \A q \in p + 1 .. N : h[q] = g[q] /\ g[q] = NextRecords(g, f, t, q)
    BY <2>3, <2>5 DEF RecordsFrom, N
  <2>7. ASSUME NEW q \in p .. N PROVE NextRecords(h, f, t, q) = NextRecords(g, f, t, q)
    <3>1. \A j \in q + 1 .. N : j \in p + 1 .. N
      BY <1>0, <2>1
    <3>2. \A j \in q + 1 .. N : h[j] = g[j]
      BY <2>6, <3>1
    <3>3. q \in 1 .. N
      BY <1>0, <2>1
    <3> HIDE DEF h
    <3> QED
      BY <3>2, <3>3, NextRecordsLater DEF N
  <2>8. \A q \in p .. N : h[q] = NextRecords(h, f, t, q)
    <3> TAKE q \in p .. N
    <3>1. CASE q = p
      BY <2>7, <3>1
    <3>2. CASE q # p
      <4>1. q \in p + 1 .. N
        BY <2>4, <3>2
      <4>2. h[q] = NextRecords(g, f, t, q)
        BY <2>6, <4>1
      <4> HIDE DEF h
      <4> QED
        BY <2>7, <4>2
    <3> QED
      BY <3>1, <3>2
  <2>10. h = [q \in p .. N |-> NextRecords(h, f, t, q)]
    BY <2>8
  <2> HIDE DEF h
  <2> QED
    BY <2>9, <2>10 DEF RecordsFrom, N
<1> QED
  BY <1>4, <1>5

\* What ParseRecords finds at a position.
RecordsAre(f, i, t, r, q) ==
    IF i > Len(f) \/ f[i] = MarkerEOF THEN q = Read(Empty, i)
    ELSE q = IF r.ok THEN Followed(r, ParseRecords(f, r.at, t)) ELSE Failed

\* ParseRecords is what its recursive definition says.
LEMMA RecordsStep ==
    ASSUME NEW f \in Seq(Nat), NEW t, NEW i \in 1 .. Len(f) + 1
    PROVE  RecordsAre(f, i, t, handleRecord(f, i, t), ParseRecords(f, i, t))
<1> DEFINE Is(g) == g = [q \in 1 .. Len(f) + 1 |-> NextRecords(g, f, t, q)]
           g == CHOOSE x : Is(x)
<1>1. PICK x : RecordsFrom(x, f, t, 1)
  BY RecordsExist
<1>2. Is(x)
  BY <1>1 DEF RecordsFrom
<1>3. Is(g)
  BY <1>2
<1>4. \A j : ParseRecords(f, j, t) = g[j]
  BY DEF ParseRecords, NextRecords
<1> HIDE DEF g
<1>5. g[i] = NextRecords(g, f, t, i)
  BY <1>3
<1>6. PICK r : r = handleRecord(f, i, t)
  OBVIOUS
<1>7. PICK q : q = ParseRecords(f, i, t)
  OBVIOUS
<1>8. q = NextRecords(g, f, t, i)
  BY <1>4, <1>5, <1>7, Zenon
<1>9. CASE i > Len(f) \/ f[i] = MarkerEOF
  <2>1. q = Read(Empty, i)
    BY <1>8, <1>9 DEF NextRecords
  <2> QED
    BY <1>7, <1>9, <2>1 DEF RecordsAre
<1>10. CASE ~(i > Len(f) \/ f[i] = MarkerEOF)
  <2>1. q = IF r.ok THEN Followed(r, g[r.at]) ELSE Failed
    BY <1>6, <1>8, <1>10, Zenon DEF NextRecords
  <2>2. g[r.at] = ParseRecords(f, r.at, t)
    BY <1>4
  <2>3. q = IF r.ok THEN Followed(r, ParseRecords(f, r.at, t)) ELSE Failed
    BY <2>1, <2>2, Zenon
  <2>4. RecordsAre(f, i, t, r, q)
    BY <1>10, <2>3 DEF RecordsAre
  <2> QED
    BY <1>6, <1>7, <2>4
<1> QED
  BY <1>9, <1>10

\* What the records add, all together, is data, and their end is in the file.
RecordsEnd(S, f, i, q) == q.ok => q.at \in i .. Len(f) + 1 /\ IsData(S, q.val)

\* By the last position where it would not.
LEMMA RecordsType ==
    ASSUME NEW S, S \subseteq Nat, 48 .. 57 \subseteq S, NEW f \in Seq(S), NEW t
    PROVE  \A i \in 1 .. Len(f) + 1 : RecordsEnd(S, f, i, ParseRecords(f, i, t))
<1> DEFINE N == Len(f) + 1
           Bad(i) == ~RecordsEnd(S, f, i, ParseRecords(f, i, t))
           T == {n \in 0 .. Len(f) : Bad(N - n)}
<1>b. f \in Seq(Nat)
  BY SeqMonotonic
<1>0. f \in Seq(Nat) /\ N \in Nat /\ Len(f) \in Nat
  BY <1>b
<1>a. \A i \in 1 .. N : N - i \in 0 .. Len(f) /\ N - (N - i) = i
  BY <1>0
<1> HIDE DEF Bad
<1> SUFFICES ASSUME T # {} PROVE FALSE
  <2>1. \A i \in 1 .. N : Bad(i) => N - i \in T
    BY <1>a
  <2> QED
    BY <2>1, Zenon DEF Bad
<1>1. T \subseteq Nat
  OBVIOUS
<1>2. PICK n \in T : \A m \in T : n <= m
  BY <1>1, Least
<1>3. PICK i \in 1 .. N : i = N - n /\ Bad(i) /\ n \in 0 .. Len(f)
  BY <1>0, <1>2
<1>4. ASSUME NEW j \in i + 1 .. N PROVE RecordsEnd(S, f, j, ParseRecords(f, j, t))
  <2>1. N - j \in 0 .. Len(f) /\ N - (N - j) = j /\ ~(n <= N - j)
    BY <1>0, <1>3, <1>4, SMTT(30)
  <2>2. N - j \notin T
    BY <1>2, <2>1, Zenon
  <2>3. ~Bad(j)
    BY <2>1, <2>2
  <2> QED
    BY <2>3 DEF Bad
<1> HIDE DEF T
<1> DEFINE q == ParseRecords(f, i, t)
           r == handleRecord(f, i, t)
<1>5. RecordsAre(f, i, t, r, q)
  BY <1>0, <1>3, RecordsStep
<1>6. RecordsEnd(S, f, i, q)
  <2>1. CASE i > Len(f) \/ f[i] = MarkerEOF
    <3>1. q = Read(Empty, i)
      BY <1>5, <2>1 DEF RecordsAre
    <3>2. q.at = i /\ q.val = Empty
      BY <3>1, ReadFields
    <3>3. i \in i .. N
      BY <1>0, <1>3
    <3> QED
      BY <3>2, <3>3, EmptyData DEF RecordsEnd
  <2>2. CASE ~(i > Len(f) \/ f[i] = MarkerEOF)
    <3>1. q = IF r.ok THEN Followed(r, ParseRecords(f, r.at, t)) ELSE Failed
      BY <1>5, <2>2 DEF RecordsAre
    <3>2. CASE ~q.ok
      BY <3>2 DEF RecordsEnd
    <3>3. CASE q.ok
      <4>1. r.ok /\ q = Followed(r, ParseRecords(f, r.at, t))
        BY <3>1, <3>3, FailedFields
      <4>2. r.at \in i + 1 .. N /\ IsData(S, r.val)
        <5>1. i \in Nat \ {0}
          BY <1>0
        <5>2. RecordIs(S, f, i, r)
          BY <5>1, RecordType
        <5>3. IsData(S, r.val)
          BY <4>1, <5>2 DEF RecordIs
        <5> QED
          BY <1>0, <4>1, <5>1, <5>3, RecordAt
      <4> DEFINE p == ParseRecords(f, r.at, t)
      <4>3. RecordsEnd(S, f, r.at, p)
        BY <1>4, <4>2
      <4>4. p.ok /\ q = Read(Over(p.val, r.val), p.at)
        BY <3>3, <4>1, FailedFields DEF Followed
      <4>5. p.at \in r.at .. N /\ IsData(S, p.val)
        BY <4>3, <4>4 DEF RecordsEnd
      <4> HIDE DEF p, q, r
      <4>6. q.at = p.at /\ q.val = Over(p.val, r.val)
        BY <4>4, ReadFields
      <4>7. IsData(S, q.val)
        BY <4>2, <4>5, <4>6, OverData
      <4>8. p.at \in i .. N
        BY <1>0, <4>2, <4>5
      <4> QED
        BY <4>6, <4>7, <4>8 DEF RecordsEnd
    <3> QED
      BY <3>2, <3>3
  <2> QED
    BY <2>1, <2>2
<1> QED
  BY <1>3, <1>6 DEF Bad

(***************************************************************************)
(* A file that was cut.                                                    *)
(***************************************************************************)
\* p is the beginning of f.
Cut(p, f) == Len(p) <= Len(f) /\ \A j \in 1 .. Len(p) : p[j] = f[j]

\* What was read from the cut file is what is read from the whole one.
Same(x, y) == x.ok => x = y

\* Bytes are the same.
LEMMA CutBytes ==
    ASSUME NEW p \in Seq(Nat), NEW f \in Seq(Nat), Cut(p, f), NEW i \in Nat \ {0}, NEW n \in Nat
    PROVE  /\ Has(p, i, n) => Has(f, i, n) /\ \A j \in i .. i + n - 1 : p[j] = f[j]
           /\ AreBytes(p, i, n) => AreBytes(f, i, n)
<1>1. ASSUME Has(p, i, n) PROVE Has(f, i, n) /\ \A j \in i .. i + n - 1 : p[j] = f[j]
  <2>1. i + n - 1 <= Len(p) /\ Len(p) <= Len(f) /\ Len(p) \in Nat /\ Len(f) \in Nat
    BY <1>1 DEF Has, Cut
  <2>2. i + n - 1 <= Len(f)
    BY <2>1
  <2>3. ASSUME NEW j \in i .. i + n - 1 PROVE p[j] = f[j]
    <3>1. j \in 1 .. Len(p)
      BY <2>1
    <3> QED
      BY <3>1 DEF Cut
  <2> QED
    BY <2>2, <2>3 DEF Has
<1>2. ASSUME AreBytes(p, i, n) PROVE AreBytes(f, i, n)
  <2>1. Has(p, i, n) /\ \A j \in i .. i + n - 1 : p[j] <= 255
    BY <1>2 DEF AreBytes
  <2>2. Has(f, i, n) /\ \A j \in i .. i + n - 1 : p[j] = f[j]
    BY <1>1, <2>1
  <2> QED
    BY <2>1, <2>2 DEF AreBytes
<1> QED
  BY <1>1, <1>2

\* One byte is the same.
LEMMA CutByte ==
    ASSUME NEW p \in Seq(Nat), NEW f \in Seq(Nat), Cut(p, f), NEW i \in Nat \ {0}, NEW n \in Nat,
           AreBytes(p, i, n), NEW j \in 0 .. n - 1
    PROVE  p[i + j] = f[i + j]
<1>1. Has(p, i, n)
  BY DEF AreBytes
<1>2. i + j \in i .. i + n - 1
  OBVIOUS
<1> QED
  BY <1>1, <1>2, CutBytes

\* Lengths are the same.
LEMMA CutLength ==
    ASSUME NEW p \in Seq(Nat), NEW f \in Seq(Nat), Cut(p, f), NEW i \in Nat \ {0}
    PROVE  Same(readLength(p, i), readLength(f, i))
<1> DEFINE r == readLength(p, i)
<1>1. CASE ~r.ok
  BY <1>1 DEF Same
<1>2. CASE r.ok
  <2>0. 1 \in Nat /\ 4 \in Nat /\ i + 1 \in Nat \ {0} /\ i + 0 = i
    OBVIOUS
  <2>1. AreBytes(p, i, 1)
    BY <1>2, FailedFields DEF readLength
  <2>2. AreBytes(f, i, 1) /\ p[i] = f[i]
    <3>1. 0 \in 0 .. 1 - 1
      OBVIOUS
    <3>2. p[i + 0] = f[i + 0]
      BY <2>0, <2>1, <3>1, CutByte
    <3> QED
      BY <2>0, <2>1, <3>2, CutBytes
  <2>3. CASE f[i] < 64
    BY <2>1, <2>2, <2>3 DEF Same, readLength
  <2>4. CASE ~(f[i] < 64) /\ f[i] < 128
    <3>1. AreBytes(p, i + 1, 1)
      BY <1>2, <2>1, <2>2, <2>4, FailedFields DEF readLength
    <3>2. AreBytes(f, i + 1, 1) /\ p[i + 1] = f[i + 1]
      <4>1. 0 \in 0 .. 1 - 1 /\ (i + 1) + 0 = i + 1
        OBVIOUS
      <4>2. p[(i + 1) + 0] = f[(i + 1) + 0]
        BY <2>0, <3>1, <4>1, CutByte, SMTT(30)
      <4> QED
        BY <2>0, <3>1, <4>1, <4>2, CutBytes
    <3> QED
      BY <2>1, <2>2, <2>4, <3>1, <3>2 DEF Same, readLength
  <2>5. CASE ~(f[i] < 64) /\ ~(f[i] < 128) /\ f[i] < 192
    <3>1. AreBytes(p, i + 1, 4)
      BY <1>2, <2>1, <2>2, <2>5, FailedFields DEF readLength
    <3>2. AreBytes(f, i + 1, 4)
      BY <2>0, <3>1, CutBytes
    <3>3. p[i + 1] = f[i + 1] /\ p[i + 2] = f[i + 2] /\ p[i + 3] = f[i + 3] /\ p[i + 4] = f[i + 4]
      <4>1. /\ i + 1 \in i + 1 .. (i + 1) + 4 - 1 /\ i + 2 \in i + 1 .. (i + 1) + 4 - 1
            /\ i + 3 \in i + 1 .. (i + 1) + 4 - 1 /\ i + 4 \in i + 1 .. (i + 1) + 4 - 1
        OBVIOUS
      <4>2. Has(p, i + 1, 4)
        BY <3>1 DEF AreBytes
      <4>3. \A j \in i + 1 .. (i + 1) + 4 - 1 : p[j] = f[j]
        BY <2>0, <4>2, CutBytes
      <4> QED
        BY <4>1, <4>3
    <3> QED
      BY <2>1, <2>2, <2>5, <3>1, <3>2, <3>3 DEF Same, readLength
  <2>6. CASE ~(f[i] < 64) /\ ~(f[i] < 128) /\ ~(f[i] < 192)
    BY <2>1, <2>2, <2>6 DEF Same, readLength
  <2> QED
    BY <2>3, <2>4, <2>5, <2>6
<1> QED
  BY <1>1, <1>2

\* Strings of a known length are the same.
LEMMA CutRead ==
    ASSUME NEW p \in Seq(Nat), NEW f \in Seq(Nat), Cut(p, f), NEW i \in Nat \ {0}, NEW n \in Nat
    PROVE  Same(readBytes(p, i, n), readBytes(f, i, n))
<1>1. CASE ~Has(p, i, n)
  BY <1>1, FailedFields DEF readBytes, Same
<1>2. CASE Has(p, i, n)
  <2>1. Has(f, i, n) /\ \A j \in i .. i + n - 1 : p[j] = f[j]
    BY <1>2, CutBytes
  <2> DEFINE u == SubSeq(p, i, i + n - 1)
             v == SubSeq(f, i, i + n - 1)
  <2>2. readBytes(p, i, n) = Read(u, i + n) /\ readBytes(f, i, n) = Read(v, i + n)
    BY <1>2, <2>1 DEF readBytes
  <2>3. readBytes(p, i, n).ok /\ readBytes(f, i, n).ok
    BY <2>2, ReadFields
  <2>4. BytesAre(Nat, p, i, n, u) /\ BytesAre(Nat, f, i, n, v)
    BY <2>3, BytesType
  <2> HIDE DEF u, v
  <2>5. /\ u \in Seq(Nat) /\ Len(u) = n /\ \A j \in 1 .. n : u[j] = p[i + j - 1]
        /\ v \in Seq(Nat) /\ Len(v) = n /\ \A j \in 1 .. n : v[j] = f[i + j - 1]
    BY <2>4 DEF BytesAre
  <2>6. \A j \in 1 .. n : u[j] = v[j]
    <3> TAKE j \in 1 .. n
    <3>1. i + j - 1 \in i .. i + n - 1
      OBVIOUS
    <3> QED
      BY <2>1, <2>4, <2>5, <3>1
  <2>7. u = v
    BY <2>4, <2>5, <2>6, SeqEqual
  <2> QED
    BY <2>2, <2>7 DEF Same
<1> QED
  BY <1>1, <1>2

\* The numbers of the special formats are the same.
LEMMA CutUnsigned ==
    ASSUME NEW p \in Seq(Nat), NEW f \in Seq(Nat), Cut(p, f), NEW i \in Nat \ {0}, NEW w \in {1, 2, 4},
           AreBytes(p, i, w)
    PROVE  AreBytes(f, i, w) /\ Unsigned(p, i, w) = Unsigned(f, i, w)
<1>1. w \in Nat /\ Has(p, i, w)
  BY DEF AreBytes
<1>2. AreBytes(f, i, w) /\ \A j \in i .. i + w - 1 : p[j] = f[j]
  BY <1>1, CutBytes
<1>3. CASE w = 1
  <2>1. i \in i .. i + w - 1
    BY <1>3
  <2>2. p[i] = f[i]
    BY <1>2, <2>1
  <2> QED
    BY <1>2, <1>3, <2>2 DEF Unsigned
<1>4. CASE w = 2
  <2>1. i \in i .. i + w - 1 /\ i + 1 \in i .. i + w - 1
    BY <1>4
  <2>2. p[i] = f[i] /\ p[i + 1] = f[i + 1]
    BY <1>2, <2>1
  <2> QED
    BY <1>2, <1>4, <2>2 DEF Unsigned
<1>5. CASE w = 4
  <2>1. i \in i .. i + w - 1 /\ i + 1 \in i .. i + w - 1 /\ i + 2 \in i .. i + w - 1 /\ i + 3 \in i .. i + w - 1
    BY <1>5
  <2>2. p[i] = f[i] /\ p[i + 1] = f[i + 1] /\ p[i + 2] = f[i + 2] /\ p[i + 3] = f[i + 3]
    BY <1>2, <2>1
  <2> QED
    BY <1>2, <1>5, <2>2 DEF Unsigned
<1> QED
  BY <1>3, <1>4, <1>5

\* Strings are the same.
LEMMA CutString ==
    ASSUME NEW p \in Seq(Nat), NEW f \in Seq(Nat), Cut(p, f), NEW i \in Nat \ {0}
    PROVE  Same(readString(p, i), readString(f, i))
<1> DEFINE l == readLength(p, i)
           r == readString(p, i)
           w == IF l.val = 0 THEN 1 ELSE IF l.val = 1 THEN 2 ELSE 4
<1>1. CASE ~r.ok
  BY <1>1 DEF Same
<1>2. CASE r.ok
  <2>1. r = StringOfLength(p, l)
    BY DEF readString
  <2>2. l.ok
    BY <1>2, <2>1, FailedFields DEF StringOfLength
  <2>3. Same(l, readLength(f, i))
    BY CutLength
  <2>4. readLength(f, i) = l
    BY <2>2, <2>3 DEF Same
  <2>5. readString(f, i) = StringOfLength(f, l)
    BY <2>4 DEF readString
  <2>6. LengthIs(p, i, l)
    BY LengthType
  <2>7. PICK a \in Nat \ {0}, n \in Nat : a = l.at /\ n = l.val
    BY <2>2, <2>6 DEF LengthIs, Ends
  <2>8. w \in {1, 2, 4}
    OBVIOUS
  <2> HIDE DEF l, r
  <2>9. CASE ~l.special
    <3>1. r = readBytes(p, a, n) /\ readString(f, i) = readBytes(f, a, n)
      BY <2>1, <2>2, <2>5, <2>7, <2>9 DEF StringOfLength
    <3>2. Same(readBytes(p, a, n), readBytes(f, a, n))
      BY CutRead
    <3> QED
      BY <3>1, <3>2 DEF r
  <2>10. CASE l.special
    <3>1. ~(n > 2) /\ AreBytes(p, a, w) /\ r = Read(Decimal[Unsigned(p, a, w)], a + w)
      BY <1>2, <2>1, <2>2, <2>7, <2>10, FailedFields DEF StringOfLength
    <3>2. AreBytes(f, a, w) /\ Unsigned(p, a, w) = Unsigned(f, a, w)
      BY <2>8, <3>1, CutUnsigned
    <3>3. readString(f, i) = Read(Decimal[Unsigned(f, a, w)], a + w)
      BY <2>2, <2>5, <2>7, <2>10, <3>1, <3>2 DEF StringOfLength
    <3>4. r = readString(f, i)
      BY <3>1, <3>2, <3>3, Zenon
    <3> QED
      BY <3>4 DEF Same, r
  <2> QED
    BY <2>9, <2>10
<1> QED
  BY <1>1, <1>2

\* What is read behind the same is the same.
LEMMA CutAfter ==
    ASSUME NEW p \in Seq(Nat), NEW f \in Seq(Nat), Cut(p, f), NEW i \in Nat, NEW x, NEW y, Same(x, y), Ends(p, i, x)
    PROVE  Same(StringAfter(p, x), StringAfter(f, y)) /\ Same(LengthAfter(p, x), LengthAfter(f, y))
<1>1. CASE ~x.ok
  <2>1. StringAfter(p, x) = Failed /\ LengthAfter(p, x) = Failed
    BY <1>1 DEF StringAfter, LengthAfter
  <2> QED
    BY <2>1, FailedFields DEF Same
<1>2. CASE x.ok
  <2>1. y = x
    BY <1>2 DEF Same
  <2>2. PICK a \in Nat \ {0} : a = x.at
    BY <1>2 DEF Ends
  <2>3. /\ StringAfter(p, x) = readString(p, a) /\ LengthAfter(p, x) = readLength(p, a)
        /\ StringAfter(f, y) = readString(f, a) /\ LengthAfter(f, y) = readLength(f, a)
    BY <1>2, <2>1, <2>2 DEF StringAfter, LengthAfter
  <2> QED
    BY <2>3, CutString, CutLength
<1> QED
  BY <1>1, <1>2

\* A key with its value is the same.
LEMMA CutObject ==
    ASSUME NEW p \in Seq(Nat), NEW f \in Seq(Nat), Cut(p, f), NEW i \in Nat \ {0}, NEW e, NEW t
    PROVE  Same(handleObject(p, i, e, t), handleObject(f, i, e, t))
<1> DEFINE k == readString(p, i)
           l == readString(f, i)
           v == StringAfter(p, k)
           w == StringAfter(f, l)
<1>0. Nat \subseteq Nat /\ 48 .. 57 \subseteq Nat
  OBVIOUS
<1>1. Same(k, l)
  BY CutString
<1>2. StringIs(Nat, p, i, k)
  BY <1>0, StringType
<1>3. Ends(p, i, k)
  BY <1>2 DEF StringIs
<1>4. Same(v, w)
  BY <1>1, <1>3, CutAfter
<1>5. handleObject(p, i, e, t) = putObject(k, v, e, t) /\ handleObject(f, i, e, t) = putObject(l, w, e, t)
  BY DEF handleObject, objectOfKey
<1>6. CASE ~v.ok
  <2>1. putObject(k, v, e, t) = Failed
    BY <1>6 DEF putObject
  <2> QED
    BY <1>5, <2>1, FailedFields DEF Same
<1>7. CASE v.ok
  <2>1. k.ok
    BY <1>7, FailedFields DEF StringAfter
  <2>2. k = l /\ v = w
    BY <1>1, <1>4, <1>7, <2>1 DEF Same
  <2> HIDE DEF k, l, v, w
  <2> QED
    BY <1>5, <2>2 DEF Same
<1> QED
  BY <1>6, <1>7

\* A key with a time is the same.
LEMMA CutExpiry ==
    ASSUME NEW p \in Seq(Nat), NEW f \in Seq(Nat), Cut(p, f), NEW i \in Nat \ {0}, NEW n \in {4, 8}, NEW t
    PROVE  Same(handleExpiryTime(p, i, n, t), handleExpiryTime(f, i, n, t))
<1> DEFINE e(x) == IF \E j \in i + 3 .. i + n - 1 : x[j] > 0 THEN Far ELSE x[i] + 256 * (x[i + 1] + 256 * x[i + 2])
<1>1. CASE ~AreBytes(p, i, n + 1) \/ p[i + n] # TypeString
  <2>1. handleExpiryTime(p, i, n, t) = Failed
    BY <1>1 DEF handleExpiryTime
  <2> QED
    BY <2>1, FailedFields DEF Same
<1>2. CASE AreBytes(p, i, n + 1) /\ p[i + n] = TypeString
  <2>1. Has(p, i, n + 1) /\ n + 1 \in Nat
    BY <1>2 DEF AreBytes
  <2>2. AreBytes(f, i, n + 1) /\ \A j \in i .. i + (n + 1) - 1 : p[j] = f[j]
    BY <1>2, <2>1, CutBytes
  <2>3. /\ i \in i .. i + (n + 1) - 1 /\ i + 1 \in i .. i + (n + 1) - 1 /\ i + 2 \in i .. i + (n + 1) - 1
        /\ i + n \in i .. i + (n + 1) - 1 /\ i + n + 1 \in Nat \ {0}
        /\ \A j \in i + 3 .. i + n - 1 : j \in i .. i + (n + 1) - 1
    OBVIOUS
  <2>4. p[i] = f[i] /\ p[i + 1] = f[i + 1] /\ p[i + 2] = f[i + 2] /\ p[i + n] = f[i + n]
        /\ \A j \in i + 3 .. i + n - 1 : p[j] = f[j]
    BY <2>2, <2>3
  <2>5. e(p) = e(f)
    <3>1. (\E j \in i + 3 .. i + n - 1 : p[j] > 0) <=> (\E j \in i + 3 .. i + n - 1 : f[j] > 0)
      BY <2>4
    <3> QED
      BY <2>4, <3>1
  <2>6. handleExpiryTime(p, i, n, t) = handleObject(p, i + n + 1, e(p), t)
    BY <1>2 DEF handleExpiryTime
  <2>7. handleExpiryTime(f, i, n, t) = handleObject(f, i + n + 1, e(f), t)
    BY <1>2, <2>2, <2>4 DEF handleExpiryTime
  <2> HIDE DEF e
  <2>8. Same(handleObject(p, i + n + 1, e(p), t), handleObject(f, i + n + 1, e(p), t))
    BY <2>3, CutObject
  <2> QED
    BY <2>5, <2>6, <2>7, <2>8
<1> QED
  BY <1>1, <1>2

\* A record without data is the same.
LEMMA CutKeep ==
    ASSUME NEW x, NEW y, Same(x, y)
    PROVE  Same(Keep(x), Keep(y))
<1>1. CASE ~x.ok
  <2>1. Keep(x) = Failed
    BY <1>1 DEF Keep
  <2> QED
    BY <2>1, FailedFields DEF Same
<1>2. CASE x.ok
  BY <1>2 DEF Same
<1> QED
  BY <1>1, <1>2

\* Which kind of record there is depends on its first byte only.
LEMMA KindOfRecord ==
    ASSUME NEW f, NEW p, NEW i, NEW j, NEW t, j = i + 1, p[i] = f[i],
           Same(Keep(StringAfter(p, readString(p, j))), Keep(StringAfter(f, readString(f, j)))),
           Same(Keep(readLength(p, j)), Keep(readLength(f, j))),
           Same(Keep(LengthAfter(p, readLength(p, j))), Keep(LengthAfter(f, readLength(f, j)))),
           Same(handleExpiryTime(p, j, 4, t), handleExpiryTime(f, j, 4, t)),
           Same(handleExpiryTime(p, j, 8, t), handleExpiryTime(f, j, 8, t)),
           Same(handleObject(p, j, 0, t), handleObject(f, j, 0, t)), Same(Failed, Failed)
    PROVE  Same(handleRecord(p, i, t), handleRecord(f, i, t))
<1> USE DEF AuxiliaryField, SelectDB, ResizeDB, Expiry, ExpiryMS, TypeString, handleRecord
<1>1. CASE f[i] = AuxiliaryField
  BY <1>1, SMT DEF handlerAuxiliaryField
<1>2. CASE f[i] = SelectDB
  BY <1>2, SMT DEF handleSelectDB
<1>3. CASE f[i] = ResizeDB
  BY <1>3, SMT DEF handleResizeDB
<1>4. CASE f[i] = Expiry
  BY <1>4, SMT
<1>5. CASE f[i] = ExpiryMS
  BY <1>5, SMT
<1>6. CASE f[i] = TypeString
  BY <1>6, SMT
<1>7. CASE f[i] \notin {AuxiliaryField, SelectDB, ResizeDB, Expiry, ExpiryMS, TypeString}
  <2>1. handleRecord(p, i, t) = Failed /\ handleRecord(f, i, t) = Failed
    BY <1>7, SMT
  <2> QED
    BY <2>1
<1> QED
  BY <1>1, <1>2, <1>3, <1>4, <1>5, <1>6, <1>7, SMT

\* A record is the same.
LEMMA CutRecord ==
    ASSUME NEW p \in Seq(Nat), NEW f \in Seq(Nat), Cut(p, f), NEW i \in Nat \ {0}, i <= Len(p), NEW t
    PROVE  Same(handleRecord(p, i, t), handleRecord(f, i, t))
<1>0. p[i] = f[i]
  <2>1. i \in 1 .. Len(p)
    OBVIOUS
  <2> QED
    BY <2>1 DEF Cut
<1>1. PICK j \in Nat \ {0} : j = i + 1
  OBVIOUS
<1>2. Nat \subseteq Nat /\ 48 .. 57 \subseteq Nat
  OBVIOUS
<1>3. StringIs(Nat, p, j, readString(p, j)) /\ LengthIs(p, j, readLength(p, j))
  BY <1>2, StringType, LengthType
<1>4. Ends(p, j, readString(p, j)) /\ Ends(p, j, readLength(p, j))
  BY <1>3 DEF StringIs, LengthIs
<1>5. Same(readString(p, j), readString(f, j)) /\ Same(readLength(p, j), readLength(f, j))
  BY CutString, CutLength
<1>6. Same(StringAfter(p, readString(p, j)), StringAfter(f, readString(f, j)))
      /\ Same(LengthAfter(p, readLength(p, j)), LengthAfter(f, readLength(f, j)))
  BY <1>4, <1>5, CutAfter
<1>7. /\ Same(Keep(StringAfter(p, readString(p, j))), Keep(StringAfter(f, readString(f, j))))
      /\ Same(Keep(readLength(p, j)), Keep(readLength(f, j)))
      /\ Same(Keep(LengthAfter(p, readLength(p, j))), Keep(LengthAfter(f, readLength(f, j))))
  BY <1>5, <1>6, CutKeep
<1>8. /\ Same(handleExpiryTime(p, j, 4, t), handleExpiryTime(f, j, 4, t))
      /\ Same(handleExpiryTime(p, j, 8, t), handleExpiryTime(f, j, 8, t))
      /\ Same(handleObject(p, j, 0, t), handleObject(f, j, 0, t))
  BY CutExpiry, CutObject
<1>9. Same(Failed, Failed)
  BY DEF Same
<1> QED
  BY <1>0, <1>1, <1>7, <1>8, <1>9, KindOfRecord

(***************************************************************************)
(* Records in a row.                                                       *)
(***************************************************************************)
\* What a cut file makes of the records from i on is a part of D.
Loads(p, i, t, D) == ParseRecords(p, i, t).ok => Part(ParseRecords(p, i, t).val, D)

\* What a whole file makes of them is the part of D with the keys K, and it ends at e.
LoadsAll(f, i, t, D, K, e) ==
    /\ ParseRecords(f, i, t).ok /\ ParseRecords(f, i, t).at = e
    /\ Part(ParseRecords(f, i, t).val, D) /\ DOMAIN ParseRecords(f, i, t).val = K

\* One map over another.
LEMMA OverPart ==
    ASSUME NEW a, NEW b, NEW D, Part(a, D), Part(b, D)
    PROVE  Part(Over(a, b), D) /\ DOMAIN Over(a, b) = DOMAIN a \cup DOMAIN b
<1>1. DOMAIN Over(a, b) = DOMAIN a \cup DOMAIN b
      /\ \A k \in DOMAIN Over(a, b) : Over(a, b)[k] = IF k \in DOMAIN a THEN a[k] ELSE b[k]
  BY DEF Over
<1>2. \A k \in DOMAIN Over(a, b) : k \in DOMAIN D /\ Over(a, b)[k] = D[k]
  BY <1>1, Zenon DEF Part
<1> QED
  BY <1>1, <1>2 DEF Part

\* The end of a file, and of the records.
LEMMA LoadsEnd ==
    ASSUME NEW f \in Seq(Nat), NEW i \in 1 .. Len(f) + 1, NEW t, NEW D, i > Len(f) \/ f[i] = MarkerEOF
    PROVE  Loads(f, i, t, D) /\ LoadsAll(f, i, t, D, {}, i)
<1> DEFINE q == ParseRecords(f, i, t)
<1>1. q = Read(Empty, i)
  BY RecordsStep DEF RecordsAre
<1>2. q.ok /\ q.at = i /\ q.val = Empty
  BY <1>1, ReadFields
<1>3. DOMAIN Empty = {}
  BY EmptyData, Zenon
<1>4. Part(Empty, D)
  BY <1>3 DEF Part
<1> QED
  BY <1>2, <1>3, <1>4 DEF Loads, LoadsAll

\* One record more of a cut file.
LEMMA LoadsStep ==
    ASSUME NEW p \in Seq(Nat), NEW f \in Seq(Nat), Cut(p, f), NEW t, NEW D,
           NEW i \in 1 .. Len(p) + 1, NEW j \in Nat, NEW a,
           handleRecord(f, i, t) = Read(a, j), Part(a, D),
           j <= Len(p) + 1 => Loads(p, j, t, D)
    PROVE  Loads(p, i, t, D)
<1>1. CASE i > Len(p) \/ p[i] = MarkerEOF
  BY <1>1, LoadsEnd
<1>2. CASE ~(i > Len(p) \/ p[i] = MarkerEOF)
  <2> DEFINE q == ParseRecords(p, i, t)
             r == handleRecord(p, i, t)
  <2>1. q = IF r.ok THEN Followed(r, ParseRecords(p, r.at, t)) ELSE Failed
    <3>1. RecordsAre(p, i, t, r, q)
      BY RecordsStep
    <3> QED
      BY <1>2, <3>1 DEF RecordsAre
  <2>2. CASE ~q.ok
    BY <2>2 DEF Loads
  <2>3. CASE q.ok
    <3>1. r.ok /\ q = Followed(r, ParseRecords(p, r.at, t))
      BY <2>1, <2>3, FailedFields
    <3>2. i \in Nat \ {0} /\ i <= Len(p) /\ Len(p) \in Nat
      BY <1>2
    <3>3. Same(r, handleRecord(f, i, t))
      BY <3>2, CutRecord
    <3>4. r = Read(a, j)
      BY <3>1, <3>3 DEF Same
    <3>5. r.val = a /\ r.at = j
      BY <3>4, ReadFields
    <3>6. r.at \in i + 1 .. Len(p) + 1
      BY <3>1, <3>2, RecordAt
    <3>7. Loads(p, j, t, D)
      BY <3>2, <3>5, <3>6
    <3> DEFINE u == ParseRecords(p, j, t)
    <3>8. q = Followed(r, u)
      BY <3>1, <3>5
    <3> HIDE DEF r, q
    <3>9. u.ok /\ q = Read(Over(u.val, r.val), u.at)
      BY <2>3, <3>8, FailedFields DEF Followed
    <3>10. Part(u.val, D)
      BY <3>7, <3>9 DEF Loads
    <3> HIDE DEF u
    <3>11. q.val = Over(u.val, a)
      BY <3>5, <3>9, ReadFields
    <3>12. Part(q.val, D)
      BY <3>10, <3>11, OverPart, Zenon
    <3> QED
      BY <3>12 DEF Loads, q
  <2> QED
    BY <2>2, <2>3
<1> QED
  BY <1>1, <1>2

\* One record more of a whole file.
LEMMA LoadsAllStep ==
    ASSUME NEW f \in Seq(Nat), NEW t, NEW D, NEW i \in 1 .. Len(f), NEW j, NEW a, NEW K, NEW e,
           f[i] # MarkerEOF, handleRecord(f, i, t) = Read(a, j), Part(a, D),
           LoadsAll(f, j, t, D, K, e)
    PROVE  LoadsAll(f, i, t, D, DOMAIN a \cup K, e)
<1> DEFINE q == ParseRecords(f, i, t)
           r == handleRecord(f, i, t)
           u == ParseRecords(f, j, t)
<1>1. RecordsAre(f, i, t, r, q) /\ ~(i > Len(f))
  <2>1. i \in 1 .. Len(f) + 1 /\ ~(i > Len(f))
    OBVIOUS
  <2> QED
    BY <2>1, RecordsStep
<1>2. r.ok /\ r.val = a /\ r.at = j
  BY ReadFields
<1>3. q = Followed(r, u)
  BY <1>1, <1>2, Zenon DEF RecordsAre
<1>4. u.ok /\ u.at = e /\ Part(u.val, D) /\ DOMAIN u.val = K
  BY DEF LoadsAll
<1> HIDE DEF q, r, u
<1>5. q = Read(Over(u.val, a), e)
  BY <1>2, <1>3, <1>4, Zenon DEF Followed
<1>6. q.ok /\ q.at = e /\ q.val = Over(u.val, a)
  BY <1>5, ReadFields, Zenon
<1>7. Part(q.val, D) /\ DOMAIN q.val = K \cup DOMAIN a
  BY <1>4, <1>6, OverPart, Zenon
<1>8. DOMAIN q.val = DOMAIN a \cup K
  BY <1>7, Zenon
<1> QED
  BY <1>6, <1>7, <1>8 DEF LoadsAll, q

\* A row of m records: the k-th is at c[k - 1], adds adds[k] and ends where the next begins.
Row(f, t, D, m, c, adds) ==
    /\ c \in [0 .. m -> Nat \ {0}]
    /\ \A k \in 1 .. m : /\ c[k - 1] <= Len(f) /\ f[c[k - 1]] # MarkerEOF
                         /\ handleRecord(f, c[k - 1], t) = Read(adds[k], c[k])
                         /\ Part(adds[k], D)
    /\ c[m] = Len(f) + 1 \/ (c[m] <= Len(f) /\ f[c[m]] = MarkerEOF)

\* A row that was cut loads a part.
LEMMA RowCut ==
    ASSUME NEW p \in Seq(Nat), NEW f \in Seq(Nat), Cut(p, f), NEW t, NEW D, NEW m \in Nat, NEW c, NEW adds,
           Row(f, t, D, m, c, adds)
    PROVE  \A k \in 0 .. m : c[k] <= Len(p) + 1 => Loads(p, c[k], t, D)
<1> DEFINE Bad(k) == c[k] <= Len(p) + 1 /\ ~Loads(p, c[k], t, D)
           T == {n \in 0 .. m : Bad(m - n)}
<1>1. \A k \in 0 .. m : m - k \in 0 .. m /\ m - (m - k) = k
  OBVIOUS
<1>2. Len(p) \in Nat /\ Len(f) \in Nat /\ Len(p) <= Len(f)
  BY DEF Cut
<1> HIDE DEF Bad
<1> SUFFICES ASSUME T # {} PROVE FALSE
  <2>1. \A k \in 0 .. m : Bad(k) => m - k \in T
    BY <1>1
  <2> QED
    BY <2>1, Zenon DEF Bad
<1>3. T \subseteq Nat
  OBVIOUS
<1>4. PICK n \in T : \A x \in T : n <= x
  BY <1>3, Least
<1>5. PICK k \in 0 .. m : k = m - n /\ n \in 0 .. m /\ Bad(k)
  BY <1>4
<1>6. c[k] \in 1 .. Len(p) + 1 /\ ~Loads(p, c[k], t, D)
  <2>1. c[k] \in Nat \ {0} /\ c[k] <= Len(p) + 1
    BY <1>5 DEF Bad, Row
  <2> QED
    BY <1>2, <1>5, <2>1 DEF Bad
<1>7. CASE k = m
  <2>1. PICK x \in 1 .. Len(p) + 1 : x = c[m]
    BY <1>6, <1>7
  <2>2. x = Len(f) + 1 \/ (x <= Len(f) /\ f[x] = MarkerEOF)
    BY <2>1 DEF Row
  <2>3. x > Len(p) \/ p[x] = MarkerEOF
    <3>1. CASE x > Len(p)
      BY <3>1
    <3>2. CASE ~(x > Len(p))
      <4>1. x \in 1 .. Len(p) /\ x # Len(f) + 1
        BY <1>2, <3>2, SMTT(30)
      <4> QED
        BY <2>2, <4>1 DEF Cut
    <3> QED
      BY <3>1, <3>2
  <2>4. Loads(p, x, t, D)
    BY <2>3, LoadsEnd
  <2> QED
    BY <1>6, <1>7, <2>1, <2>4
<1>8. CASE k # m
  <2>1. k + 1 \in 1 .. m /\ (k + 1) - 1 = k /\ k + 1 \in 0 .. m /\ n - 1 \in 0 .. m /\ ~(n <= n - 1) /\ m - (n - 1) = k + 1
    BY <1>5, <1>8
  <2>2. n - 1 \notin T
    BY <1>4, <2>1, Zenon
  <2>3. ~Bad(k + 1)
    BY <2>1, <2>2
  <2>4. PICK i, j, a : i \in 1 .. Len(p) + 1 /\ j \in Nat /\ i = c[k] /\ j = c[k + 1] /\ a = adds[k + 1]
    <3>1. c[k + 1] \in Nat
      BY <2>1 DEF Row
    <3> QED
      BY <1>6, <3>1
  <2>5. handleRecord(f, i, t) = Read(a, j) /\ Part(a, D)
    BY <2>1, <2>4 DEF Row
  <2>6. j <= Len(p) + 1 => Loads(p, j, t, D)
    BY <2>3, <2>4 DEF Bad
  <2>7. Loads(p, i, t, D)
    BY <2>4, <2>5, <2>6, LoadsStep
  <2> QED
    BY <1>6, <2>4, <2>7
<1> QED
  BY <1>7, <1>8

\* The keys of a row from the k-th record on.
RowKeys(adds, k, m) == UNION {DOMAIN adds[i] : i \in k .. m}

\* A whole row loads all of it.
LEMMA RowWhole ==
    ASSUME NEW f \in Seq(Nat), NEW t, NEW D, NEW m \in Nat, NEW c, NEW adds, Row(f, t, D, m, c, adds)
    PROVE  \A k \in 0 .. m : LoadsAll(f, c[k], t, D, RowKeys(adds, k + 1, m), c[m])
<1> DEFINE Bad(k) == ~LoadsAll(f, c[k], t, D, RowKeys(adds, k + 1, m), c[m])
           T == {n \in 0 .. m : Bad(m - n)}
<1>1. \A k \in 0 .. m : m - k \in 0 .. m /\ m - (m - k) = k
  OBVIOUS
<1>2. Len(f) \in Nat
  OBVIOUS
<1> HIDE DEF Bad
<1> SUFFICES ASSUME T # {} PROVE FALSE
  <2>1. \A k \in 0 .. m : Bad(k) => m - k \in T
    BY <1>1
  <2> QED
    BY <2>1, Zenon DEF Bad
<1>3. T \subseteq Nat
  OBVIOUS
<1>4. PICK n \in T : \A x \in T : n <= x
  BY <1>3, Least
<1>5. PICK k \in 0 .. m : k = m - n /\ n \in 0 .. m /\ Bad(k)
  BY <1>4
<1>7. CASE k = m
  <2>1. PICK x \in 1 .. Len(f) + 1 : x = c[m] /\ (x > Len(f) \/ f[x] = MarkerEOF)
    <3>1. m \in 0 .. m
      OBVIOUS
    <3>2. PICK x \in Nat \ {0} : x = c[m]
      BY <3>1 DEF Row
    <3>3. x = Len(f) + 1 \/ (x <= Len(f) /\ f[x] = MarkerEOF)
      BY <3>2 DEF Row
    <3>4. x \in 1 .. Len(f) + 1 /\ (x > Len(f) \/ f[x] = MarkerEOF)
      BY <1>2, <3>3
    <3> QED
      BY <3>2, <3>4
  <2>2. RowKeys(adds, m + 1, m) = {}
    <3>1. m + 1 .. m = {}
      OBVIOUS
    <3> QED
      BY <3>1 DEF RowKeys
  <2>4. LoadsAll(f, x, t, D, {}, x)
    BY <2>1, LoadsEnd
  <2> QED
    BY <1>5, <1>7, <2>1, <2>2, <2>4 DEF Bad
<1>8. CASE k # m
  <2>1. k + 1 \in 1 .. m /\ (k + 1) - 1 = k /\ k + 1 \in 0 .. m /\ n - 1 \in 0 .. m /\ ~(n <= n - 1) /\ m - (n - 1) = k + 1
    BY <1>5, <1>8
  <2>2. n - 1 \notin T
    BY <1>4, <2>1, Zenon
  <2>3. ~Bad(k + 1)
    BY <2>1, <2>2
  <2>4. PICK i, j, a : i \in 1 .. Len(f) /\ i = c[k] /\ j = c[k + 1] /\ a = adds[k + 1] /\ f[i] # MarkerEOF
    <3>1. c[k] \in Nat \ {0} /\ c[k] <= Len(f) /\ f[c[k]] # MarkerEOF
      BY <2>1 DEF Row
    <3> QED
      BY <1>2, <3>1
  <2>5. handleRecord(f, i, t) = Read(a, j) /\ Part(a, D)
    BY <2>1, <2>4 DEF Row
  <2> DEFINE K == RowKeys(adds, (k + 1) + 1, m)
  <2>6. LoadsAll(f, j, t, D, K, c[m])
    BY <2>3, <2>4 DEF Bad
  <2>7. LoadsAll(f, i, t, D, DOMAIN a \cup K, c[m])
    BY <2>4, <2>5, <2>6, LoadsAllStep
  <2>8. RowKeys(adds, k + 1, m) = DOMAIN a \cup K
    <3>1. k + 1 .. m = {k + 1} \cup ((k + 1) + 1 .. m)
      BY <2>1
    <3> QED
      BY <2>4, <3>1, Zenon DEF RowKeys
  <2> HIDE DEF K
  <2> QED
    BY <1>5, <2>4, <2>7, <2>8 DEF Bad
<1> QED
  BY <1>7, <1>8

(***************************************************************************)
(* What the saver writes for a string and for a key.                       *)
(***************************************************************************)
\* The calls for a length write bytes.
LEMMA LengthCalls ==
    ASSUME NEW n \in Nat
    PROVE  writeLength(n) \in Seq(Seq(Byte))
<1>1. PICK x \in Nat, r \in Nat : n = 256 * x + r /\ x = Shift(n) /\ r = B0(n) /\ r <= 255
  <2>1. n = 256 * Shift(n) + (n % 256) /\ Shift(n) \in Nat /\ n % 256 \in 0 .. 255
    BY LowByte
  <2>2. B0(n) \in Nat /\ B0(n) <= 255
    BY <2>1 DEF B0
  <2> QED
    BY <2>1, <2>2, Zenon DEF B0
<1>2. PICK a \in Byte, b \in Byte, c \in Byte, d \in Byte : a = B3(n) /\ b = B2(n) /\ c = B1(n) /\ d = B0(n)
  <2>1. PICK a \in Nat, b \in Nat, c \in Nat, d \in Nat :
          /\ a = B3(n) /\ b = B2(n) /\ c = B1(n) /\ d = B0(n)
          /\ a <= 255 /\ b <= 255 /\ c <= 255 /\ d <= 255
          /\ n <= Most => n = 256 * (256 * (256 * a + b) + c) + d
    BY FourBytes, Zenon DEF FourOf
  <2>2. a \in Byte /\ b \in Byte /\ c \in Byte /\ d \in Byte
    BY <2>1 DEF Byte
  <2> QED
    BY <2>1, <2>2
<1>3. writeLength(n) = IF Short(n) THEN <<<<n>>>>
                       ELSE IF Medium(n) THEN <<<<64 + x, r>>>>
                       ELSE <<<<128>>, BigEndian4(n)>>
  BY <1>1 DEF writeLength, Short, Medium, B0
<1>4. CASE Short(n)
  <2>1. n \in Byte
    BY <1>4 DEF Short, Byte
  <2> QED
    BY <1>3, <1>4, <2>1
<1>5. CASE ~Short(n) /\ Medium(n)
  <2>1. x <= 63
    <3>1. n = 256 * x + r /\ n <= 16383
      BY <1>1, <1>5, SMT DEF Medium
    <3> QED
      BY <3>1, SMT
  <2>2. 64 + x \in Byte /\ r \in Byte
    BY <1>1, <2>1 DEF Byte
  <2>3. <<64 + x, r>> \in Seq(Byte)
    BY <2>2
  <2> QED
    BY <1>3, <1>5, <2>3
<1>6. CASE ~Short(n) /\ ~Medium(n)
  <2>1. BigEndian4(n) = <<a, b, c, d>>
    BY <1>2 DEF BigEndian4, B0, B1, B2, B3
  <2>2. <<128>> \in Seq(Byte) /\ <<a, b, c, d>> \in Seq(Byte)
    BY DEF Byte
  <2>3. writeLength(n) = <<<<128>>, <<a, b, c, d>>>>
    BY <1>3, <1>6, <2>1
  <2> QED
    BY <2>2, <2>3
<1> QED
  BY <1>4, <1>5, <1>6

\* Bytes are members of the alphabets that are larger.
LEMMA Wider ==
    ASSUME NEW S, Byte \subseteq S, NEW E \in Seq(Seq(Byte))
    PROVE  E \in Seq(Seq(S))
<1>1. Seq(Byte) \subseteq Seq(S)
  BY SeqMonotonic
<1> QED
  BY <1>1, SeqMonotonic

\* Lengths over a larger alphabet.
LEMMA LengthIn ==
    ASSUME NEW S, Byte \subseteq S, NEW n \in Nat
    PROVE  writeLength(n) \in Seq(Seq(S)) /\ LengthBytes(n) \in Seq(S)
<1>1. writeLength(n) \in Seq(Seq(S))
  BY LengthCalls, Wider
<1> QED
  BY <1>1, FlatType DEF LengthBytes

\* What the saver writes for a string.
StringBytes(x) == LengthBytes(Len(x)) \o x

\* They are its calls.
LEMMA StringCalls ==
    ASSUME NEW S, Byte \subseteq S, NEW x \in Seq(S)
    PROVE  /\ writeBytes(x) \in Seq(Seq(S)) /\ FlattenSeq(writeBytes(x)) = StringBytes(x)
           /\ StringBytes(x) \in Seq(S)
<1>1. PICK n \in Nat : n = Len(x)
  OBVIOUS
<1>2. writeLength(n) \in Seq(Seq(S)) /\ LengthBytes(n) \in Seq(S)
  BY LengthIn
<1>3. FlattenSeq(Append(writeLength(n), x)) = FlattenSeq(writeLength(n)) \o x
  BY <1>2, FlatAppend
<1>4. Append(writeLength(n), x) \in Seq(Seq(S))
  BY <1>2
<1>5. LengthBytes(n) \o x \in Seq(S)
  BY <1>2, ConcatProperties
<1> QED
  BY <1>1, <1>3, <1>4, <1>5 DEF writeBytes, StringBytes, LengthBytes

\* A reader that comes to s finds it, and stops behind it.
Behind(o, s) == o + Len(s) + 1

\* n bytes that are there.
LEMMA BytesRead ==
    ASSUME NEW f \in Seq(Nat), NEW o \in Nat, NEW x \in Seq(Nat), At(f, o, x)
    PROVE  readBytes(f, o + 1, Len(x)) = Read(x, Behind(o, x))
<1>1. PICK n \in Nat : n = Len(x)
  OBVIOUS
<1>2. o + n <= Len(f) /\ (\A j \in 1 .. n : f[o + j] = x[j]) /\ Len(f) \in Nat
  BY <1>1 DEF At
<1>3. PICK i \in Nat \ {0} : i = o + 1
  OBVIOUS
<1>4. Has(f, i, n)
  BY <1>2, <1>3 DEF Has
<1> DEFINE u == SubSeq(f, i, i + n - 1)
<1>5. readBytes(f, i, n) = Read(u, i + n)
  BY <1>4 DEF readBytes
<1>6. readBytes(f, i, n).ok
  BY <1>5, ReadFields
<1>7. u \in Seq(Nat) /\ Len(u) = n /\ \A j \in 1 .. n : u[j] = f[i + j - 1]
  <2>1. i \in Nat \ {0} /\ n \in Nat
    BY <1>1, <1>3
  <2>2. BytesAre(Nat, f, i, n, u)
    BY <1>6, <2>1, BytesType
  <2> HIDE DEF u
  <2> QED
    BY <2>2 DEF BytesAre
<1> HIDE DEF u
<1>8. \A j \in 1 .. n : u[j] = x[j]
  <2> TAKE j \in 1 .. n
  <2>1. i + j - 1 = o + j
    BY <1>3
  <2> QED
    BY <1>2, <1>7, <2>1
<1>9. u = x
  BY <1>1, <1>7, <1>8, SeqEqual
<1>10. i + n = o + n + 1
  BY <1>3
<1> QED
  BY <1>1, <1>3, <1>5, <1>9, <1>10 DEF Behind

\* A string that the saver wrote is read back.
LEMMA StringRead ==
    ASSUME NEW f \in Seq(Nat), NEW o \in Nat, NEW x \in Seq(Nat), Len(x) <= Most, At(f, o, StringBytes(x))
    PROVE  readString(f, o + 1) = Read(x, Behind(o, StringBytes(x)))
<1>1. PICK n \in Nat : n = Len(x) /\ n <= Most
  OBVIOUS
<1> DEFINE L == LengthBytes(n)
<1>2. L \in Seq(Nat)
  <2>1. Byte \subseteq Nat
    BY DEF Byte
  <2> QED
    BY <2>1, LengthIn
<1>3. StringBytes(x) = L \o x
  BY <1>1 DEF StringBytes
<1> HIDE DEF L
<1>4. At(f, o, L) /\ At(f, o + Len(L), x) /\ Len(L) \in Nat /\ Len(L \o x) = Len(L) + n
  BY <1>1, <1>2, <1>3, AtJoined, ConcatProperties
<1>5. LengthOf(f, o, n)
  BY <1>4, LengthRead DEF L
<1>6. PICK l \in Nat : l = Len(L)
  BY <1>4
<1>7. readLength(f, o + 1) = Read(n, o + l + 1)
  BY <1>1, <1>5, <1>6 DEF LengthOf, L
<1>8. readBytes(f, (o + l) + 1, n) = Read(x, Behind(o + l, x))
  <2>1. o + l \in Nat
    OBVIOUS
  <2> QED
    BY <1>1, <1>4, <1>6, <2>1, BytesRead
<1> DEFINE r == readLength(f, o + 1)
<1>9. r.ok /\ ~r.special /\ r.val = n /\ r.at = o + l + 1
  BY <1>7, ReadFields
<1>10. readString(f, o + 1) = readBytes(f, o + l + 1, n)
  BY <1>9, Zenon DEF readString, StringOfLength
<1>11. Behind(o + l, x) = Behind(o, L \o x)
  <2>1. (o + l) + n + 1 = o + (l + n) + 1
    OBVIOUS
  <2> QED
    BY <1>1, <1>4, <1>6, <2>1 DEF Behind
<1> QED
  BY <1>3, <1>8, <1>10, <1>11

\* What a key adds when it is read at time t.
Adds(k, d, e, t) == IF e > 0 /\ e < t THEN Empty ELSE Single(k, d, e)

\* A key and its value, as written.
LEMMA ObjectRead ==
    ASSUME NEW f \in Seq(Nat), NEW o \in Nat, NEW k \in Strings(Nat), NEW d \in Strings(Nat), NEW e, NEW t,
           At(f, o, StringBytes(k)), At(f, o + Len(StringBytes(k)), StringBytes(d))
    PROVE  handleObject(f, o + 1, e, t) = Read(Adds(k, d, e, t), Behind(o + Len(StringBytes(k)), StringBytes(d)))
<1>1. k \in Seq(Nat) /\ Len(k) <= Most /\ d \in Seq(Nat) /\ Len(d) <= Most
  BY DEF Strings
<1>2. StringBytes(k) \in Seq(Nat) /\ StringBytes(d) \in Seq(Nat)
  <2>1. Byte \subseteq Nat
    BY DEF Byte
  <2> QED
    BY <1>1, <2>1, StringCalls
<1>3. PICK q \in Nat : q = o + Len(StringBytes(k))
  BY <1>2
<1>4. readString(f, o + 1) = Read(k, Behind(o, StringBytes(k)))
  BY <1>1, StringRead
<1>5. Behind(o, StringBytes(k)) = q + 1
  BY <1>3 DEF Behind
<1>6. At(f, q, StringBytes(d))
  BY <1>3
<1>7. readString(f, q + 1) = Read(d, Behind(q, StringBytes(d)))
  BY <1>1, <1>6, StringRead
<1> DEFINE r == readString(f, o + 1)
           b == Behind(q, StringBytes(d))
<1>8. r.ok /\ r.val = k /\ r.at = q + 1
  BY <1>4, <1>5, ReadFields
<1>9. StringAfter(f, r) = Read(d, b)
  BY <1>7, <1>8 DEF StringAfter
<1>10. handleObject(f, o + 1, e, t) = putObject(r, Read(d, b), e, t)
  BY <1>9, Zenon DEF handleObject, objectOfKey
<1> HIDE DEF b, r
<1>11. Read(d, b).ok /\ Read(d, b).val = d /\ Read(d, b).at = b
  BY ReadFields
<1>12. putObject(r, Read(d, b), e, t) = Read(Adds(k, d, e, t), b)
  BY <1>8, <1>11, Zenon DEF putObject, Adds, Single
<1>13. b = Behind(o + Len(StringBytes(k)), StringBytes(d))
  BY <1>3, Zenon DEF b
<1> QED
  BY <1>10, <1>12, <1>13, Zenon

\* The bytes of a time.
TimeIs(n, a, b, c, d) ==
    /\ LittleEndian8(n) = <<a, b, c, d, 0, 0, 0, 0>>
    /\ n = IF d > 0 THEN Far ELSE Low3(a, b, c)

\* A number, its lowest byte and the rest.
Split(v, x, a) == v = 256 * x + a /\ a <= 255

\* Every number is split.
LEMMA Splits ==
    ASSUME NEW n \in Nat
    PROVE  Shift(n) \in Nat /\ B0(n) \in Nat /\ Split(n, Shift(n), B0(n))
<1>1. n = 256 * Shift(n) + (n % 256) /\ Shift(n) \in Nat /\ n % 256 \in 0 .. 255
  BY LowByte
<1>2. B0(n) = n % 256
  BY DEF B0
<1>3. B0(n) \in Nat /\ B0(n) <= 255 /\ Shift(n) \in Nat
  BY <1>1, <1>2
<1>4. n = 256 * Shift(n) + B0(n)
  BY <1>1, <1>2
<1> QED
  BY <1>3, <1>4 DEF Split

\* The fourth byte is 0 for a time before Far.
Pieces(v, a, b, c, d) ==
    d <= 255 /\ (d > 0 => v = Far) /\ (~(d > 0) => v = Low3(a, b, c))

\* By the size of the numbers.
LEMMA InPieces ==
    ASSUME NEW v \in Nat, NEW x \in Nat, NEW a \in Nat, NEW y \in Nat, NEW b \in Nat, NEW d \in Nat, NEW c \in Nat,
           Split(v, x, a), Split(x, y, b), Split(y, d, c), v <= Far
    PROVE  Pieces(v, a, b, c, d)
<1>1. x <= 65536
  BY SMT DEF Far, Split
<1>2. y <= 256
  BY <1>1, SMT DEF Split
<1>3. d <= 1
  BY <1>2, SMT DEF Split
<1>4. ASSUME d > 0 PROVE v = Far
  <2>1. y >= 256
    BY <1>4, SMT DEF Split
  <2>2. x >= 65536
    BY <2>1, SMT DEF Split
  <2>3. v >= 16777216
    BY <2>2, SMT DEF Split
  <2> QED
    BY <2>3, SMT DEF Far
<1>5. ASSUME ~(d > 0) PROVE v = Low3(a, b, c)
  <2>1. y = c
    BY <1>5, SMT DEF Split
  <2>2. x = b + 256 * c
    BY <2>1, SMT DEF Split
  <2> QED
    BY <2>2, SMT DEF Split, Low3
<1>6. d <= 255
  BY <1>3
<1> QED
  BY <1>4, <1>5, <1>6 DEF Pieces

\* There are four such bytes.
LEMMA TimeBytes ==
    ASSUME NEW n \in 0 .. Far
    PROVE  \E a, b, c, d \in Byte : TimeIs(n, a, b, c, d)
<1>1. n \in Nat /\ n <= Far
  BY FarTimes
<1> DEFINE x == Shift(n)
           y == Shift(x)
           d == Shift(y)
           a == B0(n)
           b == B0(x)
           c == B0(y)
<1>2. x \in Nat /\ a \in Nat /\ Split(n, x, a)
  BY <1>1, Splits
<1>3. y \in Nat /\ b \in Nat /\ Split(x, y, b)
  BY <1>2, Splits
<1>4. d \in Nat /\ c \in Nat /\ Split(y, d, c)
  BY <1>3, Splits
<1>5. LittleEndian8(n) = <<a, b, c, d, 0, 0, 0, 0>>
  BY DEF LittleEndian8, B0
<1> HIDE DEF x, y, d, a, b, c
<1>6. Pieces(n, a, b, c, d)
  BY <1>1, <1>2, <1>3, <1>4, InPieces
<1>7. a <= 255 /\ b <= 255 /\ c <= 255 /\ d <= 255
  BY <1>2, <1>3, <1>4, <1>6 DEF Split, Pieces
<1>8. a \in Byte /\ b \in Byte /\ c \in Byte /\ d \in Byte
  BY <1>2, <1>3, <1>4, <1>7 DEF Byte
<1>9. n = IF d > 0 THEN Far ELSE Low3(a, b, c)
  BY <1>6, Zenon DEF Pieces
<1>10. TimeIs(n, a, b, c, d)
  BY <1>5, <1>9, Zenon DEF TimeIs
<1> QED
  BY <1>8, <1>10

\* A time that is there, before the type of a string.
LEMMA TimeRead ==
    ASSUME NEW f \in Seq(Nat), NEW o \in Nat, NEW e \in 0 .. Far, NEW t,
           At(f, o, LittleEndian8(e)), At(f, o + 8, <<TypeString>>)
    PROVE  handleExpiryTime(f, o + 1, 8, t) = handleObject(f, (o + 9) + 1, e, t)
<1>1. PICK a \in Byte, b \in Byte, c \in Byte, d \in Byte : TimeIs(e, a, b, c, d)
  BY TimeBytes
<1>2. PICK i \in Nat \ {0} : i = o + 1
  OBVIOUS
<1>3. /\ f[i] = a /\ f[i + 1] = b /\ f[i + 2] = c /\ f[i + 3] = d
      /\ f[i + 4] = 0 /\ f[i + 5] = 0 /\ f[i + 6] = 0 /\ f[i + 7] = 0
  <2> DEFINE q == <<a, b, c, d, 0, 0, 0, 0>>
  <2>1. At(f, o, q)
    BY <1>1 DEF TimeIs
  <2>2. Len(q) = 8 /\ q[1] = a /\ q[2] = b /\ q[3] = c /\ q[4] = d /\ q[5] = 0 /\ q[6] = 0 /\ q[7] = 0 /\ q[8] = 0
    OBVIOUS
  <2> HIDE DEF q
  <2>3. \A j \in 1 .. 8 : f[o + j] = q[j]
    BY <2>1, <2>2 DEF At
  <2>4. /\ i = o + 1 /\ i + 1 = o + 2 /\ i + 2 = o + 3 /\ i + 3 = o + 4
        /\ i + 4 = o + 5 /\ i + 5 = o + 6 /\ i + 6 = o + 7 /\ i + 7 = o + 8
    BY <1>2
  <2>5. /\ f[o + 1] = a /\ f[o + 2] = b /\ f[o + 3] = c /\ f[o + 4] = d
        /\ f[o + 5] = 0 /\ f[o + 6] = 0 /\ f[o + 7] = 0 /\ f[o + 8] = 0
    BY <2>2, <2>3
  <2> QED
    BY <2>4, <2>5
<1>4. f[i + 8] = TypeString /\ i + 8 <= Len(f)
  <2> DEFINE q == <<TypeString>>
  <2>1. Len(q) = 1 /\ q[1] = TypeString
    OBVIOUS
  <2> HIDE DEF q
  <2>2. At(f, o + 8, q)
    BY DEF q
  <2>3. f[(o + 8) + 1] = TypeString /\ (o + 8) + 1 <= Len(f)
    BY <2>1, <2>2 DEF At
  <2>4. (o + 8) + 1 = i + 8
    BY <1>2
  <2> QED
    BY <2>3, <2>4
<1>5. a <= 255 /\ b <= 255 /\ c <= 255 /\ d <= 255 /\ d \in Nat
  BY DEF Byte
<1>6. AreBytes(f, i, 8 + 1)
  <2>1. Has(f, i, 8 + 1)
    <3>1. i + (8 + 1) - 1 = i + 8
      BY <1>2
    <3> QED
      BY <1>4, <3>1 DEF Has
  <2>2. ASSUME NEW j \in i .. i + (8 + 1) - 1 PROVE f[j] <= 255
    <3>1. \/ j = i \/ j = i + 1 \/ j = i + 2 \/ j = i + 3 \/ j = i + 4 \/ j = i + 5 \/ j = i + 6 \/ j = i + 7
          \/ j = i + 8
      BY <1>2, <2>2
    <3>2. 0 <= 255 /\ TypeString <= 255
      BY DEF TypeString
    <3> QED
      BY <1>3, <1>4, <1>5, <3>1, <3>2, ZenonT(60)
  <2> QED
    BY <2>1, <2>2 DEF AreBytes
<1>7. (\E j \in i + 3 .. i + 8 - 1 : f[j] > 0) <=> d > 0
  <2>1. \A j \in i + 3 .. i + 8 - 1 : j = i + 3 \/ j = i + 4 \/ j = i + 5 \/ j = i + 6 \/ j = i + 7
    BY <1>2
  <2>2. i + 3 \in i + 3 .. i + 8 - 1
    BY <1>2
  <2>3. ~(0 > 0)
    OBVIOUS
  <2> QED
    BY <1>3, <2>1, <2>2, <2>3, Zenon
<1>8. handleExpiryTime(f, i, 8, t) = handleObject(f, i + 8 + 1, IF d > 0 THEN Far ELSE Low3(a, b, c), t)
  BY <1>3, <1>4, <1>6, <1>7 DEF handleExpiryTime, Low3
<1>9. i + 8 + 1 = (o + 9) + 1 /\ i = o + 1
  BY <1>2
<1> QED
  BY <1>1, <1>8, <1>9, Zenon DEF TimeIs

\* What the saver writes for an expiry, and for a key.
TimePart(e) == IF e = 0 THEN <<>> ELSE <<ExpiryMS>> \o LittleEndian8(e)
ObjectBytes(k, d, e) == ((TimePart(e) \o <<TypeString>>) \o StringBytes(k)) \o StringBytes(d)

\* A time has eight bytes.
LEMMA TimeCalls ==
    ASSUME NEW S, Byte \subseteq S, NEW e \in 0 .. Far
    PROVE  /\ writeExpire(e) \in Seq(Seq(S)) /\ FlattenSeq(writeExpire(e)) = TimePart(e)
           /\ LittleEndian8(e) \in Seq(S) /\ Len(LittleEndian8(e)) = 8 /\ TimePart(e) \in Seq(S)
<1>1. LittleEndian8(e) \in Seq(S) /\ Len(LittleEndian8(e)) = 8
  <2>1. PICK a, b, c, d \in Byte : TimeIs(e, a, b, c, d)
    BY TimeBytes
  <2>2. 0 \in Byte
    BY DEF Byte
  <2>3. <<a, b, c, d, 0, 0, 0, 0>> \in Seq(S) /\ Len(<<a, b, c, d, 0, 0, 0, 0>>) = 8
    BY <2>1, <2>2
  <2> QED
    BY <2>1, <2>3, Zenon DEF TimeIs
<1>2. CASE e = 0
  <2>1. writeExpire(e) = <<>> /\ TimePart(e) = <<>>
    BY <1>2 DEF writeExpire, TimePart
  <2> QED
    BY <1>1, <2>1, FlatEmpty
<1>3. CASE e # 0
  <2>1. ExpiryMS \in Byte
    BY DEF ExpiryMS, Byte
  <2>2. <<ExpiryMS>> \in Seq(S)
    BY <2>1
  <2>3. writeExpire(e) = <<<<ExpiryMS>>, LittleEndian8(e)>> /\ TimePart(e) = <<ExpiryMS>> \o LittleEndian8(e)
    BY <1>3 DEF writeExpire, TimePart
  <2>4. FlattenSeq(<<<<ExpiryMS>>, LittleEndian8(e)>>) = <<ExpiryMS>> \o LittleEndian8(e)
    BY <1>1, <2>2, FlatTwo
  <2>5. <<<<ExpiryMS>>, LittleEndian8(e)>> \in Seq(Seq(S))
    BY <1>1, <2>2
  <2>6. <<ExpiryMS>> \o LittleEndian8(e) \in Seq(S)
    BY <1>1, <2>2, ConcatProperties
  <2> QED
    BY <1>1, <2>3, <2>4, <2>5, <2>6, Zenon
<1> QED
  BY <1>2, <1>3

\* The calls for a key.
LEMMA ObjectCalls ==
    ASSUME NEW S, Byte \subseteq S, NEW k \in Seq(S), NEW d \in Seq(S), NEW e \in 0 .. Far
    PROVE  /\ writeObject(k, String(d, e)) \in Seq(Seq(S))
           /\ FlattenSeq(writeObject(k, String(d, e))) = ObjectBytes(k, d, e)
           /\ ObjectBytes(k, d, e) \in Seq(S)
<1> DEFINE A == writeExpire(e)
           B == <<<<TypeString>>>>
           C == writeBytes(k)
           D == writeBytes(d)
<1>1. String(d, e).expiry = e /\ String(d, e).data = d
  BY DEF String
<1>2. writeObject(k, String(d, e)) = ((A \o B) \o C) \o D
  BY <1>1 DEF writeObject
<1>3. A \in Seq(Seq(S)) /\ FlattenSeq(A) = TimePart(e)
  BY TimeCalls
<1>4. TypeString \in S
  BY DEF TypeString, Byte
<1>5. <<TypeString>> \in Seq(S)
  BY <1>4
<1>6. B \in Seq(Seq(S)) /\ FlattenSeq(B) = <<TypeString>>
  <2>1. B \in Seq(Seq(S))
    BY <1>5
  <2>2. FlattenSeq(B) = <<TypeString>>
    BY <1>5, FlatOne, Zenon
  <2> QED
    BY <2>1, <2>2
<1>7. C \in Seq(Seq(S)) /\ FlattenSeq(C) = StringBytes(k)
  BY StringCalls
<1>8. D \in Seq(Seq(S)) /\ FlattenSeq(D) = StringBytes(d)
  BY StringCalls
<1> HIDE DEF A, B, C, D
<1>9. /\ FlatIs(S, A, TimePart(e)) /\ FlatIs(S, B, <<TypeString>>)
      /\ FlatIs(S, C, StringBytes(k)) /\ FlatIs(S, D, StringBytes(d))
  BY <1>3, <1>6, <1>7, <1>8, Zenon DEF FlatIs
<1>10. FlatIs(S, (A \o B) \o C, (TimePart(e) \o <<TypeString>>) \o StringBytes(k))
  BY <1>9, FlatJoin, Zenon
<1>11. ((A \o B) \o C) \o D \in Seq(Seq(S)) /\ FlattenSeq(((A \o B) \o C) \o D) = ObjectBytes(k, d, e)
  <2>1. FlatIs(S, ((A \o B) \o C) \o D, ObjectBytes(k, d, e))
    BY <1>9, <1>10, FlatJoin, Zenon DEF ObjectBytes
  <2> QED
    BY <2>1, Zenon DEF FlatIs
<1> QED
  BY <1>2, <1>11, FlatType, Zenon

\* A record that is there: it is not the EOF marker, and it is handled.
HandledAt(f, o, s, t, a) ==
    /\ o + 1 <= Len(f) /\ f[o + 1] # MarkerEOF
    /\ handleRecord(f, o + 1, t) = Read(a, Behind(o, s))

\* What is behind four things.
LEMMA AtFour ==
    ASSUME NEW f \in Seq(Nat), NEW o \in Nat, NEW a \in Seq(Nat), NEW b \in Seq(Nat), NEW c \in Seq(Nat), NEW d \in Seq(Nat),
           At(f, o, ((a \o b) \o c) \o d)
    PROVE  /\ At(f, o, a) /\ At(f, o + Len(a), b) /\ At(f, (o + Len(a)) + Len(b), c)
           /\ At(f, ((o + Len(a)) + Len(b)) + Len(c), d)
           /\ Behind(o, ((a \o b) \o c) \o d) = Behind(((o + Len(a)) + Len(b)) + Len(c), d)
<1> DEFINE x == a \o b
           y == x \o c
           z == y \o d
<1>1. x \in Seq(Nat) /\ Len(x) = Len(a) + Len(b)
  BY Joined
<1>2. y \in Seq(Nat) /\ Len(y) = Len(x) + Len(c)
  BY <1>1, Joined
<1>3. z \in Seq(Nat) /\ Len(z) = Len(y) + Len(d)
  BY <1>2, Joined
<1>4. At(f, o, y) /\ At(f, o + Len(y), d)
  BY <1>2, AtJoined
<1>5. At(f, o, x) /\ At(f, o + Len(x), c)
  BY <1>1, <1>4, AtJoined
<1>6. At(f, o, a) /\ At(f, o + Len(a), b)
  BY <1>5, AtJoined
<1> HIDE DEF x, y, z
<1>7. PICK la \in Nat, lb \in Nat, lc \in Nat, ld \in Nat : la = Len(a) /\ lb = Len(b) /\ lc = Len(c) /\ ld = Len(d)
  OBVIOUS
<1>8. Len(x) = la + lb /\ Len(y) = (la + lb) + lc /\ Len(z) = ((la + lb) + lc) + ld
  BY <1>1, <1>2, <1>3, <1>7
<1>9. o + (la + lb) = (o + la) + lb /\ o + ((la + lb) + lc) = ((o + la) + lb) + lc
      /\ o + (((la + lb) + lc) + ld) + 1 = (((o + la) + lb) + lc) + ld + 1
  OBVIOUS
<1>10. Behind(o, z) = Behind(((o + la) + lb) + lc, d)
  BY <1>7, <1>8, <1>9 DEF Behind
<1> QED
  BY <1>4, <1>5, <1>6, <1>7, <1>8, <1>9, <1>10, Zenon DEF x, y, z

\* A key that the saver wrote is the key that the parser adds.
LEMMA RecordRead ==
    ASSUME NEW f \in Seq(Nat), NEW o \in Nat, NEW k \in Strings(Nat), NEW d \in Strings(Nat), NEW e \in 0 .. Far,
           NEW t, At(f, o, ObjectBytes(k, d, e))
    PROVE  HandledAt(f, o, ObjectBytes(k, d, e), t, Adds(k, d, e, t))
<1> DEFINE T == TimePart(e)
           Y == <<TypeString>>
           K == StringBytes(k)
           V == StringBytes(d)
           B == ObjectBytes(k, d, e)
<1>0. Byte \subseteq Nat /\ k \in Seq(Nat) /\ d \in Seq(Nat)
  BY DEF Byte, Strings
<1>1. T \in Seq(Nat) /\ K \in Seq(Nat) /\ V \in Seq(Nat) /\ LittleEndian8(e) \in Seq(Nat) /\ Len(LittleEndian8(e)) = 8
  BY <1>0, TimeCalls, StringCalls
<1>2. Y \in Seq(Nat) /\ Len(Y) = 1 /\ Y[1] = 0
  BY DEF TypeString
<1>3. B = ((T \o Y) \o K) \o V
  BY DEF ObjectBytes
<1> HIDE DEF T, Y, K, V, B
<1>4. At(f, o, ((T \o Y) \o K) \o V)
  BY <1>3 DEF B
<1>5. /\ At(f, o, T) /\ At(f, o + Len(T), Y) /\ At(f, (o + Len(T)) + Len(Y), K)
      /\ At(f, ((o + Len(T)) + Len(Y)) + Len(K), V)
      /\ Behind(o, B) = Behind(((o + Len(T)) + Len(Y)) + Len(K), V)
  <2>1. T \in Seq(Nat) /\ Y \in Seq(Nat) /\ K \in Seq(Nat) /\ V \in Seq(Nat)
    BY <1>1, <1>2
  <2>2. /\ At(f, o, T) /\ At(f, o + Len(T), Y) /\ At(f, (o + Len(T)) + Len(Y), K)
        /\ At(f, ((o + Len(T)) + Len(Y)) + Len(K), V)
        /\ Behind(o, ((T \o Y) \o K) \o V) = Behind(((o + Len(T)) + Len(Y)) + Len(K), V)
    BY <1>4, <2>1, AtFour
  <2> QED
    BY <1>3, <2>2, Zenon
<1>6. PICK q \in Nat : q = (o + Len(T)) + Len(Y)
  BY <1>1, <1>2
<1>7. \A x : handleObject(f, q + 1, x, t) = Read(Adds(k, d, x, t), Behind(o, B))
  <2> TAKE x
  <2>1. At(f, q, StringBytes(k)) /\ At(f, q + Len(StringBytes(k)), StringBytes(d))
    BY <1>5, <1>6 DEF K, V
  <2>2. handleObject(f, q + 1, x, t) = Read(Adds(k, d, x, t), Behind(q + Len(StringBytes(k)), StringBytes(d)))
    BY <2>1, ObjectRead
  <2> QED
    BY <1>5, <1>6, <2>2 DEF K, V
<1>8. CASE e = 0
  <2>1. T = <<>>
    BY <1>8 DEF T, TimePart
  <2>2. q = o + 1 /\ o + Len(T) = o
    BY <1>2, <1>6, <2>1
  <2>3. f[o + 1] = 0 /\ o + 1 <= Len(f)
    <3>1. At(f, o, Y)
      BY <1>5, <2>2
    <3> QED
      BY <1>2, <3>1 DEF At
  <2>4. handleRecord(f, o + 1, t) = handleObject(f, (o + 1) + 1, 0, t)
    BY <2>3, SMT DEF handleRecord, AuxiliaryField, SelectDB, ResizeDB, Expiry, ExpiryMS, TypeString
  <2>5. f[o + 1] # MarkerEOF
    BY <2>3 DEF MarkerEOF
  <2> QED
    BY <1>7, <1>8, <2>2, <2>3, <2>4, <2>5 DEF HandledAt, B
<1>9. CASE e # 0
  <2> DEFINE M == <<ExpiryMS>>
             L == LittleEndian8(e)
  <2>1. M \in Seq(Nat) /\ Len(M) = 1 /\ M[1] = 252
    BY DEF ExpiryMS
  <2>2. T = M \o L
    BY <1>9 DEF T, TimePart
  <2> HIDE DEF M
  <2>3. At(f, o, M) /\ At(f, o + Len(M), L) /\ Len(T) = Len(M) + Len(L)
    <3>1. M \in Seq(Nat) /\ L \in Seq(Nat) /\ At(f, o, M \o L)
      BY <1>1, <1>5, <2>1, <2>2
    <3> HIDE DEF L
    <3>2. At(f, o, M) /\ At(f, o + Len(M), L) /\ Len(M \o L) = Len(M) + Len(L)
      BY <3>1, AtJoined, Joined
    <3> QED
      BY <2>2, <3>2, Zenon
  <2>4. f[o + 1] = 252 /\ o + 1 <= Len(f)
    BY <2>1, <2>3 DEF At
  <2>5. PICK p \in Nat : p = o + 1
    OBVIOUS
  <2>6. o + Len(M) = p /\ o + Len(T) = p + 8 /\ q = p + 9
    BY <1>1, <1>2, <1>6, <2>1, <2>3, <2>5
  <2>7. At(f, p, LittleEndian8(e)) /\ At(f, p + 8, <<TypeString>>)
    BY <1>5, <2>3, <2>6 DEF Y
  <2>8. handleExpiryTime(f, p + 1, 8, t) = handleObject(f, (p + 9) + 1, e, t)
    BY <2>7, TimeRead
  <2>9. handleRecord(f, p, t) = handleExpiryTime(f, p + 1, 8, t)
    BY <2>4, <2>5, SMT DEF handleRecord, AuxiliaryField, SelectDB, ResizeDB, Expiry, ExpiryMS, TypeString
  <2>10. f[o + 1] # MarkerEOF
    BY <2>4 DEF MarkerEOF
  <2>11. handleRecord(f, o + 1, t) = Read(Adds(k, d, e, t), Behind(o, B))
    BY <1>7, <2>5, <2>6, <2>8, <2>9
  <2> QED
    BY <2>4, <2>10, <2>11 DEF HandledAt, B
<1> QED
  BY <1>8, <1>9

(***************************************************************************)
(* The beginning of a file.                                                *)
(***************************************************************************)
\* The fields and the number of the database that follow the magic bytes.
Fields == <<AuxiliaryField, 1, 97, 192, 0, SelectDB, 0>>
HeaderBytes == Magic \o Fields
LeadBytes(m, n) == ((HeaderBytes \o <<ResizeDB>>) \o LengthBytes(m)) \o LengthBytes(n)

\* They are numbers.
LEMMA HeaderType ==
    /\ Magic \in Seq(Byte) /\ Len(Magic) = 9 /\ Fields \in Seq(Byte) /\ Len(Fields) = 7
    /\ HeaderBytes \in Seq(Byte) /\ Len(HeaderBytes) = 16
<1>1. Magic \in Seq(Byte) /\ Len(Magic) = 9
  BY DEF Magic, Byte
<1>2. Fields \in Seq(Byte) /\ Len(Fields) = 7
  BY DEF Fields, Byte, AuxiliaryField, SelectDB
<1>3. HeaderBytes \in Seq(Byte) /\ Len(HeaderBytes) = Len(Magic) + Len(Fields)
  BY <1>1, <1>2, Joined DEF HeaderBytes
<1> QED
  BY <1>1, <1>2, <1>3

\* The bytes at the beginning.
HeaderAt(f) ==
    /\ Has(f, 1, 9) /\ 17 <= Len(f) /\ SubSeq(f, 1, 5) = SubSeq(Magic, 1, 5)
    /\ f[10] = AuxiliaryField /\ f[11] = 1 /\ f[12] = 97 /\ f[13] = 192 /\ f[14] = 0
    /\ f[15] = SelectDB /\ f[16] = 0 /\ f[17] = ResizeDB

\* As the saver writes them.
LEMMA HeaderFound ==
    ASSUME NEW f \in Seq(Nat), At(f, 0, HeaderBytes), At(f, 16, <<ResizeDB>>)
    PROVE  HeaderAt(f)
<1>0. Byte \subseteq Nat
  BY DEF Byte
<1>1. Magic \in Seq(Nat) /\ Fields \in Seq(Nat) /\ Len(Magic) = 9
  BY <1>0, HeaderType, SeqMonotonic
<1>2. At(f, 0, Magic) /\ At(f, 0 + Len(Magic), Fields)
  <2>1. 0 \in Nat /\ At(f, 0, Magic \o Fields)
    BY DEF HeaderBytes
  <2>2. Magic \in Seq(Nat) /\ Fields \in Seq(Nat)
    BY <1>1
  <2> QED
    BY <2>1, <2>2, AtJoined
<1>3. At(f, 9, Fields)
  BY <1>1, <1>2
<1>4. /\ f[10] = AuxiliaryField /\ f[11] = 1 /\ f[12] = 97 /\ f[13] = 192 /\ f[14] = 0
      /\ f[15] = SelectDB /\ f[16] = 0
  <2>1. Len(Fields) = 7 /\ Fields[1] = AuxiliaryField /\ Fields[2] = 1 /\ Fields[3] = 97 /\ Fields[4] = 192
        /\ Fields[5] = 0 /\ Fields[6] = SelectDB /\ Fields[7] = 0
    BY DEF Fields
  <2>2. \A j \in 1 .. 7 : f[9 + j] = Fields[j]
    BY <1>3, <2>1 DEF At
  <2>3. 9 + 1 = 10 /\ 9 + 2 = 11 /\ 9 + 3 = 12 /\ 9 + 4 = 13 /\ 9 + 5 = 14 /\ 9 + 6 = 15 /\ 9 + 7 = 16
        /\ 1 \in 1 .. 7 /\ 2 \in 1 .. 7 /\ 3 \in 1 .. 7 /\ 4 \in 1 .. 7 /\ 5 \in 1 .. 7 /\ 6 \in 1 .. 7 /\ 7 \in 1 .. 7
    OBVIOUS
  <2>4. f[9 + 1] = Fields[1] /\ f[9 + 2] = Fields[2] /\ f[9 + 3] = Fields[3] /\ f[9 + 4] = Fields[4]
        /\ f[9 + 5] = Fields[5] /\ f[9 + 6] = Fields[6] /\ f[9 + 7] = Fields[7]
    BY <2>2, <2>3, Zenon
  <2> QED
    BY <2>1, <2>3, <2>4
<1>5. f[17] = ResizeDB /\ 17 <= Len(f)
  <2> DEFINE q == <<ResizeDB>>
  <2>1. Len(q) = 1 /\ q[1] = ResizeDB /\ At(f, 16, q)
    OBVIOUS
  <2> HIDE DEF q
  <2>2. 16 + 1 <= Len(f) /\ f[16 + 1] = q[1]
    BY <2>1 DEF At
  <2> QED
    BY <2>1, <2>2
<1>6. \A j \in 1 .. 9 : f[j] = Magic[j]
  <2>1. \A j \in 1 .. 9 : f[0 + j] = Magic[j]
    BY <1>1, <1>2 DEF At
  <2> TAKE j \in 1 .. 9
  <2>2. 0 + j = j
    OBVIOUS
  <2> QED
    BY <2>1, <2>2, Zenon
<1>7. Has(f, 1, 9)
  BY <1>5 DEF Has
<1>8. SubSeq(f, 1, 5) = SubSeq(Magic, 1, 5)
  <2> DEFINE u == SubSeq(f, 1, 5)
             v == SubSeq(Magic, 1, 5)
  <2>1. Len(f) \in Nat
    OBVIOUS
  <2>2. \A j \in 1 .. 5 : f[j] \in Nat
    <3> TAKE j \in 1 .. 5
    <3>1. j \in 1 .. Len(f)
      BY <1>5, <2>1
    <3> QED
      BY <3>1, ElementOfSeq
  <2>3. \A j \in 1 .. 5 : Magic[j] \in Nat
    <3> TAKE j \in 1 .. 5
    <3>1. j \in 1 .. 9
      OBVIOUS
    <3>2. f[j] = Magic[j]
      BY <1>6, <3>1
    <3> QED
      BY <2>2, <3>2, Zenon
  <2>4. u \in Seq(Nat) /\ Len(u) = IF 1 <= 5 THEN 5 - 1 + 1 ELSE 0
    BY <2>2, SubSeqProperties
  <2>5. \A j \in 1 .. 5 - 1 + 1 : u[j] = f[1 + j - 1]
    BY <2>2, SubSeqProperties
  <2>6. v \in Seq(Nat) /\ Len(v) = IF 1 <= 5 THEN 5 - 1 + 1 ELSE 0
    BY <2>3, SubSeqProperties
  <2>7. \A j \in 1 .. 5 - 1 + 1 : v[j] = Magic[1 + j - 1]
    BY <2>3, SubSeqProperties
  <2> HIDE DEF u, v
  <2>8. \A j \in 1 .. 5 : u[j] = v[j]
    <3> TAKE j \in 1 .. 5
    <3>1. j \in 1 .. 5 - 1 + 1 /\ 1 + j - 1 = j /\ j \in 1 .. 9
      OBVIOUS
    <3> QED
      BY <1>6, <2>5, <2>7, <3>1
  <2>9. Len(u) = 5 /\ Len(v) = 5
    BY <2>4, <2>6
  <2> QED
    BY <2>4, <2>6, <2>8, <2>9, SeqEqual DEF u, v
<1> QED
  BY <1>4, <1>5, <1>7, <1>8 DEF HeaderAt

\* The auxiliary field and the number of the database are read.
LEMMA HeaderRead ==
    ASSUME NEW f \in Seq(Nat), NEW t, HeaderAt(f)
    PROVE  handleRecord(f, 10, t) = Read(Empty, 15) /\ handleRecord(f, 15, t) = Read(Empty, 17)
<1>0. /\ f[10] = 250 /\ f[11] = 1 /\ f[12] = 97 /\ f[13] = 192 /\ f[14] = 0 /\ f[15] = 254 /\ f[16] = 0
      /\ 17 <= Len(f) /\ Len(f) \in Nat
  BY DEF HeaderAt, AuxiliaryField, SelectDB
<1>1. AreBytes(f, 11, 1) /\ AreBytes(f, 13, 1) /\ AreBytes(f, 14, 1) /\ AreBytes(f, 16, 1)
  <2>1. ASSUME NEW i \in {11, 13, 14, 16} PROVE AreBytes(f, i, 1)
    <3>1. i \in Nat \ {0} /\ i <= Len(f)
      BY <1>0, <2>1, SMTT(30)
    <3>2. f[i] <= 255
      BY <1>0, <2>1, SMTT(30)
    <3> QED
      BY <3>1, <3>2, ByteAt
  <2> QED
    BY <2>1
<1>2. readLength(f, 11) = Read(1, 12)
  BY <1>0, <1>1 DEF readLength
<1>3. readLength(f, 16) = Read(0, 17)
  BY <1>0, <1>1 DEF readLength
<1>4. PICK x : readString(f, 11) = Read(x, 13)
  <2>1. Has(f, 12, 1)
    BY <1>0 DEF Has
  <2>2. readBytes(f, 12, 1) = Read(SubSeq(f, 12, 12 + 1 - 1), 13)
    BY <2>1 DEF readBytes
  <2>3. readLength(f, 11).ok /\ ~readLength(f, 11).special /\ readLength(f, 11).val = 1 /\ readLength(f, 11).at = 12
    BY <1>2, ReadFields
  <2>4. readString(f, 11) = readBytes(f, 12, 1)
    BY <2>3 DEF readString, StringOfLength
  <2> QED
    BY <2>2, <2>4
<1>5. PICK y : readString(f, 13) = Read(y, 15)
  <2>1. readLength(f, 13) = [ok |-> TRUE, val |-> 0, special |-> TRUE, at |-> 14]
    BY <1>0, <1>1 DEF readLength
  <2>2. readString(f, 13) = Read(Decimal[Unsigned(f, 14, 1)], 15)
    BY <1>1, <2>1 DEF readString, StringOfLength
  <2> QED
    BY <2>2
<1>6. StringAfter(f, readString(f, 11)) = Read(y, 15)
  BY <1>4, <1>5, ReadFields DEF StringAfter
<1>7. Keep(Read(y, 15)) = Read(Empty, 15) /\ Keep(Read(0, 17)) = Read(Empty, 17)
  BY ReadFields DEF Keep
<1>8. handleRecord(f, 10, t) = Keep(StringAfter(f, readString(f, 11)))
  BY <1>0, SMT DEF handleRecord, handlerAuxiliaryField, AuxiliaryField, SelectDB, ResizeDB, Expiry, ExpiryMS, TypeString
<1>9. handleRecord(f, 15, t) = Keep(readLength(f, 16))
  BY <1>0, SMT DEF handleRecord, handleSelectDB, AuxiliaryField, SelectDB, ResizeDB, Expiry, ExpiryMS, TypeString
<1> QED
  BY <1>3, <1>6, <1>7, <1>8, <1>9

\* The two lengths of ResizeDB are read.
LEMMA ResizeRead ==
    ASSUME NEW f \in Seq(Nat), NEW t, HeaderAt(f), NEW m \in Nat, NEW n \in Nat,
           At(f, 17, LengthBytes(m)), At(f, 17 + Len(LengthBytes(m)), LengthBytes(n))
    PROVE  handleRecord(f, 17, t) = Read(Empty, Behind(17 + Len(LengthBytes(m)), LengthBytes(n)))
<1>1. LengthOf(f, 17, m)
  BY LengthRead
<1>2. PICK l \in Nat : l = Len(LengthBytes(m))
  BY <1>1 DEF LengthOf
<1>3. PICK x : readLength(f, 18) = Read(x, 17 + l + 1)
  BY <1>1, <1>2 DEF LengthOf
<1>4. LengthOf(f, 17 + l, n)
  <2>1. 17 + l \in Nat /\ At(f, 17 + l, LengthBytes(n))
    BY <1>2
  <2> QED
    BY <2>1, LengthRead
<1>5. PICK y : readLength(f, 17 + l + 1) = Read(y, Behind(17 + l, LengthBytes(n)))
  BY <1>4 DEF LengthOf, Behind
<1>6. LengthAfter(f, readLength(f, 18)) = Read(y, Behind(17 + l, LengthBytes(n)))
  BY <1>3, <1>5, ReadFields DEF LengthAfter
<1>7. \A b : Keep(Read(y, b)) = Read(Empty, b)
  BY ReadFields DEF Keep
<1>8. handleRecord(f, 17, t) = Keep(LengthAfter(f, readLength(f, 18)))
  <2>1. f[17] = 251
    BY DEF HeaderAt, ResizeDB
  <2> QED
    BY <2>1, SMT DEF handleRecord, handleResizeDB, AuxiliaryField, SelectDB, ResizeDB, Expiry, ExpiryMS, TypeString
<1> QED
  BY <1>2, <1>6, <1>7, <1>8, Zenon

(***************************************************************************)
(* The layout of a file.                                                   *)
(***************************************************************************)
\* Each sequence of calls, flattened.
MapFlat(E) == [i \in 1 .. Len(E) |-> FlattenSeq(E[i])]

\* One more.
LEMMA MapFlatAppend ==
    ASSUME NEW S, NEW G \in Seq(Seq(Seq(S))), NEW x \in Seq(Seq(S))
    PROVE  MapFlat(G) \in Seq(Seq(S)) /\ MapFlat(Append(G, x)) = Append(MapFlat(G), FlattenSeq(x))
<1> DEFINE F == Append(G, x)
<1>1. F \in Seq(Seq(Seq(S))) /\ Len(F) = Len(G) + 1 /\ F[Len(G) + 1] = x /\ (\A i \in 1 .. Len(G) : F[i] = G[i])
      /\ Len(G) \in Nat
  BY AppendProperties
<1>2. PICK l \in Nat : l = Len(G)
  BY <1>1
<1>3. \A i \in 1 .. l : FlattenSeq(G[i]) \in Seq(S)
  <2> TAKE i \in 1 .. l
  <2>1. G[i] \in Seq(Seq(S))
    BY <1>2, ElementOfSeq
  <2> QED
    BY <2>1, FlatType
<1>4. FlattenSeq(x) \in Seq(S)
  BY FlatType
<1> DEFINE a == MapFlat(G)
           b == MapFlat(F)
           c == Append(a, FlattenSeq(x))
<1>5. a \in Seq(Seq(S)) /\ Len(a) = l /\ \A i \in 1 .. l : a[i] = FlattenSeq(G[i])
  BY <1>2, <1>3 DEF MapFlat
<1> HIDE DEF F
<1>6. \A i \in 1 .. l + 1 : b[i] = FlattenSeq(F[i]) /\ (i \in 1 .. l \/ i = l + 1)
  BY <1>1, <1>2 DEF MapFlat
<1>7. \A i \in 1 .. l + 1 : FlattenSeq(F[i]) = IF i = l + 1 THEN FlattenSeq(x) ELSE FlattenSeq(G[i])
  BY <1>1, <1>2, <1>6
<1>8. \A i \in 1 .. l + 1 : b[i] \in Seq(S)
  BY <1>3, <1>4, <1>6, <1>7
<1>9. b \in Seq(Seq(S)) /\ Len(b) = l + 1
  BY <1>1, <1>2, <1>8 DEF MapFlat
<1> HIDE DEF a, b
<1>10. c \in Seq(Seq(S)) /\ Len(c) = l + 1 /\ c[l + 1] = FlattenSeq(x) /\ \A i \in 1 .. l : c[i] = a[i]
  BY <1>4, <1>5, AppendProperties
<1> HIDE DEF c
<1>11. \A i \in 1 .. l + 1 : b[i] = c[i]
  BY <1>5, <1>6, <1>7, <1>10
<1>12. b = c
  BY <1>9, <1>10, <1>11, SeqEqual
<1> QED
  BY <1>5, <1>12 DEF a, b, c, F

\* Flattened twice.
LEMMA FlatFlat ==
    ASSUME NEW S
    PROVE  \A E \in Seq(Seq(Seq(S))) : FlattenSeq(FlattenSeq(E)) = FlattenSeq(MapFlat(E))
<1> DEFINE Bad(E) == FlattenSeq(FlattenSeq(E)) # FlattenSeq(MapFlat(E))
           T == {n \in Nat : \E E \in Seq(Seq(Seq(S))) : Len(E) = n /\ Bad(E)}
<1> SUFFICES ASSUME T # {} PROVE FALSE
  <2>1. \A E \in Seq(Seq(Seq(S))) : Bad(E) => Len(E) \in T
    OBVIOUS
  <2> QED
    BY <2>1
<1>1. PICK n \in T : \A m \in T : n <= m
  BY Least
<1>2. PICK E \in Seq(Seq(Seq(S))) : Len(E) = n /\ Bad(E)
  BY <1>1
<1>3. CASE E = <<>>
  <2>1. MapFlat(<<>>) = <<>>
    BY DEF MapFlat
  <2> QED
    BY <1>2, <1>3, <2>1, FlatEmpty
<1>4. CASE E # <<>>
  <2>1. PICK G \in Seq(Seq(Seq(S))), x \in Seq(Seq(S)) : E = Append(G, x)
    BY <1>4, SequenceEmptyOrAppend
  <2>2. Len(E) = Len(G) + 1 /\ Len(G) \in Nat
    BY <2>1, AppendProperties
  <2>3. ~(n <= Len(G))
    BY <1>2, <2>2
  <2>4. FlattenSeq(FlattenSeq(G)) = FlattenSeq(MapFlat(G))
    BY <1>1, <2>2, <2>3, Zenon
  <2>5. FlattenSeq(E) = FlattenSeq(G) \o x
    BY <2>1, FlatAppend
  <2>6. FlattenSeq(G) \in Seq(Seq(S)) /\ FlattenSeq(x) \in Seq(S)
    BY FlatType
  <2>7. FlattenSeq(FlattenSeq(G) \o x) = FlattenSeq(FlattenSeq(G)) \o FlattenSeq(x)
    BY <2>6, FlatConcat
  <2>8. MapFlat(G) \in Seq(Seq(S)) /\ MapFlat(E) = Append(MapFlat(G), FlattenSeq(x))
    BY <2>1, MapFlatAppend
  <2>9. FlattenSeq(MapFlat(E)) = FlattenSeq(MapFlat(G)) \o FlattenSeq(x)
    BY <2>6, <2>8, FlatAppend
  <2> QED
    BY <1>2, <2>4, <2>5, <2>7, <2>9, Zenon
<1> QED
  BY <1>3, <1>4

\* An order of the keys has each of them.
OrderOf(D, order) ==
    /\ order \in Seq(DOMAIN D) /\ Len(order) \in Nat
    /\ \A k \in DOMAIN D : \E i \in 1 .. Len(order) : order[i] = k

\* The map's iteration.
LEMMA OrderIs ==
    ASSUME NEW D, IsFiniteSet(DOMAIN D), NEW order \in SetToSeqs(DOMAIN D)
    PROVE  OrderOf(D, order)
<1> DEFINE n == Cardinality(DOMAIN D)
<1>1. n \in Nat
  BY FS_CardinalityType
<1>2. order \in [1 .. n -> DOMAIN D] /\ \A i, j \in 1 .. n : i # j => order[i] # order[j]
  BY DEF SetToSeqs
<1>3. Cardinality(1 .. n) = n
  <2>1. 1 \in Int /\ n \in Int /\ (IF 1 > n THEN 0 ELSE n - 1 + 1) = n
    BY <1>1
  <2>2. Cardinality(1 .. n) = IF 1 > n THEN 0 ELSE n - 1 + 1
    BY <2>1, FS_Interval
  <2> QED
    BY <2>1, <2>2
<1> HIDE DEF n
<1>4. order \in Injection(1 .. n, DOMAIN D)
  BY <1>2 DEF Injection, IsInjective
<1>5. order \in Surjection(1 .. n, DOMAIN D)
  BY <1>3, <1>4, FS_Injection DEF n
<1>6. order \in Seq(DOMAIN D) /\ Len(order) = n
  BY <1>1, <1>2
<1> QED
  BY <1>1, <1>5, <1>6 DEF OrderOf, Surjection

\* The fields of a value.
StringWith(S, v) ==
    /\ v.type = "string" /\ v.data \in Strings(S) /\ v.expiry \in 0 .. Far
    /\ v = String(v.data, v.expiry)

\* It is a stream or a string.
LEMMA ValueIs ==
    ASSUME NEW S, NEW v, IsValue(S, v)
    PROVE  /\ v.type \in {"string", "stream"} /\ (v.type = "stream" => v = Stream)
           /\ v.type = "string" => StringWith(S, v)
<1>1. CASE v = Stream
  <2>1. v.type = "stream"
    BY <1>1 DEF Stream
  <2> QED
    BY <1>1, <2>1
<1>2. CASE \E d \in Strings(S), e \in 0 .. Far : v = String(d, e)
  <2>1. PICK d \in Strings(S), e \in 0 .. Far : v = String(d, e)
    BY <1>2
  <2>2. v.type = "string" /\ v.data = d /\ v.expiry = e
    BY <2>1 DEF String
  <2> QED
    BY <2>1, <2>2 DEF StringWith
<1> QED
  BY <1>1, <1>2 DEF IsValue

\* The first stream, or one past the end.
FirstIs(D, order, n) ==
    /\ n \in 1 .. Len(order) + 1
    /\ n <= Len(order) => D[order[n]].type = "stream"
    /\ \A i \in 1 .. n - 1 : D[order[i]].type = "string"

\* There is one.
LEMMA FirstStreamIs ==
    ASSUME NEW S, NEW D, IsData(S, D), NEW order, OrderOf(D, order)
    PROVE  FirstIs(D, order, FirstStream(D, order))
<1> DEFINE U == {i \in 1 .. Len(order) : D[order[i]].type = "stream"}
<1>0. Len(order) \in Nat /\ order \in Seq(DOMAIN D)
  BY DEF OrderOf
<1>1. \A i \in 1 .. Len(order) : D[order[i]].type \in {"string", "stream"}
  <2> TAKE i \in 1 .. Len(order)
  <2>1. order[i] \in DOMAIN D
    BY <1>0, ElementOfSeq
  <2>2. IsValue(S, D[order[i]])
    BY <2>1, Zenon DEF IsData
  <2> QED
    BY <2>2, ValueIs
<1>2. \E n : FirstIs(D, order, n)
  <2>1. CASE U = {}
    <3>1. Len(order) + 1 \in 1 .. Len(order) + 1 /\ ~(Len(order) + 1 <= Len(order)) /\ (Len(order) + 1) - 1 = Len(order)
      BY <1>0
    <3>2. \A i \in 1 .. Len(order) : D[order[i]].type = "string"
      BY <1>1, <2>1
    <3>3. FirstIs(D, order, Len(order) + 1)
      BY <3>1, <3>2 DEF FirstIs
    <3> QED
      BY <3>3
  <2>2. CASE U # {}
    <3>1. U \subseteq Nat
      BY <1>0
    <3>2. PICK n \in U : \A i \in U : n <= i
      BY <2>2, <3>1, Least
    <3>3. n \in 1 .. Len(order) + 1 /\ D[order[n]].type = "stream"
      BY <1>0, <3>2
    <3>4. ASSUME NEW i \in 1 .. n - 1 PROVE D[order[i]].type = "string"
      <4>1. i \in 1 .. Len(order) /\ ~(n <= i)
        BY <1>0, <3>3, <3>4
      <4>2. i \notin U
        BY <3>2, <4>1, Zenon
      <4> QED
        BY <1>1, <4>1, <4>2
    <3>5. FirstIs(D, order, n)
      BY <3>3, <3>4 DEF FirstIs
    <3> QED
      BY <3>5
  <2> QED
    BY <2>1, <2>2
<1> QED
  BY <1>2 DEF FirstStream, FirstIs

\* The bytes of the keys that are saved, and of the end.
Objects(D, order) ==
    [i \in 1 .. FirstStream(D, order) - 1 |-> ObjectBytes(order[i], D[order[i]].data, D[order[i]].expiry)]
TailBytes(D, order) == IF FirstStream(D, order) > Len(order) THEN <<MarkerEOF>> ELSE <<>>
Lead(D) == LeadBytes(Cardinality(DOMAIN D), Cardinality({k \in DOMAIN D : D[k].expiry > 0}))

\* A file is the lead, the keys and the end.
LaidOut(S, D, order) ==
    /\ SaveRDB(D, order) \in Seq(Seq(S)) /\ Objects(D, order) \in Seq(Seq(S)) /\ Lead(D) \in Seq(S)
    /\ TailBytes(D, order) \in Seq(S)
    /\ FlattenSeq(SaveRDB(D, order)) = (Lead(D) \o FlattenSeq(Objects(D, order))) \o TailBytes(D, order)

\* The keys that are saved are strings.
LEMMA SavedString ==
    ASSUME NEW S, NEW D, IsData(S, D), NEW order, OrderOf(D, order), NEW i \in 1 .. FirstStream(D, order) - 1
    PROVE  i \in 1 .. Len(order) /\ order[i] \in DOMAIN D /\ order[i] \in Strings(S) /\ StringWith(S, D[order[i]])
<1> DEFINE n == FirstStream(D, order)
<1>1. FirstIs(D, order, n)
  BY FirstStreamIs
<1> HIDE DEF n
<1>2. n \in 1 .. Len(order) + 1 /\ Len(order) \in Nat /\ i \in 1 .. n - 1
  BY <1>1 DEF FirstIs, OrderOf, n
<1>3. i \in 1 .. Len(order)
  BY <1>2
<1>4. order[i] \in DOMAIN D
  BY <1>3, ElementOfSeq DEF OrderOf
<1>5. order[i] \in Strings(S) /\ IsValue(S, D[order[i]])
  BY <1>4, Zenon DEF IsData
<1>6. D[order[i]].type = "string"
  BY <1>1, <1>2 DEF FirstIs
<1> QED
  BY <1>3, <1>4, <1>5, <1>6, ValueIs

\* The lead.
LEMMA LeadType ==
    ASSUME NEW S, Byte \subseteq S, NEW m \in Nat, NEW n \in Nat
    PROVE  /\ HeaderBytes \in Seq(S) /\ <<ResizeDB>> \in Seq(S) /\ LeadBytes(m, n) \in Seq(S)
           /\ LET C == ((writeHeader \o <<<<ResizeDB>>>>) \o writeLength(m)) \o writeLength(n)
              IN  C \in Seq(Seq(S)) /\ FlattenSeq(C) = LeadBytes(m, n)
<1> DEFINE A == writeHeader
           B == <<<<ResizeDB>>>>
           X == writeLength(m)
           Y == writeLength(n)
<1>1. HeaderBytes \in Seq(S)
  BY HeaderType, SeqMonotonic
<1>2. ResizeDB \in Byte
  BY DEF ResizeDB, Byte
<1>3. <<ResizeDB>> \in Seq(S)
  BY <1>2
<1>4. writeHeader = <<HeaderBytes>>
  BY DEF writeHeader, HeaderBytes, Fields
<1>5. A \in Seq(Seq(S)) /\ B \in Seq(Seq(S))
  BY <1>1, <1>3, <1>4
<1>6. FlattenSeq(A) = HeaderBytes
  BY <1>1, <1>4, FlatOne, Zenon
<1>7. FlattenSeq(B) = <<ResizeDB>>
  BY <1>3, FlatOne, Zenon
<1>8. X \in Seq(Seq(S)) /\ Y \in Seq(Seq(S))
  BY LengthIn
<1>9. FlattenSeq(X) = LengthBytes(m) /\ FlattenSeq(Y) = LengthBytes(n)
  BY DEF LengthBytes
<1> HIDE DEF A, B, X, Y
<1>10. /\ FlatIs(S, A, HeaderBytes) /\ FlatIs(S, B, <<ResizeDB>>)
       /\ FlatIs(S, X, LengthBytes(m)) /\ FlatIs(S, Y, LengthBytes(n))
  BY <1>5, <1>6, <1>7, <1>8, <1>9, Zenon DEF FlatIs
<1>11. FlatIs(S, (A \o B) \o X, (HeaderBytes \o <<ResizeDB>>) \o LengthBytes(m))
  BY <1>10, FlatJoin, Zenon
<1>12. ((A \o B) \o X) \o Y \in Seq(Seq(S)) /\ FlattenSeq(((A \o B) \o X) \o Y) = LeadBytes(m, n)
  <2>1. FlatIs(S, ((A \o B) \o X) \o Y, LeadBytes(m, n))
    BY <1>10, <1>11, FlatJoin, Zenon DEF LeadBytes
  <2> QED
    BY <2>1, Zenon DEF FlatIs
<1>13. LeadBytes(m, n) \in Seq(S)
  BY <1>12, FlatType, Zenon
<1> QED
  BY <1>1, <1>3, <1>12, <1>13 DEF A, B, X, Y

\* How many keys there are, and how many with an expiry.
LEMMA Counts ==
    ASSUME NEW S, NEW D, IsData(S, D)
    PROVE  Cardinality(DOMAIN D) \in Nat /\ Cardinality({k \in DOMAIN D : D[k].expiry > 0}) \in Nat
<1>1. IsFiniteSet(DOMAIN D)
  BY DEF IsData
<1>2. {k \in DOMAIN D : D[k].expiry > 0} \in SUBSET DOMAIN D
  OBVIOUS
<1>3. IsFiniteSet({k \in DOMAIN D : D[k].expiry > 0})
  BY <1>1, <1>2, FS_Subset
<1> QED
  BY <1>1, <1>3, FS_CardinalityType

\* What SaveRDB writes.
LEMMA Layout ==
    ASSUME NEW S, Byte \subseteq S, NEW D, IsData(S, D), NEW order, OrderOf(D, order)
    PROVE  LaidOut(S, D, order)
<1> DEFINE n == FirstStream(D, order)
           E == [i \in 1 .. n - 1 |-> writeObject(order[i], D[order[i]])]
           O == FlattenSeq(E)
           m == Cardinality(DOMAIN D)
           x == Cardinality({k \in DOMAIN D : D[k].expiry > 0})
           C == ((writeHeader \o <<<<ResizeDB>>>>) \o writeLength(m)) \o writeLength(x)
           Z == IF n > Len(order) THEN <<<<MarkerEOF>>>> ELSE <<>>
<1>1. SaveRDB(D, order) = (C \o O) \o Z
  BY DEF SaveRDB
<1>2. m \in Nat /\ x \in Nat
  BY Counts
<1> HIDE DEF m, x
<1>3. C \in Seq(Seq(S)) /\ FlattenSeq(C) = LeadBytes(m, x) /\ LeadBytes(m, x) \in Seq(S)
  BY <1>2, LeadType
<1>4. n - 1 \in Nat
  <2>1. FirstIs(D, order, n)
    BY FirstStreamIs
  <2> HIDE DEF n
  <2>2. n \in 1 .. Len(order) + 1 /\ Len(order) \in Nat
    BY <2>1 DEF FirstIs, OrderOf
  <2> QED
    BY <2>2
<1>5. \A i \in 1 .. n - 1 : /\ writeObject(order[i], D[order[i]]) \in Seq(Seq(S))
                            /\ FlattenSeq(writeObject(order[i], D[order[i]])) = ObjectBytes(order[i], D[order[i]].data, D[order[i]].expiry)
                            /\ ObjectBytes(order[i], D[order[i]].data, D[order[i]].expiry) \in Seq(S)
  <2> TAKE i \in 1 .. n - 1
  <2>1. order[i] \in Strings(S) /\ StringWith(S, D[order[i]])
    BY SavedString
  <2>2. PICK k, v : k = order[i] /\ v = D[order[i]]
    OBVIOUS
  <2>3. PICK d, e : d = v.data /\ e = v.expiry
    OBVIOUS
  <2>4. k \in Seq(S) /\ d \in Seq(S) /\ e \in 0 .. Far /\ v = String(d, e)
    BY <2>1, <2>2, <2>3 DEF Strings, StringWith
  <2>5. /\ writeObject(k, String(d, e)) \in Seq(Seq(S)) /\ FlattenSeq(writeObject(k, String(d, e))) = ObjectBytes(k, d, e)
        /\ ObjectBytes(k, d, e) \in Seq(S)
    BY <2>4, ObjectCalls
  <2> QED
    BY <2>2, <2>3, <2>4, <2>5, Zenon
<1> HIDE DEF n
<1>6. E \in Seq(Seq(Seq(S))) /\ Len(E) = n - 1 /\ \A i \in 1 .. n - 1 : E[i] = writeObject(order[i], D[order[i]])
  BY <1>4, <1>5
<1>7. MapFlat(E) = Objects(D, order)
  BY <1>5, <1>6 DEF MapFlat, Objects, n
<1>8. Objects(D, order) \in Seq(Seq(S))
  <2> DEFINE Q(i) == ObjectBytes(order[i], D[order[i]].data, D[order[i]].expiry)
  <2>1. \A i \in 1 .. n - 1 : Q(i) \in Seq(S)
    BY <1>5
  <2>2. Objects(D, order) = [i \in 1 .. n - 1 |-> Q(i)]
    BY DEF Objects, n
  <2> HIDE DEF Q
  <2>3. PICK l \in Nat : l = n - 1
    BY <1>4
  <2>4. [i \in 1 .. l |-> Q(i)] \in Seq(Seq(S))
    BY <2>1, <2>3
  <2> QED
    BY <2>2, <2>3, <2>4
<1> HIDE DEF E
<1>9. O \in Seq(Seq(S)) /\ FlattenSeq(O) = FlattenSeq(Objects(D, order))
  BY <1>6, <1>7, FlatType, FlatFlat
<1>10. Z \in Seq(Seq(S)) /\ FlattenSeq(Z) = TailBytes(D, order) /\ TailBytes(D, order) \in Seq(S)
  <2>1. MarkerEOF \in Byte
    BY DEF MarkerEOF, Byte
  <2>2. <<MarkerEOF>> \in Seq(S)
    BY <2>1
  <2>3. FlattenSeq(<<<<MarkerEOF>>>>) = <<MarkerEOF>>
    BY <2>2, FlatOne, Zenon
  <2>4. CASE n > Len(order)
    BY <2>2, <2>3, <2>4 DEF TailBytes, n
  <2>5. CASE ~(n > Len(order))
    BY <2>5, FlatEmpty DEF TailBytes, n
  <2> QED
    BY <2>4, <2>5
<1> HIDE DEF C, O, Z
<1>11. /\ FlatIs(S, C, LeadBytes(m, x)) /\ FlatIs(S, O, FlattenSeq(Objects(D, order)))
       /\ FlatIs(S, Z, TailBytes(D, order))
  BY <1>3, <1>9, <1>10, Zenon DEF FlatIs
<1>12. (C \o O) \o Z \in Seq(Seq(S))
       /\ FlattenSeq((C \o O) \o Z) = (LeadBytes(m, x) \o FlattenSeq(Objects(D, order))) \o TailBytes(D, order)
  <2>1. FlatIs(S, (C \o O) \o Z, (LeadBytes(m, x) \o FlattenSeq(Objects(D, order))) \o TailBytes(D, order))
    BY <1>11, FlatJoin, Zenon
  <2> QED
    BY <2>1, Zenon DEF FlatIs
<1> QED
  BY <1>1, <1>3, <1>8, <1>10, <1>12 DEF LaidOut, Lead, m, x

\* The ends of the parts are inside.
LEMMA EndsInside ==
    ASSUME NEW S, NEW E \in Seq(Seq(S)), NEW ends, EndsOf(ends, E)
    PROVE  \A k \in 0 .. Len(E) : ends[k] \in Nat /\ ends[k] <= Len(FlattenSeq(E))
<1>0. PICK l \in Nat : l = Len(E)
  OBVIOUS
<1>1. PICK z \in Nat : z = Len(FlattenSeq(E)) /\ ends[l] = z
  <2>1. FlattenSeq(E) \in Seq(S)
    BY FlatType
  <2>2. PICK z \in Nat : z = Len(FlattenSeq(E))
    BY <2>1
  <2> QED
    BY <1>0, <2>2 DEF EndsOf
<1>2. \A k \in 0 .. l : ends[k] \in Nat
  BY <1>0 DEF EndsOf
<1> DEFINE T == {n \in 0 .. l : ends[l - n] > z}
<1> SUFFICES ASSUME T # {} PROVE FALSE
  <2>1. ASSUME NEW k \in 0 .. l, ends[k] > z PROVE l - k \in T
    <3>1. l - k \in 0 .. l /\ l - (l - k) = k
      OBVIOUS
    <3> QED
      BY <2>1, <3>1
  <2>2. \A k \in 0 .. l : ~(ends[k] > z) => ends[k] <= z
    BY <1>2
  <2> QED
    BY <1>0, <1>1, <1>2, <2>1, <2>2
<1>3. T \subseteq Nat
  OBVIOUS
<1>4. PICK n \in T : \A x \in T : n <= x
  BY <1>3, Least
<1>5. n \in 0 .. l /\ ends[l - n] > z
  BY <1>4
<1>6. n # 0
  BY <1>1, <1>5
<1>7. n - 1 \in 0 .. l /\ ~(n <= n - 1) /\ l - (n - 1) = (l - n) + 1 /\ l - n \in 0 .. l
      /\ (l - n) + 1 \in 1 .. l /\ ((l - n) + 1) - 1 = l - n /\ (l - n) + 1 \in 0 .. l
  BY <1>5, <1>6
<1>8. n - 1 \notin T
  BY <1>4, <1>7, Zenon
<1>9. ~(ends[(l - n) + 1] > z)
  BY <1>7, <1>8
<1>10. PICK k \in 0 .. l, j \in 1 .. l : k = l - n /\ j = (l - n) + 1 /\ j - 1 = k /\ j \in 0 .. l
  BY <1>7
<1>11. ends[j] = ends[k] + Len(E[j])
  BY <1>0, <1>10 DEF EndsOf
<1>12. PICK y \in Nat : y = Len(E[j])
  <2>1. E[j] \in Seq(S)
    BY <1>0, ElementOfSeq
  <2> QED
    BY <2>1
<1>13. PICK u \in Nat, v \in Nat : u = ends[k] /\ v = ends[j]
  BY <1>2, <1>10
<1>14. v = u + y /\ ~(v > z) /\ u > z
  BY <1>5, <1>9, <1>10, <1>11, <1>12, <1>13
<1> QED
  BY <1>14

\* A part of what is there.
LEMMA AtPart ==
    ASSUME NEW f \in Seq(Nat), NEW o \in Nat, NEW E \in Seq(Seq(Nat)), At(f, o, FlattenSeq(E)),
           NEW ends, EndsOf(ends, E), NEW k \in 1 .. Len(E)
    PROVE  At(f, o + ends[k - 1], E[k]) /\ ends[k] = ends[k - 1] + Len(E[k])
<1> DEFINE F == FlattenSeq(E)
<1>1. F \in Seq(Nat) /\ E[k] \in Seq(Nat)
  BY FlatType, ElementOfSeq
<1>2. k - 1 \in 0 .. Len(E) /\ k \in 0 .. Len(E)
  OBVIOUS
<1>3. PICK a \in Nat, b \in Nat, l \in Nat, z \in Nat : a = ends[k - 1] /\ b = ends[k] /\ l = Len(E[k]) /\ z = Len(F)
  BY <1>1, <1>2 DEF EndsOf
<1>4. b = a + l /\ \A j \in 1 .. l : F[a + j] = E[k][j]
  BY <1>3 DEF EndsOf
<1>5. b <= z
  BY <1>2, <1>3, EndsInside
<1>6. o + z <= Len(f) /\ \A j \in 1 .. z : f[o + j] = F[j]
  BY <1>3 DEF At
<1> HIDE DEF F
<1>7. ASSUME NEW j \in 1 .. l PROVE f[(o + a) + j] = E[k][j]
  <2>1. a + j \in 1 .. z /\ (o + a) + j = o + (a + j)
    BY <1>4, <1>5
  <2> QED
    BY <1>4, <1>6, <2>1
<1>8. (o + a) + l <= Len(f)
  <2>1. PICK y \in Nat : y = Len(f)
    OBVIOUS
  <2>2. o + z <= y
    BY <1>6, <2>1
  <2>3. (o + a) + l <= y
    BY <1>4, <1>5, <2>2
  <2> QED
    BY <2>1, <2>3
<1> QED
  BY <1>3, <1>4, <1>7, <1>8 DEF At

\* The records of a file in a row.
FileRow(f, t, D, order, m, c, adds) ==
    /\ m \in Nat /\ m = FirstStream(D, order) - 1 /\ Row(f, t, D, m, c, adds)
    /\ c[0] = Len(Lead(D)) + 1 /\ c[m] = Len(Lead(D)) + Len(FlattenSeq(Objects(D, order))) + 1
    /\ \A k \in 1 .. m : adds[k] = Adds(order[k], D[order[k]].data, D[order[k]].expiry, t)

\* What a key adds is part of the data.
LEMMA AddsPart ==
    ASSUME NEW S, NEW D, NEW k \in DOMAIN D, StringWith(S, D[k]), NEW t
    PROVE  Part(Adds(k, D[k].data, D[k].expiry, t), D)
<1>1. D[k] = String(D[k].data, D[k].expiry)
  BY DEF StringWith
<1>2. PICK d, e : d = D[k].data /\ e = D[k].expiry
  OBVIOUS
<1>3. Part(Single(k, d, e), D)
  <2>1. DOMAIN Single(k, d, e) = {k} /\ Single(k, d, e)[k] = String(d, e)
    BY DEF Single
  <2> QED
    BY <1>1, <1>2, <2>1, Zenon DEF Part
<1>4. Part(Empty, D)
  BY EmptyData, Zenon DEF Part
<1> QED
  BY <1>2, <1>3, <1>4, Zenon DEF Adds

\* The file of a SAVE is a row of records behind the lead.
LEMMA FileIsRow ==
    ASSUME NEW S, Byte \subseteq S, S \subseteq Nat, NEW D, IsData(S, D), NEW order, OrderOf(D, order),
           NEW f \in Seq(S), NEW t, At(f, 0, FlattenSeq(SaveRDB(D, order))),
           Len(f) = Len(FlattenSeq(SaveRDB(D, order))) \/ FirstStream(D, order) > Len(order)
    PROVE  \E m, c, adds : FileRow(f, t, D, order, m, c, adds)
<1> DEFINE W == FlattenSeq(SaveRDB(D, order))
           L == Lead(D)
           B == Objects(D, order)
           O == FlattenSeq(B)
           Z == TailBytes(D, order)
           n == FirstStream(D, order)
           m == n - 1
<1>0. f \in Seq(Nat) /\ Byte \subseteq Nat
  BY SeqMonotonic DEF Byte
<1>1. LaidOut(S, D, order)
  BY Layout
<1>2. B \in Seq(Seq(S)) /\ L \in Seq(S) /\ Z \in Seq(S) /\ W = (L \o O) \o Z
  BY <1>1 DEF LaidOut
<1>3. B \in Seq(Seq(Nat)) /\ L \in Seq(Nat) /\ Z \in Seq(Nat)
  <2>1. Seq(S) \subseteq Seq(Nat)
    BY SeqMonotonic
  <2> QED
    BY <1>2, <2>1, SeqMonotonic
<1>4. O \in Seq(Nat)
  BY <1>3, FlatType
<1>5. FirstIs(D, order, n)
  BY FirstStreamIs
<1>6. n \in 1 .. Len(order) + 1 /\ Len(order) \in Nat
  BY <1>5 DEF FirstIs, OrderOf
<1>7. m \in Nat
  BY <1>6
<1>8. Len(B) = m /\ \A k \in 1 .. m : B[k] = ObjectBytes(order[k], D[order[k]].data, D[order[k]].expiry)
  BY <1>7 DEF Objects
<1>9. At(f, 0, L \o O) /\ At(f, 0 + Len(L \o O), Z) /\ Len(L \o O) = Len(L) + Len(O) /\ Len(W) = Len(L \o O) + Len(Z)
  <2>1. L \o O \in Seq(Nat) /\ Len(L \o O) = Len(L) + Len(O)
    BY <1>3, <1>4, Joined
  <2>2. At(f, 0, (L \o O) \o Z)
    BY <1>2
  <2> HIDE DEF L, O, Z, W
  <2>3. Len((L \o O) \o Z) = Len(L \o O) + Len(Z)
    BY <1>3, <2>1, Joined
  <2>4. At(f, 0, L \o O) /\ At(f, 0 + Len(L \o O), Z)
    BY <1>0, <1>3, <2>1, <2>2, AtJoined
  <2> QED
    BY <1>2, <2>1, <2>3, <2>4
<1>10. At(f, 0 + Len(L), O)
  <2> HIDE DEF L, O
  <2> QED
    BY <1>0, <1>3, <1>4, <1>9, AtJoined
<1>11. PICK a \in Nat, z \in Nat : a = Len(L) /\ z = Len(O) /\ 0 + Len(L) = a /\ Len(L \o O) = a + z
  BY <1>3, <1>4, <1>9
<1>12. PICK ends : EndsOf(ends, B)
  BY <1>3, FlatParts
<1> HIDE DEF W, L, B, O, Z, n
<1> DEFINE c == [k \in 0 .. m |-> a + ends[k] + 1]
           adds == [k \in 1 .. m |-> Adds(order[k], D[order[k]].data, D[order[k]].expiry, t)]
<1>13. ends \in [0 .. m -> Nat] /\ ends[0] = 0 /\ ends[m] = z
  BY <1>8, <1>11, <1>12 DEF EndsOf, O
<1>14. c \in [0 .. m -> Nat \ {0}] /\ c[0] = a + 1 /\ c[m] = a + z + 1 /\ \A k \in 0 .. m : c[k] = a + ends[k] + 1
  BY <1>7, <1>13
<1> HIDE DEF c
<1>15. ASSUME NEW k \in 1 .. m
       PROVE  /\ c[k - 1] <= Len(f) /\ f[c[k - 1]] # MarkerEOF
              /\ handleRecord(f, c[k - 1], t) = Read(adds[k], c[k])
              /\ Part(adds[k], D)
  <2>1. order[k] \in DOMAIN D /\ order[k] \in Strings(S) /\ StringWith(S, D[order[k]])
    BY <1>15, SavedString DEF n
  <2>2. PICK x, d, e : x = order[k] /\ d = D[order[k]].data /\ e = D[order[k]].expiry
    OBVIOUS
  <2>3. x \in Strings(Nat) /\ d \in Strings(Nat) /\ e \in 0 .. Far
    <3>1. \A s \in Strings(S) : s \in Strings(Nat)
      BY SeqMonotonic DEF Strings
    <3> QED
      BY <2>1, <2>2, <3>1 DEF StringWith
  <2>4. B[k] = ObjectBytes(x, d, e)
    BY <1>8, <1>15, <2>2
  <2>5. adds[k] = Adds(x, d, e, t) /\ Part(Adds(x, d, e, t), D)
    BY <1>15, <2>1, <2>2, AddsPart
  <2>6. PICK o \in Nat : o = a + ends[k - 1]
    BY <1>7, <1>13, <1>15
  <2>7. At(f, o, ObjectBytes(x, d, e)) /\ ends[k] = ends[k - 1] + Len(ObjectBytes(x, d, e))
    <3>1. k \in 1 .. Len(B)
      BY <1>8, <1>15
    <3>2. At(f, a, FlattenSeq(B))
      BY <1>10, <1>11 DEF O
    <3>3. At(f, a + ends[k - 1], B[k]) /\ ends[k] = ends[k - 1] + Len(B[k])
      BY <1>0, <1>3, <1>12, <3>1, <3>2, AtPart
    <3> QED
      BY <2>4, <2>6, <3>3
  <2>8. HandledAt(f, o, ObjectBytes(x, d, e), t, Adds(x, d, e, t))
    BY <1>0, <2>3, <2>7, RecordRead
  <2>9. c[k - 1] = o + 1 /\ c[k] = Behind(o, ObjectBytes(x, d, e))
    <3>1. k - 1 \in 0 .. m /\ k \in 0 .. m
      BY <1>7, <1>15
    <3>2. c[k - 1] = a + ends[k - 1] + 1 /\ c[k] = a + ends[k] + 1
      BY <1>14, <3>1
    <3>3. PICK u \in Nat, v \in Nat : u = ends[k - 1] /\ v = ends[k]
      BY <1>13, <3>1
    <3>4. PICK y \in Nat : y = Len(ObjectBytes(x, d, e))
      <4>1. B[k] \in Seq(Nat)
        BY <1>3, <1>8, <1>15, ElementOfSeq
      <4> QED
        BY <2>4, <4>1
    <3>5. v = u + y
      BY <2>7, <3>3, <3>4
    <3>6. a + v + 1 = (a + u) + y + 1
      BY <3>5
    <3> QED
      BY <2>6, <3>2, <3>3, <3>4, <3>6 DEF Behind
  <2> HIDE DEF adds
  <2> QED
    BY <2>5, <2>8, <2>9 DEF HandledAt
<1>16. c[m] = Len(f) + 1 \/ (c[m] <= Len(f) /\ f[c[m]] = MarkerEOF)
  <2>1. At(f, a + z, Z)
    BY <1>9, <1>11
  <2>2. CASE n > Len(order)
    <3> DEFINE q == <<MarkerEOF>>
    <3>1. Z = q
      BY <2>2 DEF Z, TailBytes, n
    <3>2. Len(q) = 1 /\ q[1] = MarkerEOF
      OBVIOUS
    <3> HIDE DEF q
    <3>3. (a + z) + 1 <= Len(f) /\ f[(a + z) + 1] = MarkerEOF
      BY <2>1, <3>1, <3>2 DEF At
    <3> QED
      BY <1>14, <3>3
  <2>3. CASE ~(n > Len(order))
    <3>1. Z = <<>> /\ Len(f) = Len(W)
      BY <2>3 DEF Z, TailBytes, n, W
    <3>2. Len(f) = a + z
      BY <1>9, <1>11, <3>1
    <3> QED
      BY <1>14, <3>2
  <2> QED
    BY <2>2, <2>3
<1>17. Row(f, t, D, m, c, adds)
  <2> HIDE DEF adds
  <2> QED
    BY <1>14, <1>15, <1>16 DEF Row
<1>18. FileRow(f, t, D, order, m, c, adds)
  BY <1>7, <1>11, <1>14, <1>17 DEF FileRow, L, O, B, n
<1> QED
  BY <1>18

(***************************************************************************)
(* What a start makes of the file of a SAVE.                               *)
(***************************************************************************)
\* The records before the keys.
LEMMA LeadRead ==
    ASSUME NEW f \in Seq(Nat), NEW t, NEW m \in Nat, NEW n \in Nat, At(f, 0, LeadBytes(m, n))
    PROVE  HeaderAt(f) /\ handleRecord(f, 17, t) = Read(Empty, Len(LeadBytes(m, n)) + 1)
<1> DEFINE a == HeaderBytes
           b == <<ResizeDB>>
           c == LengthBytes(m)
           d == LengthBytes(n)
<1>0. Byte \subseteq Nat
  BY DEF Byte
<1>1. a \in Seq(Nat) /\ b \in Seq(Nat) /\ LeadBytes(m, n) \in Seq(Nat)
  BY <1>0, LeadType
<1>2. c \in Seq(Nat) /\ d \in Seq(Nat)
  BY <1>0, LengthIn, FlatType DEF LengthBytes
<1>3. Len(a) = 16 /\ Len(b) = 1
  BY HeaderType
<1>4. At(f, 0, ((a \o b) \o c) \o d)
  BY DEF LeadBytes
<1>5. LeadBytes(m, n) = ((a \o b) \o c) \o d
  BY DEF LeadBytes
<1> HIDE DEF a, b, c, d
<1>6. /\ At(f, 0, a) /\ At(f, 0 + Len(a), b) /\ At(f, (0 + Len(a)) + Len(b), c)
      /\ At(f, ((0 + Len(a)) + Len(b)) + Len(c), d)
      /\ Behind(0, LeadBytes(m, n)) = Behind(((0 + Len(a)) + Len(b)) + Len(c), d)
  <2>1. 0 \in Nat
    OBVIOUS
  <2> QED
    BY <1>1, <1>2, <1>4, <1>5, <2>1, AtFour
<1>7. 0 + Len(a) = 16 /\ (0 + Len(a)) + Len(b) = 17
  BY <1>3
<1>8. HeaderAt(f)
  BY <1>6, <1>7, HeaderFound DEF a, b
<1>9. At(f, 17, c) /\ At(f, 17 + Len(c), d)
  BY <1>6, <1>7, Zenon
<1>10. handleRecord(f, 17, t) = Read(Empty, Behind(17 + Len(c), d))
  BY <1>8, <1>9, ResizeRead DEF c, d
<1>11. Behind(0, LeadBytes(m, n)) = Behind(17 + Len(c), d)
  BY <1>6, <1>7, Zenon
<1>12. Behind(0, LeadBytes(m, n)) = Len(LeadBytes(m, n)) + 1
  <2>1. Len(LeadBytes(m, n)) \in Nat
    BY <1>1
  <2>2. \A x \in Nat : 0 + x + 1 = x + 1
    OBVIOUS
  <2> QED
    BY <2>1, <2>2 DEF Behind
<1> QED
  BY <1>8, <1>10, <1>11, <1>12, Zenon

\* The records of a file, cut short or not.
FileLoads(D, order, t, f) ==
    /\ HeaderAt(f)
    /\ \A p \in Seq(Nat) : Cut(p, f) /\ 9 <= Len(p) => Loads(p, 10, t, D)
    /\ \E m, c, adds : /\ FileRow(f, t, D, order, m, c, adds)
                               /\ LoadsAll(f, 10, t, D, RowKeys(adds, 1, m), c[m])

\* Three records come before the keys.
LEMMA FileRead ==
    ASSUME NEW S, Byte \subseteq S, S \subseteq Nat, NEW D, IsData(S, D), NEW order, OrderOf(D, order),
           NEW f \in Seq(S), NEW t, At(f, 0, FlattenSeq(SaveRDB(D, order))),
           Len(f) = Len(FlattenSeq(SaveRDB(D, order))) \/ FirstStream(D, order) > Len(order)
    PROVE  FileLoads(D, order, t, f)
<1> DEFINE L == Lead(D)
           O == FlattenSeq(Objects(D, order))
           Z == TailBytes(D, order)
<1>0. f \in Seq(Nat)
  BY SeqMonotonic
<1>1. PICK m, c, adds : FileRow(f, t, D, order, m, c, adds)
  BY FileIsRow
<1>2. m \in Nat /\ Row(f, t, D, m, c, adds) /\ c[0] = Len(L) + 1
  BY <1>1 DEF FileRow
<1>3. At(f, 0, L)
  <2>1. LaidOut(S, D, order)
    BY Layout
  <2>2. L \in Seq(Nat) /\ O \in Seq(Nat) /\ Z \in Seq(Nat)
    <3>1. L \in Seq(S) /\ O \in Seq(S) /\ Z \in Seq(S)
      BY <2>1, FlatType DEF LaidOut
    <3> QED
      BY <3>1, SeqMonotonic
  <2>3. At(f, 0, (L \o O) \o Z)
    BY <2>1 DEF LaidOut
  <2> HIDE DEF L, O, Z
  <2>4. L \o O \in Seq(Nat) /\ 0 \in Nat
    BY <2>2, ConcatProperties
  <2>5. At(f, 0, L \o O)
    BY <1>0, <2>2, <2>3, <2>4, AtJoined
  <2> QED
    BY <1>0, <2>2, <2>4, <2>5, AtJoined
<1>4. HeaderAt(f) /\ handleRecord(f, 17, t) = Read(Empty, c[0])
  <2>1. PICK x \in Nat, y \in Nat : L = LeadBytes(x, y)
    BY Counts DEF Lead
  <2> HIDE DEF L
  <2>2. HeaderAt(f) /\ handleRecord(f, 17, t) = Read(Empty, Len(LeadBytes(x, y)) + 1)
    BY <1>0, <1>3, <2>1, LeadRead
  <2> QED
    BY <1>2, <2>1, <2>2
<1>5. handleRecord(f, 10, t) = Read(Empty, 15) /\ handleRecord(f, 15, t) = Read(Empty, 17)
  BY <1>0, <1>4, HeaderRead
<1>6. Part(Empty, D) /\ DOMAIN Empty = {}
  BY EmptyData, Zenon DEF Part
<1>7. PICK j \in Nat : j = c[0]
  BY <1>2 DEF Row
<1>8. ASSUME NEW p \in Seq(Nat), Cut(p, f), 9 <= Len(p) PROVE Loads(p, 10, t, D)
  <2>0. PICK l \in Nat : l = Len(p)
    OBVIOUS
  <2>1. j <= Len(p) + 1 => Loads(p, j, t, D)
    <3>1. 0 \in 0 .. m
      BY <1>2
    <3> QED
      BY <1>0, <1>2, <1>7, <1>8, <3>1, RowCut
  <2>2. 17 <= Len(p) + 1 => Loads(p, 17, t, D)
    <3>1. 17 <= Len(p) + 1 => 17 \in 1 .. Len(p) + 1
      BY <2>0
    <3> QED
      BY <1>0, <1>4, <1>6, <1>7, <1>8, <2>1, <3>1, LoadsStep
  <2>3. 15 <= Len(p) + 1 => Loads(p, 15, t, D)
    <3>1. 15 <= Len(p) + 1 => 15 \in 1 .. Len(p) + 1
      BY <2>0
    <3> QED
      BY <1>0, <1>5, <1>6, <1>8, <2>2, <3>1, LoadsStep
  <2>4. 10 \in 1 .. Len(p) + 1
    BY <1>8, <2>0
  <2> QED
    BY <1>0, <1>5, <1>6, <1>8, <2>3, <2>4, LoadsStep
<1>9. LoadsAll(f, 10, t, D, RowKeys(adds, 1, m), c[m])
  <2> DEFINE K == RowKeys(adds, 1, m)
  <2>0. 17 \in 1 .. Len(f) /\ 15 \in 1 .. Len(f) /\ 10 \in 1 .. Len(f)
    <3>1. 17 <= Len(f) /\ Len(f) \in Nat
      BY <1>0, <1>4 DEF HeaderAt
    <3> QED
      BY <3>1
  <2>1. f[10] # MarkerEOF /\ f[15] # MarkerEOF /\ f[17] # MarkerEOF
    BY <1>4, SMT DEF HeaderAt, MarkerEOF, AuxiliaryField, SelectDB, ResizeDB
  <2>2. LoadsAll(f, j, t, D, K, c[m])
    <3>1. 0 \in 0 .. m /\ 0 + 1 = 1
      BY <1>2
    <3> QED
      BY <1>0, <1>2, <1>7, <3>1, RowWhole
  <2> HIDE DEF K
  <2>3. {} \cup K = K
    OBVIOUS
  <2>4. LoadsAll(f, 17, t, D, K, c[m])
    BY <1>0, <1>4, <1>6, <1>7, <2>0, <2>1, <2>2, <2>3, LoadsAllStep
  <2>5. LoadsAll(f, 15, t, D, K, c[m])
    BY <1>0, <1>5, <1>6, <2>0, <2>1, <2>4, <2>3, LoadsAllStep
  <2>6. LoadsAll(f, 10, t, D, K, c[m])
    BY <1>0, <1>5, <1>6, <2>0, <2>1, <2>5, <2>3, LoadsAllStep
  <2> QED
    BY <2>6 DEF K
<1> QED
  BY <1>1, <1>4, <1>8, <1>9 DEF FileLoads

\* A file that was cut short: part of the data is loaded, if any.
LEMMA PartOfFile ==
    ASSUME NEW D, NEW order, NEW t, NEW f, FileLoads(D, order, t, f), NEW p \in Seq(Nat), Cut(p, f), NEW sm
    PROVE  ParseRDB(p, sm, t).ok => Part(ParseRDB(p, sm, t).val, D)
<1> DEFINE r == ParseRecords(p, 10, t)
           q == ParseRDB(p, sm, t)
<1>1. \/ q = Failed
      \/ Has(p, 1, 9) /\ q = AtMarker(p, r, sm)
  BY DEF ParseRDB
<1>2. AtMarker(p, r, sm) = Failed \/ AtMarker(p, r, sm) = r
  BY DEF AtMarker
<1>3. Has(p, 1, 9) => 9 <= Len(p)
  BY DEF Has
<1>4. 9 <= Len(p) => (r.ok => Part(r.val, D))
  BY Zenon DEF FileLoads, Loads
<1> HIDE DEF q, r
<1>5. q.ok => Part(q.val, D)
  BY <1>1, <1>2, <1>3, <1>4, FailedFields
<1> QED
  BY <1>5 DEF q

\* The keys of the data that have not expired at t.
LiveAt(D, t) == {k \in DOMAIN D : D[k].expiry = 0 \/ D[k].expiry >= t}
LiveData(D, t) == [k \in LiveAt(D, t) |-> D[k]]

\* What a key adds.
LEMMA AddsKeys ==
    ASSUME NEW k, NEW d, NEW e \in 0 .. Far, NEW t \in Nat
    PROVE  DOMAIN Adds(k, d, e, t) = IF e = 0 \/ e >= t THEN {k} ELSE {}
<1>1. DOMAIN Empty = {}
  BY EmptyData, Zenon
<1>2. DOMAIN Single(k, d, e) = {k}
  BY DEF Single
<1>3. e \in Nat
  BY FarTimes
<1>4. (e > 0 /\ e < t) <=> ~(e = 0 \/ e >= t)
  BY <1>3
<1> QED
  BY <1>1, <1>2, <1>4, Zenon DEF Adds

\* Without a stream, all keys are saved.
LEMMA AllSaved ==
    ASSUME NEW S, NEW D, IsData(S, D), ~SaveFails(D), NEW order, OrderOf(D, order)
    PROVE  FirstStream(D, order) > Len(order) /\ FirstStream(D, order) - 1 = Len(order)
<1> DEFINE n == FirstStream(D, order)
<1>1. FirstIs(D, order, n)
  BY FirstStreamIs
<1>2. order \in Seq(DOMAIN D) /\ Len(order) \in Nat
  BY DEF OrderOf
<1> HIDE DEF n
<1>3. n \in 1 .. Len(order) + 1
  BY <1>1 DEF FirstIs
<1>4. ~(n <= Len(order))
  <2> SUFFICES ASSUME n <= Len(order) PROVE FALSE
    OBVIOUS
  <2>1. n \in 1 .. Len(order)
    BY <1>2, <1>3
  <2>2. order[n] \in DOMAIN D
    BY <1>2, <2>1, ElementOfSeq
  <2>3. D[order[n]].type = "stream"
    BY <1>1 DEF FirstIs
  <2> QED
    BY <2>2, <2>3 DEF SaveFails
<1>5. n > Len(order) /\ n - 1 = Len(order)
  BY <1>2, <1>3, <1>4
<1> QED
  BY <1>5 DEF n

\* They are loaded unless they have expired.
LEMMA RowLive ==
    ASSUME NEW S, NEW D, IsData(S, D), ~SaveFails(D), NEW order, OrderOf(D, order), NEW t \in Nat,
           NEW f, NEW m, NEW c, NEW adds, FileRow(f, t, D, order, m, c, adds)
    PROVE  RowKeys(adds, 1, m) = LiveAt(D, t)
<1>5. FirstStream(D, order) - 1 = Len(order)
  BY AllSaved
<1>6. m = Len(order)
  BY <1>5 DEF FileRow
<1>7. ASSUME NEW i \in 1 .. m
      PROVE  order[i] \in DOMAIN D /\ DOMAIN adds[i] = IF order[i] \in LiveAt(D, t) THEN {order[i]} ELSE {}
  <2>1. i \in 1 .. FirstStream(D, order) - 1
    BY <1>5, <1>6
  <2>2. order[i] \in DOMAIN D /\ StringWith(S, D[order[i]])
    BY <2>1, SavedString
  <2>3. D[order[i]].expiry \in 0 .. Far
    BY <2>2 DEF StringWith
  <2>4. PICK k, d, e : k = order[i] /\ d = D[order[i]].data /\ e = D[order[i]].expiry
    OBVIOUS
  <2>5. e \in 0 .. Far
    BY <2>3, <2>4
  <2>6. adds[i] = Adds(k, d, e, t)
    BY <2>4 DEF FileRow
  <2>7. DOMAIN Adds(k, d, e, t) = IF e = 0 \/ e >= t THEN {k} ELSE {}
    BY <2>5, AddsKeys
  <2>8. k \in LiveAt(D, t) <=> (e = 0 \/ e >= t)
    BY <2>2, <2>4, Zenon DEF LiveAt
  <2> QED
    BY <2>2, <2>4, <2>6, <2>7, <2>8, Zenon
<1>8. \A k \in DOMAIN D : \E i \in 1 .. m : order[i] = k
  BY <1>6 DEF OrderOf
<1>9. LiveAt(D, t) \subseteq DOMAIN D
  BY DEF LiveAt
<1>10. ASSUME NEW k PROVE k \in RowKeys(adds, 1, m) <=> \E i \in 1 .. m : k \in DOMAIN adds[i]
  BY DEF RowKeys
<1>11. ASSUME NEW k PROVE k \in RowKeys(adds, 1, m) <=> k \in LiveAt(D, t)
  <2>1. ASSUME k \in RowKeys(adds, 1, m) PROVE k \in LiveAt(D, t)
    <3>1. PICK i \in 1 .. m : k \in DOMAIN adds[i]
      BY <1>10, <2>1
    <3> QED
      BY <1>7, <3>1, Zenon
  <2>2. ASSUME k \in LiveAt(D, t) PROVE k \in RowKeys(adds, 1, m)
    <3>1. PICK i \in 1 .. m : order[i] = k
      BY <1>8, <1>9, <2>2
    <3>2. k \in DOMAIN adds[i]
      BY <1>7, <2>2, <3>1, Zenon
    <3> QED
      BY <1>10, <3>1, <3>2, Zenon
  <2> QED
    BY <2>1, <2>2
<1>12. RowKeys(adds, 1, m) = LiveAt(D, t)
  BY <1>11, Zenon
<1> QED
  BY <1>12

\* A whole file with its checksum: exactly what was exported and has not expired.
LEMMA WholeFile ==
    ASSUME NEW S, Byte \subseteq S, S \subseteq Nat, NEW D, IsData(S, D), ~SaveFails(D),
           NEW order, OrderOf(D, order), NEW t \in Nat,
           NEW f \in Seq(S), At(f, 0, FlattenSeq(SaveRDB(D, order))), NEW sm, verifyChecksum(f, sm)
    PROVE  ParseRDB(f, sm, t).ok /\ ParseRDB(f, sm, t).val = LiveData(D, t)
<1> DEFINE r == ParseRecords(f, 10, t)
           K == LiveAt(D, t)
<1>1. FirstStream(D, order) > Len(order)
  BY AllSaved
<1>2. FileLoads(D, order, t, f)
  BY <1>1, FileRead
<1>3. PICK m, c, adds : FileRow(f, t, D, order, m, c, adds) /\ LoadsAll(f, 10, t, D, RowKeys(adds, 1, m), c[m])
  BY <1>2 DEF FileLoads
<1>4. RowKeys(adds, 1, m) = K
  BY <1>3, RowLive
<1>5. r.ok /\ Part(r.val, D) /\ DOMAIN r.val = K
  BY <1>3, <1>4 DEF LoadsAll
<1>6. IsData(S, r.val)
  <2>1. 48 .. 57 \subseteq S
    BY ByteFacts
  <2>2. 10 \in 1 .. Len(f) + 1
    <3>1. 17 <= Len(f) /\ Len(f) \in Nat
      BY <1>2 DEF FileLoads, HeaderAt
    <3> QED
      BY <3>1
  <2>3. RecordsEnd(S, f, 10, r)
    BY <2>1, <2>2, RecordsType
  <2> QED
    BY <1>5, <2>3 DEF RecordsEnd
<1>7. ParseRDB(f, sm, t) = r
  <2>1. Has(f, 1, 9) /\ SubSeq(f, 1, 5) = SubSeq(Magic, 1, 5)
    BY <1>2 DEF FileLoads, HeaderAt
  <2>2. ParseRDB(f, sm, t) = AtMarker(f, r, sm)
    BY <2>1 DEF ParseRDB
  <2>3. AtMarker(f, r, sm) = r
    BY DEF AtMarker
  <2> QED
    BY <2>2, <2>3
<1> HIDE DEF r, K
<1>8. r.val = [k \in K |-> D[k]]
  <2>1. r.val = [k \in K |-> r.val[k]]
    BY <1>5, <1>6 DEF IsData
  <2>2. \A k \in K : r.val[k] = D[k]
    BY <1>5, Zenon DEF Part
  <2> QED
    BY <2>1, <2>2
<1> QED
  BY <1>5, <1>7, <1>8 DEF K, LiveData

(***************************************************************************)
(* The steps of SAVE and of a start.                                       *)
(***************************************************************************)
\* The bytes of files, those of checksums included.
Chars == 0 .. 256 + NSaves

\* They are numbers.
LEMMA CharFacts ==
    Byte \subseteq Chars /\ Chars \subseteq Nat /\ 0 \in Chars /\ \A s \in Saves : 256 + s \in Chars
  BY SnapshotAssumption DEF Chars, Byte, Saves

\* A checksum is one call of eight bytes.
LEMMA ChecksumType ==
    ASSUME NEW s \in Saves
    PROVE  /\ writeChecksum(s) \in Seq(Seq(Chars)) /\ FlattenSeq(writeChecksum(s)) = writeChecksum(s)[1]
           /\ writeChecksum(s)[1] \in Seq(Chars) /\ Len(writeChecksum(s)[1]) = 8
<1> DEFINE u == [i \in 1 .. 8 |-> 256 + s]
<1>1. 256 + s \in Chars
  BY CharFacts
<1>2. PICK x \in Chars : x = 256 + s
  BY <1>1
<1>3. u = [i \in 1 .. 8 |-> x]
  BY <1>2
<1>4. u \in Seq(Chars) /\ Len(u) = 8
  BY <1>3
<1>5. writeChecksum(s) = <<u>>
  BY DEF writeChecksum
<1> HIDE DEF u
<1>6. FlattenSeq(<<u>>) = u
  BY <1>4, FlatOne
<1>7. <<u>> \in Seq(Seq(Chars)) /\ <<u>>[1] = u
  BY <1>4
<1> QED
  BY <1>4, <1>5, <1>6, <1>7

\* Writing into a file gives a file.
LEMMA OverlayType ==
    ASSUME NEW S, 0 \in S, NEW f \in Seq(S), NEW o \in Nat, NEW b \in Seq(S)
    PROVE  Overlay(f, o, b) \in Seq(S)
<1>1. PICK x \in Nat, y \in Nat : x = Len(f) /\ y = Len(b)
  OBVIOUS
<1>2. PICK n \in Nat : n = IF x > o + y THEN x ELSE o + y
  OBVIOUS
<1>3. ASSUME NEW i \in 1 .. n
      PROVE  (IF i \in o + 1 .. o + y THEN b[i - o] ELSE IF i <= x THEN f[i] ELSE 0) \in S
  <2>1. CASE i \in o + 1 .. o + y
    <3>1. i - o \in 1 .. y
      BY <2>1
    <3>2. b[i - o] \in S
      BY <1>1, <3>1, ElementOfSeq
    <3> QED
      BY <2>1, <3>2
  <2>2. CASE ~(i \in o + 1 .. o + y) /\ i <= x
    <3>1. i \in 1 .. x
      BY <2>2
    <3>2. f[i] \in S
      BY <1>1, <3>1, ElementOfSeq
    <3> QED
      BY <2>2, <3>2
  <2> QED
    BY <2>1, <2>2
<1>4. Overlay(f, o, b)
        = [i \in 1 .. n |-> IF i \in o + 1 .. o + y THEN b[i - o] ELSE IF i <= x THEN f[i] ELSE 0]
  BY <1>1, <1>2 DEF Overlay
<1>5. Overlay(f, o, b) \in [1 .. n -> S]
  BY <1>3, <1>4
<1> QED
  BY <1>5

\* Writing at the end of a file appends to it.
LEMMA OverlayEnd ==
    ASSUME NEW S, 0 \in S, NEW f \in Seq(S), NEW b \in Seq(S)
    PROVE  Overlay(f, Len(f), b) = f \o b
<1> DEFINE u == Overlay(f, Len(f), b)
           v == f \o b
<1>1. PICK x \in Nat, y \in Nat : x = Len(f) /\ y = Len(b)
  OBVIOUS
<1>2. u \in Seq(S)
  BY <1>1, OverlayType
<1>3. v \in Seq(S) /\ Len(v) = x + y /\ (\A j \in 1 .. x : v[j] = f[j]) /\ \A j \in 1 .. y : v[x + j] = b[j]
  BY <1>1, Joined
<1>4. (IF x > x + y THEN x ELSE x + y) = x + y
  OBVIOUS
<1>5. u = [i \in 1 .. x + y |-> IF i \in x + 1 .. x + y THEN b[i - x] ELSE IF i <= x THEN f[i] ELSE 0]
  BY <1>1, <1>4 DEF Overlay
<1> HIDE DEF u, v
<1>6. Len(u) = x + y
  BY <1>5
<1>7. ASSUME NEW i \in 1 .. x + y PROVE u[i] = v[i]
  <2>1. CASE i \in x + 1 .. x + y
    <3>1. i - x \in 1 .. y /\ x + (i - x) = i
      BY <2>1
    <3>2. u[i] = b[i - x]
      BY <1>5, <2>1
    <3>3. v[x + (i - x)] = b[i - x]
      BY <1>3, <3>1
    <3> QED
      BY <3>1, <3>2, <3>3
  <2>2. CASE ~(i \in x + 1 .. x + y)
    <3>1. i \in 1 .. x /\ i <= x
      BY <2>2
    <3>2. u[i] = f[i]
      BY <1>5, <2>2, <3>1
    <3> QED
      BY <1>3, <3>1, <3>2
  <2> QED
    BY <2>1, <2>2
<1>8. u = v
  BY <1>2, <1>3, <1>6, <1>7, SeqEqual
<1> QED
  BY <1>8 DEF u, v

\* What a client stores is data.
LEMMA WriteIn ==
    ASSUME NEW w \in Writes
    PROVE  w[1] \in Strings(Chars) /\ IsValue(Chars, w[2])
<1>1. \A x \in Seq(Byte) : Len(x) <= MaxLength => x \in Strings(Chars)
  <2> TAKE x \in Seq(Byte)
  <2> HAVE Len(x) <= MaxLength
  <2>1. x \in Seq(Chars) /\ Len(x) \in Nat
    <3>1. Byte \subseteq Chars
      BY CharFacts
    <3>2. Seq(Byte) \subseteq Seq(Chars)
      BY <3>1, SeqMonotonic
    <3> QED
      BY <3>2
  <2>2. Len(x) <= Most
    BY <2>1, SMT DEF MaxLength, Most
  <2> QED
    BY <2>1, <2>2 DEF Strings
<1>2. w[1] \in Seq(Byte) /\ Len(w[1]) <= MaxLength
  BY SnapshotAssumption
<1>3. CASE w[2] = Stream
  BY <1>1, <1>2, <1>3 DEF IsValue
<1>4. CASE ~(w[2] = Stream)
  <2>1. /\ w[2] = String(w[2].data, w[2].expiry)
        /\ w[2].data \in Seq(Byte) /\ Len(w[2].data) <= MaxLength
        /\ w[2].expiry \in 0 .. Far - 1
    BY <1>4, SnapshotAssumption
  <2>2. w[2].expiry \in 0 .. Far
    <3>1. \A e \in 0 .. Far - 1 : e \in 0 .. Far
      BY FarTimes
    <3> QED
      BY <2>1, <3>1
  <2>3. w[2].data \in Strings(Chars)
    BY <1>1, <2>1
  <2> QED
    BY <1>1, <1>2, <2>1, <2>2, <2>3 DEF IsValue
<1> QED
  BY <1>3, <1>4

\* One key more, or another value for it.
LEMMA StoreSet ==
    ASSUME NEW S, NEW D, IsData(S, D), NEW k \in Strings(S), NEW v, IsValue(S, v)
    PROVE  IsData(S, [x \in DOMAIN D \cup {k} |-> IF x = k THEN v ELSE D[x]])
<1> DEFINE E == [x \in DOMAIN D \cup {k} |-> IF x = k THEN v ELSE D[x]]
<1>1. DOMAIN E = DOMAIN D \cup {k} /\ E = [x \in DOMAIN E |-> E[x]]
      /\ \A x \in DOMAIN E : E[x] = IF x = k THEN v ELSE D[x]
  OBVIOUS
<1>2. IsFiniteSet(DOMAIN D) /\ \A x \in DOMAIN D : x \in Strings(S) /\ IsValue(S, D[x])
  BY DEF IsData
<1>3. IsFiniteSet(DOMAIN D \cup {k})
  BY <1>2, FS_AddElement
<1> HIDE DEF E
<1>4. \A x \in DOMAIN E : x \in Strings(S) /\ IsValue(S, E[x])
  BY <1>1, <1>2, Zenon
<1>5. IsData(S, E)
  BY <1>1, <1>3, <1>4, Zenon DEF IsData
<1> QED
  BY <1>5 DEF E

\* What a start loads is data.
LEMMA ParsedType ==
    ASSUME NEW f \in Seq(Chars), NEW sm, NEW t, ParseRDB(f, sm, t).ok
    PROVE  IsData(Chars, ParseRDB(f, sm, t).val)
<1> DEFINE r == ParseRecords(f, 10, t)
           q == ParseRDB(f, sm, t)
<1>1. \/ q = Failed
      \/ Has(f, 1, 9) /\ q = AtMarker(f, r, sm)
  BY DEF ParseRDB
<1>2. AtMarker(f, r, sm) = Failed \/ AtMarker(f, r, sm) = r
  BY DEF AtMarker
<1>3. Has(f, 1, 9) /\ q = r
  BY <1>1, <1>2, FailedFields
<1>4. 10 \in 1 .. Len(f) + 1
  <2>1. 1 + 9 - 1 <= Len(f) /\ Len(f) \in Nat
    BY <1>3 DEF Has
  <2> QED
    BY <2>1
<1>5. RecordsEnd(Chars, f, 10, r)
  <2>1. 48 .. 57 \subseteq Chars
    BY CharFacts, ByteFacts
  <2> QED
    BY <1>4, <2>1, CharFacts, RecordsType
<1> QED
  BY <1>3, <1>5 DEF RecordsEnd

\* The bytes that a SAVE's checksum is about, for the data it exported.
SavedAs(d, sm) == \E order : OrderOf(d, order) /\ sm = FlattenSeq(SaveRDB(d, order))

\* All that SAVE s writes: a checksum only if no key failed.
WholeOf(s, d, sm) == IF SaveFails(d) THEN sm ELSE sm \o writeChecksum(s)[1]

\* What SAVE s has to write when it has exported the data.
Calls(s, d, calls) == IF SaveFails(d) THEN calls ELSE calls \o writeChecksum(s)

\* Its calls give all that it writes.
LEMMA ExportIs ==
    ASSUME NEW s \in Saves, NEW d, IsData(Chars, d), NEW order \in SetToSeqs(DOMAIN d), NEW calls, NEW sm,
           calls = SaveRDB(d, order), sm = FlattenSeq(calls)
    PROVE  /\ sm \in Seq(Chars) /\ Calls(s, d, calls) \in Seq(Seq(Chars)) /\ SavedAs(d, sm)
           /\ FlattenSeq(Calls(s, d, calls)) = WholeOf(s, d, sm)
           /\ Len(FlattenSeq(Calls(s, d, calls))) <= Len(sm) + 8
<1>1. OrderOf(d, order)
  BY OrderIs DEF IsData
<1>2. SavedAs(d, sm)
  BY <1>1 DEF SavedAs
<1>3. calls \in Seq(Seq(Chars))
  <2>1. LaidOut(Chars, d, order)
    BY <1>1, CharFacts, Layout
  <2> QED
    BY <2>1 DEF LaidOut
<1>4. sm \in Seq(Chars)
  BY <1>3, FlatType
<1> DEFINE c == writeChecksum(s)
<1>5. c \in Seq(Seq(Chars)) /\ FlattenSeq(c) = c[1] /\ c[1] \in Seq(Chars) /\ Len(c[1]) = 8
  BY ChecksumType
<1> HIDE DEF c
<1>6. calls \o c \in Seq(Seq(Chars)) /\ FlattenSeq(calls \o c) = sm \o c[1]
  <2>1. FlatIs(Chars, calls, sm) /\ FlatIs(Chars, c, c[1])
    BY <1>3, <1>5, Zenon DEF FlatIs
  <2>2. FlatIs(Chars, calls \o c, sm \o c[1])
    BY <2>1, FlatJoin, Zenon
  <2> QED
    BY <2>2, Zenon DEF FlatIs
<1>7. Len(sm \o c[1]) = Len(sm) + 8 /\ Len(sm) \in Nat
  <2>1. PICK e \in Seq(Chars) : e = c[1] /\ Len(e) = 8
    BY <1>5
  <2>2. Len(sm \o e) = Len(sm) + Len(e) /\ Len(sm) \in Nat
    BY <1>4, Joined
  <2> QED
    BY <2>1, <2>2
<1>8. CASE SaveFails(d)
  <2>1. Calls(s, d, calls) = calls /\ WholeOf(s, d, sm) = sm
    BY <1>8 DEF Calls, WholeOf
  <2>2. Len(sm) <= Len(sm) + 8
    BY <1>7
  <2> QED
    BY <1>2, <1>3, <1>4, <2>1, <2>2
<1>9. CASE ~SaveFails(d)
  <2>1. Calls(s, d, calls) = calls \o c /\ WholeOf(s, d, sm) = sm \o c[1]
    BY <1>9 DEF Calls, WholeOf, c
  <2>2. Len(sm) + 8 <= Len(sm) + 8
    BY <1>7
  <2> QED
    BY <1>2, <1>4, <1>6, <1>7, <2>1, <2>2, Zenon
<1> QED
  BY <1>8, <1>9

\* It does not matter in which order three parts are put together.
Associates(x, y, z) == (x \o y) \o z = x \o (y \o z)

LEMMA JoinsAssociate ==
    ASSUME NEW S, NEW x \in Seq(S), NEW y \in Seq(S), NEW z \in Seq(S)
    PROVE  Associates(x, y, z)
BY ConcatAssociative DEF Associates

\* One call: what it leaves to write, and the file it gives when it is at its end.
LEMMA WriteIs ==
    ASSUME NEW td \in Seq(Seq(Chars)), td # <<>>, NEW f \in Seq(Chars), NEW o \in Nat
    PROVE  /\ Head(td) \in Seq(Chars) /\ Tail(td) \in Seq(Seq(Chars)) /\ o + Len(Head(td)) \in Nat
           /\ (o + Len(Head(td))) + Len(FlattenSeq(Tail(td))) = o + Len(FlattenSeq(td))
           /\ Overlay(f, o, Head(td)) \in Seq(Chars)
           /\ o = Len(f) => /\ Overlay(f, o, Head(td)) \o FlattenSeq(Tail(td)) = f \o FlattenSeq(td)
                            /\ Len(Overlay(f, o, Head(td))) = o + Len(Head(td))
<1>1. PICK h, r : h = Head(td) /\ r = Tail(td) /\ h \in Seq(Chars) /\ r \in Seq(Seq(Chars))
  BY HeadTailProperties
<1>2. PICK g \in Seq(Chars) : g = FlattenSeq(r)
  BY <1>1, FlatType
<1>3. FlattenSeq(td) = h \o g
  BY <1>1, <1>2, FlatHead
<1>4. PICK x \in Nat, y \in Nat : x = Len(h) /\ y = Len(g) /\ Len(h \o g) = x + y
  BY <1>1, <1>2, Joined
<1>5. (o + x) + y = o + (x + y) /\ o + x \in Nat
  OBVIOUS
<1>6. Overlay(f, o, h) \in Seq(Chars)
  BY <1>1, CharFacts, OverlayType
<1>7. ASSUME o = Len(f) PROVE Overlay(f, o, h) \o g = f \o (h \o g) /\ Len(Overlay(f, o, h)) = o + x
  <2>1. Overlay(f, o, h) = f \o h
    BY <1>1, <1>7, CharFacts, OverlayEnd
  <2>2. (f \o h) \o g = f \o (h \o g)
    <3>1. f \in Seq(Chars) /\ h \in Seq(Chars) /\ g \in Seq(Chars)
      BY <1>1, <1>2
    <3>2. Associates(f, h, g)
      BY <3>1, JoinsAssociate
    <3> QED
      BY <3>2 DEF Associates
  <2>3. Len(f \o h) = o + x
    BY <1>1, <1>4, <1>7, Joined
  <2> QED
    BY <2>1, <2>2, <2>3
<1> QED
  BY <1>1, <1>2, <1>3, <1>4, <1>5, <1>6, <1>7, Zenon

\* A sequence is cut from a longer one.
LEMMA CutJoined ==
    ASSUME NEW S, NEW s \in Seq(S), NEW t \in Seq(S)
    PROVE  Cut(s, s \o t)
<1> DEFINE u == s \o t
<1>1. Len(u) = Len(s) + Len(t) /\ Len(s) \in Nat /\ Len(t) \in Nat /\ \A j \in 1 .. Len(s) : u[j] = s[j]
  BY Joined
<1> HIDE DEF u
<1>2. Len(s) <= Len(u) /\ \A j \in 1 .. Len(s) : s[j] = u[j]
  BY <1>1
<1> QED
  BY <1>2 DEF Cut, u

\* Part of a call, at the end of the file.
LEMMA CutCall ==
    ASSUME NEW td \in Seq(Seq(Chars)), td # <<>>, NEW f \in Seq(Chars), NEW o \in Nat,
           NEW n \in 1 .. Len(Head(td)) - 1
    PROVE  /\ Overlay(f, o, SubSeq(Head(td), 1, n)) \in Seq(Chars)
           /\ o = Len(f) => Cut(Overlay(f, o, SubSeq(Head(td), 1, n)), f \o FlattenSeq(td))
<1>1. PICK h, r : h = Head(td) /\ r = Tail(td) /\ h \in Seq(Chars) /\ r \in Seq(Seq(Chars))
  BY HeadTailProperties
<1>2. PICK g \in Seq(Chars) : g = FlattenSeq(r)
  BY <1>1, FlatType
<1>3. FlattenSeq(td) = h \o g
  BY <1>1, <1>2, FlatHead
<1>4. PICK y \in Nat : y = Len(h) /\ n \in 1 .. y /\ n \in Nat
  <2>1. PICK y \in Nat : y = Len(h)
    BY <1>1
  <2>2. n \in 1 .. y /\ n \in Nat
    BY <1>1, <2>1
  <2> QED
    BY <2>1, <2>2
<1>5. PICK b \in Seq(Chars) : /\ b = SubSeq(h, 1, n) /\ Len(b) = n
                              /\ \A j \in 1 .. n : b[j] = h[j]
  <2> DEFINE b == SubSeq(h, 1, n)
  <2>1. \A j \in 1 .. n : h[j] \in Chars
    BY <1>1, <1>4, ElementOfSeq
  <2>2. b = [j \in 1 .. n |-> h[j]]
    BY <1>1, <1>4, SubSeqProperties
  <2>3. b \in Seq(Chars) /\ Len(b) = n /\ \A j \in 1 .. n : b[j] = h[j]
    BY <1>4, <2>1, <2>2
  <2> QED
    BY <2>3
<1>6. Overlay(f, o, b) \in Seq(Chars)
  BY CharFacts, OverlayType
<1>7. ASSUME o = Len(f) PROVE Cut(Overlay(f, o, b), f \o (h \o g))
  <2> DEFINE u == f \o b
             v == h \o g
             w == f \o v
  <2>1. Overlay(f, o, b) = u
    BY <1>7, CharFacts, OverlayEnd
  <2>2. PICK x \in Nat, z \in Nat : x = Len(f) /\ z = Len(g)
    BY <1>2
  <2>3. v \in Seq(Chars) /\ Len(v) = y + z /\ \A j \in 1 .. y : v[j] = h[j]
    BY <1>1, <1>2, <1>4, <2>2, Joined
  <2>4. Len(u) = x + n /\ (\A j \in 1 .. x : u[j] = f[j]) /\ \A j \in 1 .. n : u[x + j] = b[j]
    BY <1>5, <2>2, Joined
  <2> HIDE DEF v
  <2>5. Len(w) = x + (y + z) /\ (\A j \in 1 .. x : w[j] = f[j]) /\ \A j \in 1 .. y + z : w[x + j] = v[j]
    <3>1. /\ Len(w) = Len(f) + Len(v)
          /\ \A j \in 1 .. Len(f) : w[j] = f[j]
          /\ \A j \in 1 .. Len(v) : w[Len(f) + j] = v[j]
      BY <2>3, Joined
    <3> HIDE DEF w
    <3> QED
      BY <2>2, <2>3, <3>1, Zenon
  <2> HIDE DEF u, w
  <2>6. ASSUME NEW j \in 1 .. x + n PROVE u[j] = w[j]
    <3>1. CASE j \in 1 .. x
      BY <2>4, <2>5, <3>1
    <3>2. CASE ~(j \in 1 .. x)
      <4>1. PICK i \in 1 .. n : j = x + i
        <5>1. j - x \in 1 .. n /\ j = x + (j - x)
          BY <1>4, <2>2, <2>6, <3>2
        <5> QED
          BY <5>1
      <4>2. i \in 1 .. y /\ i \in 1 .. y + z
        BY <1>4, <2>2, <4>1
      <4>3. u[x + i] = b[i] /\ w[x + i] = v[i] /\ v[i] = h[i] /\ b[i] = h[i]
        BY <1>5, <2>3, <2>4, <2>5, <4>1, <4>2
      <4> QED
        BY <4>1, <4>3
    <3> QED
      BY <3>1, <3>2
  <2>7. x + n <= x + (y + z)
    BY <1>4, <2>2
  <2>8. Cut(u, w)
    BY <2>4, <2>5, <2>6, <2>7 DEF Cut
  <2> QED
    BY <2>1, <2>8 DEF v, w
<1> QED
  BY <1>1, <1>3, <1>5, <1>6, <1>7, Zenon

(***************************************************************************)
(* The inductive invariant.                                                *)
(***************************************************************************)
Phases == {"new", "created", "writing", "ok", "failed", "cut"}

\* The types of the variables.
Types ==
    /\ now \in 1 .. MaxTime /\ up \in BOOLEAN /\ exists \in BOOLEAN
    /\ IsData(Chars, store) /\ file \in Seq(Chars)
    /\ pc \in [Saves -> Phases] /\ todo \in [Saves -> Seq(Seq(Chars))] /\ off \in [Saves -> Nat]
    /\ snap = [s \in Saves |-> snap[s]] /\ \A s \in Saves : IsData(Chars, snap[s])
    /\ sums \in [Saves -> Seq(Chars)] /\ mixed \in [Saves -> BOOLEAN] /\ latest \in Saves \cup {0}

\* How far a SAVE has come: what it has exported, and what it has left to write.
ProgressOf(p, d, sm, td, o) ==
    /\ p \in {"new", "created"} => sm = <<>> /\ td = <<>> /\ o = 0
    /\ p \in {"writing", "ok", "failed"} => SavedAs(d, sm)
    /\ p = "ok" => ~SaveFails(d)
    /\ o + Len(FlattenSeq(td)) <= Len(sm) + 8

Progress == \A s \in Saves : ProgressOf(pc[s], snap[s], sums[s], todo[s], off[s])

\* The file of a SAVE that was alone: a beginning of all that it writes.
FileIs(f, s, p, d, sm, td, o) ==
    /\ p = "created" => f = <<>>
    /\ p = "writing" => o = Len(f) /\ f \o FlattenSeq(td) = WholeOf(s, d, sm)
    /\ p \in {"ok", "failed"} => f = WholeOf(s, d, sm)
    /\ p = "cut" => f = <<>> \/ (SavedAs(d, sm) /\ Cut(f, WholeOf(s, d, sm)))

\* The SAVE that created the file last, when no other ran at the same time.
AloneIs(s) ==
    /\ \A q \in Saves : q # s => ~Running(q)
    /\ FileIs(file, s, pc[s], snap[s], sums[s], todo[s], off[s])

Alone == latest # 0 => pc[latest] # "new" /\ (~mixed[latest] => AloneIs(latest))

IInv == Types /\ Progress /\ Alone

\* No SAVE has the number 0.
LEMMA NoSaveZero == 0 \notin Saves
  BY SnapshotAssumption DEF Saves

\* The invariant holds at the beginning.
LEMMA InitInv == Init => IInv
<1> SUFFICES ASSUME Init PROVE IInv
  OBVIOUS
<1> USE DEF Init
<1>1. now \in 1 .. MaxTime
  BY SnapshotAssumption, FarTimes
<1>2. IsData(Chars, Empty)
  BY EmptyData, Zenon
<1>3. \A s \in Saves : pc[s] = "new" /\ todo[s] = <<>> /\ off[s] = 0 /\ snap[s] = Empty /\ sums[s] = <<>>
  OBVIOUS
<1>4. Types
  <2>1. <<>> \in Seq(Chars) /\ <<>> \in Seq(Seq(Chars)) /\ 0 \in Nat /\ "new" \in Phases
    BY DEF Phases
  <2>2. IsData(Chars, store) /\ file \in Seq(Chars) /\ \A s \in Saves : IsData(Chars, snap[s])
    BY <1>2, <1>3, <2>1
  <2>3. up \in BOOLEAN /\ exists \in BOOLEAN /\ latest \in Saves \cup {0}
    OBVIOUS
  <2>4. pc \in [Saves -> Phases] /\ todo \in [Saves -> Seq(Seq(Chars))] /\ off \in [Saves -> Nat]
        /\ sums \in [Saves -> Seq(Chars)] /\ mixed \in [Saves -> BOOLEAN]
    BY <2>1
  <2>5. snap = [s \in Saves |-> snap[s]]
    OBVIOUS
  <2> QED
    BY <1>1, <2>2, <2>3, <2>4, <2>5 DEF Types
<1>5. ProgressOf("new", Empty, <<>>, <<>>, 0)
  <2>1. FlattenSeq(<<>>) = <<>>
    BY FlatEmpty
  <2>2. 0 + Len(FlattenSeq(<<>>)) <= Len(<<>>) + 8
    BY <2>1
  <2> QED
    BY <2>2 DEF ProgressOf
<1>6. Progress
  BY <1>3, <1>5, Zenon DEF Progress
<1>7. Alone
  BY DEF Alone
<1> QED
  BY <1>4, <1>6, <1>7 DEF IInv

\* Steps that neither write nor change the progress of a SAVE.
LEMMA SameSaves ==
    ASSUME IInv, UNCHANGED <<file, saveVars>>
    PROVE  Progress' /\ Alone'
<1>1. file' = file /\ pc' = pc /\ todo' = todo /\ off' = off /\ snap' = snap /\ sums' = sums
      /\ mixed' = mixed /\ latest' = latest
  BY DEF saveVars
<1>2. Progress'
  BY <1>1, Zenon DEF IInv, Progress
<1>3. Alone'
  BY <1>1, Zenon DEF IInv, Alone, AloneIs, Running
<1> QED
  BY <1>2, <1>3

\* A client changes a key.
LEMMA SetInv ==
    ASSUME IInv, NEW w \in Writes, Set(w[1], w[2])
    PROVE  IInv'
<1>1. UNCHANGED <<file, saveVars>> /\ UNCHANGED <<now, up, exists>>
  BY DEF Set
<1>2. Progress' /\ Alone'
  BY <1>1, SameSaves
<1>3. IsData(Chars, store')
  <2>1. store' = [x \in DOMAIN store \cup {w[1]} |-> IF x = w[1] THEN w[2] ELSE store[x]]
    BY DEF Set
  <2>2. IsData(Chars, store)
    BY DEF IInv, Types
  <2> QED
    BY <2>1, <2>2, WriteIn, StoreSet
<1>4. Types'
  BY <1>1, <1>3 DEF IInv, Types, saveVars
<1> QED
  BY <1>2, <1>4 DEF IInv

\* Time passes.
LEMMA TickInv ==
    ASSUME IInv, Tick
    PROVE  IInv'
<1>1. UNCHANGED <<file, saveVars>> /\ UNCHANGED <<store, up, exists>>
  BY DEF Tick
<1>2. Progress' /\ Alone'
  BY <1>1, SameSaves
<1>3. now' \in 1 .. MaxTime
  <2>1. MaxTime \in Nat
    BY SnapshotAssumption, FarTimes
  <2> QED
    BY <2>1 DEF IInv, Types, Tick
<1>4. Types'
  BY <1>1, <1>3 DEF IInv, Types, saveVars
<1> QED
  BY <1>2, <1>4 DEF IInv

\* A start loads what it can parse.
LEMMA StartInv ==
    ASSUME IInv, Start
    PROVE  IInv'
<1> DEFINE parsed == ParseRDB(file, sums, now)
<1>1. UNCHANGED <<file, saveVars>> /\ UNCHANGED <<now, exists>>
  BY DEF Start
<1>2. Progress' /\ Alone'
  BY <1>1, SameSaves
<1>3. file \in Seq(Chars)
  BY DEF IInv, Types
<1>4. parsed.ok => IsData(Chars, parsed.val)
  BY <1>3, ParsedType
<1>5. up' = (~exists \/ parsed.ok) /\ store' = IF exists /\ parsed.ok THEN parsed.val ELSE Empty
  BY DEF Start
<1> HIDE DEF parsed
<1>6. IsData(Chars, store')
  <2>1. IsData(Chars, Empty)
    BY EmptyData, Zenon
  <2> QED
    BY <1>4, <1>5, <2>1, Zenon
<1>7. up' \in BOOLEAN
  BY <1>5
<1>8. Types'
  BY <1>1, <1>6, <1>7 DEF IInv, Types, saveVars
<1> QED
  BY <1>2, <1>8 DEF IInv

\* A SAVE creates the file.
LEMMA CreateInv ==
    ASSUME IInv, NEW s \in Saves, Create(s)
    PROVE  IInv'
<1>1. /\ UNCHANGED <<now, store, up, todo, off, snap, sums>>
      /\ pc[s] = "new" /\ pc' = [pc EXCEPT ![s] = "created"] /\ file' = <<>> /\ exists' = TRUE /\ latest' = s
  BY DEF Create
<1>2. mixed' = [q \in Saves |->
        mixed[q] \/ (q # s /\ Running(q)) \/ (q = s /\ \E p \in Saves : Running(p))]
  BY DEF Create
<1>3. pc \in [Saves -> Phases]
  BY DEF IInv, Types
<1>4. pc'[s] = "created" /\ \A q \in Saves : q # s => pc'[q] = pc[q]
  BY <1>1, <1>3
<1>5. Types'
  <2>1. pc' \in [Saves -> Phases]
    BY <1>1, <1>3 DEF Phases
  <2>2. mixed' \in [Saves -> BOOLEAN]
    BY <1>2 DEF IInv, Types
  <2>3. file' \in Seq(Chars) /\ exists' \in BOOLEAN /\ latest' \in Saves \cup {0}
    BY <1>1
  <2>4. /\ now' \in 1 .. MaxTime /\ up' \in BOOLEAN /\ IsData(Chars, store')
        /\ todo' \in [Saves -> Seq(Seq(Chars))] /\ off' \in [Saves -> Nat]
        /\ snap' = [q \in Saves |-> snap'[q]] /\ \A q \in Saves : IsData(Chars, snap'[q])
        /\ sums' \in [Saves -> Seq(Chars)]
    BY <1>1 DEF IInv, Types
  <2> QED
    BY <2>1, <2>2, <2>3, <2>4 DEF Types
<1>6. Progress'
  <2> SUFFICES ASSUME NEW q \in Saves
               PROVE  ProgressOf(pc'[q], snap[q], sums[q], todo[q], off[q])
    BY <1>1 DEF Progress
  <2>1. ProgressOf(pc[q], snap[q], sums[q], todo[q], off[q])
    BY DEF IInv, Progress
  <2>2. CASE q = s
    <3>1. pc'[q] = "created" /\ pc[q] = "new"
      BY <1>1, <1>4, <2>2
    <3> QED
      BY <2>1, <3>1 DEF ProgressOf
  <2>3. CASE q # s
    BY <1>4, <2>1, <2>3
  <2> QED
    BY <2>2, <2>3
<1>7. Alone'
  <2>1. pc'[s] # "new"
    BY <1>4
  <2>2. ASSUME ~mixed'[s] PROVE AloneIs(s)'
    <3>1. \A p \in Saves : ~Running(p)
      BY <1>2, <2>2
    <3>2. \A q \in Saves : q # s => ~Running(q)'
      BY <1>4, <3>1 DEF Running
    <3>3. FileIs(file', s, "created", snap'[s], sums'[s], todo'[s], off'[s])
      BY <1>1 DEF FileIs
    <3> QED
      BY <1>4, <3>2, <3>3 DEF AloneIs
  <2> QED
    BY <1>1, <2>1, <2>2 DEF Alone
<1> QED
  BY <1>5, <1>6, <1>7 DEF IInv

\* The other SAVEs of a step of s.
LEMMA OthersInv ==
    ASSUME IInv, NEW s \in Saves, Running(s), latest' = latest, mixed' = mixed,
           \A q \in Saves : q # s => /\ pc'[q] = pc[q] /\ snap'[q] = snap[q] /\ sums'[q] = sums[q]
                                     /\ todo'[q] = todo[q] /\ off'[q] = off[q],
           ProgressOf(pc[s], snap[s], sums[s], todo[s], off[s])
             => ProgressOf(pc'[s], snap'[s], sums'[s], todo'[s], off'[s]),
           pc'[s] # "new",
           FileIs(file, s, pc[s], snap[s], sums[s], todo[s], off[s])
             => FileIs(file', s, pc'[s], snap'[s], sums'[s], todo'[s], off'[s])
    PROVE  Progress' /\ Alone'
<1>1. Progress'
  <2> SUFFICES ASSUME NEW q \in Saves
               PROVE  ProgressOf(pc'[q], snap'[q], sums'[q], todo'[q], off'[q])
    BY DEF Progress
  <2>1. ProgressOf(pc[q], snap[q], sums[q], todo[q], off[q])
    BY DEF IInv, Progress
  <2> QED
    BY <2>1, Zenon
<1>2. Alone'
  <2> SUFFICES ASSUME latest # 0 PROVE pc'[latest] # "new" /\ (~mixed[latest] => AloneIs(latest)')
    BY DEF Alone
  <2>1. latest \in Saves /\ pc[latest] # "new" /\ (~mixed[latest] => AloneIs(latest))
    BY DEF IInv, Types, Alone
  <2>2. pc'[latest] # "new"
    BY <2>1, Zenon
  <2>3. ASSUME ~mixed[latest] PROVE AloneIs(latest)'
    <3>1. AloneIs(latest)
      BY <2>1, <2>3
    <3>2. s = latest
      BY <3>1 DEF AloneIs
    <3>3. \A q \in Saves : q # s => ~Running(q)'
      BY <3>1, <3>2 DEF AloneIs, Running
    <3>4. FileIs(file', s, pc'[s], snap'[s], sums'[s], todo'[s], off'[s])
      BY <3>1, <3>2 DEF AloneIs
    <3> QED
      BY <3>2, <3>3, <3>4 DEF AloneIs
  <2> QED
    BY <2>2, <2>3
<1> QED
  BY <1>1, <1>2

\* A SAVE exports the store.
LEMMA ExportInv ==
    ASSUME IInv, NEW s \in Saves, Export(s)
    PROVE  IInv'
<1>1. /\ UNCHANGED <<now, store, up, exists, file, off, mixed, latest>> /\ pc[s] = "created"
      /\ snap' = [snap EXCEPT ![s] = store] /\ pc' = [pc EXCEPT ![s] = "writing"]
  BY DEF Export
<1>2. PICK order \in SetToSeqs(DOMAIN store) :
        /\ sums' = [sums EXCEPT ![s] = FlattenSeq(SaveRDB(store, order))]
        /\ todo' = [todo EXCEPT ![s] = Calls(s, store, SaveRDB(store, order))]
  BY DEF Export, Calls
<1>3. PICK calls, sm : calls = SaveRDB(store, order) /\ sm = FlattenSeq(calls)
  OBVIOUS
<1>4. IsData(Chars, store)
  BY DEF IInv, Types
<1>5. PICK td : td = Calls(s, store, calls)
  OBVIOUS
<1>6. /\ sm \in Seq(Chars) /\ td \in Seq(Seq(Chars)) /\ SavedAs(store, sm)
      /\ FlattenSeq(td) = WholeOf(s, store, sm) /\ Len(FlattenSeq(td)) <= Len(sm) + 8
  BY <1>2, <1>3, <1>4, <1>5, ExportIs
<1>7. sums' = [sums EXCEPT ![s] = sm] /\ todo' = [todo EXCEPT ![s] = td]
  BY <1>2, <1>3, <1>5
<1>8. /\ pc \in [Saves -> Phases] /\ todo \in [Saves -> Seq(Seq(Chars))] /\ sums \in [Saves -> Seq(Chars)]
      /\ snap = [q \in Saves |-> snap[q]] /\ off \in [Saves -> Nat]
  BY DEF IInv, Types
<1>9. /\ pc'[s] = "writing" /\ snap'[s] = store /\ sums'[s] = sm /\ todo'[s] = td /\ off'[s] = off[s]
      /\ \A q \in Saves : q # s => /\ pc'[q] = pc[q] /\ snap'[q] = snap[q] /\ sums'[q] = sums[q]
                                   /\ todo'[q] = todo[q] /\ off'[q] = off[q]
  BY <1>1, <1>7, <1>8
<1>10. Types'
  <2>1. pc' \in [Saves -> Phases]
    BY <1>1, <1>8 DEF Phases
  <2>2. todo' \in [Saves -> Seq(Seq(Chars))] /\ sums' \in [Saves -> Seq(Chars)]
    BY <1>6, <1>7, <1>8
  <2>3. snap' = [q \in Saves |-> snap'[q]]
    BY <1>1, <1>8
  <2>4. \A q \in Saves : IsData(Chars, snap'[q])
    BY <1>4, <1>9, Zenon DEF IInv, Types
  <2>5. /\ now' \in 1 .. MaxTime /\ up' \in BOOLEAN /\ exists' \in BOOLEAN /\ IsData(Chars, store')
        /\ file' \in Seq(Chars) /\ off' \in [Saves -> Nat] /\ mixed' \in [Saves -> BOOLEAN]
        /\ latest' \in Saves \cup {0}
    BY <1>1 DEF IInv, Types
  <2> QED
    BY <2>1, <2>2, <2>3, <2>4, <2>5 DEF Types
<1>11. ASSUME ProgressOf(pc[s], snap[s], sums[s], todo[s], off[s])
       PROVE  off[s] = 0 /\ ProgressOf("writing", store, sm, td, off[s])
  <2>1. off[s] = 0
    BY <1>1, <1>11 DEF ProgressOf
  <2>2. PICK x \in Nat : x = Len(FlattenSeq(td))
    BY <1>6, FlatType
  <2>3. off[s] + Len(FlattenSeq(td)) <= Len(sm) + 8
    BY <1>6, <2>1, <2>2
  <2> QED
    BY <1>6, <2>1, <2>3 DEF ProgressOf
<1>12. ASSUME FileIs(file, s, pc[s], snap[s], sums[s], todo[s], off[s])
       PROVE  FileIs(file', s, "writing", store, sm, td, off[s])
  <2>1. file = <<>> /\ file' = <<>>
    BY <1>1, <1>12 DEF FileIs
  <2>2. off[s] = 0
    BY <1>11 DEF IInv, Progress
  <2>3. FlattenSeq(td) \in Seq(Chars)
    BY <1>6, FlatType
  <2>4. <<>> \o FlattenSeq(td) = FlattenSeq(td) /\ Len(<<>>) = 0
    BY <2>3
  <2> QED
    BY <1>6, <2>1, <2>2, <2>4 DEF FileIs
<1>13. Progress' /\ Alone'
  <2>1. Running(s)
    BY <1>1 DEF Running
  <2>2. latest' = latest /\ mixed' = mixed /\ pc'[s] # "new"
    BY <1>1, <1>9
  <2> QED
    BY <1>9, <1>11, <1>12, <2>1, <2>2, OthersInv
<1> QED
  BY <1>10, <1>13 DEF IInv

\* A SAVE writes.
LEMMA WriteInv ==
    ASSUME IInv, NEW s \in Saves, Write(s)
    PROVE  IInv'
<1>1. /\ UNCHANGED <<now, store, up, exists, pc, snap, sums, mixed, latest>>
      /\ pc[s] = "writing" /\ todo[s] # <<>>
      /\ file' = Overlay(file, off[s], Head(todo[s]))
      /\ off' = [off EXCEPT ![s] = off[s] + Len(Head(todo[s]))]
      /\ todo' = [todo EXCEPT ![s] = Tail(todo[s])]
  BY DEF Write
<1>2. /\ todo \in [Saves -> Seq(Seq(Chars))] /\ off \in [Saves -> Nat] /\ file \in Seq(Chars)
  BY DEF IInv, Types
<1>3. PICK td \in Seq(Seq(Chars)), o \in Nat : td = todo[s] /\ o = off[s]
  BY <1>2
<1>4. PICK h, r : h = Head(td) /\ r = Tail(td)
  OBVIOUS
<1>5. /\ h \in Seq(Chars) /\ r \in Seq(Seq(Chars)) /\ o + Len(h) \in Nat
      /\ (o + Len(h)) + Len(FlattenSeq(r)) = o + Len(FlattenSeq(td))
      /\ Overlay(file, o, h) \in Seq(Chars)
      /\ o = Len(file) => /\ Overlay(file, o, h) \o FlattenSeq(r) = file \o FlattenSeq(td)
                          /\ Len(Overlay(file, o, h)) = o + Len(h)
  <2>1. td # <<>>
    BY <1>1, <1>3
  <2> QED
    BY <1>2, <1>4, <2>1, WriteIs
<1>6. /\ file' = Overlay(file, o, h) /\ off'[s] = o + Len(h) /\ todo'[s] = r
      /\ \A q \in Saves : q # s => todo'[q] = todo[q] /\ off'[q] = off[q]
  BY <1>1, <1>2, <1>3, <1>4
<1>7. Types'
  <2>1. todo' \in [Saves -> Seq(Seq(Chars))] /\ off' \in [Saves -> Nat]
    BY <1>1, <1>2, <1>3, <1>4, <1>5
  <2>2. file' \in Seq(Chars)
    BY <1>5, <1>6
  <2>3. /\ now' \in 1 .. MaxTime /\ up' \in BOOLEAN /\ exists' \in BOOLEAN /\ IsData(Chars, store')
        /\ pc' \in [Saves -> Phases] /\ snap' = [q \in Saves |-> snap'[q]]
        /\ (\A q \in Saves : IsData(Chars, snap'[q]))
        /\ sums' \in [Saves -> Seq(Chars)] /\ mixed' \in [Saves -> BOOLEAN] /\ latest' \in Saves \cup {0}
    BY <1>1 DEF IInv, Types
  <2> QED
    BY <2>1, <2>2, <2>3 DEF Types
<1>8. ASSUME ProgressOf(pc[s], snap[s], sums[s], td, o)
      PROVE  ProgressOf("writing", snap[s], sums[s], r, o + Len(h))
  BY <1>1, <1>5, <1>8, Zenon DEF ProgressOf
<1>9. ASSUME FileIs(file, s, pc[s], snap[s], sums[s], td, o)
      PROVE  FileIs(file', s, "writing", snap[s], sums[s], r, o + Len(h))
  <2>1. o = Len(file) /\ file \o FlattenSeq(td) = WholeOf(s, snap[s], sums[s])
    BY <1>1, <1>9 DEF FileIs
  <2>2. file' \o FlattenSeq(r) = WholeOf(s, snap[s], sums[s]) /\ Len(file') = o + Len(h)
    BY <1>5, <1>6, <2>1
  <2> QED
    BY <2>2 DEF FileIs
<1>10. Progress' /\ Alone'
  <2>1. Running(s)
    BY <1>1 DEF Running
  <2>2. latest' = latest /\ mixed' = mixed /\ pc'[s] = "writing" /\ pc' = pc /\ snap' = snap /\ sums' = sums
    BY <1>1
  <2>3. pc'[s] # "new"
    BY <2>2
  <2> QED
    BY <1>3, <1>6, <1>8, <1>9, <2>1, <2>2, <2>3, OthersInv
<1> QED
  BY <1>7, <1>10 DEF IInv

\* A SAVE answers.
LEMMA AnswerInv ==
    ASSUME IInv, NEW s \in Saves, Answer(s)
    PROVE  IInv'
<1>1. /\ UNCHANGED <<now, store, up, exists, file, todo, off, snap, sums, mixed, latest>>
      /\ pc[s] = "writing" /\ todo[s] = <<>>
      /\ pc' = [pc EXCEPT ![s] = IF SaveFails(snap[s]) THEN "failed" ELSE "ok"]
  BY DEF Answer
<1>2. pc \in [Saves -> Phases] /\ file \in Seq(Chars)
  BY DEF IInv, Types
<1>3. PICK p : p = IF SaveFails(snap[s]) THEN "failed" ELSE "ok"
  OBVIOUS
<1>4. pc'[s] = p /\ \A q \in Saves : q # s => pc'[q] = pc[q]
  BY <1>1, <1>2, <1>3
<1>5. p \in {"failed", "ok"} /\ (p = "ok" => ~SaveFails(snap[s]))
  BY <1>3
<1>6. Types'
  <2>1. pc' \in [Saves -> Phases]
    BY <1>1, <1>2, <1>3, <1>5 DEF Phases
  <2> QED
    BY <1>1, <2>1 DEF IInv, Types
<1>7. ASSUME ProgressOf(pc[s], snap[s], sums[s], todo[s], off[s])
      PROVE  ProgressOf(p, snap[s], sums[s], todo[s], off[s])
  BY <1>1, <1>5, <1>7 DEF ProgressOf
<1>8. ASSUME FileIs(file, s, pc[s], snap[s], sums[s], todo[s], off[s])
      PROVE  FileIs(file, s, p, snap[s], sums[s], todo[s], off[s])
  <2>1. file \o FlattenSeq(todo[s]) = WholeOf(s, snap[s], sums[s])
    BY <1>1, <1>8 DEF FileIs
  <2>2. FlattenSeq(todo[s]) = <<>>
    BY <1>1, FlatEmpty
  <2>3. file \o <<>> = file
    BY <1>2
  <2>4. file = WholeOf(s, snap[s], sums[s])
    BY <2>1, <2>2, <2>3
  <2> QED
    BY <1>5, <2>4 DEF FileIs
<1>9. Progress' /\ Alone'
  <2>1. Running(s)
    BY <1>1 DEF Running
  <2>2. /\ latest' = latest /\ mixed' = mixed /\ snap' = snap /\ sums' = sums /\ todo' = todo /\ off' = off
        /\ file' = file
    BY <1>1
  <2>3. pc'[s] # "new"
    BY <1>4, <1>5
  <2> QED
    BY <1>4, <1>7, <1>8, <2>1, <2>2, <2>3, OthersInv
<1> QED
  BY <1>6, <1>9 DEF IInv

\* The file after the process was killed.
TornBy(s) ==
    /\ pc[s] = "writing" /\ todo[s] # <<>>
    /\ \E n \in 1 .. Len(Head(todo[s])) - 1 : file' = Overlay(file, off[s], SubSeq(Head(todo[s]), 1, n))

\* It is a file, and if it was the one of a SAVE that was alone, it was cut.
LEMMA TornIs ==
    ASSUME IInv, NEW s \in Saves, TornBy(s)
    PROVE  /\ file' \in Seq(Chars)
           /\ off[s] = Len(file) => Cut(file', file \o FlattenSeq(todo[s]))
<1>1. PICK td \in Seq(Seq(Chars)), o \in Nat : td = todo[s] /\ o = off[s]
  BY DEF IInv, Types
<1>2. PICK n \in 1 .. Len(Head(td)) - 1 : file' = Overlay(file, o, SubSeq(Head(td), 1, n))
  BY <1>1 DEF TornBy
<1>3. td # <<>> /\ file \in Seq(Chars)
  BY <1>1 DEF IInv, Types, TornBy
<1>4. /\ Overlay(file, o, SubSeq(Head(td), 1, n)) \in Seq(Chars)
      /\ o = Len(file) => Cut(Overlay(file, o, SubSeq(Head(td), 1, n)), file \o FlattenSeq(td))
  BY <1>3, CutCall
<1> QED
  BY <1>1, <1>2, <1>4

\* The process is killed.
LEMMA CrashInv ==
    ASSUME IInv, Crash
    PROVE  IInv'
<1>1. /\ UNCHANGED <<now, exists, off, snap, sums, mixed, latest>> /\ up' = FALSE /\ store' = Empty
      /\ pc' = [s \in Saves |-> IF Running(s) THEN "cut" ELSE pc[s]] /\ todo' = [s \in Saves |-> <<>>]
  BY DEF Crash
<1>2. file' = file \/ \E s \in Saves : TornBy(s)
  BY DEF Crash, TornBy
<1>3. \A s \in Saves : pc'[s] = (IF Running(s) THEN "cut" ELSE pc[s]) /\ todo'[s] = <<>>
  BY <1>1
<1>4. /\ pc \in [Saves -> Phases] /\ todo \in [Saves -> Seq(Seq(Chars))] /\ off \in [Saves -> Nat]
      /\ sums \in [Saves -> Seq(Chars)] /\ file \in Seq(Chars)
  BY DEF IInv, Types
<1>5. Types'
  <2>1. pc' \in [Saves -> Phases]
    BY <1>1, <1>4 DEF Phases
  <2>2. todo' \in [Saves -> Seq(Seq(Chars))]
    BY <1>1
  <2>3. file' \in Seq(Chars)
    BY <1>2, <1>4, TornIs
  <2>4. IsData(Chars, store')
    BY <1>1, EmptyData, Zenon
  <2>5. /\ now' \in 1 .. MaxTime /\ up' \in BOOLEAN /\ exists' \in BOOLEAN /\ off' \in [Saves -> Nat]
        /\ snap' = [q \in Saves |-> snap'[q]] /\ (\A q \in Saves : IsData(Chars, snap'[q]))
        /\ sums' \in [Saves -> Seq(Chars)] /\ mixed' \in [Saves -> BOOLEAN] /\ latest' \in Saves \cup {0}
    BY <1>1 DEF IInv, Types
  <2> QED
    BY <2>1, <2>2, <2>3, <2>4, <2>5 DEF Types
<1>6. Progress'
  <2> SUFFICES ASSUME NEW q \in Saves
               PROVE  ProgressOf(pc'[q], snap[q], sums[q], <<>>, off[q])
    BY <1>1, <1>3 DEF Progress
  <2>1. ProgressOf(pc[q], snap[q], sums[q], todo[q], off[q])
    BY DEF IInv, Progress
  <2>2. off[q] + Len(FlattenSeq(<<>>)) <= Len(sums[q]) + 8
    <3>1. PICK o \in Nat, x \in Nat, y \in Nat : o = off[q] /\ x = Len(FlattenSeq(todo[q])) /\ y = Len(sums[q])
      <4>1. todo[q] \in Seq(Seq(Chars)) /\ sums[q] \in Seq(Chars)
        BY <1>4
      <4>2. FlattenSeq(todo[q]) \in Seq(Chars)
        BY <4>1, FlatType
      <4>3. PICK x \in Nat : x = Len(FlattenSeq(todo[q]))
        BY <4>2
      <4>4. PICK y \in Nat : y = Len(sums[q])
        BY <4>1
      <4> QED
        BY <1>4, <4>3, <4>4
    <3>2. o + x <= y + 8
      BY <2>1, <3>1 DEF ProgressOf
    <3>3. o + 0 <= y + 8
      BY <3>1, <3>2
    <3>4. FlattenSeq(<<>>) = <<>> /\ Len(<<>>) = 0
      BY FlatEmpty
    <3> QED
      BY <3>1, <3>3, <3>4
  <2>3. CASE Running(q)
    <3>1. pc'[q] = "cut"
      BY <1>3, <2>3
    <3> QED
      BY <2>2, <3>1 DEF ProgressOf
  <2>4. CASE ~Running(q)
    <3>1. pc'[q] = pc[q]
      BY <1>3, <2>4
    <3> QED
      BY <2>1, <2>2, <3>1 DEF ProgressOf
  <2> QED
    BY <2>3, <2>4
<1>7. Alone'
  <2> SUFFICES ASSUME latest # 0 PROVE pc'[latest] # "new" /\ (~mixed[latest] => AloneIs(latest)')
    BY <1>1 DEF Alone
  <2>1. latest \in Saves /\ pc[latest] # "new" /\ (~mixed[latest] => AloneIs(latest))
    BY DEF IInv, Types, Alone
  <2>2. PICK s \in Saves : s = latest
    BY <2>1
  <2>3. pc'[s] # "new"
    BY <1>3, <2>1, <2>2
  <2>4. ASSUME ~mixed[s] PROVE AloneIs(s)'
    <3>1. AloneIs(s)
      BY <2>1, <2>2, <2>4
    <3>2. \A q \in Saves : ~Running(q)'
      <4>1. ASSUME NEW q \in Saves PROVE pc'[q] \notin {"created", "writing"}
        BY <1>3 DEF Running
      <4> QED
        BY <4>1 DEF Running
    <3>3. FileIs(file, s, pc[s], snap[s], sums[s], todo[s], off[s])
      BY <3>1 DEF AloneIs
    <3>4. \A q \in Saves : TornBy(q) => q = s
      BY <3>1 DEF AloneIs, TornBy, Running
    <3>5. ProgressOf(pc[s], snap[s], sums[s], todo[s], off[s])
      BY DEF IInv, Progress
    <3>6. CASE pc[s] = "created"
      <4>1. file' = file
        BY <1>2, <3>4, <3>6 DEF TornBy
      <4>2. pc'[s] = "cut"
        BY <1>3, <3>6 DEF Running
      <4>3. file' = <<>>
        BY <3>3, <3>6, <4>1 DEF FileIs
      <4>4. FileIs(file', s, "cut", snap[s], sums[s], <<>>, off[s])
        BY <4>3 DEF FileIs
      <4> QED
        BY <1>1, <1>3, <3>2, <4>2, <4>4 DEF AloneIs
    <3>7. CASE pc[s] = "writing"
      <4>1. pc'[s] = "cut"
        BY <1>3, <3>7 DEF Running
      <4>2. off[s] = Len(file) /\ file \o FlattenSeq(todo[s]) = WholeOf(s, snap[s], sums[s])
        BY <3>3, <3>7 DEF FileIs
      <4>3. SavedAs(snap[s], sums[s])
        BY <3>5, <3>7 DEF ProgressOf
      <4>4. Cut(file', file \o FlattenSeq(todo[s]))
        <5>1. CASE file' = file
          <6>1. FlattenSeq(todo[s]) \in Seq(Chars)
            BY <1>4, FlatType
          <6>2. Cut(file, file \o FlattenSeq(todo[s]))
            BY <1>4, <6>1, CutJoined
          <6> QED
            BY <5>1, <6>2
        <5>2. CASE TornBy(s)
          BY <4>2, <5>2, TornIs
        <5> QED
          BY <1>2, <3>4, <5>1, <5>2
      <4>5. FileIs(file', s, "cut", snap[s], sums[s], <<>>, off[s])
        BY <4>2, <4>3, <4>4 DEF FileIs
      <4> QED
        BY <1>1, <1>3, <3>2, <4>1, <4>5 DEF AloneIs
    <3>8. CASE pc[s] \notin {"created", "writing"}
      <4>1. file' = file
        BY <1>2, <3>4, <3>8 DEF TornBy
      <4>2. pc'[s] = pc[s]
        BY <1>3, <3>8 DEF Running
      <4>3. FileIs(file', s, pc[s], snap[s], sums[s], <<>>, off[s])
        BY <3>3, <3>8, <4>1 DEF FileIs
      <4> QED
        BY <1>1, <1>3, <3>2, <4>2, <4>3 DEF AloneIs
    <3> QED
      BY <3>6, <3>7, <3>8
  <2> QED
    BY <1>1, <2>2, <2>3, <2>4
<1> QED
  BY <1>5, <1>6, <1>7 DEF IInv

\* Every step keeps the invariant.
LEMMA NextInv == IInv /\ [Next]_vars => IInv'
<1> SUFFICES ASSUME IInv, [Next]_vars PROVE IInv'
  OBVIOUS
<1>1. CASE UNCHANGED vars
  <2>1. UNCHANGED <<file, saveVars>> /\ UNCHANGED <<now, store, up, exists>>
    BY <1>1 DEF vars, saveVars
  <2>2. Progress' /\ Alone'
    BY <2>1, SameSaves
  <2>3. Types'
    BY <2>1 DEF IInv, Types, saveVars
  <2> QED
    BY <2>2, <2>3 DEF IInv
<1>2. CASE \E w \in Writes : Set(w[1], w[2])
  BY <1>2, SetInv
<1>3. CASE Tick
  BY <1>3, TickInv
<1>4. CASE \E s \in Saves : Create(s)
  BY <1>4, CreateInv
<1>5. CASE \E s \in Saves : Export(s)
  BY <1>5, ExportInv
<1>6. CASE \E s \in Saves : Write(s)
  BY <1>6, WriteInv
<1>7. CASE \E s \in Saves : Answer(s)
  BY <1>7, AnswerInv
<1>8. CASE Crash
  BY <1>8, CrashInv
<1>9. CASE Start
  BY <1>9, StartInv
<1> QED
  BY <1>1, <1>2, <1>3, <1>4, <1>5, <1>6, <1>7, <1>8, <1>9 DEF Next

\* So it always holds.
LEMMA Invariant == Spec => []IInv
<1> QED
  BY InitInv, NextInv, PTL DEF Spec

(***************************************************************************)
(* The theorems.                                                           *)
(***************************************************************************)
\* The variables have their types: bytes, maps of strings and streams, and an
\* offset that no SAVE moves beyond what it exported and its checksum.
THEOREM SnapshotTypeOK == Spec => []TypeOK
<1>1. ASSUME IInv PROVE TypeOK
  <2>1. /\ now \in 1 .. MaxTime /\ up \in BOOLEAN /\ exists \in BOOLEAN
        /\ latest \in Saves \cup {0}
    BY <1>1 DEF IInv, Types
  <2>2. pc \in [Saves -> {"new", "created", "writing", "ok", "failed", "cut"}]
    BY <1>1 DEF IInv, Types, Phases
  <2>3. ASSUME NEW k \in DOMAIN store PROVE store[k].type \in {"string", "stream"}
    <3>1. IsValue(Chars, store[k])
      BY <1>1, <2>3, Zenon DEF IInv, Types, IsData
    <3> QED
      BY <3>1, ValueIs
  <2>4. ASSUME NEW i \in DOMAIN file PROVE file[i] \in 0 .. 256 + NSaves
    <3>1. file \in Seq(Chars)
      BY <1>1 DEF IInv, Types
    <3>2. i \in 1 .. Len(file)
      BY <2>4, <3>1
    <3> QED
      BY <3>1, <3>2, ElementOfSeq DEF Chars
  <2>5. ASSUME NEW s \in Saves PROVE off[s] <= Len(sums[s]) + 8
    <3>1. todo[s] \in Seq(Seq(Chars)) /\ sums[s] \in Seq(Chars) /\ off[s] \in Nat
      BY <1>1 DEF IInv, Types
    <3>2. FlattenSeq(todo[s]) \in Seq(Chars)
      BY <3>1, FlatType
    <3>3. PICK x \in Nat : x = Len(FlattenSeq(todo[s]))
      BY <3>2
    <3>4. PICK y \in Nat, o \in Nat : y = Len(sums[s]) /\ o = off[s]
      BY <3>1
    <3>5. o + x <= y + 8
      BY <1>1, <3>3, <3>4 DEF IInv, Progress, ProgressOf
    <3>6. o <= y + 8
      BY <3>5
    <3> QED
      BY <3>4, <3>6
  <2> QED
    BY <2>1, <2>2, <2>3, <2>4, <2>5 DEF TypeOK
<1> QED
  BY <1>1, Invariant, PTL

\* What WholeOf gives is the file of the layout, with or without the checksum.
LEMMA WholeIs ==
    ASSUME IInv, NEW s \in Saves, NEW order, OrderOf(snap[s], order),
           sums[s] = FlattenSeq(SaveRDB(snap[s], order))
    PROVE  /\ WholeOf(s, snap[s], sums[s]) \in Seq(Chars)
           /\ At(WholeOf(s, snap[s], sums[s]), 0, sums[s])
           /\ SaveFails(snap[s]) => Len(WholeOf(s, snap[s], sums[s])) = Len(sums[s])
           /\ FileLoads(snap[s], order, now, WholeOf(s, snap[s], sums[s]))
<1>1. PICK sm, d : sm \in Seq(Chars) /\ sm = sums[s] /\ d = snap[s] /\ IsData(Chars, d)
  BY DEF IInv, Types
<1> DEFINE c == writeChecksum(s)[1]
           W == WholeOf(s, d, sm)
<1>2. c \in Seq(Chars)
  BY ChecksumType
<1> HIDE DEF c
<1>3. W = (IF SaveFails(d) THEN sm ELSE sm \o c)
  BY DEF WholeOf, c
<1>4. sm \o c \in Seq(Chars) /\ Cut(sm, sm \o c)
  BY <1>1, <1>2, ConcatProperties, CutJoined
<1>5. Cut(sm, sm)
  BY <1>1 DEF Cut
<1> HIDE DEF W
<1>6. W \in Seq(Chars) /\ Cut(sm, W) /\ (SaveFails(d) => W = sm)
  BY <1>1, <1>3, <1>4, <1>5
<1>7. At(W, 0, sm)
  <2>1. PICK x \in Nat, y \in Nat : x = Len(sm) /\ y = Len(W)
    BY <1>1, <1>6
  <2>2. x <= y /\ \A j \in 1 .. x : sm[j] = W[j]
    BY <1>6, <2>1 DEF Cut
  <2>3. 0 + x <= y /\ \A j \in 1 .. x : 0 + j = j
    BY <2>2
  <2>4. \A j \in 1 .. x : W[0 + j] = sm[j]
    BY <2>2, <2>3, Zenon
  <2> QED
    BY <2>1, <2>3, <2>4 DEF At
<1>8. OrderOf(d, order) /\ sm = FlattenSeq(SaveRDB(d, order))
  BY <1>1
<1>9. Len(W) = Len(sm) \/ FirstStream(d, order) > Len(order)
  <2>1. CASE SaveFails(d)
    BY <1>6, <2>1
  <2>2. CASE ~SaveFails(d)
    BY <1>1, <1>8, <2>2, AllSaved
  <2> QED
    BY <2>1, <2>2
<1>10. FileLoads(d, order, now, W)
  <2>1. Byte \subseteq Chars /\ Chars \subseteq Nat
    BY CharFacts
  <2> QED
    BY <1>1, <1>6, <1>7, <1>8, <1>9, <2>1, FileRead
<1> QED
  BY <1>1, <1>6, <1>7, <1>10 DEF W

\* The file of a SAVE that did not fail, with its checksum, is loaded exactly.
LEMMA ChecksumLoads ==
    ASSUME IInv, NEW s \in Saves, pc[s] = "ok", file = sums[s] \o writeChecksum(s)[1]
    PROVE  /\ ParseRDB(file, sums, now).ok
           /\ ParseRDB(file, sums, now).val = [k \in Live(snap[s]) |-> snap[s][k]]
<1>1. SavedAs(snap[s], sums[s]) /\ ~SaveFails(snap[s])
  <2>1. ProgressOf(pc[s], snap[s], sums[s], todo[s], off[s])
    BY DEF IInv, Progress
  <2> QED
    BY <2>1 DEF ProgressOf
<1>2. PICK order : OrderOf(snap[s], order) /\ sums[s] = FlattenSeq(SaveRDB(snap[s], order))
  BY <1>1 DEF SavedAs
<1>3. file = WholeOf(s, snap[s], sums[s])
  BY <1>1 DEF WholeOf
<1>4. At(file, 0, FlattenSeq(SaveRDB(snap[s], order)))
  BY <1>2, <1>3, WholeIs
<1>5. verifyChecksum(file, sums)
  BY DEF IInv, Types, verifyChecksum
<1>6. now \in Nat /\ file \in Seq(Chars) /\ IsData(Chars, snap[s])
  BY DEF IInv, Types
<1>7. Live(snap[s]) = LiveAt(snap[s], now)
  BY DEF Live, LiveAt
<1>8. PICK d, t, f : d = snap[s] /\ t = now /\ f = file /\ t \in Nat /\ f \in Seq(Chars) /\ IsData(Chars, d)
  BY <1>6
<1>9. /\ OrderOf(d, order) /\ ~SaveFails(d) /\ At(f, 0, FlattenSeq(SaveRDB(d, order))) /\ verifyChecksum(f, sums)
      /\ Byte \subseteq Chars /\ Chars \subseteq Nat /\ IsData(Chars, d) /\ t \in Nat /\ f \in Seq(Chars)
  BY <1>1, <1>2, <1>4, <1>5, <1>8, CharFacts
<1>10. ParseRDB(f, sums, t).ok /\ ParseRDB(f, sums, t).val = LiveData(d, t)
  BY <1>9, WholeFile
<1> QED
  BY <1>7, <1>8, <1>10 DEF LiveData

\* The whole point of SAVE: the file of one that answered OK, alone, gives back
\* exactly what it exported and has not expired.
THEOREM SavedLoads == Spec => []SavedFileLoads
<1>1. ASSUME IInv PROVE SavedFileLoads
  <2> SUFFICES ASSUME latest # 0, pc[latest] = "ok", ~mixed[latest]
               PROVE  /\ ParseRDB(file, sums, now).ok
                      /\ ParseRDB(file, sums, now).val = [k \in Live(snap[latest]) |-> snap[latest][k]]
    BY DEF SavedFileLoads
  <2>1. latest \in Saves /\ AloneIs(latest)
    BY <1>1 DEF IInv, Types, Alone
  <2>2. file = WholeOf(latest, snap[latest], sums[latest])
    BY <2>1 DEF AloneIs, FileIs
  <2>3. ~SaveFails(snap[latest])
    BY <1>1, <2>1 DEF IInv, Progress, ProgressOf
  <2>4. file = sums[latest] \o writeChecksum(latest)[1]
    BY <2>2, <2>3 DEF WholeOf
  <2> QED
    BY <1>1, <2>1, <2>4, ChecksumLoads
<1> QED
  BY <1>1, Invariant, PTL

\* A start never makes up a key or a value, however a SAVE that was alone ended.
THEOREM LoadedSaved == Spec => []LoadedWasSaved
<1>1. ASSUME IInv PROVE LoadedWasSaved
  <2> SUFFICES ASSUME latest # 0, ~mixed[latest]
               PROVE  ParseRDB(file, sums, now).ok => Part(ParseRDB(file, sums, now).val, snap[latest])
    BY DEF LoadedWasSaved
  <2>1. latest \in Saves /\ AloneIs(latest) /\ pc[latest] # "new" /\ pc[latest] \in Phases
    BY <1>1 DEF IInv, Types, Alone
  <2>2. PICK s \in Saves : s = latest
    BY <2>1
  <2>3. FileIs(file, s, pc[s], snap[s], sums[s], todo[s], off[s])
    BY <2>1, <2>2 DEF AloneIs
  <2>4. file \in Seq(Chars) /\ todo[s] \in Seq(Seq(Chars))
    BY <1>1 DEF IInv, Types
  <2>5. ProgressOf(pc[s], snap[s], sums[s], todo[s], off[s])
    BY <1>1 DEF IInv, Progress
  <2>6. CASE file = <<>>
    <3>1. ~Has(file, 1, 9)
      BY <2>6 DEF Has
    <3>2. ParseRDB(file, sums, now) = Failed
      BY <3>1 DEF ParseRDB
    <3> QED
      BY <3>2, FailedFields
  <2>7. CASE file # <<>>
    <3> DEFINE W == WholeOf(s, snap[s], sums[s])
    <3>1. SavedAs(snap[s], sums[s])
      BY <2>1, <2>2, <2>3, <2>5, <2>7 DEF FileIs, ProgressOf, Phases
    <3>2. Cut(file, W)
      <4>1. CASE pc[s] = "writing"
        <5>1. file \o FlattenSeq(todo[s]) = W
          BY <2>3, <4>1 DEF FileIs
        <5>2. FlattenSeq(todo[s]) \in Seq(Chars)
          BY <2>4, FlatType
        <5>3. Cut(file, file \o FlattenSeq(todo[s]))
          BY <2>4, <5>2, CutJoined
        <5> QED
          BY <5>1, <5>3
      <4>2. CASE pc[s] \in {"ok", "failed"}
        <5>1. file = W
          BY <2>3, <4>2 DEF FileIs
        <5>2. Cut(file, file)
          BY <2>4 DEF Cut
        <5> QED
          BY <5>1, <5>2
      <4>3. CASE pc[s] = "cut"
        BY <2>3, <2>7, <4>3 DEF FileIs
      <4>4. pc[s] # "created"
        BY <2>3, <2>7 DEF FileIs
      <4> QED
        BY <2>1, <2>2, <4>1, <4>2, <4>3, <4>4 DEF Phases
    <3>3. PICK order : OrderOf(snap[s], order) /\ sums[s] = FlattenSeq(SaveRDB(snap[s], order))
      BY <3>1 DEF SavedAs
    <3>4. FileLoads(snap[s], order, now, W)
      BY <1>1, <3>3, WholeIs
    <3>5. file \in Seq(Nat)
      BY <2>4, CharFacts, SeqMonotonic
    <3> HIDE DEF W
    <3> QED
      BY <2>2, <3>2, <3>4, <3>5, PartOfFile
  <2> QED
    BY <2>6, <2>7
<1> QED
  BY <1>1, Invariant, PTL

\* A mixture of SAVEs that overlapped is refused, unless it is the file of one.
THEOREM MixtureRefused == Spec => []MixtureIsRefused
<1>1. ASSUME IInv PROVE MixtureIsRefused
  <2> DEFINE parsed == ParseRDB(file, sums, now)
             r == ParseRecords(file, 10, now)
  <2> SUFFICES ASSUME \A s \in Saves : pc[s] \in {"new", "ok"}, parsed.ok, parsed.at <= Len(file)
               PROVE  \E s \in Saves : parsed.val = [k \in Live(snap[s]) |-> snap[s][k]]
    BY DEF MixtureIsRefused
  <2>1. parsed = Failed \/ (Has(file, 1, 9) /\ parsed = AtMarker(file, r, sums))
    BY DEF ParseRDB
  <2>2. AtMarker(file, r, sums) = Failed \/ AtMarker(file, r, sums) = r
    BY DEF AtMarker
  <2>3. parsed # Failed
    BY FailedFields
  <2>4. Has(file, 1, 9) /\ parsed = r /\ AtMarker(file, r, sums) = r /\ r # Failed
    BY <2>1, <2>2, <2>3
  <2>5. r.ok /\ r.at <= Len(file)
    BY <2>4
  <2>6. verifyChecksum(file, sums)
    BY <2>4, <2>5 DEF AtMarker
  <2>7. DOMAIN sums = Saves
    BY <1>1 DEF IInv, Types
  <2>8. PICK s \in Saves : file = sums[s] \o writeChecksum(s)[1]
    BY <2>6, <2>7 DEF verifyChecksum
  <2>9. pc[s] # "new"
    <3> SUFFICES ASSUME pc[s] = "new" PROVE FALSE
      OBVIOUS
    <3>1. sums[s] = <<>>
      BY <1>1 DEF IInv, Progress, ProgressOf
    <3>2. PICK c \in Seq(Chars) : c = writeChecksum(s)[1] /\ Len(c) = 8
      BY ChecksumType
    <3>3. file = c
      BY <2>8, <3>1, <3>2
    <3>4. Len(file) = 8
      BY <3>2, <3>3
    <3>5. 1 + 9 - 1 <= Len(file)
      BY <2>4 DEF Has
    <3> QED
      BY <3>4, <3>5
  <2>10. pc[s] = "ok"
    BY <2>9
  <2>11. parsed.val = [k \in Live(snap[s]) |-> snap[s][k]]
    BY <1>1, <2>8, <2>10, ChecksumLoads
  <2> QED
    BY <2>11
<1> QED
  BY <1>1, Invariant, PTL

\* A length that is written is read back, with the reader left behind it.
LEMMA LengthBack ==
    ASSUME NEW n \in Nat, n <= Most
    PROVE  readLength(LengthBytes(n), 1) = Read(n, Len(LengthBytes(n)) + 1)
<1> DEFINE b == LengthBytes(n)
<1>1. b \in Seq(Nat)
  <2>1. Byte \subseteq Nat
    BY DEF Byte
  <2> QED
    BY <2>1, LengthIn, FlatType DEF LengthBytes
<1> HIDE DEF b
<1>2. PICK l \in Nat : l = Len(b)
  BY <1>1
<1>3. At(b, 0, b)
  <2>1. 0 + l <= l /\ \A j \in 1 .. l : 0 + j = j
    BY <1>2
  <2>2. \A j \in 1 .. l : b[0 + j] = b[j]
    BY <2>1
  <2> QED
    BY <1>2, <2>1, <2>2 DEF At
<1>4. 0 \in Nat /\ 0 + 1 = 1
  OBVIOUS
<1>5. LengthOf(b, 0, n)
  BY <1>1, <1>3, <1>4, LengthRead DEF b
<1>6. readLength(b, 0 + 1) = Read(n, 0 + Len(b) + 1)
  BY <1>5, Zenon DEF LengthOf, b
<1>7. 0 + Len(b) + 1 = Len(b) + 1
  BY <1>2
<1> QED
  BY <1>4, <1>6, <1>7 DEF b

\* The lengths of all keys and values, and those at the boundaries, survive.
THEOREM LengthsBack == Spec => []LengthsRoundTrip
<1>1. ASSUME IInv PROVE LengthsRoundTrip
  <2>1. ASSUME NEW n \in Lengths PROVE n \in Nat /\ n <= Most
    <3>1. n \in 0 .. MaxLength
      BY SnapshotAssumption
    <3>2. MaxLength \in Nat /\ Most \in Nat /\ MaxLength <= Most
      BY SMT DEF MaxLength, Most
    <3> QED
      BY <3>1, <3>2
  <2>2. \A x \in Strings(Chars) : Len(x) \in Nat /\ Len(x) <= Most
    BY DEF Strings
  <2>3. ASSUME NEW k \in DOMAIN store
        PROVE  /\ Len(k) \in Nat /\ Len(k) <= Most
               /\ Len(store[k].data) \in Nat /\ Len(store[k].data) <= Most
    <3>1. k \in Strings(Chars) /\ IsValue(Chars, store[k])
      BY <1>1, Zenon DEF IInv, Types, IsData
    <3>2. store[k].data \in Strings(Chars)
      <4>1. CASE store[k] = Stream
        <5>1. store[k].data = <<>> /\ <<>> \in Seq(Chars) /\ Len(<<>>) = 0
          BY <4>1 DEF Stream
        <5>2. 0 <= Most
          BY SMT DEF Most
        <5> QED
          BY <5>1, <5>2 DEF Strings
      <4>2. CASE store[k].type = "string"
        BY <3>1, <4>2, ValueIs DEF StringWith
      <4> QED
        BY <3>1, <4>1, <4>2, ValueIs
    <3> QED
      BY <2>2, <3>1, <3>2
  <2> DEFINE N == IF exists THEN UNION {{Len(k), Len(store[k].data)} : k \in DOMAIN store} ELSE Lengths
  <2>4. ASSUME NEW n \in N PROVE n \in Nat /\ n <= Most
    <3>1. CASE exists
      <4>1. PICK k \in DOMAIN store : n \in {Len(k), Len(store[k].data)}
        BY <2>4, <3>1
      <4> QED
        BY <2>3, <4>1, Zenon
    <3>2. CASE ~exists
      BY <2>1, <2>4, <3>2
    <3> QED
      BY <3>1, <3>2
  <2> HIDE DEF N
  <2>5. \A n \in N : readLength(LengthBytes(n), 1) = Read(n, Len(LengthBytes(n)) + 1)
    BY <2>4, LengthBack
  <2> QED
    BY <2>5 DEF LengthsRoundTrip, LengthBytes, N
<1> QED
  BY <1>1, Invariant, PTL

=============================================================================
