-------------------------- MODULE StreamIdsProofs --------------------------
(***************************************************************************)
(* Proofs about module StreamIds: IDs as strings and as numbers, the       *)
(* generators of IDs, the tree of a stream under XADD and its trimming,    *)
(* and the ranges of XRANGE.                                               *)
(***************************************************************************)
EXTENDS StreamIds, BytesProofs

(***************************************************************************)
(* The tree, over any strings: what AddEntry and trimming do to the shape  *)
(* and the entries of a tree, and that the walk over strings of one length *)
(* meets them in their order.                                              *)
(***************************************************************************)

(***************************************************************************)
(* The order of strings.                                                   *)
(***************************************************************************)
\* Where a is less than b: after n bytes they have in common.
LessAt(a, b, n) ==
    /\ n \in 0 .. Len(a) /\ n < Len(b)
    /\ \A i \in 1 .. n : a[i] = b[i]
    /\ n = Len(a) \/ a[n + 1] < b[n + 1]

\* LessStr, by the place where the strings differ.
LEMMA LessStrAt == \A a, b : LessStr(a, b) <=> \E n : LessAt(a, b, n)
BY DEF LessStr, LessAt

\* No string is less than one that is less than it, nor than itself.
LEMMA LessAsymmetric ==
    ASSUME NEW a \in Seq(Nat), NEW b \in Seq(Nat), LessStr(a, b)
    PROVE  ~LessStr(b, a)
<1> SUFFICES ASSUME LessStr(b, a) PROVE FALSE
  OBVIOUS
<1>1. PICK n : LessAt(a, b, n)
  BY LessStrAt
<1>2. PICK m : LessAt(b, a, m)
  BY LessStrAt
<1>3. n \in Nat /\ m \in Nat /\ Len(a) \in Nat /\ Len(b) \in Nat
  BY <1>1, <1>2 DEF LessAt
<1>4. CASE n < m
  <2>1. n + 1 \in 1 .. m /\ n + 1 <= Len(a) /\ n + 1 <= Len(b)
    BY <1>1, <1>2, <1>3, <1>4 DEF LessAt
  <2>2. a[n + 1] < b[n + 1] /\ b[n + 1] = a[n + 1]
    BY <1>1, <1>2, <1>3, <2>1 DEF LessAt
  <2>3. a[n + 1] \in Nat
    BY <1>3, <2>1
  <2> QED
    BY <2>2, <2>3
<1>5. CASE m < n
  <2>1. m + 1 \in 1 .. n /\ m + 1 <= Len(a) /\ m + 1 <= Len(b)
    BY <1>1, <1>2, <1>3, <1>5 DEF LessAt
  <2>2. b[m + 1] < a[m + 1] /\ b[m + 1] = a[m + 1]
    BY <1>1, <1>2, <1>3, <2>1 DEF LessAt
  <2>3. a[m + 1] \in Nat
    BY <1>3, <2>1
  <2> QED
    BY <2>2, <2>3
<1>6. CASE m = n
  <2>1. n + 1 \in 1 .. Len(a) /\ n + 1 \in 1 .. Len(b)
    BY <1>1, <1>2, <1>3, <1>6 DEF LessAt
  <2>2. a[n + 1] < b[n + 1] /\ b[n + 1] < a[n + 1]
    BY <1>1, <1>2, <1>3, <1>6, <2>1 DEF LessAt
  <2>3. a[n + 1] \in Nat /\ b[n + 1] \in Nat
    BY <1>3, <2>1
  <2> QED
    BY <2>2, <2>3
<1> QED
  BY <1>3, <1>4, <1>5, <1>6

\* What follows two strings of the same length does not change their order.
LEMMA LessBefore ==
    ASSUME NEW u \in Seq(Nat), NEW v \in Seq(Nat), Len(u) = Len(v), LessStr(u, v),
           NEW x \in Seq(Nat), NEW y \in Seq(Nat)
    PROVE  LessStr(u \o x, v \o y)
<1>1. PICK n : LessAt(u, v, n)
  BY LessStrAt
<1>2. /\ Len(u \o x) = Len(u) + Len(x) /\ Len(v \o y) = Len(v) + Len(y)
      /\ \A i \in 1 .. Len(u) : (u \o x)[i] = u[i] /\ (v \o y)[i] = v[i]
      /\ Len(u) \in Nat /\ Len(x) \in Nat /\ Len(y) \in Nat
  OBVIOUS
<1>3. n \in Nat /\ n < Len(u) /\ n + 1 \in 1 .. Len(u) /\ \A i \in 1 .. n : i \in 1 .. Len(u)
  BY <1>1, <1>2 DEF LessAt
<1>4. LessAt(u \o x, v \o y, n)
  BY <1>1, <1>2, <1>3, SMTT(30) DEF LessAt
<1> QED
  BY <1>4, LessStrAt

\* What precedes two strings does not change it either.
LEMMA LessAfter ==
    ASSUME NEW u \in Seq(Nat), NEW x \in Seq(Nat), NEW y \in Seq(Nat), LessStr(x, y)
    PROVE  LessStr(u \o x, u \o y)
<1>1. PICK n : LessAt(x, y, n)
  BY LessStrAt
<1> DEFINE a == u \o x
           b == u \o y
           l == Len(u)
<1>2. l \in Nat /\ Len(x) \in Nat /\ Len(y) \in Nat /\ n \in Nat /\ n <= Len(x) /\ n < Len(y)
  BY <1>1 DEF LessAt
<1>3. /\ Len(a) = l + Len(x) /\ Len(b) = l + Len(y)
      /\ \A i \in 1 .. l : a[i] = u[i] /\ b[i] = u[i]
      /\ \A i \in 1 .. Len(x) : a[l + i] = x[i]
      /\ \A i \in 1 .. Len(y) : b[l + i] = y[i]
  OBVIOUS
<1> HIDE DEF a, b, l
<1>4. ASSUME NEW i \in 1 .. l + n PROVE a[i] = b[i]
  <2>1. CASE i <= l
    BY <1>2, <1>3, <2>1
  <2>2. CASE i > l
    <3> DEFINE j == i - l
    <3>1. j \in 1 .. n /\ j \in 1 .. Len(x) /\ j \in 1 .. Len(y) /\ i = l + j
      BY <1>2, <2>2
    <3>2. x[j] = y[j] /\ a[l + j] = x[j] /\ b[l + j] = y[j]
      BY <1>1, <1>3, <3>1 DEF LessAt
    <3> QED
      BY <3>1, <3>2
  <2> QED
    BY <1>2, <2>1, <2>2
<1>5. l + n = Len(a) \/ a[l + n + 1] < b[l + n + 1]
  <2>1. CASE n = Len(x)
    BY <1>3, <2>1
  <2>2. CASE n # Len(x)
    <3>1. n + 1 \in 1 .. Len(x) /\ n + 1 \in 1 .. Len(y) /\ l + n + 1 = l + (n + 1)
      BY <1>2, <2>2
    <3>2. x[n + 1] < y[n + 1] /\ a[l + (n + 1)] = x[n + 1] /\ b[l + (n + 1)] = y[n + 1]
      BY <1>1, <1>3, <2>2, <3>1 DEF LessAt
    <3> QED
      BY <3>1, <3>2
  <2> QED
    BY <2>1, <2>2
<1>6. l + n \in 0 .. Len(a) /\ l + n < Len(b)
  BY <1>2, <1>3
<1>7. LessAt(a, b, l + n)
  BY <1>4, <1>5, <1>6 DEF LessAt
<1> QED
  BY <1>7, LessStrAt DEF a, b

(***************************************************************************)
(* Prefixes.                                                               *)
(***************************************************************************)
\* A prefix, byte by byte.
LEMMA PrefixBytes ==
    ASSUME NEW p \in Seq(Nat), NEW s \in Seq(Nat)
    PROVE  IsPrefix(p, s) <=> Len(p) <= Len(s) /\ \A i \in 1 .. Len(p) : p[i] = s[i]
<1>1. Len(p) \in Nat /\ Len(s) \in Nat
  OBVIOUS
<1>2. ASSUME Len(p) <= Len(s)
      PROVE  /\ SubSeq(p, 1, Len(p)) = p
             /\ SubSeq(s, 1, Len(p)) \in Seq(Nat) /\ Len(SubSeq(s, 1, Len(p))) = Len(p)
             /\ \A i \in 1 .. Len(p) : SubSeq(s, 1, Len(p))[i] = s[i]
  BY <1>1, <1>2
<1>3. ASSUME Len(p) <= Len(s), \A i \in 1 .. Len(p) : p[i] = s[i]
      PROVE  p = SubSeq(s, 1, Len(p))
  BY <1>1, <1>2, <1>3, SeqEqual
<1> QED
  BY <1>1, <1>2, <1>3 DEF IsPrefix

\* The first n bytes.
LEMMA FirstBytes ==
    ASSUME NEW s \in Seq(Nat), NEW n \in 0 .. Len(s)
    PROVE  /\ SubSeq(s, 1, n) \in Seq(Nat) /\ Len(SubSeq(s, 1, n)) = n
           /\ \A i \in 1 .. n : SubSeq(s, 1, n)[i] = s[i]
           /\ IsPrefix(SubSeq(s, 1, n), s)
<1>1. /\ SubSeq(s, 1, n) \in Seq(Nat) /\ Len(SubSeq(s, 1, n)) = n
      /\ \A i \in 1 .. n : SubSeq(s, 1, n)[i] = s[i]
  OBVIOUS
<1> DEFINE p == SubSeq(s, 1, n)
<1>2. p \in Seq(Nat) /\ Len(p) = n /\ n <= Len(s) /\ \A i \in 1 .. n : p[i] = s[i]
  BY <1>1
<1> HIDE DEF p
<1>3. IsPrefix(p, s)
  BY <1>2, PrefixBytes
<1> QED
  BY <1>1, <1>3 DEF p

\* The path of the root is a prefix of every string.
LEMMA EmptyPrefix ==
    ASSUME NEW s \in Seq(Nat)
    PROVE  IsPrefix(<<>>, s)
<1>1. SubSeq(s, 1, 0) = <<>> /\ 0 \in 0 .. Len(s)
  OBVIOUS
<1> QED
  BY <1>1, FirstBytes

\* A prefix is shorter than the string or is the string.
LEMMA PrefixEqual ==
    ASSUME NEW p \in Seq(Nat), NEW s \in Seq(Nat), IsPrefix(p, s)
    PROVE  Len(p) <= Len(s) /\ (p # s => Len(p) < Len(s))
<1>1. Len(p) \in Nat /\ Len(s) \in Nat /\ Len(p) <= Len(s) /\ \A i \in 1 .. Len(p) : p[i] = s[i]
  BY PrefixBytes
<1>2. Len(p) = Len(s) => p = s
  BY <1>1, SeqEqual
<1> QED
  BY <1>1, <1>2

\* A prefix of a prefix is a prefix.
LEMMA PrefixTransitive ==
    ASSUME NEW p \in Seq(Nat), NEW q \in Seq(Nat), NEW s \in Seq(Nat), IsPrefix(p, q), IsPrefix(q, s)
    PROVE  IsPrefix(p, s)
<1>1. /\ Len(p) \in Nat /\ Len(q) \in Nat /\ Len(s) \in Nat /\ Len(p) <= Len(q) /\ Len(q) <= Len(s)
      /\ \A i \in 1 .. Len(p) : p[i] = q[i]
      /\ \A i \in 1 .. Len(q) : q[i] = s[i]
  BY PrefixBytes
<1>2. Len(p) <= Len(s) /\ \A i \in 1 .. Len(p) : i \in 1 .. Len(q) /\ p[i] = s[i]
  BY <1>1, SMTT(30)
<1> QED
  BY <1>2, PrefixBytes

\* Of the prefixes of s in a set that has one there is a longest.
LEMMA LongestExists ==
    ASSUME NEW P, P \subseteq Seq(Nat), NEW s \in Seq(Nat), \E p \in P : IsPrefix(p, s)
    PROVE  \E p \in P : IsPrefix(p, s) /\ \A q \in P : IsPrefix(q, s) => Len(q) <= Len(p)
<1> DEFINE T == {Len(s) - Len(p) : p \in {p \in P : IsPrefix(p, s)}}
<1>1. \A p \in P : IsPrefix(p, s) => Len(p) \in Nat /\ Len(p) <= Len(s)
  BY PrefixEqual
<1>2. T \subseteq Nat /\ T # {} /\ Len(s) \in Nat
  BY <1>1
<1>3. PICK n \in T : \A m \in T : n <= m
  BY <1>2, Least
<1>4. PICK p \in P : IsPrefix(p, s) /\ n = Len(s) - Len(p)
  BY <1>3
<1>5. ASSUME NEW q \in P, IsPrefix(q, s) PROVE Len(q) <= Len(p)
  <2>1. n <= Len(s) - Len(q)
    BY <1>3, <1>5
  <2> QED
    BY <1>1, <1>2, <1>4, <1>5, <2>1
<1> QED
  BY <1>4, <1>5

\* commonPrefixLength: two strings part behind their longest common prefix.
LEMMA CommonPrefix ==
    ASSUME NEW c \in Seq(Nat), NEW s \in Seq(Nat)
    PROVE  LET q == LongestCommonPrefix({c, s})
           IN  /\ q \in Seq(Nat) /\ IsPrefix(q, c) /\ IsPrefix(q, s)
               /\ \A n \in 0 .. Len(c) :
                    n <= Len(s) /\ (\A i \in 1 .. n : c[i] = s[i]) => n <= Len(q)
               /\ Len(q) < Len(c) /\ Len(q) < Len(s) => c[Len(q) + 1] # s[Len(q) + 1]
<1> DEFINE P == CommonPrefixes({c, s})
           q == LongestCommonPrefix({c, s})
<1>1. Len(c) \in Nat /\ Len(s) \in Nat
  OBVIOUS
<1>2. P = {p \in UNION {Prefixes(c), Prefixes(s)} : IsPrefix(p, c) /\ IsPrefix(p, s)}
  BY DEF CommonPrefixes
<1>3. \A n \in 0 .. Len(c) : SubSeq(c, 1, n) \in Prefixes(c)
  BY DEF Prefixes
<1>4. Prefixes(c) \subseteq Seq(Nat) /\ Prefixes(s) \subseteq Seq(Nat)
  BY FirstBytes DEF Prefixes
<1>5. P \subseteq Seq(Nat) /\ \A p \in P : IsPrefix(p, c) /\ IsPrefix(p, s)
  BY <1>2, <1>4
<1>6. ASSUME NEW n \in 0 .. Len(c), n <= Len(s), \A i \in 1 .. n : c[i] = s[i]
      PROVE  SubSeq(c, 1, n) \in P /\ Len(SubSeq(c, 1, n)) = n
  <2>1. /\ SubSeq(c, 1, n) \in Seq(Nat) /\ Len(SubSeq(c, 1, n)) = n
        /\ \A i \in 1 .. n : SubSeq(c, 1, n)[i] = c[i]
        /\ IsPrefix(SubSeq(c, 1, n), c)
    BY FirstBytes
  <2>2. IsPrefix(SubSeq(c, 1, n), s)
    BY <1>6, <2>1, PrefixBytes
  <2> QED
    BY <1>2, <1>3, <2>1, <2>2
<1>7. \E p \in P : IsPrefix(p, c)
  <2>1. 0 \in 0 .. Len(c) /\ 0 <= Len(s) /\ \A i \in 1 .. 0 : c[i] = s[i]
    BY <1>1
  <2> QED
    BY <1>5, <1>6, <2>1
<1>8. \E p \in P : \A o \in P : Len(o) <= Len(p)
  BY <1>5, <1>7, LongestExists
<1>9. q \in P /\ \A o \in P : Len(o) <= Len(q)
  BY <1>8, Zenon DEF LongestCommonPrefix
<1> HIDE DEF P, q
<1>10. q \in Seq(Nat) /\ IsPrefix(q, c) /\ IsPrefix(q, s) /\ Len(q) \in Nat
  BY <1>5, <1>9
<1>11. \A n \in 0 .. Len(c) : n <= Len(s) /\ (\A i \in 1 .. n : c[i] = s[i]) => n <= Len(q)
  BY <1>6, <1>9
<1>12. ASSUME Len(q) < Len(c), Len(q) < Len(s), c[Len(q) + 1] = s[Len(q) + 1] PROVE FALSE
  <2>1. \A i \in 1 .. Len(q) : q[i] = c[i] /\ q[i] = s[i]
    BY <1>10, PrefixBytes
  <2>2. ASSUME NEW i \in 1 .. Len(q) + 1 PROVE c[i] = s[i]
    <3> DEFINE l == Len(q)
    <3>1. l \in Nat /\ i \in 1 .. l + 1
      BY <1>10
    <3> HIDE DEF l
    <3>2. i \in 1 .. l \/ i = l + 1
      BY <3>1
    <3>3. i \in 1 .. Len(q) \/ i = Len(q) + 1
      BY <3>2, Zenon DEF l
    <3>4. ASSUME i \in 1 .. Len(q) PROVE c[i] = s[i]
      BY <2>1, <3>4, Zenon
    <3>5. ASSUME i = Len(q) + 1 PROVE c[i] = s[i]
      BY <1>12, <3>5, Zenon
    <3> QED
      BY <3>3, <3>4, <3>5, Zenon
  <2>3. Len(q) + 1 \in 0 .. Len(c) /\ Len(q) + 1 <= Len(s)
    BY <1>1, <1>10, <1>12
  <2>4. Len(q) + 1 <= Len(q)
    BY <1>11, <2>2, <2>3, Zenon
  <2> QED
    BY <1>10, <2>4
<1> QED
  BY <1>10, <1>11, <1>12 DEF q

(***************************************************************************)
(* The shape of a tree: the children of a node are nodes below it, and     *)
(* differ in the byte behind its path.                                     *)
(***************************************************************************)
NodeType == [isLeaf : BOOLEAN, entries : Seq(Nat), children : Seq(Seq(Nat))]

Under(p, c) == IsPrefix(p, c) /\ Len(p) < Len(c)
Branch(p, c) == c[Len(p) + 1]

\* A string is a prefix of itself.
LEMMA PrefixSelf ==
    ASSUME NEW p \in Seq(Nat)
    PROVE  IsPrefix(p, p)
<1>1. Len(p) <= Len(p)
  OBVIOUS
<1> QED
  BY <1>1, PrefixBytes

\* Of two prefixes of s the shorter one is a prefix of the other.
LEMMA PrefixTotal ==
    ASSUME NEW a \in Seq(Nat), NEW b \in Seq(Nat), NEW s \in Seq(Nat),
           IsPrefix(a, s), IsPrefix(b, s), Len(a) <= Len(b)
    PROVE  IsPrefix(a, b)
<1>1. /\ Len(a) \in Nat /\ Len(b) \in Nat
      /\ \A i \in 1 .. Len(a) : a[i] = s[i]
      /\ \A i \in 1 .. Len(b) : b[i] = s[i]
  BY PrefixBytes
<1>2. \A i \in 1 .. Len(a) : a[i] = b[i]
  BY <1>1
<1> QED
  BY <1>2, PrefixBytes

\* All that is below c leaves n by the same byte.
LEMMA PrefixBranch ==
    ASSUME NEW n \in Seq(Nat), NEW c \in Seq(Nat), NEW p \in Seq(Nat), Under(n, c), IsPrefix(c, p)
    PROVE  Under(n, p) /\ Branch(n, c) = Branch(n, p)
<1>1. IsPrefix(n, c) /\ Len(n) < Len(c)
  BY DEF Under
<1>2. /\ Len(n) \in Nat /\ Len(c) \in Nat /\ Len(p) \in Nat /\ Len(c) <= Len(p)
      /\ \A i \in 1 .. Len(c) : c[i] = p[i]
  BY PrefixBytes
<1>3. IsPrefix(n, p)
  BY <1>1, PrefixTransitive
<1>4. Len(n) < Len(p) /\ Len(n) + 1 \in 1 .. Len(c)
  BY <1>1, <1>2
<1> QED
  BY <1>2, <1>3, <1>4 DEF Under, Branch

\* The bytes of a path below another one.
LEMMA UnderBytes ==
    ASSUME NEW n \in Seq(Nat), NEW p \in Seq(Nat), Under(n, p)
    PROVE  /\ Len(n) \in Nat /\ Len(p) \in Nat /\ Len(n) < Len(p)
           /\ Len(n) + 1 \in 1 .. Len(p) /\ Branch(n, p) \in Nat
           /\ \A i \in 1 .. Len(n) : n[i] = p[i]
<1>1. IsPrefix(n, p) /\ Len(n) < Len(p) /\ Len(n) \in Nat /\ Len(p) \in Nat
  BY DEF Under
<1>2. Len(n) + 1 \in 1 .. Len(p)
  BY <1>1
<1>3. p[Len(n) + 1] \in Nat
  BY <1>2
<1>4. \A i \in 1 .. Len(n) : n[i] = p[i]
  BY <1>1, PrefixBytes
<1> QED
  BY <1>1, <1>2, <1>3, <1>4 DEF Branch

\* Of two different prefixes of one string the longer is below the shorter.
LEMMA PrefixBetween ==
    ASSUME NEW m \in Seq(Nat), NEW n \in Seq(Nat), NEW s \in Seq(Nat),
           IsPrefix(m, s), IsPrefix(n, s), Len(m) <= Len(n), m # n
    PROVE  Under(m, n)
<1>1. IsPrefix(m, n)
  BY PrefixTotal
<1> QED
  BY <1>1, PrefixEqual DEF Under

Family(D, p, cs) ==
    /\ \A i \in 1 .. Len(cs) : cs[i] \in D /\ Under(p, cs[i])
    /\ \A i, j \in 1 .. Len(cs) : i # j => Branch(p, cs[i]) # Branch(p, cs[j])

Shape(t) ==
    /\ <<>> \in DOMAIN t /\ DOMAIN t \subseteq Seq(Nat)
    /\ t \in [DOMAIN t -> NodeType]
    /\ \A p \in DOMAIN t : Family(DOMAIN t, p, t[p].children)

\* Every entry is in the node of its own string: g gives the strings.
Placed(t, g) ==
    \A p \in DOMAIN t : \A i \in 1 .. Len(t[p].entries) :
      t[p].entries[i] \in DOMAIN g /\ g[t[p].entries[i]] = p

\* The types of the parts of a node.
LEMMA NodeParts ==
    ASSUME NEW t, Shape(t), NEW p \in DOMAIN t
    PROVE  /\ t[p] \in NodeType /\ t[p].entries \in Seq(Nat) /\ t[p].children \in Seq(Seq(Nat))
           /\ t[p].isLeaf \in BOOLEAN /\ p \in Seq(Nat)
           /\ Len(t[p].entries) \in Nat /\ Len(t[p].children) \in Nat
<1>1. t[p] \in NodeType /\ p \in Seq(Nat)
  BY DEF Shape
<1>2. t[p].entries \in Seq(Nat) /\ t[p].children \in Seq(Seq(Nat)) /\ t[p].isLeaf \in BOOLEAN
  BY <1>1 DEF NodeType
<1> QED
  BY <1>1, <1>2

\* The parts of a new node.
LEMMA NodeIs ==
    ASSUME NEW l \in BOOLEAN, NEW es \in Seq(Nat), NEW cs \in Seq(Seq(Nat))
    PROVE  /\ Node(l, es, cs) \in NodeType
           /\ Node(l, es, cs).entries = es /\ Node(l, es, cs).children = cs
BY DEF Node, NodeType

\* The children of a node are its family in a larger tree too.
LEMMA FamilyMore ==
    ASSUME NEW D, NEW E, D \subseteq E, NEW p, NEW cs, Family(D, p, cs)
    PROVE  Family(E, p, cs)
BY DEF Family

\* No children are a family.
LEMMA FamilyEmpty == \A D, p : Family(D, p, <<>>)
BY DEF Family

\* A child with a byte of its own may join a family.
LEMMA FamilyAppend ==
    ASSUME NEW D, NEW p, NEW cs \in Seq(Seq(Nat)), NEW c \in Seq(Nat), Family(D, p, cs),
           c \in D, Under(p, c), \A i \in 1 .. Len(cs) : Branch(p, cs[i]) # Branch(p, c)
    PROVE  Family(D, p, Append(cs, c)) /\ Append(cs, c) \in Seq(Seq(Nat))
<1> DEFINE ds == Append(cs, c)
<1>1. /\ ds \in Seq(Seq(Nat)) /\ Len(ds) = Len(cs) + 1 /\ Len(cs) \in Nat
      /\ \A i \in 1 .. Len(cs) : ds[i] = cs[i]
      /\ ds[Len(cs) + 1] = c
  OBVIOUS
<1> HIDE DEF ds
<1>2. \A i \in 1 .. Len(ds) : i \in 1 .. Len(cs) \/ i = Len(cs) + 1
  BY <1>1
<1>3. Family(D, p, ds)
  BY <1>1, <1>2 DEF Family
<1> QED
  BY <1>1, <1>3 DEF ds

\* A child may be replaced by a node between it and its parent.
LEMMA FamilyReplace ==
    ASSUME NEW D, NEW p, NEW cs \in Seq(Seq(Nat)), Family(D, p, cs), NEW c, NEW q \in Seq(Nat),
           q \in D, Under(p, q), Branch(p, q) = Branch(p, c)
    PROVE  Family(D, p, ReplaceAll(cs, c, q)) /\ ReplaceAll(cs, c, q) \in Seq(Seq(Nat))
<1> DEFINE ds == ReplaceAll(cs, c, q)
<1>1. Len(cs) \in Nat /\ ds = [i \in 1 .. Len(cs) |-> IF cs[i] = c THEN q ELSE cs[i]]
  BY DEF ReplaceAll
<1>2. \A i \in 1 .. Len(cs) : cs[i] \in Seq(Nat)
  OBVIOUS
<1>3. ds \in [1 .. Len(cs) -> Seq(Nat)]
  BY <1>1, <1>2
<1>4. ds \in Seq(Seq(Nat)) /\ Len(ds) = Len(cs)
  BY <1>1, <1>3
<1>5. \A i \in 1 .. Len(cs) : ds[i] = IF cs[i] = c THEN q ELSE cs[i]
  BY <1>1
<1> HIDE DEF ds
<1>6. \A i \in 1 .. Len(ds) : ds[i] \in D /\ Under(p, ds[i]) /\ Branch(p, ds[i]) = Branch(p, cs[i])
  BY <1>4, <1>5 DEF Family
<1>7. Family(D, p, ds)
  BY <1>4, <1>6 DEF Family
<1> QED
  BY <1>4, <1>7 DEF ds

\* The empty tree has the shape and no entries.
LEMMA NewTree == Shape(NewRadixTree) /\ Contents(NewRadixTree) = {} /\ \A g : Placed(NewRadixTree, g)
<1>1. /\ DOMAIN NewRadixTree = {<<>>}
      /\ NewRadixTree[<<>>] = Node(FALSE, <<>>, <<>>)
  BY DEF NewRadixTree
<1>2. <<>> \in Seq(Nat) /\ <<>> \in Seq(Seq(Nat)) /\ FALSE \in BOOLEAN
  OBVIOUS
<1>3. /\ Node(FALSE, <<>>, <<>>) \in NodeType
      /\ Node(FALSE, <<>>, <<>>).entries = <<>> /\ Node(FALSE, <<>>, <<>>).children = <<>>
  BY <1>2, NodeIs
<1>4. NewRadixTree \in [{<<>>} -> NodeType]
  BY <1>3 DEF NewRadixTree
<1>5. Shape(NewRadixTree)
  BY <1>1, <1>2, <1>3, <1>4, FamilyEmpty DEF Shape
<1>6. \A i \in 1 .. Len(<<>>) : FALSE
  OBVIOUS
<1> QED
  BY <1>1, <1>3, <1>5, <1>6 DEF Contents, Placed

\* Entries of a node as a set.
Of(t, p) == {t[p].entries[i] : i \in 1 .. Len(t[p].entries)}

\* An entry of the tree is an entry of a node.
LEMMA ContentsAre == \A t, e : e \in Contents(t) <=> \E p \in DOMAIN t : e \in Of(t, p)
BY DEF Contents, Of

\* A tree that differs only in its nodes' children has the same entries.
LEMMA EntriesKept ==
    ASSUME NEW t, NEW u, DOMAIN t \subseteq DOMAIN u,
           \A p \in DOMAIN t : u[p].entries = t[p].entries,
           \A p \in DOMAIN u \ DOMAIN t : u[p].entries = <<>>
    PROVE  Contents(u) = Contents(t) /\ \A g : Placed(t, g) => Placed(u, g)
<1>1. \A i \in 1 .. Len(<<>>) : FALSE
  OBVIOUS
<1>2. \A p \in DOMAIN t : Of(u, p) = Of(t, p)
  BY DEF Of
<1>3. \A p \in DOMAIN u \ DOMAIN t : Of(u, p) = {}
  BY <1>1 DEF Of
<1>4. Contents(u) = Contents(t)
  BY <1>2, <1>3, ContentsAre
<1>5. ASSUME NEW g, Placed(t, g) PROVE Placed(u, g)
  BY <1>1, <1>5 DEF Placed
<1> QED
  BY <1>4, <1>5

\* AddEntry, where the node exists.
LEMMA AddToShape ==
    ASSUME NEW t, Shape(t), NEW s \in DOMAIN t, NEW e \in Nat
    PROVE  LET u == AddTo(t, s, e)
           IN  /\ Shape(u) /\ Contents(u) = Contents(t) \cup {e}
               /\ \A g : Placed(t, g) /\ e \in DOMAIN g /\ g[e] = s => Placed(u, g)
<1> DEFINE u == AddTo(t, s, e)
           es == Append(t[s].entries, e)
<1>1. /\ t[s].entries \in Seq(Nat) /\ t[s].children \in Seq(Seq(Nat))
      /\ Len(t[s].entries) \in Nat
  BY NodeParts
<1>2. /\ es \in Seq(Nat) /\ Len(es) = Len(t[s].entries) + 1 /\ es[Len(t[s].entries) + 1] = e
      /\ \A i \in 1 .. Len(t[s].entries) : es[i] = t[s].entries[i]
  BY <1>1
<1>3. DOMAIN u = DOMAIN t /\ u[s] = Node(TRUE, es, t[s].children) /\ \A p \in DOMAIN t : p # s => u[p] = t[p]
  BY DEF AddTo, Shape
<1>4. ASSUME u[s] \in NodeType PROVE u \in [DOMAIN t -> NodeType]
  BY <1>3, <1>4 DEF AddTo, Shape
<1> HIDE DEF u, es
<1>5. u[s] \in NodeType /\ u[s].entries = es /\ u[s].children = t[s].children
  BY <1>1, <1>2, <1>3 DEF Node, NodeType
<1>6. Shape(u)
  BY <1>3, <1>4, <1>5 DEF Shape
<1>7. Of(u, s) = Of(t, s) \cup {e} /\ \A p \in DOMAIN t : p # s => Of(u, p) = Of(t, p)
  <2>1. \A i \in 1 .. Len(es) : i \in 1 .. Len(t[s].entries) \/ i = Len(t[s].entries) + 1
    BY <1>1, <1>2
  <2>2. \A i \in 1 .. Len(t[s].entries) : i \in 1 .. Len(es)
    BY <1>1, <1>2
  <2>3. Len(t[s].entries) + 1 \in 1 .. Len(es)
    BY <1>1, <1>2
  <2>4. Of(u, s) = {es[i] : i \in 1 .. Len(es)}
    BY <1>5 DEF Of
  <2>5. Of(u, s) = Of(t, s) \cup {e}
    BY <1>2, <2>1, <2>2, <2>3, <2>4 DEF Of
  <2> QED
    BY <1>3, <2>5 DEF Of
<1>8. Contents(u) = Contents(t) \cup {e}
  <2>1. ASSUME NEW x PROVE x \in Contents(u) <=> x \in Contents(t) \cup {e}
    BY <1>3, <1>7, ContentsAre
  <2> QED
    BY <2>1
<1>9. ASSUME NEW g, Placed(t, g), e \in DOMAIN g, g[e] = s PROVE Placed(u, g)
  <2>1. \A i \in 1 .. Len(es) : i \in 1 .. Len(t[s].entries) \/ i = Len(t[s].entries) + 1
    BY <1>1, <1>2
  <2>2. \A i \in 1 .. Len(es) : es[i] \in DOMAIN g /\ g[es[i]] = s
    BY <1>2, <1>9, <2>1 DEF Placed
  <2>3. ASSUME NEW p \in DOMAIN u, NEW i \in 1 .. Len(u[p].entries)
        PROVE  u[p].entries[i] \in DOMAIN g /\ g[u[p].entries[i]] = p
    <3>1. CASE p = s
      BY <1>5, <2>2, <2>3, <3>1
    <3>2. CASE p # s
      BY <1>3, <1>9, <2>3, <3>2 DEF Placed
    <3> QED
      BY <3>1, <3>2
  <2> QED
    BY <2>3 DEF Placed
<1> QED
  BY <1>6, <1>8, <1>9 DEF u

\* AddEntry, where a new leaf is added below n.
LEMMA AddChildShape ==
    ASSUME NEW t, Shape(t), NEW n \in DOMAIN t, NEW s \in Seq(Nat), s \notin DOMAIN t, Under(n, s),
           \A i \in 1 .. Len(t[n].children) : Branch(n, t[n].children[i]) # Branch(n, s),
           NEW e \in Nat
    PROVE  LET u == addChild(t, n, s, e)
           IN  /\ Shape(u) /\ Contents(u) = Contents(t) \cup {e}
               /\ \A g : Placed(t, g) /\ e \in DOMAIN g /\ g[e] = s => Placed(u, g)
<1> DEFINE u == addChild(t, n, s, e)
           D == DOMAIN t \cup {s}
           cs == t[n].children
           ds == Append(cs, s)
<1>1. cs \in Seq(Seq(Nat)) /\ Family(DOMAIN t, n, cs) /\ t[n] \in NodeType /\ s # n
  BY NodeParts DEF Shape
<1>2. Family(D, n, ds) /\ ds \in Seq(Seq(Nat))
  <2>1. Family(D, n, cs) /\ s \in D
    BY <1>1, FamilyMore
  <2> QED
    BY <1>1, <2>1, FamilyAppend
<1>3. /\ DOMAIN u = D /\ u[s] = Node(TRUE, <<e>>, <<>>)
      /\ u[n] = [t[n] EXCEPT !.children = ds]
      /\ \A p \in DOMAIN t : p # n => u[p] = t[p]
  BY <1>1 DEF addChild
<1> HIDE DEF cs, ds, D
<1>4. u[s] \in NodeType /\ u[s].entries = <<e>> /\ u[s].children = <<>>
  BY <1>3 DEF Node, NodeType
<1>5. u[n] \in NodeType /\ u[n].entries = t[n].entries /\ u[n].children = ds
  BY <1>1, <1>2, <1>3 DEF NodeType
<1>6. u \in [D -> NodeType]
  <2>1. u = [p \in D |-> u[p]]
    BY DEF addChild, D
  <2>2. \A p \in D : u[p] \in NodeType
    BY <1>3, <1>4, <1>5, NodeParts DEF D
  <2> QED
    BY <2>1, <2>2
<1> HIDE DEF u
<1>7. Shape(u)
  <2>1. \A p \in DOMAIN t : Family(D, p, t[p].children)
    BY FamilyMore DEF Shape, D
  <2>2. ASSUME NEW p \in D PROVE Family(D, p, u[p].children)
    <3>1. CASE p = s
      BY <1>4, <3>1, FamilyEmpty
    <3>2. CASE p = n
      BY <1>2, <1>5, <3>2
    <3>3. CASE p # s /\ p # n
      BY <1>3, <2>1, <3>3 DEF D
    <3> QED
      BY <3>1, <3>2, <3>3
  <2>3. <<>> \in D /\ D \subseteq Seq(Nat)
    BY DEF Shape, D
  <2> QED
    BY <1>3, <1>6, <2>2, <2>3 DEF Shape
<1>8. Of(u, s) = {e} /\ \A p \in DOMAIN t : Of(u, p) = Of(t, p) /\ u[p].entries = t[p].entries
  <2>1. Len(<<e>>) = 1 /\ <<e>>[1] = e
    OBVIOUS
  <2>2. {<<e>>[i] : i \in 1 .. Len(<<e>>)} = {e}
    BY <2>1
  <2>3. \A p \in DOMAIN t : u[p].entries = t[p].entries
    BY <1>3, <1>5
  <2> QED
    BY <1>4, <2>2, <2>3 DEF Of
<1>9. Contents(u) = Contents(t) \cup {e}
  <2>1. ASSUME NEW x PROVE x \in Contents(u) <=> x \in Contents(t) \cup {e}
    <3>1. x \in Contents(u) <=> \E p \in DOMAIN t \cup {s} : x \in Of(u, p)
      BY <1>3, ContentsAre DEF D
    <3>2. x \in Contents(t) <=> \E p \in DOMAIN t : x \in Of(t, p)
      BY ContentsAre
    <3> QED
      BY <1>8, <3>1, <3>2
  <2> QED
    BY <2>1
<1>10. ASSUME NEW g, Placed(t, g), e \in DOMAIN g, g[e] = s PROVE Placed(u, g)
  <2>1. ASSUME NEW p \in DOMAIN u, NEW i \in 1 .. Len(u[p].entries)
        PROVE  u[p].entries[i] \in DOMAIN g /\ g[u[p].entries[i]] = p
    <3>1. CASE p = s
      <4>1. \A j \in 1 .. Len(<<e>>) : <<e>>[j] = e
        OBVIOUS
      <4>2. u[p].entries = <<e>>
        BY <1>4, <3>1
      <4>3. u[p].entries[i] = e
        BY <2>1, <4>1, <4>2
      <4> QED
        BY <1>10, <3>1, <4>3
    <3>2. CASE p # s
      <4>1. p \in DOMAIN t /\ u[p].entries = t[p].entries
        BY <1>3, <1>8, <2>1, <3>2 DEF D
      <4> QED
        BY <1>10, <2>1, <4>1 DEF Placed
    <3> QED
      BY <3>1, <3>2
  <2> QED
    BY <2>1 DEF Placed
<1> QED
  BY <1>7, <1>9, <1>10 DEF u

\* split moves nothing and loses nothing.
LEMMA SplitShape ==
    ASSUME NEW t, Shape(t), NEW n \in DOMAIN t, NEW c \in DOMAIN t,
           NEW q \in Seq(Nat), q \notin DOMAIN t, Under(n, q), Under(q, c), Branch(n, q) = Branch(n, c)
    PROVE  LET u == split(t, n, c, q)
           IN  /\ Shape(u) /\ DOMAIN u = DOMAIN t \cup {q} /\ u[q].children = <<c>>
               /\ Contents(u) = Contents(t) /\ \A g : Placed(t, g) => Placed(u, g)
<1> DEFINE u == split(t, n, c, q)
           D == DOMAIN t \cup {q}
           cs == t[n].children
           ds == ReplaceAll(cs, c, q)
<1>1. cs \in Seq(Seq(Nat)) /\ Family(DOMAIN t, n, cs) /\ t[n] \in NodeType /\ c \in Seq(Nat) /\ q # n
  BY NodeParts DEF Shape
<1>2. Family(D, n, ds) /\ ds \in Seq(Seq(Nat))
  <2>1. Family(D, n, cs) /\ q \in D
    BY <1>1, FamilyMore
  <2> QED
    BY <1>1, <2>1, FamilyReplace
<1>3. Family(D, q, <<c>>)
  <2>1. Len(<<c>>) = 1 /\ <<c>>[1] = c
    OBVIOUS
  <2>2. \A i \in 1 .. Len(<<c>>) : i = 1
    BY <2>1
  <2> QED
    BY <2>1, <2>2 DEF Family
<1>4. /\ DOMAIN u = D /\ u[q] = Node(FALSE, <<>>, <<c>>)
      /\ u[n] = [t[n] EXCEPT !.children = ds]
      /\ \A p \in DOMAIN t : p # n => u[p] = t[p]
  BY <1>1 DEF split
<1>5. <<c>> \in Seq(Seq(Nat))
  BY <1>1
<1> HIDE DEF cs, ds, D
<1>6. u[q] \in NodeType /\ u[q].entries = <<>> /\ u[q].children = <<c>>
  BY <1>4, <1>5 DEF Node, NodeType
<1>7. u[n] \in NodeType /\ u[n].entries = t[n].entries /\ u[n].children = ds
  BY <1>1, <1>2, <1>4 DEF NodeType
<1>8. u \in [D -> NodeType]
  <2>1. u = [p \in D |-> u[p]]
    BY DEF split, D
  <2>2. \A p \in D : u[p] \in NodeType
    BY <1>4, <1>6, <1>7, NodeParts DEF D
  <2> QED
    BY <2>1, <2>2
<1> HIDE DEF u
<1>9. Shape(u)
  <2>1. \A p \in DOMAIN t : Family(D, p, t[p].children)
    BY FamilyMore DEF Shape, D
  <2>2. \A p \in D : Family(D, p, u[p].children)
    BY <1>2, <1>3, <1>4, <1>6, <1>7, <2>1 DEF D
  <2>3. <<>> \in D /\ D \subseteq Seq(Nat)
    BY DEF Shape, D
  <2> QED
    BY <1>4, <1>8, <2>2, <2>3 DEF Shape
<1>10. Contents(u) = Contents(t) /\ \A g : Placed(t, g) => Placed(u, g)
  <2>1. DOMAIN t \subseteq DOMAIN u /\ \A p \in DOMAIN t : u[p].entries = t[p].entries
    BY <1>4, <1>7 DEF D
  <2>2. \A p \in DOMAIN u \ DOMAIN t : u[p].entries = <<>>
    BY <1>4, <1>6 DEF D
  <2> QED
    BY <2>1, <2>2, EntriesKept
<1> QED
  BY <1>4, <1>6, <1>9, <1>10 DEF u, D

\* AddEntry splits the child c of n at q ...
Splits(t, n, c, q) ==
    /\ n \in DOMAIN t /\ c \in DOMAIN t /\ (\E i \in 1 .. Len(t[n].children) : t[n].children[i] = c)
    /\ q \in Seq(Nat) /\ q \notin DOMAIN t
    /\ Under(n, q) /\ Under(q, c) /\ Branch(n, q) = Branch(n, c)
    /\ \A p \in DOMAIN t : IsPrefix(p, q) => Len(p) <= Len(n)

\* ... or adds the leaf s below n.
Hangs(t, n, s) ==
    /\ n \in DOMAIN t /\ s \in Seq(Nat) /\ s \notin DOMAIN t /\ Under(n, s)
    /\ \A i \in 1 .. Len(t[n].children) : Branch(n, t[n].children[i]) # Branch(n, s)
    /\ \A p \in DOMAIN t : IsPrefix(p, s) => Len(p) <= Len(n)

\* What split does when it is used where AddEntry uses it.
LEMMA SplitIs ==
    ASSUME NEW t, Shape(t), NEW n, NEW c, NEW q, Splits(t, n, c, q)
    PROVE  LET u == split(t, n, c, q)
           IN  /\ Shape(u) /\ DOMAIN u = DOMAIN t \cup {q} /\ u[q].children = <<c>>
               /\ Contents(u) = Contents(t) /\ \A g : Placed(t, g) => Placed(u, g)
<1>1. /\ n \in DOMAIN t /\ c \in DOMAIN t /\ q \in Seq(Nat) /\ q \notin DOMAIN t
      /\ Under(n, q) /\ Under(q, c) /\ Branch(n, q) = Branch(n, c)
  BY DEF Splits
<1> QED
  BY <1>1, SplitShape

\* The ways AddEntry can go: the node exists, a child is added, or a child is
\* split first.
LEMMA AddEntryCases ==
    ASSUME NEW t, Shape(t), NEW s \in Seq(Nat), NEW e
    PROVE  \/ s \in DOMAIN t /\ AddEntry(t, s, e) = AddTo(t, s, e)
           \/ \E n : Hangs(t, n, s) /\ AddEntry(t, s, e) = addChild(t, n, s, e)
           \/ \E n, c : Splits(t, n, c, s) /\ AddEntry(t, s, e) = AddTo(split(t, n, c, s), s, e)
           \/ \E n, c, q : /\ Splits(t, n, c, q) /\ Hangs(split(t, n, c, q), q, s)
                          /\ AddEntry(t, s, e) = addChild(split(t, n, c, q), q, s, e)
<1> DEFINE n == Deepest(t, s)
<1>1. n \in DOMAIN t /\ IsPrefix(n, s) /\ \A p \in DOMAIN t : IsPrefix(p, s) => Len(p) <= Len(n)
  <2>1. IsPrefix(<<>>, s)
    BY EmptyPrefix
  <2>2. \E p \in DOMAIN t : IsPrefix(p, s) /\ \A q \in DOMAIN t : IsPrefix(q, s) => Len(q) <= Len(p)
    BY <2>1, LongestExists DEF Shape
  <2> QED
    BY <2>2, Zenon DEF Deepest
<1>2. n \in Seq(Nat) /\ Len(n) \in Nat /\ Len(s) \in Nat /\ Len(n) <= Len(s)
      /\ \A i \in 1 .. Len(n) : n[i] = s[i]
  <2>1. n \in Seq(Nat)
    BY <1>1 DEF Shape
  <2> QED
    BY <1>1, <2>1, PrefixBytes
<1> HIDE DEF n
<1>3. CASE n = s
  <2>1. AddEntry(t, s, e) = AddTo(t, s, e)
    BY <1>3 DEF AddEntry, n
  <2> QED
    BY <1>1, <1>3, <2>1
<1>4. ASSUME n # s PROVE Len(n) < Len(s) /\ Under(n, s) /\ s \notin DOMAIN t
  <2>1. Len(n) < Len(s)
    BY <1>1, <1>2, <1>4, PrefixEqual
  <2>2. IsPrefix(s, s)
    BY <1>2, PrefixBytes
  <2> QED
    BY <1>1, <1>2, <2>1, <2>2 DEF Under
<1>5. CASE n # s /\ findChild(t, n, s) = {}
  <2>1. ASSUME NEW i \in 1 .. Len(t[n].children) PROVE Branch(n, t[n].children[i]) # Branch(n, s)
    <3>1. t[n].children \in Seq(Seq(Nat))
      BY <1>1, NodeParts
    <3>2. t[n].children[i] \in ToSet(t[n].children)
      BY <3>1 DEF ToSet
    <3> QED
      BY <1>5, <3>2 DEF findChild, Branch
  <2>2. Hangs(t, n, s)
    BY <1>1, <1>4, <1>5, <2>1 DEF Hangs
  <2>3. AddEntry(t, s, e) = addChild(t, n, s, e)
    BY <1>5 DEF AddEntry, n
  <2> QED
    BY <2>2, <2>3
<1>6. CASE n # s /\ findChild(t, n, s) # {}
  <2> DEFINE c == CHOOSE c \in findChild(t, n, s) : TRUE
             q == LongestCommonPrefix({c, s})
             u == split(t, n, c, q)
  <2>1. c \in findChild(t, n, s)
    BY <1>6
  <2> HIDE DEF c
  <2>2. c \in DOMAIN t /\ Under(n, c) /\ Branch(n, c) = Branch(n, s)
        /\ \E i \in 1 .. Len(t[n].children) : t[n].children[i] = c
    <3>1. t[n].children \in Seq(Seq(Nat)) /\ Family(DOMAIN t, n, t[n].children)
      BY <1>1, NodeParts DEF Shape
    <3>2. PICK i \in 1 .. Len(t[n].children) : c = t[n].children[i]
      BY <2>1, <3>1 DEF findChild, ToSet
    <3> QED
      BY <2>1, <3>1, <3>2 DEF Family, findChild, Branch
  <2>3. c \in Seq(Nat) /\ Len(c) \in Nat /\ Len(n) < Len(c) /\ \A i \in 1 .. Len(n) : n[i] = c[i]
    <3>1. c \in Seq(Nat)
      BY <2>2 DEF Shape
    <3> QED
      BY <1>2, <2>2, <3>1, PrefixBytes DEF Under
  <2>4. /\ q \in Seq(Nat) /\ IsPrefix(q, c) /\ IsPrefix(q, s)
        /\ \A k \in 0 .. Len(c) : k <= Len(s) /\ (\A i \in 1 .. k : c[i] = s[i]) => k <= Len(q)
        /\ Len(q) < Len(c) /\ Len(q) < Len(s) => c[Len(q) + 1] # s[Len(q) + 1]
    BY <2>3, CommonPrefix
  <2> HIDE DEF q
  <2>5. Len(q) \in Nat /\ Len(n) < Len(q)
    <3>1. Len(n) + 1 \in 0 .. Len(c) /\ Len(n) + 1 <= Len(s)
      BY <1>2, <1>4, <1>6, <2>3
    <3>2. \A i \in 1 .. Len(n) + 1 : c[i] = s[i]
      <4>1. \A i \in 1 .. Len(n) + 1 : i \in 1 .. Len(n) \/ i = Len(n) + 1
        BY <1>2
      <4>2. c[Len(n) + 1] = s[Len(n) + 1]
        BY <2>2 DEF Branch
      <4> QED
        BY <1>2, <2>3, <4>1, <4>2
    <3>3. Len(n) + 1 <= Len(q)
      BY <2>4, <3>1, <3>2, Zenon
    <3> QED
      BY <1>2, <2>4, <3>3
  <2>6. q \notin DOMAIN t
    BY <1>1, <1>2, <2>4, <2>5
  <2>7. \A i \in 1 .. Len(q) : q[i] = c[i] /\ q[i] = s[i]
    BY <2>3, <2>4, PrefixBytes
  <2>8. Under(n, q) /\ Branch(n, q) = Branch(n, c)
    <3>1. \A i \in 1 .. Len(n) : i \in 1 .. Len(q)
      BY <1>2, <2>5
    <3>2. Len(n) <= Len(q) /\ \A i \in 1 .. Len(n) : n[i] = q[i]
      BY <1>2, <2>3, <2>5, <2>7, <3>1
    <3>3. IsPrefix(n, q)
      BY <1>2, <2>4, <3>2, PrefixBytes
    <3>4. Len(n) + 1 \in 1 .. Len(q)
      BY <1>2, <2>5
    <3> QED
      BY <2>5, <2>7, <3>3, <3>4 DEF Under, Branch
  <2>9. Under(q, c)
    <3>1. q # c
      BY <2>2, <2>6
    <3> QED
      BY <2>3, <2>4, <3>1, PrefixEqual DEF Under
  <2>10. Splits(t, n, c, q)
    <3>1. ASSUME NEW p \in DOMAIN t, IsPrefix(p, q) PROVE Len(p) <= Len(n)
      <4>1. p \in Seq(Nat)
        BY DEF Shape
      <4>2. IsPrefix(p, s)
        BY <2>4, <3>1, <4>1, PrefixTransitive
      <4> QED
        BY <1>1, <4>2
    <3> QED
      BY <1>1, <2>2, <2>4, <2>6, <2>8, <2>9, <3>1 DEF Splits
  <2>11. AddEntry(t, s, e) = IF q = s THEN AddTo(u, s, e) ELSE addChild(u, q, s, e)
    BY <1>6 DEF AddEntry, n, c, q
  <2>12. /\ Shape(u) /\ DOMAIN u = DOMAIN t \cup {q} /\ u[q].children = <<c>>
         /\ Contents(u) = Contents(t) /\ \A g : Placed(t, g) => Placed(u, g)
    BY <2>10, SplitIs
  <2>13. ASSUME q # s PROVE Hangs(u, q, s)
    <3>1. Under(q, s) /\ s \notin DOMAIN u /\ q \in DOMAIN u
      BY <1>4, <1>6, <2>4, <2>12, <2>13, PrefixEqual DEF Under
    <3>2. \A i \in 1 .. Len(u[q].children) : Branch(q, u[q].children[i]) # Branch(q, s)
      <4>1. Len(<<c>>) = 1 /\ <<c>>[1] = c
        OBVIOUS
      <4>2. \A i \in 1 .. Len(u[q].children) : u[q].children[i] = c
        BY <2>12, <4>1
      <4> QED
        BY <2>4, <2>9, <3>1, <4>2 DEF Branch, Under
    <3>3. ASSUME NEW p \in DOMAIN u, IsPrefix(p, s) PROVE Len(p) <= Len(q)
      <4>1. CASE p = q
        BY <2>5, <4>1
      <4>2. CASE p # q
        <5>1. p \in DOMAIN t /\ Len(p) <= Len(n) /\ Len(p) \in Nat
          BY <1>1, <2>12, <3>3, <4>2 DEF Shape
        <5> QED
          BY <1>2, <2>5, <5>1
      <4> QED
        BY <4>1, <4>2
    <3> QED
      BY <3>1, <3>2, <3>3 DEF Hangs
  <2> HIDE DEF u
  <2>14. CASE q = s
    <3>1. Splits(t, n, c, s) /\ AddEntry(t, s, e) = AddTo(split(t, n, c, s), s, e)
      BY <2>10, <2>11, <2>14 DEF u
    <3> QED
      BY <3>1
  <2>15. CASE q # s
    <3>1. /\ Splits(t, n, c, q) /\ Hangs(split(t, n, c, q), q, s)
          /\ AddEntry(t, s, e) = addChild(split(t, n, c, q), q, s, e)
      BY <2>10, <2>11, <2>13, <2>15 DEF u
    <3> QED
      BY <3>1
  <2> QED
    BY <2>14, <2>15
<1> QED
  BY <1>3, <1>5, <1>6

\* RadixTree.AddEntry adds its entry to the leaf of its own string, and changes
\* no other.
THEOREM AddEntryShape ==
    ASSUME NEW t, Shape(t), NEW s \in Seq(Nat), NEW e \in Nat
    PROVE  LET u == AddEntry(t, s, e)
           IN  /\ Shape(u) /\ Contents(u) = Contents(t) \cup {e}
               /\ \A g : Placed(t, g) /\ e \in DOMAIN g /\ g[e] = s => Placed(u, g)
<1> DEFINE Fine(v, u) == /\ Shape(u) /\ Contents(u) = Contents(v) \cup {e}
                         /\ \A g : Placed(v, g) /\ e \in DOMAIN g /\ g[e] = s => Placed(u, g)
<1>1. ASSUME NEW v, Shape(v), s \in DOMAIN v PROVE Fine(v, AddTo(v, s, e))
  BY <1>1, AddToShape
<1>2. ASSUME NEW v, NEW n, Shape(v), Hangs(v, n, s) PROVE Fine(v, addChild(v, n, s, e))
  BY <1>2, AddChildShape DEF Hangs
<1>3. ASSUME NEW n, NEW c, NEW q, Splits(t, n, c, q)
      PROVE  /\ Shape(split(t, n, c, q)) /\ q \in DOMAIN split(t, n, c, q)
             /\ \A u : Fine(split(t, n, c, q), u) => Fine(t, u)
  <2> DEFINE v == split(t, n, c, q)
  <2>1. /\ Shape(v) /\ DOMAIN v = DOMAIN t \cup {q} /\ v[q].children = <<c>>
        /\ Contents(v) = Contents(t) /\ \A g : Placed(t, g) => Placed(v, g)
    BY <1>3, SplitIs
  <2> HIDE DEF v
  <2>2. \A u : Fine(v, u) => Fine(t, u)
    BY <2>1
  <2> QED
    BY <2>1, <2>2 DEF v
<1> HIDE DEF Fine
<1>5. Fine(t, AddEntry(t, s, e))
  BY <1>1, <1>2, <1>3, AddEntryCases
<1> QED
  BY <1>5 DEF Fine

\* Trimming only takes first entries of nodes away.
Trimmed(t, u) ==
    /\ u = [p \in DOMAIN t |-> u[p]]
    /\ \A p \in DOMAIN t : u[p] = t[p] \/ \E k \in Int : u[p] = Drop(t[p], k)

\* Drop leaves entries that were there and the rest of the node.
LEMMA DropIs ==
    ASSUME NEW node \in NodeType, NEW k \in Int
    PROVE  LET rest == Drop(node, k)
           IN  /\ rest \in NodeType /\ rest.children = node.children /\ rest.isLeaf = node.isLeaf
               /\ \A i \in 1 .. Len(rest.entries) : \E j \in 1 .. Len(node.entries) :
                    rest.entries[i] = node.entries[j]
<1> DEFINE es == node.entries
           fs == IF k > 0 THEN SubSeq(es, k + 1, Len(es)) ELSE es
           rest == Drop(node, k)
<1>1. es \in Seq(Nat) /\ Len(es) \in Nat
  BY DEF NodeType
<1>2. rest = [node EXCEPT !.entries = fs]
  BY DEF Drop
<1> HIDE DEF es, rest
<1>3. fs \in Seq(Nat) /\ \A i \in 1 .. Len(fs) : \E j \in 1 .. Len(es) : fs[i] = es[j]
  <2>1. CASE k <= 0
    BY <1>1, <2>1
  <2>2. CASE k > 0 /\ k < Len(es)
    <3>1. /\ SubSeq(es, k + 1, Len(es)) \in Seq(Nat)
          /\ \A i \in 1 .. Len(SubSeq(es, k + 1, Len(es))) :
               /\ k + i \in 1 .. Len(es)
               /\ SubSeq(es, k + 1, Len(es))[i] = es[k + i]
      BY <1>1, <2>2
    <3>2. fs = SubSeq(es, k + 1, Len(es))
      BY <2>2
    <3> QED
      BY <3>1, <3>2
  <2>3. CASE k > 0 /\ k >= Len(es)
    <3>1. fs = <<>>
      BY <1>1, <2>3
    <3>2. <<>> \in Seq(Nat) /\ \A i \in 1 .. Len(<<>>) : FALSE
      OBVIOUS
    <3> QED
      BY <3>1, <3>2
  <2> QED
    BY <1>1, <2>1, <2>2, <2>3
<1> HIDE DEF fs
<1>4. /\ rest \in NodeType /\ rest.entries = fs
      /\ rest.children = node.children /\ rest.isLeaf = node.isLeaf
  BY <1>2, <1>3 DEF NodeType
<1> QED
  BY <1>3, <1>4 DEF rest, es

\* Drop leaves everything, or of at most one entry nothing.
LEMMA DropLess ==
    ASSUME NEW node \in NodeType, NEW k \in Int
    PROVE  LET rest == Drop(node, k)
           IN  /\ Len(rest.entries) <= Len(node.entries)
               /\ node.entries = <<>> => rest.entries = <<>>
               /\ k <= 0 => rest.entries = node.entries
               /\ k > 0 /\ Len(node.entries) <= 1 => rest.entries = <<>>
<1> DEFINE es == node.entries
           fs == IF k > 0 THEN SubSeq(es, k + 1, Len(es)) ELSE es
           rest == Drop(node, k)
<1>1. es \in Seq(Nat) /\ Len(es) \in Nat
  BY DEF NodeType
<1>2. rest = [node EXCEPT !.entries = fs]
  BY DEF Drop
<1> HIDE DEF es, rest
<1>3. /\ k <= 0 => fs = es
      /\ k > 0 /\ k >= Len(es) => fs = <<>>
      /\ k > 0 /\ k < Len(es) => Len(fs) = Len(es) - k
  BY <1>1
<1> HIDE DEF fs
<1>4. Len(<<>>) = 0
  OBVIOUS
<1>5. /\ Len(fs) <= Len(es) /\ (es = <<>> => fs = <<>>)
      /\ k <= 0 => fs = es
      /\ k > 0 /\ Len(es) <= 1 => fs = <<>>
  BY <1>1, <1>3, <1>4
<1>6. rest.entries = fs
  BY <1>2 DEF NodeType
<1> QED
  BY <1>5, <1>6 DEF rest, es

\* The parts of a trimmed tree.
LEMMA TrimmedParts ==
    ASSUME NEW t, Shape(t), NEW u, Trimmed(t, u)
    PROVE  /\ DOMAIN u = DOMAIN t
           /\ \A p \in DOMAIN t :
                /\ u[p] \in NodeType /\ u[p].children = t[p].children /\ u[p].isLeaf = t[p].isLeaf
                /\ \A i \in 1 .. Len(u[p].entries) : \E j \in 1 .. Len(t[p].entries) :
                     u[p].entries[i] = t[p].entries[j]
<1>1. DOMAIN u = DOMAIN t
  BY DEF Trimmed
<1>2. ASSUME NEW p \in DOMAIN t
      PROVE  /\ u[p] \in NodeType /\ u[p].children = t[p].children /\ u[p].isLeaf = t[p].isLeaf
             /\ \A i \in 1 .. Len(u[p].entries) : \E j \in 1 .. Len(t[p].entries) :
                  u[p].entries[i] = t[p].entries[j]
  <2>1. t[p] \in NodeType
    BY NodeParts
  <2>2. CASE u[p] = t[p]
    BY <2>1, <2>2
  <2>3. CASE \E k \in Int : u[p] = Drop(t[p], k)
    BY <2>1, <2>3, DropIs
  <2> QED
    BY <2>2, <2>3 DEF Trimmed
<1> QED
  BY <1>1, <1>2

\* Trimming keeps the shape and moves no entry.
LEMMA TrimmedShape ==
    ASSUME NEW t, Shape(t), NEW u, Trimmed(t, u)
    PROVE  /\ Shape(u) /\ Contents(u) \subseteq Contents(t)
           /\ \A g : Placed(t, g) => Placed(u, g)
<1>1. DOMAIN u = DOMAIN t
  BY TrimmedParts
<1>2. \A p \in DOMAIN t : u[p] \in NodeType /\ u[p].children = t[p].children
  BY TrimmedParts
<1>3. \A p \in DOMAIN t : \A i \in 1 .. Len(u[p].entries) : \E j \in 1 .. Len(t[p].entries) :
        u[p].entries[i] = t[p].entries[j]
  BY TrimmedParts
<1>4. u \in [DOMAIN t -> NodeType]
  BY <1>2 DEF Trimmed
<1>5. Shape(u)
  BY <1>1, <1>2, <1>4 DEF Shape
<1>6. \A p \in DOMAIN t : Of(u, p) \subseteq Of(t, p)
  BY <1>3 DEF Of
<1>7. Contents(u) \subseteq Contents(t)
  BY <1>1, <1>6, ContentsAre
<1>8. ASSUME NEW g, Placed(t, g) PROVE Placed(u, g)
  <2> SUFFICES ASSUME NEW p \in DOMAIN t, NEW i \in 1 .. Len(u[p].entries)
               PROVE  u[p].entries[i] \in DOMAIN g /\ g[u[p].entries[i]] = p
    BY <1>1 DEF Placed
  <2>1. PICK j \in 1 .. Len(t[p].entries) : u[p].entries[i] = t[p].entries[j]
    BY <1>3
  <2> QED
    BY <1>8, <2>1 DEF Placed
<1> QED
  BY <1>5, <1>7, <1>8

\* The walk of trimming visits entries of the tree.
LEMMA VisitedCount ==
    ASSUME NEW t, Shape(t), NEW p, IsFiniteSet(Contents(t))
    PROVE  /\ Visited(t, TopLeaves(t), p) \subseteq Contents(t)
           /\ Cardinality(Visited(t, TopLeaves(t), p)) \in Nat
<1> DEFINE V == Visited(t, TopLeaves(t), p)
<1>1. TopLeaves(t) \subseteq DOMAIN t
  BY DEF TopLeaves, Leaves
<1>2. \A q \in DOMAIN t : ToSet(t[q].entries) = Of(t, q)
  <2> SUFFICES ASSUME NEW q \in DOMAIN t PROVE ToSet(t[q].entries) = Of(t, q)
    OBVIOUS
  <2>1. DOMAIN t[q].entries = 1 .. Len(t[q].entries)
    BY NodeParts
  <2> QED
    BY <2>1 DEF ToSet, Of
<1>3. V \subseteq Contents(t)
  BY <1>1, <1>2, ContentsAre DEF Visited
<1>4. Cardinality(V) \in Nat
  BY <1>3, FS_Subset, FS_CardinalityType
<1> QED
  BY <1>3, <1>4

\* TrimBySize trims.
LEMMA TrimBySizeTrims ==
    ASSUME NEW t, Shape(t), IsFiniteSet(Contents(t)), NEW n \in Int, NEW max \in Int
    PROVE  Trimmed(t, TrimBySize(t, n, max))
<1>1. \A p : n - max - Cardinality(Visited(t, TopLeaves(t), p)) \in Int
  <2> TAKE p
  <2>1. Cardinality(Visited(t, TopLeaves(t), p)) \in Nat
    BY VisitedCount
  <2> QED
    BY <2>1
<1> QED
  BY <1>1, Zenon DEF TrimBySize, Trimmed

\* TrimByMinID trims.
LEMMA TrimByMinIDTrims ==
    ASSUME NEW t, Shape(t), NEW min
    PROVE  Trimmed(t, TrimByMinID(t, min))
<1>1. \A p \in DOMAIN t : Len(t[p].entries) \in Int
  BY NodeParts
<1> QED
  BY <1>1, Zenon DEF TrimByMinID, Trimmed

(***************************************************************************)
(* What the steps of AddEntry do to a tree t.                              *)
(***************************************************************************)
AddedTo(t, u, s, e) ==
    /\ DOMAIN u = DOMAIN t
    /\ \A p \in DOMAIN t : u[p].children = t[p].children
    /\ \A p \in DOMAIN t : p # s => u[p].isLeaf = t[p].isLeaf /\ u[p].entries = t[p].entries
    /\ u[s].isLeaf = TRUE /\ u[s].entries = Append(t[s].entries, e)

HungBelow(t, u, n, s, e) ==
    /\ DOMAIN u = DOMAIN t \cup {s}
    /\ u[s].isLeaf = TRUE /\ u[s].entries = <<e>> /\ u[s].children = <<>>
    /\ \A p \in DOMAIN t : u[p].isLeaf = t[p].isLeaf /\ u[p].entries = t[p].entries
    /\ \A p \in DOMAIN t : p # n => u[p].children = t[p].children
    /\ u[n].children = Append(t[n].children, s)

CutAt(t, u, n, c, q) ==
    /\ DOMAIN u = DOMAIN t \cup {q}
    /\ u[q].isLeaf = FALSE /\ u[q].entries = <<>> /\ u[q].children = <<c>>
    /\ \A p \in DOMAIN t : u[p].isLeaf = t[p].isLeaf /\ u[p].entries = t[p].entries
    /\ \A p \in DOMAIN t : p # n => u[p].children = t[p].children
    /\ u[n].children = ReplaceAll(t[n].children, c, q)

\* What AddTo changes.
LEMMA AddToParts ==
    ASSUME NEW t, Shape(t), NEW s \in DOMAIN t, NEW e
    PROVE  AddedTo(t, AddTo(t, s, e), s, e)
<1> DEFINE u == AddTo(t, s, e)
<1>1. DOMAIN u = DOMAIN t /\ u[s] = Node(TRUE, Append(t[s].entries, e), t[s].children)
      /\ \A p \in DOMAIN t : p # s => u[p] = t[p]
  BY DEF AddTo, Shape
<1> HIDE DEF u
<1>2. u[s].isLeaf = TRUE /\ u[s].entries = Append(t[s].entries, e) /\ u[s].children = t[s].children
  BY <1>1 DEF Node
<1>3. AddedTo(t, u, s, e)
  BY <1>1, <1>2 DEF AddedTo
<1> QED
  BY <1>3 DEF u

\* What addChild changes.
LEMMA AddChildParts ==
    ASSUME NEW t, Shape(t), NEW n \in DOMAIN t, NEW s, s \notin DOMAIN t, NEW e
    PROVE  HungBelow(t, addChild(t, n, s, e), n, s, e)
<1> DEFINE u == addChild(t, n, s, e)
           ds == Append(t[n].children, s)
<1>1. /\ DOMAIN u = DOMAIN t \cup {s} /\ u[s] = Node(TRUE, <<e>>, <<>>)
      /\ u[n] = [t[n] EXCEPT !.children = ds]
      /\ \A p \in DOMAIN t : p # n => u[p] = t[p]
  BY DEF addChild
<1>2. t[n] \in NodeType
  BY NodeParts
<1> HIDE DEF u, ds
<1>3. u[s].isLeaf = TRUE /\ u[s].entries = <<e>> /\ u[s].children = <<>>
  BY <1>1 DEF Node
<1>4. u[n].isLeaf = t[n].isLeaf /\ u[n].entries = t[n].entries /\ u[n].children = ds
  BY <1>1, <1>2 DEF NodeType
<1>5. u[n].children = Append(t[n].children, s)
  BY <1>4 DEF ds
<1>6. HungBelow(t, u, n, s, e)
  BY <1>1, <1>3, <1>4, <1>5 DEF HungBelow
<1> QED
  BY <1>6 DEF u

\* What split changes.
LEMMA SplitParts ==
    ASSUME NEW t, Shape(t), NEW n \in DOMAIN t, NEW c, NEW q, q \notin DOMAIN t
    PROVE  CutAt(t, split(t, n, c, q), n, c, q)
<1> DEFINE u == split(t, n, c, q)
           ds == ReplaceAll(t[n].children, c, q)
<1>1. /\ DOMAIN u = DOMAIN t \cup {q} /\ u[q] = Node(FALSE, <<>>, <<c>>)
      /\ u[n] = [t[n] EXCEPT !.children = ds]
      /\ \A p \in DOMAIN t : p # n => u[p] = t[p]
  BY DEF split
<1>2. t[n] \in NodeType
  BY NodeParts
<1> HIDE DEF u, ds
<1>3. u[q].isLeaf = FALSE /\ u[q].entries = <<>> /\ u[q].children = <<c>>
  BY <1>1 DEF Node
<1>4. u[n].isLeaf = t[n].isLeaf /\ u[n].entries = t[n].entries /\ u[n].children = ds
  BY <1>1, <1>2 DEF NodeType
<1>5. u[n].children = ReplaceAll(t[n].children, c, q)
  BY <1>4 DEF ds
<1>6. CutAt(t, u, n, c, q)
  BY <1>1, <1>3, <1>4, <1>5 DEF CutAt
<1> QED
  BY <1>6 DEF u

(***************************************************************************)
(* What trimming relies on: from a node the walk finds every node below it *)
(***************************************************************************)
Child(t, m, c) == \E i \in 1 .. Len(t[m].children) : t[m].children[i] = c

Connected(t) ==
    \A m, p \in DOMAIN t : Under(m, p) => \E c : Child(t, m, c) /\ IsPrefix(c, p)

\* A child is a node below its parent.
LEMMA ChildType ==
    ASSUME NEW t, Shape(t), NEW m \in DOMAIN t, NEW c, Child(t, m, c)
    PROVE  c \in DOMAIN t /\ c \in Seq(Nat) /\ Under(m, c)
<1>1. Family(DOMAIN t, m, t[m].children) /\ DOMAIN t \subseteq Seq(Nat)
  BY DEF Shape
<1> QED
  BY <1>1 DEF Child, Family

\* Children that begin with the same byte are one.
LEMMA OneChild ==
    ASSUME NEW t, Shape(t), NEW m \in DOMAIN t, NEW c, Child(t, m, c), NEW d, Child(t, m, d),
           Branch(m, c) = Branch(m, d)
    PROVE  c = d
<1>1. Family(DOMAIN t, m, t[m].children)
  BY DEF Shape
<1> QED
  BY <1>1 DEF Child, Family

\* AddTo keeps the tree connected.
LEMMA AddToConnected ==
    ASSUME NEW t, Connected(t), NEW u, NEW s, NEW e, AddedTo(t, u, s, e)
    PROVE  Connected(u)
<1>1. \A m \in DOMAIN t : \A c : Child(t, m, c) <=> Child(u, m, c)
  BY DEF AddedTo, Child
<1>2. DOMAIN u = DOMAIN t
  BY DEF AddedTo
<1> QED
  BY <1>1, <1>2, Zenon DEF Connected

\* addChild keeps the tree connected.
LEMMA HangConnected ==
    ASSUME NEW t, Shape(t), Connected(t), NEW n, NEW s, Hangs(t, n, s), NEW e, NEW u, HungBelow(t, u, n, s, e)
    PROVE  Connected(u)
<1>1. /\ n \in DOMAIN t /\ s \in Seq(Nat) /\ s \notin DOMAIN t /\ Under(n, s) /\ IsPrefix(n, s)
      /\ \A p \in DOMAIN t : IsPrefix(p, s) => Len(p) <= Len(n)
      /\ n \in Seq(Nat) /\ DOMAIN t \subseteq Seq(Nat)
  BY DEF Hangs, Under, Shape
<1>2. DOMAIN u = DOMAIN t \cup {s}
  BY DEF HungBelow
<1>3. \A m \in DOMAIN t : \A c : Child(t, m, c) => Child(u, m, c)
  <2> SUFFICES ASSUME NEW m \in DOMAIN t, NEW c, Child(t, m, c) PROVE Child(u, m, c)
    OBVIOUS
  <2>1. CASE m # n
    BY <2>1 DEF Child, HungBelow
  <2>2. CASE m = n
    <3> DEFINE cs == t[n].children
    <3>1. cs \in Seq(Seq(Nat)) /\ u[n].children = Append(cs, s)
      BY <1>1, NodeParts DEF HungBelow
    <3>2. PICK i \in 1 .. Len(cs) : cs[i] = c
      BY <2>2 DEF Child
    <3> HIDE DEF cs
    <3>3. i \in 1 .. Len(Append(cs, s)) /\ Append(cs, s)[i] = c
      BY <1>1, <3>1, <3>2
    <3> QED
      BY <2>2, <3>1, <3>3 DEF Child
  <2> QED
    BY <2>1, <2>2
<1>4. Child(u, n, s)
  <2> DEFINE cs == t[n].children
  <2>1. cs \in Seq(Seq(Nat)) /\ u[n].children = Append(cs, s)
    BY <1>1, NodeParts DEF HungBelow
  <2> HIDE DEF cs
  <2>2. Len(cs) + 1 \in 1 .. Len(Append(cs, s)) /\ Append(cs, s)[Len(cs) + 1] = s
    BY <1>1, <2>1
  <2> QED
    BY <2>1, <2>2 DEF Child
<1>5. ASSUME NEW m \in DOMAIN u, NEW p \in DOMAIN u, Under(m, p)
      PROVE  \E c : Child(u, m, c) /\ IsPrefix(c, p)
  <2>1. CASE m \in DOMAIN t /\ p \in DOMAIN t
    BY <1>3, <1>5, <2>1, Zenon DEF Connected
  <2>2. CASE m = n /\ p = s
    BY <1>1, <1>4, <2>2, PrefixSelf
  <2>3. CASE m \in DOMAIN t /\ m # n /\ p = s
    <3>1. m \in Seq(Nat) /\ IsPrefix(m, s) /\ Len(m) <= Len(n)
      BY <1>1, <1>5, <2>3 DEF Under
    <3>2. Under(m, n)
      BY <1>1, <2>3, <3>1, PrefixBetween
    <3>3. PICK c : Child(t, m, c) /\ IsPrefix(c, n)
      BY <1>1, <2>3, <3>2, Zenon DEF Connected
    <3>4. IsPrefix(c, s)
      BY <1>1, <2>3, <3>3, ChildType, PrefixTransitive
    <3> QED
      BY <1>3, <2>3, <3>3, <3>4
  <2>4. CASE m = s /\ p \in DOMAIN t
    <3>1. p \in Seq(Nat) /\ Under(n, p) /\ Branch(n, s) = Branch(n, p)
      BY <1>1, <1>5, <2>4, PrefixBranch DEF Under
    <3>2. PICK c : Child(t, n, c) /\ IsPrefix(c, p)
      BY <1>1, <2>4, <3>1, Zenon DEF Connected
    <3>3. Branch(n, c) = Branch(n, p)
      BY <1>1, <3>1, <3>2, ChildType, PrefixBranch
    <3> QED
      BY <3>1, <3>2, <3>3 DEF Child, Hangs
  <2>5. CASE m = s /\ p = s
    BY <1>1, <1>5, <2>5 DEF Under
  <2> QED
    BY <1>2, <2>1, <2>2, <2>3, <2>4, <2>5
<1> QED
  BY <1>5, Zenon DEF Connected

\* What ReplaceAll changes.
LEMMA ReplaceParts ==
    ASSUME NEW cs \in Seq(Seq(Nat)), NEW c, NEW q
    PROVE  /\ Len(ReplaceAll(cs, c, q)) = Len(cs)
           /\ \A i \in 1 .. Len(cs) : ReplaceAll(cs, c, q)[i] = IF cs[i] = c THEN q ELSE cs[i]
<1> DEFINE ds == ReplaceAll(cs, c, q)
<1>1. Len(cs) \in Nat /\ ds = [i \in 1 .. Len(cs) |-> IF cs[i] = c THEN q ELSE cs[i]]
  BY DEF ReplaceAll
<1> QED
  BY <1>1

\* split keeps the tree connected.
LEMMA CutConnected ==
    ASSUME NEW t, Shape(t), Connected(t), NEW n, NEW c, NEW q, Splits(t, n, c, q), NEW u, CutAt(t, u, n, c, q)
    PROVE  Connected(u)
<1>1. /\ n \in DOMAIN t /\ c \in DOMAIN t /\ Child(t, n, c) /\ q \in Seq(Nat) /\ q \notin DOMAIN t
      /\ Under(n, q) /\ Under(q, c) /\ IsPrefix(n, q) /\ IsPrefix(q, c) /\ Branch(n, q) = Branch(n, c)
      /\ n \in Seq(Nat) /\ c \in Seq(Nat) /\ DOMAIN t \subseteq Seq(Nat)
  BY DEF Splits, Under, Shape, Child
<1>2. \A p \in DOMAIN t : IsPrefix(p, q) => Len(p) <= Len(n)
  BY DEF Splits
<1>3. DOMAIN u = DOMAIN t \cup {q}
  BY DEF CutAt
<1>4. \A m \in DOMAIN t : \A d : m # n => (Child(t, m, d) <=> Child(u, m, d))
  BY DEF Child, CutAt
<1>5. Child(u, n, q) /\ \A d : Child(t, n, d) /\ d # c => Child(u, n, d)
  <2> DEFINE cs == t[n].children
             ds == ReplaceAll(cs, c, q)
  <2>1. cs \in Seq(Seq(Nat)) /\ u[n].children = ds
    BY <1>1, NodeParts DEF CutAt
  <2>2. Len(ds) = Len(cs) /\ \A i \in 1 .. Len(cs) : ds[i] = IF cs[i] = c THEN q ELSE cs[i]
    BY <2>1, ReplaceParts
  <2> HIDE DEF ds
  <2>3. \A d : Child(t, n, d) <=> \E i \in 1 .. Len(cs) : cs[i] = d
    BY DEF Child
  <2>4. \A d : Child(u, n, d) <=> \E i \in 1 .. Len(ds) : ds[i] = d
    BY <2>1 DEF Child
  <2> HIDE DEF cs
  <2> QED
    BY <1>1, <2>2, <2>3, <2>4
<1>6. Child(u, q, c)
  <2>1. u[q].children = <<c>> /\ Len(<<c>>) = 1 /\ <<c>>[1] = c /\ 1 \in 1 .. 1
    BY DEF CutAt
  <2> QED
    BY <2>1 DEF Child
<1>7. ASSUME NEW m \in DOMAIN u, NEW p \in DOMAIN u, Under(m, p)
      PROVE  \E d : Child(u, m, d) /\ IsPrefix(d, p)
  <2>1. CASE m \in DOMAIN t /\ m # n /\ p \in DOMAIN t
    BY <1>4, <1>7, <2>1, Zenon DEF Connected
  <2>2. CASE m = n /\ p \in DOMAIN t
    <3>1. PICK d : Child(t, n, d) /\ IsPrefix(d, p)
      BY <1>1, <1>7, <2>2, Zenon DEF Connected
    <3>2. CASE d = c
      <4>1. IsPrefix(q, p)
        BY <1>1, <2>2, <3>1, <3>2, PrefixTransitive
      <4> QED
        BY <1>5, <2>2, <4>1
    <3>3. CASE d # c
      BY <1>5, <2>2, <3>1, <3>3
    <3> QED
      BY <3>2, <3>3
  <2>3. CASE m = n /\ p = q
    BY <1>1, <1>5, <2>3, PrefixSelf
  <2>4. CASE m \in DOMAIN t /\ m # n /\ p = q
    <3>1. m \in Seq(Nat) /\ IsPrefix(m, q) /\ Len(m) <= Len(n)
      BY <1>1, <1>2, <1>7, <2>4 DEF Under
    <3>2. Under(m, n)
      BY <1>1, <2>4, <3>1, PrefixBetween
    <3>3. PICK d : Child(t, m, d) /\ IsPrefix(d, n)
      BY <1>1, <2>4, <3>2, Zenon DEF Connected
    <3>4. IsPrefix(d, q)
      BY <1>1, <2>4, <3>3, ChildType, PrefixTransitive
    <3> QED
      BY <1>4, <2>4, <3>3, <3>4
  <2>5. CASE m = q /\ p \in DOMAIN t
    <3>1. p \in Seq(Nat) /\ Under(n, p) /\ Branch(n, q) = Branch(n, p)
      BY <1>1, <1>7, <2>5, PrefixBranch DEF Under
    <3>2. PICK d : Child(t, n, d) /\ IsPrefix(d, p)
      BY <1>1, <2>5, <3>1, Zenon DEF Connected
    <3>3. Branch(n, d) = Branch(n, p)
      BY <1>1, <3>1, <3>2, ChildType, PrefixBranch
    <3>4. d = c
      BY <1>1, <3>1, <3>2, <3>3, OneChild
    <3> QED
      BY <1>6, <2>5, <3>2, <3>4
  <2>6. CASE m = q /\ p = q
    BY <1>1, <1>7, <2>6 DEF Under
  <2> QED
    BY <1>3, <2>1, <2>2, <2>3, <2>4, <2>5, <2>6
<1> QED
  BY <1>7, Zenon DEF Connected

(***************************************************************************)
(* Every node is on the way to a string, and a leaf is at its end.         *)
(***************************************************************************)
Grounded(t, g) ==
    /\ \A p \in DOMAIN t : p = <<>> \/ \E k \in DOMAIN g : IsPrefix(p, g[k])
    /\ \A p \in DOMAIN t : t[p].isLeaf = TRUE => \E k \in DOMAIN g : p = g[k]
    /\ \A p \in DOMAIN t : t[p].entries # <<>> => t[p].isLeaf = TRUE

\* A tree stays grounded when strings are added.
LEMMA GroundedMore ==
    ASSUME NEW t, NEW g, NEW h, Grounded(t, g), DOMAIN g \subseteq DOMAIN h, \A i \in DOMAIN g : h[i] = g[i]
    PROVE  Grounded(t, h)
BY DEF Grounded

\* AddTo keeps the tree grounded.
LEMMA AddToGrounded ==
    ASSUME NEW t, NEW g, Grounded(t, g), NEW u, NEW s \in DOMAIN t, NEW e \in DOMAIN g, AddedTo(t, u, s, e), g[e] = s
    PROVE  Grounded(u, g)
BY DEF Grounded, AddedTo

\* addChild keeps the tree grounded.
LEMMA HangGrounded ==
    ASSUME NEW t, NEW g, Grounded(t, g), NEW u, NEW n, NEW s \in Seq(Nat), NEW e \in DOMAIN g,
           HungBelow(t, u, n, s, e), g[e] = s
    PROVE  Grounded(u, g)
<1>1. IsPrefix(s, s)
  BY PrefixSelf
<1>2. /\ DOMAIN u = DOMAIN t \cup {s} /\ u[s].isLeaf = TRUE
      /\ \A p \in DOMAIN t : u[p].isLeaf = t[p].isLeaf /\ u[p].entries = t[p].entries
  BY DEF HungBelow
<1> QED
  BY <1>1, <1>2 DEF Grounded

\* split keeps the tree grounded.
LEMMA CutGrounded ==
    ASSUME NEW t, Shape(t), NEW g, \A k \in DOMAIN g : g[k] \in Seq(Nat), Grounded(t, g),
           NEW u, NEW n, NEW c, NEW q, Splits(t, n, c, q), CutAt(t, u, n, c, q)
    PROVE  Grounded(u, g)
<1>1. /\ c \in DOMAIN t /\ c \in Seq(Nat) /\ q \in Seq(Nat) /\ q \notin DOMAIN t /\ IsPrefix(q, c) /\ Len(q) < Len(c)
  BY DEF Splits, Under, Shape
<1>2. c # <<>>
  <2>1. Len(q) \in Nat /\ Len(<<>>) = 0
    BY <1>1
  <2> QED
    BY <1>1, <2>1
<1>3. PICK k \in DOMAIN g : IsPrefix(c, g[k])
  BY <1>1, <1>2 DEF Grounded
<1>4. IsPrefix(q, g[k])
  BY <1>1, <1>3, PrefixTransitive
<1>5. /\ DOMAIN u = DOMAIN t \cup {q} /\ u[q].isLeaf = FALSE /\ u[q].entries = <<>>
      /\ \A p \in DOMAIN t : u[p].isLeaf = t[p].isLeaf /\ u[p].entries = t[p].entries
  BY DEF CutAt
<1>6. ASSUME NEW p \in DOMAIN u PROVE p = <<>> \/ \E j \in DOMAIN g : IsPrefix(p, g[j])
  BY <1>4, <1>5 DEF Grounded
<1>7. ASSUME NEW p \in DOMAIN u, u[p].isLeaf = TRUE PROVE \E j \in DOMAIN g : p = g[j]
  BY <1>5, <1>7 DEF Grounded
<1>8. ASSUME NEW p \in DOMAIN u, u[p].entries # <<>> PROVE u[p].isLeaf = TRUE
  BY <1>5, <1>8 DEF Grounded
<1> QED
  BY <1>6, <1>7, <1>8 DEF Grounded

(***************************************************************************)
(* When strings come in their own order, so do the children of a node, and *)
(* a leaf gets one entry.                                                  *)
(***************************************************************************)
Sorted(t) ==
    \A p \in DOMAIN t : \A i, j \in 1 .. Len(t[p].children) :
      i < j => Branch(p, t[p].children[i]) < Branch(p, t[p].children[j])

Single(t) == \A p \in DOMAIN t : Len(t[p].entries) <= 1

\* Strings that part behind n have the order of their next bytes.
LEMMA LessFirst ==
    ASSUME NEW a \in Seq(Nat), NEW b \in Seq(Nat), NEW n \in Seq(Nat), Under(n, a), Under(n, b),
           Branch(n, a) # Branch(n, b)
    PROVE  LessStr(a, b) <=> Branch(n, a) < Branch(n, b)
<1> DEFINE l == Len(n)
<1>1. /\ l \in Nat /\ Len(a) \in Nat /\ Len(b) \in Nat /\ l < Len(a) /\ l < Len(b)
      /\ \A i \in 1 .. l : a[i] = n[i] /\ b[i] = n[i]
  BY PrefixBytes DEF Under
<1>2. l + 1 \in 1 .. Len(a) /\ l + 1 \in 1 .. Len(b)
  BY <1>1
<1>3. a[l + 1] \in Nat /\ b[l + 1] \in Nat /\ a[l + 1] # b[l + 1]
  BY <1>2 DEF Branch
<1>4. ASSUME a[l + 1] < b[l + 1] PROVE LessStr(a, b)
  <2>1. LessAt(a, b, l)
    BY <1>1, <1>4 DEF LessAt
  <2> QED
    BY <2>1, LessStrAt
<1>5. ASSUME LessStr(a, b) PROVE a[l + 1] < b[l + 1]
  <2>1. PICK m : LessAt(a, b, m)
    BY <1>5, LessStrAt
  <2>2. m \in Nat /\ m <= Len(a) /\ m < Len(b)
    BY <1>1, <2>1 DEF LessAt
  <2>3. CASE m < l
    <3>1. m + 1 \in 1 .. l /\ m # Len(a) /\ m + 1 \in 1 .. Len(a)
      BY <1>1, <2>2, <2>3
    <3>2. a[m + 1] < b[m + 1] /\ a[m + 1] = b[m + 1] /\ a[m + 1] \in Nat
      BY <1>1, <2>1, <3>1 DEF LessAt
    <3> QED
      BY <3>2
  <2>4. CASE m = l
    <3>1. m # Len(a)
      BY <1>1, <2>4
    <3> QED
      BY <2>1, <2>4, <3>1 DEF LessAt
  <2>5. CASE m > l
    <3>1. l + 1 \in 1 .. m
      BY <1>1, <2>2, <2>5
    <3>2. a[l + 1] = b[l + 1]
      BY <2>1, <3>1 DEF LessAt
    <3> QED
      BY <1>3, <3>2
  <2> QED
    BY <1>1, <2>2, <2>3, <2>4, <2>5
<1> QED
  BY <1>4, <1>5 DEF Branch

\* AddTo keeps the children sorted.
LEMMA AddToSorted ==
    ASSUME NEW t, Sorted(t), NEW u, NEW s, NEW e, AddedTo(t, u, s, e)
    PROVE  Sorted(u)
BY DEF Sorted, AddedTo

\* split keeps the children sorted.
LEMMA CutSorted ==
    ASSUME NEW t, Shape(t), Sorted(t), NEW n, NEW c, NEW q, Splits(t, n, c, q), NEW u, CutAt(t, u, n, c, q)
    PROVE  Sorted(u)
<1>1. n \in DOMAIN t /\ Branch(n, q) = Branch(n, c) /\ DOMAIN u = DOMAIN t \cup {q} /\ q \notin DOMAIN t
  BY DEF Splits, CutAt
<1> DEFINE cs == t[n].children
           ds == ReplaceAll(cs, c, q)
<1>2. cs \in Seq(Seq(Nat)) /\ u[n].children = ds
  BY <1>1, NodeParts DEF CutAt
<1>3. Len(ds) = Len(cs) /\ \A i \in 1 .. Len(cs) : ds[i] = IF cs[i] = c THEN q ELSE cs[i]
  BY <1>2, ReplaceParts
<1> HIDE DEF ds
<1>4. \A i, j \in 1 .. Len(cs) : i < j => Branch(n, cs[i]) < Branch(n, cs[j])
  BY <1>1 DEF Sorted
<1> HIDE DEF cs
<1>5. \A i \in 1 .. Len(ds) : Branch(n, ds[i]) = Branch(n, cs[i])
  BY <1>1, <1>3
<1>6. ASSUME NEW p \in DOMAIN u, NEW i \in 1 .. Len(u[p].children), NEW j \in 1 .. Len(u[p].children), i < j
      PROVE  Branch(p, u[p].children[i]) < Branch(p, u[p].children[j])
  <2>1. CASE p = q
    <3>1. u[q].children = <<c>> /\ Len(<<c>>) = 1
      BY DEF CutAt
    <3>2. i \in 1 .. 1 /\ j \in 1 .. 1
      BY <1>6, <2>1, <3>1
    <3> QED
      BY <1>6, <3>2
  <2>2. CASE p = n
    BY <1>2, <1>3, <1>4, <1>5, <1>6, <2>2
  <2>3. CASE p # n /\ p # q
    <3>1. p \in DOMAIN t /\ u[p].children = t[p].children
      BY <1>1, <1>6, <2>3 DEF CutAt
    <3> QED
      BY <1>6, <3>1 DEF Sorted
  <2> QED
    BY <2>1, <2>2, <2>3
<1> QED
  BY <1>6 DEF Sorted

\* addChild keeps the children sorted when the string is the largest.
LEMMA HangSorted ==
    ASSUME NEW t, Shape(t), Sorted(t), NEW g, Grounded(t, g),
           NEW n, NEW s, Hangs(t, n, s), \A k \in DOMAIN g : g[k] \in Seq(Nat) /\ LessStr(g[k], s),
           NEW e, NEW u, HungBelow(t, u, n, s, e)
    PROVE  Sorted(u)
<1>1. /\ n \in DOMAIN t /\ n \in Seq(Nat) /\ s \in Seq(Nat) /\ s \notin DOMAIN t /\ Under(n, s)
      /\ DOMAIN u = DOMAIN t \cup {s}
  BY DEF Hangs, HungBelow, Shape
<1> DEFINE cs == t[n].children
           ds == Append(cs, s)
<1>2. cs \in Seq(Seq(Nat)) /\ Family(DOMAIN t, n, cs) /\ u[n].children = ds
  BY <1>1, NodeParts DEF HungBelow, Shape
<1>3. \A i, j \in 1 .. Len(cs) : i < j => Branch(n, cs[i]) < Branch(n, cs[j])
  BY <1>1 DEF Sorted
<1>4. \A i \in 1 .. Len(cs) : Branch(n, cs[i]) # Branch(n, s)
  BY DEF Hangs
<1> HIDE DEF cs
<1>5. /\ Len(ds) = Len(cs) + 1 /\ Len(cs) \in Nat /\ ds[Len(cs) + 1] = s
      /\ \A i \in 1 .. Len(cs) : ds[i] = cs[i]
  BY <1>1, <1>2
<1> HIDE DEF ds
<1>6. ASSUME NEW i \in 1 .. Len(cs) PROVE Branch(n, cs[i]) < Branch(n, s)
  <2>1. cs[i] \in DOMAIN t /\ cs[i] \in Seq(Nat) /\ Under(n, cs[i])
    BY <1>2 DEF Family
  <2>2. cs[i] # <<>>
    <3>1. Len(n) \in Nat /\ Len(n) < Len(cs[i]) /\ Len(<<>>) = 0
      BY <1>1, <2>1 DEF Under
    <3> QED
      BY <3>1
  <2>3. PICK k \in DOMAIN g : IsPrefix(cs[i], g[k])
    BY <2>1, <2>2 DEF Grounded
  <2>4. g[k] \in Seq(Nat) /\ LessStr(g[k], s)
    OBVIOUS
  <2>5. Under(n, g[k]) /\ Branch(n, cs[i]) = Branch(n, g[k])
    BY <1>1, <2>1, <2>3, <2>4, PrefixBranch
  <2> QED
    BY <1>1, <1>4, <2>4, <2>5, LessFirst
<1>7. ASSUME NEW p \in DOMAIN u, NEW i \in 1 .. Len(u[p].children), NEW j \in 1 .. Len(u[p].children), i < j
      PROVE  Branch(p, u[p].children[i]) < Branch(p, u[p].children[j])
  <2>1. CASE p = s
    <3>1. u[s].children = <<>> /\ \A k \in 1 .. Len(<<>>) : FALSE
      BY DEF HungBelow
    <3> QED
      BY <1>7, <2>1, <3>1
  <2>2. CASE p = n
    <3>1. i \in 1 .. Len(cs) /\ (j \in 1 .. Len(cs) \/ j = Len(cs) + 1)
      BY <1>2, <1>5, <1>7, <2>2
    <3> QED
      BY <1>2, <1>3, <1>5, <1>6, <1>7, <2>2, <3>1
  <2>3. CASE p # n /\ p # s
    <3>1. p \in DOMAIN t /\ u[p].children = t[p].children
      BY <1>1, <1>7, <2>3 DEF HungBelow
    <3> QED
      BY <1>7, <3>1 DEF Sorted
  <2> QED
    BY <2>1, <2>2, <2>3
<1> QED
  BY <1>7 DEF Sorted

\* AddTo of a new string finds no entry in its node.
LEMMA AddToSingle ==
    ASSUME NEW t, Shape(t), Single(t), NEW g, Placed(t, g), NEW s \in DOMAIN t, \A k \in DOMAIN g : g[k] # s,
           NEW e \in Nat, NEW u, AddedTo(t, u, s, e)
    PROVE  Single(u)
<1>1. t[s].entries \in Seq(Nat) /\ Len(t[s].entries) \in Nat
  BY NodeParts
<1>2. \A i \in 1 .. Len(t[s].entries) : FALSE
  BY DEF Placed
<1>3. Len(t[s].entries) = 0
  BY <1>1, <1>2
<1>4. u[s].entries = Append(t[s].entries, e) /\ Len(Append(t[s].entries, e)) = 1
  BY <1>1, <1>3 DEF AddedTo
<1>5. Len(u[s].entries) <= 1
  BY <1>4
<1> QED
  BY <1>5 DEF Single, AddedTo

\* addChild makes a leaf with one entry.
LEMMA HangSingle ==
    ASSUME NEW t, Single(t), NEW u, NEW n, NEW s, NEW e, HungBelow(t, u, n, s, e)
    PROVE  Single(u)
<1>1. /\ DOMAIN u = DOMAIN t \cup {s} /\ u[s].entries = <<e>>
      /\ \A p \in DOMAIN t : u[p].entries = t[p].entries
  BY DEF HungBelow
<1>2. Len(<<e>>) <= 1
  OBVIOUS
<1>3. Len(u[s].entries) <= 1
  BY <1>1, <1>2
<1> QED
  BY <1>1, <1>3 DEF Single

\* split changes no entries.
LEMMA CutSingle ==
    ASSUME NEW t, Single(t), NEW u, NEW n, NEW c, NEW q, CutAt(t, u, n, c, q)
    PROVE  Single(u)
<1>1. /\ DOMAIN u = DOMAIN t \cup {q} /\ u[q].entries = <<>>
      /\ \A p \in DOMAIN t : u[p].entries = t[p].entries
  BY DEF CutAt
<1>2. Len(<<>>) <= 1
  OBVIOUS
<1>3. Len(u[q].entries) <= 1
  BY <1>1, <1>2
<1> QED
  BY <1>1, <1>3 DEF Single

(***************************************************************************)
(* AddEntry keeps a tree walkable, and orderly if its string is the        *)
(* largest so far.                                                         *)
(***************************************************************************)
Walkable(t, g) == Shape(t) /\ Connected(t) /\ Grounded(t, g)
Orderly(t) == Sorted(t) /\ Single(t)

\* split keeps the tree walkable and orderly.
LEMMA SplitWalk ==
    ASSUME NEW t, NEW g, \A k \in DOMAIN g : g[k] \in Seq(Nat), Walkable(t, g),
           NEW n, NEW c, NEW q, Splits(t, n, c, q)
    PROVE  LET v == split(t, n, c, q)
           IN  /\ Walkable(v, g) /\ (Orderly(t) => Orderly(v))
               /\ q \in DOMAIN v /\ (Placed(t, g) => Placed(v, g))
<1> DEFINE v == split(t, n, c, q)
<1>1. Shape(t) /\ Connected(t) /\ Grounded(t, g)
  BY DEF Walkable
<1>2. n \in DOMAIN t /\ q \notin DOMAIN t
  BY DEF Splits
<1>3. CutAt(t, v, n, c, q)
  BY <1>1, <1>2, SplitParts
<1>4. /\ Shape(v) /\ DOMAIN v = DOMAIN t \cup {q} /\ v[q].children = <<c>>
      /\ Contents(v) = Contents(t) /\ \A h : Placed(t, h) => Placed(v, h)
  BY <1>1, SplitIs
<1> HIDE DEF v
<1>5. Connected(v)
  BY <1>1, <1>3, CutConnected
<1>6. Grounded(v, g)
  BY <1>1, <1>3, CutGrounded
<1>7. Sorted(t) => Sorted(v)
  BY <1>1, <1>3, CutSorted
<1>8. Single(t) => Single(v)
  BY <1>3, CutSingle
<1>9. q \in DOMAIN v /\ (Placed(t, g) => Placed(v, g))
  BY <1>4
<1> QED
  BY <1>4, <1>5, <1>6, <1>7, <1>8, <1>9 DEF v, Walkable, Orderly

\* An extension of the strings g by s, the string of the entry e.
Extends(g, h, s, e) ==
    /\ DOMAIN g \subseteq DOMAIN h /\ \A i \in DOMAIN g : h[i] = g[i]
    /\ e \in DOMAIN h /\ h[e] = s

Largest(g, s) == \A k \in DOMAIN g : g[k] \in Seq(Nat) /\ LessStr(g[k], s)

\* A string above all others is none of them.
LEMMA LargestIsNew ==
    ASSUME NEW g, NEW s \in Seq(Nat), Largest(g, s)
    PROVE  \A k \in DOMAIN g : g[k] # s
<1>1. ~LessStr(s, s)
  BY LessAsymmetric
<1> QED
  BY <1>1 DEF Largest

\* AddTo keeps the tree walkable, and orderly for the largest string.
LEMMA AddToWalk ==
    ASSUME NEW t, NEW g, Walkable(t, g), NEW s \in DOMAIN t, NEW e \in Nat, NEW h, Extends(g, h, s, e)
    PROVE  LET u == AddTo(t, s, e)
           IN  /\ Walkable(u, h)
               /\ Orderly(t) /\ Placed(t, g) /\ Largest(g, s) => Orderly(u)
<1> DEFINE u == AddTo(t, s, e)
<1>1. Shape(t) /\ Connected(t) /\ Grounded(t, g) /\ s \in Seq(Nat)
  BY DEF Walkable, Shape
<1>2. AddedTo(t, u, s, e)
  BY <1>1, AddToParts
<1>3. Shape(u)
  BY <1>1, AddToShape
<1> HIDE DEF u
<1>4. Connected(u)
  BY <1>1, <1>2, AddToConnected
<1>5. Grounded(u, h)
  <2>1. Grounded(t, h) /\ e \in DOMAIN h /\ h[e] = s
    BY <1>1, GroundedMore DEF Extends
  <2> QED
    BY <1>2, <2>1, AddToGrounded
<1>6. ASSUME Sorted(t), Single(t), Placed(t, g), Largest(g, s) PROVE Sorted(u) /\ Single(u)
  <2>1. Sorted(u)
    BY <1>2, <1>6, AddToSorted
  <2>2. \A k \in DOMAIN g : g[k] # s
    BY <1>1, <1>6, LargestIsNew
  <2>3. Single(u)
    BY <1>1, <1>2, <1>6, <2>2, AddToSingle
  <2> QED
    BY <2>1, <2>3
<1> QED
  BY <1>3, <1>4, <1>5, <1>6 DEF u, Walkable, Orderly

\* addChild keeps the tree walkable, and orderly for the largest string.
LEMMA HangWalk ==
    ASSUME NEW t, NEW g, Walkable(t, g), NEW n, NEW s, Hangs(t, n, s), NEW e \in Nat,
           NEW h, Extends(g, h, s, e)
    PROVE  LET u == addChild(t, n, s, e)
           IN  /\ Walkable(u, h)
               /\ Orderly(t) /\ Placed(t, g) /\ Largest(g, s) => Orderly(u)
<1> DEFINE u == addChild(t, n, s, e)
<1>1. Shape(t) /\ Connected(t) /\ Grounded(t, g)
  BY DEF Walkable
<1>2. /\ n \in DOMAIN t /\ s \in Seq(Nat) /\ s \notin DOMAIN t /\ Under(n, s)
      /\ \A i \in 1 .. Len(t[n].children) : Branch(n, t[n].children[i]) # Branch(n, s)
  BY DEF Hangs
<1>3. HungBelow(t, u, n, s, e)
  BY <1>1, <1>2, AddChildParts
<1>4. Shape(u)
  BY <1>1, <1>2, AddChildShape
<1> HIDE DEF u
<1>5. Connected(u)
  BY <1>1, <1>3, HangConnected
<1>6. Grounded(u, h)
  <2>1. Grounded(t, h) /\ e \in DOMAIN h /\ h[e] = s
    BY <1>1, GroundedMore DEF Extends
  <2> QED
    BY <1>2, <1>3, <2>1, HangGrounded
<1>7. ASSUME Sorted(t), Single(t), Largest(g, s) PROVE Sorted(u) /\ Single(u)
  <2>1. Sorted(u)
    BY <1>1, <1>3, <1>7, HangSorted DEF Largest
  <2>2. Single(u)
    BY <1>3, <1>7, HangSingle
  <2> QED
    BY <2>1, <2>2
<1> QED
  BY <1>4, <1>5, <1>6, <1>7 DEF u, Walkable, Orderly

\* AddEntry keeps the tree walkable, and orderly for the largest string.
LEMMA AddEntryWalk ==
    ASSUME NEW t, NEW g, \A k \in DOMAIN g : g[k] \in Seq(Nat), Walkable(t, g),
           NEW s \in Seq(Nat), NEW e \in Nat, NEW h, Extends(g, h, s, e)
    PROVE  LET u == AddEntry(t, s, e)
           IN  /\ Walkable(u, h)
               /\ Orderly(t) /\ Placed(t, g) /\ Largest(g, s) => Orderly(u)
<1> DEFINE Premise == Orderly(t) /\ Placed(t, g) /\ Largest(g, s)
           Fine(u) == Walkable(u, h) /\ (Premise => Orderly(u))
           Ready(v) == Walkable(v, g) /\ (Premise => Orderly(v) /\ Placed(v, g) /\ Largest(g, s))
<1>1. Ready(t)
  OBVIOUS
<1>2. ASSUME NEW n, NEW c, NEW q, Splits(t, n, c, q)
      PROVE  Ready(split(t, n, c, q)) /\ q \in DOMAIN split(t, n, c, q)
  <2> DEFINE v == split(t, n, c, q)
  <2>1. /\ Walkable(v, g) /\ (Orderly(t) => Orderly(v))
        /\ q \in DOMAIN v /\ (Placed(t, g) => Placed(v, g))
    BY <1>2, SplitWalk
  <2> HIDE DEF v
  <2>2. Ready(v) /\ q \in DOMAIN v
    BY <2>1
  <2> QED
    BY <2>2 DEF v
<1>3. ASSUME NEW v, Ready(v), s \in DOMAIN v PROVE Fine(AddTo(v, s, e))
  <2> DEFINE u == AddTo(v, s, e)
  <2>1. Walkable(u, h) /\ (Orderly(v) /\ Placed(v, g) /\ Largest(g, s) => Orderly(u))
    BY <1>3, AddToWalk
  <2> HIDE DEF u
  <2>2. Fine(u)
    BY <1>3, <2>1
  <2> QED
    BY <2>2 DEF u
<1>4. ASSUME NEW v, NEW n, Ready(v), Hangs(v, n, s) PROVE Fine(addChild(v, n, s, e))
  <2> DEFINE u == addChild(v, n, s, e)
  <2>1. Walkable(u, h) /\ (Orderly(v) /\ Placed(v, g) /\ Largest(g, s) => Orderly(u))
    BY <1>4, HangWalk
  <2> HIDE DEF u
  <2>2. Fine(u)
    BY <1>4, <2>1
  <2> QED
    BY <2>2 DEF u
<1> HIDE DEF Ready, Fine
<1>5. Shape(t)
  BY DEF Walkable
<1>6. Fine(AddEntry(t, s, e))
  BY <1>1, <1>2, <1>3, <1>4, <1>5, AddEntryCases
<1> QED
  BY <1>6 DEF Fine, Premise

\* Trimming keeps the tree walkable and orderly.
LEMMA TrimmedWalk ==
    ASSUME NEW t, NEW g, Walkable(t, g), NEW u, Trimmed(t, u)
    PROVE  Walkable(u, g) /\ (Orderly(t) => Orderly(u))
<1>1. Shape(t) /\ Connected(t) /\ Grounded(t, g)
  BY DEF Walkable
<1>2. /\ DOMAIN u = DOMAIN t
      /\ \A p \in DOMAIN t : u[p].children = t[p].children /\ u[p].isLeaf = t[p].isLeaf
  BY <1>1, TrimmedParts
<1>3. Shape(u)
  BY <1>1, TrimmedShape
<1>4. Connected(u)
  <2>1. \A m \in DOMAIN t : \A c : Child(t, m, c) <=> Child(u, m, c)
    BY <1>2 DEF Child
  <2> QED
    BY <1>1, <1>2, <2>1, Zenon DEF Connected
<1>5. ASSUME NEW p \in DOMAIN t
      PROVE  /\ Len(u[p].entries) <= Len(t[p].entries)
             /\ t[p].entries = <<>> => u[p].entries = <<>>
  <2>1. t[p] \in NodeType
    BY <1>1, NodeParts
  <2>2. CASE u[p] = t[p]
    <3>1. t[p].entries \in Seq(Nat)
      BY <1>1, NodeParts
    <3> QED
      BY <2>2, <3>1
  <2>3. ASSUME NEW k \in Int, u[p] = Drop(t[p], k)
        PROVE  /\ Len(u[p].entries) <= Len(t[p].entries)
               /\ t[p].entries = <<>> => u[p].entries = <<>>
    BY <2>1, <2>3, DropLess
  <2> QED
    BY <2>2, <2>3 DEF Trimmed
<1>6. Grounded(u, g)
  <2>1. ASSUME NEW p \in DOMAIN u, u[p].isLeaf = TRUE PROVE \E k \in DOMAIN g : p = g[k]
    BY <1>1, <1>2, <2>1 DEF Grounded
  <2>2. ASSUME NEW p \in DOMAIN u, u[p].entries # <<>> PROVE u[p].isLeaf = TRUE
    <3>1. p \in DOMAIN t /\ t[p].entries # <<>>
      BY <1>2, <1>5, <2>2, Zenon
    <3> QED
      BY <1>1, <1>2, <3>1 DEF Grounded
  <2> QED
    BY <1>1, <1>2, <2>1, <2>2 DEF Grounded
<1>7. Sorted(t) => Sorted(u)
  BY <1>2 DEF Sorted
<1>8. Single(t) => Single(u)
  <2> SUFFICES ASSUME Single(t), NEW p \in DOMAIN t PROVE Len(u[p].entries) <= 1
    BY <1>2 DEF Single
  <2>1. Len(u[p].entries) \in Nat /\ Len(t[p].entries) \in Nat /\ Len(t[p].entries) <= 1
    BY <1>1, <1>2, <1>3, NodeParts DEF Single
  <2>2. Len(u[p].entries) <= Len(t[p].entries)
    BY <1>5, Zenon
  <2> QED
    BY <2>1, <2>2
<1> QED
  BY <1>3, <1>4, <1>6, <1>7, <1>8 DEF Walkable, Orderly

(***************************************************************************)
(* The walk over strings of one length is in their order.                  *)
(***************************************************************************)
\* The walk over a tree whose children are sorted meets two strings of one
\* length in the order of strings.
THEOREM BeforeIsLess ==
    ASSUME NEW t, Shape(t), Connected(t), Sorted(t), NEW p \in DOMAIN t, NEW q \in DOMAIN t,
           Len(p) = Len(q), p # q
    PROVE  Before(t, p, q) <=> LessStr(p, q)
<1>1. p \in Seq(Nat) /\ q \in Seq(Nat) /\ DOMAIN t \subseteq Seq(Nat) /\ <<>> \in DOMAIN t
      /\ Len(p) \in Nat /\ Len(q) \in Nat
  BY DEF Shape
<1>2. ~IsPrefix(p, q) /\ ~IsPrefix(q, p)
  BY <1>1, PrefixEqual, SMTT(30)
<1> DEFINE P == {x \in DOMAIN t : IsPrefix(x, q)}
<1>3. P \subseteq Seq(Nat) /\ \E x \in P : IsPrefix(x, p)
  <2>1. IsPrefix(<<>>, p) /\ IsPrefix(<<>>, q)
    BY <1>1, EmptyPrefix
  <2> QED
    BY <1>1, <2>1
<1>4. PICK n \in P : IsPrefix(n, p) /\ \A x \in P : IsPrefix(x, p) => Len(x) <= Len(n)
  BY <1>1, <1>3, LongestExists
<1>5. n \in DOMAIN t /\ n \in Seq(Nat) /\ Len(n) \in Nat /\ Under(n, p) /\ Under(n, q)
  <2>1. n \in DOMAIN t /\ n \in Seq(Nat) /\ IsPrefix(n, q) /\ n # p /\ n # q
    BY <1>1, <1>2, <1>4
  <2> QED
    BY <1>1, <1>4, <2>1, PrefixEqual DEF Under
<1>6. PICK c : Child(t, n, c) /\ IsPrefix(c, p)
  BY <1>5, Zenon DEF Connected
<1>7. PICK d : Child(t, n, d) /\ IsPrefix(d, q)
  BY <1>5, Zenon DEF Connected
<1>8. /\ c \in DOMAIN t /\ c \in Seq(Nat) /\ Under(n, c) /\ Branch(n, c) = Branch(n, p)
      /\ d \in Seq(Nat) /\ Under(n, d) /\ Branch(n, d) = Branch(n, q)
  BY <1>1, <1>5, <1>6, <1>7, ChildType, PrefixBranch
<1>9. c # d
  <2>1. Len(n) < Len(c) /\ Len(c) \in Nat
    BY <1>8 DEF Under
  <2>2. ASSUME c = d PROVE FALSE
    <3>1. Len(c) <= Len(n)
      BY <1>4, <1>6, <1>7, <1>8, <2>2
    <3> QED
      BY <1>5, <2>1, <3>1
  <2> QED
    BY <2>2
<1>10. Branch(n, p) # Branch(n, q)
  BY <1>5, <1>6, <1>7, <1>8, <1>9, OneChild
<1> HIDE DEF P
<1>11. LongestCommonPrefix({p, q}) = n
  <2> DEFINE m == LongestCommonPrefix({p, q})
  <2>1. /\ m \in Seq(Nat) /\ IsPrefix(m, p) /\ IsPrefix(m, q)
        /\ \A k \in 0 .. Len(p) : k <= Len(q) /\ (\A i \in 1 .. k : p[i] = q[i]) => k <= Len(m)
    BY <1>1, CommonPrefix
  <2> HIDE DEF m
  <2>2. /\ Len(m) \in Nat /\ Len(n) < Len(p) /\ Len(n) < Len(q)
        /\ \A i \in 1 .. Len(m) : m[i] = p[i] /\ m[i] = q[i]
        /\ \A i \in 1 .. Len(n) : n[i] = p[i] /\ n[i] = q[i]
    <3>1. /\ Len(n) < Len(p) /\ Len(n) < Len(q)
          /\ \A i \in 1 .. Len(n) : n[i] = p[i]
          /\ \A i \in 1 .. Len(n) : n[i] = q[i]
      BY <1>1, <1>5, UnderBytes
    <3>2. /\ \A i \in 1 .. Len(m) : m[i] = p[i]
          /\ \A i \in 1 .. Len(m) : m[i] = q[i]
      BY <1>1, <2>1, PrefixBytes
    <3>3. Len(m) \in Nat
      BY <2>1
    <3> QED
      BY <3>1, <3>2, <3>3
  <2>3. Len(n) <= Len(m)
    <3>1. Len(n) \in 0 .. Len(p) /\ Len(n) <= Len(q)
      BY <1>1, <1>5, <2>2
    <3>2. \A i \in 1 .. Len(n) : p[i] = q[i]
      BY <2>2
    <3> QED
      BY <2>1, <3>1, <3>2, Zenon
  <2>4. ~(Len(n) < Len(m))
    <3> SUFFICES ASSUME Len(n) < Len(m) PROVE FALSE
      OBVIOUS
    <3>1. Len(n) + 1 \in 1 .. Len(m)
      BY <1>5, <2>2
    <3>2. p[Len(n) + 1] = q[Len(n) + 1]
      BY <2>2, <3>1
    <3> QED
      BY <1>10, <3>2 DEF Branch
  <2>5. Len(n) = Len(m)
    BY <1>5, <2>2, <2>3, <2>4
  <2>6. IsPrefix(n, m)
    BY <1>1, <1>4, <1>5, <2>1, <2>3, PrefixTotal
  <2>7. n = m
    BY <1>5, <2>1, <2>2, <2>5, <2>6, PrefixEqual
  <2> QED
    BY <2>7 DEF m
<1> DEFINE cs == t[n].children
<1>12. Before(t, p, q) <=> \E i, j \in DOMAIN cs : i < j /\ IsPrefix(cs[i], p) /\ IsPrefix(cs[j], q)
  BY <1>2, <1>11 DEF Before
<1>13. /\ cs \in Seq(Seq(Nat)) /\ DOMAIN cs = 1 .. Len(cs) /\ Len(cs) \in Nat
       /\ \A i \in 1 .. Len(cs) : cs[i] \in Seq(Nat) /\ Under(n, cs[i])
       /\ \A i, j \in 1 .. Len(cs) : i < j => Branch(n, cs[i]) < Branch(n, cs[j])
  <2>1. cs \in Seq(Seq(Nat)) /\ Family(DOMAIN t, n, cs)
    BY <1>5, NodeParts DEF Shape
  <2>2. \A i, j \in 1 .. Len(cs) : i < j => Branch(n, cs[i]) < Branch(n, cs[j])
    BY <1>5 DEF Sorted
  <2> HIDE DEF cs
  <2> QED
    BY <2>1, <2>2 DEF Family
<1>14. (\E i \in 1 .. Len(cs) : cs[i] = c) /\ (\E j \in 1 .. Len(cs) : cs[j] = d)
  BY <1>6, <1>7 DEF Child
<1> HIDE DEF cs
<1>15. LessStr(p, q) <=> Branch(n, p) < Branch(n, q)
  BY <1>1, <1>5, <1>10, LessFirst
<1>16. ASSUME Before(t, p, q) PROVE LessStr(p, q)
  <2>1. PICK i \in 1 .. Len(cs), j \in 1 .. Len(cs) : i < j /\ IsPrefix(cs[i], p) /\ IsPrefix(cs[j], q)
    BY <1>12, <1>13, <1>16
  <2>2. Branch(n, cs[i]) = Branch(n, p) /\ Branch(n, cs[j]) = Branch(n, q)
    BY <1>1, <1>5, <1>13, <2>1, PrefixBranch
  <2> QED
    BY <1>13, <1>15, <2>1, <2>2
<1>17. ASSUME LessStr(p, q) PROVE Before(t, p, q)
  <2>1. PICK i \in 1 .. Len(cs) : cs[i] = c
    BY <1>14
  <2>2. PICK j \in 1 .. Len(cs) : cs[j] = d
    BY <1>14
  <2>3. Branch(n, p) \in Nat /\ Branch(n, q) \in Nat
    BY <1>1, <1>5, UnderBytes
  <2>4. Branch(n, c) < Branch(n, d)
    BY <1>8, <1>15, <1>17
  <2>5. ~(j < i) /\ i # j
    BY <1>8, <1>9, <1>13, <2>1, <2>2, <2>3, <2>4
  <2>6. i < j
    BY <2>5
  <2> QED
    BY <1>6, <1>7, <1>12, <1>13, <2>1, <2>2, <2>6
<1> QED
  BY <1>16, <1>17

\* Strings of one length in the order of the entries they belong to.
Lined(h) ==
    /\ DOMAIN h \subseteq Nat
    /\ \A k \in DOMAIN h : h[k] \in Seq(Nat)
    /\ \A j, k \in DOMAIN h : Len(h[j]) = Len(h[k])
    /\ \A j, k \in DOMAIN h : LessStr(h[j], h[k]) <=> j < k

\* A tree of such strings.
OneWidthTree(t, h) == Walkable(t, h) /\ Orderly(t) /\ Placed(t, h) /\ Lined(h)

\* A sequence of at most one that has an element has one.
LEMMA OneEntry ==
    ASSUME NEW es \in Seq(Nat), Len(es) <= 1, NEW x \in 1 .. Len(es)
    PROVE  Len(es) = 1 /\ x = 1 /\ es # <<>>
<1> DEFINE l == Len(es)
<1>1. l \in Nat /\ l <= 1 /\ x \in 1 .. l /\ (es = <<>> => l = 0)
  OBVIOUS
<1> HIDE DEF l
<1>2. l = 1 /\ x = 1 /\ es # <<>>
  BY <1>1
<1> QED
  BY <1>2, Zenon DEF l

\* Every entry is the only one of a leaf that the walk of trimming reaches.
LEMMA LeafOf ==
    ASSUME NEW t, NEW h, OneWidthTree(t, h), NEW i \in Contents(t)
    PROVE  /\ i \in DOMAIN h /\ i \in Nat /\ h[i] \in DOMAIN t
           /\ t[h[i]].entries \in Seq(Nat) /\ Len(t[h[i]].entries) = 1 /\ t[h[i]].entries[1] = i
           /\ h[i] \in TopLeaves(t)
<1>1. Shape(t) /\ Grounded(t, h) /\ Single(t) /\ Placed(t, h) /\ Lined(h)
  BY DEF OneWidthTree, Walkable, Orderly
<1>2. PICK p \in DOMAIN t : i \in Of(t, p)
  BY ContentsAre
<1>3. PICK x \in 1 .. Len(t[p].entries) : t[p].entries[x] = i
  BY <1>2 DEF Of
<1>4. i \in DOMAIN h /\ h[i] = p
  BY <1>1, <1>3 DEF Placed
<1>5. t[p].entries \in Seq(Nat) /\ Len(t[p].entries) \in Nat /\ Len(t[p].entries) <= 1
  BY <1>1, NodeParts DEF Single
<1>6. Len(t[p].entries) = 1 /\ x = 1 /\ t[p].entries # <<>>
  BY <1>3, <1>5, OneEntry
<1>8. t[p].isLeaf = TRUE
  BY <1>1, <1>6 DEF Grounded
<1>9. p \in Leaves(t)
  BY <1>8 DEF Leaves
<1>10. ASSUME NEW q \in Leaves(t) PROVE ~IsStrictPrefix(q, p)
  <2>1. q \in DOMAIN t /\ q \in Seq(Nat) /\ p \in Seq(Nat) /\ t[q].isLeaf
    BY <1>1 DEF Leaves, Shape
  <2>2. t[q].isLeaf = TRUE
    BY <1>1, <2>1, NodeParts
  <2>3. PICK k \in DOMAIN h : q = h[k]
    BY <1>1, <2>1, <2>2 DEF Grounded
  <2>4. Len(q) = Len(p)
    BY <1>1, <1>4, <2>3 DEF Lined
  <2>5. IsPrefix(q, p) /\ q # p => Len(q) < Len(p)
    BY <2>1, PrefixEqual
  <2>6. Len(q) \in Nat
    BY <2>1
  <2> QED
    BY <2>4, <2>5, <2>6 DEF IsStrictPrefix
<1>11. p \in TopLeaves(t)
  BY <1>9, <1>10 DEF TopLeaves
<1>12. i \in Nat
  BY <1>1, <1>4 DEF Lined
<1> QED
  BY <1>3, <1>4, <1>5, <1>6, <1>11, <1>12

\* The walk over strings of one length meets them in the order of their
\* entries, those that are gone included.
LEMMA WalkIsLined ==
    ASSUME NEW t, NEW h, OneWidthTree(t, h), NEW j \in DOMAIN h, NEW k \in DOMAIN h,
           h[j] \in DOMAIN t, h[k] \in DOMAIN t
    PROVE  Before(t, h[j], h[k]) <=> j < k
<1>1. Shape(t) /\ Connected(t) /\ Sorted(t) /\ Lined(h)
  BY DEF OneWidthTree, Walkable, Orderly
<1>2. /\ h[k] \in Seq(Nat) /\ h[j] \in Seq(Nat) /\ Len(h[j]) = Len(h[k]) /\ Len(h[k]) \in Nat
      /\ j \in Nat /\ k \in Nat
  BY <1>1 DEF Lined
<1>3. CASE h[j] = h[k]
  <2>1. ~Before(t, h[k], h[k])
    BY <1>2, PrefixSelf DEF Before
  <2>2. ~LessStr(h[k], h[k])
    BY <1>2, LessAsymmetric
  <2>3. ~(j < k)
    BY <1>1, <1>3, <2>2 DEF Lined
  <2> QED
    BY <1>3, <2>1, <2>3
<1>4. CASE h[j] # h[k]
  <2>1. Before(t, h[j], h[k]) <=> LessStr(h[j], h[k])
    BY <1>1, <1>2, <1>4, BeforeIsLess
  <2>2. LessStr(h[j], h[k]) <=> j < k
    BY <1>1 DEF Lined
  <2> QED
    BY <2>1, <2>2
<1> QED
  BY <1>3, <1>4

\* The walk meets the older of two entries first.
LEMMA BeforeIsOlder ==
    ASSUME NEW t, NEW h, OneWidthTree(t, h), NEW i \in Contents(t), NEW j \in Contents(t)
    PROVE  Before(t, h[j], h[i]) <=> j < i
BY LeafOf, WalkIsLined

\* The entry of a node has the path of the node as its string.
LEMMA EntryOfLeaf ==
    ASSUME NEW t, NEW h, OneWidthTree(t, h), NEW q \in DOMAIN t, NEW x \in DOMAIN t[q].entries
    PROVE  t[q].entries[x] \in Contents(t) /\ h[t[q].entries[x]] = q
<1>1. Shape(t) /\ Placed(t, h)
  BY DEF OneWidthTree, Walkable
<1>2. t[q].entries \in Seq(Nat)
  BY <1>1, NodeParts
<1>3. x \in 1 .. Len(t[q].entries)
  BY <1>2
<1> QED
  BY <1>1, <1>3, ContentsAre DEF Placed, Of

\* When the walk reaches an entry it has visited exactly the older ones.
LEMMA VisitedAreOlder ==
    ASSUME NEW t, NEW h, OneWidthTree(t, h), NEW i \in Contents(t)
    PROVE  Visited(t, TopLeaves(t), h[i]) = {j \in Contents(t) : j < i}
<1> DEFINE V == Visited(t, TopLeaves(t), h[i])
<1>1. ASSUME NEW j \in V PROVE j \in Contents(t) /\ j < i
  <2>1. PICK q \in TopLeaves(t) : Before(t, q, h[i]) /\ j \in ToSet(t[q].entries)
    BY <1>1 DEF Visited
  <2>2. q \in DOMAIN t
    BY DEF TopLeaves, Leaves
  <2>3. PICK x \in DOMAIN t[q].entries : j = t[q].entries[x]
    BY <2>1 DEF ToSet
  <2>4. j \in Contents(t) /\ h[j] = q
    BY <2>2, <2>3, EntryOfLeaf
  <2> QED
    BY <2>1, <2>4, BeforeIsOlder
<1>2. ASSUME NEW j \in Contents(t), j < i PROVE j \in V
  <2>1. Before(t, h[j], h[i])
    BY <1>2, BeforeIsOlder
  <2>2. /\ h[j] \in TopLeaves(t) /\ t[h[j]].entries \in Seq(Nat)
        /\ Len(t[h[j]].entries) = 1 /\ t[h[j]].entries[1] = j
    BY LeafOf
  <2>3. 1 \in DOMAIN t[h[j]].entries
    BY <2>2
  <2>4. j \in ToSet(t[h[j]].entries)
    BY <2>2, <2>3 DEF ToSet
  <2> QED
    BY <2>1, <2>2, <2>4 DEF Visited
<1> QED
  BY <1>1, <1>2

(***************************************************************************)
(* What trimming leaves.                                                   *)
(***************************************************************************)
\* A trimming that leaves the entries of K and no others leaves just K.
LEMMA TrimContents ==
    ASSUME NEW t, NEW h, OneWidthTree(t, h), NEW u, Trimmed(t, u), NEW K,
           \A i \in Contents(t) : /\ i \in K => u[h[i]].entries = t[h[i]].entries
                                  /\ i \notin K => u[h[i]].entries = <<>>
    PROVE  Contents(u) = {i \in Contents(t) : i \in K}
<1>1. Shape(t) /\ Placed(t, h)
  BY DEF OneWidthTree, Walkable
<1>2. DOMAIN u = DOMAIN t /\ Contents(u) \subseteq Contents(t) /\ Placed(u, h)
  BY <1>1, TrimmedParts, TrimmedShape
<1>3. ASSUME NEW i \in Contents(u) PROVE i \in Contents(t) /\ i \in K
  <2>1. PICK p \in DOMAIN u : i \in Of(u, p)
    BY ContentsAre
  <2>2. PICK x \in 1 .. Len(u[p].entries) : u[p].entries[x] = i
    BY <2>1 DEF Of
  <2>3. i \in Contents(t) /\ h[i] = p
    BY <1>2, <2>2 DEF Placed
  <2>4. u[p].entries # <<>>
    <3>1. \A y \in 1 .. Len(<<>>) : FALSE
      OBVIOUS
    <3> QED
      BY <2>2, <3>1
  <2> QED
    BY <2>3, <2>4
<1>4. ASSUME NEW i \in Contents(t), i \in K PROVE i \in Contents(u)
  <2>1. /\ h[i] \in DOMAIN t /\ t[h[i]].entries[1] = i
        /\ 1 \in 1 .. Len(t[h[i]].entries)
    <3>1. h[i] \in DOMAIN t /\ Len(t[h[i]].entries) = 1 /\ t[h[i]].entries[1] = i
      BY LeafOf
    <3>2. 1 \in 1 .. 1
      OBVIOUS
    <3> QED
      BY <3>1, <3>2
  <2>2. u[h[i]].entries = t[h[i]].entries
    BY <1>4
  <2>3. i \in Of(u, h[i])
    BY <2>1, <2>2 DEF Of
  <2> QED
    BY <1>2, <2>1, <2>3, ContentsAre
<1> QED
  BY <1>3, <1>4

\* A finite set of numbers is what is below one of them, it, and what is above.
LEMMA CountAround ==
    ASSUME NEW C, C \subseteq Nat, IsFiniteSet(C), NEW i \in C
    PROVE  LET A == {j \in C : j < i}
               B == {j \in C : j > i}
           IN  /\ Cardinality(A) \in Nat /\ Cardinality(B) \in Nat
               /\ Cardinality(C) = Cardinality(A) + 1 + Cardinality(B)
<1> DEFINE A == {j \in C : j < i}
           B == {j \in C : j > i}
<1>1. A \subseteq C /\ B \subseteq C /\ A \cap B = {} /\ i \notin A \cup B
  <2>1. \A j \in C : ~(j < i /\ j > i)
    OBVIOUS
  <2>2. ~(i < i) /\ ~(i > i)
    OBVIOUS
  <2> QED
    BY <2>1, <2>2
<1>2. C = (A \cup B) \cup {i}
  <2>1. \A j \in C : j < i \/ j > i \/ j = i
    OBVIOUS
  <2> QED
    BY <2>1
<1> HIDE DEF A, B
<1>3. /\ IsFiniteSet(A) /\ IsFiniteSet(B) /\ Cardinality(A) \in Nat /\ Cardinality(B) \in Nat
  BY <1>1, FS_Subset, FS_CardinalityType
<1>4. IsFiniteSet(A \cup B) /\ Cardinality(A \cup B) = Cardinality(A) + Cardinality(B) - Cardinality(A \cap B)
  BY <1>3, FS_Union
<1>5. Cardinality(A \cap B) = 0
  BY <1>1, FS_EmptySet
<1>6. Cardinality((A \cup B) \cup {i}) = Cardinality(A \cup B) + 1
  BY <1>1, <1>4, FS_AddElement
<1>7. Cardinality(C) = Cardinality(A \cup B) + 1
  BY <1>2, <1>6
<1>8. Cardinality(C) = Cardinality(A) + 1 + Cardinality(B)
  BY <1>3, <1>4, <1>5, <1>7
<1> QED
  BY <1>3, <1>8 DEF A, B

\* MAXLEN leaves the newest.
THEOREM MaxLenContents ==
    ASSUME NEW t, NEW h, OneWidthTree(t, h), IsFiniteSet(Contents(t)), NEW n \in Int
    PROVE  Contents(TrimBySize(t, Cardinality(Contents(t)), n))
             = {i \in Contents(t) : Cardinality({j \in Contents(t) : j > i}) < n}
<1> DEFINE C == Contents(t)
           u == TrimBySize(t, Cardinality(C), n)
           K == {i \in C : Cardinality({j \in C : j > i}) < n}
<1>1. Shape(t)
  BY DEF OneWidthTree, Walkable
<1>2. Cardinality(C) \in Int /\ C \subseteq Nat
  BY LeafOf, FS_CardinalityType
<1>3. Trimmed(t, u)
  BY <1>1, <1>2, TrimBySizeTrims
<1>4. ASSUME NEW i \in C
      PROVE  /\ i \in K => u[h[i]].entries = t[h[i]].entries
             /\ i \notin K => u[h[i]].entries = <<>>
  <2> DEFINE k == Cardinality(C) - n - Cardinality(Visited(t, TopLeaves(t), h[i]))
             a == Cardinality({j \in C : j < i})
             b == Cardinality({j \in C : j > i})
  <2>1. h[i] \in DOMAIN t /\ h[i] \in TopLeaves(t) /\ Len(t[h[i]].entries) = 1
    BY LeafOf
  <2>2. u[h[i]] = Drop(t[h[i]], k)
    BY <2>1 DEF TrimBySize
  <2>3. Visited(t, TopLeaves(t), h[i]) = {j \in C : j < i}
    BY VisitedAreOlder
  <2>4. a \in Nat /\ b \in Nat /\ Cardinality(C) = a + 1 + b
    BY <1>2, CountAround
  <2>5. k = Cardinality(C) - n - a
    BY <2>3
  <2> HIDE DEF k, a, b
  <2>6. k \in Int /\ (k > 0 <=> ~(b < n))
    BY <2>4, <2>5
  <2>7. i \in K <=> b < n
    BY DEF b
  <2>8. t[h[i]] \in NodeType /\ Len(t[h[i]].entries) <= 1
    <3>1. 1 <= 1
      OBVIOUS
    <3> QED
      BY <1>1, <2>1, <3>1, NodeParts
  <2>9. /\ k <= 0 => u[h[i]].entries = t[h[i]].entries
        /\ k > 0 => u[h[i]].entries = <<>>
    BY <2>2, <2>6, <2>8, DropLess
  <2> QED
    BY <2>6, <2>7, <2>9
<1> HIDE DEF u, K, C
<1>5. Contents(u) = {i \in C : i \in K}
  BY <1>3, <1>4, TrimContents DEF C
<1>6. {i \in C : i \in K} = K
  BY DEF K
<1> QED
  BY <1>5, <1>6 DEF u, K, C

\* MINID leaves what is not below it.
THEOREM MinIDContents ==
    ASSUME NEW t, NEW h, OneWidthTree(t, h), NEW m,
           \A j, k \in DOMAIN h : j < k /\ LessStr(h[k], m) => LessStr(h[j], m)
    PROVE  Contents(TrimByMinID(t, m)) = {i \in Contents(t) : ~LessStr(h[i], m)}
<1> DEFINE C == Contents(t)
           u == TrimByMinID(t, m)
           K == {i \in C : ~LessStr(h[i], m)}
           stops == {p \in TopLeaves(t) : t[p].entries # <<>> /\ ~LessStr(p, m)}
<1>1. Shape(t)
  BY DEF OneWidthTree, Walkable
<1>2. Trimmed(t, u)
  BY <1>1, TrimByMinIDTrims
<1>3. ASSUME NEW i \in C
      PROVE  /\ i \in K => u[h[i]].entries = t[h[i]].entries
             /\ i \notin K => u[h[i]].entries = <<>>
  <2>1. /\ h[i] \in DOMAIN t /\ h[i] \in TopLeaves(t) /\ i \in DOMAIN h /\ i \in Nat
        /\ t[h[i]].entries \in Seq(Nat) /\ Len(t[h[i]].entries) = 1
    BY LeafOf
  <2>2. t[h[i]].entries # <<>>
    <3>1. Len(<<>>) = 0 /\ 1 # 0
      OBVIOUS
    <3> QED
      BY <2>1, <3>1, Zenon
  <2>3. u[h[i]] = IF \A q \in stops : Before(t, h[i], q)
                  THEN Drop(t[h[i]], Len(t[h[i]].entries)) ELSE t[h[i]]
    BY <2>1 DEF TrimByMinID
  <2>4. ASSUME i \in K PROVE u[h[i]].entries = t[h[i]].entries
    <3>1. h[i] \in stops
      BY <2>1, <2>2, <2>4
    <3>2. ~Before(t, h[i], h[i])
      BY <2>1, BeforeIsOlder
    <3> QED
      BY <2>3, <3>1, <3>2
  <2>5. ASSUME i \notin K PROVE u[h[i]].entries = <<>>
    <3>1. LessStr(h[i], m)
      BY <2>5
    <3>2. ASSUME NEW q \in stops PROVE Before(t, h[i], q)
      <4>1. q \in DOMAIN t /\ t[q].entries # <<>> /\ ~LessStr(q, m)
        BY DEF TopLeaves, Leaves
      <4>2. t[q].entries \in Seq(Nat)
        BY <1>1, <4>1, NodeParts
      <4>3. 1 \in DOMAIN t[q].entries
        BY <4>1, <4>2
      <4> DEFINE j == t[q].entries[1]
      <4>4. j \in C /\ h[j] = q
        BY <4>1, <4>3, EntryOfLeaf
      <4> HIDE DEF j
      <4>5. j \in DOMAIN h /\ j \in Nat
        BY <4>4, LeafOf
      <4>6. ~(j < i) /\ j # i
        BY <2>1, <3>1, <4>1, <4>4, <4>5
      <4>7. i < j
        BY <2>1, <4>5, <4>6
      <4> QED
        BY <4>4, <4>7, BeforeIsOlder
    <3>3. u[h[i]] = Drop(t[h[i]], 1)
      BY <2>1, <2>3, <3>2
    <3>4. t[h[i]] \in NodeType /\ Len(t[h[i]].entries) <= 1
      <4>1. 1 <= 1
        OBVIOUS
      <4> QED
        BY <1>1, <2>1, <4>1, NodeParts
    <3>5. 1 \in Int /\ 1 > 0
      OBVIOUS
    <3> QED
      BY <3>3, <3>4, <3>5, DropLess
  <2> QED
    BY <2>4, <2>5
<1> HIDE DEF u, K, C, stops
<1>4. Contents(u) = {i \in C : i \in K}
  BY <1>2, <1>3, TrimContents DEF C
<1>5. {i \in C : i \in K} = K
  BY DEF K
<1> QED
  BY <1>4, <1>5 DEF u, K, C

(***************************************************************************)
(* The decimal digits of a number.                                         *)
(***************************************************************************)
\* A function that satisfies the body of Digits, LastDigit, up to n.
DigitsUpTo(g, n) == g \in [0 .. n -> Seq(48 .. 57)] /\ \A m \in 0 .. n : g[m] = LastDigit(g, m)

\* A function that satisfies the body of Digits exists up to every number.
LEMMA DigitsExist == \A n \in Nat : \E g : DigitsUpTo(g, n)
<1> DEFINE T == {n \in Nat : ~\E g : DigitsUpTo(g, n)}
<1> SUFFICES ASSUME T # {} PROVE FALSE
  OBVIOUS
<1>1. PICK n \in T : \A m \in T : n <= m
  BY Least
<1>2. CASE n = 0
  <2> DEFINE g == [m \in 0 .. 0 |-> <<48 + m>>]
  <2>1. g \in [0 .. 0 -> Seq(48 .. 57)] /\ \A m \in 0 .. 0 : g[m] = LastDigit(g, m)
    BY DEF LastDigit
  <2> QED
    BY <1>2, <2>1 DEF DigitsUpTo
<1>3. CASE n # 0
  <2>1. n \in Nat /\ n - 1 \in Nat /\ n - 1 \notin T
    BY <1>1, <1>3
  <2>2. PICK g : DigitsUpTo(g, n - 1)
    BY <2>1
  <2> DEFINE h == [m \in 0 .. n |-> IF m = n THEN LastDigit(g, n) ELSE g[m]]
  <2>3. \A m \in 0 .. n : m >= 10 => m \div 10 \in 0 .. n - 1 /\ m \div 10 # n
    BY <2>1, DivTen
  <2>4. \A m \in 0 .. n : LastDigit(h, m) = LastDigit(g, m)
    BY <2>3 DEF LastDigit
  <2>5. LastDigit(g, n) \in Seq(48 .. 57)
    <3>1. CASE n < 10
      BY <2>1, <3>1 DEF LastDigit
    <3>2. CASE n >= 10
      <4>1. n \div 10 \in 0 .. n - 1 /\ 48 + (n % 10) \in 48 .. 57
        BY <2>1, <2>3, <3>2, DivTen
      <4>2. g[n \div 10] \in Seq(48 .. 57)
        BY <2>2, <4>1 DEF DigitsUpTo
      <4>3. LastDigit(g, n) = Append(g[n \div 10], 48 + (n % 10))
        BY <2>1, <3>2 DEF LastDigit
      <4> QED
        BY <4>1, <4>2, <4>3
    <3> QED
      BY <2>1, <3>1, <3>2
  <2>6. \A m \in 0 .. n : m # n => m \in 0 .. n - 1
    BY <2>1
  <2>7. \A m \in 0 .. n : h[m] \in Seq(48 .. 57) /\ h[m] = LastDigit(h, m)
    BY <2>2, <2>4, <2>5, <2>6 DEF DigitsUpTo
  <2>8. DigitsUpTo(h, n)
    BY <2>7 DEF DigitsUpTo
  <2> QED
    BY <2>8
<1> QED
  BY <1>2, <1>3

\* Digits is what its recursive definition says.
LEMMA DigitsDef == Digits = [n \in 0 .. MaxNum + 1 |-> LastDigit(Digits, n)]
<1>0. MaxNum + 1 \in Nat
  BY StreamIdsAssumption
<1>1. PICK g : DigitsUpTo(g, MaxNum + 1)
  BY <1>0, DigitsExist
<1>2. g = [n \in 0 .. MaxNum + 1 |-> LastDigit(g, n)]
  BY <1>1 DEF DigitsUpTo
<1> QED
  BY <1>2 DEF Digits, LastDigit

\* The two cases of Digits.
LEMMA DigitsCases ==
    ASSUME NEW n \in 0 .. MaxNum + 1
    PROVE  /\ n < 10 => Digits[n] = <<48 + n>>
           /\ n >= 10 => /\ n \div 10 \in 0 .. MaxNum + 1
                         /\ Digits[n] = Append(Digits[n \div 10], 48 + (n % 10))
<1>1. n \in Nat /\ MaxNum \in Nat
  BY StreamIdsAssumption
<1>2. Digits[n] = LastDigit(Digits, n)
  BY DigitsDef
<1>3. n >= 10 => n \div 10 \in 0 .. MaxNum + 1
  BY <1>1, DivTen
<1> QED
  BY <1>1, <1>2, <1>3 DEF LastDigit

\* The digits of a number are digits, and one if it is below 10.
LEMMA DigitsType ==
    \A n \in 0 .. MaxNum + 1 : Digits[n] \in Seq(48 .. 57) /\ Len(Digits[n]) \in Nat \ {0}
                           /\ (Len(Digits[n]) = 1 <=> n < 10)
<1> DEFINE Good(n) == Digits[n] \in Seq(48 .. 57) /\ Len(Digits[n]) \in Nat \ {0}
                      /\ (Len(Digits[n]) = 1 <=> n < 10)
           T == {n \in 0 .. MaxNum + 1 : ~Good(n)}
<1> SUFFICES ASSUME T # {} PROVE FALSE
  OBVIOUS
<1>1. MaxNum \in Nat /\ T \subseteq Nat
  BY StreamIdsAssumption
<1>2. PICK n \in T : \A m \in T : n <= m
  BY <1>1, Least
<1>3. CASE n < 10
  <2>1. Digits[n] = <<48 + n>> /\ 48 + n \in 48 .. 57
    BY <1>1, <1>2, <1>3, DigitsCases
  <2>2. <<48 + n>> \in Seq(48 .. 57) /\ Len(<<48 + n>>) = 1
    BY <2>1
  <2>3. Digits[n] \in Seq(48 .. 57) /\ Len(Digits[n]) = 1
    BY <2>1, <2>2
  <2>4. Good(n)
    BY <1>3, <2>3
  <2> QED
    BY <2>4
<1>4. CASE n >= 10
  <2> DEFINE d == n \div 10
  <2>1. n \in Nat /\ d \in 0 .. MaxNum + 1 /\ d < n /\ 48 + (n % 10) \in 48 .. 57
    BY <1>1, <1>2, <1>4, DigitsCases, DivTen
  <2>2. Good(d)
    BY <1>1, <1>2, <2>1
  <2>3. Digits[n] = Append(Digits[d], 48 + (n % 10))
    BY <1>2, <1>4, DigitsCases
  <2> HIDE DEF d
  <2>4. Digits[n] \in Seq(48 .. 57) /\ Len(Digits[n]) = Len(Digits[d]) + 1
    BY <2>1, <2>2, <2>3
  <2> QED
    BY <1>2, <1>4, <2>2, <2>4
<1> QED
  BY <1>1, <1>2, <1>3, <1>4

(***************************************************************************)
(* Their order.                                                            *)
(***************************************************************************)
\* Of two numbers with as many digits the smaller one has the lesser string.
LEMMA DigitsLess ==
    \A n, m \in 0 .. MaxNum + 1 :
      n < m /\ Len(Digits[n]) = Len(Digits[m]) => LessStr(Digits[n], Digits[m])
<1> DEFINE Good(n) == \A m \in 0 .. MaxNum + 1 :
             n < m /\ Len(Digits[n]) = Len(Digits[m]) => LessStr(Digits[n], Digits[m])
           T == {n \in 0 .. MaxNum + 1 : ~Good(n)}
<1> SUFFICES ASSUME T # {} PROVE FALSE
  OBVIOUS
<1>1. MaxNum \in Nat /\ T \subseteq Nat
  BY StreamIdsAssumption
<1>2. PICK n \in T : \A m \in T : n <= m
  BY <1>1, Least
<1>3. PICK m \in 0 .. MaxNum + 1 : /\ n < m /\ Len(Digits[n]) = Len(Digits[m])
                               /\ ~LessStr(Digits[n], Digits[m])
  BY <1>2
<1>4. n \in 0 .. MaxNum + 1 /\ n \in Nat /\ m \in Nat
  BY <1>1, <1>2
<1>5. CASE n < 10
  <2>1. m < 10
    BY <1>3, <1>4, <1>5, DigitsType
  <2>2. Digits[n] = <<48 + n>> /\ Digits[m] = <<48 + m>>
    BY <1>3, <1>4, <1>5, <2>1, DigitsCases
  <2>3. LessAt(<<48 + n>>, <<48 + m>>, 0)
    BY <1>3, <1>4 DEF LessAt
  <2> QED
    BY <1>3, <2>2, <2>3, LessStrAt
<1>6. CASE n >= 10
  <2>1. m >= 10
    BY <1>3, <1>4, <1>6
  <2> DEFINE a == n \div 10
             b == m \div 10
             c == n % 10
             d == m % 10
  <2>2. /\ a \in 0 .. MaxNum + 1 /\ Digits[n] = Append(Digits[a], 48 + c)
        /\ b \in 0 .. MaxNum + 1 /\ Digits[m] = Append(Digits[b], 48 + d)
    BY <1>3, <1>4, <1>6, <2>1, DigitsCases
  <2>3. /\ a \in Nat /\ c \in 0 .. 9 /\ n = 10 * a + c /\ a < n
        /\ b \in Nat /\ d \in 0 .. 9 /\ m = 10 * b + d
    BY <1>4, <1>6, DivTen
  <2> HIDE DEF a, b, c, d
  <2>4. a < b \/ (a = b /\ c < d)
    BY <1>3, <2>3
  <2>5. /\ Digits[a] \in Seq(48 .. 57) /\ Digits[b] \in Seq(48 .. 57)
    BY <2>2, DigitsType
  <2>6. Digits[a] \in Seq(Nat) /\ Digits[b] \in Seq(Nat)
    <3>1. 48 .. 57 \subseteq Nat
      OBVIOUS
    <3> QED
      BY <2>5, <3>1, SeqMonotonic
  <2>7. Len(Digits[a]) = Len(Digits[b])
    <3>1. Len(Digits[n]) = Len(Digits[a]) + 1 /\ Len(Digits[m]) = Len(Digits[b]) + 1
      BY <2>2, <2>3, <2>6
    <3>2. Len(Digits[a]) \in Nat /\ Len(Digits[b]) \in Nat
      BY <2>6
    <3>3. Len(Digits[a]) + 1 = Len(Digits[b]) + 1
      BY <1>3, <3>1
    <3> QED
      BY <3>2, <3>3
  <2>8. /\ Digits[n] = Digits[a] \o <<48 + c>> /\ Digits[m] = Digits[b] \o <<48 + d>>
        /\ <<48 + c>> \in Seq(Nat) /\ <<48 + d>> \in Seq(Nat)
    <3>1. 48 + c \in Nat /\ 48 + d \in Nat
      BY <2>3
    <3>2. <<48 + c>> \in Seq(Nat) /\ <<48 + d>> \in Seq(Nat)
      BY <3>1
    <3>3. /\ Append(Digits[a], 48 + c) = Digits[a] \o <<48 + c>>
          /\ Append(Digits[b], 48 + d) = Digits[b] \o <<48 + d>>
      BY <2>6, <3>1, AppendIsConcat
    <3> QED
      BY <2>2, <3>2, <3>3
  <2>9. CASE a < b
    <3>1. a \notin T
      BY <1>2, <1>4, <2>3
    <3>2. LessStr(Digits[a], Digits[b])
      BY <2>2, <2>7, <2>9, <3>1
    <3>3. LessStr(Digits[a] \o <<48 + c>>, Digits[b] \o <<48 + d>>)
      BY <2>6, <2>7, <2>8, <3>2, LessBefore
    <3> QED
      BY <1>3, <2>8, <3>3
  <2>10. CASE a = b /\ c < d
    <3>1. LessAt(<<48 + c>>, <<48 + d>>, 0)
      BY <2>3, <2>10 DEF LessAt
    <3>2. LessStr(<<48 + c>>, <<48 + d>>)
      BY <3>1, LessStrAt
    <3> QED
      BY <1>3, <2>6, <2>8, <2>10, <3>2, LessAfter
  <2> QED
    BY <2>4, <2>9, <2>10
<1> QED
  BY <1>4, <1>5, <1>6

(***************************************************************************)
(* IDs.                                                                    *)
(***************************************************************************)
\* The parts of an ID.
LEMMA IDType ==
    ASSUME NEW id \in ID
    PROVE  /\ id = <<id[1], id[2]>> /\ id[1] \in 0 .. MaxNum /\ id[2] \in -(MaxNum + 1) .. MaxNum
           /\ id[1] \in Nat /\ id[2] \in Int /\ id # <<>>
<1>1. MaxNum \in Nat
  BY StreamIdsAssumption
<1> QED
  BY <1>1 DEF ID

\* An ID that a client can spell out is an ID, without a sign.
LEMMA ClientIDType ==
    ASSUME NEW id \in ClientID
    PROVE  /\ id \in ID /\ id[1] \in 0 .. MaxNum /\ id[2] \in 0 .. MaxNum
           /\ id[1] \in Nat /\ id[2] \in Nat /\ Signed(id[2]) = Digits[id[2]]
<1>1. MaxNum \in Nat
  BY StreamIdsAssumption
<1>2. /\ id = <<id[1], id[2]>> /\ id[1] \in 0 .. MaxNum /\ id[2] \in 0 .. MaxNum
      /\ id[1] \in Nat /\ id[2] \in Nat
  BY <1>1 DEF ClientID
<1>3. id \in ID
  <2>1. id[2] \in -(MaxNum + 1) .. MaxNum
    BY <1>1, <1>2
  <2> QED
    BY <1>2, <2>1 DEF ID
<1> QED
  BY <1>2, <1>3 DEF Signed

\* A number with its sign is a string.
LEMMA SignedType ==
    ASSUME NEW n \in -(MaxNum + 1) .. MaxNum
    PROVE  Signed(n) \in Seq(Nat)
<1>1. MaxNum \in Nat
  BY StreamIdsAssumption
<1>2. ASSUME NEW m \in 0 .. MaxNum + 1 PROVE Digits[m] \in Seq(Nat)
  <2>1. Digits[m] \in Seq(48 .. 57) /\ 48 .. 57 \subseteq Nat
    BY DigitsType
  <2> QED
    BY <2>1, SeqMonotonic
<1>3. CASE n < 0
  <2>1. -n \in 0 .. MaxNum + 1
    BY <1>1, <1>3
  <2> DEFINE d == Digits[-n]
  <2>2. d \in Seq(Nat) /\ Signed(n) = <<45>> \o d
    BY <1>2, <1>3, <2>1 DEF Signed
  <2> HIDE DEF d
  <2> QED
    BY <2>2
<1>4. CASE n >= 0
  <2>1. n \in 0 .. MaxNum + 1 /\ ~(n < 0)
    BY <1>1, <1>4
  <2> QED
    BY <1>2, <2>1 DEF Signed
<1> QED
  BY <1>1, <1>3, <1>4

\* The parts of the string of an ID.
LEMMA StrParts ==
    ASSUME NEW id \in ID
    PROVE  /\ Digits[id[1]] \in Seq(Nat) /\ Signed(id[2]) \in Seq(Nat)
           /\ <<45>> \in Seq(Nat) /\ <<45>> \o Signed(id[2]) \in Seq(Nat)
           /\ Str(id) = Digits[id[1]] \o (<<45>> \o Signed(id[2])) /\ Str(id) \in Seq(Nat)
           /\ Str(id) # <<>>
<1>1. id[1] \in 0 .. MaxNum + 1 /\ id[2] \in -(MaxNum + 1) .. MaxNum
  BY IDType, StreamIdsAssumption
<1>2. Digits[id[1]] \in Seq(Nat) /\ Signed(id[2]) \in Seq(Nat)
  <2>1. Digits[id[1]] \in Seq(48 .. 57) /\ 48 .. 57 \subseteq Nat
    BY <1>1, DigitsType
  <2> QED
    BY <1>1, <2>1, SeqMonotonic, SignedType
<1>3. <<45>> \in Seq(Nat)
  OBVIOUS
<1> DEFINE d == Digits[id[1]]
           e == Signed(id[2])
<1>4. d \in Seq(Nat) /\ e \in Seq(Nat) /\ Str(id) = (d \o <<45>>) \o e
  BY <1>2 DEF Str
<1> HIDE DEF d, e
<1>5. (d \o <<45>>) \o e = d \o (<<45>> \o e)
  BY <1>3, <1>4, ConcatAssociative
<1>6. <<45>> \o e \in Seq(Nat) /\ d \o (<<45>> \o e) \in Seq(Nat)
  BY <1>3, <1>4
<1>7. d \o (<<45>> \o e) # <<>>
  <2>1. Len(d \o (<<45>> \o e)) = Len(d) + (1 + Len(e)) /\ Len(d) \in Nat /\ Len(e) \in Nat
    BY <1>3, <1>4, <1>6
  <2> QED
    BY <2>1
<1> QED
  BY <1>3, <1>4, <1>5, <1>6, <1>7 DEF d, e

\* IDs with numbers of the same lengths have the order of their numbers.
LEMMA StrLess ==
    ASSUME NEW a \in ClientID, NEW b \in ClientID, Width(a) = Width(b), NumericLess(a, b)
    PROVE  LessStr(Str(a), Str(b))
<1>1. Len(Digits[a[1]]) = Len(Digits[b[1]]) /\ Len(Digits[a[2]]) = Len(Digits[b[2]])
  BY ClientIDType DEF Width
<1> DEFINE x == <<45>> \o Digits[a[2]]
           y == <<45>> \o Digits[b[2]]
<1>2. /\ Str(a) = Digits[a[1]] \o x /\ Str(b) = Digits[b[1]] \o y
      /\ Digits[a[1]] \in Seq(Nat) /\ Digits[b[1]] \in Seq(Nat)
      /\ x \in Seq(Nat) /\ y \in Seq(Nat)
  BY ClientIDType, StrParts
<1>0. /\ a[1] \in 0 .. MaxNum + 1 /\ b[1] \in 0 .. MaxNum + 1
      /\ a[2] \in 0 .. MaxNum + 1 /\ b[2] \in 0 .. MaxNum + 1
  BY ClientIDType, StreamIdsAssumption
<1>3. CASE a[1] < b[1]
  <2>1. LessStr(Digits[a[1]], Digits[b[1]])
    BY <1>1, <1>3, <1>0, DigitsLess
  <2> QED
    BY <1>1, <1>2, <2>1, LessBefore, ZenonT(30)
<1>4. CASE a[1] = b[1] /\ a[2] < b[2]
  <2>1. LessStr(Digits[a[2]], Digits[b[2]])
    BY <1>1, <1>4, <1>0, DigitsLess
  <2>2. LessStr(x, y)
    BY <2>1, ClientIDType, StrParts, LessAfter
  <2>3. LessStr(Digits[a[1]] \o x, Digits[a[1]] \o y)
    BY <1>2, <2>2, LessAfter
  <2> QED
    BY <1>2, <1>4, <2>3
<1> QED
  BY <1>3, <1>4 DEF NumericLess

\* The order of strings is the numeric one for IDs of one width.
LEMMA StrOrder ==
    ASSUME NEW a \in ClientID, NEW b \in ClientID, Width(a) = Width(b)
    PROVE  LessStr(Str(a), Str(b)) <=> NumericLess(a, b)
<1>1. ASSUME LessStr(Str(a), Str(b)), ~NumericLess(a, b) PROVE FALSE
  <2>1. a = b \/ NumericLess(b, a)
    BY <1>1, ClientIDType, IDType DEF NumericLess
  <2>2. ~LessStr(Str(b), Str(a))
    BY <1>1, ClientIDType, StrParts, LessAsymmetric
  <2>3. a # b
    BY <1>1, <2>2
  <2> QED
    BY <2>1, <2>2, <2>3, StrLess
<1> QED
  BY <1>1, StrLess

(***************************************************************************)
(* Generators.                                                             *)
(***************************************************************************)
\* Every way of adding an entry: the ID, and whether a generator has moved.
Adds(id) ==
    /\ id \in ID /\ Len(added) < MaxEntries
    /\ \E trim \in Trims : Store(id, trim) /\ Keep(id, trim)
    /\ UNCHANGED now
    /\ \/ IsLargestID(id) /\ updateLastID(id, lastTimestamp, sequence)
       \/ /\ updateLastID(id, id[1], id[2])
          /\ id \in ClientID => id[1] > lastTimestamp \/ (id[1] = lastTimestamp /\ id[2] > sequence)

GeneratorType ==
    /\ now \in StartTime .. MaxTime
    /\ LastID \in ID \cup {<<>>}
    /\ lastTimestamp \in 0 .. MaxNum /\ sequence \in -(MaxNum + 1) .. MaxNum
    /\ added \in Seq(ID)

Rest == UNCHANGED <<tree, size, LastID, lastTimestamp, sequence, added, kept, widths>>

\* A step adds an ID or changes nothing of the stream.
LEMMA Steps ==
    ASSUME GeneratorType, [Next]_vars
    PROVE  (\E id \in ID : Adds(id)) \/ (Rest /\ (Tick \/ UNCHANGED now))
<1>1. MaxNum \in Nat /\ StartTime \in Nat /\ MaxTime \in StartTime .. MaxNum
  BY StreamIdsAssumption
<1>2. now \in 0 .. MaxNum /\ lastTimestamp \in 0 .. MaxNum /\ sequence \in -(MaxNum + 1) .. MaxNum
  BY <1>1 DEF GeneratorType
<1>3. ASSUME NEW t \in 0 .. MaxNum,
             AddGenerated(IF t <= lastTimestamp THEN <<lastTimestamp, NextSequence>> ELSE <<t, 0>>)
      PROVE  \E id \in ID : Adds(id)
  <2> DEFINE id == IF t <= lastTimestamp THEN <<lastTimestamp, NextSequence>> ELSE <<t, 0>>
  <2>0. /\ NextSequence \in -(MaxNum + 1) .. MaxNum /\ NextSequence \in Int
        /\ NextSequence >= 0 => NextSequence > sequence
        /\ 0 \in -(MaxNum + 1) .. MaxNum
    BY <1>1, <1>2 DEF NextSequence
  <2>1. id \in ID /\ (id[1] > lastTimestamp \/ (id[1] = lastTimestamp /\ (id[2] >= 0 => id[2] > sequence)))
    BY <1>1, <1>2, <2>0 DEF ID
  <2> HIDE DEF id
  <2>2. Add(id, id[1], id[2])
    BY <1>3 DEF AddGenerated, id
  <2>3. id \in ClientID => id[2] >= 0
    BY ClientIDType
  <2>4. id \in ID /\ Adds(id)
    BY <2>1, <2>2, <2>3 DEF Add, Adds
  <2> QED
    BY <2>4
<1>4. CASE XAddAuto
  BY <1>2, <1>3, <1>4 DEF XAddAuto
<1>5. ASSUME NEW t \in Partial, XAddPartial(t) PROVE \E id \in ID : Adds(id)
  <2>1. t \in 0 .. MaxNum
    BY <1>1, StreamIdsAssumption
  <2> QED
    BY <1>3, <1>5, <2>1 DEF XAddPartial
<1>6. ASSUME NEW id \in Explicit, XAddExplicit(id) PROVE \E i \in ID : Adds(i)
  <2>1. id \in ID
    BY ClientIDType, StreamIdsAssumption
  <2> QED
    BY <1>6, <2>1 DEF XAddExplicit, Add, Adds
<1>7. ASSUME NEW id \in Explicit, XAddRefused(id) PROVE Rest /\ UNCHANGED now
  BY <1>7 DEF XAddRefused, Rest, vars
<1>8. CASE Tick
  BY <1>8 DEF Tick, Rest
<1>9. CASE UNCHANGED vars
  BY <1>9 DEF Rest, vars
<1> QED
  BY <1>4, <1>5, <1>6, <1>7, <1>8, <1>9 DEF Next

\* What an addition does to the histories.
LEMMA AddsHistory ==
    ASSUME NEW id \in ID, Adds(id)
    PROVE  /\ added' = Append(added, id) /\ Width(id) \in widths' /\ widths \subseteq widths'
           /\ IsFiniteSet(widths) => IsFiniteSet(widths')
<1>1. PICK trim \in Trims : Keep(id, trim)
  BY DEF Adds
<1>2. added' = Append(added, id)
  BY <1>1 DEF Keep
<1>3. \E S : IsFiniteSet(S) /\ widths' = widths \cup {Width(id)} \cup S
  <2> DEFINE S == IF trim.kind = "MINID" THEN {Width(trim.id)} ELSE {}
  <2>1. widths' = widths \cup {Width(id)} \cup S
    BY <1>1 DEF Keep
  <2>2. IsFiniteSet(S)
    BY FS_Singleton, FS_EmptySet
  <2> QED
    BY <2>1, <2>2
<1>4. IsFiniteSet({Width(id)})
  BY FS_Singleton
<1> QED
  BY <1>2, <1>3, <1>4, FS_Union

\* A sequence that has wrapped stays in the history.
LEMMA UnwrappedBefore ==
    ASSUME added \in Seq(ID), NEW id \in ID, added' = Append(added, id), Unwrapped'
    PROVE  Unwrapped /\ id \in ClientID
<1>1. /\ Len(added') = Len(added) + 1 /\ Len(added) \in Nat /\ added'[Len(added) + 1] = id
      /\ \A i \in 1 .. Len(added) : added'[i] = added[i]
  OBVIOUS
<1>2. /\ Len(added) + 1 \in 1 .. Len(added')
      /\ \A i \in 1 .. Len(added) : i \in 1 .. Len(added')
  BY <1>1
<1> QED
  BY <1>1, <1>2, Zenon DEF Unwrapped

\* Every step keeps the generators ahead.
LEMMA GeneratorStep ==
    ASSUME GeneratorType, GeneratorAheadOfLastID, [Next]_vars
    PROVE  GeneratorType' /\ GeneratorAheadOfLastID'
<1>1. MaxNum \in Nat /\ StartTime \in Nat /\ MaxTime \in StartTime .. MaxNum
  BY StreamIdsAssumption
<1>2. ASSUME NEW id \in ID, Adds(id) PROVE GeneratorType' /\ GeneratorAheadOfLastID'
  <2>1. now' = now /\ added' = Append(added, id) /\ added \in Seq(ID)
    BY <1>2, AddsHistory DEF Adds, GeneratorType
  <2>2. /\ id[1] \in 0 .. MaxNum /\ id[2] \in -(MaxNum + 1) .. MaxNum
        /\ id[1] \in Nat /\ id[2] \in Int /\ added' \in Seq(ID)
    BY <2>1, IDType
  <2>3. CASE LastID' = id /\ lastTimestamp' = id[1] /\ sequence' = id[2]
    BY <2>1, <2>2, <2>3 DEF GeneratorType, GeneratorAheadOfLastID
  <2>4. CASE /\ LastID' = LastID /\ lastTimestamp' = id[1] /\ sequence' = id[2]
             /\ id \in ClientID => id[1] > lastTimestamp \/ (id[1] = lastTimestamp /\ id[2] > sequence)
    <3>1. GeneratorType'
      BY <2>1, <2>2, <2>4 DEF GeneratorType
    <3>2. ASSUME Unwrapped', LastID # <<>>
          PROVE  lastTimestamp' > LastID[1] \/ (lastTimestamp' = LastID[1] /\ sequence' >= LastID[2])
      <4>1. LastID \in ID /\ lastTimestamp \in Nat /\ sequence \in Int
        BY <1>1, <3>2 DEF GeneratorType
      <4>2. LastID[1] \in Nat /\ LastID[2] \in Int
        BY <4>1, IDType
      <4>3. Unwrapped /\ id \in ClientID
        BY <2>1, <3>2, UnwrappedBefore
      <4> QED
        BY <2>2, <2>4, <3>2, <4>1, <4>2, <4>3 DEF GeneratorAheadOfLastID
    <3> QED
      BY <2>4, <3>1, <3>2 DEF GeneratorAheadOfLastID
  <2> QED
    BY <1>2, <2>3, <2>4 DEF Adds, updateLastID
<1>3. ASSUME Rest, Tick \/ UNCHANGED now PROVE GeneratorType' /\ GeneratorAheadOfLastID'
  <2>1. now' \in StartTime .. MaxTime
    BY <1>1, <1>3 DEF GeneratorType, Tick
  <2> QED
    BY <1>3, <2>1 DEF GeneratorType, GeneratorAheadOfLastID, Unwrapped, Rest
<1> QED
  BY <1>2, <1>3, Steps

\* They are ahead at the start.
LEMMA GeneratorInit == Init => GeneratorType /\ GeneratorAheadOfLastID
BY StreamIdsAssumption DEF Init, GeneratorType, GeneratorAheadOfLastID

\* Until a sequence wraps past MaxInt64, the generators of GenerateID and
\* GenerateIncompleteID never fall behind the last ID, however they are mixed
\* with explicit IDs of any length.
THEOREM GeneratorCorrect == Spec => []GeneratorAheadOfLastID
<1>1. Spec => [](GeneratorType /\ GeneratorAheadOfLastID)
  <2> DEFINE I == GeneratorType /\ GeneratorAheadOfLastID
  <2>1. Init => I
    BY GeneratorInit
  <2>2. I /\ [Next]_vars => I'
    BY GeneratorStep
  <2> HIDE DEF I
  <2>3. Spec => []I
    BY <2>1, <2>2, PTL DEF Spec
  <2> QED
    BY <2>3 DEF I
<1> QED
  BY <1>1, PTL

(***************************************************************************)
(* IDs increase.                                                           *)
(***************************************************************************)
Added ==
    /\ added \in Seq(ID) /\ IsFiniteSet(widths)
    /\ \A i \in 1 .. Len(added) : Width(added[i]) \in widths
    /\ added = <<>> => LastID = <<>>

\* While the widths agree the generator stands at the newest ID.
AtNewest ==
    UniformWidth /\ added # <<>> =>
      /\ LastID = added[Len(added)]
      /\ lastTimestamp = LastID[1] /\ sequence = LastID[2]

\* A set of at most one has equal elements.
LEMMA OneWidth ==
    ASSUME NEW S, IsFiniteSet(S), Cardinality(S) <= 1, NEW a \in S, NEW b \in S
    PROVE  a = b
<1> SUFFICES ASSUME a # b PROVE FALSE
  OBVIOUS
<1>1. IsFiniteSet({a}) /\ Cardinality({a}) = 1
  BY FS_Singleton
<1>2. IsFiniteSet({a} \cup {b}) /\ Cardinality({a} \cup {b}) = Cardinality({a}) + 1
  BY <1>1, FS_AddElement
<1>3. {a} \cup {b} \subseteq S
  OBVIOUS
<1>4. Cardinality({a} \cup {b}) <= Cardinality(S) /\ Cardinality(S) \in Nat
  BY <1>3, FS_Subset, FS_CardinalityType
<1> QED
  BY <1>1, <1>2, <1>4

\* A larger ID at the end keeps IDs increasing.
LEMMA IncreasingAppend ==
    ASSUME NEW s \in Seq(ID), NEW id \in ID, Increasing(s),
           s # <<>> => NumericLess(s[Len(s)], id)
    PROVE  Increasing(Append(s, id))
<1>1. /\ Len(Append(s, id)) = Len(s) + 1 /\ Len(s) \in Nat
      /\ \A i \in 1 .. Len(s) : Append(s, id)[i] = s[i] /\ s[i] \in ID
      /\ Append(s, id)[Len(s) + 1] = id
  OBVIOUS
<1>2. ASSUME NEW i \in 1 .. Len(s) PROVE NumericLess(s[i], id)
  <2>1. s # <<>> /\ Len(s) \in 1 .. Len(s) /\ (i = Len(s) \/ i < Len(s))
    BY <1>1
  <2>2. i = Len(s) \/ NumericLess(s[i], s[Len(s)])
    BY <1>1, <2>1 DEF Increasing
  <2>3. s[i] \in ID /\ s[Len(s)] \in ID
    BY <1>1, <2>1
  <2>4. /\ s[i][1] \in Nat /\ s[i][2] \in Int /\ s[Len(s)][1] \in Nat /\ s[Len(s)][2] \in Int
        /\ id[1] \in Nat /\ id[2] \in Int
    BY <2>3, IDType
  <2> QED
    BY <2>1, <2>2, <2>4 DEF NumericLess
<1>3. ASSUME NEW i \in 1 .. Len(s) + 1, NEW j \in 1 .. Len(s) + 1, i < j
      PROVE  NumericLess(Append(s, id)[i], Append(s, id)[j])
  <2>1. i \in 1 .. Len(s) /\ (j \in 1 .. Len(s) \/ j = Len(s) + 1)
    BY <1>1, <1>3
  <2> QED
    BY <1>1, <1>2, <1>3, <2>1 DEF Increasing
<1> QED
  BY <1>1, <1>3 DEF Increasing

\* Every step keeps the IDs increasing.
LEMMA IdsStep ==
    ASSUME GeneratorType, Added, AtNewest, IdsIncrease, [Next]_vars
    PROVE  Added' /\ AtNewest' /\ IdsIncrease'
<1>1. ASSUME NEW id \in ID, Adds(id) PROVE Added' /\ AtNewest' /\ IdsIncrease'
  <2>1. /\ added' = Append(added, id) /\ Width(id) \in widths' /\ widths \subseteq widths'
        /\ IsFiniteSet(widths')
    BY <1>1, AddsHistory DEF Added
  <2>2. /\ added' \in Seq(ID) /\ Len(added') = Len(added) + 1 /\ added' # <<>> /\ Len(added) \in Nat
        /\ added'[Len(added')] = id
        /\ \A i \in 1 .. Len(added) : added'[i] = added[i] /\ added[i] \in ID
    BY <2>1 DEF Added
  <2>3. Added'
    <3>1. ASSUME NEW i \in 1 .. Len(added') PROVE Width(added'[i]) \in widths'
      <4>1. i \in 1 .. Len(added) \/ i = Len(added')
        BY <2>2
      <4> QED
        BY <2>1, <2>2, <4>1 DEF Added
    <3> QED
      BY <2>1, <2>2, <3>1 DEF Added
  <2>4. ASSUME UniformWidth'
        PROVE  /\ Increasing(added') /\ LastID' = id
               /\ lastTimestamp' = id[1] /\ sequence' = id[2]
    <3>0. Unwrapped /\ id \in ClientID
      BY <2>1, <2>4, UnwrappedBefore DEF Added, UniformWidth
    <3>1. UniformWidth
      <4>1. Cardinality(widths) <= Cardinality(widths') /\ Cardinality(widths') <= 1
            /\ Cardinality(widths) \in Nat /\ Cardinality(widths') \in Nat
        BY <2>1, <2>4, FS_Subset, FS_CardinalityType DEF UniformWidth
      <4> QED
        BY <3>0, <4>1 DEF UniformWidth
    <3>2. Increasing(added)
      BY <3>1 DEF IdsIncrease
    <3>3. CASE added = <<>>
      <4>1. LastID = <<>>
        BY <3>3 DEF Added
      <4>2. IsLargestID(id)
        BY <4>1 DEF IsLargestID
      <4>3. LastID' = id /\ lastTimestamp' = id[1] /\ sequence' = id[2]
        BY <1>1, <4>2 DEF Adds, updateLastID
      <4> QED
        BY <2>1, <3>2, <3>3, <4>3, IncreasingAppend DEF Added
    <3>4. CASE added # <<>>
      <4> DEFINE last == added[Len(added)]
      <4>1. Len(added) \in 1 .. Len(added)
        BY <2>2, <3>4 DEF Added
      <4>2. last \in ClientID /\ last \in ID /\ Width(last) \in widths /\ LastID = last
            /\ lastTimestamp = last[1] /\ sequence = last[2]
        BY <2>2, <3>0, <3>1, <3>4, <4>1 DEF Added, AtNewest, Unwrapped
      <4> HIDE DEF last
      <4>3. Width(last) = Width(id)
        BY <2>1, <2>4, <4>2, OneWidth DEF UniformWidth
      <4>4. last # <<>> /\ (IsLargestID(id) <=> NumericLess(last, id))
        BY <3>0, <4>2, <4>3, StrOrder, IDType DEF IsLargestID, Greater
      <4>5. NumericLess(last, id)
        <5>1. CASE IsLargestID(id)
          BY <4>4, <5>1
        <5>2. CASE id[1] > lastTimestamp \/ (id[1] = lastTimestamp /\ id[2] > sequence)
          BY <4>2, <5>2, IDType DEF NumericLess
        <5> QED
          BY <1>1, <3>0, <5>1, <5>2 DEF Adds
      <4>6. LastID' = id /\ lastTimestamp' = id[1] /\ sequence' = id[2]
        BY <1>1, <4>4, <4>5 DEF Adds, updateLastID
      <4> QED
        BY <2>1, <3>2, <4>5, <4>6, IncreasingAppend DEF Added, last
    <3> QED
      BY <3>3, <3>4
  <2> QED
    BY <2>2, <2>3, <2>4 DEF AtNewest, IdsIncrease
<1>2. ASSUME Rest PROVE Added' /\ AtNewest' /\ IdsIncrease'
  BY <1>2 DEF Rest, Added, AtNewest, IdsIncrease, UniformWidth, Unwrapped
<1> QED
  BY <1>1, <1>2, Steps

IdsInv == GeneratorType /\ GeneratorAheadOfLastID /\ Added /\ AtNewest /\ IdsIncrease

\* The invariant of the IDs.
LEMMA IdsInvariance == Spec => []IdsInv
<1>1. Init => IdsInv
  <2>1. ASSUME Init PROVE Added /\ AtNewest /\ IdsIncrease
    BY <2>1, FS_EmptySet DEF Init, Added, AtNewest, IdsIncrease, Increasing
  <2> QED
    BY <2>1, GeneratorInit DEF IdsInv
<1>2. IdsInv /\ [Next]_vars => IdsInv'
  BY GeneratorStep, IdsStep DEF IdsInv
<1> QED
  BY <1>1, <1>2, PTL DEF Spec

\* XADD produces strictly increasing IDs, generated and explicit ones mixed, as
\* long as their numbers have the same length and no sequence wraps; the order
\* of strings by which IsLargestID decides is then the order of numbers.
THEOREM IdsCorrect == Spec => []IdsIncrease
<1>1. IdsInv => IdsIncrease
  BY DEF IdsInv
<1> QED
  BY <1>1, IdsInvariance, PTL

(***************************************************************************)
(* The tree of the stream.                                                 *)
(***************************************************************************)
Strings == [i \in 1 .. Len(added) |-> Str(added[i])]

TreeInv == Shape(tree) /\ Placed(tree, Strings) /\ size = Cardinality(Contents(tree))

\* Entries that are placed are entries with a string.
LEMMA PlacedContents ==
    ASSUME NEW t, NEW g, Placed(t, g)
    PROVE  Contents(t) \subseteq DOMAIN g
BY DEF Placed, Contents

\* Entries stay placed when strings are added.
LEMMA PlacedMore ==
    ASSUME NEW t, NEW g, NEW h, Placed(t, g), DOMAIN g \subseteq DOMAIN h, \A i \in DOMAIN g : h[i] = g[i]
    PROVE  Placed(t, h)
BY DEF Placed

\* The tree has finitely many entries.
LEMMA ContentsFinite ==
    ASSUME TreeInv, Added
    PROVE  /\ Contents(tree) \subseteq 1 .. Len(added)
           /\ IsFiniteSet(Contents(tree)) /\ size \in 0 .. Len(added)
<1>1. Len(added) \in Nat /\ IsFiniteSet(1 .. Len(added)) /\ Cardinality(1 .. Len(added)) = Len(added)
  <2>1. Len(added) \in Nat
    BY DEF Added
  <2> DEFINE l == Len(added)
  <2> HIDE DEF l
  <2>2. l \in Nat
    BY <2>1 DEF l
  <2>3. IsFiniteSet(1 .. l) /\ Cardinality(1 .. l) = IF 1 > l THEN 0 ELSE l - 1 + 1
    BY <2>2, FS_Interval
  <2>4. Cardinality(1 .. l) = l
    BY <2>2, <2>3
  <2> QED
    BY <2>2, <2>3, <2>4 DEF l
<1>2. Contents(tree) \subseteq 1 .. Len(added)
  BY PlacedContents DEF TreeInv, Strings
<1>3. /\ IsFiniteSet(Contents(tree)) /\ Cardinality(Contents(tree)) <= Len(added)
      /\ Cardinality(Contents(tree)) \in Nat
  BY <1>1, <1>2, FS_Subset, FS_CardinalityType
<1> QED
  BY <1>1, <1>2, <1>3 DEF TreeInv

\* The next entry, and the tree and the strings with it, before any trimming.
NewEntry == Len(added) + 1
Grown(id) == AddEntry(tree, Str(id), NewEntry)
StringsOf(ids) == [i \in 1 .. Len(ids) |-> Str(ids[i])]

\* XADD adds one string.
LEMMA GrownStrings ==
    ASSUME Added, NEW id \in ID
    PROVE  /\ NewEntry \in Nat /\ NewEntry \notin 1 .. Len(added)
           /\ DOMAIN Strings = 1 .. Len(added)
           /\ DOMAIN StringsOf(Append(added, id)) = 1 .. NewEntry
           /\ Extends(Strings, StringsOf(Append(added, id)), Str(id), NewEntry)
<1> DEFINE h == StringsOf(Append(added, id))
<1>1. added \in Seq(ID) /\ Len(added) \in Nat
  BY DEF Added
<1>2. /\ Len(Append(added, id)) = Len(added) + 1 /\ Append(added, id)[Len(added) + 1] = id
      /\ \A i \in 1 .. Len(added) : Append(added, id)[i] = added[i]
  BY <1>1
<1>3. /\ NewEntry \in Nat /\ NewEntry \notin 1 .. Len(added) /\ NewEntry \in 1 .. NewEntry
      /\ \A i \in 1 .. Len(added) : i \in 1 .. NewEntry
  BY <1>1 DEF NewEntry
<1>4. DOMAIN h = 1 .. NewEntry /\ h[NewEntry] = Str(id)
  BY <1>2, <1>3 DEF StringsOf, NewEntry
<1>5. DOMAIN Strings = 1 .. Len(added) /\ \A i \in 1 .. Len(added) : h[i] = Strings[i]
  BY <1>2, <1>3 DEF StringsOf, Strings, NewEntry
<1> HIDE DEF h
<1>6. Extends(Strings, h, Str(id), NewEntry)
  BY <1>3, <1>4, <1>5 DEF Extends
<1> QED
  BY <1>3, <1>4, <1>5, <1>6 DEF h

\* XADD adds one entry to the tree, at its string.
LEMMA GrownTree ==
    ASSUME Added, TreeInv, NEW id \in ID
    PROVE  /\ Shape(Grown(id)) /\ Placed(Grown(id), StringsOf(Append(added, id)))
           /\ Contents(Grown(id)) = Contents(tree) \cup {NewEntry}
           /\ IsFiniteSet(Contents(Grown(id))) /\ Cardinality(Contents(Grown(id))) = size + 1
           /\ size \in Nat
<1> DEFINE h == StringsOf(Append(added, id))
           t == Grown(id)
           e == NewEntry
<1>1. /\ e \in Nat /\ e \notin 1 .. Len(added) /\ Extends(Strings, h, Str(id), e)
  BY GrownStrings
<1>2. Str(id) \in Seq(Nat) /\ Shape(tree) /\ Placed(tree, Strings)
  BY StrParts DEF TreeInv
<1> HIDE DEF h, e
<1>3. /\ Shape(t) /\ Contents(t) = Contents(tree) \cup {e}
      /\ \A g : Placed(tree, g) /\ e \in DOMAIN g /\ g[e] = Str(id) => Placed(t, g)
  BY <1>1, <1>2, AddEntryShape DEF Grown, e
<1> HIDE DEF t
<1>4. Placed(t, h)
  BY <1>1, <1>2, <1>3, PlacedMore DEF Extends
<1>5. /\ IsFiniteSet(Contents(tree)) /\ Contents(tree) \subseteq 1 .. Len(added)
      /\ size = Cardinality(Contents(tree)) /\ size \in Nat
  BY ContentsFinite, FS_CardinalityType DEF TreeInv
<1>6. e \notin Contents(tree)
  BY <1>1, <1>5
<1>7. IsFiniteSet(Contents(t)) /\ Cardinality(Contents(t)) = size + 1
  BY <1>3, <1>5, <1>6, FS_AddElement
<1> QED
  BY <1>3, <1>4, <1>5, <1>7 DEF h, t, e

\* The rest of XADD trims.
LEMMA GrownTrimmed ==
    ASSUME Added, TreeInv, NEW id \in ID, NEW trim \in Trims, Store(id, trim)
    PROVE  /\ tree' = Grown(id) \/ Trimmed(Grown(id), tree')
           /\ size' = size + 1 - Cardinality(Contents(Grown(id)) \ Contents(tree'))
           /\ trim.kind = "MAXLEN" => trim.n \in Int /\ tree' = TrimBySize(Grown(id), size + 1, trim.n)
           /\ trim.kind = "MINID" => trim.id \in ClientID /\ tree' = TrimByMinID(Grown(id), Str(trim.id))
           /\ trim.kind \notin {"MAXLEN", "MINID"} => tree' = Grown(id)
<1> DEFINE t == Grown(id)
<1>1. /\ size' = size + 1 - Cardinality(Contents(t) \ Contents(tree'))
      /\ trim.kind = "MAXLEN" => tree' = TrimBySize(t, size + 1, trim.n)
      /\ trim.kind = "MINID" => tree' = TrimByMinID(t, Str(trim.id))
      /\ trim.kind \notin {"MAXLEN", "MINID"} => tree' = t
  BY DEF Store, Grown, NewEntry
<1>2. ASSUME trim.kind = "MAXLEN" PROVE trim.n \in Int
  <2>1. trim \in [kind : {"MAXLEN"}, n : MaxLens]
    BY <1>2 DEF Trims
  <2>2. \A k \in MaxLens : k \in Int
    BY StreamIdsAssumption
  <2> QED
    BY <2>1, <2>2, Zenon
<1>3. ASSUME trim.kind = "MINID" PROVE trim.id \in ClientID
  <2>1. trim \in [kind : {"MINID"}, id : MinIDs]
    BY <1>3 DEF Trims
  <2>2. \A k \in MinIDs : k \in ClientID
    BY StreamIdsAssumption
  <2> QED
    BY <2>1, <2>2, Zenon
<1>4. Shape(t) /\ IsFiniteSet(Contents(t)) /\ size + 1 \in Int
  BY GrownTree
<1> HIDE DEF t
<1>5. tree' = t \/ Trimmed(t, tree')
  <2>1. CASE trim.kind = "MAXLEN"
    BY <1>1, <1>2, <1>4, <2>1, TrimBySizeTrims
  <2>2. CASE trim.kind = "MINID"
    BY <1>1, <1>4, <2>2, TrimByMinIDTrims
  <2> QED
    BY <1>1, <2>1, <2>2
<1> QED
  BY <1>1, <1>2, <1>3, <1>5 DEF t

\* Every step keeps the invariant of the tree.
LEMMA TreeStep ==
    ASSUME GeneratorType, Added, TreeInv, [Next]_vars
    PROVE  TreeInv'
<1>1. ASSUME NEW id \in ID, Adds(id) PROVE TreeInv'
  <2>1. PICK trim \in Trims : Store(id, trim)
    BY <1>1 DEF Adds
  <2> DEFINE t == Grown(id)
             h == StringsOf(Append(added, id))
  <2>2. Strings' = h
    BY <1>1, AddsHistory DEF Strings, StringsOf
  <2>3. /\ Shape(t) /\ Placed(t, h) /\ IsFiniteSet(Contents(t)) /\ Cardinality(Contents(t)) = size + 1
        /\ size \in Nat
    BY GrownTree
  <2>4. /\ tree' = t \/ Trimmed(t, tree')
        /\ size' = size + 1 - Cardinality(Contents(t) \ Contents(tree'))
    BY <2>1, GrownTrimmed
  <2> HIDE DEF h, t
  <2>5. Shape(tree') /\ Contents(tree') \subseteq Contents(t) /\ Placed(tree', h)
    BY <2>3, <2>4, TrimmedShape
  <2>6. size' = Cardinality(Contents(tree'))
    <3>1. IsFiniteSet(Contents(tree')) /\ Contents(t) \cap Contents(tree') = Contents(tree')
      BY <2>3, <2>5, FS_Subset
    <3>2. Cardinality(Contents(t) \ Contents(tree')) = Cardinality(Contents(t)) - Cardinality(Contents(tree'))
      <4>1. Cardinality(Contents(t) \ Contents(tree'))
              = Cardinality(Contents(t)) - Cardinality(Contents(t) \cap Contents(tree'))
        BY <2>3, FS_Difference
      <4> QED
        BY <3>1, <4>1
    <3>3. Cardinality(Contents(tree')) \in Nat
      BY <3>1, FS_CardinalityType
    <3> QED
      BY <2>3, <2>4, <3>2, <3>3
  <2> QED
    BY <2>2, <2>5, <2>6 DEF TreeInv
<1>2. ASSUME Rest PROVE TreeInv'
  BY <1>2 DEF Rest, TreeInv, Strings
<1> QED
  BY <1>1, <1>2, Steps

Kept == kept \subseteq 1 .. Len(added)

\* What is to be kept was added.
LEMMA KeptStep ==
    ASSUME GeneratorType, Added, Kept, [Next]_vars
    PROVE  Kept'
<1>1. ASSUME NEW id \in ID, Adds(id) PROVE Kept'
  <2>1. PICK trim \in Trims : Keep(id, trim)
    BY <1>1 DEF Adds
  <2>2. added' = Append(added, id) /\ Len(Append(added, id)) = Len(added) + 1 /\ Len(added) \in Nat
    BY <1>1, AddsHistory DEF Added
  <2>3. kept' \subseteq kept \cup {Len(Append(added, id))}
    BY <2>1 DEF Keep
  <2> QED
    BY <2>2, <2>3 DEF Kept
<1>2. ASSUME Rest PROVE Kept'
  BY <1>2 DEF Rest, Kept
<1> QED
  BY <1>1, <1>2, Steps

StreamInv == IdsInv /\ TreeInv /\ Kept

\* The invariant of the stream.
LEMMA StreamInvariance == Spec => []StreamInv
<1>1. Init => TreeInv /\ Kept
  <2> SUFFICES ASSUME Init PROVE TreeInv /\ Kept
    OBVIOUS
  <2>1. tree = NewRadixTree /\ size = 0 /\ kept = {}
    BY DEF Init
  <2> QED
    BY <2>1, NewTree, FS_EmptySet DEF TreeInv, Kept
<1>2. IdsInv /\ (TreeInv /\ Kept) /\ [Next]_vars => (TreeInv /\ Kept)'
  BY TreeStep, KeptStep DEF IdsInv
<1> QED
  BY <1>1, <1>2, IdsInvariance, PTL DEF Spec, StreamInv

\* The types of the stream's fields and histories.
THEOREM TypeCorrect == Spec => []TypeOK
<1>1. StreamInv => TypeOK
  BY ContentsFinite DEF StreamInv, IdsInv, GeneratorType, Added, Kept, TypeOK
<1> QED
  BY <1>1, StreamInvariance, PTL

\* However RadixTree.AddEntry splits and fills nodes, for IDs of any length and
\* with any trimming in between, no entry is lost or in the wrong leaf, size
\* counts them, and findChild has at most one child to find.
THEOREM TreeCorrect == Spec => []TreeIsSound
<1>1. StreamInv => TreeIsSound
  <2> SUFFICES ASSUME StreamInv PROVE TreeIsSound
    OBVIOUS
  <2>1. Shape(tree) /\ Placed(tree, Strings) /\ size = Cardinality(Contents(tree))
    BY DEF StreamInv, TreeInv
  <2>2. ASSUME NEW p \in DOMAIN tree, NEW i \in 1 .. Len(tree[p].entries)
        PROVE  Str(added[tree[p].entries[i]]) = p
    BY <2>1, <2>2 DEF Placed, Strings
  <2>3. ASSUME NEW p \in DOMAIN tree, NEW c \in DOMAIN tree[p].children,
               NEW d \in DOMAIN tree[p].children, c # d
        PROVE  tree[p].children[c][Len(p) + 1] # tree[p].children[d][Len(p) + 1]
    <3>1. tree[p].children \in Seq(Seq(Nat)) /\ Family(DOMAIN tree, p, tree[p].children)
      BY <2>1, NodeParts DEF Shape
    <3>2. c \in 1 .. Len(tree[p].children) /\ d \in 1 .. Len(tree[p].children)
      BY <3>1
    <3> QED
      BY <2>3, <3>1, <3>2 DEF Family, Branch
  <2> QED
    BY <2>1, <2>2, <2>3 DEF TreeIsSound
<1> QED
  BY <1>1, StreamInvariance, PTL

(***************************************************************************)
(* Trimming.                                                               *)
(***************************************************************************)
\* IDs of one width have strings of one length.
LEMMA SameLength ==
    ASSUME NEW a \in ID, NEW b \in ID, Width(a) = Width(b)
    PROVE  Len(Str(a)) = Len(Str(b))
<1>1. ASSUME NEW c \in ID PROVE Len(Str(c)) = Len(Digits[c[1]]) + (1 + Len(Signed(c[2])))
  <2> DEFINE d == Digits[c[1]]
             f == Signed(c[2])
  <2>1. Str(c) = d \o (<<45>> \o f) /\ d \in Seq(Nat) /\ f \in Seq(Nat) /\ <<45>> \in Seq(Nat)
    BY <1>1, StrParts
  <2> HIDE DEF d, f
  <2>2. Len(d \o (<<45>> \o f)) = Len(d) + (1 + Len(f))
    BY <2>1
  <2>3. Len(Str(c)) = Len(d) + (1 + Len(f))
    BY <2>1, <2>2
  <2> QED
    BY <2>3 DEF d, f
<1>2. Len(Digits[a[1]]) = Len(Digits[b[1]]) /\ Len(Signed(a[2])) = Len(Signed(b[2]))
  BY DEF Width
<1> QED
  BY <1>1, <1>2

\* The numeric order is an order.
LEMMA NumericOrder ==
    ASSUME NEW a \in ID, NEW b \in ID, NumericLess(a, b)
    PROVE  ~NumericLess(b, a) /\ a # b /\ \A c \in ID : NumericLess(b, c) => NumericLess(a, c)
<1>1. /\ a[1] \in Nat /\ a[2] \in Int /\ b[1] \in Nat /\ b[2] \in Int
      /\ \A c \in ID : c[1] \in Nat /\ c[2] \in Int
  BY IDType
<1> QED
  BY <1>1 DEF NumericLess

\* IDs with numbers of the same lengths, W, have strings of one length in their
\* order.
LEMMA LinedStrings ==
    ASSUME NEW ids \in Seq(ClientID), NEW W, \A i \in 1 .. Len(ids) : Width(ids[i]) = W, Increasing(ids)
    PROVE  Lined(StringsOf(ids))
<1> DEFINE h == StringsOf(ids)
<1>1. Len(ids) \in Nat /\ DOMAIN h = 1 .. Len(ids) /\ \A i \in 1 .. Len(ids) : h[i] = Str(ids[i]) /\ ids[i] \in ClientID
  BY DEF StringsOf
<1> HIDE DEF h
<1>2. DOMAIN h \subseteq Nat /\ \A k \in DOMAIN h : h[k] \in Seq(Nat)
  <2>1. DOMAIN h \subseteq Nat
    BY <1>1
  <2>2. \A id \in ClientID : Str(id) \in Seq(Nat)
    BY ClientIDType, StrParts
  <2>3. \A k \in DOMAIN h : h[k] = Str(ids[k]) /\ ids[k] \in ClientID
    BY <1>1
  <2>4. \A k \in DOMAIN h : h[k] \in Seq(Nat)
    BY <2>2, <2>3, Zenon
  <2> QED
    BY <2>1, <2>4
<1>3. \A j, k \in DOMAIN h : Len(h[j]) = Len(h[k])
  BY <1>1, ClientIDType, SameLength
<1>4. ASSUME NEW j \in DOMAIN h, NEW k \in DOMAIN h PROVE LessStr(h[j], h[k]) <=> j < k
  <2>1. ids[j] \in ClientID /\ ids[k] \in ClientID /\ h[j] = Str(ids[j]) /\ h[k] = Str(ids[k]) /\ j \in Nat /\ k \in Nat
    BY <1>1
  <2>2. LessStr(h[j], h[k]) <=> NumericLess(ids[j], ids[k])
    BY <1>1, <2>1, StrOrder
  <2>3. (j < k => NumericLess(ids[j], ids[k])) /\ (k < j => NumericLess(ids[k], ids[j]))
    BY <1>1 DEF Increasing
  <2>4. NumericLess(ids[j], ids[k]) => ~(k < j) /\ j # k
    BY <2>1, <2>3, ClientIDType, NumericOrder
  <2>5. j < k \/ k < j \/ j = k
    BY <2>1
  <2> QED
    BY <2>2, <2>3, <2>4, <2>5
<1>5. Lined(h)
  BY <1>2, <1>3, <1>4 DEF Lined
<1> QED
  BY <1>5 DEF h

WalkInv ==
    /\ Walkable(tree, Strings)
    /\ UniformWidth => Orderly(tree)

\* The empty tree can be walked.
LEMMA WalkInit == Init => WalkInv /\ TrimIsExact
<1> SUFFICES ASSUME Init PROVE WalkInv /\ TrimIsExact
  OBVIOUS
<1> DEFINE t == NewRadixTree
<1>1. tree = t /\ kept = {} /\ Shape(t) /\ Contents(t) = {}
  BY NewTree DEF Init
<1>2. DOMAIN t = {<<>>} /\ t[<<>>] = Node(FALSE, <<>>, <<>>)
  BY DEF NewRadixTree
<1>3. t[<<>>].isLeaf = FALSE /\ t[<<>>].entries = <<>> /\ t[<<>>].children = <<>>
  BY <1>2 DEF Node
<1>4. Len(<<>>) <= 1 /\ \A i \in 1 .. Len(<<>>) : FALSE
  OBVIOUS
<1> HIDE DEF t
<1>5. \A m, p \in DOMAIN t : ~Under(m, p)
  <2>1. ~(Len(<<>>) < Len(<<>>))
    OBVIOUS
  <2> QED
    BY <1>2, <2>1 DEF Under
<1>6. Connected(t)
  BY <1>5 DEF Connected
<1>7. Grounded(t, Strings)
  BY <1>2, <1>3 DEF Grounded
<1>8. Sorted(t)
  BY <1>2, <1>3, <1>4 DEF Sorted
<1>9. Single(t)
  BY <1>2, <1>3, <1>4 DEF Single
<1> QED
  BY <1>1, <1>6, <1>7, <1>8, <1>9 DEF WalkInv, Walkable, Orderly, TrimIsExact

\* The strings of IDs are strings.
LEMMA StringsAreBytes ==
    ASSUME Added
    PROVE  \A k \in DOMAIN Strings : Strings[k] \in Seq(Nat)
<1>1. \A k \in 1 .. Len(added) : added[k] \in ID
  BY DEF Added
<1> QED
  BY <1>1, StrParts DEF Strings

\* The widths after an addition.
LEMMA AddsWidths ==
    ASSUME Added, NEW id \in ID, NEW trim \in Trims, Keep(id, trim), UniformWidth'
    PROVE  /\ UniformWidth
           /\ \A i \in 1 .. Len(Append(added, id)) :
                Append(added, id)[i] \in ClientID /\ Width(Append(added, id)[i]) = Width(id)
           /\ trim.kind = "MINID" => Width(trim.id) = Width(id)
<1> DEFINE S == IF trim.kind = "MINID" THEN {Width(trim.id)} ELSE {}
           W == widths \cup {Width(id)} \cup S
<1>1. widths' = W
  BY DEF Keep
<1>2. IsFiniteSet(S) /\ IsFiniteSet(widths) /\ IsFiniteSet({Width(id)})
  BY FS_Singleton, FS_EmptySet DEF Added
<1>3. IsFiniteSet(W)
  <2>1. IsFiniteSet(widths \cup {Width(id)})
    BY <1>2, FS_Union
  <2> QED
    BY <1>2, <2>1, FS_Union
<1>4. Cardinality(W) <= 1
  BY <1>1 DEF UniformWidth
<1>5. widths \subseteq W /\ Width(id) \in W /\ (trim.kind = "MINID" => Width(trim.id) \in W)
  OBVIOUS
<1> HIDE DEF W, S
<1>6. \A w \in W : w = Width(id)
  BY <1>3, <1>4, <1>5, OneWidth
<1>0. Unwrapped /\ Unwrapped' /\ added' = Append(added, id)
  <2>1. added' = Append(added, id) /\ Unwrapped' /\ added \in Seq(ID)
    BY DEF Keep, UniformWidth, Added
  <2> QED
    BY <2>1, UnwrappedBefore
<1>7. UniformWidth
  <2>1. Cardinality(widths) <= Cardinality(W) /\ Cardinality(widths) \in Nat /\ Cardinality(W) \in Nat
    BY <1>2, <1>3, <1>5, FS_Subset, FS_CardinalityType
  <2> QED
    BY <1>0, <1>4, <2>1 DEF UniformWidth
<1>8. ASSUME NEW i \in 1 .. Len(Append(added, id))
      PROVE  Append(added, id)[i] \in ClientID /\ Width(Append(added, id)[i]) = Width(id)
  <2>1. added \in Seq(ID) /\ Len(added) \in Nat
    BY DEF Added
  <2>2. (i \in 1 .. Len(added) /\ Append(added, id)[i] = added[i]) \/ Append(added, id)[i] = id
    BY <2>1
  <2>3. \A j \in 1 .. Len(added) : Width(added[j]) \in W
    BY <1>5 DEF Added
  <2>4. Append(added, id)[i] \in ClientID
    BY <1>0 DEF Unwrapped
  <2> QED
    BY <1>6, <2>2, <2>3, <2>4
<1> QED
  BY <1>5, <1>6, <1>7, <1>8

\* Every step keeps the tree in the order of its IDs, and trims exactly.
LEMMA WalkStep ==
    ASSUME GeneratorType, Added, TreeInv, WalkInv, TrimIsExact, IdsIncrease', [Next]_vars
    PROVE  WalkInv' /\ TrimIsExact'
<1>1. ASSUME NEW id \in ID, Adds(id) PROVE WalkInv' /\ TrimIsExact'
  <2>1. PICK trim \in Trims : Store(id, trim) /\ Keep(id, trim)
    BY <1>1 DEF Adds
  <2> DEFINE t == Grown(id)
             all == Append(added, id)
             h == StringsOf(all)
             e == NewEntry
             C == Contents(t)
  <2>2. added' = all /\ Strings' = h
    BY <1>1, AddsHistory DEF Strings, StringsOf
  <2>3. e \in Nat /\ DOMAIN h = 1 .. e /\ DOMAIN Strings = 1 .. Len(added) /\ Extends(Strings, h, Str(id), e)
    BY GrownStrings
  <2>4. /\ Shape(t) /\ Placed(t, h) /\ C = Contents(tree) \cup {e}
        /\ IsFiniteSet(C) /\ Cardinality(C) = size + 1
    BY GrownTree
  <2>5. /\ tree' = t \/ Trimmed(t, tree')
        /\ trim.kind = "MAXLEN" => trim.n \in Int /\ tree' = TrimBySize(t, size + 1, trim.n)
        /\ trim.kind = "MINID" => trim.id \in ClientID /\ tree' = TrimByMinID(t, Str(trim.id))
        /\ trim.kind \notin {"MAXLEN", "MINID"} => tree' = t
    BY <2>1, GrownTrimmed
  <2>6. Str(id) \in Seq(Nat) /\ Walkable(tree, Strings) /\ Placed(tree, Strings)
    BY StrParts DEF WalkInv, TreeInv
  <2>7. /\ Walkable(t, h)
        /\ Orderly(tree) /\ Placed(tree, Strings) /\ Largest(Strings, Str(id)) => Orderly(t)
    BY <2>3, <2>6, AddEntryWalk, StringsAreBytes DEF Grown
  <2>8. all \in Seq(ID) /\ Len(all) = e /\ \A i \in 1 .. e : all[i] \in ID /\ h[i] = Str(all[i])
    <3>1. all \in Seq(ID) /\ Len(all) = e
      BY DEF Added, NewEntry
    <3> HIDE DEF all
    <3> QED
      BY <3>1 DEF StringsOf
  <2> HIDE DEF t, h, all, e
  <2>9. Walkable(tree', h) /\ (Orderly(t) => Orderly(tree'))
    BY <2>5, <2>7, TrimmedWalk
  <2>10. ASSUME UniformWidth' PROVE Orderly(tree') /\ Contents(tree') = kept'
    <3>1. /\ UniformWidth
          /\ \A i \in 1 .. Len(all) : all[i] \in ClientID /\ Width(all[i]) = Width(id)
          /\ trim.kind = "MINID" => Width(trim.id) = Width(id)
      BY <2>1, <2>10, AddsWidths DEF all
    <3>2. Increasing(all)
      BY <2>2, <2>10 DEF IdsIncrease
    <3>3. Lined(h)
      <4>1. all \in Seq(ClientID)
        BY <2>8, <3>1
      <4> QED
        BY <2>8, <3>1, <3>2, <4>1, LinedStrings DEF h
    <3>4. Largest(Strings, Str(id))
      <4> SUFFICES ASSUME NEW k \in DOMAIN Strings PROVE Strings[k] \in Seq(Nat) /\ LessStr(Strings[k], Str(id))
        BY DEF Largest
      <4>1. Strings[k] \in Seq(Nat)
        BY StringsAreBytes
      <4>2. Strings[k] = h[k] /\ Str(id) = h[e] /\ k \in DOMAIN h /\ e \in DOMAIN h
        BY <2>3 DEF Extends
      <4>3. k < e
        BY <2>3 DEF Added, e, NewEntry
      <4> QED
        BY <3>3, <4>1, <4>2, <4>3 DEF Lined
    <3>5. Orderly(t)
      BY <2>6, <2>7, <3>1, <3>4 DEF WalkInv
    <3>6. OneWidthTree(t, h)
      BY <2>4, <2>7, <3>3, <3>5 DEF OneWidthTree
    <3>7. C = kept \cup {Len(all)}
      BY <2>4, <2>8, <3>1 DEF TrimIsExact
    <3>8. kept' = {i \in C : CASE trim.kind = "MAXLEN" -> Cardinality({j \in C : j > i}) < trim.n
                               [] trim.kind = "MINID" -> ~NumericLess(all[i], trim.id)
                               [] OTHER -> TRUE}
      BY <2>1, <3>7 DEF Keep, all
    <3>9. CASE trim.kind = "MAXLEN"
      <4>1. kept' = {i \in C : Cardinality({j \in C : j > i}) < trim.n}
        BY <3>8, <3>9
      <4>2. Contents(TrimBySize(t, Cardinality(C), trim.n)) = {i \in C : Cardinality({j \in C : j > i}) < trim.n}
        BY <2>4, <2>5, <3>6, <3>9, MaxLenContents
      <4> QED
        BY <2>4, <2>5, <2>9, <3>5, <3>9, <4>1, <4>2
    <3>10. CASE trim.kind = "MINID"
      <4> DEFINE m == Str(trim.id)
      <4>1. kept' = {i \in C : ~NumericLess(all[i], trim.id)}
        BY <3>8, <3>10
      <4>2. trim.id \in ClientID /\ trim.id \in ID /\ tree' = TrimByMinID(t, m)
        BY <2>5, <3>10, ClientIDType
      <4>3. \A i \in 1 .. e : LessStr(h[i], m) <=> NumericLess(all[i], trim.id)
        BY <2>8, <3>1, <3>10, <4>2, StrOrder
      <4>4. \A j, k \in 1 .. e : j < k => NumericLess(all[j], all[k])
        BY <2>8, <3>2 DEF Increasing
      <4> HIDE DEF m
      <4>5. \A j, k \in DOMAIN h : j < k /\ LessStr(h[k], m) => LessStr(h[j], m)
        BY <2>3, <2>8, <4>2, <4>3, <4>4, NumericOrder
      <4>6. Contents(TrimByMinID(t, m)) = {i \in C : ~LessStr(h[i], m)}
        BY <3>6, <4>5, MinIDContents
      <4>7. \A i \in C : i \in 1 .. e
        BY <2>3, <3>6, LeafOf
      <4>8. {i \in C : ~LessStr(h[i], m)} = {i \in C : ~NumericLess(all[i], trim.id)}
        BY <4>3, <4>7
      <4> QED
        BY <2>9, <3>5, <4>1, <4>2, <4>6, <4>8
    <3>11. CASE trim.kind \notin {"MAXLEN", "MINID"}
      <4>1. kept' = C
        BY <3>8, <3>11
      <4> QED
        BY <2>5, <2>9, <3>5, <3>11, <4>1
    <3> QED
      BY <3>9, <3>10, <3>11
  <2> QED
    BY <2>2, <2>9, <2>10 DEF WalkInv, TrimIsExact
<1>2. ASSUME Rest PROVE WalkInv' /\ TrimIsExact'
  BY <1>2 DEF Rest, WalkInv, TrimIsExact, UniformWidth, Unwrapped, Strings
<1> QED
  BY <1>1, <1>2, Steps

\* The tree stays in the order of its IDs.
LEMMA WalkInvariance == Spec => [](WalkInv /\ TrimIsExact)
<1>1. Init => WalkInv /\ TrimIsExact
  BY WalkInit
<1>2. StreamInv /\ StreamInv' /\ (WalkInv /\ TrimIsExact) /\ [Next]_vars => (WalkInv /\ TrimIsExact)'
  BY WalkStep DEF StreamInv, IdsInv
<1> QED
  BY <1>1, <1>2, StreamInvariance, PTL DEF Spec

\* As long as the IDs have numbers of one length (and no sequence has wrapped to
\* a negative one, which is longer), MAXLEN and MINID leave exactly
\* what they ask to keep, although TrimBySize and TrimByMinID go by the order of
\* the walk, do not look below leaves, and count entries that other trimmings
\* have left.
THEOREM TrimCorrect == Spec => []TrimIsExact
BY WalkInvariance, PTL

(***************************************************************************)
(* XRANGE.                                                                 *)
(***************************************************************************)
\* On ps the walk is a strict total order.
Ordered(t, ps) ==
    /\ \A p \in ps : ~Before(t, p, p)
    /\ \A p, q \in ps : p # q => Before(t, p, q) \/ Before(t, q, p)
    /\ \A p, q, r \in ps : Before(t, p, q) /\ Before(t, q, r) => Before(t, p, r)

Ahead(t, ps, p) == {q \in ps : Before(t, q, p)}

\* The number of paths ahead of a path grows along the walk, and is less than
\* that of all.
LEMMA RankGrows ==
    ASSUME NEW t, NEW ps, IsFiniteSet(ps), Ordered(t, ps)
    PROVE  /\ Cardinality(ps) \in Nat
           /\ \A p \in ps : /\ Cardinality(Ahead(t, ps, p)) \in Nat
                            /\ Cardinality(Ahead(t, ps, p)) < Cardinality(ps)
           /\ \A p, q \in ps :
                Before(t, p, q) => Cardinality(Ahead(t, ps, p)) < Cardinality(Ahead(t, ps, q))
<1>1. Cardinality(ps) \in Nat
  BY FS_CardinalityType
<1>2. ASSUME NEW p \in ps
      PROVE  IsFiniteSet(Ahead(t, ps, p)) /\ Cardinality(Ahead(t, ps, p)) \in Nat
  <2>1. Ahead(t, ps, p) \in SUBSET ps
    BY DEF Ahead
  <2> QED
    BY <2>1, FS_Subset, FS_CardinalityType
<1>3. ASSUME NEW S, NEW x, NEW T, IsFiniteSet(T), x \in T, x \notin S, S \subseteq T, IsFiniteSet(S)
      PROVE  Cardinality(S) < Cardinality(T)
  <2>1. S \in SUBSET T /\ S # T
    BY <1>3
  <2>2. Cardinality(S) <= Cardinality(T) /\ Cardinality(T) # Cardinality(S)
    BY <1>3, <2>1, FS_Subset
  <2>3. Cardinality(S) \in Nat /\ Cardinality(T) \in Nat
    BY <1>3, FS_CardinalityType
  <2> QED
    BY <2>2, <2>3
<1>4. ASSUME NEW p \in ps PROVE Cardinality(Ahead(t, ps, p)) < Cardinality(ps)
  <2>1. Ahead(t, ps, p) \subseteq ps /\ p \notin Ahead(t, ps, p)
    BY DEF Ahead, Ordered
  <2> QED
    BY <1>2, <1>3, <2>1
<1>5. ASSUME NEW p \in ps, NEW q \in ps, Before(t, p, q)
      PROVE  Cardinality(Ahead(t, ps, p)) < Cardinality(Ahead(t, ps, q))
  <2>1. p \in Ahead(t, ps, q) /\ p \notin Ahead(t, ps, p)
    BY <1>5 DEF Ahead, Ordered
  <2>2. Ahead(t, ps, p) \subseteq Ahead(t, ps, q)
    BY <1>5 DEF Ahead, Ordered
  <2> QED
    BY <1>2, <1>3, <2>1, <2>2
<1> QED
  BY <1>1, <1>2, <1>4, <1>5

\* InOrder lists the paths ps, each once, as the walk meets them.
LEMMA InOrderIs ==
    ASSUME NEW t, NEW ps, IsFiniteSet(ps), Ordered(t, ps)
    PROVE  /\ InOrder(t, ps) \in Seq(ps) /\ Len(InOrder(t, ps)) = Cardinality(ps)
           /\ \A p \in ps : \E i \in 1 .. Len(InOrder(t, ps)) : InOrder(t, ps)[i] = p
           /\ \A i, j \in 1 .. Len(InOrder(t, ps)) :
                i < j => Before(t, InOrder(t, ps)[i], InOrder(t, ps)[j])
<1> DEFINE n == Cardinality(ps)
           rank == [p \in ps |-> Cardinality(Ahead(t, ps, p))]
           s == InOrder(t, ps)
<1>1. /\ n \in Nat /\ \A p \in ps : rank[p] \in 0 .. n - 1
      /\ \A p, q \in ps : Before(t, p, q) => rank[p] < rank[q]
  BY RankGrows
<1>2. s = [i \in 1 .. n |-> CHOOSE p \in ps : Cardinality(Ahead(t, ps, p)) = i - 1]
  BY DEF InOrder, Ahead
<1>3. \A p \in ps : rank[p] = Cardinality(Ahead(t, ps, p))
  OBVIOUS
<1>4. DOMAIN rank = ps /\ rank = [p \in ps |-> rank[p]]
  OBVIOUS
<1> HIDE DEF n, rank, s
<1>5. \A p, q \in ps : rank[p] = rank[q] => p = q
  <2> SUFFICES ASSUME NEW p \in ps, NEW q \in ps, p # q PROVE rank[p] # rank[q]
    OBVIOUS
  <2>1. rank[p] < rank[q] \/ rank[q] < rank[p]
    BY <1>1 DEF Ordered
  <2>2. rank[p] \in Int /\ rank[q] \in Int
    BY <1>1
  <2> QED
    BY <2>1, <2>2
<1>6. \A k \in 0 .. n - 1 : \E p \in ps : rank[p] = k
  <2>1. rank \in Injection(ps, 0 .. n - 1)
    <3>1. rank \in [ps -> 0 .. n - 1]
      BY <1>1, <1>4
    <3> QED
      BY <1>5, <3>1 DEF Injection, IsInjective
  <2>2. IsFiniteSet(0 .. n - 1) /\ Cardinality(0 .. n - 1) = n
    <3>1. n - 1 \in Int /\ 0 \in Int
      BY <1>1
    <3>2. IsFiniteSet(0 .. n - 1) /\ Cardinality(0 .. n - 1) = IF 0 > n - 1 THEN 0 ELSE n - 1 - 0 + 1
      BY <3>1, FS_Interval
    <3> QED
      BY <1>1, <3>2
  <2>3. rank \in Surjection(ps, 0 .. n - 1)
    <3>1. Cardinality(ps) = Cardinality(0 .. n - 1) <=> rank \in Surjection(ps, 0 .. n - 1)
      BY <2>1, <2>2, FS_Injection
    <3> QED
      BY <2>2, <3>1 DEF n
  <2> QED
    BY <2>3 DEF Surjection
<1>7. \A i \in 1 .. n : s[i] \in ps /\ rank[s[i]] = i - 1
  <2> SUFFICES ASSUME NEW i \in 1 .. n PROVE s[i] \in ps /\ rank[s[i]] = i - 1
    OBVIOUS
  <2>1. i - 1 \in 0 .. n - 1
    BY <1>1
  <2>2. \E p \in ps : Cardinality(Ahead(t, ps, p)) = i - 1
    BY <1>6, <1>3, <2>1
  <2>3. s[i] = CHOOSE p \in ps : Cardinality(Ahead(t, ps, p)) = i - 1
    BY <1>2
  <2>4. s[i] \in ps /\ Cardinality(Ahead(t, ps, s[i])) = i - 1
    BY <2>2, <2>3
  <2> QED
    BY <1>3, <2>4
<1>8. s \in Seq(ps) /\ Len(s) = n
  <2>1. s \in [1 .. n -> ps]
    BY <1>2, <1>7
  <2> QED
    BY <1>1, <2>1
<1>9. ASSUME NEW p \in ps PROVE \E i \in 1 .. n : s[i] = p
  <2>1. rank[p] \in 0 .. n - 1
    BY <1>1
  <2>2. rank[p] + 1 \in 1 .. n /\ (rank[p] + 1) - 1 = rank[p]
    BY <1>1, <2>1
  <2> QED
    BY <1>5, <1>7, <2>2
<1>10. ASSUME NEW i \in 1 .. n, NEW j \in 1 .. n, i < j PROVE Before(t, s[i], s[j])
  <2>1. s[i] \in ps /\ s[j] \in ps /\ rank[s[i]] = i - 1 /\ rank[s[j]] = j - 1 /\ i \in Int /\ j \in Int
    BY <1>7
  <2>2. s[i] # s[j]
    BY <1>10, <2>1
  <2>3. Before(t, s[j], s[i]) => rank[s[j]] < rank[s[i]]
    BY <1>1, <2>1
  <2> QED
    BY <1>10, <2>1, <2>2, <2>3 DEF Ordered
<1> QED
  BY <1>8, <1>9, <1>10 DEF s, n

\* Leaves are strings of entries: there are finitely many, and the walk puts
\* them in an order.
LEMMA LeavesOrdered ==
    ASSUME NEW t, NEW h, OneWidthTree(t, h), IsFiniteSet(DOMAIN h), NEW ps, ps \subseteq Leaves(t)
    PROVE  IsFiniteSet(ps) /\ Ordered(t, ps)
<1>1. Shape(t) /\ Grounded(t, h) /\ Lined(h)
  BY DEF OneWidthTree, Walkable
<1>2. \A p \in ps : p \in DOMAIN t /\ \E k \in DOMAIN h : p = h[k]
  <2> SUFFICES ASSUME NEW p \in ps PROVE p \in DOMAIN t /\ \E k \in DOMAIN h : p = h[k]
    OBVIOUS
  <2>1. p \in DOMAIN t /\ t[p].isLeaf
    BY DEF Leaves
  <2>2. t[p].isLeaf = TRUE
    BY <1>1, <2>1, NodeParts
  <2> QED
    BY <1>1, <2>1, <2>2 DEF Grounded
<1>3. IsFiniteSet(ps)
  <2> DEFINE K == {k \in DOMAIN h : h[k] \in ps}
             f == [k \in K |-> h[k]]
  <2>1. IsFiniteSet(K)
    <3>1. K \in SUBSET DOMAIN h
      OBVIOUS
    <3> QED
      BY <3>1, FS_Subset
  <2>2. f \in Surjection(K, ps)
    <3>1. f \in [K -> ps]
      OBVIOUS
    <3>2. \A p \in ps : \E k \in K : f[k] = p
      BY <1>2
    <3> HIDE DEF f, K
    <3> QED
      BY <3>1, <3>2 DEF Surjection
  <2> QED
    BY <2>1, <2>2, FS_Surjection
<1>4. \A j, k \in DOMAIN h : h[j] \in DOMAIN t /\ h[k] \in DOMAIN t => (Before(t, h[j], h[k]) <=> j < k)
  BY WalkIsLined
<1>5. DOMAIN h \subseteq Nat
  BY <1>1 DEF Lined
<1>6. \A p \in ps : ~Before(t, p, p)
  BY <1>2, <1>4, <1>5
<1>7. ASSUME NEW p \in ps, NEW q \in ps, p # q PROVE Before(t, p, q) \/ Before(t, q, p)
  <2>1. PICK j \in DOMAIN h : p = h[j]
    BY <1>2
  <2>2. PICK k \in DOMAIN h : q = h[k]
    BY <1>2
  <2>3. j < k \/ k < j
    BY <1>5, <1>7, <2>1, <2>2
  <2> QED
    BY <1>2, <1>4, <2>1, <2>2, <2>3
<1>8. ASSUME NEW p \in ps, NEW q \in ps, NEW r \in ps, Before(t, p, q), Before(t, q, r)
      PROVE  Before(t, p, r)
  <2>1. PICK i \in DOMAIN h : p = h[i]
    BY <1>2
  <2>2. PICK j \in DOMAIN h : q = h[j]
    BY <1>2
  <2>3. PICK k \in DOMAIN h : r = h[k]
    BY <1>2
  <2>4. i < j /\ j < k
    BY <1>2, <1>4, <1>8, <2>1, <2>2, <2>3
  <2>5. i < k
    BY <1>5, <2>4
  <2> QED
    BY <1>2, <1>4, <2>1, <2>3, <2>5
<1> QED
  BY <1>3, <1>6, <1>7, <1>8 DEF Ordered

\* The ends of the parts of a flattened sequence do not go back.
LEMMA EndsMonotone ==
    ASSUME NEW S, NEW E \in Seq(Seq(S)), NEW ends, EndsOf(ends, E),
           NEW j \in 0 .. Len(E), NEW k \in 0 .. Len(E), j <= k
    PROVE  ends[j] <= ends[k]
<1> DEFINE T == {i \in 0 .. Len(E) : j <= i /\ ends[i] < ends[j]}
<1> SUFFICES ASSUME T # {} PROVE FALSE
  <2>1. ends[j] \in Nat /\ ends[k] \in Nat
    BY DEF EndsOf
  <2> QED
    BY <2>1
<1>1. T \subseteq Nat
  OBVIOUS
<1>2. PICK i \in T : \A m \in T : i <= m
  BY <1>1, Least
<1>3. /\ Len(E) \in Nat /\ i \in 0 .. Len(E) /\ j <= i /\ ends[i] < ends[j]
      /\ ends[i] \in Nat /\ ends[j] \in Nat
  <2>1. i \in 0 .. Len(E) /\ j <= i /\ ends[i] < ends[j]
    BY <1>2
  <2>2. Len(E) \in Nat /\ ends \in [0 .. Len(E) -> Nat]
    BY DEF EndsOf
  <2> QED
    BY <2>1, <2>2
<1>4. i # j
  BY <1>3
<1>5. i - 1 \in 0 .. Len(E) /\ j <= i - 1 /\ ~(i <= i - 1) /\ i \in 1 .. Len(E)
  BY <1>3, <1>4
<1>6. ~(ends[i - 1] < ends[j]) /\ ends[i - 1] \in Nat
  BY <1>2, <1>5 DEF EndsOf
<1>7. ends[i] = ends[i - 1] + Len(E[i]) /\ Len(E[i]) \in Nat
  BY <1>5 DEF EndsOf
<1> QED
  BY <1>3, <1>6, <1>7

\* Where the elements of a flattened sequence of parts of at most one come from.
Sources(at, E, F) ==
    /\ at \in [1 .. Len(F) -> 1 .. Len(E)]
    /\ \A m \in 1 .. Len(F) : Len(E[at[m]]) = 1 /\ F[m] = E[at[m]][1]
    /\ \A m, l \in 1 .. Len(F) : m < l => at[m] < at[l]
    /\ \A k \in 1 .. Len(E) : Len(E[k]) = 1 => \E m \in 1 .. Len(F) : F[m] = E[k][1]

LEMMA FlatSources ==
    ASSUME NEW S, NEW E \in Seq(Seq(S)), \A k \in 1 .. Len(E) : Len(E[k]) <= 1
    PROVE  \E at : Sources(at, E, FlattenSeq(E))
<1> DEFINE F == FlattenSeq(E)
<1>1. PICK ends : EndsOf(ends, E)
  BY FlatParts
<1>2. F \in Seq(S) /\ Len(F) \in Nat /\ Len(E) \in Nat
  BY FlatType
<1>3. /\ ends \in [0 .. Len(E) -> Nat] /\ ends[0] = 0 /\ ends[Len(E)] = Len(F)
      /\ \A k \in 1 .. Len(E) : /\ ends[k] = ends[k - 1] + Len(E[k]) /\ Len(E[k]) \in Nat
                                /\ \A j \in 1 .. Len(E[k]) : F[ends[k - 1] + j] = E[k][j]
  BY <1>1 DEF EndsOf
<1> DEFINE First(m, k) == m <= ends[k] /\ \A j \in 1 .. Len(E) : m <= ends[j] => k <= j
           at == [m \in 1 .. Len(F) |-> CHOOSE k \in 1 .. Len(E) : First(m, k)]
<1> HIDE DEF F
<1>4. ASSUME NEW m \in 1 .. Len(F)
      PROVE  /\ at[m] \in 1 .. Len(E) /\ First(m, at[m])
             /\ Len(E[at[m]]) = 1 /\ ends[at[m]] = m /\ F[m] = E[at[m]][1]
  <2> DEFINE T == {k \in 1 .. Len(E) : m <= ends[k]}
  <2>1. Len(E) \in 1 .. Len(E) /\ m <= ends[Len(E)]
    <3>1. m <= ends[Len(E)]
      BY <1>2, <1>3
    <3>2. Len(E) # 0
      BY <1>2, <1>3, <3>1
    <3> QED
      BY <1>2, <3>1, <3>2
  <2>2. T # {} /\ T \subseteq Nat
    BY <2>1
  <2>3. PICK k \in T : \A j \in T : k <= j
    BY <2>2, Least
  <2>4. \E k1 \in 1 .. Len(E) : First(m, k1)
    BY <2>3
  <2>5. at[m] \in 1 .. Len(E) /\ First(m, at[m])
    BY <2>4
  <2> DEFINE a == at[m]
  <2>6. a \in 1 .. Len(E) /\ m <= ends[a] /\ \A j \in 1 .. Len(E) : m <= ends[j] => a <= j
    BY <2>5
  <2> HIDE DEF a, at
  <2>7. ends[a - 1] < m
    <3>1. CASE a = 1
      BY <1>3, <3>1
    <3>2. CASE a # 1
      <4>1. a - 1 \in 1 .. Len(E) /\ ~(a <= a - 1) /\ a - 1 \in 0 .. Len(E)
        BY <1>2, <2>6, <3>2
      <4>2. ~(m <= ends[a - 1]) /\ ends[a - 1] \in Nat
        BY <1>3, <2>6, <4>1
      <4> QED
        BY <4>2
    <3> QED
      BY <3>1, <3>2
  <2>8. /\ ends[a] = ends[a - 1] + Len(E[a]) /\ Len(E[a]) \in Nat /\ Len(E[a]) <= 1
        /\ ends[a] \in Nat /\ ends[a - 1] \in Nat
    <3>1. a - 1 \in 0 .. Len(E) /\ a \in 0 .. Len(E)
      BY <1>2, <2>6
    <3> QED
      BY <1>3, <2>6, <3>1
  <2>9. Len(E[a]) = 1 /\ ends[a] = m /\ ends[a - 1] + 1 = m
    <3> DEFINE x == Len(E[a])
               y == ends[a - 1]
               z == ends[a]
    <3>1. m \in Nat /\ m <= z /\ y < m /\ z = y + x /\ x \in Nat /\ x <= 1 /\ y \in Nat
      BY <1>2, <2>6, <2>7, <2>8
    <3> HIDE DEF x, y, z
    <3>2. x = 1 /\ z = m /\ y + 1 = m
      BY <3>1
    <3> QED
      BY <3>2 DEF x, y, z
  <2>10. F[ends[a - 1] + 1] = E[a][1]
    BY <1>3, <2>6, <2>9
  <2>11. F[m] = E[a][1]
    BY <2>9, <2>10
  <2> QED
    BY <2>5, <2>9, <2>11 DEF a
<1>5. at \in [1 .. Len(F) -> 1 .. Len(E)]
  BY <1>4
<1>6. ASSUME NEW m \in 1 .. Len(F), NEW l \in 1 .. Len(F), m < l PROVE at[m] < at[l]
  <2>1. /\ at[m] \in 1 .. Len(E) /\ at[l] \in 1 .. Len(E) /\ ends[at[m]] = m /\ ends[at[l]] = l
        /\ \A j \in 1 .. Len(E) : m <= ends[j] => at[m] <= j
    BY <1>4
  <2> HIDE DEF at
  <2>2. at[m] <= at[l]
    BY <1>6, <2>1
  <2>3. at[m] # at[l]
    BY <1>6, <2>1
  <2> QED
    BY <2>1, <2>2, <2>3
<1>7. ASSUME NEW k \in 1 .. Len(E), Len(E[k]) = 1 PROVE \E m \in 1 .. Len(F) : F[m] = E[k][1]
  <2>1. k \in 0 .. Len(E) /\ k - 1 \in 0 .. Len(E) /\ Len(E) \in 0 .. Len(E) /\ k <= Len(E)
    BY <1>2
  <2>2. ends[k] <= ends[Len(E)]
    BY <1>1, <2>1, EndsMonotone
  <2>3. ends[k - 1] + 1 = ends[k] /\ ends[k - 1] \in Nat
    BY <1>3, <1>7, <2>1
  <2>4. ends[k - 1] + 1 \in 1 .. Len(F)
    BY <1>2, <1>3, <2>2, <2>3
  <2>5. F[ends[k - 1] + 1] = E[k][1]
    BY <1>3, <1>7
  <2> QED
    BY <2>4, <2>5
<1> HIDE DEF at
<1>8. Sources(at, E, F)
  <2>1. \A m \in 1 .. Len(F) : Len(E[at[m]]) = 1 /\ F[m] = E[at[m]][1]
    BY <1>4
  <2> QED
    BY <1>5, <1>6, <1>7, <2>1 DEF Sources
<1> QED
  BY <1>8 DEF F

\* The entries of some leaves, as a range returns them: all of those leaves, the
\* older ones first.
LEMMA RangeOf ==
    ASSUME NEW t, NEW h, OneWidthTree(t, h), IsFiniteSet(DOMAIN h), NEW ps, ps \subseteq Leaves(t)
    PROVE  LET all == Entries(t, InOrder(t, ps))
           IN  /\ all \in Seq(Nat)
               /\ {all[i] : i \in 1 .. Len(all)} = {e \in Contents(t) : h[e] \in ps}
               /\ \A i, j \in 1 .. Len(all) : i < j => all[i] < all[j]
<1> DEFINE s == InOrder(t, ps)
           E == [i \in 1 .. Len(s) |-> t[s[i]].entries]
           all == Entries(t, s)
<1>1. Shape(t) /\ Single(t)
  BY DEF OneWidthTree, Walkable, Orderly
<1>2. /\ s \in Seq(ps) /\ Len(s) \in Nat
      /\ \A p \in ps : \E i \in 1 .. Len(s) : s[i] = p
      /\ \A i, j \in 1 .. Len(s) : i < j => Before(t, s[i], s[j])
  BY LeavesOrdered, InOrderIs
<1>3. \A p \in ps : p \in DOMAIN t /\ t[p].entries \in Seq(Nat) /\ Len(t[p].entries) <= 1
  BY <1>1, NodeParts DEF Leaves, Single
<1>4. all = FlattenSeq(E)
  BY DEF Entries
<1> HIDE DEF s, all
<1>5. \A i \in 1 .. Len(s) : s[i] \in ps
  BY <1>2
<1>6. \A i \in 1 .. Len(s) : E[i] = t[s[i]].entries /\ E[i] \in Seq(Nat) /\ Len(E[i]) <= 1
  BY <1>3, <1>5
<1>7. E \in Seq(Seq(Nat)) /\ Len(E) = Len(s)
  <2>1. E \in [1 .. Len(s) -> Seq(Nat)]
    BY <1>6
  <2> QED
    BY <1>2, <2>1
<1> HIDE DEF E
<1>8. \E at : Sources(at, E, all)
  BY <1>4, <1>6, <1>7, FlatSources
<1>9. PICK at : Sources(at, E, all)
  BY <1>8
<1>10. all \in Seq(Nat) /\ Len(all) \in Nat
  BY <1>4, <1>7, FlatType
<1>11. ASSUME NEW m \in 1 .. Len(all)
       PROVE  /\ at[m] \in 1 .. Len(s) /\ all[m] \in Contents(t)
              /\ h[all[m]] = s[at[m]] /\ s[at[m]] \in ps
  <2>1. at[m] \in 1 .. Len(s) /\ Len(E[at[m]]) = 1 /\ all[m] = E[at[m]][1]
    BY <1>7, <1>9 DEF Sources
  <2> DEFINE p == s[at[m]]
  <2>2. p \in ps /\ E[at[m]] = t[p].entries
    BY <1>5, <1>6, <2>1
  <2>3. p \in DOMAIN t /\ t[p].entries \in Seq(Nat) /\ Len(t[p].entries) = 1 /\ all[m] = t[p].entries[1]
    BY <1>3, <2>1, <2>2
  <2> HIDE DEF p
  <2>4. 1 \in DOMAIN t[p].entries
    BY <2>3
  <2>5. all[m] \in Contents(t) /\ h[all[m]] = p
    BY <2>3, <2>4, EntryOfLeaf
  <2> QED
    BY <2>1, <2>2, <2>5 DEF p
<1>12. ASSUME NEW e \in Contents(t), h[e] \in ps PROVE \E m \in 1 .. Len(all) : all[m] = e
  <2>1. Len(t[h[e]].entries) = 1 /\ t[h[e]].entries[1] = e
    BY LeafOf
  <2>2. PICK i \in 1 .. Len(s) : s[i] = h[e]
    BY <1>2, <1>12
  <2>3. i \in 1 .. Len(E) /\ Len(E[i]) = 1 /\ E[i][1] = e
    BY <1>6, <1>7, <2>1, <2>2
  <2> QED
    BY <1>9, <2>3 DEF Sources
<1>13. {all[i] : i \in 1 .. Len(all)} = {e \in Contents(t) : h[e] \in ps}
  <2>1. ASSUME NEW x \in {all[i] : i \in 1 .. Len(all)} PROVE x \in {e \in Contents(t) : h[e] \in ps}
    BY <1>11
  <2>2. ASSUME NEW x \in {e \in Contents(t) : h[e] \in ps} PROVE x \in {all[i] : i \in 1 .. Len(all)}
    BY <1>12
  <2> QED
    BY <2>1, <2>2
<1>14. ASSUME NEW i \in 1 .. Len(all), NEW j \in 1 .. Len(all), i < j PROVE all[i] < all[j]
  <2>1. at[i] \in 1 .. Len(s) /\ at[j] \in 1 .. Len(s) /\ at[i] < at[j]
    BY <1>9, <1>11, <1>14 DEF Sources
  <2>2. Before(t, s[at[i]], s[at[j]])
    BY <1>2, <2>1
  <2>3. Before(t, h[all[i]], h[all[j]]) /\ all[i] \in Contents(t) /\ all[j] \in Contents(t)
    BY <1>11, <2>2
  <2> QED
    BY <2>3, BeforeIsOlder
<1> QED
  BY <1>10, <1>13, <1>14 DEF all, s

\* As long as the IDs have numbers of one length, the tree of the stream is one
\* of strings of one length in the order of the entries.
LEMMA StreamTree ==
    ASSUME StreamInv, WalkInv, UniformWidth
    PROVE  OneWidthTree(tree, Strings) /\ IsFiniteSet(DOMAIN Strings)
<1>1. /\ added \in Seq(ID) /\ IsFiniteSet(widths) /\ Cardinality(widths) <= 1
      /\ \A i \in 1 .. Len(added) : Width(added[i]) \in widths
      /\ Increasing(added) /\ Placed(tree, Strings)
      /\ Walkable(tree, Strings) /\ Orderly(tree)
  BY DEF StreamInv, IdsInv, Added, IdsIncrease, UniformWidth, TreeInv, WalkInv
<1>2. Len(added) \in Nat /\ DOMAIN Strings = 1 .. Len(added)
  BY <1>1 DEF Strings
<1>3. \A i \in 1 .. Len(added) : Width(added[i]) = Width(added[1])
  <2> SUFFICES ASSUME NEW i \in 1 .. Len(added) PROVE Width(added[i]) = Width(added[1])
    OBVIOUS
  <2>1. 1 \in 1 .. Len(added)
    BY <1>2
  <2> QED
    BY <1>1, <2>1, OneWidth
<1>4. Lined(StringsOf(added))
  <2>1. added \in Seq(ClientID)
    BY <1>1 DEF UniformWidth, Unwrapped
  <2> QED
    BY <1>1, <1>3, <2>1, LinedStrings
<1>5. StringsOf(added) = Strings
  BY DEF StringsOf, Strings
<1>6. IsFiniteSet(DOMAIN Strings)
  <2>1. Len(added) \in Int /\ 1 \in Int
    BY <1>2
  <2> QED
    BY <1>2, <2>1, FS_Interval
<1> QED
  BY <1>1, <1>4, <1>5, <1>6 DEF OneWidthTree

\* Before the first byte nothing is less, and the string of an ID starts with a
\* digit, below the byte that stands for +.
LEMMA Extremes ==
    ASSUME NEW id \in ClientID
    PROVE  /\ ~LessStr(Str(id), <<>>) /\ ~LessStr(<<255>>, Str(id))
           /\ ~NumericLess(id, <<0, 0>>)
<1>1. ~LessStr(Str(id), <<>>)
  <2>1. Str(id) \in Seq(Nat)
    BY ClientIDType, StrParts
  <2>2. Len(Str(id)) \in Nat /\ Len(<<>>) = 0
    BY <2>1
  <2> QED
    BY <2>2 DEF LessStr
<1>2. Str(id)[1] \in 48 .. 57
  <2> DEFINE d == Digits[id[1]]
             e == <<45>> \o Signed(id[2])
  <2>1. Str(id) = d \o e /\ e \in Seq(Nat) /\ d \in Seq(Nat)
    BY ClientIDType, StrParts
  <2>2. d \in Seq(48 .. 57) /\ Len(d) \in Nat \ {0}
    <3>1. id[1] \in 0 .. MaxNum + 1
      BY ClientIDType, StreamIdsAssumption
    <3> QED
      BY <3>1, DigitsType
  <2> HIDE DEF d, e
  <2>3. 1 \in 1 .. Len(d) /\ (d \o e)[1] = d[1]
    BY <2>1, <2>2
  <2>4. d[1] \in 48 .. 57
    BY <2>2, <2>3
  <2> QED
    BY <2>1, <2>3, <2>4
<1>3. ~LessStr(<<255>>, Str(id))
  <2> DEFINE top == <<255>>
  <2>1. Len(top) = 1 /\ top[1] = 255
    OBVIOUS
  <2> HIDE DEF top
  <2>0. ~LessStr(top, Str(id))
    <3> SUFFICES ASSUME NEW n \in 0 .. Len(top), \A i \in 1 .. n : top[i] = Str(id)[i],
                        n = Len(top) \/ top[n + 1] < Str(id)[n + 1]
                 PROVE  FALSE
      BY DEF LessStr
    <3>2. n = 0 \/ n = 1
      BY <2>1
    <3>3. CASE n = 0
      BY <1>2, <2>1, <3>3
    <3>4. CASE n = 1
      <4>1. 1 \in 1 .. n
        BY <3>4
      <4> QED
        BY <1>2, <2>1, <4>1
    <3> QED
      BY <3>2, <3>3, <3>4
  <2> QED
    BY <2>0 DEF top
<1>4. ~NumericLess(id, <<0, 0>>)
  BY ClientIDType DEF NumericLess
<1> QED
  BY <1>1, <1>3, <1>4

\* A bound that XRANGE accepts selects, by the order of strings, what it means
\* by the order of IDs.
LEMMA BoundMeans ==
    ASSUME NEW a \in Bounds, NEW b \in Bounds, a.form \in {"id", "time", "-"}, b.form \in {"id", "+"},
           NEW id \in ClientID,
           BoundWidth(a) \subseteq {Width(id)}, BoundWidth(b) \subseteq {Width(id)}
    PROVE  /\ LessStr(Str(id), parseStreamID(a, TRUE)) <=> NumericLess(id, a.id)
           /\ LessStr(parseStreamID(b, FALSE), Str(id)) <=> b.form # "+" /\ NumericLess(b.id, id)
<1>1. Explicit \subseteq ClientID
  BY StreamIdsAssumption
<1>2. LessStr(Str(id), parseStreamID(a, TRUE)) <=> NumericLess(id, a.id)
  <2>1. CASE a.form = "-"
    <3>1. a.id = <<0, 0>>
      BY <2>1 DEF Bounds
    <3>2. parseStreamID(a, TRUE) = <<>>
      BY <2>1 DEF parseStreamID
    <3> QED
      BY <3>1, <3>2, Extremes
  <2>2. CASE a.form \in {"id", "time"}
    <3>1. a.id \in ClientID
      BY <1>1, <2>2 DEF Bounds
    <3>2. parseStreamID(a, TRUE) = Str(a.id)
      BY <2>2 DEF parseStreamID
    <3>3. Width(a.id) = Width(id)
      BY <2>2 DEF BoundWidth
    <3> QED
      BY <3>1, <3>2, <3>3, StrOrder
  <2> QED
    BY <2>1, <2>2
<1>3. LessStr(parseStreamID(b, FALSE), Str(id)) <=> b.form # "+" /\ NumericLess(b.id, id)
  <2>1. CASE b.form = "+"
    <3>1. parseStreamID(b, FALSE) = <<255>>
      BY <2>1 DEF parseStreamID
    <3> QED
      BY <2>1, <3>1, Extremes
  <2>2. CASE b.form = "id"
    <3>1. b.id \in ClientID
      BY <1>1, <2>2 DEF Bounds
    <3>2. parseStreamID(b, FALSE) = Str(b.id)
      BY <2>2 DEF parseStreamID
    <3>3. Width(b.id) = Width(id)
      BY <2>2 DEF BoundWidth
    <3> QED
      BY <2>2, <3>1, <3>2, <3>3, StrOrder
  <2> QED
    BY <2>1, <2>2
<1> QED
  BY <1>2, <1>3

\* What a range with a COUNT of one returns, by what one without returns.
LEMMA CountOfRange ==
    ASSUME NEW all \in Seq(Nat), NEW one,
           one = IF 1 = 0 \/ 1 >= Len(all) THEN all ELSE SubSeq(all, 1, 1)
    PROVE  one = SubSeq(all, 1, IF all = <<>> THEN 0 ELSE 1)
<1>1. CASE all = <<>>
  <2>1. Len(all) = 0 /\ SubSeq(all, 1, 0) = <<>>
    BY <1>1
  <2> QED
    BY <1>1, <2>1
<1>2. CASE all # <<>> /\ Len(all) <= 1
  <2>1. Len(all) \in Nat /\ Len(all) # 0
    BY <1>2
  <2>2. Len(all) = 1
    <3>1. \A l \in Nat : l # 0 /\ l <= 1 => l = 1
      OBVIOUS
    <3> QED
      BY <1>2, <2>1, <3>1, Zenon
  <2>3. one = all
    BY <2>2
  <2>4. SubSeq(all, 1, Len(all)) = all
    OBVIOUS
  <2> QED
    BY <1>2, <2>2, <2>3, <2>4
<1>3. CASE all # <<>> /\ ~(Len(all) <= 1)
  BY <1>3
<1> QED
  BY <1>1, <1>2, <1>3

\* XRANGE, which compares strings and returns leaves as the walk meets them,
\* selects what lies between its bounds by the numbers, in their order.
LEMMA RangeHolds == StreamInv /\ WalkInv => RangeIsNumeric
<1> SUFFICES ASSUME StreamInv, WalkInv, NEW a \in Bounds, NEW b \in Bounds,
                    a.form \in {"id", "time", "-"}, b.form \in {"id", "+"},
                    Unwrapped, Cardinality(widths \cup BoundWidth(a) \cup BoundWidth(b)) <= 1
             PROVE  LET between == {i \in Contents(tree) :
                                      /\ ~NumericLess(added[i], a.id)
                                      /\ (b.form = "+" \/ ~NumericLess(b.id, added[i]))}
                        all == XRange(a, b, 0)
                    IN  /\ {all[i] : i \in 1 .. Len(all)} = between
                        /\ Increasing([i \in 1 .. Len(all) |-> added[all[i]]])
                        /\ XRange(a, b, 1) = SubSeq(all, 1, IF all = <<>> THEN 0 ELSE 1)
  BY DEF RangeIsNumeric
<1> DEFINE W == widths \cup BoundWidth(a) \cup BoundWidth(b)
           start == parseStreamID(a, TRUE)
           end == parseStreamID(b, FALSE)
           ps == {p \in Leaves(tree) : ~LessStr(p, start) /\ ~LessStr(end, p)}
           E == Entries(tree, InOrder(tree, ps))
           all == XRange(a, b, 0)
           between == {i \in Contents(tree) :
                         /\ ~NumericLess(added[i], a.id)
                         /\ (b.form = "+" \/ ~NumericLess(b.id, added[i]))}
<1>1. /\ added \in Seq(ID) /\ IsFiniteSet(widths) /\ TreeInv /\ Added
      /\ \A i \in 1 .. Len(added) : Width(added[i]) \in widths
  BY DEF StreamInv, IdsInv, Added
<1>2. IsFiniteSet(W) /\ Cardinality(W) <= 1 /\ widths \in SUBSET W
  <2>1. IsFiniteSet(BoundWidth(a)) /\ IsFiniteSet(BoundWidth(b))
    BY FS_EmptySet, FS_Singleton DEF BoundWidth
  <2>2. IsFiniteSet(widths \cup BoundWidth(a))
    BY <1>1, <2>1, FS_Union
  <2>3. IsFiniteSet(W)
    BY <2>1, <2>2, FS_Union
  <2> QED
    BY <2>3
<1> HIDE DEF W
<1>3. UniformWidth
  <2>1. Cardinality(widths) <= Cardinality(W) /\ Cardinality(widths) \in Nat /\ Cardinality(W) \in Nat
    BY <1>1, <1>2, FS_Subset, FS_CardinalityType
  <2> QED
    BY <1>2, <2>1 DEF UniformWidth
<1>4. OneWidthTree(tree, Strings) /\ IsFiniteSet(DOMAIN Strings)
  BY <1>3, StreamTree
<1>5. \A e \in Contents(tree) : e \in 1 .. Len(added) /\ added[e] \in ClientID /\ Strings[e] = Str(added[e])
  BY <1>1, ContentsFinite DEF Strings, Unwrapped
<1>6. ASSUME NEW e \in Contents(tree) PROVE Strings[e] \in ps <=> e \in between
  <2>1. Strings[e] \in Leaves(tree)
    BY <1>4, LeafOf DEF TopLeaves
  <2>2. Width(added[e]) \in W
    BY <1>1, <1>2, <1>5
  <2>3. BoundWidth(a) \subseteq W /\ BoundWidth(b) \subseteq W
    BY DEF W
  <2>4. \A w \in W : w = Width(added[e])
    BY <1>2, <2>2, OneWidth
  <2>5. BoundWidth(a) \subseteq {Width(added[e])} /\ BoundWidth(b) \subseteq {Width(added[e])}
    BY <2>3, <2>4
  <2>6. /\ LessStr(Str(added[e]), start) <=> NumericLess(added[e], a.id)
        /\ LessStr(end, Str(added[e])) <=> b.form # "+" /\ NumericLess(b.id, added[e])
    BY <1>5, <2>5, BoundMeans
  <2> QED
    BY <1>5, <2>1, <2>6
<1>7. /\ E \in Seq(Nat) /\ {E[i] : i \in 1 .. Len(E)} = {e \in Contents(tree) : Strings[e] \in ps}
      /\ \A i, j \in 1 .. Len(E) : i < j => E[i] < E[j]
  <2>1. ps \subseteq Leaves(tree)
    OBVIOUS
  <2> HIDE DEF ps
  <2> QED
    BY <1>4, <2>1, RangeOf
<1>8. /\ all = E
      /\ XRange(a, b, 1) = IF 1 = 0 \/ 1 >= Len(E) THEN E ELSE SubSeq(E, 1, 1)
  <2>1. ValidateID(a, TRUE) /\ ValidateID(b, FALSE)
    BY DEF ValidateID
  <2> QED
    BY <2>1 DEF XRange, TreeRange
<1> HIDE DEF E, all, ps, start, end
<1>9. {all[i] : i \in 1 .. Len(all)} = between
  <2>1. {e \in Contents(tree) : Strings[e] \in ps} = between
    BY <1>6
  <2> QED
    BY <1>7, <1>8, <2>1
<1>10. Increasing([i \in 1 .. Len(all) |-> added[all[i]]])
  <2> DEFINE s == [i \in 1 .. Len(all) |-> added[all[i]]]
  <2>1. Len(all) \in Nat /\ all \in Seq(Nat)
    BY <1>7, <1>8
  <2>2. Len(s) = Len(all)
    BY <2>1
  <2>3. ASSUME NEW i \in 1 .. Len(all), NEW j \in 1 .. Len(all), i < j
        PROVE  NumericLess(added[all[i]], added[all[j]])
    <3>1. all[i] < all[j] /\ all[i] \in Contents(tree) /\ all[j] \in Contents(tree)
      BY <1>7, <1>8, <1>9, <2>3
    <3>2. Increasing(added)
      BY <1>3 DEF StreamInv, IdsInv, IdsIncrease
    <3> QED
      BY <1>5, <3>1, <3>2 DEF Increasing
  <2> QED
    BY <2>2, <2>3 DEF Increasing
<1>11. XRange(a, b, 1) = SubSeq(all, 1, IF all = <<>> THEN 0 ELSE 1)
  BY <1>7, <1>8, CountOfRange
<1> QED
  BY <1>9, <1>10, <1>11 DEF all

\* As long as the IDs of the stream and of the bounds have numbers of one length,
\* XRANGE selects exactly the entries between its bounds, in the order of the
\* IDs, although RadixTree.Range compares strings and walks children in the order
\* they were added; a COUNT of one gives the first of them.
THEOREM RangeCorrect == Spec => []RangeIsNumeric
BY StreamInvariance, WalkInvariance, RangeHolds, PTL

=============================================================================
