---------------------------- MODULE OffsetProofs ----------------------------
(***************************************************************************)
(* Proofs about the offsets of module Replication: a replica that has      *)
(* acknowledged the offset of a write holds it, and WAIT answers no more   *)
(* replicas than hold the writes of its client.                            *)
(*                                                                         *)
(* A replica's offset is never ahead of what the master has counted and    *)
(* the replica has been sent.  The argument puts a ceiling on the offset   *)
(* that the replica can have after each message on its way to it: the      *)
(* ceiling at a write is at most the master's offset at that write, and    *)
(* the last one, with all that is still to be sent, at most the master's   *)
(* offset now.                                                             *)
(***************************************************************************)
EXTENDS ReplicationProofs

\* What the replica adds to its offset when it reads a message.
MsgLen(m) ==
    IF m.kind = "write" THEN WriteLen ELSE IF m.kind = "getack" THEN GetAckLen
    ELSE IF m.kind = "ping" THEN PingLen ELSE 0

\* Every message has a length, and only arrays are counted.
LEMMA Lengths ==
    /\ \A m : MsgLen(m) \in Nat
    /\ WriteLen \in Nat /\ WriteLen > 0 /\ GetAckLen \in Nat /\ PingLen \in Nat
    /\ \A m : m.kind = "write" => MsgLen(m) = WriteLen
    /\ \A m : m.kind = "getack" => MsgLen(m) = GetAckLen
    /\ \A m : m.kind = "ping" => MsgLen(m) = PingLen
    /\ \A m : m.kind \notin Arrays => MsgLen(m) = 0
BY ReplicationAssumption DEF MsgLen, GetAckLen, PingLen, Arrays

(***************************************************************************)
(* Ceilings: p[j] is one after the first j messages of s.                  *)
(***************************************************************************)
Climbs(p, s) ==
    /\ p \in [0 .. Len(s) -> Nat]
    /\ \A j \in 1 .. Len(s) : p[j - 1] + MsgLen(s[j]) <= p[j]
    /\ \A i, j \in 0 .. Len(s) : i <= j => p[i] <= p[j]

\* A sequence of offsets that climbs stays between its first and its last.
LEMMA Ceiling ==
    ASSUME NEW S, NEW s \in Seq(S), NEW p, Climbs(p, s)
    PROVE  /\ p[0] \in Nat /\ p[Len(s)] \in Nat /\ p[0] <= p[Len(s)]
           /\ \A j \in 0 .. Len(s) : p[j] \in Nat /\ p[0] <= p[j] /\ p[j] <= p[Len(s)]
           /\ \A j \in 1 .. Len(s) : /\ p[j] \in Nat /\ p[j - 1] \in Nat /\ p[0] <= p[j - 1]
                                     /\ p[j - 1] + MsgLen(s[j]) <= p[j]
<1>1. Len(s) \in Nat /\ 0 \in 0 .. Len(s) /\ Len(s) \in 0 .. Len(s)
  OBVIOUS
<1>2. \A j \in 1 .. Len(s) : j \in 0 .. Len(s) /\ j - 1 \in 0 .. Len(s) /\ 0 <= j - 1
  BY <1>1
<1>3. \A j \in 0 .. Len(s) : p[j] \in Nat /\ p[0] <= p[j] /\ p[j] <= p[Len(s)]
  BY <1>1 DEF Climbs
<1> QED
  BY <1>1, <1>2, <1>3 DEF Climbs

\* An empty stream climbs from wherever it starts.
LEMMA ClimbsEmpty == ASSUME NEW n \in Nat PROVE \E p : Climbs(p, <<>>) /\ p[0] = n
<1> DEFINE p == [j \in 0 .. 0 |-> n]
<1>1. p \in [0 .. Len(<<>>) -> Nat] /\ p[0] = n /\ \A i \in 0 .. Len(<<>>) : p[i] = n
  OBVIOUS
<1>2. Climbs(p, <<>>)
  BY <1>1 DEF Climbs
<1> QED
  BY <1>1, <1>2

\* A message at the end of a stream climbs by its length.
LEMMA ClimbsAppend ==
    ASSUME NEW S, NEW s \in Seq(S), NEW m \in S, NEW p, Climbs(p, s)
    PROVE  \E q : /\ Climbs(q, Append(s, m)) /\ \A j \in 0 .. Len(s) : q[j] = p[j]
                  /\ q[Len(s) + 1] = p[Len(s)] + MsgLen(m)
<1> DEFINE t == Append(s, m)
           e == p[Len(s)] + MsgLen(m)
           q == [j \in 0 .. Len(t) |-> IF j <= Len(s) THEN p[j] ELSE e]
<1>1. /\ Len(t) = Len(s) + 1 /\ t[Len(s) + 1] = m /\ Len(s) \in Nat
      /\ \A i \in 1 .. Len(s) : t[i] = s[i]
      /\ \A i \in 1 .. Len(t) : i \in 1 .. Len(s) \/ i = Len(s) + 1
      /\ \A i \in 0 .. Len(t) : i \in 0 .. Len(s) \/ i = Len(s) + 1
  OBVIOUS
<1>2. /\ p[Len(s)] \in Nat /\ MsgLen(m) \in Nat /\ e \in Nat /\ p[Len(s)] <= e
      /\ \A j \in 0 .. Len(s) : p[j] \in Nat /\ p[j] <= p[Len(s)]
  BY Ceiling, Lengths
<1>3. (\A j \in 0 .. Len(s) : q[j] = p[j]) /\ q[Len(s) + 1] = e
  BY <1>1
<1>4. q \in [0 .. Len(t) -> Nat]
  BY <1>1, <1>2
<1> HIDE DEF t, q
<1>5. ASSUME NEW j \in 1 .. Len(t) PROVE q[j - 1] + MsgLen(t[j]) <= q[j]
  <2>1. CASE j \in 1 .. Len(s)
    <3>1. j \in 0 .. Len(s) /\ j - 1 \in 0 .. Len(s)
      BY <1>1, <2>1
    <3> QED
      BY <1>1, <1>3, <2>1, <3>1 DEF Climbs
  <2>2. CASE j = Len(s) + 1
    <3>1. j - 1 = Len(s) /\ Len(s) \in 0 .. Len(s)
      BY <1>1, <2>2
    <3>2. q[j - 1] = p[Len(s)] /\ q[j] = e /\ t[j] = m
      BY <1>1, <1>3, <2>2, <3>1
    <3> QED
      BY <1>2, <3>2
  <2> QED
    BY <1>1, <2>1, <2>2
<1>6. ASSUME NEW i \in 0 .. Len(t), NEW j \in 0 .. Len(t), i <= j PROVE q[i] <= q[j]
  <2>1. CASE j \in 0 .. Len(s)
    <3>1. i \in 0 .. Len(s)
      BY <1>1, <1>6, <2>1
    <3> QED
      BY <1>3, <1>6, <2>1, <3>1 DEF Climbs
  <2>2. CASE j = Len(s) + 1
    <3>1. CASE i \in 0 .. Len(s)
      BY <1>2, <1>3, <2>2, <3>1
    <3>2. CASE i = Len(s) + 1
      BY <1>2, <1>3, <2>2, <3>2
    <3> QED
      BY <1>1, <3>1, <3>2
  <2> QED
    BY <1>1, <2>1, <2>2
<1>7. Climbs(q, t)
  BY <1>4, <1>5, <1>6 DEF Climbs
<1> QED
  BY <1>3, <1>7 DEF t

\* The ceilings of a buffer continue those of the wire.
LEMMA ClimbsConcat ==
    ASSUME NEW S, NEW s \in Seq(S), NEW t \in Seq(S), NEW p, NEW q, Climbs(p, s), Climbs(q, t)
    PROVE  \E o : /\ Climbs(o, s \o t) /\ \A j \in 0 .. Len(s) : o[j] = p[j]
                  /\ o[Len(s \o t)] = p[Len(s)] + (q[Len(t)] - q[0])
<1> DEFINE v == s \o t
           Above(j) == p[Len(s)] + (q[j - Len(s)] - q[0])
           o == [j \in 0 .. Len(v) |-> IF j <= Len(s) THEN p[j] ELSE Above(j)]
<1>1. /\ Len(v) = Len(s) + Len(t) /\ Len(s) \in Nat /\ Len(t) \in Nat /\ Len(v) \in Nat
      /\ \A i \in 1 .. Len(s) : v[i] = s[i]
      /\ \A i \in 1 .. Len(v) : i \in 1 .. Len(s) \/ (i - Len(s) \in 1 .. Len(t) /\ v[i] = t[i - Len(s)])
  BY Concat
<1>2. /\ p[Len(s)] \in Nat /\ q[0] \in Nat
      /\ \A j \in 0 .. Len(s) : p[j] \in Nat /\ p[j] <= p[Len(s)]
      /\ \A j \in 0 .. Len(t) : q[j] \in Nat /\ q[0] <= q[j]
  BY Ceiling
<1>3. ASSUME NEW j \in 0 .. Len(v), Len(s) <= j
      PROVE  j - Len(s) \in 0 .. Len(t) /\ Above(j) \in Nat /\ p[Len(s)] <= Above(j)
  <2>1. j - Len(s) \in 0 .. Len(t)
    BY <1>1, <1>3
  <2>2. q[j - Len(s)] \in Nat /\ q[0] <= q[j - Len(s)]
    BY <1>2, <2>1
  <2> QED
    BY <1>2, <2>1, <2>2
<1>4. /\ \A j \in 0 .. Len(v) : j <= Len(s) => o[j] = p[j]
      /\ \A j \in 0 .. Len(v) : ~(j <= Len(s)) => o[j] = Above(j)
      /\ \A j \in 0 .. Len(s) : j \in 0 .. Len(v) /\ o[j] = p[j]
  BY <1>1
<1>5. Above(Len(s)) = p[Len(s)]
  <2>1. Len(s) - Len(s) = 0
    BY <1>1
  <2> QED
    BY <1>2, <2>1
<1>6. \A j \in 0 .. Len(v) : Len(s) <= j => o[j] = Above(j)
  BY <1>1, <1>4, <1>5
<1>7. o \in [0 .. Len(v) -> Nat]
  BY <1>1, <1>2, <1>3
<1> HIDE DEF v, o
<1>8. ASSUME NEW j \in 1 .. Len(v) PROVE o[j - 1] + MsgLen(v[j]) <= o[j]
  <2>1. CASE j \in 1 .. Len(s)
    <3>1. j \in 0 .. Len(s) /\ j - 1 \in 0 .. Len(s)
      BY <1>1, <2>1
    <3> QED
      BY <1>1, <1>4, <2>1, <3>1 DEF Climbs
  <2>2. CASE j - Len(s) \in 1 .. Len(t) /\ v[j] = t[j - Len(s)]
    <3>1. /\ j \in 0 .. Len(v) /\ j - 1 \in 0 .. Len(v) /\ Len(s) <= j /\ Len(s) <= j - 1
          /\ (j - 1) - Len(s) = (j - Len(s)) - 1
      BY <1>1, <2>2
    <3>2. /\ o[j] = p[Len(s)] + (q[j - Len(s)] - q[0])
          /\ o[j - 1] = p[Len(s)] + (q[(j - Len(s)) - 1] - q[0])
      <4>1. o[j] = Above(j) /\ o[j - 1] = Above(j - 1)
        BY <1>6, <3>1
      <4>2. Above(j - 1) = p[Len(s)] + (q[(j - Len(s)) - 1] - q[0])
        BY <3>1
      <4> QED
        BY <4>1, <4>2
    <3>3. /\ q[(j - Len(s)) - 1] + MsgLen(v[j]) <= q[j - Len(s)]
          /\ q[(j - Len(s)) - 1] \in Nat /\ q[j - Len(s)] \in Nat /\ MsgLen(v[j]) \in Nat
      BY <2>2, Ceiling, Lengths
    <3> DEFINE a == p[Len(s)]
               b == q[0]
               c == q[j - Len(s)]
               d == q[(j - Len(s)) - 1]
               l == MsgLen(v[j])
    <3>4. a \in Nat /\ b \in Nat /\ c \in Nat /\ d \in Nat /\ l \in Nat /\ d + l <= c
      BY <1>2, <3>3
    <3>5. o[j] = a + (c - b) /\ o[j - 1] = a + (d - b)
      BY <3>2
    <3> HIDE DEF a, b, c, d, l
    <3>6. (a + (d - b)) + l <= a + (c - b)
      BY <3>4
    <3> QED
      BY <3>5, <3>6 DEF l
  <2> QED
    BY <1>1, <2>1, <2>2
<1>9. ASSUME NEW i \in 0 .. Len(v), NEW j \in 0 .. Len(v), i <= j PROVE o[i] <= o[j]
  <2>1. CASE j <= Len(s)
    <3>1. i \in 0 .. Len(s) /\ j \in 0 .. Len(s)
      BY <1>1, <1>9, <2>1
    <3> QED
      BY <1>4, <1>9, <3>1 DEF Climbs
  <2>2. CASE i <= Len(s) /\ Len(s) <= j
    <3>1. i \in 0 .. Len(s)
      BY <1>1, <2>2
    <3>2. o[i] = p[i] /\ p[i] \in Nat /\ p[i] <= p[Len(s)]
      BY <1>2, <1>4, <3>1
    <3>3. o[j] = Above(j) /\ Above(j) \in Nat /\ p[Len(s)] <= Above(j)
      BY <1>3, <1>6, <2>2
    <3> QED
      BY <1>2, <3>2, <3>3
  <2>3. CASE Len(s) <= i /\ Len(s) <= j
    <3>1. i - Len(s) \in 0 .. Len(t) /\ j - Len(s) \in 0 .. Len(t) /\ i - Len(s) <= j - Len(s)
      BY <1>1, <1>9, <2>3
    <3>2. q[i - Len(s)] <= q[j - Len(s)] /\ q[i - Len(s)] \in Nat /\ q[j - Len(s)] \in Nat
      BY <1>2, <3>1 DEF Climbs
    <3>3. o[i] = Above(i) /\ o[j] = Above(j)
      BY <1>6, <2>3
    <3> QED
      BY <1>2, <3>2, <3>3
  <2> QED
    BY <1>1, <1>9, <2>1, <2>2, <2>3
<1>10. Climbs(o, v)
  BY <1>7, <1>8, <1>9 DEF Climbs
<1>11. o[Len(v)] = p[Len(s)] + (q[Len(t)] - q[0])
  <2>1. Len(v) \in 0 .. Len(v) /\ Len(s) <= Len(v) /\ Len(v) - Len(s) = Len(t)
    BY <1>1
  <2> QED
    BY <1>6, <2>1
<1> QED
  BY <1>4, <1>10, <1>11 DEF v

\* A stream whose first message was taken still climbs.
LEMMA ClimbsTail ==
    ASSUME NEW S, NEW s \in Seq(S), s # <<>>, NEW p, Climbs(p, s)
    PROVE  \E q : Climbs(q, Tail(s)) /\ \A j \in 0 .. Len(Tail(s)) : q[j] = p[j + 1]
<1> DEFINE t == Tail(s)
           q == [j \in 0 .. Len(t) |-> p[j + 1]]
<1>1. /\ Len(t) = Len(s) - 1 /\ Len(t) \in Nat
      /\ \A i \in 1 .. Len(t) : i + 1 \in 1 .. Len(s) /\ t[i] = s[i + 1]
      /\ \A i \in 0 .. Len(t) : i + 1 \in 0 .. Len(s)
  OBVIOUS
<1>2. q \in [0 .. Len(t) -> Nat] /\ \A j \in 0 .. Len(t) : q[j] = p[j + 1]
  BY <1>1 DEF Climbs
<1> HIDE DEF t, q
<1>3. ASSUME NEW j \in 1 .. Len(t) PROVE q[j - 1] + MsgLen(t[j]) <= q[j]
  <2>1. j \in 0 .. Len(t) /\ j - 1 \in 0 .. Len(t) /\ (j - 1) + 1 = (j + 1) - 1
    BY <1>1
  <2>2. p[(j + 1) - 1] + MsgLen(s[j + 1]) <= p[j + 1]
    BY <1>1 DEF Climbs
  <2> QED
    BY <1>1, <1>2, <2>1, <2>2
<1>4. ASSUME NEW i \in 0 .. Len(t), NEW j \in 0 .. Len(t), i <= j PROVE q[i] <= q[j]
  <2>1. i + 1 \in 0 .. Len(s) /\ j + 1 \in 0 .. Len(s) /\ i + 1 <= j + 1
    BY <1>1, <1>4
  <2> QED
    BY <1>2, <2>1 DEF Climbs
<1>5. Climbs(q, t)
  BY <1>2, <1>3, <1>4 DEF Climbs
<1> QED
  BY <1>2, <1>5 DEF t

(***************************************************************************)
(* The account of one replica: w is what is on the wire to it and b what   *)
(* is in its Writer, f messages of it on the wire already, o the replica's *)
(* offset, x the master's less what goroutines have counted and not sent,  *)
(* lg the offsets of the writes, and M those that will not reach it.       *)
(***************************************************************************)
Books(p, q, w, b, f, o, x, lg, M) ==
    /\ Climbs(p, w) /\ Climbs(q, b)
    /\ o <= p[0]
    /\ p[Len(w)] + (q[Len(b)] - q[f]) <= x
    /\ \A j \in 1 .. Len(w) : IsWrite(w[j]) => p[j] <= lg[w[j].n]
    /\ \A i \in M : p[Len(w)] < lg[i]
Account(w, b, f, o, x, lg, M) == \E p, q : Books(p, q, w, b, f, o, x, lg, M)

\* What is in the Writer is not negative.
LEMMA InTheWriter ==
    ASSUME NEW S, NEW b \in Seq(S), NEW q, Climbs(q, b), NEW f \in 0 .. Len(b)
    PROVE  q[Len(b)] \in Nat /\ q[f] \in Nat /\ q[f] <= q[Len(b)]
BY Ceiling

\* The master counts more than it sends, and fewer writes are missing.
LEMMA AccountQuiet ==
    ASSUME NEW w \in Seq(Msg), NEW b \in Seq(Msg), NEW f \in 0 .. Len(b), NEW o \in Nat,
           NEW x \in Int, NEW y \in Int, x <= y, NEW lg, NEW M, NEW N, N \subseteq M,
           Account(w, b, f, o, x, lg, M)
    PROVE  Account(w, b, f, o, y, lg, N)
<1> PICK p, q : Books(p, q, w, b, f, o, x, lg, M)
  BY DEF Account
<1>1. Climbs(p, w) /\ Climbs(q, b)
  BY DEF Books
<1>2. p[Len(w)] \in Nat /\ q[Len(b)] \in Nat /\ q[f] \in Nat
  BY <1>1, Ceiling, InTheWriter
<1>3. p[Len(w)] + (q[Len(b)] - q[f]) <= y
  BY <1>2 DEF Books
<1>4. Books(p, q, w, b, f, o, y, lg, N)
  BY <1>3 DEF Books
<1> QED
  BY <1>4 DEF Account

\* A counted message goes into the Writer.
LEMMA AccountBuffers ==
    ASSUME NEW w \in Seq(Msg), NEW b \in Seq(Msg), NEW f \in 0 .. Len(b), NEW o \in Nat,
           NEW m \in Msg, NEW x \in Int, NEW y \in Int, x + MsgLen(m) <= y,
           NEW lg, NEW M, Account(w, b, f, o, x, lg, M)
    PROVE  Account(w, Append(b, m), f, o, y, lg, M)
<1> PICK p, q : Books(p, q, w, b, f, o, x, lg, M)
  BY DEF Account
<1>1. Climbs(p, w) /\ Climbs(q, b)
  BY DEF Books
<1>2. p[Len(w)] \in Nat /\ q[Len(b)] \in Nat /\ q[f] \in Nat /\ MsgLen(m) \in Nat
  BY <1>1, Ceiling, InTheWriter, Lengths
<1>3. PICK u : /\ Climbs(u, Append(b, m)) /\ \A j \in 0 .. Len(b) : u[j] = q[j]
               /\ u[Len(b) + 1] = q[Len(b)] + MsgLen(m)
  BY <1>1, ClimbsAppend
<1>4. u[Len(Append(b, m))] = q[Len(b)] + MsgLen(m) /\ u[f] = q[f]
  BY <1>3
<1>5. p[Len(w)] + (u[Len(Append(b, m))] - u[f]) <= y
  <2>1. p[Len(w)] + (q[Len(b)] - q[f]) <= x
    BY DEF Books
  <2>2. p[Len(w)] + ((q[Len(b)] + MsgLen(m)) - q[f]) <= y
    BY <1>2, <2>1, SMTT(30)
  <2> QED
    BY <1>4, <2>2
<1>6. Books(p, u, w, Append(b, m), f, o, y, lg, M)
  BY <1>3, <1>5 DEF Books
<1> QED
  BY <1>6 DEF Account

\* A counted message goes on the wire, at a time when no write is missing: a
\* write with the offset that the master then has.
LEMMA AccountPuts ==
    ASSUME NEW w \in Seq(Msg), NEW b \in Seq(Msg), NEW f \in 0 .. Len(b), NEW o \in Nat,
           NEW m \in Msg, NEW x \in Int, NEW y \in Int, x + MsgLen(m) <= y,
           NEW lg, NEW k, NEW M, Account(w, b, f, o, x, lg, M),
           \A j \in 1 .. Len(w) : IsWrite(w[j]) => k[w[j].n] = lg[w[j].n],
           IsWrite(m) => k[m.n] \in Nat /\ x + MsgLen(m) <= k[m.n]
    PROVE  Account(Append(w, m), b, f, o, y, k, {})
<1> PICK p, q : Books(p, q, w, b, f, o, x, lg, M)
  BY DEF Account
<1>1. Climbs(p, w) /\ Climbs(q, b)
  BY DEF Books
<1>2. /\ p[Len(w)] \in Nat /\ q[Len(b)] \in Nat /\ q[f] \in Nat /\ q[f] <= q[Len(b)]
      /\ MsgLen(m) \in Nat
  BY <1>1, Ceiling, InTheWriter, Lengths
<1> DEFINE v == Append(w, m)
<1>3. PICK u : /\ Climbs(u, v) /\ \A j \in 0 .. Len(w) : u[j] = p[j]
               /\ u[Len(w) + 1] = p[Len(w)] + MsgLen(m)
  BY <1>1, ClimbsAppend
<1>4. /\ Len(v) = Len(w) + 1 /\ v[Len(w) + 1] = m
      /\ 0 \in 0 .. Len(w)
      /\ \A j \in 1 .. Len(w) : v[j] = w[j] /\ j \in 0 .. Len(w)
      /\ \A j \in 1 .. Len(v) : j \in 1 .. Len(w) \/ j = Len(w) + 1
  OBVIOUS
<1> HIDE DEF v
<1>5. o <= u[0] /\ u[Len(v)] = p[Len(w)] + MsgLen(m)
  BY <1>3, <1>4 DEF Books
<1>6. u[Len(v)] + (q[Len(b)] - q[f]) <= y
  <2>1. p[Len(w)] + (q[Len(b)] - q[f]) <= x
    BY DEF Books
  <2> QED
    BY <1>2, <1>5, <2>1, SMTT(30)
<1>7. p[Len(w)] <= x
  BY <1>2 DEF Books
<1>8. ASSUME NEW j \in 1 .. Len(v), IsWrite(v[j]) PROVE u[j] <= k[v[j].n]
  <2>1. CASE j \in 1 .. Len(w)
    BY <1>3, <1>4, <1>8, <2>1 DEF Books
  <2>2. CASE j = Len(w) + 1
    <3>1. u[j] = p[Len(w)] + MsgLen(m) /\ v[j] = m /\ k[m.n] \in Nat /\ x + MsgLen(m) <= k[m.n]
      BY <1>3, <1>4, <1>8, <2>2
    <3> QED
      BY <1>2, <1>7, <3>1, SMTT(30)
  <2> QED
    BY <1>4, <2>1, <2>2
<1>9. Books(u, q, v, b, f, o, y, k, {})
  BY <1>1, <1>3, <1>5, <1>6, <1>8 DEF Books
<1> QED
  BY <1>9 DEF Account, v

\* The log grows by a write that is not sent.
SameLog(lg, k, w, M) ==
    /\ \A j \in 1 .. Len(w) : IsWrite(w[j]) => k[w[j].n] = lg[w[j].n]
    /\ \A i \in M : k[i] = lg[i]
Beyond(x, k, M, N) == \A i \in N : i \in M \/ (k[i] \in Nat /\ x < k[i])

\* An account still holds when the master has counted more and the replica
\* misses no other writes than before.
LEMMA AccountMisses ==
    ASSUME NEW w \in Seq(Msg), NEW b \in Seq(Msg), NEW f \in 0 .. Len(b), NEW o \in Nat,
           NEW x \in Int, NEW y \in Int, x <= y, NEW lg, NEW k, NEW M, NEW N,
           Account(w, b, f, o, x, lg, M), SameLog(lg, k, w, M), Beyond(x, k, M, N)
    PROVE  Account(w, b, f, o, y, k, N)
<1> PICK p, q : Books(p, q, w, b, f, o, x, lg, M)
  BY DEF Account
<1>1. Climbs(p, w) /\ Climbs(q, b)
  BY DEF Books
<1>2. p[Len(w)] \in Nat /\ q[Len(b)] \in Nat /\ q[f] \in Nat /\ q[f] <= q[Len(b)]
  BY <1>1, Ceiling, InTheWriter
<1>3. p[Len(w)] + (q[Len(b)] - q[f]) <= y /\ p[Len(w)] <= x
  BY <1>2 DEF Books
<1>4. \A i \in N : p[Len(w)] < k[i]
  BY <1>2, <1>3 DEF Books, SameLog, Beyond
<1>5. Books(p, q, w, b, f, o, y, k, N)
  BY <1>3, <1>4 DEF Books, SameLog
<1> QED
  BY <1>5 DEF Account

\* The Writer is flushed for the first time since it was empty.
LEMMA AccountFlushes ==
    ASSUME NEW w \in Seq(Msg), NEW b \in Seq(Msg), NEW o \in Nat, NEW x \in Int, NEW lg, NEW M,
           Replies(b), Account(w, b, 0, o, x, lg, M)
    PROVE  Account(w \o b, b, Len(b), o, x, lg, {})
<1> PICK p, q : Books(p, q, w, b, 0, o, x, lg, M)
  BY DEF Account
<1>1. Climbs(p, w) /\ Climbs(q, b)
  BY DEF Books
<1>2. p[Len(w)] \in Nat /\ q[Len(b)] \in Nat /\ q[0] \in Nat
  BY <1>1, Ceiling
<1> DEFINE v == w \o b
<1>3. PICK u : /\ Climbs(u, v) /\ \A j \in 0 .. Len(w) : u[j] = p[j]
               /\ u[Len(v)] = p[Len(w)] + (q[Len(b)] - q[0])
  BY <1>1, ClimbsConcat
<1>4. /\ 0 \in 0 .. Len(w)
      /\ \A j \in 1 .. Len(w) : v[j] = w[j] /\ j \in 0 .. Len(w)
      /\ \A j \in 1 .. Len(v) : j \in 1 .. Len(w) \/ (j - Len(w) \in 1 .. Len(b) /\ v[j] = b[j - Len(w)])
  BY Concat
<1> HIDE DEF v
<1>5. o <= u[0] /\ u[Len(v)] + (q[Len(b)] - q[Len(b)]) <= x
  BY <1>2, <1>3, <1>4 DEF Books
<1>6. ASSUME NEW j \in 1 .. Len(v), IsWrite(v[j]) PROVE u[j] <= lg[v[j].n]
  <2>1. j \in 1 .. Len(w)
    BY <1>4, <1>6 DEF Replies, Lacks, IsWrite
  <2> QED
    BY <1>3, <1>4, <1>6, <2>1 DEF Books
<1>7. Books(u, q, v, b, Len(b), o, x, lg, {})
  BY <1>1, <1>3, <1>5, <1>6 DEF Books
<1> QED
  BY <1>7 DEF Account, v

\* ... into a connection that is broken, or it is emptied.
LEMMA AccountDrops ==
    ASSUME NEW w \in Seq(Msg), NEW b \in Seq(Msg), NEW f \in 0 .. Len(b), NEW o \in Nat,
           NEW x \in Int, NEW lg, NEW M, Account(w, b, f, o, x, lg, M)
    PROVE  Account(w, b, Len(b), o, x, lg, M) /\ Account(w, <<>>, 0, o, x, lg, M)
<1> PICK p, q : Books(p, q, w, b, f, o, x, lg, M)
  BY DEF Account
<1>1. Climbs(p, w) /\ Climbs(q, b)
  BY DEF Books
<1>2. p[Len(w)] \in Nat /\ q[Len(b)] \in Nat /\ q[f] \in Nat /\ q[f] <= q[Len(b)]
  BY <1>1, Ceiling, InTheWriter
<1>3. p[Len(w)] + (q[Len(b)] - q[Len(b)]) <= x /\ p[Len(w)] + (0 - 0) <= x
  BY <1>2 DEF Books
<1>4. Books(p, q, w, b, Len(b), o, x, lg, M)
  BY <1>3 DEF Books
<1>5. PICK u : Climbs(u, <<>>) /\ u[0] = 0
  BY ClimbsEmpty
<1>6. Books(p, u, w, <<>>, 0, o, x, lg, M)
  <2>1. u[Len(<<>>)] = 0
    BY <1>5
  <2>2. p[Len(w)] + (u[Len(<<>>)] - u[0]) <= x
    BY <1>3, <1>5, <2>1
  <2> QED
    BY <1>5, <2>2 DEF Books
<1> QED
  BY <1>4, <1>6 DEF Account

\* The replica reads a message and counts it, or not.
LEMMA AccountReads ==
    ASSUME NEW w \in Seq(Msg), w # <<>>, NEW b, NEW f, NEW o \in Nat, NEW n \in Nat,
           n <= o + MsgLen(Head(w)), NEW x, NEW lg, NEW M, NEW N, N \subseteq M,
           Account(w, b, f, o, x, lg, M)
    PROVE  Account(Tail(w), b, f, n, x, lg, N)
<1> PICK p, q : Books(p, q, w, b, f, o, x, lg, M)
  BY DEF Account
<1>1. Climbs(p, w) /\ Climbs(q, b)
  BY DEF Books
<1> DEFINE v == Tail(w)
<1>2. PICK u : Climbs(u, v) /\ \A j \in 0 .. Len(v) : u[j] = p[j + 1]
  BY <1>1, ClimbsTail
<1>3. /\ Len(v) + 1 = Len(w) /\ 0 \in 0 .. Len(v) /\ Len(v) \in 0 .. Len(v)
      /\ 1 \in 1 .. Len(w) /\ Head(w) = w[1]
      /\ \A j \in 1 .. Len(v) : j \in 0 .. Len(v) /\ j + 1 \in 1 .. Len(w) /\ v[j] = w[j + 1]
  OBVIOUS
<1> HIDE DEF v
<1>4. u[0] = p[1] /\ u[Len(v)] = p[Len(w)]
  BY <1>2, <1>3
<1>5. n <= u[0]
  <2>1. p[0] \in Nat /\ p[1] \in Nat /\ p[0] + MsgLen(Head(w)) <= p[1] /\ MsgLen(Head(w)) \in Nat
    BY <1>1, <1>3, Ceiling, Lengths, SMTT(30)
  <2>2. o <= p[0]
    BY DEF Books
  <2> QED
    BY <1>4, <2>1, <2>2
<1>6. \A j \in 1 .. Len(v) : IsWrite(v[j]) => u[j] <= lg[v[j].n]
  BY <1>2, <1>3 DEF Books
<1>7. Books(u, q, v, b, f, n, x, lg, N)
  BY <1>1, <1>2, <1>4, <1>5, <1>6 DEF Books
<1> QED
  BY <1>7 DEF Account, v

\* The connection ends, and the writes on the wire will not reach the replica.
LEMMA AccountCuts ==
    ASSUME NEW w \in Seq(Msg), NEW b \in Seq(Msg), NEW f \in 0 .. Len(b), NEW o \in Nat,
           NEW x \in Int, NEW lg, NEW M, NEW N, Account(w, b, f, o, x, lg, M),
           \A j \in 1 .. Len(w) : IsWrite(w[j]) => lg[w[j].n] \in Nat,
           \A i \in M : lg[i] \in Nat,
           \A i \in N : i \in M \/ OnWire(w, i)
    PROVE  Account(<<>>, b, f, o, x, lg, N)
<1> PICK p, q : Books(p, q, w, b, f, o, x, lg, M)
  BY DEF Account
<1>1. Climbs(p, w) /\ Climbs(q, b)
  BY DEF Books
<1>2. /\ p[0] \in Nat /\ p[Len(w)] \in Nat /\ p[0] <= p[Len(w)]
      /\ q[Len(b)] \in Nat /\ q[f] \in Nat
  BY <1>1, Ceiling, InTheWriter
<1>3. PICK u : Climbs(u, <<>>) /\ u[0] = p[0]
  BY <1>2, ClimbsEmpty
<1>4. u[Len(<<>>)] = p[0]
  BY <1>3
<1>5. u[Len(<<>>)] + (q[Len(b)] - q[f]) <= x
  BY <1>2, <1>4 DEF Books
<1>6. ASSUME NEW i \in N PROVE p[0] < lg[i]
  <2>1. CASE i \in M
    BY <1>2, <2>1 DEF Books
  <2>2. CASE OnWire(w, i)
    <3>1. PICK j \in 1 .. Len(w) : IsWrite(w[j]) /\ w[j].n = i
      BY <2>2 DEF OnWire
    <3>2. /\ p[j] \in Nat /\ p[j - 1] \in Nat /\ p[0] <= p[j - 1] /\ p[j - 1] + WriteLen <= p[j]
          /\ WriteLen \in Nat /\ WriteLen > 0
      BY <1>1, <3>1, Ceiling, Lengths DEF IsWrite
    <3>3. lg[i] \in Nat /\ p[j] <= lg[i]
      BY <3>1 DEF Books
    <3> DEFINE a == p[0]
               c == p[j - 1]
               d == p[j]
               e == lg[i]
    <3>4. /\ a \in Nat /\ c \in Nat /\ d \in Nat /\ e \in Nat
          /\ a <= c /\ c + WriteLen <= d /\ d <= e
      BY <1>2, <3>2, <3>3
    <3> HIDE DEF a, c, d, e
    <3>5. a < e
      BY <3>4, Lengths
    <3> QED
      BY <3>5 DEF a, e
  <2> QED
    BY <2>1, <2>2
<1>7. \A j \in 1 .. Len(<<>>) : FALSE
  OBVIOUS
<1>8. Books(u, q, <<>>, b, f, o, x, lg, N)
  BY <1>1, <1>3, <1>4, <1>5, <1>6, <1>7 DEF Books
<1> QED
  BY <1>8 DEF Account

(***************************************************************************)
(* What the master has counted for a replica and not left to a goroutine   *)
(* only grows.                                                             *)
(***************************************************************************)
Credit(r) == offset - (GetAckLen * getters[r] + PingLen * pinging[r])

\* The types of the counters of one replica.
LEMMA CountsAt ==
    ASSUME TypeOK, NEW r \in Replicas
    PROVE  /\ offset \in Nat /\ getters[r] \in Nat /\ pinging[r] \in Nat /\ flushed[r] \in Nat
           /\ acked[r] \in Nat /\ doubled[r] \in BOOLEAN /\ Credit(r) \in Int /\ Credit(r) <= offset
<1>1. /\ offset \in Nat /\ getters[r] \in Nat /\ pinging[r] \in Nat /\ flushed[r] \in Nat
      /\ acked[r] \in Nat /\ doubled[r] \in BOOLEAN
  BY DEF TypeOK
<1> QED
  BY <1>1 DEF Credit, GetAckLen, PingLen

\* The steps that may change what the master has counted.
LEMMA CreditKept ==
    ASSUME [Next]_vars
    PROVE  \/ UNCHANGED <<offset, getters, pinging>>
           \/ (\E c \in Clients : Write(c)) \/ (GetAckRound /\ UNCHANGED pinging)
           \/ \E r \in Replicas : GetAckWrite(r) \/ PingCount(r) \/ PingWrite(r)
<1> USE DEF masterVars, goVars, flushVars, connVars, handshakeVars, replicaVars
<1>1. ASSUME NEW c \in Clients, StartWait(c) PROVE GetAckRound /\ UNCHANGED pinging
  BY <1>1 DEF StartWait
<1>2. ASSUME NEW c \in Clients, Waiting(c) PROVE UNCHANGED <<offset, getters, pinging>>
  BY <1>2 DEF Waiting, WaitRead, WaitAcked, WaitTimeout, WaitVarsKept
<1>3. ASSUME XAdd \/ PingTick \/ UNCHANGED vars PROVE UNCHANGED <<offset, getters, pinging>>
  BY <1>3 DEF XAdd, PingTick, vars
<1>4. ASSUME GetAckTick PROVE GetAckRound /\ UNCHANGED pinging
  BY <1>4 DEF GetAckTick
<1>5. ASSUME NEW r \in Replicas, Loop(r) PROVE UNCHANGED <<offset, getters, pinging>>
  BY <1>5 DEF Loop, HandlePing, HandlePort, HandleAck, HandlePsync, SendSnapshot, LoopFlush, LoopReset
<1>6. ASSUME NEW r \in Replicas, Goroutines(r)
      PROVE  GetAckWrite(r) \/ PingCount(r) \/ PingWrite(r) \/ UNCHANGED <<offset, getters, pinging>>
  BY <1>6 DEF Goroutines, Flush, FlushEnd
<1>7. ASSUME NEW r \in Replicas, Handshake(r) PROVE UNCHANGED <<offset, getters, pinging>>
  BY <1>7 DEF Handshake, SendRequest, QueueRequest, CheckResponse, HandshakeTimeout
<1>8. ASSUME NEW r \in Replicas, Link(r) PROVE UNCHANGED <<offset, getters, pinging>>
  BY <1>8 DEF Link, ReadAnswer, ReadWrite, ReadGetAck, ReadPing, LoadSnapshot, LoadRefused,
     ReadStrayRdb, ReadSwallowed, ReadEof, LinkKept
<1>9. ASSUME NEW r \in Replicas, Break(r) PROVE UNCHANGED <<offset, getters, pinging>>
  BY <1>9 DEF Break
<1> QED
  BY <1>1, <1>2, <1>3, <1>4, <1>5, <1>6, <1>7, <1>8, <1>9 DEF Next

\* The credit of a replica never shrinks, and grows by the length of what is
\* written to it.
LEMMA CreditGrows ==
    ASSUME TypeOK, [Next]_vars, NEW r \in Replicas
    PROVE  /\ Credit(r)' \in Int /\ Credit(r) <= Credit(r)' /\ offset <= offset'
           /\ GetAckWrite(r) => Credit(r)' = Credit(r) + GetAckLen
           /\ PingWrite(r) => Credit(r)' = Credit(r) + PingLen
           /\ \A c \in Clients : Write(c) => Credit(r)' = Credit(r) + WriteLen
<1> USE DEF masterVars, goVars, flushVars, connVars, handshakeVars, replicaVars
<1> DEFINE o == offset
           g == getters[r]
           n == pinging[r]
           Same == o' = o /\ g' = g /\ n' = n
<1>0. o \in Nat /\ g \in Nat /\ n \in Nat /\ WriteLen \in Nat
  BY CountsAt, Lengths
<1>d. DOMAIN getters = Replicas /\ DOMAIN pinging = Replicas
  BY DEF TypeOK
<1>1. ASSUME NEW c \in Clients, Write(c) PROVE o' = o + WriteLen /\ g' = g /\ n' = n
  BY <1>1 DEF Write
<1>2. ASSUME GetAckRound, UNCHANGED pinging PROVE o' = o + GetAckLen /\ (g' = g \/ g' = g + 1) /\ n' = n
  BY <1>0, <1>2, <1>d DEF GetAckRound
<1>3. ASSUME GetAckWrite(r) PROVE o' = o /\ g' = g - 1 /\ n' = n
  BY <1>3, <1>d DEF GetAckWrite
<1>4. ASSUME PingCount(r) PROVE o' = o + PingLen /\ g' = g /\ n' = n + 1
  BY <1>4, <1>d DEF PingCount
<1>5. ASSUME PingWrite(r) PROVE o' = o /\ g' = g /\ n' = n - 1
  BY <1>5, <1>d DEF PingWrite
<1>6. ASSUME NEW q \in Replicas, q # r, GetAckWrite(q) \/ PingCount(q) \/ PingWrite(q)
      PROVE  (o' = o \/ o' = o + PingLen) /\ g' = g /\ n' = n
  BY <1>6, <1>d DEF GetAckWrite, PingCount, PingWrite
<1>7. \/ Same
      \/ o' = o + WriteLen /\ g' = g /\ n' = n
      \/ o' = o + GetAckLen /\ (g' = g \/ g' = g + 1) /\ n' = n
      \/ o' = o /\ g' = g - 1 /\ n' = n
      \/ o' = o + PingLen /\ g' = g /\ n' = n + 1
      \/ o' = o /\ g' = g /\ n' = n - 1
      \/ o' = o + PingLen /\ g' = g /\ n' = n
  <2>1. ASSUME NEW q \in Replicas, GetAckWrite(q) \/ PingCount(q) \/ PingWrite(q)
        PROVE  \/ Same
               \/ o' = o /\ g' = g - 1 /\ n' = n
               \/ o' = o + PingLen /\ g' = g /\ n' = n + 1
               \/ o' = o /\ g' = g /\ n' = n - 1
               \/ o' = o + PingLen /\ g' = g /\ n' = n
    BY <2>1, <1>3, <1>4, <1>5, <1>6
  <2> QED
    BY <1>1, <1>2, <2>1, CreditKept
<1>8. /\ Credit(r) = o - (37 * g + 14 * n)
      /\ Credit(r)' = o' - (37 * g' + 14 * n')
  BY DEF Credit, GetAckLen, PingLen
<1>9. GetAckLen = 37 /\ PingLen = 14
  BY DEF GetAckLen, PingLen
<1> HIDE DEF o, g, n
<1>10. Credit(r)' \in Int /\ Credit(r) <= Credit(r)' /\ o <= o'
  BY <1>0, <1>7, <1>8, <1>9
<1>11. /\ o' = o /\ g' = g - 1 /\ n' = n => Credit(r)' = Credit(r) + GetAckLen
       /\ o' = o /\ g' = g /\ n' = n - 1 => Credit(r)' = Credit(r) + PingLen
       /\ o' = o + WriteLen /\ g' = g /\ n' = n => Credit(r)' = Credit(r) + WriteLen
  BY <1>0, <1>8, <1>9
<1> QED
  BY <1>1, <1>3, <1>5, <1>10, <1>11 DEF o

(***************************************************************************)
(* The writes of the log that a registered replica will not get.           *)
(***************************************************************************)
ThereFor(r, i) == There(wire[r], base[r], applied[r], synced[r], i)
Missing(r) == {i \in 1 .. Len(log) : r \in replicas /\ ~ThereFor(r, i)}

\* A connection that is up misses none.
LEMMA NoneMissing ==
    ASSUME NEW r, StreamInv(r), ~down[r]
    PROVE  Missing(r) = {}
BY DEF StreamInv, Covered, Missing, ThereFor

\* Reading, executing and loading loses none, and so does anything that is put
\* on the wire.
LEMMA StaysThere ==
    ASSUME TypeOK, [Next]_vars, NEW r \in Replicas, HandshakeInv(r), StreamInv(r), ~Cuts(r),
           NEW i \in 1 .. Len(log), ThereFor(r, i)
    PROVE  ThereFor(r, i)'
<1> DEFINE w == wire[r]
           L == Len(log)
<1>t. /\ w \in Seq(Msg) /\ base[r] \in Nat /\ applied[r] \in Seq(Nat) /\ synced[r] \in BOOLEAN
      /\ L \in Nat
  BY TypesAt
<1>t2. synced'[r] \in BOOLEAN
  <2>1. TypeOK'
    BY TypeStep
  <2> QED
    BY <2>1 DEF TypeOK
<1>h. OneRdb(w) /\ (synced[r] => Lacks(w, "rdb"))
  BY DEF HandshakeInv, AfterSnapshot
<1>s. /\ StreamOK(w, base[r], applied[r], synced[r], L)
      /\ There(w, base[r], applied[r], synced[r], i)
  BY DEF StreamInv, ThereFor
<1>1. CASE Adds(r)
  <2>1. CASE wire'[r] = w
    BY <1>1, <1>s, <2>1 DEF Adds, StoreKept, ThereFor
  <2>2. ASSUME NEW t \in Seq(Msg), Replies(t), wire'[r] = w \o t PROVE ThereFor(r, i)'
    <3>1. There(w \o t, base[r], applied[r], synced[r], i)
      BY <1>t, <1>s, <2>2, StreamAdds
    <3> QED
      BY <1>1, <2>2, <3>1 DEF Adds, StoreKept, ThereFor
  <2> QED
    BY <1>1, <2>1, <2>2 DEF Adds
<1>2. CASE Snaps(r) \/ Sends(r) \/ Registers(r)
  <2> DEFINE m == [kind |-> "rdb", n |-> L]
             k == [kind |-> "write", n |-> L + 1]
  <2>1. /\ m \in Msg /\ m.kind = "rdb" /\ m.n = L /\ k \in Msg /\ k.kind = "write"
    BY <1>t, Messages DEF Kinds
  <2>2. wire'[r] = w \/ (wire'[r] = w \o <<m>> /\ ~synced[r]) \/ wire'[r] = Append(w, k)
    BY <1>2 DEF Snaps, Sends, Registers
  <2>3. StoreKept(r)
    BY <1>2 DEF Snaps, Sends, Registers
  <2> HIDE DEF m, k
  <2>4. CASE wire'[r] = w
    BY <1>s, <2>3, <2>4 DEF StoreKept, ThereFor
  <2>5. ASSUME NEW v \in Seq(Msg), NEW x \in Msg, wire'[r] = v,
               Len(v) = Len(w) + 1, v[Len(w) + 1] = x, \A j \in 1 .. Len(w) : v[j] = w[j],
               IsRdb(x) => x.n = L /\ ~synced[r]
        PROVE  ThereFor(r, i)'
    <3>1. Len(w) \in Nat /\ \A j \in 1 .. Len(v) : j \in 1 .. Len(w) \/ j = Len(w) + 1
      BY <1>t, <2>5
    <3>2. \A j \in 1 .. Len(w) : j \in 1 .. Len(v)
      BY <2>5, <3>1
    <3>3. OnWire(w, i) => OnWire(v, i)
      BY <2>5, <3>2 DEF OnWire
    <3>4. InRdb(w, i) => InRdb(v, i)
      BY <1>t, <2>5, <3>1 DEF InRdb
    <3>5. There(v, base[r], applied[r], synced[r], i)
      BY <1>s, <3>3, <3>4 DEF There, Settled
    <3> QED
      BY <2>3, <2>5, <3>5 DEF StoreKept, ThereFor
  <2>6. CASE wire'[r] = w \o <<m>> /\ ~synced[r]
    <3>1. /\ w \o <<m>> \in Seq(Msg) /\ Len(w \o <<m>>) = Len(w) + 1 /\ (w \o <<m>>)[Len(w) + 1] = m
          /\ \A j \in 1 .. Len(w) : (w \o <<m>>)[j] = w[j]
      BY <1>t, <2>1
    <3> QED
      BY <2>1, <2>5, <2>6, <3>1
  <2>7. CASE wire'[r] = Append(w, k)
    <3>1. /\ Append(w, k) \in Seq(Msg) /\ Len(Append(w, k)) = Len(w) + 1 /\ Append(w, k)[Len(w) + 1] = k
          /\ \A j \in 1 .. Len(w) : Append(w, k)[j] = w[j]
          /\ ~IsRdb(k)
      BY <1>t, <2>1 DEF IsRdb
    <3> QED
      BY <2>1, <2>5, <2>7, <3>1
  <2> QED
    BY <2>2, <2>4, <2>6, <2>7
<1>3. CASE Skips(r)
  <2>1. There(Tail(w), base[r], applied[r], synced[r], i)
    BY <1>3, <1>t, <1>h, <1>s, StreamSkips DEF Skips, Reads
  <2> QED
    BY <1>3, <2>1 DEF Skips, Reads, StoreKept, ThereFor
<1>4. CASE Executes(r)
  <2>1. There(Tail(w), base[r], Append(applied[r], Head(w).n), synced[r], i)
    BY <1>4, <1>t, <1>s, StreamExecutes DEF Executes, Reads
  <2> QED
    BY <1>4, <2>1 DEF Executes, Reads, ThereFor
<1>5. CASE Loads(r)
  <2>1. StreamOK(w, base[r], applied[r], FALSE, L) /\ There(w, base[r], applied[r], FALSE, i)
    BY <1>5, <1>s, <1>t DEF Loads
  <2>2. applied'[r] = <<>> /\ There(Tail(w), Head(w).n, <<>>, TRUE, i)
    BY <1>5, <1>t, <2>1, StreamLoads DEF Loads, Reads
  <2>3. synced'[r] = TRUE
    BY <1>5, <1>t2 DEF Loads
  <2> QED
    BY <1>5, <2>2, <2>3 DEF Loads, Reads, ThereFor
<1> QED
  BY <1>1, <1>2, <1>3, <1>4, <1>5, Effects

\* What is missing after a step was missing before, or was on the wire of a
\* connection that ends.
LEMMA MissingStep ==
    ASSUME TypeOK, [Next]_vars, NEW r \in Replicas, HandshakeInv(r), StreamInv(r), log' = log,
           NEW i \in Missing(r)'
    PROVE  i \in Missing(r) \/ (Cuts(r) /\ OnWire(wire[r], i))
<1>1. i \in 1 .. Len(log) /\ r \in replicas' /\ ~ThereFor(r, i)'
  BY DEF Missing
<1>2. CASE ~Registers(r) /\ ~Cuts(r)
  <2>1. r \in replicas
    BY <1>1, <1>2, Effects DEF Adds, Snaps, Sends, Skips, Executes, Loads, Reads, Stays
  <2>2. ~ThereFor(r, i)
    BY <1>1, <1>2, StaysThere
  <2> QED
    BY <1>1, <2>1, <2>2 DEF Missing
<1>3. CASE Registers(r)
  <2>1. There(wire[r], base[r], applied[r], FALSE, i)
    BY <1>3 DEF Registers, There, Settled, InRdb, Lacks, IsRdb
  <2>2. synced[r] = FALSE
    BY <1>3, TypesAt DEF Registers
  <2>3. ThereFor(r, i)'
    BY <1>3, <2>1, <2>2 DEF Registers, StoreKept, ThereFor
  <2> QED
    BY <1>1, <2>3
<1>4. CASE Cuts(r)
  <2>1. r \in replicas
    BY <1>1, <1>4 DEF Cuts, Stays
  <2>2. \A n : InRdb(<<>>, n)
    BY DEF InRdb
  <2>3. ~Settled(wire[r], base[r], applied[r], synced[r], i)
    BY <1>1, <1>4, <2>2 DEF Cuts, StoreKept, ThereFor, There, Settled
  <2> QED
    BY <1>1, <1>4, <2>1, <2>3 DEF Missing, ThereFor, There
<1> QED
  BY <1>2, <1>3, <1>4

\* A write is missing if it is not sent.
LEMMA MissingWrite ==
    ASSUME TypeOK, [Next]_vars, NEW r \in Replicas, HandshakeInv(r), StreamInv(r), Sends(r),
           NEW i \in Missing(r)'
    PROVE  i \in Missing(r) \/ i = Len(log) + 1
<1>1. i \in 1 .. Len(log) + 1 /\ r \in replicas' /\ ~ThereFor(r, i)' /\ Len(log) \in Nat
  BY TypesAt DEF Missing, Sends
<1>2. CASE i \in 1 .. Len(log)
  <2>1. r \in replicas /\ ~Cuts(r)
    <3>1. ASSUME log' = log PROVE FALSE
      BY <1>1, <3>1 DEF Sends
    <3> QED
      BY <1>1, <3>1 DEF Sends, Stays, Cuts
  <2> QED
    BY <1>1, <1>2, <2>1, StaysThere DEF Missing
<1> QED
  BY <1>1, <1>2

(***************************************************************************)
(* The invariant of the offsets.                                           *)
(***************************************************************************)
\* What a replica has acknowledged or will is no more than it has counted, and
\* that is within its account, unless two flushes have overlapped.
OffsetInv(r) ==
    /\ flushed[r] <= Len(wbuf[r])
    /\ acked[r] <= roff[r] /\ \A j \in 1 .. Len(up[r]) : up[r][j].n <= roff[r]
    /\ ~doubled[r] =>
         Account(wire[r], wbuf[r], flushed[r], roff[r], Credit(r), log, Missing(r))

\* What the steps of the system do to the account of one replica.
SameBuffer(r) == wbuf'[r] = wbuf[r] /\ flushed'[r] = flushed[r]
Rests(r) == log' = log /\ doubled'[r] = doubled[r] /\ wire'[r] = wire[r] /\ roff'[r] = roff[r]
Quiet(r) == Rests(r) /\ SameBuffer(r)
Buffers(r) ==
    /\ Rests(r) /\ flushed'[r] = flushed[r]
    /\ \E m \in Msg : wbuf'[r] = Append(wbuf[r], m) /\ Credit(r) + MsgLen(m) <= Credit(r)'
Puts(r) ==
    /\ log' = log /\ doubled'[r] = doubled[r] /\ roff'[r] = roff[r] /\ SameBuffer(r) /\ ~down'[r]
    /\ \E m \in Msg : /\ wire'[r] = Append(wire[r], m) /\ ~IsWrite(m)
                      /\ Credit(r) + MsgLen(m) <= Credit(r)'
Flushes(r) ==
    /\ log' = log /\ roff'[r] = roff[r] /\ wbuf'[r] = wbuf[r] /\ flushed'[r] = Len(wbuf[r])
    /\ ~doubled'[r] => ~doubled[r] /\ flushed[r] = 0
    /\ wire'[r] = wire[r] \/ (wire'[r] = wire[r] \o wbuf[r] /\ ~down'[r])
Empties(r) == Rests(r) /\ wbuf'[r] = <<>> /\ flushed'[r] = 0
Takes(r) ==
    /\ Reads(r) /\ doubled'[r] = doubled[r] /\ SameBuffer(r)
    /\ roff[r] <= roff'[r] /\ roff'[r] <= roff[r] + MsgLen(Head(wire[r]))
Ends(r) == Cuts(r) /\ doubled'[r] = doubled[r] /\ SameBuffer(r) /\ roff'[r] = roff[r]

\* Every effect that a step can have on a connection keeps its account.
LEMMA AccountStep ==
    ASSUME TypeOK, [Next]_vars, NEW r \in Replicas, HandshakeInv(r), StreamInv(r), OffsetInv(r),
           \/ Quiet(r) \/ Buffers(r) \/ Puts(r) \/ Flushes(r) \/ Empties(r) \/ Takes(r) \/ Ends(r)
    PROVE  /\ flushed'[r] <= Len(wbuf'[r]) /\ roff[r] <= roff'[r]
           /\ ~doubled'[r] =>
                Account(wire'[r], wbuf'[r], flushed'[r], roff'[r], Credit(r)', log', Missing(r)')
<1> DEFINE w == wire[r]
           b == wbuf[r]
           f == flushed[r]
           o == roff[r]
           x == Credit(r)
           M == Missing(r)
           y == Credit(r)'
           N == Missing(r)'
           Goal == /\ flushed'[r] <= Len(wbuf'[r]) /\ roff[r] <= roff'[r]
                   /\ ~doubled'[r] => Account(wire'[r], wbuf'[r], flushed'[r], roff'[r], y, log', N)
<1>t. /\ w \in Seq(Msg) /\ b \in Seq(Msg) /\ o \in Nat /\ x \in Int /\ y \in Int /\ x <= y
      /\ f \in 0 .. Len(b) /\ Len(b) \in Nat
  <2>1. f \in Nat /\ f <= Len(b)
    BY CountsAt DEF OffsetInv
  <2> QED
    BY <2>1, TypesAt, CountsAt, CreditGrows
<1>a. ~doubled[r] => Account(w, b, f, o, x, log, M)
  BY DEF OffsetInv
<1>m. ASSUME log' = log, ~Cuts(r) \/ wire'[r] = w PROVE N \subseteq M
  <2>1. ASSUME NEW i \in N PROVE i \in M
    <3>1. i \in M \/ (Cuts(r) /\ OnWire(w, i))
      BY <1>m, <2>1, MissingStep
    <3>2. ~(Cuts(r) /\ OnWire(w, i))
      BY <1>m DEF Cuts, OnWire
    <3> QED
      BY <3>1, <3>2
  <2> QED
    BY <2>1
<1>n. ~down'[r] => N = {}
  <2>1. StreamInv(r)'
    BY StreamStep
  <2> QED
    BY <2>1 DEF StreamInv, Covered, Missing, ThereFor
<1>l. log \in Seq(Nat) /\ OfTheLog(w, applied[r], Len(log)) /\ M \subseteq 1 .. Len(log)
  BY TypesAt DEF StreamInv, StreamOK, Missing
<1> HIDE DEF w, b, f, o, x, M, y, N
<1> SUFFICES Goal
  BY DEF y, N
<1>1. CASE Quiet(r)
  <2>1. log' = log /\ doubled'[r] = doubled[r] /\ wire'[r] = w /\ wbuf'[r] = b /\ flushed'[r] = f /\ roff'[r] = o
    BY <1>1 DEF Quiet, Rests, SameBuffer, w, b, f, o
  <2>2. ~doubled[r] => Account(w, b, f, o, y, log, N)
    BY <1>t, <1>a, <1>m, <2>1, AccountQuiet
  <2> QED
    BY <1>t, <2>1, <2>2 DEF o
<1>2. CASE Buffers(r)
  <2>1. log' = log /\ doubled'[r] = doubled[r] /\ wire'[r] = w /\ flushed'[r] = f /\ roff'[r] = o
    BY <1>2 DEF Buffers, Rests, w, b, f, o
  <2>2. PICK m \in Msg : wbuf'[r] = Append(b, m) /\ x + MsgLen(m) <= y
    BY <1>2 DEF Buffers, b, x, y
  <2>3. /\ Append(b, m) \in Seq(Msg) /\ Len(Append(b, m)) = Len(b) + 1 /\ f <= Len(Append(b, m))
        /\ f \in 0 .. Len(Append(b, m))
    BY <1>t
  <2>4. ~doubled[r] => Account(w, Append(b, m), f, o, y, log, M)
    BY <1>t, <1>a, <2>2, AccountBuffers
  <2>5. N \subseteq M /\ y <= y
    BY <1>t, <1>m, <2>1
  <2>6. ~doubled[r] => Account(w, Append(b, m), f, o, y, log, N)
    BY <1>t, <2>3, <2>4, <2>5, AccountQuiet
  <2> QED
    BY <1>t, <2>1, <2>2, <2>3, <2>6 DEF o
<1>3. CASE Puts(r)
  <2>1. /\ log' = log /\ doubled'[r] = doubled[r] /\ wbuf'[r] = b /\ flushed'[r] = f /\ roff'[r] = o
        /\ N = {}
    BY <1>3, <1>n DEF Puts, SameBuffer, b, f, o
  <2>2. PICK m \in Msg : wire'[r] = Append(w, m) /\ ~IsWrite(m) /\ x + MsgLen(m) <= y
    BY <1>3 DEF Puts, w, x, y
  <2>3. ~doubled[r] => Account(Append(w, m), b, f, o, y, log, {})
    BY <1>t, <1>a, <2>2, AccountPuts
  <2> QED
    BY <1>t, <2>1, <2>2, <2>3 DEF o
<1>4. CASE Flushes(r)
  <2>1. /\ log' = log /\ wbuf'[r] = b /\ flushed'[r] = Len(b) /\ roff'[r] = o
        /\ ~doubled'[r] => ~doubled[r] /\ f = 0
        /\ wire'[r] = w \/ (wire'[r] = w \o b /\ N = {})
    BY <1>4, <1>n, <1>t DEF Flushes, w, b, f, o
  <2>2. CASE wire'[r] = w
    <3>1. ~doubled[r] => Account(w, b, Len(b), o, x, log, M)
      BY <1>t, <1>a, AccountDrops
    <3>2. Len(b) \in 0 .. Len(b) /\ N \subseteq M
      BY <1>t, <1>m, <2>1, <2>2
    <3>3. ~doubled[r] => Account(w, b, Len(b), o, y, log, N)
      BY <1>t, <3>1, <3>2, AccountQuiet
    <3> QED
      BY <1>t, <2>1, <2>2, <3>3 DEF o
  <2>3. CASE wire'[r] = w \o b /\ N = {}
    <3>1. Replies(b) /\ w \o b \in Seq(Msg) /\ Len(b) \in 0 .. Len(b)
      BY <1>t DEF HandshakeInv, b
    <3>2. ~doubled'[r] => Account(w \o b, b, Len(b), o, x, log, {})
      BY <1>t, <1>a, <2>1, <3>1, AccountFlushes
    <3>3. ~doubled'[r] => Account(w \o b, b, Len(b), o, y, log, {})
      BY <1>t, <3>1, <3>2, AccountQuiet
    <3> QED
      BY <1>t, <2>1, <2>3, <3>3 DEF o
  <2> QED
    BY <2>1, <2>2, <2>3
<1>5. CASE Empties(r)
  <2>1. log' = log /\ doubled'[r] = doubled[r] /\ wire'[r] = w /\ wbuf'[r] = <<>> /\ flushed'[r] = 0 /\ roff'[r] = o
    BY <1>5 DEF Empties, Rests, w, b, f, o
  <2>2. ~doubled[r] => Account(w, <<>>, 0, o, x, log, M)
    BY <1>t, <1>a, AccountDrops
  <2>3. <<>> \in Seq(Msg) /\ 0 \in 0 .. Len(<<>>) /\ 0 <= Len(<<>>)
    OBVIOUS
  <2>4. ~doubled[r] => Account(w, <<>>, 0, o, y, log, N)
    BY <1>t, <1>m, <2>1, <2>2, <2>3, AccountQuiet
  <2> QED
    BY <1>t, <2>1, <2>3, <2>4 DEF o
<1>6. CASE Takes(r)
  <2>1. /\ log' = log /\ doubled'[r] = doubled[r] /\ wbuf'[r] = b /\ flushed'[r] = f
        /\ w # <<>> /\ wire'[r] = Tail(w) /\ ~Cuts(r)
        /\ o <= roff'[r] /\ roff'[r] <= o + MsgLen(Head(w))
    BY <1>6 DEF Takes, Reads, Cuts, SameBuffer, w, b, f, o
  <2>2. roff'[r] \in Nat
    <3>1. TypeOK'
      BY TypeStep
    <3> QED
      BY <3>1 DEF TypeOK
  <2>3. Tail(w) \in Seq(Msg) /\ N \subseteq M
    BY <1>t, <1>m, <2>1
  <2>4. ~doubled[r] => Account(Tail(w), b, f, roff'[r], x, log, N)
    BY <1>t, <1>a, <2>1, <2>2, <2>3, AccountReads
  <2>5. ~doubled[r] => Account(Tail(w), b, f, roff'[r], y, log, N)
    BY <1>t, <2>2, <2>3, <2>4, AccountQuiet
  <2> QED
    BY <1>t, <2>1, <2>5 DEF o
<1>7. CASE Ends(r)
  <2>1. /\ log' = log /\ doubled'[r] = doubled[r] /\ wbuf'[r] = b /\ flushed'[r] = f
        /\ wire'[r] = <<>> /\ roff'[r] = o
    BY <1>7 DEF Ends, Cuts, SameBuffer, w, b, f, o
  <2>2. \A i \in N : i \in M \/ OnWire(w, i)
    BY <2>1, MissingStep DEF M, N, w
  <2>3. /\ \A j \in 1 .. Len(w) : IsWrite(w[j]) => log[w[j].n] \in Nat
        /\ \A i \in M : log[i] \in Nat
    <3>1. \A i \in 1 .. Len(log) : log[i] \in Nat
      BY <1>l
    <3> QED
      BY <1>l, <3>1 DEF OfTheLog
  <2>4. ~doubled[r] => Account(<<>>, b, f, o, x, log, N)
    BY <1>t, <1>a, <2>2, <2>3, AccountCuts
  <2>5. <<>> \in Seq(Msg)
    OBVIOUS
  <2>6. ~doubled[r] => Account(<<>>, b, f, o, y, log, N)
    BY <1>t, <2>4, <2>5, AccountQuiet
  <2> QED
    BY <1>t, <2>1, <2>6 DEF o
<1> QED
  BY <1>1, <1>2, <1>3, <1>4, <1>5, <1>6, <1>7

\* FlushWrite has the effect Flushes.
LEMMA FlushWriteFlushes ==
    ASSUME TypeOK, NEW r \in Replicas, FlushWrite(r), UNCHANGED <<log, roff, wbuf, down>>
    PROVE  Flushes(r)
<1>1. /\ flushed'[r] = Len(wbuf[r]) /\ doubled'[r] = (doubled[r] \/ flushed[r] > 0)
      /\ wire'[r] = IF down[r] THEN wire[r] ELSE wire[r] \o wbuf[r]
  BY Domains DEF FlushWrite, Put
<1>2. ~doubled'[r] => ~doubled[r] /\ ~(flushed[r] > 0)
  BY <1>1, Zenon
<1>3. flushed[r] \in Nat
  BY CountsAt
<1>4. ~doubled'[r] => ~doubled[r] /\ flushed[r] = 0
  BY <1>2, <1>3
<1> QED
  BY <1>1, <1>4 DEF Flushes

\* A reply costs nothing.
LEMMA ReplyBuffered ==
    ASSUME TypeOK, [Next]_vars, NEW r \in Replicas, NEW k \in {"ok", "full", "error"},
           Buffer(r, [kind |-> k, n |-> 0]), Rests(r), flushed'[r] = flushed[r]
    PROVE  Buffers(r)
<1> DEFINE m == [kind |-> k, n |-> 0]
<1>1. m \in Msg /\ m.kind \notin Arrays
  BY Messages DEF Kinds, Arrays
<1>2. wbuf'[r] = Append(wbuf[r], m)
  BY Domains DEF Buffer
<1> HIDE DEF m
<1>3. Credit(r) + MsgLen(m) <= Credit(r)'
  <2>1. MsgLen(m) = 0 /\ Credit(r) \in Int /\ Credit(r) <= Credit(r)'
    BY <1>1, Lengths, CountsAt, CreditGrows
  <2> QED
    BY <2>1
<1> QED
  BY <1>1, <1>2, <1>3 DEF Buffers

\* The effects of the command loop's steps.
LEMMA LoopAccount ==
    ASSUME TypeOK, [Next]_vars, NEW r \in Replicas, Loop(r)
    PROVE  Quiet(r) \/ Buffers(r) \/ Puts(r) \/ Flushes(r) \/ Empties(r)
<1> USE DEF masterVars, goVars, flushVars, connVars, handshakeVars, replicaVars
<1>1. CASE HandlePing(r)
  BY <1>1, ReplyBuffered DEF HandlePing, Rests
<1>2. CASE HandlePort(r)
  BY <1>2, ReplyBuffered DEF HandlePort, Rests
<1>3. CASE HandleAck(r)
  BY <1>3 DEF HandleAck, Quiet, Rests, SameBuffer
<1>4. CASE HandlePsync(r)
  BY <1>4, ReplyBuffered DEF HandlePsync, Rests
<1>5. CASE SendSnapshot(r)
  <2>1. CASE Buffer(r, [kind |-> "error", n |-> 0]) /\ UNCHANGED wire
    BY <1>5, <2>1, ReplyBuffered DEF SendSnapshot, Rests
  <2>2. CASE Put(r, <<[kind |-> "rdb", n |-> Len(log)]>>) /\ UNCHANGED wbuf
    <3> DEFINE m == [kind |-> "rdb", n |-> Len(log)]
    <3>1. m \in Msg /\ m.kind = "rdb" /\ ~IsWrite(m) /\ m.kind \notin Arrays
      BY TypesAt, Messages DEF Kinds, IsWrite, Arrays
    <3>2. wire'[r] = wire[r] \/ (wire'[r] = wire[r] \o <<m>> /\ ~down[r])
      BY <2>2, Domains DEF Put
    <3> HIDE DEF m
    <3>3. /\ log' = log /\ doubled'[r] = doubled[r] /\ roff'[r] = roff[r] /\ SameBuffer(r)
          /\ down'[r] = down[r]
      BY <1>5, <2>2 DEF SendSnapshot, SameBuffer
    <3>4. wire[r] \o <<m>> = Append(wire[r], m)
      BY <3>1, TypesAt
    <3>5. Credit(r) + MsgLen(m) <= Credit(r)'
      <4>1. MsgLen(m) = 0 /\ Credit(r) \in Int /\ Credit(r) <= Credit(r)'
        BY <3>1, Lengths, CountsAt, CreditGrows
      <4> QED
        BY <4>1
    <3> QED
      BY <3>1, <3>2, <3>3, <3>4, <3>5 DEF Puts, Quiet, Rests
  <2> QED
    BY <1>5, <2>1, <2>2 DEF SendSnapshot
<1>6. CASE LoopFlush(r)
  <2>1. CASE FlushWrite(r)
    BY <1>6, <2>1, FlushWriteFlushes DEF LoopFlush
  <2>2. CASE UNCHANGED <<wire, flushed, doubled>>
    BY <1>6, <2>2 DEF LoopFlush, Quiet, Rests, SameBuffer
  <2> QED
    BY <1>6, <2>1, <2>2 DEF LoopFlush
<1>7. CASE LoopReset(r)
  <2>1. CASE FlushReset(r)
    BY <1>7, <2>1, Domains DEF LoopReset, FlushReset, Empties, Rests
  <2>2. CASE UNCHANGED <<wbuf, flushed>>
    BY <1>7, <2>2 DEF LoopReset, Quiet, Rests, SameBuffer
  <2> QED
    BY <1>7, <2>1, <2>2 DEF LoopReset
<1> QED
  BY <1>1, <1>2, <1>3, <1>4, <1>5, <1>6, <1>7 DEF Loop

\* The effects of the goroutines' steps.
LEMMA GoroutineAccount ==
    ASSUME TypeOK, [Next]_vars, NEW r \in Replicas,
           GetAckWrite(r) \/ PingWrite(r) \/ Flush(r) \/ FlushEnd(r) \/ Break(r)
    PROVE  Quiet(r) \/ Buffers(r) \/ Puts(r) \/ Flushes(r) \/ Empties(r)
<1> USE DEF masterVars, goVars, flushVars, connVars, handshakeVars, replicaVars
<1>1. CASE GetAckWrite(r)
  <2> DEFINE m == [kind |-> "getack", n |-> 0]
  <2>1. m \in Msg /\ m.kind = "getack"
    BY Messages DEF Kinds
  <2>2. wbuf'[r] = Append(wbuf[r], m)
    BY <1>1, Domains DEF GetAckWrite, Buffer
  <2> HIDE DEF m
  <2>3. MsgLen(m) = GetAckLen /\ Credit(r)' = Credit(r) + GetAckLen /\ Credit(r)' \in Int
    BY <1>1, <2>1, Lengths, CreditGrows
  <2>4. Credit(r) + MsgLen(m) <= Credit(r)'
    BY <2>3
  <2>5. Rests(r) /\ flushed'[r] = flushed[r]
    BY <1>1 DEF GetAckWrite, Rests
  <2> QED
    BY <2>1, <2>2, <2>4, <2>5 DEF Buffers
<1>2. CASE PingWrite(r)
  <2> DEFINE m == [kind |-> "ping", n |-> 0]
  <2>1. m \in Msg /\ m.kind = "ping" /\ ~IsWrite(m)
    BY Messages DEF Kinds, IsWrite
  <2>2. wire'[r] = wire[r] \/ (wire'[r] = wire[r] \o <<m>> /\ ~down[r])
    BY <1>2, Domains DEF PingWrite, Put
  <2> HIDE DEF m
  <2>3. /\ log' = log /\ doubled'[r] = doubled[r] /\ roff'[r] = roff[r] /\ SameBuffer(r)
        /\ down'[r] = down[r]
    BY <1>2 DEF PingWrite, SameBuffer
  <2>4. wire[r] \o <<m>> = Append(wire[r], m)
    BY <2>1, TypesAt
  <2>5. MsgLen(m) = PingLen /\ Credit(r)' = Credit(r) + PingLen /\ Credit(r)' \in Int
    BY <1>2, <2>1, Lengths, CreditGrows
  <2>6. Credit(r) + MsgLen(m) <= Credit(r)'
    BY <2>5
  <2> QED
    BY <2>1, <2>2, <2>3, <2>4, <2>6 DEF Puts, Quiet, Rests
<1>3. CASE Flush(r)
  <2>1. CASE FlushWrite(r)
    BY <1>3, <2>1, FlushWriteFlushes DEF Flush
  <2>2. CASE UNCHANGED <<flushed, wire, doubled>>
    BY <1>3, <2>2 DEF Flush, Quiet, Rests, SameBuffer
  <2> QED
    BY <1>3, <2>1, <2>2 DEF Flush
<1>4. CASE FlushEnd(r)
  <2>1. CASE FlushReset(r)
    BY <1>4, <2>1, Domains DEF FlushEnd, FlushReset, Empties, Rests
  <2>2. CASE UNCHANGED <<wbuf, flushed>>
    BY <1>4, <2>2 DEF FlushEnd, Quiet, Rests, SameBuffer
  <2> QED
    BY <1>4, <2>1, <2>2 DEF FlushEnd
<1>5. CASE Break(r)
  BY <1>5 DEF Break, Quiet, Rests, SameBuffer
<1> QED
  BY <1>1, <1>2, <1>3, <1>4, <1>5

\* The effects of the handshake's steps.
LEMMA HandshakeAccount ==
    ASSUME TypeOK, NEW r \in Replicas, Handshake(r)
    PROVE  Quiet(r) \/ Ends(r)
<1> USE DEF masterVars, goVars, flushVars, connVars, handshakeVars, replicaVars
<1>1. CASE Cuts(r)
  BY <1>1 DEF Handshake, SendRequest, QueueRequest, CheckResponse, HandshakeTimeout, Ends, SameBuffer
<1>2. CASE ~Exit(r)
  BY <1>2 DEF Handshake, SendRequest, QueueRequest, CheckResponse, HandshakeTimeout, Quiet, Rests,
     SameBuffer
<1>3. CASE Exit(r)
  <2>1. Cuts(r)
    BY <1>3, ExitAt DEF Handshake, SendRequest, QueueRequest, CheckResponse, HandshakeTimeout,
       Cuts, StoreKept, Stays
  <2> QED
    BY <1>1, <2>1
<1> QED
  BY <1>2, <1>3

\* The effects of the steps of the master link.
LEMMA LinkAccount ==
    ASSUME TypeOK, NEW r \in Replicas, HandshakeInv(r), Link(r)
    PROVE  Takes(r) \/ Ends(r)
<1> USE DEF masterVars, goVars, flushVars, connVars, handshakeVars, replicaVars
<1>h. OneRdb(wire[r]) /\ roff[r] \in Nat
  BY TypesAt DEF HandshakeInv
<1> DEFINE m == Head(wire[r])
<1>m. MsgLen(m) \in Nat
  BY Lengths
<1>r. ASSUME Receive(r), LinkKept, reader'[r] # "stop",
             roff'[r] = roff[r] \/ roff'[r] = roff[r] + MsgLen(m)
      PROVE  Takes(r)
  <2>1. Reads(r) /\ doubled'[r] = doubled[r] /\ SameBuffer(r)
    BY <1>h, <1>r, ReceiveAt DEF LinkKept, Reads, Stays, SameBuffer
  <2>2. roff[r] <= roff'[r] /\ roff'[r] <= roff[r] + MsgLen(m)
    BY <1>h, <1>m, <1>r
  <2> QED
    BY <2>1, <2>2 DEF Takes
<1>1. CASE ReadAnswer(r)
  BY <1>1, <1>r, Domains DEF ReadAnswer
<1>2. CASE ReadWrite(r)
  <2>1. MsgLen(m) = WriteLen
    BY <1>2, Lengths DEF ReadWrite
  <2> QED
    BY <1>2, <1>r, <2>1, Domains DEF ReadWrite
<1>3. CASE ReadGetAck(r)
  <2>1. MsgLen(m) = GetAckLen
    BY <1>3, Lengths DEF ReadGetAck
  <2> QED
    BY <1>3, <1>r, <2>1, Domains DEF ReadGetAck
<1>4. CASE ReadPing(r)
  <2>1. MsgLen(m) = PingLen
    BY <1>4, Lengths DEF ReadPing
  <2> QED
    BY <1>4, <1>r, <2>1, Domains DEF ReadPing
<1>5. CASE LoadSnapshot(r)
  BY <1>5, <1>r, Domains DEF LoadSnapshot
<1>6. CASE LoadRefused(r)
  BY <1>6, <1>r, Domains DEF LoadRefused
<1>7. CASE ReadStrayRdb(r)
  BY <1>7, <1>r, Domains DEF ReadStrayRdb
<1>8. CASE ReadSwallowed(r)
  BY <1>8, <1>r, Domains DEF ReadSwallowed
<1>9. CASE ReadEof(r)
  BY <1>9, Domains DEF ReadEof, Ends, Cuts, StoreKept, Stays, SameBuffer
<1> QED
  BY <1>1, <1>2, <1>3, <1>4, <1>5, <1>6, <1>7, <1>8, <1>9 DEF Link

\* A write: the ceiling at it is the master's offset after it.
LEMMA WriteAccount ==
    ASSUME TypeOK, [Next]_vars, NEW r \in Replicas, HandshakeInv(r), StreamInv(r), OffsetInv(r),
           NEW c \in Clients, Write(c)
    PROVE  /\ flushed'[r] <= Len(wbuf'[r]) /\ roff[r] <= roff'[r]
           /\ ~doubled'[r] =>
                Account(wire'[r], wbuf'[r], flushed'[r], roff'[r], Credit(r)', log', Missing(r)')
<1> DEFINE w == wire[r]
           b == wbuf[r]
           f == flushed[r]
           o == roff[r]
           x == Credit(r)
           M == Missing(r)
           y == Credit(r)'
           N == Missing(r)'
           L == Len(log)
           k == log'
<1>t. /\ w \in Seq(Msg) /\ b \in Seq(Msg) /\ o \in Nat /\ x \in Int /\ y \in Int
      /\ f \in 0 .. Len(b) /\ Len(b) \in Nat /\ L \in Nat /\ f <= Len(b)
  <2>1. f \in Nat /\ f <= Len(b)
    BY CountsAt DEF OffsetInv
  <2> QED
    BY <2>1, TypesAt, CountsAt, CreditGrows
<1>a. ~doubled[r] => Account(w, b, f, o, x, log, M)
  BY DEF OffsetInv
<1>1. /\ wbuf'[r] = b /\ flushed'[r] = f /\ roff'[r] = o /\ doubled'[r] = doubled[r]
      /\ down'[r] = down[r] /\ k = Append(log, offset + WriteLen)
      /\ \/ wire'[r] = Append(w, [kind |-> "write", n |-> L + 1]) /\ ~down[r]
         \/ wire'[r] = w
  BY WriteAt
<1>2. /\ \A i \in 1 .. L : k[i] = log[i]
      /\ k[L + 1] = offset + WriteLen
  <2>1. log \in Seq(Nat) /\ offset + WriteLen \in Nat
    BY TypesAt, CountsAt, Lengths
  <2> QED
    BY <1>1, <2>1
<1>3. /\ k[L + 1] \in Nat /\ x + WriteLen <= k[L + 1] /\ x < k[L + 1] /\ x <= y
      /\ y = x + WriteLen
  <2>1. offset \in Nat /\ x <= offset /\ y = x + WriteLen /\ WriteLen \in Nat /\ WriteLen > 0
    BY CountsAt, CreditGrows, Lengths
  <2> HIDE DEF x, y, k
  <2> QED
    BY <1>t, <1>2, <2>1
<1>4. /\ \A j \in 1 .. Len(w) : IsWrite(w[j]) => k[w[j].n] = log[w[j].n]
      /\ \A i \in M : k[i] = log[i]
  <2>1. OfTheLog(w, applied[r], L) /\ M \subseteq 1 .. L
    BY DEF StreamInv, StreamOK, Missing
  <2> QED
    BY <1>2, <2>1 DEF OfTheLog
<1>n. ~down[r] => N = {}
  <2>1. StreamInv(r)'
    BY StreamStep
  <2> QED
    BY <1>1, <2>1 DEF StreamInv, Covered, Missing, ThereFor
<1>m. \A i \in N : i \in M \/ i = L + 1
  <2>1. Sends(r)
    <3>1. Len(log') = Len(log) + 1
      <4>1. log \in Seq(Nat) /\ offset + WriteLen \in Nat
        BY TypesAt, CountsAt, Lengths
      <4> QED
        BY <1>1, <4>1
    <3> QED
      BY <3>1, WriteAt DEF Sends, StoreKept, Stays
  <2> QED
    BY <2>1, MissingWrite
<1> HIDE DEF w, b, f, o, x, M, y, N, L, k
<1>5. CASE wire'[r] = Append(w, [kind |-> "write", n |-> L + 1]) /\ ~down[r]
  <2> DEFINE m == [kind |-> "write", n |-> L + 1]
  <2>1. m \in Msg /\ m.kind = "write" /\ m.n = L + 1 /\ wire'[r] = Append(w, m)
    BY <1>t, <1>5, Messages DEF Kinds
  <2> HIDE DEF m
  <2>2. MsgLen(m) = WriteLen /\ x + MsgLen(m) <= y /\ x + MsgLen(m) <= k[m.n] /\ k[m.n] \in Nat
    <3>1. MsgLen(m) = WriteLen
      BY <2>1, Lengths
    <3>2. x + WriteLen <= y
      BY <1>t, <1>3
    <3> QED
      BY <1>3, <2>1, <3>1, <3>2
  <2>3. ~doubled[r] => Account(Append(w, m), b, f, o, y, k, {})
    BY <1>t, <1>a, <1>4, <2>1, <2>2, AccountPuts
  <2>4. ~doubled[r] => Account(wire'[r], b, f, o, y, k, N)
    BY <1>5, <1>n, <2>1, <2>3
  <2> QED
    BY <1>t, <1>1, <2>4 DEF b, f, o, y, N, k
<1>6. CASE wire'[r] = w
  <2>0. SameLog(log, k, w, M) /\ Beyond(x, k, M, N)
    BY <1>3, <1>4, <1>m DEF SameLog, Beyond
  <2>1. ~doubled[r] => Account(w, b, f, o, y, k, N)
    BY <1>t, <1>a, <1>3, <2>0, AccountMisses
  <2> QED
    BY <1>t, <1>1, <1>6, <2>1 DEF b, f, o, y, N, k
<1> QED
  BY <1>1, <1>5, <1>6

\* What each step does.
LEMMA AccountEffects ==
    ASSUME TypeOK, [Next]_vars, NEW r \in Replicas, HandshakeInv(r)
    PROVE  \/ \E c \in Clients : Write(c)
           \/ Quiet(r) \/ Buffers(r) \/ Puts(r) \/ Flushes(r) \/ Empties(r) \/ Takes(r) \/ Ends(r)
<1>1. Elsewhere(r) => Quiet(r)
  BY DEF Elsewhere, Quiet, Rests, SameBuffer
<1> QED
  BY <1>1, Frame, LoopAccount, GoroutineAccount, HandshakeAccount, LinkAccount

\* Every step keeps every account.
LEMMA AccountKept ==
    ASSUME TypeOK, [Next]_vars, NEW r \in Replicas, HandshakeInv(r), StreamInv(r), OffsetInv(r)
    PROVE  /\ flushed'[r] <= Len(wbuf'[r]) /\ roff[r] <= roff'[r]
           /\ ~doubled'[r] =>
                Account(wire'[r], wbuf'[r], flushed'[r], roff'[r], Credit(r)', log', Missing(r)')
BY AccountEffects, AccountStep, WriteAccount

\* Acknowledgements are offsets that the replica has had.
LEMMA AckedChanges ==
    ASSUME [Next]_vars
    PROVE  UNCHANGED acked \/ \E r \in Replicas : HandleAck(r)
<1> USE DEF masterVars, goVars, flushVars, connVars, handshakeVars, replicaVars
<1>1. ASSUME NEW c \in Clients, Write(c) \/ StartWait(c) \/ Waiting(c) PROVE UNCHANGED acked
  BY <1>1 DEF Write, StartWait, Waiting, WaitRead, WaitAcked, WaitTimeout, WaitVarsKept
<1>2. CASE XAdd \/ GetAckTick \/ PingTick \/ UNCHANGED vars
  BY <1>2 DEF XAdd, GetAckTick, PingTick, vars
<1>3. ASSUME NEW r \in Replicas, Loop(r) PROVE UNCHANGED acked \/ HandleAck(r)
  BY <1>3 DEF Loop, HandlePing, HandlePort, HandlePsync, SendSnapshot, LoopFlush, LoopReset
<1>4. ASSUME NEW r \in Replicas, Goroutines(r) PROVE UNCHANGED acked
  BY <1>4 DEF Goroutines, GetAckWrite, PingCount, PingWrite, Flush, FlushEnd
<1>5. ASSUME NEW r \in Replicas, Handshake(r) PROVE UNCHANGED acked
  BY <1>5 DEF Handshake, SendRequest, QueueRequest, CheckResponse, HandshakeTimeout
<1>6. ASSUME NEW r \in Replicas, Link(r) PROVE UNCHANGED acked
  BY <1>6 DEF Link, ReadAnswer, ReadWrite, ReadGetAck, ReadPing, LoadSnapshot, LoadRefused,
     ReadStrayRdb, ReadSwallowed, ReadEof, LinkKept
<1>7. ASSUME NEW r \in Replicas, Break(r) PROVE UNCHANGED acked
  BY <1>7 DEF Break
<1> QED
  BY <1>1, <1>2, <1>3, <1>4, <1>5, <1>6, <1>7 DEF Next

\* What a step does to the way up: it sends the current offset or takes a
\* message.
LEMMA UpChanges ==
    ASSUME TypeOK, [Next]_vars, NEW r \in Replicas
    PROVE  \/ up'[r] = up[r] \/ (up[r] # <<>> /\ up'[r] = Tail(up[r]))
           \/ \E m \in UpMsg : (m.n = 0 \/ m.n = roff[r]) /\ up'[r] = Append(up[r], m)
<1> USE DEF masterVars, goVars, flushVars, connVars, handshakeVars, replicaVars
<1>1. CASE Elsewhere(r)
  BY <1>1 DEF Elsewhere
<1>2. ASSUME NEW c \in Clients, Write(c) PROVE up'[r] = up[r]
  BY <1>2 DEF Write
<1>3. ASSUME Loop(r) PROVE up'[r] = up[r] \/ (up[r] # <<>> /\ up'[r] = Tail(up[r]))
  BY <1>3, Domains DEF Loop, HandlePing, HandlePort, HandleAck, HandlePsync, SendSnapshot,
     LoopFlush, LoopReset, TakeUp
<1>4. ASSUME GetAckWrite(r) \/ PingWrite(r) \/ Flush(r) \/ FlushEnd(r) \/ Break(r) PROVE up'[r] = up[r]
  BY <1>4 DEF GetAckWrite, PingWrite, Flush, FlushEnd, Break
<1>5. CASE Handshake(r)
  <2>1. CASE SendRequest(r)
    <3> DEFINE m == [kind |-> hs[r], n |-> 0]
    <3>1. m \in UpMsg /\ m.n = 0
      BY <2>1, Messages DEF SendRequest
    <3>2. up'[r] = up[r] \/ up'[r] = Append(up[r], m)
      BY <2>1, Domains DEF SendRequest
    <3> QED
      BY <3>1, <3>2
  <2>2. CASE QueueRequest(r) \/ CheckResponse(r) \/ HandshakeTimeout(r)
    BY <2>2 DEF QueueRequest, CheckResponse, HandshakeTimeout
  <2> QED
    BY <1>5, <2>1, <2>2 DEF Handshake
<1>6. CASE Link(r)
  <2>1. CASE ReadGetAck(r)
    <3> DEFINE m == [kind |-> "ack", n |-> roff[r]]
    <3>1. m \in UpMsg /\ m.n = roff[r]
      BY TypesAt, Messages
    <3>2. up'[r] = up[r] \/ up'[r] = Append(up[r], m)
      BY <2>1, Domains DEF ReadGetAck
    <3> QED
      BY <3>1, <3>2
  <2>2. CASE ~ReadGetAck(r)
    BY <1>6, <2>2 DEF Link, ReadAnswer, ReadWrite, ReadPing, LoadSnapshot, LoadRefused,
       ReadStrayRdb, ReadSwallowed, ReadEof
  <2> QED
    BY <2>1, <2>2
<1> QED
  BY <1>1, <1>2, <1>3, <1>4, <1>5, <1>6, Frame

\* Every step keeps the invariant of the offsets of one replica.
LEMMA OffsetStep ==
    ASSUME TypeOK, [Next]_vars, NEW r \in Replicas, HandshakeInv(r), StreamInv(r), OffsetInv(r)
    PROVE  OffsetInv(r)'
<1> DEFINE u == up[r]
<1>1. /\ flushed'[r] <= Len(wbuf'[r]) /\ roff[r] <= roff'[r]
      /\ ~doubled'[r] =>
           Account(wire'[r], wbuf'[r], flushed'[r], roff'[r], Credit(r)', log', Missing(r)')
  BY AccountKept
<1>2. /\ u \in Seq(UpMsg) /\ roff[r] \in Nat /\ roff'[r] \in Nat /\ acked[r] \in Nat
      /\ \A j \in 1 .. Len(u) : u[j].n \in Nat /\ u[j].n <= roff[r]
  <2>1. TypeOK'
    BY TypeStep
  <2>2. u \in Seq(UpMsg) /\ roff[r] \in Nat /\ roff'[r] \in Nat /\ acked[r] \in Nat
    BY <2>1 DEF TypeOK
  <2>3. ASSUME NEW j \in 1 .. Len(u) PROVE u[j].n \in Nat
    <3>1. u[j] \in UpMsg
      BY <2>2
    <3> QED
      BY <3>1 DEF UpMsg
  <2> QED
    BY <2>2, <2>3 DEF OffsetInv
<1>3. acked'[r] \in Nat /\ acked'[r] <= roff[r]
  <2>1. CASE UNCHANGED acked
    BY <1>2, <2>1 DEF OffsetInv
  <2>2. ASSUME NEW q \in Replicas, HandleAck(q) PROVE acked'[r] \in Nat /\ acked'[r] <= roff[r]
    <3>1. CASE q # r
      BY <1>2, <2>2, <3>1, Domains DEF HandleAck, OffsetInv
    <3>2. CASE q = r
      <4>1. acked'[r] = Head(u).n /\ u # <<>>
        BY <2>2, <3>2, Domains DEF HandleAck, TakeUp
      <4>2. Head(u) = u[1] /\ 1 \in 1 .. Len(u)
        BY <1>2, <4>1
      <4> QED
        BY <1>2, <4>1, <4>2
    <3> QED
      BY <3>1, <3>2
  <2> QED
    BY <2>1, <2>2, AckedChanges
<1>4. \A j \in 1 .. Len(up'[r]) : up'[r][j].n <= roff[r]
  <2>1. CASE up'[r] = u
    BY <1>2, <2>1
  <2>2. CASE u # <<>> /\ up'[r] = Tail(u)
    <3>1. \A j \in 1 .. Len(Tail(u)) : j + 1 \in 1 .. Len(u) /\ Tail(u)[j] = u[j + 1]
      BY <1>2, <2>2, HeadTail
    <3> QED
      BY <1>2, <2>2, <3>1
  <2>3. ASSUME NEW m \in UpMsg, m.n = 0 \/ m.n = roff[r], up'[r] = Append(u, m)
        PROVE  \A j \in 1 .. Len(up'[r]) : up'[r][j].n <= roff[r]
    <3>1. /\ \A j \in 1 .. Len(u) : Append(u, m)[j] = u[j]
          /\ \A j \in 1 .. Len(Append(u, m)) : j \in 1 .. Len(u) \/ j = Len(u) + 1
          /\ Append(u, m)[Len(u) + 1] = m
      BY <1>2, <2>3
    <3>2. m.n <= roff[r]
      BY <1>2, <2>3
    <3> QED
      BY <1>2, <2>3, <3>1, <3>2
  <2> QED
    BY <2>1, <2>2, <2>3, UpChanges
<1>5. \A j \in 1 .. Len(up'[r]) : up'[r][j].n <= roff'[r]
  <2>1. TypeOK'
    BY TypeStep
  <2>2. up'[r] \in Seq(UpMsg)
    BY <2>1 DEF TypeOK
  <2> SUFFICES ASSUME NEW j \in 1 .. Len(up'[r]) PROVE up'[r][j].n <= roff'[r]
    OBVIOUS
  <2>3. up'[r][j] \in UpMsg
    BY <2>2
  <2>4. up'[r][j].n \in Nat
    BY <2>3 DEF UpMsg
  <2>5. up'[r][j].n <= roff[r]
    BY <1>4
  <2> QED
    BY <1>1, <1>2, <2>4, <2>5
<1>6. acked'[r] <= roff'[r]
  BY <1>1, <1>2, <1>3
<1> QED
  BY <1>1, <1>5, <1>6 DEF OffsetInv

\* It holds at the start.
LEMMA OffsetInit == ASSUME Init, NEW r \in Replicas PROVE OffsetInv(r)
<1>1. /\ wire[r] = <<>> /\ wbuf[r] = <<>> /\ flushed[r] = 0 /\ roff[r] = 0 /\ acked[r] = 0
      /\ up[r] = <<>> /\ Credit(r) = 0 /\ log = <<>>
  BY DEF Init, Credit, GetAckLen, PingLen
<1>2. Missing(r) = {}
  BY <1>1 DEF Missing
<1>3. PICK p : Climbs(p, <<>>) /\ p[0] = 0
  BY ClimbsEmpty
<1>4. Books(p, p, <<>>, <<>>, 0, 0, 0, <<>>, {})
  <2>1. p[Len(<<>>)] = 0 /\ 0 <= p[0] /\ p[Len(<<>>)] + (p[Len(<<>>)] - p[0]) <= 0
    BY <1>3
  <2> QED
    BY <1>3, <2>1 DEF Books
<1>5. Account(<<>>, <<>>, 0, 0, 0, <<>>, {})
  BY <1>4 DEF Account
<1> QED
  BY <1>1, <1>2, <1>5 DEF OffsetInv

(***************************************************************************)
(* Acknowledged writes are held.                                           *)
(***************************************************************************)
\* Replica r holds the writes up to offset off, or will with its snapshot.
Safe(r, off) ==
    ~doubled[r] => \A i \in 1 .. Len(log) : log[i] <= off =>
      Settled(wire[r], base[r], applied[r], synced[r], i)

\* An acknowledged offset is safe: the replica has all writes up to it.
LEMMA AckedIsSafe ==
    ASSUME TypeOK, NEW r \in replicas, r \in Replicas, OffsetInv(r), NEW off \in Nat, acked[r] >= off
    PROVE  Safe(r, off)
<1> DEFINE w == wire[r]
<1> SUFFICES ASSUME ~doubled[r], NEW i \in 1 .. Len(log), log[i] <= off,
                    ~Settled(w, base[r], applied[r], synced[r], i)
             PROVE  FALSE
  BY DEF Safe
<1>1. PICK p, q : Books(p, q, w, wbuf[r], flushed[r], roff[r], Credit(r), log, Missing(r))
  BY DEF OffsetInv, Account
<1>2. w \in Seq(Msg) /\ log \in Seq(Nat) /\ log[i] \in Nat /\ roff[r] \in Nat /\ acked[r] \in Nat
  <2>1. w \in Seq(Msg) /\ log \in Seq(Nat) /\ roff[r] \in Nat /\ acked[r] \in Nat
    BY TypesAt, CountsAt
  <2> QED
    BY <2>1
<1>3. log[i] <= roff[r]
  BY <1>2 DEF OffsetInv
<1>4. Climbs(p, w) /\ roff[r] <= p[0]
  BY <1>1 DEF Books
<1>5. p[0] \in Nat /\ p[Len(w)] \in Nat /\ p[0] <= p[Len(w)]
  BY <1>2, <1>4, Ceiling
<1>6. CASE OnWire(w, i)
  <2>1. PICK j \in 1 .. Len(w) : IsWrite(w[j]) /\ w[j].n = i
    BY <1>6 DEF OnWire
  <2> DEFINE a == p[0]
             c == p[j - 1]
             d == p[j]
             e == log[i]
             n == roff[r]
  <2>2. /\ a \in Nat /\ c \in Nat /\ d \in Nat /\ e \in Nat /\ n \in Nat
        /\ a <= c /\ c + WriteLen <= d /\ WriteLen \in Nat /\ WriteLen > 0
    BY <1>2, <1>4, <1>5, <2>1, Ceiling, Lengths DEF IsWrite
  <2>3. d <= e /\ e <= n /\ n <= a
    BY <1>1, <1>3, <1>4, <2>1 DEF Books
  <2> HIDE DEF a, c, d, e, n
  <2> QED
    BY <2>2, <2>3
<1>7. CASE ~OnWire(w, i)
  <2>1. i \in Missing(r)
    BY <1>7 DEF Missing, ThereFor, There
  <2>2. p[Len(w)] < log[i]
    BY <1>1, <2>1 DEF Books
  <2> QED
    BY <1>2, <1>3, <1>4, <1>5, <2>2
<1> QED
  BY <1>6, <1>7

\* What is held stays held, and what will come with the snapshot comes.
LEMMA SettledStays ==
    ASSUME TypeOK, [Next]_vars, NEW r \in Replicas, HandshakeInv(r), StreamInv(r),
           NEW i \in 1 .. Len(log), Settled(wire[r], base[r], applied[r], synced[r], i)
    PROVE  Settled(wire[r], base[r], applied[r], synced[r], i)'
<1> DEFINE w == wire[r]
           L == Len(log)
<1>t. /\ w \in Seq(Msg) /\ base[r] \in Nat /\ applied[r] \in Seq(Nat) /\ synced[r] \in BOOLEAN
      /\ L \in Nat
  BY TypesAt
<1>s. StreamOK(w, base[r], applied[r], synced[r], L)
  BY DEF StreamInv
<1>1. CASE synced[r]
  <2>1. synced'[r] = synced[r] /\ base'[r] = base[r]
    BY <1>1, Effects DEF Adds, Cuts, Snaps, Sends, Registers, Skips, Executes, Loads, StoreKept
  <2>2. Held(base[r], applied[r], i)
    BY <1>1 DEF Settled
  <2>3. applied'[r] = applied[r] \/ \E n \in Nat : applied'[r] = Append(applied[r], n)
    <3>1. ASSUME Executes(r) PROVE Head(w).n \in Nat
      BY <1>t, <3>1, HeadTail, MsgAt DEF Executes, Reads
    <3> QED
      BY <1>1, <3>1, Effects DEF Adds, Cuts, Snaps, Sends, Registers, Skips, Executes, Loads, StoreKept
  <2>4. Held(base[r], applied'[r], i)
    <3>1. ASSUME NEW n \in Nat PROVE Held(base[r], Append(applied[r], n), i)
      <4>1. \A j \in 1 .. Len(applied[r]) :
              j \in 1 .. Len(Append(applied[r], n)) /\ Append(applied[r], n)[j] = applied[r][j]
        BY <1>t
      <4> QED
        BY <2>2, <4>1 DEF Held
    <3> QED
      BY <2>2, <2>3, <3>1
  <2> QED
    BY <1>1, <2>1, <2>4 DEF Settled
<1>2. CASE ~synced[r]
  <2>1. InRdb(w, i)
    BY <1>2 DEF Settled
  <2>2. CASE Loads(r)
    <3>1. Head(w) = w[1] /\ 1 \in 1 .. Len(w) /\ IsRdb(Head(w))
      BY <1>t, <2>2, HeadTail DEF Loads, Reads
    <3>2. i <= base'[r] /\ synced'[r]
      BY <2>1, <2>2, <3>1 DEF Loads, InRdb
    <3> QED
      BY <3>2 DEF Settled, Held
  <2>3. CASE ~Loads(r)
    <3>1. ~synced'[r]
      BY <1>2, <2>3, Effects DEF Adds, Cuts, Snaps, Sends, Registers, Skips, Executes, StoreKept
    <3>2. InRdb(wire'[r], i)
      <4>1. CASE Adds(r)
        <5>1. ASSUME NEW t \in Seq(Msg), Replies(t) PROVE InRdb(w \o t, i)
          <6> SUFFICES ASSUME NEW k \in 1 .. Len(w \o t), IsRdb((w \o t)[k]) PROVE i <= (w \o t)[k].n
            BY DEF InRdb
          <6>1. k \notin 1 .. Len(w) => k - Len(w) \in 1 .. Len(t) /\ (w \o t)[k] = t[k - Len(w)]
            BY <1>t, Concat
          <6>2. k \in 1 .. Len(w)
            BY <5>1, <6>1 DEF Replies, Lacks, IsRdb
          <6>3. (w \o t)[k] = w[k]
            BY <1>t, <6>2, Concat
          <6> QED
            BY <2>1, <6>2, <6>3 DEF InRdb
        <5> QED
          BY <2>1, <4>1, <5>1 DEF Adds
      <4>2. CASE Cuts(r)
        BY <4>2 DEF Cuts, InRdb
      <4>3. CASE Registers(r)
        BY <2>1, <4>3 DEF Registers
      <4>4. ASSUME NEW m \in Msg, IsRdb(m) => m.n = L, NEW v, v = Append(w, m) PROVE InRdb(v, i)
        <5>1. /\ \A k \in 1 .. Len(v) : k \in 1 .. Len(w) \/ k = Len(w) + 1
              /\ \A k \in 1 .. Len(w) : v[k] = w[k]
              /\ v[Len(w) + 1] = m
          BY <1>t, <4>4
        <5>2. i <= L
          BY <1>t
        <5> QED
          BY <2>1, <4>4, <5>1, <5>2 DEF InRdb
      <4>5. CASE Snaps(r)
        <5> DEFINE m == [kind |-> "rdb", n |-> L]
        <5>1. m \in Msg /\ m.n = L /\ wire'[r] = w \o <<m>>
          BY <1>t, <4>5, Messages DEF Snaps, Kinds
        <5> HIDE DEF m
        <5>2. w \o <<m>> = Append(w, m)
          BY <1>t, <5>1
        <5> QED
          BY <4>4, <5>1, <5>2
      <4>6. CASE Sends(r)
        <5> DEFINE m == [kind |-> "write", n |-> L + 1]
        <5>1. m \in Msg /\ ~IsRdb(m) /\ (wire'[r] = Append(w, m) \/ wire'[r] = w)
          BY <1>t, <4>6, Messages DEF Sends, Kinds, IsRdb
        <5> HIDE DEF m
        <5> QED
          BY <2>1, <4>4, <5>1
      <4>7. CASE Skips(r) \/ Executes(r)
        <5>1. w # <<>> /\ wire'[r] = Tail(w)
          BY <4>7 DEF Skips, Executes, Reads
        <5> QED
          BY <1>t, <1>s, <2>1, <5>1, TailOK
      <4> QED
        BY <2>3, <4>1, <4>2, <4>3, <4>5, <4>6, <4>7, Effects
    <3> QED
      BY <3>1, <3>2 DEF Settled
  <2> QED
    BY <2>2, <2>3
<1> QED
  BY <1>1, <1>2

\* What is safe on a replica stays safe.
LEMMA SafeStays ==
    ASSUME TypeOK, [Next]_vars, NEW r \in Replicas, HandshakeInv(r), StreamInv(r),
           NEW off \in Nat, off <= offset, Safe(r, off)
    PROVE  Safe(r, off)'
<1>1. /\ ~doubled'[r] => ~doubled[r]
      /\ log' = log \/ log' = Append(log, offset + WriteLen)
  <2>1. ASSUME NEW c \in Clients, Write(c) PROVE doubled'[r] = doubled[r] /\ log' = Append(log, offset + WriteLen)
    BY <2>1, WriteAt
  <2>2. ASSUME \/ Quiet(r) \/ Buffers(r) \/ Puts(r) \/ Flushes(r) \/ Empties(r) \/ Takes(r) \/ Ends(r)
        PROVE  (~doubled'[r] => ~doubled[r]) /\ log' = log
    BY <2>2 DEF Quiet, Buffers, Puts, Flushes, Empties, Takes, Ends, Rests, Reads, Cuts
  <2> QED
    BY <2>1, <2>2, AccountEffects
<1> SUFFICES ASSUME ~doubled'[r], NEW i \in 1 .. Len(log'), log'[i] <= off
             PROVE  Settled(wire[r], base[r], applied[r], synced[r], i)'
  BY DEF Safe
<1>2. log \in Seq(Nat) /\ Len(log) \in Nat /\ offset \in Nat /\ WriteLen \in Nat /\ WriteLen > 0
  BY TypesAt, CountsAt, Lengths
<1>3. i \in 1 .. Len(log) /\ log[i] <= off
  <2>1. CASE log' = log
    BY <2>1
  <2>2. CASE log' = Append(log, offset + WriteLen)
    <3>1. i \in 1 .. Len(log) \/ (i = Len(log) + 1 /\ log'[i] = offset + WriteLen)
      BY <1>2, <2>2
    <3>2. i \in 1 .. Len(log)
      BY <1>2, <3>1
    <3> QED
      BY <1>2, <2>2, <3>2
  <2> QED
    BY <1>1, <2>1, <2>2
<1>4. Settled(wire[r], base[r], applied[r], synced[r], i)
  BY <1>1, <1>3 DEF Safe
<1> QED
  BY <1>3, <1>4, SettledStays

(***************************************************************************)
(* WAIT.                                                                   *)
(***************************************************************************)
SafeReplicas(off) == {r \in Replicas : Safe(r, off)}

WaitInv(c) ==
    /\ lastWrite[c] <= offset /\ waiting[c].off <= offset
    /\ waiting[c].pc \in {"none", "start", "poll"} => waiting[c].reply = 0
    /\ waiting[c].pc = "done" => waiting[c].reply <= Cardinality(SafeReplicas(waiting[c].off))

OffsetsInv ==
    /\ ReplicationInv
    /\ \A r \in Replicas : OffsetInv(r)
    /\ \A c \in Clients : WaitInv(c)

\* More replicas count for more.
LEMMA CountMore ==
    ASSUME NEW S, NEW T, S \subseteq T, T \subseteq Replicas
    PROVE  Cardinality(S) \in Nat /\ Cardinality(T) \in Nat /\ Cardinality(S) <= Cardinality(T)
<1>1. IsFiniteSet(T)
  BY ReplicationAssumption, FS_Subset
<1> QED
  BY <1>1, FS_Subset, FS_CardinalityType

\* The types of the state of one WAIT.
LEMMA WaitingAt ==
    ASSUME TypeOK, NEW c \in Clients
    PROVE  /\ waiting[c].off \in Nat /\ waiting[c].reply \in Nat /\ lastWrite[c] \in Nat
           /\ waiting[c].pc \in WaitPcs
           /\ waiting[c] = [pc |-> waiting[c].pc, need |-> waiting[c].need, off |-> waiting[c].off,
                            reply |-> waiting[c].reply]
           /\ DOMAIN waiting = Clients /\ DOMAIN lastWrite = Clients
BY DEF TypeOK

\* What a step does to the WAIT of one client.
LEMMA WaitChanges ==
    ASSUME TypeOK, [Next]_vars, NEW c \in Clients
    PROVE  /\ lastWrite'[c] = lastWrite[c] \/ lastWrite'[c] = offset'
           /\ \/ waiting'[c] = waiting[c]
              \/ /\ waiting[c].pc = "none" /\ waiting'[c].pc = "start"
                 /\ waiting'[c].off = waiting[c].off /\ waiting'[c].reply = waiting[c].reply
              \/ WaitRead(c) \/ WaitAcked(c) \/ WaitTimeout(c)
<1> USE DEF masterVars, goVars, flushVars, connVars, handshakeVars, replicaVars
<1>d. DOMAIN waiting = Clients /\ DOMAIN lastWrite = Clients
  BY WaitingAt
<1>0. ASSUME lastWrite' = lastWrite, waiting' = waiting
      PROVE  lastWrite'[c] = lastWrite[c] /\ waiting'[c] = waiting[c]
  BY <1>0
<1>1. ASSUME NEW e \in Clients, Write(e)
      PROVE  (lastWrite'[c] = lastWrite[c] \/ lastWrite'[c] = offset') /\ waiting'[c] = waiting[c]
  BY <1>1, <1>d DEF Write
<1>2. ASSUME NEW e \in Clients, StartWait(e)
      PROVE  /\ lastWrite'[c] = lastWrite[c]
             /\ \/ waiting'[c] = waiting[c]
                \/ /\ waiting[c].pc = "none" /\ waiting'[c].pc = "start"
                   /\ waiting'[c].off = waiting[c].off /\ waiting'[c].reply = waiting[c].reply
  <2>1. PICK need \in 0 .. Cardinality(Replicas) :
          waiting' = [waiting EXCEPT ![e].pc = "start", ![e].need = need]
    BY <1>2 DEF StartWait
  <2>2. CASE e # c
    BY <1>2, <1>d, <2>1, <2>2 DEF StartWait
  <2>3. CASE e = c
    <3>1. waiting'[c] = [waiting[c] EXCEPT !.pc = "start", !.need = need]
      BY <1>d, <2>1, <2>3
    <3>2. waiting'[c].pc = "start" /\ waiting'[c].off = waiting[c].off /\ waiting'[c].reply = waiting[c].reply
      BY <3>1, WaitingAt
    <3> QED
      BY <1>2, <2>3, <3>2 DEF StartWait
  <2> QED
    BY <2>2, <2>3
<1>3. ASSUME NEW e \in Clients, Waiting(e)
      PROVE  /\ lastWrite'[c] = lastWrite[c]
             /\ waiting'[c] = waiting[c] \/ WaitRead(c) \/ WaitAcked(c) \/ WaitTimeout(c)
  <2>1. lastWrite' = lastWrite
    BY <1>3 DEF Waiting, WaitRead, WaitAcked, WaitTimeout, WaitVarsKept
  <2>2. CASE e # c
    BY <1>3, <1>d, <2>1, <2>2 DEF Waiting, WaitRead, WaitAcked, WaitTimeout
  <2> QED
    BY <1>3, <2>1, <2>2 DEF Waiting
<1>4. ASSUME XAdd \/ GetAckTick \/ PingTick \/ UNCHANGED vars PROVE UNCHANGED <<lastWrite, waiting>>
  BY <1>4 DEF XAdd, GetAckTick, PingTick, vars
<1>5. ASSUME NEW r \in Replicas, Loop(r) PROVE UNCHANGED <<lastWrite, waiting>>
  BY <1>5 DEF Loop, HandlePing, HandlePort, HandleAck, HandlePsync, SendSnapshot, LoopFlush, LoopReset
<1>6. ASSUME NEW r \in Replicas, Goroutines(r) PROVE UNCHANGED <<lastWrite, waiting>>
  BY <1>6 DEF Goroutines, GetAckWrite, PingCount, PingWrite, Flush, FlushEnd
<1>7. ASSUME NEW r \in Replicas, Handshake(r) PROVE UNCHANGED <<lastWrite, waiting>>
  BY <1>7 DEF Handshake, SendRequest, QueueRequest, CheckResponse, HandshakeTimeout
<1>8. ASSUME NEW r \in Replicas, Link(r) PROVE UNCHANGED <<lastWrite, waiting>>
  BY <1>8 DEF Link, ReadAnswer, ReadWrite, ReadGetAck, ReadPing, LoadSnapshot, LoadRefused,
     ReadStrayRdb, ReadSwallowed, ReadEof, LinkKept
<1>9. ASSUME NEW r \in Replicas, Break(r) PROVE UNCHANGED <<lastWrite, waiting>>
  BY <1>9 DEF Break
<1> QED
  BY <1>0, <1>1, <1>2, <1>3, <1>4, <1>5, <1>6, <1>7, <1>8, <1>9 DEF Next

\* Every step keeps the invariant of the WAITs.
LEMMA WaitStep ==
    ASSUME OffsetsInv, [Next]_vars, NEW c \in Clients
    PROVE  WaitInv(c)'
<1> DEFINE t == waiting[c]
<1>i. TypeOK /\ (\A r \in Replicas : HandshakeInv(r) /\ StreamInv(r) /\ OffsetInv(r)) /\ WaitInv(c)
  BY DEF OffsetsInv, ReplicationInv
<1>t. /\ t.off \in Nat /\ t.reply \in Nat /\ lastWrite[c] \in Nat /\ offset \in Nat /\ offset' \in Nat
      /\ DOMAIN waiting = Clients
  <2>1. TypeOK'
    BY <1>i, TypeStep
  <2> QED
    BY <1>i, <2>1, WaitingAt DEF TypeOK
<1>p. TypeOK' /\ waiting'[c].pc \in WaitPcs
  BY <1>i, TypeStep, ZenonT(30) DEF TypeOK
<1>o. offset <= offset'
  <2>1. CASE UNCHANGED <<offset, getters, pinging>>
    BY <1>t, <2>1
  <2>2. CASE \E e \in Clients : Write(e)
    BY <1>t, <2>2, Lengths DEF Write
  <2>3. CASE GetAckRound
    BY <1>t, <2>3, Lengths DEF GetAckRound
  <2>4. CASE \E r \in Replicas : GetAckWrite(r) \/ PingCount(r) \/ PingWrite(r)
    BY <1>t, <2>4, Lengths DEF GetAckWrite, PingCount, PingWrite, masterVars
  <2> QED
    BY <2>1, <2>2, <2>3, <2>4, CreditKept
<1>l. lastWrite'[c] <= offset'
  BY <1>i, <1>t, <1>o, WaitChanges DEF WaitInv
<1>s. ASSUME NEW off \in Nat, off <= offset
      PROVE  /\ Cardinality(SafeReplicas(off)) \in Nat /\ Cardinality(SafeReplicas(off)') \in Nat
             /\ Cardinality(SafeReplicas(off)) <= Cardinality(SafeReplicas(off)')
  <2>1. SafeReplicas(off) \subseteq SafeReplicas(off)'
    BY <1>i, <1>s, SafeStays DEF SafeReplicas
  <2>2. SafeReplicas(off)' \subseteq Replicas
    BY DEF SafeReplicas
  <2> QED
    BY <2>1, <2>2, CountMore
<1>e. ASSUME NEW off \in Nat, waiting'[c].off = off
      PROVE  SafeReplicas(waiting[c].off)' = SafeReplicas(off)'
  BY <1>e DEF SafeReplicas, Safe
<1>1. CASE waiting'[c] = t
  <2>1. t.off <= offset'
    BY <1>i, <1>t, <1>o, <1>1 DEF WaitInv
  <2>2. ASSUME t.pc = "done" PROVE t.reply <= Cardinality(SafeReplicas(waiting[c].off)')
    <3>1. t.reply <= Cardinality(SafeReplicas(t.off)) /\ t.off <= offset
      BY <1>i, <2>2 DEF WaitInv
    <3>2. PICK off \in Nat : off = t.off
      BY <1>t
    <3>3. SafeReplicas(waiting[c].off)' = SafeReplicas(off)' /\ SafeReplicas(t.off) = SafeReplicas(off)
      BY <1>1, <1>e, <3>2
    <3> QED
      BY <1>t, <1>s, <3>1, <3>2, <3>3
  <2> QED
    BY <1>i, <1>l, <1>1, <2>1, <2>2 DEF WaitInv
<1>2. CASE /\ t.pc = "none" /\ waiting'[c].pc = "start"
           /\ waiting'[c].off = t.off /\ waiting'[c].reply = t.reply
  <2>1. waiting'[c].off <= offset'
    BY <1>i, <1>t, <1>o, <1>2 DEF WaitInv
  <2> QED
    BY <1>i, <1>l, <1>2, <2>1 DEF WaitInv
<1>3. CASE WaitRead(c)
  <2>1. t.pc = "start" /\ waiting'[c].off = lastWrite[c] /\ waiting'[c].reply = t.reply
    <3>1. waiting'[c] = [t EXCEPT !.off = lastWrite[c], !.pc = IF lastWrite[c] = 0 THEN "done" ELSE "poll"]
      BY <1>3, <1>t DEF WaitRead
    <3> QED
      BY <1>3, <1>i, <3>1, WaitingAt DEF WaitRead
  <2>2. waiting'[c].reply = 0 /\ waiting'[c].off <= offset'
    BY <1>i, <1>t, <1>o, <2>1 DEF WaitInv
  <2>3. 0 <= Cardinality(SafeReplicas(waiting[c].off)')
    <3>1. SafeReplicas(waiting[c].off)' \subseteq Replicas
      BY DEF SafeReplicas
    <3> QED
      BY <3>1, CountMore
  <2> QED
    BY <1>l, <2>2, <2>3 DEF WaitInv
<1>4. CASE WaitAcked(c)
  <2>1. PICK off \in Nat : off = t.off
    BY <1>t
  <2>2. t.pc = "poll" /\ waiting'[c].pc = "done" /\ waiting'[c].off = off /\ waiting'[c].reply = AckedCount(off)
    <3>1. waiting'[c] = [t EXCEPT !.pc = "done", !.reply = AckedCount(off)]
      BY <1>4, <1>t, <2>1 DEF WaitAcked
    <3> QED
      BY <1>4, <1>i, <2>1, <3>1, WaitingAt DEF WaitAcked
  <2>3. {r \in replicas : acked[r] >= off} \subseteq SafeReplicas(off)
    BY <1>i, AckedIsSafe DEF SafeReplicas, TypeOK
  <2>4. SafeReplicas(off) \subseteq Replicas
    BY DEF SafeReplicas
  <2>5. /\ AckedCount(off) \in Nat /\ Cardinality(SafeReplicas(off)) \in Nat
        /\ AckedCount(off) <= Cardinality(SafeReplicas(off))
    BY <2>3, <2>4, CountMore DEF AckedCount
  <2>6. off <= offset
    BY <1>i, <2>1 DEF WaitInv
  <2>7. waiting'[c].reply <= Cardinality(SafeReplicas(waiting[c].off)')
    <3>1. SafeReplicas(waiting[c].off)' = SafeReplicas(off)'
      BY <1>e, <2>2
    <3> QED
      BY <1>s, <2>2, <2>5, <2>6, <3>1
  <2>8. waiting'[c].off <= offset'
    BY <1>t, <1>o, <2>2, <2>6
  <2> QED
    BY <1>l, <2>2, <2>7, <2>8 DEF WaitInv
<1>5. CASE WaitTimeout(c)
  <2>1. waiting'[c].pc = "timeout" /\ waiting'[c].off = t.off
    <3>1. waiting'[c] = [t EXCEPT !.pc = "timeout", !.reply = Cardinality(replicas)]
      BY <1>5, <1>t DEF WaitTimeout
    <3> QED
      BY <1>i, <3>1, WaitingAt
  <2>2. waiting'[c].off <= offset'
    BY <1>i, <1>t, <1>o, <2>1 DEF WaitInv
  <2> QED
    BY <1>l, <2>1, <2>2 DEF WaitInv
<1> QED
  BY <1>i, <1>1, <1>2, <1>3, <1>4, <1>5, WaitChanges

(***************************************************************************)
(* The theorems.                                                           *)
(***************************************************************************)
\* The whole invariant holds at the start.
LEMMA OffsetsInit == Init => OffsetsInv
<1> SUFFICES ASSUME Init PROVE OffsetsInv
  OBVIOUS
<1>1. ASSUME NEW c \in Clients PROVE WaitInv(c)
  <2>1. waiting[c] = [pc |-> "none", need |-> 0, off |-> 0, reply |-> 0] /\ lastWrite[c] = 0 /\ offset = 0
    BY DEF Init
  <2> QED
    BY <2>1 DEF WaitInv
<1> QED
  BY <1>1, ReplicationInvInit, OffsetInit DEF OffsetsInv

\* Every step keeps the whole invariant.
LEMMA OffsetsStep == OffsetsInv /\ [Next]_vars => OffsetsInv'
<1> SUFFICES ASSUME OffsetsInv, [Next]_vars PROVE OffsetsInv'
  OBVIOUS
<1>1. ReplicationInv'
  BY ReplicationInvStep DEF OffsetsInv
<1>2. ASSUME NEW r \in Replicas PROVE OffsetInv(r)'
  BY OffsetStep DEF OffsetsInv, ReplicationInv
<1>3. ASSUME NEW c \in Clients PROVE WaitInv(c)'
  BY WaitStep
<1> QED
  BY <1>1, <1>2, <1>3 DEF OffsetsInv

\* A replica that is synced holds what is safe on it.
LEMMA SafeHolds ==
    ASSUME NEW r, NEW off, Safe(r, off), synced[r], ~doubled[r],
           NEW i \in 1 .. Len(log), log[i] <= off
    PROVE  Holds(r, i)
BY DEF Safe, Settled, Held, Holds

\* What WAIT relies on: a registered replica that has loaded its snapshot and
\* acknowledges the offset of a write holds that write, unless two flushes of
\* its Writer overlapped and sent a message twice.
THEOREM AcksAreTrue == Spec => []AckMeansHeld
<1>1. OffsetsInv => AckMeansHeld
  <2> SUFFICES ASSUME OffsetsInv, NEW r \in replicas, synced[r], ~doubled[r],
                      NEW i \in 1 .. Len(log), acked[r] >= log[i]
               PROVE  Holds(r, i)
    BY DEF AckMeansHeld
  <2>1. TypeOK /\ r \in Replicas /\ OffsetInv(r)
    BY DEF OffsetsInv, ReplicationInv, TypeOK
  <2>2. log[i] \in Nat /\ log[i] <= log[i]
    <3>1. log \in Seq(Nat)
      BY <2>1 DEF TypeOK
    <3> QED
      BY <3>1
  <2>3. Safe(r, log[i])
    BY <2>1, <2>2, AckedIsSafe
  <2> QED
    BY <2>2, <2>3, SafeHolds
<1> QED
  BY <1>1, OffsetsInit, OffsetsStep, PTL DEF Spec

\* What WAIT answers when it does not time out: so many replicas hold all the
\* writes that its client had made, except those that have joined without a
\* snapshot or were sent a message twice.
THEOREM WaitIsTrue == Spec => []WaitMeansHeld
<1>1. OffsetsInv => WaitMeansHeld
  <2> SUFFICES ASSUME OffsetsInv, NEW c \in Clients, waiting[c].pc = "done"
               PROVE  waiting[c].reply <= Cardinality({r \in Replicas :
                        (synced[r] /\ ~doubled[r]) =>
                          \A i \in 1 .. Len(log) : log[i] <= waiting[c].off => Holds(r, i)})
    BY DEF WaitMeansHeld
  <2> DEFINE T == {r \in Replicas :
                     (synced[r] /\ ~doubled[r]) =>
                       \A i \in 1 .. Len(log) : log[i] <= waiting[c].off => Holds(r, i)}
  <2>1. TypeOK /\ WaitInv(c)
    BY DEF OffsetsInv, ReplicationInv
  <2>2. waiting[c].reply \in Nat /\ waiting[c].reply <= Cardinality(SafeReplicas(waiting[c].off))
    BY <2>1, WaitingAt DEF WaitInv
  <2>3. SafeReplicas(waiting[c].off) \subseteq T /\ T \subseteq Replicas
    BY SafeHolds DEF SafeReplicas
  <2> HIDE DEF T
  <2>4. /\ Cardinality(SafeReplicas(waiting[c].off)) \in Nat /\ Cardinality(T) \in Nat
        /\ Cardinality(SafeReplicas(waiting[c].off)) <= Cardinality(T)
    BY <2>3, CountMore
  <2>5. waiting[c].reply <= Cardinality(T)
    BY <2>2, <2>4
  <2> QED
    BY <2>5 DEF T
<1> QED
  BY <1>1, OffsetsInit, OffsetsStep, PTL DEF Spec

=============================================================================
