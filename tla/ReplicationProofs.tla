------------------------- MODULE ReplicationProofs -------------------------
(***************************************************************************)
(* Proofs about module Replication, for every set of replicas and clients, *)
(* every length of a write and every bound: its types and the handshake.   *)
(* The inductive invariant speaks of one replica at a time.                *)
(***************************************************************************)
EXTENDS Replication, SequenceTheorems, FiniteSetTheorems, TLAPS

(***************************************************************************)
(* Types.                                                                  *)
(***************************************************************************)
\* The first element of a sequence and the rest.
LEMMA HeadTail ==
    ASSUME NEW S, NEW q \in Seq(S), q # <<>>
    PROVE  /\ Head(q) \in S /\ Tail(q) \in Seq(S)
           /\ Head(q) = q[1] /\ 1 \in 1 .. Len(q)
           /\ \A i \in 1 .. Len(Tail(q)) : i + 1 \in 1 .. Len(q) /\ Tail(q)[i] = q[i + 1]
           /\ \A i \in 1 .. Len(q) : i = 1 \/ (i - 1 \in 1 .. Len(Tail(q)) /\ q[i] = Tail(q)[i - 1])
OBVIOUS

\* Changing one place of a function, and counters.
LEMMA Excepted ==
    ASSUME NEW S, NEW T, NEW f \in [S -> T], NEW r \in S, NEW x \in T
    PROVE  [f EXCEPT ![r] = x] \in [S -> T]
OBVIOUS

\* Counting up, and down from above zero, leaves counters behind.
LEMMA Counters ==
    ASSUME NEW S, NEW f \in [S -> Nat], NEW r \in S
    PROVE  /\ [f EXCEPT ![r] = @ + 1] \in [S -> Nat]
           /\ f[r] > 0 => [f EXCEPT ![r] = @ - 1] \in [S -> Nat]
<1>1. f[r] \in Nat /\ f[r] + 1 \in Nat /\ (f[r] > 0 => f[r] - 1 \in Nat)
  OBVIOUS
<1> QED
  BY <1>1

\* Counting up some of the counters leaves counters behind.
LEMMA CountedFor ==
    ASSUME NEW S, NEW f \in [S -> Nat], NEW T
    PROVE  [r \in S |-> f[r] + (IF r \in T THEN 1 ELSE 0)] \in [S -> Nat]
<1>1. \A r \in S : f[r] + (IF r \in T THEN 1 ELSE 0) \in Nat
  OBVIOUS
<1> QED
  BY <1>1

\* What the master writes are messages.
LEMMA Messages ==
    /\ \A k \in Kinds, n \in Nat : [kind |-> k, n |-> n] \in Msg
    /\ \A k \in Requests \cup {"ack"}, n \in Nat : [kind |-> k, n |-> n] \in UpMsg
BY DEF Msg, UpMsg

\* Put leaves a wire behind.
LEMMA PutType ==
    ASSUME TypeOK, NEW r \in Replicas, NEW ms \in Seq(Msg), Put(r, ms)
    PROVE  wire' \in [Replicas -> Seq(Msg)]
<1>1. wire[r] \o ms \in Seq(Msg)
  BY DEF TypeOK
<1> QED
  BY <1>1 DEF TypeOK, Put

\* Buffer leaves a write buffer behind.
LEMMA BufferType ==
    ASSUME TypeOK, NEW r \in Replicas, NEW m \in Msg, Buffer(r, m)
    PROVE  wbuf' \in [Replicas -> Seq(Msg)]
<1>1. Append(wbuf[r], m) \in Seq(Msg)
  BY DEF TypeOK
<1> QED
  BY <1>1 DEF TypeOK, Buffer

\* TakeUp leaves a way up behind.
LEMMA TakeUpType ==
    ASSUME TypeOK, NEW r \in Replicas, NEW k, TakeUp(r, k)
    PROVE  up' \in [Replicas -> Seq(UpMsg)] /\ Head(up[r]) \in UpMsg
<1>1. Head(up[r]) \in UpMsg /\ Tail(up[r]) \in Seq(UpMsg)
  BY HeadTail DEF TypeOK, TakeUp
<1> QED
  BY <1>1 DEF TypeOK, TakeUp

\* GoOn leaves a state of the loop behind.
LEMMA GoOnType ==
    ASSUME TypeOK, NEW r \in Replicas, NEW pc \in LoopPcs, GoOn(pc, r)
    PROVE  loop' \in [pc : LoopPcs, conn : Replicas \cup {NoConn}, n : Nat]
BY DEF GoOn

\* Idle is a state of the loop.
LEMMA IdleType == Idle \in [pc : LoopPcs, conn : Replicas \cup {NoConn}, n : Nat]
BY DEF Idle, LoopPcs

\* FlushWrite keeps the types.
LEMMA FlushWriteType ==
    ASSUME TypeOK, NEW r \in Replicas, FlushWrite(r)
    PROVE  /\ wire' \in [Replicas -> Seq(Msg)] /\ flushed' \in [Replicas -> Nat]
           /\ doubled' \in [Replicas -> BOOLEAN] /\ Len(wbuf[r]) \in Nat
<1>1. wbuf[r] \in Seq(Msg)
  BY DEF TypeOK
<1>2. wire' \in [Replicas -> Seq(Msg)]
  BY <1>1, PutType DEF FlushWrite
<1>3. Len(wbuf[r]) \in Nat
  BY <1>1
<1> QED
  BY <1>2, <1>3 DEF FlushWrite, TypeOK

\* FlushReset keeps the types.
LEMMA FlushResetType ==
    ASSUME TypeOK, NEW r \in Replicas, FlushReset(r)
    PROVE  wbuf' \in [Replicas -> Seq(Msg)] /\ flushed' \in [Replicas -> Nat]
<1>1. wbuf \in [Replicas -> Seq(Msg)] /\ flushed \in [Replicas -> Nat] /\ <<>> \in Seq(Msg)
  BY EmptySeq DEF TypeOK
<1> QED
  BY <1>1 DEF FlushReset

\* Receive takes a message and leaves a wire behind.
LEMMA ReceiveType ==
    ASSUME TypeOK, NEW r \in Replicas, Receive(r)
    PROVE  /\ wire' \in [Replicas -> Seq(Msg)]
           /\ Head(wire[r]) \in Msg /\ Head(wire[r]).kind \in Kinds /\ Head(wire[r]).n \in Nat
<1>1. Head(wire[r]) \in Msg /\ Tail(wire[r]) \in Seq(Msg)
  BY HeadTail DEF TypeOK, Receive
<1> QED
  BY <1>1 DEF TypeOK, Receive, Msg

\* dispatchResponse keeps the types.
LEMMA DispatchType ==
    ASSUME TypeOK, NEW r \in Replicas, NEW k \in Kinds \cup {"bulk"}, dispatchResponse(r, k)
    PROVE  /\ phase' \in [Replicas -> {"send", "sent", "wait", "got"}]
           /\ got' \in [Replicas -> Kinds \cup {"bulk"}]
<1>1. CASE phase[r] = "wait"
  <2>1. phase' = [phase EXCEPT ![r] = "got"] /\ got' = [got EXCEPT ![r] = k]
    BY <1>1 DEF dispatchResponse
  <2>2. phase \in [Replicas -> {"send", "sent", "wait", "got"}]
    BY DEF TypeOK
  <2>3. got \in [Replicas -> Kinds \cup {"bulk"}]
    BY DEF TypeOK
  <2> QED
    BY <2>1, <2>2, <2>3
<1>2. CASE phase[r] # "wait"
  BY <1>2 DEF TypeOK, dispatchResponse
<1> QED
  BY <1>1, <1>2

\* The master's loop keeps the types.
LEMMA LoopTypes == ASSUME TypeOK, NEW r \in Replicas, Loop(r) PROVE TypeOK'
<1> USE DEF masterVars, goVars, flushVars, connVars, handshakeVars, replicaVars
<1>k. /\ {"ok", "full", "error", "rdb"} \subseteq Kinds /\ 0 \in Nat /\ Len(log) \in Nat
      /\ {"send", "full", "reset", "fullreset", "rdb"} \subseteq LoopPcs
  BY DEF Kinds, LoopPcs, TypeOK
<1>m. \A k \in {"ok", "full", "error"} : [kind |-> k, n |-> 0] \in Msg
  BY <1>k, Messages
<1>1. CASE HandlePing(r)
  <2>1. up' \in [Replicas -> Seq(UpMsg)]
    BY <1>1, TakeUpType DEF HandlePing
  <2>2. wbuf' \in [Replicas -> Seq(Msg)] /\ loop' \in [pc : LoopPcs, conn : Replicas \cup {NoConn}, n : Nat]
    BY <1>1, <1>k, <1>m, BufferType, GoOnType DEF HandlePing
  <2> QED
    BY <1>1, <2>1, <2>2 DEF HandlePing, TypeOK
<1>2. CASE HandlePort(r)
  <2>1. up' \in [Replicas -> Seq(UpMsg)]
    BY <1>2, TakeUpType DEF HandlePort
  <2>2. wbuf' \in [Replicas -> Seq(Msg)] /\ loop' \in [pc : LoopPcs, conn : Replicas \cup {NoConn}, n : Nat]
    BY <1>2, <1>k, <1>m, BufferType, GoOnType DEF HandlePort
  <2> QED
    BY <1>2, <2>1, <2>2 DEF HandlePort, TypeOK
<1>3. CASE HandleAck(r)
  <2>1. up' \in [Replicas -> Seq(UpMsg)] /\ Head(up[r]) \in UpMsg
    BY <1>3, TakeUpType DEF HandleAck
  <2>2. loop' \in [pc : LoopPcs, conn : Replicas \cup {NoConn}, n : Nat]
    BY <1>3, <1>k, GoOnType DEF HandleAck
  <2>3. acked' \in [Replicas -> Nat]
    BY <1>3, <2>1 DEF HandleAck, TypeOK, UpMsg
  <2> QED
    BY <1>3, <2>1, <2>2, <2>3 DEF HandleAck, TypeOK
<1>4. CASE HandlePsync(r)
  <2>1. up' \in [Replicas -> Seq(UpMsg)]
    BY <1>4, TakeUpType DEF HandlePsync
  <2>2. wbuf' \in [Replicas -> Seq(Msg)] /\ loop' \in [pc : LoopPcs, conn : Replicas \cup {NoConn}, n : Nat]
    BY <1>4, <1>k, <1>m, BufferType, GoOnType DEF HandlePsync
  <2> QED
    BY <1>4, <2>1, <2>2 DEF HandlePsync, TypeOK
<1>5. CASE SendSnapshot(r)
  <2>1. <<[kind |-> "rdb", n |-> Len(log)]>> \in Seq(Msg)
    <3>1. [kind |-> "rdb", n |-> Len(log)] \in Msg
      BY <1>k, Messages
    <3> QED
      BY <3>1
  <2>2. wire' \in [Replicas -> Seq(Msg)] /\ wbuf' \in [Replicas -> Seq(Msg)]
    <3>1. CASE Put(r, <<[kind |-> "rdb", n |-> Len(log)]>>) /\ UNCHANGED wbuf
      BY <2>1, <3>1, PutType DEF TypeOK
    <3>2. CASE Buffer(r, [kind |-> "error", n |-> 0]) /\ UNCHANGED wire
      BY <1>m, <3>2, BufferType DEF TypeOK
    <3> QED
      BY <1>5, <3>1, <3>2 DEF SendSnapshot
  <2>3. loop' \in [pc : LoopPcs, conn : Replicas \cup {NoConn}, n : Nat]
    BY <1>5, <1>k, GoOnType DEF SendSnapshot
  <2> QED
    BY <1>5, <2>2, <2>3 DEF SendSnapshot, TypeOK
<1>6. CASE LoopFlush(r)
  <2>1. loop' \in [pc : LoopPcs, conn : Replicas \cup {NoConn}, n : Nat]
    <3>1. Len(wbuf[r]) \in Nat
      BY DEF TypeOK
    <3>2. \/ loop' = Idle \/ GoOn("rdb", r)
          \/ \E pc \in {"reset", "fullreset"} : loop' = [pc |-> pc, conn |-> r, n |-> Len(wbuf[r])]
      BY <1>6 DEF LoopFlush
    <3> QED
      BY <1>k, <3>1, <3>2, GoOnType, IdleType
  <2>2. CASE FlushWrite(r) /\ UNCHANGED closed
    BY <1>6, <2>1, <2>2, FlushWriteType DEF LoopFlush, TypeOK
  <2>3. CASE UNCHANGED <<wire, flushed, doubled>> /\ closed' \in [Replicas -> BOOLEAN]
    BY <1>6, <2>1, <2>3 DEF LoopFlush, TypeOK
  <2> QED
    BY <1>6, <2>2, <2>3 DEF LoopFlush, TypeOK
<1>7. CASE LoopReset(r)
  <2>1. loop' \in [pc : LoopPcs, conn : Replicas \cup {NoConn}, n : Nat]
    BY <1>7, <1>k, GoOnType, IdleType DEF LoopReset
  <2>2. /\ wbuf' \in [Replicas -> Seq(Msg)] /\ flushed' \in [Replicas -> Nat]
        /\ closed' \in [Replicas -> BOOLEAN]
    <3>1. CASE FlushReset(r) /\ UNCHANGED closed
      BY <3>1, FlushResetType DEF TypeOK
    <3>2. CASE closed' = [closed EXCEPT ![r] = TRUE] /\ UNCHANGED <<wbuf, flushed>>
      BY <3>2 DEF TypeOK
    <3> QED
      BY <1>7, <3>1, <3>2 DEF LoopReset
  <2> QED
    BY <1>7, <2>1, <2>2 DEF LoopReset, TypeOK
<1> QED
  BY <1>1, <1>2, <1>3, <1>4, <1>5, <1>6, <1>7 DEF Loop

\* Its goroutines keep the types.
LEMMA GoroutineTypes == ASSUME TypeOK, NEW r \in Replicas, Goroutines(r) PROVE TypeOK'
<1> USE DEF masterVars, goVars, flushVars, connVars, handshakeVars, replicaVars
<1>m. [kind |-> "getack", n |-> 0] \in Msg /\ <<[kind |-> "ping", n |-> 0]>> \in Seq(Msg)
  <2>1. \A k \in {"getack", "ping"} : [kind |-> k, n |-> 0] \in Msg
    BY Messages DEF Kinds
  <2> QED
    BY <2>1
<1>1. CASE GetAckWrite(r)
  <2>1. wbuf' \in [Replicas -> Seq(Msg)]
    BY <1>1, <1>m, BufferType DEF GetAckWrite
  <2>2. getters' \in [Replicas -> Nat] /\ flushers' \in [Replicas -> Nat]
    BY <1>1, Counters DEF GetAckWrite, TypeOK
  <2> QED
    BY <1>1, <2>1, <2>2 DEF GetAckWrite, TypeOK
<1>2. CASE PingCount(r)
  <2>1. pingers' \in [Replicas -> Nat] /\ pinging' \in [Replicas -> Nat]
    BY <1>2, Counters DEF PingCount, TypeOK
  <2>2. offset' \in Nat
    BY <1>2 DEF PingCount, PingLen, TypeOK
  <2> QED
    BY <1>2, <2>1, <2>2 DEF PingCount, TypeOK
<1>3. CASE PingWrite(r)
  <2>1. pinging' \in [Replicas -> Nat]
    BY <1>3, Counters DEF PingWrite, TypeOK
  <2>2. /\ wire' \in [Replicas -> Seq(Msg)] /\ flushers' \in [Replicas -> Nat]
        /\ replicas' \subseteq Replicas /\ closed' \in [Replicas -> BOOLEAN]
    <3>1. CASE /\ Put(r, <<[kind |-> "ping", n |-> 0]>>)
               /\ flushers' = [flushers EXCEPT ![r] = @ + 1] /\ UNCHANGED <<replicas, closed>>
      BY <1>m, <3>1, PutType, Counters DEF TypeOK
    <3>2. CASE removeReplica(r) /\ UNCHANGED <<wire, flushers>>
      BY <3>2 DEF TypeOK, removeReplica
    <3> QED
      BY <1>3, <3>1, <3>2 DEF PingWrite
  <2> QED
    BY <1>3, <2>1, <2>2 DEF PingWrite, TypeOK
<1>4. CASE Flush(r)
  <2>1. flushers' \in [Replicas -> Nat]
    BY <1>4, Counters DEF Flush, TypeOK
  <2>2. CASE FlushWrite(r) /\ resetters' = [resetters EXCEPT ![r] = Append(@, Len(wbuf[r]))]
             /\ UNCHANGED <<replicas, closed>>
    <3>1. Append(resetters[r], Len(wbuf[r])) \in Seq(Nat)
      BY DEF TypeOK
    <3>2. resetters' \in [Replicas -> Seq(Nat)]
      BY <2>2, <3>1 DEF TypeOK
    <3> QED
      BY <1>4, <2>1, <2>2, <3>2, FlushWriteType DEF Flush, TypeOK
  <2>3. CASE UNCHANGED <<resetters, flushed, wire, doubled>>
    BY <1>4, <2>1, <2>3 DEF Flush, TypeOK, removeReplica
  <2> QED
    BY <1>4, <2>2, <2>3 DEF Flush
<1>5. CASE FlushEnd(r)
  <2>1. resetters' \in [Replicas -> Seq(Nat)]
    <3>1. PICK j \in 1 .. Len(resetters[r]) : resetters' = [resetters EXCEPT ![r] =
            SubSeq(@, 1, j - 1) \o SubSeq(@, j + 1, Len(@))]
      BY <1>5 DEF FlushEnd
    <3>2. resetters[r] \in Seq(Nat)
      BY DEF TypeOK
    <3>3. SubSeq(resetters[r], 1, j - 1) \in Seq(Nat) /\ SubSeq(resetters[r], j + 1, Len(resetters[r])) \in Seq(Nat)
      BY <3>2
    <3>4. SubSeq(resetters[r], 1, j - 1) \o SubSeq(resetters[r], j + 1, Len(resetters[r])) \in Seq(Nat)
      BY <3>3
    <3>5. resetters \in [Replicas -> Seq(Nat)]
      BY DEF TypeOK
    <3> QED
      BY <3>1, <3>4, <3>5
  <2>2. /\ wbuf' \in [Replicas -> Seq(Msg)] /\ flushed' \in [Replicas -> Nat]
        /\ replicas' \subseteq Replicas /\ closed' \in [Replicas -> BOOLEAN]
    <3>1. CASE FlushReset(r) /\ UNCHANGED <<replicas, closed>>
      BY <3>1, FlushResetType DEF TypeOK
    <3>2. CASE removeReplica(r) /\ UNCHANGED <<wbuf, flushed>>
      BY <3>2 DEF removeReplica, TypeOK
    <3> QED
      BY <1>5, <3>1, <3>2 DEF FlushEnd
  <2> QED
    BY <1>5, <2>1, <2>2 DEF FlushEnd, TypeOK
<1> QED
  BY <1>1, <1>2, <1>3, <1>4, <1>5 DEF Goroutines

\* Exit keeps the types.
LEMMA ExitType ==
    ASSUME TypeOK, NEW r \in Replicas, Exit(r)
    PROVE  /\ hs' \in [Replicas -> Requests \cup {"done", "failed"}]
           /\ wire' \in [Replicas -> Seq(Msg)] /\ down' \in [Replicas -> BOOLEAN]
           /\ reader' \in [Replicas -> {"run", "load", "swallow", "stop"}]
<1>1. hs \in [Replicas -> Requests \cup {"done", "failed"}]
  BY DEF TypeOK
<1>2. /\ wire \in [Replicas -> Seq(Msg)] /\ down \in [Replicas -> BOOLEAN]
      /\ reader \in [Replicas -> {"run", "load", "swallow", "stop"}] /\ <<>> \in Seq(Msg)
  BY EmptySeq DEF TypeOK
<1> QED
  BY <1>1, <1>2, Excepted DEF Exit

\* The handshake keeps the types.
LEMMA HandshakeTypes == ASSUME TypeOK, NEW r \in Replicas, Handshake(r) PROVE TypeOK'
<1> USE DEF masterVars, goVars, flushVars, connVars, handshakeVars, replicaVars
<1>p. /\ phase \in [Replicas -> {"send", "sent", "wait", "got"}]
      /\ hs \in [Replicas -> Requests \cup {"done", "failed"}]
  BY DEF TypeOK
<1>1. CASE SendRequest(r)
  <2>1. CASE Exit(r) /\ UNCHANGED <<up, phase>>
    BY <1>1, <2>1, ExitType DEF SendRequest, TypeOK
  <2>2. CASE /\ up' = [up EXCEPT ![r] = Append(@, [kind |-> hs[r], n |-> 0])]
             /\ phase' = [phase EXCEPT ![r] = "sent"]
             /\ UNCHANGED <<hs, reader, down, wire>>
    <3>1. [kind |-> hs[r], n |-> 0] \in UpMsg
      BY <1>1, Messages DEF SendRequest
    <3>2. Append(up[r], [kind |-> hs[r], n |-> 0]) \in Seq(UpMsg) /\ up \in [Replicas -> Seq(UpMsg)]
      BY <3>1 DEF TypeOK
    <3>3. up' \in [Replicas -> Seq(UpMsg)] /\ phase' \in [Replicas -> {"send", "sent", "wait", "got"}]
      BY <1>p, <2>2, <3>2
    <3> QED
      BY <1>1, <2>2, <3>3 DEF SendRequest, TypeOK
  <2> QED
    BY <1>1, <2>1, <2>2 DEF SendRequest
<1>2. CASE QueueRequest(r)
  <2>1. phase' \in [Replicas -> {"send", "sent", "wait", "got"}]
    BY <1>2, <1>p DEF QueueRequest
  <2> QED
    BY <1>2, <2>1 DEF QueueRequest, TypeOK
<1>3. CASE CheckResponse(r)
  <2>1. CASE Exit(r) /\ UNCHANGED phase
    BY <1>3, <2>1, ExitType DEF CheckResponse, TypeOK
  <2>2. CASE /\ hs' = [hs EXCEPT ![r] = Following(@)] /\ phase' = [phase EXCEPT ![r] = "send"]
             /\ UNCHANGED <<reader, down, wire>>
    <3>1. Following(hs[r]) \in Requests \cup {"done", "failed"}
      BY DEF Following, Requests
    <3>2. /\ hs' \in [Replicas -> Requests \cup {"done", "failed"}]
          /\ phase' \in [Replicas -> {"send", "sent", "wait", "got"}]
      BY <1>p, <2>2, <3>1
    <3> QED
      BY <1>3, <2>2, <3>2 DEF CheckResponse, TypeOK
  <2> QED
    BY <1>3, <2>1, <2>2 DEF CheckResponse
<1>4. CASE HandshakeTimeout(r)
  BY <1>4, ExitType DEF HandshakeTimeout, TypeOK
<1> QED
  BY <1>1, <1>2, <1>3, <1>4 DEF Handshake

\* The reader of the master link keeps the types.
LEMMA LinkTypes == ASSUME TypeOK, NEW r \in Replicas, Link(r) PROVE TypeOK'
<1> USE DEF masterVars, goVars, flushVars, connVars, handshakeVars, replicaVars
<1>p. /\ reader \in [Replicas -> {"run", "load", "swallow", "stop"}]
      /\ roff \in [Replicas -> Nat] /\ up \in [Replicas -> Seq(UpMsg)] /\ roff[r] \in Nat
      /\ applied \in [Replicas -> Seq(Nat)] /\ <<>> \in Seq(Nat)
      /\ base \in [Replicas -> Nat] /\ synced \in [Replicas -> BOOLEAN]
  BY EmptySeq DEF TypeOK
<1>k. {"write", "getack", "ping"} \subseteq Kinds \cup {"bulk"} /\ "bulk" \in Kinds \cup {"bulk"}
  BY DEF Kinds
<1>1. CASE ReadAnswer(r)
  <2>1. wire' \in [Replicas -> Seq(Msg)] /\ Head(wire[r]).kind \in Kinds \cup {"bulk"}
    BY <1>1, ReceiveType DEF ReadAnswer
  <2>2. /\ phase' \in [Replicas -> {"send", "sent", "wait", "got"}]
        /\ got' \in [Replicas -> Kinds \cup {"bulk"}]
    BY <1>1, <2>1, DispatchType DEF ReadAnswer
  <2>3. reader' \in [Replicas -> {"run", "load", "swallow", "stop"}]
    BY <1>1, <1>p DEF ReadAnswer
  <2> QED
    BY <1>1, <2>1, <2>2, <2>3 DEF ReadAnswer, LinkKept, TypeOK
<1>2. CASE ReadWrite(r)
  <2>1. wire' \in [Replicas -> Seq(Msg)] /\ Head(wire[r]).n \in Nat
    BY <1>2, ReceiveType DEF ReadWrite
  <2>2. /\ phase' \in [Replicas -> {"send", "sent", "wait", "got"}]
        /\ got' \in [Replicas -> Kinds \cup {"bulk"}]
    BY <1>2, <1>k, DispatchType DEF ReadWrite
  <2>3. Append(applied[r], Head(wire[r]).n) \in Seq(Nat) /\ roff[r] + WriteLen \in Nat
    BY <2>1, <1>p, ReplicationAssumption
  <2>4. applied' \in [Replicas -> Seq(Nat)] /\ roff' \in [Replicas -> Nat]
    BY <1>2, <1>p, <2>3 DEF ReadWrite
  <2> QED
    BY <1>2, <2>1, <2>2, <2>4 DEF ReadWrite, LinkKept, TypeOK
<1>3. CASE ReadGetAck(r)
  <2>1. wire' \in [Replicas -> Seq(Msg)]
    BY <1>3, ReceiveType DEF ReadGetAck
  <2>2. /\ phase' \in [Replicas -> {"send", "sent", "wait", "got"}]
        /\ got' \in [Replicas -> Kinds \cup {"bulk"}]
    BY <1>3, <1>k, DispatchType DEF ReadGetAck
  <2>3. Append(up[r], [kind |-> "ack", n |-> roff[r]]) \in Seq(UpMsg) /\ up[r] \in Seq(UpMsg)
    <3>1. [kind |-> "ack", n |-> roff[r]] \in UpMsg
      BY <1>p, Messages
    <3> QED
      BY <1>p, <3>1
  <2>4. roff[r] + GetAckLen \in Nat
    BY <1>p DEF GetAckLen
  <2>5. up' \in [Replicas -> Seq(UpMsg)] /\ roff' \in [Replicas -> Nat]
    BY <1>3, <1>p, <2>3, <2>4 DEF ReadGetAck
  <2> QED
    BY <1>3, <2>1, <2>2, <2>5 DEF ReadGetAck, LinkKept, TypeOK
<1>4. CASE ReadPing(r)
  <2>1. wire' \in [Replicas -> Seq(Msg)]
    BY <1>4, ReceiveType DEF ReadPing
  <2>2. /\ phase' \in [Replicas -> {"send", "sent", "wait", "got"}]
        /\ got' \in [Replicas -> Kinds \cup {"bulk"}]
    BY <1>4, <1>k, DispatchType DEF ReadPing
  <2>3. roff[r] + PingLen \in Nat
    BY <1>p DEF PingLen
  <2>4. roff' \in [Replicas -> Nat]
    BY <1>4, <1>p, <2>3 DEF ReadPing
  <2> QED
    BY <1>4, <2>1, <2>2, <2>4 DEF ReadPing, LinkKept, TypeOK
<1>5. CASE LoadSnapshot(r)
  <2>1. wire' \in [Replicas -> Seq(Msg)] /\ Head(wire[r]).n \in Nat
    BY <1>5, ReceiveType DEF LoadSnapshot
  <2>2. /\ synced' \in [Replicas -> BOOLEAN] /\ base' \in [Replicas -> Nat]
        /\ reader' \in [Replicas -> {"run", "load", "swallow", "stop"}]
    BY <1>5, <1>p, <2>1 DEF LoadSnapshot
  <2>3. applied' \in [Replicas -> Seq(Nat)]
    BY <1>5, <1>p DEF LoadSnapshot
  <2> QED
    BY <1>5, <2>1, <2>2, <2>3 DEF LoadSnapshot, LinkKept, TypeOK
<1>6. CASE LoadRefused(r)
  <2>1. wire' \in [Replicas -> Seq(Msg)]
    BY <1>6, ReceiveType DEF LoadRefused
  <2>2. /\ phase' \in [Replicas -> {"send", "sent", "wait", "got"}]
        /\ got' \in [Replicas -> Kinds \cup {"bulk"}]
    <3>1. CASE dispatchResponse(r, "bulk")
      BY <1>k, <3>1, DispatchType
    <3>2. CASE UNCHANGED <<phase, got>>
      BY <3>2 DEF TypeOK
    <3> QED
      BY <1>6, <3>1, <3>2 DEF LoadRefused
  <2>3. reader' \in [Replicas -> {"run", "load", "swallow", "stop"}]
    BY <1>6, <1>p DEF LoadRefused
  <2> QED
    BY <1>6, <2>1, <2>2, <2>3 DEF LoadRefused, LinkKept, TypeOK
<1>7. CASE ReadStrayRdb(r)
  <2>1. wire' \in [Replicas -> Seq(Msg)]
    BY <1>7, ReceiveType DEF ReadStrayRdb
  <2>2. reader' \in [Replicas -> {"run", "load", "swallow", "stop"}]
    BY <1>7, <1>p DEF ReadStrayRdb
  <2> QED
    BY <1>7, <2>1, <2>2 DEF ReadStrayRdb, LinkKept, TypeOK
<1>8. CASE ReadSwallowed(r)
  <2>1. wire' \in [Replicas -> Seq(Msg)]
    BY <1>8, ReceiveType DEF ReadSwallowed
  <2>2. /\ phase' \in [Replicas -> {"send", "sent", "wait", "got"}]
        /\ got' \in [Replicas -> Kinds \cup {"bulk"}]
    BY <1>8, <1>k, DispatchType DEF ReadSwallowed
  <2>3. reader' \in [Replicas -> {"run", "load", "swallow", "stop"}]
    BY <1>8, <1>p DEF ReadSwallowed
  <2> QED
    BY <1>8, <2>1, <2>2, <2>3 DEF ReadSwallowed, LinkKept, TypeOK
<1>9. CASE ReadEof(r)
  <2>1. wire' \in [Replicas -> Seq(Msg)] /\ down' \in [Replicas -> BOOLEAN]
    BY <1>9, EmptySeq, Excepted DEF ReadEof, TypeOK
  <2>2. reader' \in [Replicas -> {"run", "load", "swallow", "stop"}]
    BY <1>9, <1>p DEF ReadEof
  <2> QED
    BY <1>9, <2>1, <2>2 DEF ReadEof, TypeOK
<1> QED
  BY <1>1, <1>2, <1>3, <1>4, <1>5, <1>6, <1>7, <1>8, <1>9 DEF Link

\* WAIT counts replicas.
LEMMA Counts == ASSUME TypeOK, NEW off PROVE AckedCount(off) \in Nat /\ Cardinality(replicas) \in Nat
<1>1. IsFiniteSet(Replicas)
  BY ReplicationAssumption
<1>2. IsFiniteSet(replicas) /\ IsFiniteSet({r \in replicas : acked[r] >= off})
  BY <1>1, FS_Subset DEF TypeOK
<1> QED
  BY <1>2, FS_CardinalityType DEF AckedCount

\* The clients' commands and the tickers keep the types.
LEMMA ClientTypes ==
    ASSUME TypeOK, \/ XAdd \/ GetAckTick \/ PingTick
                   \/ \E c \in Clients : Write(c) \/ StartWait(c) \/ Waiting(c)
    PROVE  TypeOK'
<1> USE DEF masterVars, goVars, flushVars, connVars, handshakeVars, replicaVars
<1>g. GetAckRound => offset' \in Nat /\ getters' \in [Replicas -> Nat]
  <2> SUFFICES ASSUME GetAckRound PROVE offset' \in Nat /\ getters' \in [Replicas -> Nat]
    OBVIOUS
  <2>1. offset' \in Nat
    BY DEF GetAckRound, GetAckLen, TypeOK
  <2>2. getters \in [Replicas -> Nat]
    BY DEF TypeOK
  <2>3. getters' \in [Replicas -> Nat]
    BY <2>2, CountedFor DEF GetAckRound
  <2> QED
    BY <2>1, <2>3
<1>w. waiting \in [Clients -> [pc : WaitPcs, need : Nat, off : Nat, reply : Nat]]
  BY DEF TypeOK
<1>p. {"start", "poll", "done", "timeout"} \subseteq WaitPcs
  BY DEF WaitPcs
<1>1. ASSUME NEW c \in Clients, Write(c) PROVE TypeOK'
  <2>1. offset + WriteLen \in Nat /\ Len(log) + 1 \in Nat
    BY ReplicationAssumption DEF TypeOK
  <2>2. offset' \in Nat /\ log' \in Seq(Nat) /\ lastWrite' \in [Clients -> Nat]
    BY <1>1, <2>1 DEF Write, TypeOK
  <2>3. replicas' \subseteq Replicas /\ closed' \in [Replicas -> BOOLEAN]
    BY <1>1 DEF Write, TypeOK
  <2>4. wire' \in [Replicas -> Seq(Msg)]
    <3>1. PICK failing \in SUBSET {r \in replicas : MayFail(r)} :
            wire' = [r \in Replicas |->
              IF r \in replicas \ failing /\ ~down[r]
              THEN Append(wire[r], [kind |-> "write", n |-> Len(log) + 1])
              ELSE wire[r]]
      BY <1>1 DEF Write
    <3>2. [kind |-> "write", n |-> Len(log) + 1] \in Msg
      BY <2>1, Messages DEF Kinds
    <3>3. \A r \in Replicas : /\ wire[r] \in Seq(Msg)
                              /\ Append(wire[r], [kind |-> "write", n |-> Len(log) + 1]) \in Seq(Msg)
      BY <3>2 DEF TypeOK
    <3> QED
      BY <3>1, <3>3
  <2> QED
    BY <1>1, <2>2, <2>3, <2>4 DEF Write, TypeOK
<1>2. ASSUME NEW c \in Clients, StartWait(c) PROVE TypeOK'
  <2>1. PICK need \in 0 .. Cardinality(Replicas) :
          waiting' = [waiting EXCEPT ![c].pc = "start", ![c].need = need]
    BY <1>2 DEF StartWait
  <2>2. need \in Nat
    BY ReplicationAssumption, FS_CardinalityType
  <2>3. waiting' \in [Clients -> [pc : WaitPcs, need : Nat, off : Nat, reply : Nat]]
    BY <1>w, <1>p, <2>1, <2>2
  <2> QED
    BY <1>2, <1>g, <2>3 DEF StartWait, TypeOK
<1>3. ASSUME NEW c \in Clients, Waiting(c) PROVE TypeOK'
  <2>1. waiting' \in [Clients -> [pc : WaitPcs, need : Nat, off : Nat, reply : Nat]]
    <3>1. CASE WaitRead(c)
      <4>1. lastWrite[c] \in Nat
        BY DEF TypeOK
      <4>2. \E pc \in {"done", "poll"} : waiting' = [waiting EXCEPT ![c].off = lastWrite[c], ![c].pc = pc]
        BY <3>1 DEF WaitRead
      <4> QED
        BY <1>w, <1>p, <4>1, <4>2, ZenonT(30)
    <3>2. CASE WaitAcked(c)
      <4>1. AckedCount(waiting[c].off) \in Nat
        BY Counts
      <4> QED
        BY <1>w, <1>p, <3>2, <4>1 DEF WaitAcked
    <3>3. CASE WaitTimeout(c)
      <4>1. Cardinality(replicas) \in Nat
        BY Counts
      <4> QED
        BY <1>w, <1>p, <3>3, <4>1 DEF WaitTimeout
    <3> QED
      BY <1>3, <3>1, <3>2, <3>3 DEF Waiting
  <2>2. WaitVarsKept
    BY <1>3 DEF Waiting, WaitRead, WaitAcked, WaitTimeout
  <2> QED
    BY <2>1, <2>2 DEF WaitVarsKept, TypeOK
<1>4. CASE XAdd
  BY <1>4 DEF XAdd, TypeOK
<1>5. CASE GetAckTick
  <2>1. getAckRounds' \in Nat
    BY <1>5 DEF GetAckTick, TypeOK
  <2> QED
    BY <1>5, <1>g, <2>1 DEF GetAckTick, TypeOK
<1>6. CASE PingTick
  <2>1. pingRounds' \in Nat /\ pingers \in [Replicas -> Nat]
    BY <1>6 DEF PingTick, TypeOK
  <2>2. pingers' \in [Replicas -> Nat]
    BY <1>6, <2>1, CountedFor DEF PingTick
  <2> QED
    BY <1>6, <2>1, <2>2 DEF PingTick, TypeOK
<1> QED
  BY <1>1, <1>2, <1>3, <1>4, <1>5, <1>6

\* Every step keeps the types.
LEMMA TypeStep == TypeOK /\ [Next]_vars => TypeOK'
<1> SUFFICES ASSUME TypeOK, [Next]_vars PROVE TypeOK'
  OBVIOUS
<1>1. ASSUME NEW r \in Replicas, Break(r) PROVE TypeOK'
  <2>1. down' \in [Replicas -> BOOLEAN]
    BY <1>1, Excepted DEF Break, TypeOK
  <2> QED
    BY <1>1, <2>1 DEF Break, TypeOK, masterVars, goVars, flushVars, handshakeVars, replicaVars
<1>2. CASE UNCHANGED vars
  BY <1>2 DEF vars, TypeOK, masterVars, goVars, flushVars, connVars, handshakeVars, replicaVars
<1> QED
  BY <1>1, <1>2, LoopTypes, GoroutineTypes, HandshakeTypes, LinkTypes, ClientTypes DEF Next

\* The types hold at the start.
LEMMA TypeInit == Init => TypeOK
<1> SUFFICES ASSUME Init PROVE TypeOK
  OBVIOUS
<1>1. /\ <<>> \in Seq(Nat) /\ <<>> \in Seq(Msg) /\ <<>> \in Seq(UpMsg)
      /\ Idle \in [pc : LoopPcs, conn : Replicas \cup {NoConn}, n : Nat]
      /\ "none" \in WaitPcs /\ "ping" \in Requests /\ "ok" \in Kinds
  BY EmptySeq, IdleType DEF WaitPcs, Requests, Kinds
<1> QED
  BY <1>1 DEF Init, TypeOK

\* The state of Replication stays within its types.
THEOREM TypeCorrect == Spec => []TypeOK
BY TypeInit, TypeStep, PTL DEF Spec

(***************************************************************************)
(* The invariant speaks of one replica at a time, so most steps leave all  *)
(* that it speaks of alone.                                                *)
(***************************************************************************)
Elsewhere(r) ==
    /\ log' = log
    /\ (r \in replicas') = (r \in replicas)
    /\ loop' = loop \/ (loop.conn # r /\ loop'.conn # r)
    /\ closed'[r] = closed[r] /\ wbuf'[r] = wbuf[r] /\ flushed'[r] = flushed[r]
    /\ wire'[r] = wire[r] /\ up'[r] = up[r] /\ down'[r] = down[r]
    /\ doubled'[r] = doubled[r]
    /\ hs'[r] = hs[r] /\ phase'[r] = phase[r] /\ got'[r] = got[r]
    /\ reader'[r] = reader[r] /\ roff'[r] = roff[r] /\ synced'[r] = synced[r]
    /\ base'[r] = base[r] /\ applied'[r] = applied[r]

\* All functions of the state are over the replicas.
LEMMA Domains ==
    ASSUME TypeOK
    PROVE  /\ DOMAIN closed = Replicas /\ DOMAIN wbuf = Replicas /\ DOMAIN flushed = Replicas
           /\ DOMAIN wire = Replicas /\ DOMAIN up = Replicas /\ DOMAIN down = Replicas
           /\ DOMAIN doubled = Replicas /\ DOMAIN acked = Replicas
           /\ DOMAIN hs = Replicas /\ DOMAIN phase = Replicas /\ DOMAIN got = Replicas
           /\ DOMAIN reader = Replicas /\ DOMAIN roff = Replicas /\ DOMAIN synced = Replicas
           /\ DOMAIN base = Replicas /\ DOMAIN applied = Replicas
BY DEF TypeOK

\* What the loop does for one replica leaves the others alone.
LEMMA LoopElsewhere ==
    ASSUME TypeOK, NEW r \in Replicas, NEW q \in Replicas, q # r, Loop(q)
    PROVE  Elsewhere(r)
<1> USE DEF masterVars, goVars, flushVars, connVars, handshakeVars, replicaVars
<1>n. Idle.conn # r
  BY ReplicationAssumption DEF Idle
<1>1. CASE HandlePing(q)
  BY <1>1, <1>n, Domains DEF HandlePing, TakeUp, Buffer, GoOn, Elsewhere
<1>2. CASE HandlePort(q)
  BY <1>2, <1>n, Domains DEF HandlePort, TakeUp, Buffer, GoOn, Elsewhere
<1>3. CASE HandleAck(q)
  BY <1>3, <1>n, Domains DEF HandleAck, TakeUp, Buffer, GoOn, Elsewhere
<1>4. CASE HandlePsync(q)
  BY <1>4, <1>n, Domains DEF HandlePsync, TakeUp, Buffer, GoOn, Elsewhere
<1>5. CASE SendSnapshot(q)
  BY <1>5, <1>n, Domains DEF SendSnapshot, Put, Buffer, GoOn, Elsewhere
<1>6. CASE LoopFlush(q)
  BY <1>6, <1>n, Domains DEF LoopFlush, FlushWrite, Put, GoOn, Elsewhere
<1>7. CASE LoopReset(q)
  BY <1>7, <1>n, Domains DEF LoopReset, FlushReset, GoOn, Elsewhere
<1> QED
  BY <1>1, <1>2, <1>3, <1>4, <1>5, <1>6, <1>7 DEF Loop

\* What the goroutines of one replica do leaves the others alone.
LEMMA GoroutinesElsewhere ==
    ASSUME TypeOK, NEW r \in Replicas, NEW q \in Replicas, q # r, Goroutines(q)
    PROVE  Elsewhere(r)
<1> USE DEF masterVars, goVars, flushVars, connVars, handshakeVars, replicaVars
<1>1. CASE GetAckWrite(q)
  BY <1>1, Domains DEF GetAckWrite, Buffer, Elsewhere
<1>2. CASE PingCount(q)
  BY <1>2, Domains DEF PingCount, Elsewhere
<1>3. CASE PingWrite(q)
  BY <1>3, Domains DEF PingWrite, Put, removeReplica, Elsewhere
<1>4. CASE Flush(q)
  BY <1>4, Domains DEF Flush, FlushWrite, Put, removeReplica, Elsewhere
<1>5. CASE FlushEnd(q)
  BY <1>5, Domains DEF FlushEnd, FlushReset, removeReplica, Elsewhere
<1> QED
  BY <1>1, <1>2, <1>3, <1>4, <1>5 DEF Goroutines

\* The handshake of one replica leaves the others alone.
LEMMA HandshakeElsewhere ==
    ASSUME TypeOK, NEW r \in Replicas, NEW q \in Replicas, q # r, Handshake(q)
    PROVE  Elsewhere(r)
<1> USE DEF masterVars, goVars, flushVars, connVars, handshakeVars, replicaVars
<1>1. CASE SendRequest(q)
  BY <1>1, Domains DEF SendRequest, Exit, Elsewhere
<1>2. CASE QueueRequest(q)
  BY <1>2, Domains DEF QueueRequest, Elsewhere
<1>3. CASE CheckResponse(q)
  BY <1>3, Domains DEF CheckResponse, Exit, Elsewhere
<1>4. CASE HandshakeTimeout(q)
  BY <1>4, Domains DEF HandshakeTimeout, Exit, Elsewhere
<1> QED
  BY <1>1, <1>2, <1>3, <1>4 DEF Handshake

\* The master link of one replica leaves the others alone.
LEMMA LinkElsewhere ==
    ASSUME TypeOK, NEW r \in Replicas, NEW q \in Replicas, q # r, Link(q)
    PROVE  Elsewhere(r)
<1> USE DEF masterVars, goVars, flushVars, connVars, handshakeVars, replicaVars
<1>1. CASE ReadAnswer(q)
  BY <1>1, Domains DEF ReadAnswer, Receive, dispatchResponse, LinkKept, Elsewhere
<1>2. CASE ReadWrite(q)
  BY <1>2, Domains DEF ReadWrite, Receive, dispatchResponse, LinkKept, Elsewhere
<1>3. CASE ReadGetAck(q)
  BY <1>3, Domains DEF ReadGetAck, Receive, dispatchResponse, LinkKept, Elsewhere
<1>4. CASE ReadPing(q)
  BY <1>4, Domains DEF ReadPing, Receive, dispatchResponse, LinkKept, Elsewhere
<1>5. CASE LoadSnapshot(q)
  BY <1>5, Domains DEF LoadSnapshot, Receive, LinkKept, Elsewhere
<1>6. CASE LoadRefused(q)
  BY <1>6, Domains DEF LoadRefused, Receive, dispatchResponse, LinkKept, Elsewhere
<1>7. CASE ReadStrayRdb(q)
  BY <1>7, Domains DEF ReadStrayRdb, Receive, LinkKept, Elsewhere
<1>8. CASE ReadSwallowed(q)
  BY <1>8, Domains DEF ReadSwallowed, Receive, dispatchResponse, LinkKept, Elsewhere
<1>9. CASE ReadEof(q)
  BY <1>9, Domains DEF ReadEof, Elsewhere
<1> QED
  BY <1>1, <1>2, <1>3, <1>4, <1>5, <1>6, <1>7, <1>8, <1>9 DEF Link

\* A step concerns replica r only if it is a write, the loop's for r, one of
\* its goroutines', or r's own.
LEMMA Frame ==
    ASSUME TypeOK, [Next]_vars, NEW r \in Replicas
    PROVE  \/ Elsewhere(r) \/ \E c \in Clients : Write(c)
           \/ Loop(r) \/ GetAckWrite(r) \/ PingWrite(r) \/ Flush(r) \/ FlushEnd(r)
           \/ Handshake(r) \/ Link(r) \/ Break(r)
<1> USE DEF masterVars, goVars, flushVars, connVars, handshakeVars, replicaVars
<1>1. ASSUME NEW c \in Clients, StartWait(c) \/ Waiting(c) PROVE Elsewhere(r)
  BY <1>1 DEF StartWait, Waiting, WaitRead, WaitAcked, WaitTimeout, WaitVarsKept, Elsewhere
<1>2. CASE XAdd \/ GetAckTick \/ PingTick
  BY <1>2 DEF XAdd, GetAckTick, PingTick, Elsewhere
<1>3. PingCount(r) => Elsewhere(r)
  BY DEF PingCount, Elsewhere
<1>4. ASSUME NEW q \in Replicas, q # r, Break(q) PROVE Elsewhere(r)
  BY <1>4, Domains DEF Break, Elsewhere
<1>5. CASE UNCHANGED vars
  BY <1>5 DEF vars, Elsewhere
<1>6. ASSUME NEW q \in Replicas, Loop(q) \/ Goroutines(q) \/ Handshake(q) \/ Link(q) \/ Break(q)
      PROVE  \/ Elsewhere(r)
             \/ Loop(r) \/ GetAckWrite(r) \/ PingWrite(r) \/ Flush(r) \/ FlushEnd(r)
             \/ Handshake(r) \/ Link(r) \/ Break(r)
  <2>1. CASE q = r
    <3>1. Loop(r) \/ Goroutines(r) \/ Handshake(r) \/ Link(r) \/ Break(r)
      BY <1>6, <2>1
    <3> QED
      BY <1>3, <3>1 DEF Goroutines
  <2>2. CASE q # r
    BY <1>4, <1>6, <2>2, LoopElsewhere, GoroutinesElsewhere, HandshakeElsewhere, LinkElsewhere
  <2> QED
    BY <2>1, <2>2
<1> QED
  BY <1>1, <1>2, <1>5, <1>6 DEF Next

(***************************************************************************)
(* The handshake.                                                          *)
(***************************************************************************)
\* What a sequence of messages does not hold.
Lacks(s, k) == \A j \in 1 .. Len(s) : s[j].kind # k

\* The order in which a replica sends its requests.
Rank(k) == IF k = "ping" THEN 1 ELSE IF k = "port" THEN 2
           ELSE IF k = "capa" THEN 3 ELSE IF k = "psync" THEN 4 ELSE 5

InOrder(s) ==
    \A i, j \in 1 .. Len(s) :
      i < j /\ s[i].kind # "ack" /\ s[j].kind # "ack" => Rank(s[i].kind) < Rank(s[j].kind)
Below(s, n) == \A i \in 1 .. Len(s) : s[i].kind # "ack" => Rank(s[i].kind) < n

\* The requests the loop has not taken are in that order, and not ahead of the
\* handshake.
Asked(r) == IF phase[r] = "send" THEN Rank(hs[r]) ELSE Rank(hs[r]) + 1
RequestOrder(r) == InOrder(up[r]) /\ (hs[r] \in Requests => Below(up[r], Asked(r)))

\* The loop has not yet taken all requests of the handshake.
Unsent(r) == hs[r] \in Requests /\ (hs[r] = "psync" => phase[r] = "send")
Fresh(r) == Unsent(r) \/ \E k \in Requests : ~Lacks(up[r], k)

\* The loop is executing this replica's PSYNC.
InPsync(r) == loop.conn = r /\ loop.pc \in {"full", "fullreset", "rdb"}

\* Before PSYNC has been taken nothing of its answer exists ...
BeforePsync(r) ==
    Fresh(r) => /\ ~InPsync(r)
                /\ Lacks(wbuf[r], "full") /\ Lacks(wire[r], "full")
                /\ Lacks(wire[r], "rdb")
                /\ ~synced[r] /\ reader[r] \in {"run", "stop"}
                /\ ~(phase[r] = "got" /\ got[r] = "full") /\ hs[r] # "done"

\* ... while it runs there is no snapshot yet ...
DuringPsync(r) ==
    InPsync(r) => Lacks(wire[r], "rdb") /\ ~synced[r] /\ reader[r] # "swallow"

\* ... FULLRESYNC is out of the Writer before the snapshot is sent, or the
\* connection is closed ...
FullInWriter(r) ==
    ~Lacks(wbuf[r], "full") =>
      closed[r] \/ (loop.conn = r /\ loop.pc \in {"full", "fullreset"})

\* ... and there is one snapshot, after all that belongs to the handshake.
OneRdb(s) ==
    \A k, j \in 1 .. Len(s) : s[k].kind = "rdb" /\ k < j => s[j].kind \notin {"full", "rdb"}

AfterSnapshot(r) ==
    synced[r] => /\ reader[r] \in {"run", "stop"}
                 /\ Lacks(wire[r], "full") /\ Lacks(wire[r], "rdb")

\* A process whose handshake failed is gone.
FailedIsDown(r) == hs[r] = "failed" => down[r]

\* Before REPLCONF listening-port has been taken the replica is not registered
\* and no write was sent to it; afterwards it is, or its connection is closed.
PortPending(r) ==
    hs[r] = "ping" \/ (hs[r] = "port" /\ phase[r] = "send") \/ ~Lacks(up[r], "port")
Registered(r) ==
    /\ PortPending(r) => r \notin replicas /\ Lacks(wire[r], "write")
    /\ ~PortPending(r) /\ hs[r] # "failed" => r \in replicas \/ closed[r]

\* The Writer holds replies and GETACKs only.
Replies(s) == Lacks(s, "write") /\ Lacks(s, "rdb")

HandshakeInv(r) ==
    /\ RequestOrder(r) /\ BeforePsync(r) /\ DuringPsync(r) /\ FullInWriter(r)
    /\ OneRdb(wire[r]) /\ AfterSnapshot(r) /\ FailedIsDown(r) /\ Registered(r)
    /\ Replies(wbuf[r])

\* Nothing lacks everything.
LEMMA LacksEmpty == \A k : Lacks(<<>>, k)
BY DEF Lacks

\* What a sequence lacks its head and its tail lack.
LEMMA LacksTail ==
    ASSUME NEW S, NEW s \in Seq(S), s # <<>>, NEW k
    PROVE  Lacks(s, k) <=> Head(s).kind # k /\ Lacks(Tail(s), k)
BY HeadTail DEF Lacks

\* What a longer sequence lacks.
LEMMA LacksAppend ==
    ASSUME NEW S, NEW s \in Seq(S), NEW m \in S, NEW k
    PROVE  Lacks(Append(s, m), k) <=> Lacks(s, k) /\ m.kind # k
<1>1. /\ Append(s, m)[Len(s) + 1] = m /\ Len(Append(s, m)) = Len(s) + 1
      /\ Len(s) + 1 \in 1 .. Len(Append(s, m))
      /\ \A j \in 1 .. Len(s) : j \in 1 .. Len(Append(s, m)) /\ Append(s, m)[j] = s[j]
      /\ \A j \in 1 .. Len(Append(s, m)) : j \in 1 .. Len(s) \/ j = Len(s) + 1
  OBVIOUS
<1> QED
  BY <1>1 DEF Lacks

\* The elements of a concatenation.
LEMMA Concat ==
    ASSUME NEW S, NEW s \in Seq(S), NEW t \in Seq(S)
    PROVE  /\ s \o t \in Seq(S) /\ Len(s \o t) = Len(s) + Len(t)
           /\ \A i \in 1 .. Len(s) : i \in 1 .. Len(s \o t) /\ (s \o t)[i] = s[i]
           /\ \A i \in 1 .. Len(t) : Len(s) + i \in 1 .. Len(s \o t) /\ (s \o t)[Len(s) + i] = t[i]
           /\ \A i \in 1 .. Len(s \o t) : i \in 1 .. Len(s) \/ i - Len(s) \in 1 .. Len(t)
           /\ \A i \in 1 .. Len(s \o t) : i \notin 1 .. Len(s) => (s \o t)[i] = t[i - Len(s)]
OBVIOUS

\* What two sequences lack together.
LEMMA LacksConcat ==
    ASSUME NEW S, NEW s \in Seq(S), NEW t \in Seq(S), NEW k
    PROVE  Lacks(s \o t, k) <=> Lacks(s, k) /\ Lacks(t, k)
<1>1. ASSUME Lacks(s \o t, k) PROVE Lacks(s, k) /\ Lacks(t, k)
  <2>1. ASSUME NEW i \in 1 .. Len(s) PROVE s[i].kind # k
    <3>1. i \in 1 .. Len(s \o t) /\ (s \o t)[i] = s[i]
      BY Concat
    <3> QED
      BY <1>1, <3>1, Zenon DEF Lacks
  <2>2. ASSUME NEW i \in 1 .. Len(t) PROVE t[i].kind # k
    <3>1. Len(s) + i \in 1 .. Len(s \o t) /\ (s \o t)[Len(s) + i] = t[i]
      BY Concat
    <3> QED
      BY <1>1, <3>1, Zenon DEF Lacks
  <2> QED
    BY <2>1, <2>2 DEF Lacks
<1>2. ASSUME Lacks(s, k), Lacks(t, k) PROVE Lacks(s \o t, k)
  <2> SUFFICES ASSUME NEW i \in 1 .. Len(s \o t) PROVE (s \o t)[i].kind # k
    BY DEF Lacks
  <2>1. CASE i \in 1 .. Len(s)
    BY <1>2, <2>1, Concat DEF Lacks
  <2>2. CASE i \notin 1 .. Len(s)
    <3>1. i - Len(s) \in 1 .. Len(t) /\ (s \o t)[i] = t[i - Len(s)]
      BY <2>2, Concat
    <3> QED
      BY <1>2, <3>1 DEF Lacks
  <2> QED
    BY <2>1, <2>2
<1> QED
  BY <1>1, <1>2

\* What one message lacks.
LEMMA LacksOne == \A m, k : Lacks(<<m>>, k) <=> m.kind # k
BY DEF Lacks

\* After a snapshot there is no other one.
LEMMA OneRdbTail ==
    ASSUME NEW S, NEW s \in Seq(S), s # <<>>, OneRdb(s)
    PROVE  /\ OneRdb(Tail(s))
           /\ Head(s).kind = "rdb" => Lacks(Tail(s), "full") /\ Lacks(Tail(s), "rdb")
<1>1. OneRdb(Tail(s))
  BY HeadTail DEF OneRdb
<1>2. ASSUME Head(s).kind = "rdb", NEW j \in 1 .. Len(Tail(s))
      PROVE  Tail(s)[j].kind \notin {"full", "rdb"}
  <2>1. 1 \in 1 .. Len(s) /\ j + 1 \in 1 .. Len(s) /\ 1 < j + 1 /\ s[1] = Head(s) /\ s[j + 1] = Tail(s)[j]
    BY HeadTail
  <2> QED
    BY <1>2, <2>1 DEF OneRdb
<1> QED
  BY <1>1, <1>2 DEF Lacks

\* Two streams of which only one has a snapshot have one.
LEMMA OneRdbConcat ==
    ASSUME NEW S, NEW s \in Seq(S), NEW t \in Seq(S), OneRdb(s), OneRdb(t),
           Lacks(s, "rdb") \/ (Lacks(t, "full") /\ Lacks(t, "rdb"))
    PROVE  OneRdb(s \o t)
<1> SUFFICES ASSUME NEW k \in 1 .. Len(s \o t), NEW j \in 1 .. Len(s \o t),
                    (s \o t)[k].kind = "rdb", k < j
             PROVE  (s \o t)[j].kind \notin {"full", "rdb"}
  BY DEF OneRdb
<1>1. CASE j \in 1 .. Len(s)
  <2>1. k \in 1 .. Len(s) /\ (s \o t)[k] = s[k] /\ (s \o t)[j] = s[j]
    BY <1>1, Concat
  <2> QED
    BY <1>1, <2>1 DEF OneRdb
<1>2. CASE k \in 1 .. Len(s) /\ j \notin 1 .. Len(s)
  <2>1. j - Len(s) \in 1 .. Len(t) /\ (s \o t)[j] = t[j - Len(s)] /\ (s \o t)[k] = s[k]
    BY <1>2, Concat
  <2> QED
    BY <1>2, <2>1 DEF Lacks
<1>3. CASE k \notin 1 .. Len(s) /\ j \notin 1 .. Len(s)
  <2>1. /\ j - Len(s) \in 1 .. Len(t) /\ (s \o t)[j] = t[j - Len(s)]
        /\ k - Len(s) \in 1 .. Len(t) /\ (s \o t)[k] = t[k - Len(s)]
        /\ k - Len(s) < j - Len(s)
    BY <1>3, Concat
  <2> QED
    BY <2>1 DEF OneRdb
<1> QED
  BY <1>1, <1>2, <1>3

\* At most one message, or none with a snapshot, has one snapshot at most.
LEMMA OneRdbSimple == OneRdb(<<>>) /\ (\A m : OneRdb(<<m>>)) /\ (\A s : Lacks(s, "rdb") => OneRdb(s))
BY DEF OneRdb, Lacks

\* Append adds one message at the end.
LEMMA AppendOne ==
    ASSUME NEW S, NEW s \in Seq(S), NEW m \in S
    PROVE  Append(s, m) = s \o <<m>> /\ <<m>> \in Seq(S)
OBVIOUS

\* The requests of a handshake have ranks.
LEMMA Ranks == \A k : Rank(k) \in 1 .. 5
BY DEF Rank

\* When the master takes a request the later ones remain, in order.
LEMMA RequestsTail ==
    ASSUME NEW s \in Seq(UpMsg), s # <<>>, InOrder(s)
    PROVE  /\ InOrder(Tail(s))
           /\ \A n \in Int : Below(s, n) => Below(Tail(s), n) /\ (Head(s).kind # "ack" => Rank(Head(s).kind) < n)
           /\ \A k \in Requests : Head(s).kind \in Requests /\ Rank(k) <= Rank(Head(s).kind)
                => Lacks(Tail(s), k)
<1>1. InOrder(Tail(s))
  BY HeadTail DEF InOrder
<1>2. \A n \in Int : Below(s, n) => Below(Tail(s), n) /\ (Head(s).kind # "ack" => Rank(Head(s).kind) < n)
  BY HeadTail DEF Below
<1>3. ASSUME NEW k \in Requests, Head(s).kind \in Requests, Rank(k) <= Rank(Head(s).kind),
             NEW j \in 1 .. Len(Tail(s)), Tail(s)[j].kind = k
      PROVE  FALSE
  <2>1. /\ 1 \in 1 .. Len(s) /\ j + 1 \in 1 .. Len(s) /\ 1 < j + 1
        /\ s[1] = Head(s) /\ s[j + 1] = Tail(s)[j]
    BY HeadTail
  <2>2. s[1].kind # "ack" /\ s[j + 1].kind # "ack"
    BY <1>3, <2>1 DEF Requests
  <2>3. Rank(s[1].kind) < Rank(s[j + 1].kind)
    BY <2>1, <2>2 DEF InOrder
  <2> QED
    BY <1>3, <2>1, <2>3, Ranks
<1> QED
  BY <1>1, <1>2, <1>3 DEF Lacks

\* A replica may send an ACK at any time and a request behind smaller ones.
LEMMA RequestsAppend ==
    ASSUME NEW s \in Seq(UpMsg), NEW m \in UpMsg, InOrder(s)
    PROVE  /\ m.kind = "ack" => InOrder(Append(s, m)) /\ \A n : Below(s, n) => Below(Append(s, m), n)
           /\ Below(s, Rank(m.kind)) => InOrder(Append(s, m)) /\ Below(Append(s, m), Rank(m.kind) + 1)
<1>0. /\ Append(s, m)[Len(s) + 1] = m /\ Len(Append(s, m)) = Len(s) + 1
      /\ \A j \in 1 .. Len(s) : Append(s, m)[j] = s[j]
      /\ \A j \in 1 .. Len(Append(s, m)) : j \in 1 .. Len(s) \/ j = Len(s) + 1
  OBVIOUS
<1>1. ASSUME m.kind = "ack" PROVE InOrder(Append(s, m)) /\ \A n : Below(s, n) => Below(Append(s, m), n)
  BY <1>0, <1>1 DEF InOrder, Below
<1>2. ASSUME Below(s, Rank(m.kind)) PROVE InOrder(Append(s, m)) /\ Below(Append(s, m), Rank(m.kind) + 1)
  <2>1. InOrder(Append(s, m))
    <3> SUFFICES ASSUME NEW i \in 1 .. Len(Append(s, m)), NEW j \in 1 .. Len(Append(s, m)), i < j,
                        Append(s, m)[i].kind # "ack", Append(s, m)[j].kind # "ack"
                 PROVE  Rank(Append(s, m)[i].kind) < Rank(Append(s, m)[j].kind)
      BY DEF InOrder
    <3>1. i \in 1 .. Len(s)
      BY <1>0
    <3>2. CASE j \in 1 .. Len(s)
      BY <1>0, <3>1, <3>2 DEF InOrder
    <3>3. CASE j = Len(s) + 1
      BY <1>0, <1>2, <3>1, <3>3 DEF Below
    <3> QED
      BY <1>0, <3>2, <3>3
  <2>2. Below(Append(s, m), Rank(m.kind) + 1)
    <3> SUFFICES ASSUME NEW i \in 1 .. Len(Append(s, m)), Append(s, m)[i].kind # "ack"
                 PROVE  Rank(Append(s, m)[i].kind) < Rank(m.kind) + 1
      BY DEF Below
    <3>1. CASE i \in 1 .. Len(s)
      BY <1>0, <1>2, <3>1, Ranks DEF Below
    <3>2. CASE i = Len(s) + 1
      BY <1>0, <3>2, Ranks
    <3> QED
      BY <1>0, <3>1, <3>2
  <2> QED
    BY <2>1, <2>2
<1> QED
  BY <1>1, <1>2

\* A bound on ranks may be raised.
LEMMA BelowMore ==
    ASSUME NEW s, NEW m \in Int, NEW n \in Int, m <= n, Below(s, m)
    PROVE  Below(s, n)
BY Ranks DEF Below

\* What a replica has asked for is a rank.
LEMMA AskedType == ASSUME NEW r PROVE Asked(r) \in Int
<1>1. Rank(hs[r]) \in 1 .. 5
  BY Ranks
<1> QED
  BY <1>1 DEF Asked

\* The types of what belongs to one replica.
LEMMA TypesAt ==
    ASSUME TypeOK, NEW r \in Replicas
    PROVE  /\ closed[r] \in BOOLEAN /\ down[r] \in BOOLEAN /\ synced[r] \in BOOLEAN
           /\ wbuf[r] \in Seq(Msg) /\ wire[r] \in Seq(Msg) /\ up[r] \in Seq(UpMsg)
           /\ hs[r] \in Requests \cup {"done", "failed"}
           /\ phase[r] \in {"send", "sent", "wait", "got"}
           /\ reader[r] \in {"run", "load", "swallow", "stop"}
           /\ base[r] \in Nat /\ applied[r] \in Seq(Nat) /\ roff[r] \in Nat
           /\ log \in Seq(Nat) /\ Len(log) \in Nat
<1>1. /\ closed[r] \in BOOLEAN /\ down[r] \in BOOLEAN /\ synced[r] \in BOOLEAN
      /\ wbuf[r] \in Seq(Msg) /\ wire[r] \in Seq(Msg) /\ up[r] \in Seq(UpMsg)
  BY DEF TypeOK
<1>2. hs[r] \in Requests \cup {"done", "failed"}
  BY DEF TypeOK
<1>3. phase[r] \in {"send", "sent", "wait", "got"}
  BY DEF TypeOK
<1>4. reader[r] \in {"run", "load", "swallow", "stop"}
  BY DEF TypeOK
<1>5. /\ base[r] \in Nat /\ applied[r] \in Seq(Nat) /\ roff[r] \in Nat
      /\ log \in Seq(Nat) /\ Len(log) \in Nat
  BY DEF TypeOK
<1> QED
  BY <1>1, <1>2, <1>3, <1>4, <1>5

\* An idle loop works for no replica.
LEMMA IdleIs == Idle.pc = "idle" /\ \A r \in Replicas : Idle.conn # r
BY ReplicationAssumption DEF Idle

\* The loop takes a request.
LEMMA RequestTaken ==
    ASSUME TypeOK, NEW r \in Replicas, RequestOrder(r),
           up[r] # <<>>, up'[r] = Tail(up[r]), UNCHANGED <<hs, phase>>
    PROVE  /\ RequestOrder(r)'
           /\ \A k : Lacks(up[r], k) <=> Head(up[r]).kind # k /\ Lacks(up'[r], k)
           /\ Fresh(r)' => Fresh(r)
<1>0. Asked(r) \in Int
  BY AskedType
<1>1. up[r] \in Seq(UpMsg)
  BY TypesAt
<1>2. InOrder(up'[r]) /\ (hs[r] \in Requests => Below(up'[r], Asked(r)))
  BY <1>0, <1>1, RequestsTail DEF RequestOrder
<1>3. \A k : Lacks(up[r], k) <=> Head(up[r]).kind # k /\ Lacks(up'[r], k)
  BY <1>1, LacksTail
<1>4. Fresh(r)' => Fresh(r)
  BY <1>3 DEF Fresh, Unsent
<1> QED
  BY <1>2, <1>3, <1>4 DEF RequestOrder, Asked

\* What a flush adds to the wire.
LEMMA FlushAdds ==
    ASSUME TypeOK, NEW r \in Replicas, HandshakeInv(r), FlushWrite(r)
    PROVE  /\ ~closed[r] /\ wbuf[r] # <<>>
           /\ wire'[r] = wire[r] \/ wire'[r] = wire[r] \o wbuf[r]
           /\ OneRdb(wire'[r])
           /\ Lacks(wire'[r], "rdb") <=> Lacks(wire[r], "rdb")
           /\ Lacks(wire'[r], "write") <=> Lacks(wire[r], "write")
           /\ Lacks(wire[r], "full") /\ Lacks(wbuf[r], "full") => Lacks(wire'[r], "full")
<1>1. ~closed[r] /\ wbuf[r] # <<>> /\ (wire'[r] = wire[r] \/ wire'[r] = wire[r] \o wbuf[r])
  BY Domains DEF FlushWrite, CanWrite, Put
<1>2. wire[r] \in Seq(Msg) /\ wbuf[r] \in Seq(Msg)
  BY TypesAt
<1>3. /\ Lacks(wbuf[r], "rdb") /\ Lacks(wbuf[r], "write") /\ OneRdb(wire[r])
      /\ Lacks(wire[r], "rdb") \/ Lacks(wbuf[r], "full")
  BY <1>1 DEF HandshakeInv, Replies, FullInWriter, DuringPsync, InPsync
<1>4. OneRdb(wire[r] \o wbuf[r])
  BY <1>2, <1>3, OneRdbSimple, OneRdbConcat
<1>5. \A k : Lacks(wire[r] \o wbuf[r], k) <=> Lacks(wire[r], k) /\ Lacks(wbuf[r], k)
  BY <1>2, LacksConcat
<1> QED
  BY <1>1, <1>3, <1>4, <1>5

\* The loop's steps for a replica keep its handshake in order.
LEMMA HandshakeLoop ==
    ASSUME TypeOK, NEW r \in Replicas, HandshakeInv(r), Loop(r)
    PROVE  HandshakeInv(r)'
<1> USE DEF masterVars, goVars, flushVars, connVars, handshakeVars, replicaVars
<1>h. /\ RequestOrder(r) /\ BeforePsync(r) /\ DuringPsync(r) /\ FullInWriter(r)
      /\ OneRdb(wire[r]) /\ AfterSnapshot(r) /\ FailedIsDown(r) /\ Registered(r)
      /\ Replies(wbuf[r])
  BY DEF HandshakeInv
<1>m. \A k \in {"ok", "full", "error"} : [kind |-> k, n |-> 0] \in Msg
  BY Messages DEF Kinds
<1>1. CASE HandlePing(r)
  <2>1. up[r] # <<>> /\ Head(up[r]).kind \in {"ping", "capa"} /\ up'[r] = Tail(up[r])
    BY <1>1, Domains DEF HandlePing, TakeUp
  <2>2. /\ UNCHANGED <<hs, phase, got, wire, synced, reader, closed, down, replicas>>
        /\ wbuf'[r] = Append(wbuf[r], [kind |-> "ok", n |-> 0])
        /\ loop = Idle /\ loop'.pc = "send" /\ loop'.conn = r
    BY <1>1, Domains DEF HandlePing, TakeUp, Buffer, GoOn
  <2>3. RequestOrder(r)' /\ (Fresh(r)' => Fresh(r)) /\ (PortPending(r)' <=> PortPending(r))
    BY <1>h, <2>1, <2>2, RequestTaken DEF PortPending
  <2>4. \A k : Lacks(wbuf'[r], k) <=> Lacks(wbuf[r], k) /\ k # "ok"
    BY <1>m, <2>2, TypesAt, LacksAppend
  <2> QED
    BY <1>h, <2>2, <2>3, <2>4, IdleIs
    DEF HandshakeInv, BeforePsync, DuringPsync, FullInWriter, AfterSnapshot, FailedIsDown,
        Registered, Replies, InPsync
<1>2. CASE HandlePort(r)
  <2>1. up[r] # <<>> /\ Head(up[r]).kind = "port" /\ up'[r] = Tail(up[r])
    BY <1>2, Domains DEF HandlePort, TakeUp
  <2>2. /\ UNCHANGED <<hs, phase, got, wire, synced, reader, closed, down>>
        /\ r \in replicas'
        /\ wbuf'[r] = Append(wbuf[r], [kind |-> "ok", n |-> 0])
        /\ loop = Idle /\ loop'.pc = "send" /\ loop'.conn = r
    BY <1>2, Domains DEF HandlePort, TakeUp, Buffer, GoOn
  <2>3. RequestOrder(r)' /\ (Fresh(r)' => Fresh(r))
    BY <1>h, <2>1, <2>2, RequestTaken
  <2>4. \A k : Lacks(wbuf'[r], k) <=> Lacks(wbuf[r], k) /\ k # "ok"
    BY <1>m, <2>2, TypesAt, LacksAppend
  <2>5. ~PortPending(r)'
    <3>1. Lacks(up'[r], "port")
      <4>1. "port" \in Requests /\ Rank("port") <= Rank("port")
        BY Ranks DEF Requests
      <4> QED
        BY <1>h, <2>1, <4>1, TypesAt, RequestsTail DEF RequestOrder
    <3>2. hs[r] \in Requests => 2 < Asked(r)
      <4>1. Asked(r) \in Int /\ Rank("port") = 2
        BY AskedType DEF Rank
      <4> QED
        BY <1>h, <2>1, <4>1, TypesAt, RequestsTail DEF RequestOrder
    <3> QED
      BY <2>2, <3>1, <3>2 DEF PortPending, Asked, Rank, Requests
  <2> QED
    BY <1>h, <2>2, <2>3, <2>4, <2>5, IdleIs
    DEF HandshakeInv, BeforePsync, DuringPsync, FullInWriter, AfterSnapshot, FailedIsDown,
        Registered, Replies, InPsync
<1>3. CASE HandleAck(r)
  <2>1. up[r] # <<>> /\ Head(up[r]).kind = "ack" /\ up'[r] = Tail(up[r])
    BY <1>3, Domains DEF HandleAck, TakeUp
  <2>2. /\ UNCHANGED <<hs, phase, got, wire, wbuf, synced, reader, closed, down, replicas>>
        /\ loop = Idle /\ loop'.pc = "send" /\ loop'.conn = r
    BY <1>3, Domains DEF HandleAck, TakeUp, Buffer, GoOn
  <2>3. RequestOrder(r)' /\ (Fresh(r)' => Fresh(r)) /\ (PortPending(r)' <=> PortPending(r))
    BY <1>h, <2>1, <2>2, RequestTaken DEF PortPending
  <2> QED
    BY <1>h, <2>2, <2>3, IdleIs
    DEF HandshakeInv, BeforePsync, DuringPsync, FullInWriter, AfterSnapshot, FailedIsDown,
        Registered, Replies, InPsync
<1>4. CASE HandlePsync(r)
  <2>1. up[r] # <<>> /\ Head(up[r]).kind = "psync" /\ up'[r] = Tail(up[r])
    BY <1>4, Domains DEF HandlePsync, TakeUp
  <2>2. /\ UNCHANGED <<hs, phase, got, wire, synced, reader, closed, down, replicas>>
        /\ wbuf'[r] = Append(wbuf[r], [kind |-> "full", n |-> 0])
        /\ loop = Idle /\ loop'.pc = "full" /\ loop'.conn = r
    BY <1>4, Domains DEF HandlePsync, TakeUp, Buffer, GoOn
  <2>3. RequestOrder(r)' /\ (PortPending(r)' <=> PortPending(r)) /\ ~Lacks(up[r], "psync")
    BY <1>h, <2>1, <2>2, RequestTaken DEF PortPending
  <2>4. \A k : Lacks(wbuf'[r], k) <=> Lacks(wbuf[r], k) /\ k # "full"
    BY <1>m, <2>2, TypesAt, LacksAppend
  <2>5. Fresh(r) /\ ~Fresh(r)'
    <3>1. \A k \in Requests : Lacks(up'[r], k)
      <4>1. "psync" \in Requests /\ \A k \in Requests : Rank(k) <= Rank("psync")
        BY DEF Requests, Rank
      <4> QED
        BY <1>h, <2>1, <4>1, TypesAt, RequestsTail DEF RequestOrder
    <3>2. hs[r] \in Requests => 4 < Asked(r)
      <4>1. Asked(r) \in Int /\ Rank("psync") = 4
        BY AskedType DEF Rank
      <4> QED
        BY <1>h, <2>1, <4>1, TypesAt, RequestsTail DEF RequestOrder
    <3>3. ~Unsent(r)
      BY <3>2 DEF Unsent, Asked, Rank, Requests
    <3> QED
      BY <2>2, <2>3, <3>1, <3>3 DEF Fresh, Unsent, Requests
  <2> QED
    BY <1>h, <2>2, <2>3, <2>4, <2>5, IdleIs
    DEF HandshakeInv, BeforePsync, DuringPsync, FullInWriter, AfterSnapshot, FailedIsDown,
        Registered, Replies, InPsync
<1>5. CASE SendSnapshot(r)
  <2>1. /\ UNCHANGED <<up, hs, phase, got, synced, reader, closed, down, replicas>>
        /\ loop.pc = "rdb" /\ loop.conn = r /\ loop'.pc = "send" /\ loop'.conn = r
    BY <1>5 DEF SendSnapshot, GoOn
  <2>2. InPsync(r) /\ ~InPsync(r)' /\ ~Fresh(r) /\ ~Fresh(r)'
    BY <1>h, <2>1 DEF InPsync, BeforePsync, Fresh, Unsent
  <2>3. OneRdb(wire'[r]) /\ (Lacks(wire[r], "write") => Lacks(wire'[r], "write"))
    <3> DEFINE m == [kind |-> "rdb", n |-> Len(log)]
    <3>1. m \in Msg /\ m.kind = "rdb"
      BY TypesAt, Messages DEF Kinds
    <3> HIDE DEF m
    <3>2. wire'[r] = wire[r] \/ wire'[r] = wire[r] \o <<m>>
      BY <1>5, Domains DEF SendSnapshot, Put, m
    <3>3. wire[r] \in Seq(Msg) /\ <<m>> \in Seq(Msg) /\ Lacks(wire[r], "rdb")
      BY <1>h, <2>2, <3>1, TypesAt DEF DuringPsync
    <3>4. OneRdb(<<m>>) /\ Lacks(<<m>>, "write")
      BY <3>1, OneRdbSimple, LacksOne
    <3>5. OneRdb(wire[r] \o <<m>>)
      BY <1>h, <3>3, <3>4, OneRdbConcat
    <3> QED
      BY <1>h, <3>2, <3>3, <3>4, <3>5, LacksConcat
  <2>4. \A k : k # "error" => (Lacks(wbuf'[r], k) <=> Lacks(wbuf[r], k))
    <3>1. wbuf'[r] = wbuf[r] \/ wbuf'[r] = Append(wbuf[r], [kind |-> "error", n |-> 0])
      BY <1>5, Domains DEF SendSnapshot, Buffer
    <3>2. \A k : Lacks(Append(wbuf[r], [kind |-> "error", n |-> 0]), k) <=> Lacks(wbuf[r], k) /\ k # "error"
      BY <1>m, TypesAt, LacksAppend
    <3> QED
      BY <3>1, <3>2
  <2>5. ~synced[r] /\ (~Lacks(wbuf[r], "full") => closed[r])
    BY <1>h, <2>1, <2>2 DEF DuringPsync, FullInWriter
  <2> QED
    BY <1>h, <2>1, <2>2, <2>3, <2>4, <2>5
    DEF HandshakeInv, BeforePsync, DuringPsync, FullInWriter, AfterSnapshot, FailedIsDown,
        Registered, Replies, RequestOrder, Asked, PortPending
<1>6. CASE LoopFlush(r)
  <2>1. /\ UNCHANGED <<up, hs, phase, got, wbuf, synced, reader, down, replicas>>
        /\ loop.conn = r /\ (closed[r] => closed'[r])
    BY <1>6, Domains DEF LoopFlush
  <2>2. CASE wire' = wire /\ (wbuf[r] = <<>> \/ closed'[r]) /\ (InPsync(r)' => InPsync(r))
    BY <1>h, <2>1, <2>2, LacksEmpty
    DEF HandshakeInv, BeforePsync, DuringPsync, FullInWriter, AfterSnapshot, FailedIsDown,
        Registered, Replies, RequestOrder, Asked, PortPending, Fresh, Unsent
  <2>3. CASE /\ FlushWrite(r) /\ UNCHANGED closed /\ loop'.conn = r
             /\ loop'.pc = IF loop.pc = "send" THEN "reset" ELSE "fullreset"
    <3>1. loop.pc \in {"send", "full"}
      BY <1>6 DEF LoopFlush
    <3>2. (InPsync(r)' <=> InPsync(r)) /\ (InPsync(r) <=> loop'.pc = "fullreset")
      BY <2>1, <2>3, <3>1 DEF InPsync
    <3>3. Lacks(wbuf[r], "full") \/ loop'.pc = "fullreset"
      BY <1>h, <2>3, <3>1, FlushAdds DEF FullInWriter
    <3> QED
      BY <1>h, <2>1, <2>3, <3>2, <3>3, FlushAdds
      DEF HandshakeInv, BeforePsync, DuringPsync, FullInWriter, AfterSnapshot, FailedIsDown,
          Registered, Replies, RequestOrder, Asked, PortPending, Fresh, Unsent
  <2> QED
    BY <1>6, <2>2, <2>3, Domains, IdleIs DEF LoopFlush, GoOn, InPsync
<1>7. CASE LoopReset(r)
  <2>1. /\ UNCHANGED <<up, hs, phase, got, wire, synced, reader, down, replicas>>
        /\ closed[r] => closed'[r]
        /\ wbuf'[r] = <<>> \/ (wbuf'[r] = wbuf[r] /\ closed'[r])
    BY <1>7, Domains DEF LoopReset, FlushReset
  <2>2. InPsync(r)' => InPsync(r)
    BY <1>7, IdleIs DEF LoopReset, GoOn, InPsync
  <2> QED
    BY <1>h, <2>1, <2>2, LacksEmpty
    DEF HandshakeInv, BeforePsync, DuringPsync, FullInWriter, AfterSnapshot, FailedIsDown,
        Registered, Replies, RequestOrder, Asked, PortPending, Fresh, Unsent
<1> QED
  BY <1>1, <1>2, <1>3, <1>4, <1>5, <1>6, <1>7 DEF Loop

\* So do the steps of its goroutines at the master, and the loss of its
\* connection.
LEMMA HandshakeGoroutines ==
    ASSUME TypeOK, NEW r \in Replicas, HandshakeInv(r),
           GetAckWrite(r) \/ PingWrite(r) \/ Flush(r) \/ FlushEnd(r) \/ Break(r)
    PROVE  HandshakeInv(r)'
<1> USE DEF masterVars, goVars, flushVars, connVars, handshakeVars, replicaVars
<1>h. /\ RequestOrder(r) /\ BeforePsync(r) /\ DuringPsync(r) /\ FullInWriter(r)
      /\ OneRdb(wire[r]) /\ AfterSnapshot(r) /\ FailedIsDown(r) /\ Registered(r)
      /\ Replies(wbuf[r])
  BY DEF HandshakeInv
<1>1. CASE GetAckWrite(r)
  <2>1. /\ UNCHANGED <<loop, up, hs, phase, got, wire, synced, reader, closed, down, replicas>>
        /\ wbuf'[r] = Append(wbuf[r], [kind |-> "getack", n |-> 0])
    BY <1>1, Domains DEF GetAckWrite, Buffer
  <2>2. [kind |-> "getack", n |-> 0] \in Msg
    BY Messages DEF Kinds
  <2>3. \A k : Lacks(wbuf'[r], k) <=> Lacks(wbuf[r], k) /\ k # "getack"
    BY <2>1, <2>2, TypesAt, LacksAppend
  <2> QED
    BY <1>h, <2>1, <2>3
    DEF HandshakeInv, BeforePsync, DuringPsync, FullInWriter, AfterSnapshot, FailedIsDown,
        Registered, Replies, RequestOrder, Asked, PortPending, Fresh, Unsent, InPsync
<1>2. CASE PingWrite(r)
  <2>1. /\ UNCHANGED <<loop, up, hs, phase, got, wbuf, synced, reader, down>>
        /\ closed[r] => closed'[r]
        /\ r \in replicas' => r \in replicas
        /\ r \in replicas => r \in replicas' \/ closed'[r]
    BY <1>2, Domains DEF PingWrite, removeReplica
  <2> DEFINE m == [kind |-> "ping", n |-> 0]
  <2>2. wire'[r] = wire[r] \/ wire'[r] = wire[r] \o <<m>>
    BY <1>2, Domains DEF PingWrite, Put
  <2>3. m \in Msg /\ m.kind = "ping"
    BY Messages DEF Kinds
  <2> HIDE DEF m
  <2>4. wire[r] \in Seq(Msg) /\ <<m>> \in Seq(Msg)
    BY <2>3, TypesAt
  <2>5. \A k : Lacks(<<m>>, k) <=> k # "ping"
    BY <2>3, LacksOne
  <2>6. OneRdb(wire'[r])
    BY <1>h, <2>2, <2>4, <2>5, OneRdbSimple, OneRdbConcat
  <2>7. \A k : k # "ping" => (Lacks(wire'[r], k) <=> Lacks(wire[r], k))
    <3>1. \A k : Lacks(wire[r] \o <<m>>, k) <=> Lacks(wire[r], k) /\ Lacks(<<m>>, k)
      BY <2>4, LacksConcat
    <3> QED
      BY <2>2, <2>5, <3>1
  <2> QED
    BY <1>h, <2>1, <2>6, <2>7
    DEF HandshakeInv, BeforePsync, DuringPsync, FullInWriter, AfterSnapshot, FailedIsDown,
        Registered, Replies, RequestOrder, Asked, PortPending, Fresh, Unsent, InPsync
<1>3. CASE Flush(r)
  <2>1. /\ UNCHANGED <<loop, up, hs, phase, got, wbuf, synced, reader, down>>
        /\ closed[r] => closed'[r]
        /\ r \in replicas' => r \in replicas
        /\ r \in replicas => r \in replicas' \/ closed'[r]
    BY <1>3, Domains DEF Flush, removeReplica
  <2>2. CASE wire' = wire
    BY <1>h, <2>1, <2>2
    DEF HandshakeInv, BeforePsync, DuringPsync, FullInWriter, AfterSnapshot, FailedIsDown,
        Registered, Replies, RequestOrder, Asked, PortPending, Fresh, Unsent, InPsync
  <2>3. CASE FlushWrite(r)
    BY <1>h, <2>1, <2>3, FlushAdds, ZenonT(30)
    DEF HandshakeInv, BeforePsync, DuringPsync, FullInWriter, AfterSnapshot, FailedIsDown,
        Registered, Replies, RequestOrder, Asked, PortPending, Fresh, Unsent, InPsync
  <2> QED
    BY <1>3, <2>2, <2>3 DEF Flush
<1>4. CASE FlushEnd(r)
  <2>1. /\ UNCHANGED <<loop, up, hs, phase, got, wire, synced, reader, down>>
        /\ closed[r] => closed'[r]
        /\ r \in replicas' => r \in replicas
        /\ r \in replicas => r \in replicas' \/ closed'[r]
        /\ wbuf'[r] = <<>> \/ wbuf'[r] = wbuf[r]
    BY <1>4, Domains DEF FlushEnd, FlushReset, removeReplica
  <2> QED
    BY <1>h, <2>1, LacksEmpty
    DEF HandshakeInv, BeforePsync, DuringPsync, FullInWriter, AfterSnapshot, FailedIsDown,
        Registered, Replies, RequestOrder, Asked, PortPending, Fresh, Unsent, InPsync
<1>5. CASE Break(r)
  <2>1. /\ UNCHANGED <<loop, up, hs, phase, got, wire, wbuf, synced, reader, closed, replicas>>
        /\ down'[r]
    BY <1>5, Domains DEF Break
  <2> QED
    BY <1>h, <2>1
    DEF HandshakeInv, BeforePsync, DuringPsync, FullInWriter, AfterSnapshot, FailedIsDown,
        Registered, Replies, RequestOrder, Asked, PortPending, Fresh, Unsent, InPsync
<1> QED
  BY <1>1, <1>2, <1>3, <1>4, <1>5

\* A process that exits.
LEMMA ExitAt ==
    ASSUME TypeOK, NEW r \in Replicas, Exit(r)
    PROVE  hs'[r] = "failed" /\ wire'[r] = <<>> /\ reader'[r] = "stop" /\ down'[r]
BY Domains DEF Exit

\* The replica's handshake keeps the order of its requests.
LEMMA HandshakeRequests ==
    ASSUME TypeOK, NEW r \in Replicas, HandshakeInv(r), Handshake(r)
    PROVE  HandshakeInv(r)'
<1> USE DEF masterVars, goVars, flushVars, connVars, handshakeVars, replicaVars
<1>h. /\ RequestOrder(r) /\ BeforePsync(r) /\ DuringPsync(r) /\ FullInWriter(r)
      /\ OneRdb(wire[r]) /\ AfterSnapshot(r) /\ FailedIsDown(r) /\ Registered(r)
      /\ Replies(wbuf[r])
  BY DEF HandshakeInv
<1>x. ASSUME Exit(r), UNCHANGED <<loop, up, phase, got, wbuf, synced, closed, replicas>>
      PROVE  HandshakeInv(r)'
  <2>1. "failed" \notin Requests
    BY DEF Requests
  <2>2. OneRdb(wire'[r]) /\ \A k : Lacks(wire'[r], k)
    BY <1>x, ExitAt, OneRdbSimple, LacksEmpty
  <2> QED
    BY <1>h, <1>x, <2>1, <2>2, ExitAt
    DEF HandshakeInv, BeforePsync, DuringPsync, FullInWriter, AfterSnapshot, FailedIsDown,
        Registered, Replies, RequestOrder, Asked, PortPending, Fresh, Unsent, InPsync
<1>1. CASE SendRequest(r)
  <2>1. UNCHANGED <<loop, got, wbuf, synced, closed, replicas>>
    BY <1>1 DEF SendRequest
  <2>2. CASE /\ up' = [up EXCEPT ![r] = Append(@, [kind |-> hs[r], n |-> 0])]
             /\ phase' = [phase EXCEPT ![r] = "sent"]
             /\ UNCHANGED <<hs, reader, down, wire>>
    <3> DEFINE m == [kind |-> hs[r], n |-> 0]
    <3>1. hs[r] \in Requests /\ phase[r] = "send" /\ phase'[r] = "sent" /\ up'[r] = Append(up[r], m)
      BY <1>1, <2>2, Domains DEF SendRequest
    <3>2. m \in UpMsg /\ m.kind = hs[r] /\ up[r] \in Seq(UpMsg)
      BY <3>1, Messages, TypesAt
    <3> HIDE DEF m
    <3>3. InOrder(up[r]) /\ Below(up[r], Rank(m.kind))
      BY <1>h, <3>1, <3>2 DEF RequestOrder, Asked
    <3>4. RequestOrder(r)'
      BY <2>2, <3>1, <3>2, <3>3, RequestsAppend DEF RequestOrder, Asked
    <3>5. \A k : Lacks(up'[r], k) <=> Lacks(up[r], k) /\ k # hs[r]
      BY <3>1, <3>2, LacksAppend
    <3>6. Fresh(r) /\ (PortPending(r)' <=> PortPending(r))
      BY <2>2, <3>1, <3>5 DEF Fresh, Unsent, PortPending
    <3> QED
      BY <1>h, <2>1, <2>2, <3>1, <3>4, <3>6
      DEF HandshakeInv, BeforePsync, DuringPsync, FullInWriter, AfterSnapshot, FailedIsDown,
          Registered, Replies, InPsync
  <2> QED
    BY <1>1, <1>x, <2>1, <2>2 DEF SendRequest
<1>2. CASE QueueRequest(r)
  <2>1. /\ UNCHANGED <<loop, up, hs, got, wire, wbuf, synced, reader, closed, down, replicas>>
        /\ phase[r] = "sent" /\ phase'[r] = "wait"
    BY <1>2, Domains DEF QueueRequest
  <2> QED
    BY <1>h, <2>1
    DEF HandshakeInv, BeforePsync, DuringPsync, FullInWriter, AfterSnapshot, FailedIsDown,
        Registered, Replies, RequestOrder, Asked, PortPending, Fresh, Unsent, InPsync
<1>3. CASE CheckResponse(r)
  <2>1. UNCHANGED <<loop, up, got, wbuf, synced, closed, replicas>>
    BY <1>3 DEF CheckResponse
  <2>2. CASE got[r] = (IF hs[r] = "psync" THEN "full" ELSE "ok")
    <3>0. UNCHANGED <<reader, down, wire>>
      BY <1>3, <2>2 DEF CheckResponse
    <3>1. /\ hs[r] \in Requests /\ phase[r] = "got" /\ phase'[r] = "send" /\ hs'[r] = Following(hs[r])
          /\ got[r] = (IF hs[r] = "psync" THEN "full" ELSE "ok")
      BY <1>3, <2>2, Domains DEF CheckResponse
    <3>2. /\ Rank(hs[r]) + 1 = Rank(hs'[r])
          /\ hs'[r] \in Requests => hs[r] # "psync"
          /\ hs[r] = "ping" <=> hs'[r] = "port"
          /\ hs'[r] # "ping" /\ hs'[r] # "failed" /\ hs[r] # "failed"
          /\ hs'[r] = "done" <=> hs[r] = "psync"
      BY <3>1 DEF Requests, Following, Rank
    <3>3. RequestOrder(r)'
      BY <1>h, <2>1, <3>1, <3>2 DEF RequestOrder, Asked
    <3>4. (Fresh(r)' => Fresh(r)) /\ (Fresh(r)' => hs'[r] # "done") /\ (PortPending(r)' <=> PortPending(r))
      BY <1>h, <2>1, <3>1, <3>2 DEF Fresh, Unsent, PortPending, BeforePsync
    <3> QED
      BY <1>h, <2>1, <3>0, <3>1, <3>2, <3>3, <3>4
      DEF HandshakeInv, BeforePsync, DuringPsync, FullInWriter, AfterSnapshot, FailedIsDown,
          Registered, Replies, InPsync
  <2>3. CASE got[r] # (IF hs[r] = "psync" THEN "full" ELSE "ok")
    <3>1. Exit(r) /\ UNCHANGED phase
      BY <1>3, <2>3 DEF CheckResponse
    <3> QED
      BY <1>x, <2>1, <3>1
  <2> QED
    BY <2>2, <2>3
<1>4. CASE HandshakeTimeout(r)
  BY <1>4, <1>x DEF HandshakeTimeout
<1> QED
  BY <1>1, <1>2, <1>3, <1>4 DEF Handshake

\* The next message of the master is taken from the wire.
LEMMA ReceiveAt ==
    ASSUME TypeOK, NEW r \in Replicas, OneRdb(wire[r]), Receive(r)
    PROVE  /\ wire[r] # <<>> /\ wire'[r] = Tail(wire[r]) /\ OneRdb(wire'[r])
           /\ \A k : Lacks(wire[r], k) <=> Head(wire[r]).kind # k /\ Lacks(wire'[r], k)
           /\ Head(wire[r]).kind = "rdb" => Lacks(wire'[r], "full") /\ Lacks(wire'[r], "rdb")
<1>1. wire[r] # <<>> /\ wire'[r] = Tail(wire[r]) /\ wire[r] \in Seq(Msg)
  BY Domains, TypesAt DEF Receive
<1> QED
  BY <1>1, OneRdbTail, LacksTail

\* What is dispatched.
LEMMA DispatchAt ==
    ASSUME TypeOK, NEW r \in Replicas, NEW k, dispatchResponse(r, k)
    PROVE  \/ phase'[r] = phase[r] /\ got'[r] = got[r]
           \/ phase[r] = "wait" /\ phase'[r] = "got" /\ got'[r] = k
BY Domains DEF dispatchResponse

\* A response that is not FULLRESYNC, or comes after PSYNC, moves the handshake
\* on within the invariant.
LEMMA HandshakeReceive ==
    ASSUME TypeOK, NEW r \in Replicas, HandshakeInv(r), Receive(r),
           UNCHANGED <<loop, hs, wbuf, closed, down, replicas>>,
           \/ phase'[r] = phase[r] /\ got'[r] = got[r]
           \/ /\ phase[r] = "wait" /\ phase'[r] = "got"
              /\ got'[r] = "full" => Head(wire[r]).kind = "full",
           up'[r] = up[r] \/ \E n \in Nat : up'[r] = Append(up[r], [kind |-> "ack", n |-> n]),
           synced'[r] \in BOOLEAN,
           ~synced[r] /\ synced'[r] => Head(wire[r]).kind = "rdb" /\ reader'[r] = "run",
           synced[r] => synced'[r],
           reader'[r] \in {"run", reader[r]} \/ (reader'[r] = "load" /\ Head(wire[r]).kind = "full")
             \/ (reader'[r] = "swallow" /\ Head(wire[r]).kind = "rdb")
    PROVE  HandshakeInv(r)'
<1>h. /\ RequestOrder(r) /\ BeforePsync(r) /\ DuringPsync(r) /\ FullInWriter(r)
      /\ OneRdb(wire[r]) /\ AfterSnapshot(r) /\ FailedIsDown(r) /\ Registered(r)
      /\ Replies(wbuf[r])
  BY DEF HandshakeInv
<1>1. /\ InOrder(up'[r]) /\ (hs[r] \in Requests => Below(up'[r], Asked(r)))
      /\ \A k : k # "ack" => (Lacks(up'[r], k) <=> Lacks(up[r], k))
  <2>1. InOrder(up[r]) /\ (hs[r] \in Requests => Below(up[r], Asked(r))) /\ up[r] \in Seq(UpMsg)
    BY <1>h, TypesAt DEF RequestOrder
  <2>2. CASE up'[r] = up[r]
    BY <2>1, <2>2
  <2>3. ASSUME NEW n \in Nat, up'[r] = Append(up[r], [kind |-> "ack", n |-> n])
        PROVE  /\ InOrder(up'[r]) /\ (hs[r] \in Requests => Below(up'[r], Asked(r)))
               /\ \A k : k # "ack" => (Lacks(up'[r], k) <=> Lacks(up[r], k))
    <3> DEFINE m == [kind |-> "ack", n |-> n]
    <3>1. m \in UpMsg /\ m.kind = "ack" /\ up'[r] = Append(up[r], m)
      BY <2>3, Messages
    <3> HIDE DEF m
    <3>2. InOrder(up'[r]) /\ (hs[r] \in Requests => Below(up'[r], Asked(r)))
      BY <2>1, <3>1, RequestsAppend
    <3> QED
      BY <2>1, <3>1, <3>2, LacksAppend
  <2> QED
    BY <2>2, <2>3
<1>2. RequestOrder(r)'
  BY <1>1 DEF RequestOrder, Asked
<1>3. (Fresh(r)' <=> Fresh(r)) /\ (PortPending(r)' <=> PortPending(r))
  <2>1. \A k \in Requests : Lacks(up'[r], k) <=> Lacks(up[r], k)
    BY <1>1 DEF Requests
  <2>2. Lacks(up'[r], "port") <=> Lacks(up[r], "port")
    BY <1>1
  <2> QED
    BY <2>1, <2>2 DEF Fresh, Unsent, PortPending
<1>4. /\ OneRdb(wire'[r])
      /\ \A k : Lacks(wire[r], k) <=> Head(wire[r]).kind # k /\ Lacks(wire'[r], k)
      /\ Head(wire[r]).kind = "rdb" => Lacks(wire'[r], "full") /\ Lacks(wire'[r], "rdb")
  BY <1>h, ReceiveAt
<1>5. BeforePsync(r)'
  BY <1>h, <1>3, <1>4 DEF BeforePsync, InPsync
<1>6. DuringPsync(r)' /\ AfterSnapshot(r)'
  BY <1>h, <1>4, TypesAt DEF DuringPsync, AfterSnapshot, InPsync
<1> QED
  BY <1>h, <1>2, <1>3, <1>4, <1>5, <1>6
  DEF HandshakeInv, FullInWriter, FailedIsDown, Registered, Replies

\* The reader of the master link keeps the handshake in order.
LEMMA HandshakeLink ==
    ASSUME TypeOK, NEW r \in Replicas, HandshakeInv(r), Link(r)
    PROVE  HandshakeInv(r)'
<1> USE DEF masterVars, goVars, flushVars, connVars, handshakeVars, replicaVars
<1>h. /\ RequestOrder(r) /\ BeforePsync(r) /\ DuringPsync(r) /\ FullInWriter(r)
      /\ OneRdb(wire[r]) /\ AfterSnapshot(r) /\ FailedIsDown(r) /\ Registered(r)
      /\ Replies(wbuf[r])
  BY DEF HandshakeInv
<1>t. TypeOK'
  BY LinkTypes
<1>b. synced'[r] \in BOOLEAN
  BY <1>t DEF TypeOK
<1>1. CASE ReadAnswer(r)
  BY <1>1, <1>b, HandshakeReceive, DispatchAt, Domains DEF ReadAnswer, LinkKept
<1>2. CASE ReadWrite(r)
  BY <1>2, <1>b, HandshakeReceive, DispatchAt, Domains DEF ReadWrite, LinkKept
<1>3. CASE ReadGetAck(r)
  <2>1. up'[r] = up[r] \/ \E n \in Nat : up'[r] = Append(up[r], [kind |-> "ack", n |-> n])
    BY <1>3, TypesAt, Domains DEF ReadGetAck
  <2> QED
    BY <1>3, <1>b, <2>1, HandshakeReceive, DispatchAt, Domains DEF ReadGetAck, LinkKept
<1>4. CASE ReadPing(r)
  BY <1>4, <1>b, HandshakeReceive, DispatchAt, Domains DEF ReadPing, LinkKept
<1>5. CASE LoadSnapshot(r)
  BY <1>5, <1>b, HandshakeReceive, DispatchAt, Domains DEF LoadSnapshot, LinkKept
<1>6. CASE LoadRefused(r)
  <2>1. \/ phase'[r] = phase[r] /\ got'[r] = got[r]
        \/ phase[r] = "wait" /\ phase'[r] = "got" /\ got'[r] = "bulk"
    BY <1>6, DispatchAt DEF LoadRefused
  <2> QED
    BY <1>6, <1>b, <2>1, HandshakeReceive, Domains DEF LoadRefused, LinkKept
<1>7. CASE ReadStrayRdb(r)
  BY <1>7, <1>b, HandshakeReceive, DispatchAt, Domains DEF ReadStrayRdb, LinkKept
<1>8. CASE ReadSwallowed(r)
  BY <1>8, <1>b, HandshakeReceive, DispatchAt, Domains DEF ReadSwallowed, LinkKept
<1>9. CASE ReadEof(r)
  <2>1. /\ UNCHANGED <<loop, up, hs, phase, got, wbuf, synced, closed, replicas>>
        /\ wire'[r] = <<>> /\ reader'[r] = "stop" /\ down'[r]
    BY <1>9, Domains DEF ReadEof
  <2> QED
    BY <1>h, <2>1, LacksEmpty, OneRdbSimple
    DEF HandshakeInv, BeforePsync, DuringPsync, FullInWriter, AfterSnapshot, FailedIsDown,
        Registered, Replies, RequestOrder, Asked, PortPending, Fresh, Unsent, InPsync
<1> QED
  BY <1>1, <1>2, <1>3, <1>4, <1>5, <1>6, <1>7, <1>8, <1>9 DEF Link

\* A write, as one replica sees it: it is sent to it, or its connection is
\* broken, or it is not registered or no longer.
LEMMA WriteAt ==
    ASSUME TypeOK, NEW r \in Replicas, NEW c \in Clients, Write(c)
    PROVE  /\ UNCHANGED <<loop, up, hs, phase, got, wbuf, flushed, doubled, synced, reader, down,
                          roff, base, applied>>
           /\ log' = Append(log, offset + WriteLen)
           /\ closed[r] => closed'[r]
           /\ r \in replicas' => r \in replicas
           /\ r \in replicas => r \in replicas' \/ closed'[r]
           /\ \/ /\ wire'[r] = Append(wire[r], [kind |-> "write", n |-> Len(log) + 1])
                 /\ r \in replicas' /\ ~down[r]
              \/ wire'[r] = wire[r] /\ (r \notin replicas' \/ down[r])
<1> PICK failing \in SUBSET {q \in replicas : MayFail(q)} :
      /\ replicas' = replicas \ failing
      /\ closed' = [q \in Replicas |-> closed[q] \/ q \in failing]
      /\ wire' = [q \in Replicas |->
           IF q \in replicas \ failing /\ ~down[q]
           THEN Append(wire[q], [kind |-> "write", n |-> Len(log) + 1])
           ELSE wire[q]]
  BY DEF Write
<1>1. /\ UNCHANGED <<loop, up, hs, phase, got, wbuf, flushed, doubled, synced, reader, down,
                     roff, base, applied>>
      /\ log' = Append(log, offset + WriteLen)
  BY DEF Write, goVars, flushVars, handshakeVars, replicaVars
<1>2. /\ closed[r] => closed'[r]
      /\ r \in replicas' => r \in replicas
      /\ r \in replicas => r \in replicas' \/ closed'[r]
  OBVIOUS
<1>3. \/ /\ wire'[r] = Append(wire[r], [kind |-> "write", n |-> Len(log) + 1])
         /\ r \in replicas' /\ ~down[r]
      \/ wire'[r] = wire[r] /\ (r \notin replicas' \/ down[r])
  OBVIOUS
<1> QED
  BY <1>1, <1>2, <1>3

\* A write keeps the invariant of a handshake.
LEMMA HandshakeWrite ==
    ASSUME TypeOK, NEW r \in Replicas, HandshakeInv(r), NEW c \in Clients, Write(c)
    PROVE  HandshakeInv(r)'
<1>h. /\ RequestOrder(r) /\ BeforePsync(r) /\ DuringPsync(r) /\ FullInWriter(r)
      /\ OneRdb(wire[r]) /\ AfterSnapshot(r) /\ FailedIsDown(r) /\ Registered(r)
      /\ Replies(wbuf[r])
  BY DEF HandshakeInv
<1> DEFINE m == [kind |-> "write", n |-> Len(log) + 1]
<1>1. /\ UNCHANGED <<loop, up, hs, phase, got, wbuf, synced, reader, down>>
      /\ closed[r] => closed'[r]
      /\ r \in replicas' => r \in replicas
      /\ r \in replicas => r \in replicas' \/ closed'[r]
      /\ (wire'[r] = Append(wire[r], m) /\ r \in replicas) \/ wire'[r] = wire[r]
  BY WriteAt
<1>2. m \in Msg /\ m.kind = "write"
  BY TypesAt, Messages DEF Kinds
<1> HIDE DEF m
<1>3. wire[r] \in Seq(Msg) /\ <<m>> \in Seq(Msg) /\ Append(wire[r], m) = wire[r] \o <<m>>
  BY <1>2, TypesAt, AppendOne
<1>4. OneRdb(wire'[r])
  BY <1>h, <1>1, <1>2, <1>3, OneRdbSimple, OneRdbConcat, LacksOne
<1>5. \A k : k # "write" => (Lacks(wire'[r], k) <=> Lacks(wire[r], k))
  <2>1. \A k : Lacks(Append(wire[r], m), k) <=> Lacks(wire[r], k) /\ k # "write"
    BY <1>2, <1>3, LacksAppend
  <2> QED
    BY <1>1, <2>1
<1>6. Registered(r)'
  BY <1>h, <1>1 DEF Registered, PortPending
<1> QED
  BY <1>h, <1>1, <1>4, <1>5, <1>6
  DEF HandshakeInv, BeforePsync, DuringPsync, FullInWriter, AfterSnapshot, FailedIsDown,
      Replies, RequestOrder, Asked, Fresh, Unsent, InPsync

\* Every step keeps every handshake in order.
LEMMA HandshakeStep ==
    ASSUME TypeOK, [Next]_vars, NEW r \in Replicas, HandshakeInv(r)
    PROVE  HandshakeInv(r)'
<1>1. CASE Elsewhere(r)
  BY <1>1
  DEF Elsewhere, HandshakeInv, BeforePsync, DuringPsync, FullInWriter, AfterSnapshot, FailedIsDown,
      Registered, PortPending, Replies, RequestOrder, Asked, Fresh, Unsent, InPsync
<1> QED
  BY <1>1, Frame, HandshakeWrite, HandshakeLoop, HandshakeGoroutines, HandshakeRequests,
     HandshakeLink

\* It holds at the start.
LEMMA HandshakeInit == ASSUME Init, NEW r \in Replicas PROVE HandshakeInv(r)
<1>1. /\ up[r] = <<>> /\ wire[r] = <<>> /\ wbuf[r] = <<>> /\ hs[r] = "ping" /\ phase[r] = "send"
      /\ ~synced[r] /\ reader[r] = "run" /\ replicas = {} /\ loop = Idle
  BY DEF Init
<1>2. (\A k : Lacks(<<>>, k)) /\ OneRdb(<<>>)
  BY LacksEmpty, OneRdbSimple
<1>3. InOrder(<<>>) /\ \A n : Below(<<>>, n)
  BY DEF InOrder, Below
<1> QED
  BY <1>1, <1>2, <1>3, IdleIs
  DEF HandshakeInv, BeforePsync, DuringPsync, FullInWriter, AfterSnapshot, FailedIsDown,
      Registered, PortPending, Replies, RequestOrder, Asked, Fresh, Unsent, InPsync

\* A handshake that is over was registered, and none of its requests is left.
LEMMA HandshakeOver ==
    TypeOK /\ (\A r \in Replicas : HandshakeInv(r)) => HandshakeDoneMeansRegistered
<1> SUFFICES ASSUME TypeOK, NEW r \in Replicas, HandshakeInv(r), hs[r] = "done", ~closed[r]
             PROVE  r \in replicas /\ \A i \in 1 .. Len(up[r]) : up[r][i].kind = "ack"
  BY DEF HandshakeDoneMeansRegistered
<1>1. ~Fresh(r)
  BY DEF HandshakeInv, BeforePsync
<1>2. \A k \in Requests : Lacks(up[r], k)
  BY <1>1 DEF Fresh
<1>3. r \in replicas
  BY <1>2 DEF HandshakeInv, Registered, PortPending, Requests
<1>4. ASSUME NEW i \in 1 .. Len(up[r]) PROVE up[r][i].kind = "ack"
  <2>1. up[r] \in Seq(UpMsg)
    BY TypesAt
  <2>2. up[r][i] \in UpMsg
    BY <2>1, ElementOfSeq
  <2>3. up[r][i].kind \in Requests \cup {"ack"}
    BY <2>2 DEF UpMsg
  <2> QED
    BY <1>2, <2>3 DEF Lacks
<1> QED
  BY <1>3, <1>4

\* A handshake that succeeded matched each answer with its own request: the
\* master has registered the replica and has taken its PSYNC.
THEOREM HandshakeCorrect == Spec => []HandshakeDoneMeansRegistered
<1> DEFINE Inv == TypeOK /\ \A r \in Replicas : HandshakeInv(r)
<1>1. Init => Inv
  BY TypeInit, HandshakeInit
<1>2. Inv /\ [Next]_vars => Inv'
  BY TypeStep, HandshakeStep
<1>3. Inv => HandshakeDoneMeansRegistered
  BY HandshakeOver
<1> QED
  BY <1>1, <1>2, <1>3, PTL DEF Spec

(***************************************************************************)
(* The stream of writes: no write falls between snapshot and stream, and   *)
(* every step is a step of ReplicatedLog.                                  *)
(***************************************************************************)

(***************************************************************************)
(* The stream of writes to one replica: w is what is on the wire to it, b  *)
(* the length of the snapshot it has loaded, if sy, ap the writes it has   *)
(* executed since, and L the number of writes of the master.               *)
(***************************************************************************)
IsWrite(m) == m.kind = "write"
IsRdb(m) == m.kind = "rdb"

OnWire(w, i) == \E j \in 1 .. Len(w) : IsWrite(w[j]) /\ w[j].n = i

\* Only writes of the log are sent and executed.
OfTheLog(w, ap, L) ==
    /\ \A j \in 1 .. Len(w) : /\ IsWrite(w[j]) => w[j].n \in 1 .. L
                              /\ IsRdb(w[j]) => w[j].n \in 0 .. L
    /\ \A j \in 1 .. Len(ap) : ap[j] \in 1 .. L

\* They travel in order, and the snapshot has all that was sent before it.
WireOrder(w) ==
    \A i, j \in 1 .. Len(w) : i < j =>
      /\ IsWrite(w[i]) /\ IsWrite(w[j]) => w[i].n < w[j].n
      /\ IsRdb(w[i]) /\ IsWrite(w[j]) => w[i].n < w[j].n
      /\ IsWrite(w[i]) /\ IsRdb(w[j]) => w[i].n <= w[j].n

SnapshotCovers(w, ap) ==
    \A k \in 1 .. Len(w), j \in 1 .. Len(ap) : IsRdb(w[k]) => ap[j] <= w[k].n

\* The writes on the wire continue what the replica holds, or the snapshot on
\* its way, without a gap.
AfterHeld(w, h) ==
    \A j \in 1 .. Len(w) : IsWrite(w[j]) =>
      w[j].n > h /\ \A i \in h + 1 .. w[j].n : OnWire(w, i)
AfterRdb(w) ==
    \A k, j \in 1 .. Len(w) : IsRdb(w[k]) /\ IsWrite(w[j]) /\ k < j =>
      \A i \in w[k].n + 1 .. w[j].n : OnWire(w, i)

\* After the snapshot the replica executes the next write, each time.
AppliedInOrder(b, ap, L) ==
    b + Len(ap) <= L /\ \A j \in 1 .. Len(ap) : ap[j] = b + j

StreamOK(w, b, ap, sy, L) ==
    /\ OfTheLog(w, ap, L) /\ WireOrder(w) /\ SnapshotCovers(w, ap) /\ AfterRdb(w)
    /\ sy => AppliedInOrder(b, ap, L) /\ AfterHeld(w, b + Len(ap))

\* Write i is held, or part of the snapshot that the replica will load.
Held(b, ap, i) == i <= b \/ \E j \in 1 .. Len(ap) : ap[j] = i
InRdb(w, i) == \A k \in 1 .. Len(w) : IsRdb(w[k]) => i <= w[k].n
Settled(w, b, ap, sy, i) == IF sy THEN Held(b, ap, i) ELSE InRdb(w, i)

There(w, b, ap, sy, i) == OnWire(w, i) \/ Settled(w, b, ap, sy, i)
Covered(w, b, ap, sy, L) == \A i \in 1 .. L : There(w, b, ap, sy, i)

\* A registered replica whose connection is up misses nothing.
StreamInv(r) ==
    /\ StreamOK(wire[r], base[r], applied[r], synced[r], Len(log))
    /\ r \in replicas /\ ~down[r] =>
         Covered(wire[r], base[r], applied[r], synced[r], Len(log))

\* The types of a message on a wire.
LEMMA MsgAt ==
    ASSUME NEW w \in Seq(Msg), NEW j \in 1 .. Len(w)
    PROVE  w[j] \in Msg /\ w[j].n \in Nat /\ w[j].kind \in Kinds
<1>1. w[j] \in Msg
  BY ElementOfSeq
<1> QED
  BY <1>1 DEF Msg

\* A part of the wire, with the rest of it gone or not yet there.
Part(v, w, d) ==
    \A i \in 1 .. Len(v) : IsWrite(v[i]) \/ IsRdb(v[i]) =>
      i + d \in 1 .. Len(w) /\ v[i] = w[i + d]

\* What holds of a stream holds of a part of it.
LEMMA PartOK ==
    ASSUME NEW v \in Seq(Msg), NEW w \in Seq(Msg), NEW d \in {0, 1}, Part(v, w, d),
           NEW ap, NEW L, OfTheLog(w, ap, L), WireOrder(w), SnapshotCovers(w, ap)
    PROVE  /\ OfTheLog(v, ap, L) /\ WireOrder(v) /\ SnapshotCovers(v, ap)
           /\ \A i : InRdb(w, i) => InRdb(v, i)
           /\ \A i : OnWire(v, i) => OnWire(w, i)
<1>1. OfTheLog(v, ap, L)
  BY DEF Part, OfTheLog
<1>2. WireOrder(v)
  <2> SUFFICES ASSUME NEW i \in 1 .. Len(v), NEW j \in 1 .. Len(v), i < j,
                      IsWrite(v[i]) \/ IsRdb(v[i]), IsWrite(v[j]) \/ IsRdb(v[j])
               PROVE  /\ IsWrite(v[i]) /\ IsWrite(v[j]) => v[i].n < v[j].n
                      /\ IsRdb(v[i]) /\ IsWrite(v[j]) => v[i].n < v[j].n
                      /\ IsWrite(v[i]) /\ IsRdb(v[j]) => v[i].n <= v[j].n
    BY DEF WireOrder
  <2>1. /\ i + d \in 1 .. Len(w) /\ v[i] = w[i + d] /\ j + d \in 1 .. Len(w) /\ v[j] = w[j + d]
        /\ i + d < j + d
    BY DEF Part
  <2> QED
    BY <2>1 DEF WireOrder
<1>3. SnapshotCovers(v, ap)
  BY DEF Part, SnapshotCovers
<1>4. ASSUME NEW i, InRdb(w, i) PROVE InRdb(v, i)
  BY <1>4 DEF Part, InRdb
<1>5. ASSUME NEW i, OnWire(v, i) PROVE OnWire(w, i)
  BY <1>5 DEF Part, OnWire
<1> QED
  BY <1>1, <1>2, <1>3, <1>4, <1>5

\* Replies, GETACKs and PINGs change nothing.
LEMMA StreamAdds ==
    ASSUME NEW w \in Seq(Msg), NEW t \in Seq(Msg), Replies(t),
           NEW b, NEW ap, NEW sy, NEW L, StreamOK(w, b, ap, sy, L)
    PROVE  /\ StreamOK(w \o t, b, ap, sy, L)
           /\ \A i : There(w, b, ap, sy, i) => There(w \o t, b, ap, sy, i)
<1> DEFINE v == w \o t
<1>1. /\ v \in Seq(Msg) /\ Part(v, w, 0)
      /\ \A i \in 1 .. Len(w) : i \in 1 .. Len(v) /\ v[i] = w[i]
  <2>1. v \in Seq(Msg) /\ \A i \in 1 .. Len(w) : i \in 1 .. Len(v) /\ v[i] = w[i]
    BY Concat
  <2>2. ASSUME NEW i \in 1 .. Len(v), IsWrite(v[i]) \/ IsRdb(v[i]) PROVE i \in 1 .. Len(w)
    <3> SUFFICES ASSUME i \notin 1 .. Len(w) PROVE FALSE
      OBVIOUS
    <3>1. i - Len(w) \in 1 .. Len(t) /\ v[i] = t[i - Len(w)]
      BY Concat
    <3> QED
      BY <2>2, <3>1 DEF Replies, Lacks, IsWrite, IsRdb
  <2> QED
    BY <2>1, <2>2 DEF Part
<1> HIDE DEF v
<1>2. \A i : OnWire(w, i) => OnWire(v, i)
  BY <1>1 DEF OnWire
<1>3. /\ OfTheLog(v, ap, L) /\ WireOrder(v) /\ SnapshotCovers(v, ap)
      /\ \A i : InRdb(w, i) => InRdb(v, i)
  BY <1>1, PartOK DEF StreamOK
<1>4. AfterRdb(v)
  <2> SUFFICES ASSUME NEW k \in 1 .. Len(v), NEW j \in 1 .. Len(v), IsRdb(v[k]), IsWrite(v[j]), k < j,
                      NEW i \in v[k].n + 1 .. v[j].n
               PROVE  OnWire(v, i)
    BY DEF AfterRdb
  <2>1. k \in 1 .. Len(w) /\ v[k] = w[k] /\ j \in 1 .. Len(w) /\ v[j] = w[j]
    BY <1>1 DEF Part
  <2> QED
    BY <1>2, <2>1 DEF StreamOK, AfterRdb
<1>5. ASSUME sy PROVE AfterHeld(v, b + Len(ap))
  <2> SUFFICES ASSUME NEW j \in 1 .. Len(v), IsWrite(v[j])
               PROVE  v[j].n > b + Len(ap) /\ \A i \in b + Len(ap) + 1 .. v[j].n : OnWire(v, i)
    BY DEF AfterHeld
  <2>1. j \in 1 .. Len(w) /\ v[j] = w[j]
    BY <1>1 DEF Part
  <2> QED
    BY <1>2, <1>5, <2>1 DEF StreamOK, AfterHeld
<1>6. StreamOK(v, b, ap, sy, L)
  BY <1>3, <1>4, <1>5 DEF StreamOK
<1>7. \A i : There(w, b, ap, sy, i) => There(v, b, ap, sy, i)
  BY <1>2, <1>3 DEF There, Settled
<1> QED
  BY <1>6, <1>7 DEF v

\* The snapshot has every write of the master.
LEMMA StreamSnaps ==
    ASSUME NEW w \in Seq(Msg), Lacks(w, "rdb"), NEW b, NEW ap \in Seq(Nat), NEW L \in Nat,
           NEW m \in Msg, m.kind = "rdb", m.n = L, StreamOK(w, b, ap, FALSE, L)
    PROVE  StreamOK(w \o <<m>>, b, ap, FALSE, L) /\ Covered(w \o <<m>>, b, ap, FALSE, L)
<1> DEFINE v == w \o <<m>>
<1>1. /\ v \in Seq(Msg) /\ Len(v) = Len(w) + 1 /\ v[Len(w) + 1] = m /\ Len(w) \in Nat
      /\ \A i \in 1 .. Len(w) : i \in 1 .. Len(v) /\ v[i] = w[i]
      /\ \A i \in 1 .. Len(v) : i \in 1 .. Len(w) \/ i = Len(w) + 1
  OBVIOUS
<1> HIDE DEF v
<1>2. \A k \in 1 .. Len(v) : IsRdb(v[k]) => k = Len(w) + 1 /\ v[k].n = L
  BY <1>1 DEF Lacks, IsRdb
<1>3. \A j \in 1 .. Len(v) : IsWrite(v[j]) => j \in 1 .. Len(w) /\ v[j] = w[j]
  BY <1>1 DEF IsWrite
<1>4. OfTheLog(v, ap, L)
  BY <1>1, <1>2, <1>3 DEF StreamOK, OfTheLog
<1>5. WireOrder(v)
  <2> SUFFICES ASSUME NEW i \in 1 .. Len(v), NEW j \in 1 .. Len(v), i < j,
                      IsWrite(v[i]) \/ IsRdb(v[i]), IsWrite(v[j]) \/ IsRdb(v[j])
               PROVE  /\ IsWrite(v[i]) /\ IsWrite(v[j]) => v[i].n < v[j].n
                      /\ IsRdb(v[i]) /\ IsWrite(v[j]) => v[i].n < v[j].n
                      /\ IsWrite(v[i]) /\ IsRdb(v[j]) => v[i].n <= v[j].n
    BY DEF WireOrder
  <2>1. IsWrite(v[i]) /\ i \in 1 .. Len(w) /\ v[i] = w[i] /\ ~IsRdb(v[i])
    BY <1>1, <1>2, <1>3 DEF IsWrite, IsRdb
  <2>2. CASE IsWrite(v[j])
    BY <1>3, <2>1, <2>2 DEF StreamOK, WireOrder, IsWrite, IsRdb
  <2>3. CASE IsRdb(v[j])
    <3>1. v[i].n \in 1 .. L /\ v[j].n = L
      BY <1>2, <2>1, <2>3 DEF StreamOK, OfTheLog
    <3> QED
      BY <2>1, <2>3, <3>1 DEF IsWrite, IsRdb
  <2> QED
    BY <2>2, <2>3
<1>6. SnapshotCovers(v, ap)
  <2> SUFFICES ASSUME NEW k \in 1 .. Len(v), NEW j \in 1 .. Len(ap), IsRdb(v[k]) PROVE ap[j] <= v[k].n
    BY DEF SnapshotCovers
  <2>1. ap[j] \in 1 .. L /\ v[k].n = L
    BY <1>2 DEF StreamOK, OfTheLog
  <2> QED
    BY <2>1
<1>7. AfterRdb(v)
  BY <1>1, <1>2, <1>3 DEF AfterRdb
<1>8. Covered(v, b, ap, FALSE, L)
  BY <1>2 DEF Covered, There, Settled, InRdb
<1> QED
  BY <1>4, <1>5, <1>6, <1>7, <1>8 DEF StreamOK, v

\* The log grows.
LEMMA StreamLogGrows ==
    ASSUME NEW w \in Seq(Msg), NEW b \in Nat, NEW ap \in Seq(Nat), NEW sy, NEW L \in Nat,
           StreamOK(w, b, ap, sy, L)
    PROVE  StreamOK(w, b, ap, sy, L + 1)
<1>1. OfTheLog(w, ap, L + 1)
  BY MsgAt DEF StreamOK, OfTheLog
<1>2. sy => AppliedInOrder(b, ap, L + 1)
  BY DEF StreamOK, AppliedInOrder
<1> QED
  BY <1>1, <1>2 DEF StreamOK

\* A write goes to a replica that misses nothing.
LEMMA StreamSends ==
    ASSUME NEW w \in Seq(Msg), NEW b \in Nat, NEW ap \in Seq(Nat), NEW sy, NEW L \in Nat,
           NEW m \in Msg, m.kind = "write", m.n = L + 1,
           sy => Lacks(w, "rdb"), StreamOK(w, b, ap, sy, L), Covered(w, b, ap, sy, L)
    PROVE  StreamOK(Append(w, m), b, ap, sy, L + 1) /\ Covered(Append(w, m), b, ap, sy, L + 1)
<1> DEFINE v == Append(w, m)
<1>1. /\ v \in Seq(Msg) /\ Len(v) = Len(w) + 1 /\ v[Len(w) + 1] = m /\ Len(w) \in Nat
      /\ \A i \in 1 .. Len(w) : i \in 1 .. Len(v) /\ v[i] = w[i]
      /\ \A i \in 1 .. Len(v) : i \in 1 .. Len(w) \/ i = Len(w) + 1
  OBVIOUS
<1> HIDE DEF v
<1>2. \A k \in 1 .. Len(v) : IsRdb(v[k]) => k \in 1 .. Len(w) /\ v[k] = w[k]
  BY <1>1 DEF IsRdb
<1>3. (\A i : OnWire(w, i) => OnWire(v, i)) /\ OnWire(v, L + 1)
  BY <1>1 DEF OnWire, IsWrite
<1>4. OfTheLog(v, ap, L + 1)
  <2>1. OfTheLog(w, ap, L + 1)
    BY StreamLogGrows DEF StreamOK
  <2>2. ASSUME NEW j \in 1 .. Len(v)
        PROVE  (IsWrite(v[j]) => v[j].n \in 1 .. L + 1) /\ (IsRdb(v[j]) => v[j].n \in 0 .. L + 1)
    <3>1. CASE j \in 1 .. Len(w)
      BY <1>1, <2>1, <3>1 DEF OfTheLog
    <3>2. CASE j = Len(w) + 1
      BY <1>1, <3>2
    <3> QED
      BY <1>1, <3>1, <3>2
  <2> QED
    BY <2>1, <2>2 DEF OfTheLog
<1>5. WireOrder(v)
  <2> SUFFICES ASSUME NEW i \in 1 .. Len(v), NEW j \in 1 .. Len(v), i < j,
                      IsWrite(v[i]) \/ IsRdb(v[i]), IsWrite(v[j]) \/ IsRdb(v[j])
               PROVE  /\ IsWrite(v[i]) /\ IsWrite(v[j]) => v[i].n < v[j].n
                      /\ IsRdb(v[i]) /\ IsWrite(v[j]) => v[i].n < v[j].n
                      /\ IsWrite(v[i]) /\ IsRdb(v[j]) => v[i].n <= v[j].n
    BY DEF WireOrder
  <2>1. i \in 1 .. Len(w) /\ v[i] = w[i]
    BY <1>1
  <2>2. CASE j \in 1 .. Len(w)
    BY <1>1, <2>1, <2>2 DEF StreamOK, WireOrder
  <2>3. CASE j = Len(w) + 1
    <3>1. v[i].n \in 0 .. L /\ v[j].n = L + 1 /\ ~IsRdb(v[j])
      BY <1>1, <2>1, <2>3 DEF StreamOK, OfTheLog, IsRdb
    <3> QED
      BY <3>1
  <2> QED
    BY <1>1, <2>2, <2>3
<1>6. SnapshotCovers(v, ap)
  BY <1>2 DEF StreamOK, SnapshotCovers
<1>7. AfterRdb(v)
  <2> SUFFICES ASSUME NEW k \in 1 .. Len(v), NEW j \in 1 .. Len(v), IsRdb(v[k]), IsWrite(v[j]), k < j,
                      NEW i \in v[k].n + 1 .. v[j].n
               PROVE  OnWire(v, i)
    BY DEF AfterRdb
  <2>1. k \in 1 .. Len(w) /\ v[k] = w[k] /\ v[k].n \in Nat /\ ~sy
    BY <1>2, MsgAt DEF Lacks, IsRdb
  <2>2. CASE j \in 1 .. Len(w)
    BY <1>1, <1>3, <2>1, <2>2 DEF StreamOK, AfterRdb
  <2>3. CASE j = Len(w) + 1
    <3>1. i = L + 1 \/ i \in 1 .. L
      BY <1>1, <2>1, <2>3
    <3>2. ASSUME i \in 1 .. L PROVE OnWire(w, i)
      <4>1. OnWire(w, i) \/ InRdb(w, i)
        BY <2>1, <3>2 DEF Covered, There, Settled
      <4>2. ~InRdb(w, i)
        <5>1. IsRdb(w[k]) /\ ~(i <= w[k].n)
          BY <2>1
        <5> QED
          BY <2>1, <5>1 DEF InRdb
      <4> QED
        BY <4>1, <4>2
    <3> QED
      BY <1>3, <3>1, <3>2
  <2> QED
    BY <1>1, <2>2, <2>3
<1>8. ASSUME sy PROVE AfterHeld(v, b + Len(ap))
  <2> DEFINE h == b + Len(ap)
  <2>1. h \in Nat /\ h <= L /\ \A j \in 1 .. Len(ap) : ap[j] = b + j
    BY <1>8 DEF StreamOK, AppliedInOrder
  <2>2. ASSUME NEW i \in h + 1 .. L PROVE OnWire(w, i)
    <3>1. i \in 1 .. L /\ (OnWire(w, i) \/ Held(b, ap, i))
      BY <1>8, <2>1 DEF Covered, There, Settled
    <3>2. ~Held(b, ap, i)
      BY <2>1, <2>2 DEF Held
    <3> QED
      BY <3>1, <3>2
  <2>3. AfterHeld(w, h)
    BY <1>8 DEF StreamOK
  <2> HIDE DEF h
  <2>4. ASSUME NEW j \in 1 .. Len(v), IsWrite(v[j])
        PROVE  v[j].n > h /\ \A i \in h + 1 .. v[j].n : OnWire(v, i)
    <3>1. CASE j \in 1 .. Len(w)
      BY <1>1, <1>3, <2>3, <2>4, <3>1 DEF AfterHeld
    <3>2. CASE j = Len(w) + 1
      <4>1. v[j].n = L + 1 /\ \A i \in h + 1 .. L + 1 : i = L + 1 \/ i \in h + 1 .. L
        BY <1>1, <2>1, <3>2
      <4> QED
        BY <1>3, <2>1, <2>2, <4>1
    <3> QED
      BY <1>1, <3>1, <3>2
  <2> QED
    BY <2>4 DEF AfterHeld, h
<1>9. sy => AppliedInOrder(b, ap, L + 1)
  BY DEF StreamOK, AppliedInOrder
<1>10. Covered(v, b, ap, sy, L + 1)
  <2> SUFFICES ASSUME NEW i \in 1 .. L + 1 PROVE OnWire(v, i) \/ Settled(v, b, ap, sy, i)
    BY DEF Covered, There
  <2>1. CASE i = L + 1
    BY <1>3, <2>1
  <2>2. CASE i \in 1 .. L
    <3>1. OnWire(w, i) \/ Settled(w, b, ap, sy, i)
      BY <2>2 DEF Covered, There
    <3>2. InRdb(w, i) => InRdb(v, i)
      BY <1>2 DEF InRdb
    <3> QED
      BY <1>3, <3>1, <3>2 DEF Settled
  <2> QED
    BY <2>1, <2>2
<1> QED
  BY <1>4, <1>5, <1>6, <1>7, <1>8, <1>9, <1>10 DEF StreamOK, v

\* The first message is taken: what is left, and what was lost.
LEMMA TailPart ==
    ASSUME NEW w \in Seq(Msg), w # <<>>
    PROVE  /\ Tail(w) \in Seq(Msg) /\ Part(Tail(w), w, 1)
           /\ \A i : OnWire(w, i) => OnWire(Tail(w), i) \/ (IsWrite(Head(w)) /\ i = Head(w).n)
<1>1. /\ Tail(w) \in Seq(Msg) /\ Head(w) = w[1]
      /\ \A i \in 1 .. Len(Tail(w)) : i + 1 \in 1 .. Len(w) /\ Tail(w)[i] = w[i + 1]
      /\ \A i \in 1 .. Len(w) : i = 1 \/ (i - 1 \in 1 .. Len(Tail(w)) /\ w[i] = Tail(w)[i - 1])
  BY HeadTail
<1>2. Part(Tail(w), w, 1)
  BY <1>1 DEF Part
<1>3. ASSUME NEW i, OnWire(w, i) PROVE OnWire(Tail(w), i) \/ (IsWrite(Head(w)) /\ i = Head(w).n)
  <2>1. PICK j \in 1 .. Len(w) : IsWrite(w[j]) /\ w[j].n = i
    BY <1>3 DEF OnWire
  <2>2. CASE j = 1
    BY <1>1, <2>1, <2>2
  <2>3. CASE j - 1 \in 1 .. Len(Tail(w)) /\ w[j] = Tail(w)[j - 1]
    BY <2>1, <2>3 DEF OnWire
  <2> QED
    BY <1>1, <2>2, <2>3
<1> QED
  BY <1>1, <1>2, <1>3

\* What every taking of a message keeps.
LEMMA TailOK ==
    ASSUME NEW w \in Seq(Msg), w # <<>>, NEW b, NEW ap, NEW sy, NEW L \in Nat,
           StreamOK(w, b, ap, sy, L)
    PROVE  /\ OfTheLog(Tail(w), ap, L) /\ WireOrder(Tail(w)) /\ SnapshotCovers(Tail(w), ap)
           /\ \A i : InRdb(w, i) => InRdb(Tail(w), i)
           /\ IsWrite(Head(w)) => InRdb(Tail(w), Head(w).n) /\ Head(w).n \in 1 .. L
           /\ AfterRdb(Tail(w))
<1> DEFINE v == Tail(w)
<1>0. /\ 1 \in 1 .. Len(w) /\ Head(w) = w[1] /\ w[1].n \in Nat
      /\ \A i \in 1 .. Len(v) : i + 1 \in 1 .. Len(w) /\ v[i] = w[i + 1] /\ i + 1 > 1 /\ v[i].n \in Nat
  BY HeadTail, MsgAt
<1>1. /\ OfTheLog(v, ap, L) /\ WireOrder(v) /\ SnapshotCovers(v, ap)
      /\ \A i : InRdb(w, i) => InRdb(v, i)
  BY TailPart, PartOK DEF StreamOK
<1>2. \A i : OnWire(w, i) => OnWire(v, i) \/ (IsWrite(Head(w)) /\ i = Head(w).n)
  BY TailPart
<1>3. IsWrite(Head(w)) => InRdb(v, Head(w).n) /\ Head(w).n \in 1 .. L
  BY <1>0 DEF StreamOK, WireOrder, InRdb, OfTheLog
<1> HIDE DEF v
<1>4. AfterRdb(v)
  <2> SUFFICES ASSUME NEW k \in 1 .. Len(v), NEW j \in 1 .. Len(v), IsRdb(v[k]), IsWrite(v[j]), k < j,
                      NEW i \in v[k].n + 1 .. v[j].n
               PROVE  OnWire(v, i)
    BY DEF AfterRdb
  <2>1. /\ k + 1 \in 1 .. Len(w) /\ v[k] = w[k + 1] /\ j + 1 \in 1 .. Len(w) /\ v[j] = w[j + 1]
        /\ k + 1 < j + 1 /\ v[k].n \in Nat /\ v[j].n \in Nat
    BY <1>0
  <2>2. OnWire(w, i)
    BY <2>1 DEF StreamOK, AfterRdb
  <2>3. IsWrite(Head(w)) => Head(w).n <= v[k].n
    BY <1>3 DEF InRdb
  <2>4. ~(IsWrite(Head(w)) /\ i = Head(w).n)
    BY <1>3, <2>1, <2>3
  <2> QED
    BY <1>2, <2>2, <2>4
<1> QED
  BY <1>1, <1>3, <1>4 DEF v

\* A message is read and not executed: it is no write and no snapshot, or the
\* replica has not loaded one.
LEMMA StreamSkips ==
    ASSUME NEW w \in Seq(Msg), w # <<>>, OneRdb(w), NEW b \in Nat, NEW ap \in Seq(Nat), NEW sy \in BOOLEAN,
           NEW L \in Nat, StreamOK(w, b, ap, sy, L),
           IsWrite(Head(w)) \/ IsRdb(Head(w)) => ~sy
    PROVE  /\ StreamOK(Tail(w), b, ap, sy, L)
           /\ \A i : There(w, b, ap, sy, i) => There(Tail(w), b, ap, sy, i)
<1>1. /\ OfTheLog(Tail(w), ap, L) /\ WireOrder(Tail(w)) /\ SnapshotCovers(Tail(w), ap)
      /\ \A i : InRdb(w, i) => InRdb(Tail(w), i)
      /\ IsWrite(Head(w)) => InRdb(Tail(w), Head(w).n)
      /\ AfterRdb(Tail(w))
  BY TailOK
<1>2. \A i : OnWire(w, i) => OnWire(Tail(w), i) \/ (IsWrite(Head(w)) /\ i = Head(w).n)
  BY TailPart
<1>3. ASSUME sy PROVE AfterHeld(Tail(w), b + Len(ap))
  <2>1. AfterHeld(w, b + Len(ap)) /\ \A i : OnWire(w, i) => OnWire(Tail(w), i)
    BY <1>2, <1>3 DEF StreamOK
  <2>2. \A i \in 1 .. Len(Tail(w)) : i + 1 \in 1 .. Len(w) /\ Tail(w)[i] = w[i + 1]
    BY HeadTail
  <2> QED
    BY <2>1, <2>2 DEF AfterHeld
<1>4. StreamOK(Tail(w), b, ap, sy, L)
  BY <1>1, <1>3 DEF StreamOK
<1>5. \A i : There(w, b, ap, sy, i) => There(Tail(w), b, ap, sy, i)
  BY <1>1, <1>2 DEF There, Settled
<1> QED
  BY <1>4, <1>5

\* The next write is executed.  A replica that has loaded its snapshot executes
\* the one after those it holds.
LEMMA StreamExecutes ==
    ASSUME NEW w \in Seq(Msg), w # <<>>, NEW b \in Nat, NEW ap \in Seq(Nat), NEW sy \in BOOLEAN,
           NEW L \in Nat, StreamOK(w, b, ap, sy, L), IsWrite(Head(w))
    PROVE  /\ StreamOK(Tail(w), b, Append(ap, Head(w).n), sy, L)
           /\ \A i : There(w, b, ap, sy, i) => There(Tail(w), b, Append(ap, Head(w).n), sy, i)
           /\ sy => Head(w).n = b + Len(ap) + 1
<1> DEFINE n == Head(w).n
           aq == Append(ap, n)
<1>0. n \in Nat /\ Head(w) = w[1] /\ 1 \in 1 .. Len(w)
  BY HeadTail, MsgAt
<1>1. /\ OfTheLog(Tail(w), ap, L) /\ WireOrder(Tail(w)) /\ SnapshotCovers(Tail(w), ap)
      /\ \A i : InRdb(w, i) => InRdb(Tail(w), i)
      /\ InRdb(Tail(w), n) /\ n \in 1 .. L
      /\ AfterRdb(Tail(w))
  BY TailOK
<1>2. \A i : OnWire(w, i) => OnWire(Tail(w), i) \/ i = n
  BY TailPart
<1>3. /\ Len(aq) = Len(ap) + 1 /\ aq[Len(ap) + 1] = n /\ Len(ap) \in Nat
      /\ \A j \in 1 .. Len(ap) : j \in 1 .. Len(aq) /\ aq[j] = ap[j]
      /\ \A j \in 1 .. Len(aq) : j \in 1 .. Len(ap) \/ j = Len(ap) + 1
  BY <1>0, SMTT(30)
<1> HIDE DEF n, aq
<1>4. OfTheLog(Tail(w), aq, L)
  BY <1>1, <1>3 DEF OfTheLog
<1>5. SnapshotCovers(Tail(w), aq)
  <2> SUFFICES ASSUME NEW k \in 1 .. Len(Tail(w)), NEW j \in 1 .. Len(aq), IsRdb(Tail(w)[k])
               PROVE  aq[j] <= Tail(w)[k].n
    BY DEF SnapshotCovers
  <2>1. CASE j \in 1 .. Len(ap)
    BY <1>1, <1>3, <2>1 DEF SnapshotCovers
  <2>2. CASE j = Len(ap) + 1
    BY <1>1, <1>3, <2>2 DEF InRdb
  <2> QED
    BY <1>3, <2>1, <2>2
<1>6. ASSUME sy PROVE n = b + Len(ap) + 1
  <2> DEFINE h == b + Len(ap)
  <2>1. h \in Nat /\ h + 1 \in Nat
    BY <1>3
  <2>2. n > h /\ \A i \in h + 1 .. n : OnWire(w, i)
    BY <1>0, <1>6 DEF StreamOK, AfterHeld, n
  <2> HIDE DEF h
  <2>3. PICK j \in 1 .. Len(w) : IsWrite(w[j]) /\ w[j].n = h + 1
    <3>1. h + 1 \in h + 1 .. n
      BY <1>0, <2>1, <2>2
    <3> QED
      BY <2>2, <3>1 DEF OnWire
  <2>4. j = 1 \/ 1 < j
    OBVIOUS
  <2>5. 1 < j => n < h + 1
    BY <1>0, <2>3 DEF StreamOK, WireOrder, n
  <2>6. j = 1 => n = h + 1
    BY <1>0, <2>3 DEF n
  <2> QED
    BY <1>0, <2>1, <2>2, <2>4, <2>5, <2>6 DEF h
<1>7. ASSUME sy PROVE AppliedInOrder(b, aq, L) /\ AfterHeld(Tail(w), b + Len(aq))
  <2>1. AppliedInOrder(b, ap, L) /\ AfterHeld(w, b + Len(ap))
    BY <1>7 DEF StreamOK
  <2>2. b + Len(aq) = n
    BY <1>3, <1>6, <1>7
  <2>3. ASSUME NEW j \in 1 .. Len(aq) PROVE aq[j] = b + j
    <3>1. CASE j \in 1 .. Len(ap)
      BY <1>3, <2>1, <3>1 DEF AppliedInOrder
    <3>2. CASE j = Len(ap) + 1
      BY <1>3, <1>6, <1>7, <3>2
    <3> QED
      BY <1>3, <3>1, <3>2
  <2>4. AppliedInOrder(b, aq, L)
    BY <1>1, <2>2, <2>3 DEF AppliedInOrder
  <2>5. ASSUME NEW j \in 1 .. Len(Tail(w)), IsWrite(Tail(w)[j])
        PROVE  Tail(w)[j].n > n /\ \A i \in n + 1 .. Tail(w)[j].n : OnWire(Tail(w), i)
    <3>1. j + 1 \in 1 .. Len(w) /\ Tail(w)[j] = w[j + 1] /\ 1 < j + 1 /\ w[j + 1].n \in Nat
      BY HeadTail, MsgAt
    <3>2. w[j + 1].n > n
      BY <1>0, <2>5, <3>1 DEF StreamOK, WireOrder, n
    <3>3. \A i \in b + Len(ap) + 1 .. w[j + 1].n : OnWire(w, i)
      BY <2>1, <2>5, <3>1 DEF AfterHeld
    <3>4. \A i \in n + 1 .. w[j + 1].n : OnWire(w, i) /\ i # n
      BY <1>0, <1>6, <1>7, <3>1, <3>3
    <3> QED
      BY <1>2, <3>1, <3>2, <3>4
  <2> QED
    BY <2>2, <2>4, <2>5 DEF AfterHeld
<1>8. StreamOK(Tail(w), b, aq, sy, L)
  BY <1>1, <1>4, <1>5, <1>7 DEF StreamOK
<1>9. ASSUME NEW i, There(w, b, ap, sy, i) PROVE There(Tail(w), b, aq, sy, i)
  <2>1. OnWire(w, i) \/ Settled(w, b, ap, sy, i)
    BY <1>9 DEF There
  <2>2. Held(b, ap, i) \/ i = n => Held(b, aq, i)
    BY <1>3 DEF Held
  <2> QED
    BY <1>1, <1>2, <2>1, <2>2 DEF There, Settled
<1> QED
  BY <1>6, <1>8, <1>9 DEF n, aq

\* The snapshot is loaded: nothing that was executed before it is left, and
\* the writes behind it continue it.
LEMMA StreamLoads ==
    ASSUME NEW w \in Seq(Msg), w # <<>>, NEW b \in Nat, NEW ap \in Seq(Nat), NEW L \in Nat,
           StreamOK(w, b, ap, FALSE, L), IsRdb(Head(w)), NEW aq,
           aq = IF Head(w).n = 0 THEN ap ELSE <<>>
    PROVE  /\ aq = <<>> /\ Head(w).n \in 0 .. L
           /\ StreamOK(Tail(w), Head(w).n, <<>>, TRUE, L)
           /\ \A i : There(w, b, ap, FALSE, i) => There(Tail(w), Head(w).n, <<>>, TRUE, i)
<1> DEFINE n == Head(w).n
<1>0. n \in Nat /\ Head(w) = w[1] /\ 1 \in 1 .. Len(w)
  BY HeadTail, MsgAt
<1>1. /\ OfTheLog(Tail(w), ap, L) /\ WireOrder(Tail(w)) /\ AfterRdb(Tail(w))
  BY TailOK
<1>2. \A i : OnWire(w, i) => OnWire(Tail(w), i)
  BY TailPart DEF IsWrite, IsRdb
<1>3. n \in 0 .. L
  BY <1>0 DEF StreamOK, OfTheLog
<1>4. aq = <<>>
  <2>1. ASSUME n = 0, ap # <<>> PROVE FALSE
    <3>1. 1 \in 1 .. Len(ap)
      BY <2>1
    <3>2. ap[1] \in 1 .. L /\ ap[1] <= n
      BY <1>0, <3>1 DEF StreamOK, OfTheLog, SnapshotCovers
    <3> QED
      BY <2>1, <3>2
  <2> QED
    BY <2>1
<1> HIDE DEF n
<1>5. OfTheLog(Tail(w), <<>>, L) /\ SnapshotCovers(Tail(w), <<>>) /\ AppliedInOrder(n, <<>>, L)
  BY <1>1, <1>3 DEF OfTheLog, SnapshotCovers, AppliedInOrder
<1>6. AfterHeld(Tail(w), n)
  <2> SUFFICES ASSUME NEW j \in 1 .. Len(Tail(w)), IsWrite(Tail(w)[j])
               PROVE  Tail(w)[j].n > n /\ \A i \in n + 1 .. Tail(w)[j].n : OnWire(Tail(w), i)
    BY DEF AfterHeld
  <2>1. j + 1 \in 1 .. Len(w) /\ Tail(w)[j] = w[j + 1] /\ 1 < j + 1 /\ w[j + 1].n \in Nat
    BY HeadTail, MsgAt
  <2>2. n < w[j + 1].n
    BY <1>0, <2>1 DEF StreamOK, WireOrder, n
  <2>3. \A i \in n + 1 .. w[j + 1].n : OnWire(w, i)
    BY <1>0, <2>1 DEF StreamOK, AfterRdb, n
  <2> QED
    BY <1>0, <1>2, <2>1, <2>2, <2>3
<1>7. n + Len(<<>>) = n
  BY <1>0
<1>8. StreamOK(Tail(w), n, <<>>, TRUE, L)
  BY <1>1, <1>5, <1>6, <1>7 DEF StreamOK
<1>9. ASSUME NEW i, There(w, b, ap, FALSE, i) PROVE There(Tail(w), n, <<>>, TRUE, i)
  <2>1. OnWire(w, i) \/ InRdb(w, i)
    BY <1>9 DEF There, Settled
  <2>2. InRdb(w, i) => i <= n
    BY <1>0 DEF InRdb, n
  <2> QED
    BY <1>2, <2>1, <2>2 DEF There, Settled, Held
<1> QED
  BY <1>3, <1>4, <1>8, <1>9 DEF n

(***************************************************************************)
(* What the steps of the system do to the stream of one replica.           *)
(***************************************************************************)
StoreKept(r) == synced'[r] = synced[r] /\ base'[r] = base[r] /\ applied'[r] = applied[r]
Stays(r) == (r \in replicas' => r \in replicas) /\ (down[r] => down'[r])

\* Replies, GETACKs and PINGs, or nothing, go on the wire.
Adds(r) ==
    /\ StoreKept(r) /\ Stays(r) /\ log' = log
    /\ \/ wire'[r] = wire[r]
       \/ \E t \in Seq(Msg) : Replies(t) /\ wire'[r] = wire[r] \o t

\* The connection ends.
Cuts(r) ==
    /\ StoreKept(r) /\ Stays(r) /\ log' = log
    /\ wire'[r] = <<>> /\ down'[r] /\ reader'[r] = "stop"

\* The snapshot goes on the wire.
Snaps(r) ==
    /\ StoreKept(r) /\ Stays(r) /\ log' = log
    /\ ~synced[r] /\ Lacks(wire[r], "rdb")
    /\ wire'[r] = wire[r] \o <<[kind |-> "rdb", n |-> Len(log)]>>

\* A write goes on the wire, unless the connection is broken or is not, or no
\* longer, a replica's.
Sends(r) ==
    /\ StoreKept(r) /\ Stays(r)
    /\ Len(log') = Len(log) + 1
    /\ \/ /\ wire'[r] = Append(wire[r], [kind |-> "write", n |-> Len(log) + 1])
          /\ r \in replicas /\ ~down[r]
       \/ wire'[r] = wire[r] /\ (r \notin replicas' \/ down'[r])

\* The replica is registered.
Registers(r) ==
    /\ StoreKept(r) /\ log' = log /\ wire'[r] = wire[r]
    /\ ~synced[r] /\ Lacks(wire[r], "rdb")

\* A message is read: skipped, executed or loaded.
Reads(r) ==
    /\ Stays(r) /\ log' = log /\ reader'[r] # "stop"
    /\ wire[r] # <<>> /\ wire'[r] = Tail(wire[r])
Skips(r) ==
    /\ Reads(r) /\ StoreKept(r)
    /\ IsWrite(Head(wire[r])) \/ IsRdb(Head(wire[r])) => ~synced[r]
Executes(r) ==
    /\ Reads(r) /\ synced'[r] = synced[r] /\ base'[r] = base[r]
    /\ IsWrite(Head(wire[r])) /\ applied'[r] = Append(applied[r], Head(wire[r]).n)
Loads(r) ==
    /\ Reads(r) /\ ~synced[r] /\ synced'[r]
    /\ IsRdb(Head(wire[r])) /\ base'[r] = Head(wire[r]).n
    /\ applied'[r] = IF Head(wire[r]).n = 0 THEN applied[r] ELSE <<>>

\* The effects of the command loop's steps.
LEMMA LoopEffects ==
    ASSUME TypeOK, NEW r \in Replicas, HandshakeInv(r), Loop(r)
    PROVE  Adds(r) \/ Snaps(r) \/ Registers(r)
<1> USE DEF masterVars, goVars, flushVars, connVars, handshakeVars, replicaVars
<1>1. CASE HandlePing(r)
  BY <1>1 DEF HandlePing, Adds, StoreKept, Stays
<1>2. CASE HandlePort(r)
  <2>1. ~Lacks(up[r], "port")
    BY <1>2, LacksTail, TypesAt DEF HandlePort, TakeUp
  <2>2. Fresh(r)
    BY <2>1 DEF Fresh, Requests
  <2>3. ~synced[r] /\ Lacks(wire[r], "rdb")
    BY <2>2 DEF HandshakeInv, BeforePsync
  <2> QED
    BY <1>2, <2>3 DEF HandlePort, Registers, StoreKept
<1>3. CASE HandleAck(r)
  BY <1>3 DEF HandleAck, Adds, StoreKept, Stays
<1>4. CASE HandlePsync(r)
  BY <1>4 DEF HandlePsync, Adds, StoreKept, Stays
<1>5. CASE SendSnapshot(r)
  <2>1. ~synced[r] /\ Lacks(wire[r], "rdb")
    BY <1>5 DEF SendSnapshot, HandshakeInv, DuringPsync, InPsync
  <2>2. wire'[r] = wire[r] \/ wire'[r] = wire[r] \o <<[kind |-> "rdb", n |-> Len(log)]>>
    BY <1>5, Domains DEF SendSnapshot, Put
  <2>3. StoreKept(r) /\ Stays(r) /\ log' = log
    BY <1>5 DEF SendSnapshot, StoreKept, Stays
  <2> QED
    BY <2>1, <2>2, <2>3 DEF Snaps, Adds
<1>6. CASE LoopFlush(r)
  <2>1. StoreKept(r) /\ Stays(r) /\ log' = log
    BY <1>6 DEF LoopFlush, StoreKept, Stays
  <2>2. wire'[r] = wire[r] \/ wire'[r] = wire[r] \o wbuf[r]
    BY <1>6, FlushAdds DEF LoopFlush
  <2>3. wbuf[r] \in Seq(Msg) /\ Replies(wbuf[r])
    BY TypesAt DEF HandshakeInv
  <2> QED
    BY <2>1, <2>2, <2>3 DEF Adds
<1>7. CASE LoopReset(r)
  BY <1>7 DEF LoopReset, Adds, StoreKept, Stays
<1> QED
  BY <1>1, <1>2, <1>3, <1>4, <1>5, <1>6, <1>7 DEF Loop

\* The effects of the goroutines' steps.
LEMMA GoroutineEffects ==
    ASSUME TypeOK, NEW r \in Replicas, HandshakeInv(r),
           GetAckWrite(r) \/ PingWrite(r) \/ Flush(r) \/ FlushEnd(r) \/ Break(r)
    PROVE  Adds(r)
<1> USE DEF masterVars, goVars, flushVars, connVars, handshakeVars, replicaVars
<1>1. CASE GetAckWrite(r)
  BY <1>1 DEF GetAckWrite, Adds, StoreKept, Stays
<1>2. CASE PingWrite(r)
  <2> DEFINE m == [kind |-> "ping", n |-> 0]
  <2>1. StoreKept(r) /\ Stays(r) /\ log' = log
    BY <1>2 DEF PingWrite, removeReplica, StoreKept, Stays
  <2>2. wire'[r] = wire[r] \/ wire'[r] = wire[r] \o <<m>>
    BY <1>2, Domains DEF PingWrite, Put
  <2>3. m \in Msg /\ m.kind = "ping"
    BY Messages DEF Kinds
  <2> HIDE DEF m
  <2>4. <<m>> \in Seq(Msg) /\ Replies(<<m>>)
    BY <2>3, LacksOne DEF Replies
  <2> QED
    BY <2>1, <2>2, <2>4 DEF Adds
<1>3. CASE Flush(r)
  <2>1. StoreKept(r) /\ Stays(r) /\ log' = log
    BY <1>3 DEF Flush, removeReplica, StoreKept, Stays
  <2>2. wire'[r] = wire[r] \/ wire'[r] = wire[r] \o wbuf[r]
    BY <1>3, FlushAdds DEF Flush
  <2>3. wbuf[r] \in Seq(Msg) /\ Replies(wbuf[r])
    BY TypesAt DEF HandshakeInv
  <2> QED
    BY <2>1, <2>2, <2>3 DEF Adds
<1>4. CASE FlushEnd(r)
  BY <1>4 DEF FlushEnd, removeReplica, Adds, StoreKept, Stays
<1>5. CASE Break(r)
  BY <1>5, Domains DEF Break, Adds, StoreKept, Stays
<1> QED
  BY <1>1, <1>2, <1>3, <1>4, <1>5

\* The effects of the handshake's steps.
LEMMA HandshakeEffects ==
    ASSUME TypeOK, NEW r \in Replicas, Handshake(r)
    PROVE  Adds(r) \/ Cuts(r)
<1> USE DEF masterVars, goVars, flushVars, connVars, handshakeVars, replicaVars
<1>1. CASE SendRequest(r)
  BY <1>1, ExitAt DEF SendRequest, Adds, Cuts, StoreKept, Stays
<1>2. CASE QueueRequest(r)
  BY <1>2 DEF QueueRequest, Adds, StoreKept, Stays
<1>3. CASE CheckResponse(r)
  BY <1>3, ExitAt DEF CheckResponse, Adds, Cuts, StoreKept, Stays
<1>4. CASE HandshakeTimeout(r)
  BY <1>4, ExitAt DEF HandshakeTimeout, Cuts, StoreKept, Stays
<1> QED
  BY <1>1, <1>2, <1>3, <1>4 DEF Handshake

\* The effects of the steps of the master link.
LEMMA LinkEffects ==
    ASSUME TypeOK, NEW r \in Replicas, HandshakeInv(r), Link(r)
    PROVE  Skips(r) \/ Executes(r) \/ Loads(r) \/ Cuts(r)
<1> USE DEF masterVars, goVars, flushVars, connVars, handshakeVars, replicaVars
<1>h. OneRdb(wire[r]) /\ AfterSnapshot(r)
  BY DEF HandshakeInv
<1>r. ASSUME Receive(r), LinkKept, reader'[r] # "stop" PROVE Reads(r)
  BY <1>h, <1>r, ReceiveAt DEF LinkKept, Reads, Stays
<1>1. CASE ReadAnswer(r)
  BY <1>1, <1>r, Domains DEF ReadAnswer, Skips, StoreKept, IsWrite, IsRdb
<1>2. CASE ReadWrite(r)
  BY <1>2, <1>r, Domains DEF ReadWrite, Executes, IsWrite
<1>3. CASE ReadGetAck(r)
  BY <1>3, <1>r, Domains DEF ReadGetAck, Skips, StoreKept, IsWrite, IsRdb
<1>4. CASE ReadPing(r)
  BY <1>4, <1>r, Domains DEF ReadPing, Skips, StoreKept, IsWrite, IsRdb
<1>5. CASE LoadSnapshot(r)
  BY <1>5, <1>h, <1>r, Domains DEF LoadSnapshot, Loads, AfterSnapshot, IsRdb
<1>6. CASE LoadRefused(r)
  BY <1>6, <1>h, <1>r, Domains DEF LoadRefused, Skips, StoreKept, AfterSnapshot
<1>7. CASE ReadStrayRdb(r)
  <2>1. ~synced[r]
    BY <1>7, <1>h, ReceiveAt DEF ReadStrayRdb, AfterSnapshot
  <2> QED
    BY <1>7, <1>r, <2>1, Domains DEF ReadStrayRdb, Skips, StoreKept
<1>8. CASE ReadSwallowed(r)
  BY <1>8, <1>h, <1>r, Domains DEF ReadSwallowed, Skips, StoreKept, AfterSnapshot
<1>9. CASE ReadEof(r)
  BY <1>9, Domains DEF ReadEof, Cuts, StoreKept, Stays
<1> QED
  BY <1>1, <1>2, <1>3, <1>4, <1>5, <1>6, <1>7, <1>8, <1>9 DEF Link

\* Every step has one of eight effects on a connection.
LEMMA Effects ==
    ASSUME TypeOK, [Next]_vars, NEW r \in Replicas, HandshakeInv(r)
    PROVE  \/ Adds(r) \/ Cuts(r) \/ Snaps(r) \/ Sends(r) \/ Registers(r)
           \/ Skips(r) \/ Executes(r) \/ Loads(r)
<1>1. CASE Elsewhere(r)
  BY <1>1 DEF Elsewhere, Adds, StoreKept, Stays
<1>2. ASSUME NEW c \in Clients, Write(c) PROVE Sends(r)
  <2>1. Len(log') = Len(log) + 1
    <3>1. log \in Seq(Nat) /\ offset + WriteLen \in Nat
      BY ReplicationAssumption DEF TypeOK
    <3> QED
      BY <1>2, <3>1, WriteAt
  <2> QED
    BY <1>2, <2>1, WriteAt DEF Sends, StoreKept, Stays
<1> QED
  BY <1>1, <1>2, Frame, LoopEffects, GoroutineEffects, HandshakeEffects, LinkEffects

\* Every step keeps the stream of every replica without gaps.
LEMMA StreamStep ==
    ASSUME TypeOK, [Next]_vars, NEW r \in Replicas, HandshakeInv(r), StreamInv(r)
    PROVE  StreamInv(r)'
<1> DEFINE w == wire[r]
           L == Len(log)
<1>t. /\ w \in Seq(Msg) /\ base[r] \in Nat /\ applied[r] \in Seq(Nat) /\ synced[r] \in BOOLEAN
      /\ L \in Nat
  BY TypesAt
<1>h. OneRdb(w) /\ (synced[r] => Lacks(w, "rdb"))
  BY DEF HandshakeInv, AfterSnapshot
<1>s. /\ StreamOK(w, base[r], applied[r], synced[r], L)
      /\ r \in replicas /\ ~down[r] => Covered(w, base[r], applied[r], synced[r], L)
  BY DEF StreamInv
<1>1. CASE Adds(r)
  <2>1. CASE wire'[r] = w
    BY <1>1, <1>s, <2>1 DEF Adds, StoreKept, Stays, StreamInv
  <2>2. ASSUME NEW t \in Seq(Msg), Replies(t), wire'[r] = w \o t PROVE StreamInv(r)'
    <3>1. /\ StreamOK(w \o t, base[r], applied[r], synced[r], L)
          /\ r \in replicas /\ ~down[r] => Covered(w \o t, base[r], applied[r], synced[r], L)
      BY <1>t, <1>s, <2>2, StreamAdds DEF Covered
    <3> QED
      BY <1>1, <2>2, <3>1 DEF Adds, StoreKept, Stays, StreamInv
  <2> QED
    BY <1>1, <2>1, <2>2 DEF Adds
<1>2. CASE Cuts(r)
  <2>1. /\ <<>> \in Seq(Msg) /\ Part(<<>>, w, 0) /\ AfterRdb(<<>>) /\ \A h : AfterHeld(<<>>, h)
    BY EmptySeq DEF Part, AfterRdb, AfterHeld
  <2>2. /\ OfTheLog(<<>>, applied[r], L) /\ WireOrder(<<>>) /\ SnapshotCovers(<<>>, applied[r])
    BY <1>t, <1>s, <2>1, PartOK DEF StreamOK
  <2>3. StreamOK(<<>>, base[r], applied[r], synced[r], L)
    BY <1>s, <2>1, <2>2 DEF StreamOK
  <2> QED
    BY <1>2, <2>3 DEF Cuts, StoreKept, StreamInv
<1>3. CASE Snaps(r)
  <2> DEFINE m == [kind |-> "rdb", n |-> L]
  <2>1. m \in Msg /\ m.kind = "rdb" /\ m.n = L
    BY <1>t, Messages DEF Kinds
  <2>2. wire'[r] = w \o <<m>>
    BY <1>3 DEF Snaps
  <2> HIDE DEF m
  <2>3. /\ StreamOK(w \o <<m>>, base[r], applied[r], FALSE, L)
        /\ Covered(w \o <<m>>, base[r], applied[r], FALSE, L)
    <3>1. StreamOK(w, base[r], applied[r], FALSE, L) /\ Lacks(w, "rdb")
      BY <1>3, <1>s, <1>t DEF Snaps
    <3> QED
      BY <1>t, <2>1, <3>1, StreamSnaps
  <2>4. synced'[r] = FALSE
    BY <1>3, <1>t DEF Snaps, StoreKept
  <2> QED
    BY <1>3, <2>2, <2>3, <2>4 DEF Snaps, StoreKept, StreamInv
<1>4. CASE Sends(r)
  <2>1. Len(log') = L + 1
    BY <1>4 DEF Sends
  <2>2. CASE wire'[r] = w /\ (r \notin replicas' \/ down'[r])
    <3>1. StreamOK(w, base[r], applied[r], synced[r], L + 1)
      BY <1>t, <1>s, StreamLogGrows
    <3> QED
      BY <1>4, <2>1, <2>2, <3>1 DEF Sends, StoreKept, StreamInv
  <2>3. CASE wire'[r] = Append(w, [kind |-> "write", n |-> L + 1]) /\ r \in replicas /\ ~down[r]
    <3> DEFINE m == [kind |-> "write", n |-> L + 1]
    <3>1. m \in Msg /\ m.kind = "write" /\ m.n = L + 1 /\ wire'[r] = Append(w, m)
      BY <1>t, <2>3, Messages DEF Kinds
    <3> HIDE DEF m
    <3>2. /\ StreamOK(Append(w, m), base[r], applied[r], synced[r], L + 1)
          /\ Covered(Append(w, m), base[r], applied[r], synced[r], L + 1)
      BY <1>t, <1>h, <1>s, <2>3, <3>1, StreamSends
    <3> QED
      BY <1>4, <2>1, <3>1, <3>2 DEF Sends, StoreKept, StreamInv
  <2> QED
    BY <1>4, <2>2, <2>3 DEF Sends
<1>5. CASE Registers(r)
  <2>1. Covered(w, base[r], applied[r], FALSE, L)
    BY <1>5 DEF Registers, Covered, There, Settled, InRdb, Lacks, IsRdb
  <2>2. synced'[r] = FALSE /\ synced[r] = FALSE
    BY <1>5, <1>t DEF Registers, StoreKept
  <2> QED
    BY <1>5, <1>s, <2>1, <2>2 DEF Registers, StoreKept, StreamInv
<1>6. CASE Skips(r)
  <2>1. /\ StreamOK(Tail(w), base[r], applied[r], synced[r], L)
        /\ r \in replicas /\ ~down[r] => Covered(Tail(w), base[r], applied[r], synced[r], L)
    BY <1>6, <1>t, <1>h, <1>s, StreamSkips DEF Skips, Reads, Covered
  <2> QED
    BY <1>6, <2>1 DEF Skips, Reads, StoreKept, Stays, StreamInv
<1>7. CASE Executes(r)
  <2>1. /\ StreamOK(Tail(w), base[r], Append(applied[r], Head(w).n), synced[r], L)
        /\ r \in replicas /\ ~down[r] =>
             Covered(Tail(w), base[r], Append(applied[r], Head(w).n), synced[r], L)
    BY <1>7, <1>t, <1>s, StreamExecutes DEF Executes, Reads, Covered
  <2> QED
    BY <1>7, <2>1 DEF Executes, Reads, Stays, StreamInv
<1>8. CASE Loads(r)
  <2>1. StreamOK(w, base[r], applied[r], FALSE, L)
        /\ (r \in replicas /\ ~down[r] => Covered(w, base[r], applied[r], FALSE, L))
    BY <1>8, <1>s, <1>t DEF Loads
  <2>2. /\ applied'[r] = <<>>
        /\ StreamOK(Tail(w), Head(w).n, <<>>, TRUE, L)
        /\ r \in replicas /\ ~down[r] => Covered(Tail(w), Head(w).n, <<>>, TRUE, L)
    BY <1>8, <1>t, <2>1, StreamLoads DEF Loads, Reads, Covered
  <2>3. synced'[r] = TRUE
    <3>1. TypeOK'
      BY TypeStep
    <3>2. synced'[r] \in BOOLEAN
      BY <3>1 DEF TypeOK
    <3> QED
      BY <1>8, <3>2 DEF Loads
  <2> QED
    BY <1>8, <2>2, <2>3 DEF Loads, Reads, Stays, StreamInv
<1> QED
  BY <1>1, <1>2, <1>3, <1>4, <1>5, <1>6, <1>7, <1>8, Effects

\* The invariant of a stream holds at the start.
LEMMA StreamInit == ASSUME Init, NEW r \in Replicas PROVE StreamInv(r)
<1>1. /\ wire[r] = <<>> /\ log = <<>> /\ replicas = {} /\ synced[r] = FALSE /\ applied[r] = <<>>
  BY DEF Init
<1>2. \A b, L : StreamOK(<<>>, b, <<>>, FALSE, L)
  BY DEF StreamOK, OfTheLog, WireOrder, SnapshotCovers, AfterRdb
<1> QED
  BY <1>1, <1>2 DEF StreamInv

\* The inductive invariant.
ReplicationInv == TypeOK /\ \A r \in Replicas : HandshakeInv(r) /\ StreamInv(r)

\* The whole invariant holds at the start.
LEMMA ReplicationInvInit == Init => ReplicationInv
BY TypeInit, HandshakeInit, StreamInit DEF ReplicationInv

\* Every step keeps the whole invariant.
LEMMA ReplicationInvStep == ReplicationInv /\ [Next]_vars => ReplicationInv'
BY TypeStep, HandshakeStep, StreamStep DEF ReplicationInv

\* It implies that no write is lost between two others.
LEMMA StreamHasNoGap == ReplicationInv => NoWriteBetween
<1> SUFFICES ASSUME ReplicationInv, NEW r \in replicas, synced[r], ~down[r], NEW i \in 1 .. Len(log)
             PROVE  Holds(r, i) \/ \E j \in 1 .. Len(wire[r]) : wire[r][j] = [kind |-> "write", n |-> i]
  BY DEF NoWriteBetween
<1>1. TypeOK /\ r \in Replicas /\ StreamInv(r)
  BY DEF ReplicationInv, TypeOK
<1>2. OnWire(wire[r], i) \/ Held(base[r], applied[r], i)
  BY <1>1 DEF StreamInv, Covered, There, Settled
<1>3. ASSUME OnWire(wire[r], i)
      PROVE  \E j \in 1 .. Len(wire[r]) : wire[r][j] = [kind |-> "write", n |-> i]
  <2>1. PICK j \in 1 .. Len(wire[r]) : IsWrite(wire[r][j]) /\ wire[r][j].n = i
    BY <1>3 DEF OnWire
  <2>2. wire[r][j] \in Msg
    BY <1>1, TypesAt, MsgAt
  <2> QED
    BY <2>1, <2>2 DEF Msg, IsWrite
<1> QED
  BY <1>2, <1>3 DEF Held, Holds

\* No write falls between the snapshot and the stream: what a connected
\* replica with a snapshot does not hold is still on the wire to it.
THEOREM NoGap == Spec => []NoWriteBetween
BY ReplicationInvInit, ReplicationInvStep, StreamHasNoGap, PTL DEF Spec

(***************************************************************************)
(* Replication implements the replicated log.                              *)
(***************************************************************************)
HeldBy(r) == IF synced[r] THEN [i \in 1 .. base[r] |-> i] \o applied[r] ELSE <<>>

\* Connections that are lost stay lost.
LEMMA LostStays ==
    ASSUME TypeOK, [Next]_vars, NEW r \in Replicas
    PROVE  (down[r] => down'[r]) /\ (closed[r] => closed'[r])
<1> USE DEF masterVars, goVars, flushVars, connVars, handshakeVars, replicaVars
<1>1. CASE Elsewhere(r)
  BY <1>1 DEF Elsewhere
<1>2. ASSUME NEW c \in Clients, Write(c) PROVE (down[r] => down'[r]) /\ (closed[r] => closed'[r])
  BY <1>2, WriteAt
<1>3. CASE Loop(r)
  BY <1>3, Domains DEF Loop, HandlePing, HandlePort, HandleAck, HandlePsync, SendSnapshot, LoopFlush, LoopReset
<1>4. CASE GetAckWrite(r) \/ PingWrite(r) \/ Flush(r) \/ FlushEnd(r)
  BY <1>4, Domains DEF GetAckWrite, PingWrite, Flush, FlushEnd, removeReplica
<1>5. CASE Handshake(r)
  BY <1>5, ExitAt DEF Handshake, SendRequest, QueueRequest, CheckResponse, HandshakeTimeout, Exit
<1>6. CASE Link(r)
  BY <1>6, Domains DEF Link, ReadAnswer, ReadWrite, ReadGetAck, ReadPing, LoadSnapshot, LoadRefused,
     ReadStrayRdb, ReadSwallowed, ReadEof, LinkKept
<1>7. CASE Break(r)
  BY <1>7, Domains DEF Break
<1> QED
  BY <1>1, <1>2, <1>3, <1>4, <1>5, <1>6, <1>7, Frame

\* Only writes, snapshots and executed writes change what the abstract
\* specification speaks of.
LEMMA WhatChanges ==
    ASSUME [Next]_vars
    PROVE  \/ UNCHANGED <<log, synced, base, applied>>
           \/ \E c \in Clients : Write(c)
           \/ \E r \in Replicas : ReadWrite(r) \/ LoadSnapshot(r)
<1> USE DEF masterVars, goVars, flushVars, connVars, handshakeVars, replicaVars
<1>1. ASSUME NEW c \in Clients, StartWait(c) \/ Waiting(c) PROVE UNCHANGED <<log, synced, base, applied>>
  BY <1>1 DEF StartWait, Waiting, WaitRead, WaitAcked, WaitTimeout, WaitVarsKept
<1>2. CASE XAdd \/ GetAckTick \/ PingTick \/ UNCHANGED vars
  BY <1>2 DEF XAdd, GetAckTick, PingTick, vars
<1>3. ASSUME NEW r \in Replicas, Loop(r) PROVE UNCHANGED <<log, synced, base, applied>>
  BY <1>3 DEF Loop, HandlePing, HandlePort, HandleAck, HandlePsync, SendSnapshot, LoopFlush, LoopReset
<1>4. ASSUME NEW r \in Replicas, Goroutines(r) PROVE UNCHANGED <<log, synced, base, applied>>
  BY <1>4 DEF Goroutines, GetAckWrite, PingCount, PingWrite, Flush, FlushEnd
<1>5. ASSUME NEW r \in Replicas, Handshake(r) PROVE UNCHANGED <<log, synced, base, applied>>
  BY <1>5 DEF Handshake, SendRequest, QueueRequest, CheckResponse, HandshakeTimeout
<1>6. ASSUME NEW r \in Replicas, Link(r)
      PROVE  ReadWrite(r) \/ LoadSnapshot(r) \/ UNCHANGED <<log, synced, base, applied>>
  BY <1>6 DEF Link, ReadAnswer, ReadGetAck, ReadPing, LoadRefused, ReadStrayRdb, ReadSwallowed,
     ReadEof, LinkKept
<1>7. ASSUME NEW r \in Replicas, Break(r) PROVE UNCHANGED <<log, synced, base, applied>>
  BY <1>7 DEF Break
<1> QED
  BY <1>1, <1>2, <1>3, <1>4, <1>5, <1>6, <1>7 DEF Next

\* A snapshot is a sequence of numbers.
LEMMA Prefix ==
    ASSUME NEW n \in Nat
    PROVE  [i \in 1 .. n |-> i] \in Seq(Nat) /\ Len([i \in 1 .. n |-> i]) = n
<1>1. [i \in 1 .. n |-> i] \in [1 .. n -> Nat]
  OBVIOUS
<1> QED
  BY <1>1, SeqDef

\* Appending to the end of a concatenation.
LEMMA AppendConcat ==
    ASSUME NEW s \in Seq(Nat), NEW t \in Seq(Nat), NEW x \in Nat
    PROVE  s \o Append(t, x) = Append(s \o t, x)
OBVIOUS

\* The initial states are initial states of the replicated log.
LEMMA RefinementInit == Init => Abstract!Init
<1> SUFFICES ASSUME Init PROVE Abstract!Init
  OBVIOUS
<1>1. Len(log) = 0
  BY DEF Init
<1> QED
  BY <1>1 DEF Init, Abstract!Init

\* Every step is a step of the replicated log: a write, a replica that loads
\* its snapshot, one that executes the next write, or nothing.
LEMMA RefinementStep ==
    ASSUME ReplicationInv, [Next]_vars
    PROVE  [Abstract!Next]_(Abstract!vars)
<1>t. TypeOK /\ TypeOK'
  BY TypeStep DEF ReplicationInv
<1>d. DOMAIN synced = Replicas /\ DOMAIN base = Replicas /\ DOMAIN applied = Replicas
  BY <1>t, Domains
<1>l. Abstract!Lose
  <2>1. \A r \in Replicas : /\ (down'[r] \/ closed'[r]) \in BOOLEAN
                            /\ down[r] \/ closed[r] => down'[r] \/ closed'[r]
    BY <1>t, LostStays
  <2> QED
    BY <2>1 DEF Abstract!Lose
<1>1. CASE UNCHANGED <<log, synced, base, applied>>
  BY <1>1, <1>l DEF Abstract!Next
<1>2. ASSUME NEW c \in Clients, Write(c) PROVE Abstract!Next
  <2>1. UNCHANGED <<synced, base, applied>> /\ log' = Append(log, offset + WriteLen)
    BY <1>2 DEF Write, replicaVars
  <2>2. Len(log') = Len(log) + 1
    <3>1. log \in Seq(Nat) /\ offset + WriteLen \in Nat
      BY <1>t, ReplicationAssumption DEF TypeOK
    <3> QED
      BY <2>1, <3>1
  <2> QED
    BY <1>l, <2>1, <2>2 DEF Abstract!Next, Abstract!Write
<1>3. ASSUME NEW r \in Replicas, ReadWrite(r) PROVE [Abstract!Next]_(Abstract!vars)
  <2> DEFINE n == Head(wire[r]).n
  <2>1. /\ UNCHANGED <<log, synced, base, down, closed>>
        /\ applied' = [applied EXCEPT ![r] = Append(@, n)]
    BY <1>3 DEF ReadWrite, LinkKept, masterVars
  <2>2. CASE ~synced[r]
    <3>1. \A q \in Replicas : HeldBy(q)' = HeldBy(q)
      BY <1>d, <2>1, <2>2 DEF HeldBy
    <3>2. [q \in Replicas |-> HeldBy(q)'] = [q \in Replicas |-> HeldBy(q)]
      BY <3>1
    <3> QED
      BY <1>l, <2>1, <3>2 DEF Abstract!Next, HeldBy
  <2>3. CASE synced[r]
    <3> DEFINE p == [i \in 1 .. base[r] |-> i]
    <3>0. /\ base[r] \in Nat /\ applied[r] \in Seq(Nat) /\ Len(log) \in Nat /\ Len(applied[r]) \in Nat
          /\ wire[r] \in Seq(Msg) /\ wire[r] # <<>> /\ IsWrite(Head(wire[r]))
          /\ synced[r] \in BOOLEAN
      BY <1>3, <1>t, TypesAt DEF ReadWrite, Receive, IsWrite
    <3>1. n = base[r] + Len(applied[r]) + 1 /\ n \in 1 .. Len(log)
      <4>1. StreamOK(wire[r], base[r], applied[r], synced[r], Len(log))
        BY DEF ReplicationInv, StreamInv
      <4>2. n = base[r] + Len(applied[r]) + 1
        BY <2>3, <3>0, <4>1, StreamExecutes
      <4>3. n \in 1 .. Len(log)
        BY <3>0, <4>1, TailOK
      <4> QED
        BY <4>2, <4>3
    <3>2. p \in Seq(Nat) /\ Len(p) = base[r]
      BY <3>0, Prefix
    <3>3. /\ HeldBy(r) = p \o applied[r] /\ HeldBy(r)' = p \o applied'[r]
          /\ applied'[r] = Append(applied[r], n)
      BY <1>d, <2>1, <2>3 DEF HeldBy
    <3> HIDE DEF p, n
    <3>7. Len(HeldBy(r)) = base[r] + Len(applied[r]) /\ HeldBy(r)' = Append(HeldBy(r), n)
      <4>1. Len(p \o applied[r]) = Len(p) + Len(applied[r])
        BY <3>0, <3>2, ConcatProperties
      <4>2. n \in Nat
        BY <3>0, <3>1
      <4>3. p \o Append(applied[r], n) = Append(p \o applied[r], n)
        BY <3>0, <3>2, <4>2, AppendConcat
      <4> QED
        BY <3>2, <3>3, <4>1, <4>3
    <3>8. HeldBy(r)' = Append(HeldBy(r), Len(HeldBy(r)) + 1) /\ Len(HeldBy(r)) < Len(log)
      BY <3>0, <3>1, <3>7
    <3>4. \A q \in Replicas : q # r => HeldBy(q)' = HeldBy(q)
      BY <1>d, <2>1 DEF HeldBy
    <3>5. [q \in Replicas |-> HeldBy(q)'] =
            [[q \in Replicas |-> HeldBy(q)] EXCEPT ![r] = Append(@, Len(@) + 1)]
      BY <3>4, <3>8
    <3>6. Abstract!Apply(r)
      BY <2>1, <2>3, <3>5, <3>8 DEF Abstract!Apply, HeldBy
    <3> QED
      BY <3>6 DEF Abstract!Next
  <2> QED
    BY <2>2, <2>3
<1>4. ASSUME NEW r \in Replicas, LoadSnapshot(r) PROVE Abstract!Next
  <2> DEFINE n == Head(wire[r]).n
  <2>1. /\ UNCHANGED <<log, down, closed>>
        /\ synced' = [synced EXCEPT ![r] = TRUE] /\ base' = [base EXCEPT ![r] = n]
        /\ applied' = [applied EXCEPT ![r] = IF n = 0 THEN @ ELSE <<>>]
    BY <1>4 DEF LoadSnapshot, LinkKept, masterVars
  <2>2. /\ base[r] \in Nat /\ applied[r] \in Seq(Nat) /\ Len(log) \in Nat
        /\ wire[r] \in Seq(Msg) /\ wire[r] # <<>> /\ IsRdb(Head(wire[r])) /\ synced[r] = FALSE
    <3>1. ~synced[r]
      BY <1>4 DEF ReplicationInv, HandshakeInv, AfterSnapshot, LoadSnapshot
    <3> QED
      BY <1>4, <1>t, <3>1, TypesAt DEF LoadSnapshot, Receive, IsRdb
  <2>3. applied'[r] = <<>> /\ n \in 0 .. Len(log)
    <3>1. StreamOK(wire[r], base[r], applied[r], FALSE, Len(log))
      BY <2>2 DEF ReplicationInv, StreamInv
    <3>2. applied'[r] = IF n = 0 THEN applied[r] ELSE <<>>
      BY <1>d, <2>1
    <3> QED
      BY <2>2, <3>1, <3>2, StreamLoads
  <2> HIDE DEF n
  <2>4. HeldBy(r)' = [i \in 1 .. n |-> i]
    <3>1. [i \in 1 .. n |-> i] \in Seq(Nat)
      BY <2>2, <2>3, Prefix
    <3>2. HeldBy(r)' = [i \in 1 .. n |-> i] \o <<>>
      BY <1>d, <2>1, <2>3 DEF HeldBy
    <3> QED
      BY <3>1, <3>2, ConcatEmptySeq
  <2>5. \A q \in Replicas : q # r => HeldBy(q)' = HeldBy(q)
    BY <1>d, <2>1 DEF HeldBy
  <2>6. [q \in Replicas |-> HeldBy(q)'] =
          [[q \in Replicas |-> HeldBy(q)] EXCEPT ![r] = [i \in 1 .. n |-> i]]
    BY <2>4, <2>5
  <2>7. Abstract!Sync(r)
    BY <2>1, <2>2, <2>3, <2>6 DEF Abstract!Sync, HeldBy
  <2> QED
    BY <2>7 DEF Abstract!Next
<1> QED
  BY <1>1, <1>2, <1>3, <1>4, WhatChanges

\* Replication implements the safety part of the replicated log: a replica is
\* without writes until it loads a snapshot, which is some prefix of the
\* master's; from then on each step of anyone leaves what it holds alone or
\* makes it execute the next write, once, in order and without a gap.
THEOREM ImplementsLog == Spec => Abstract!Spec
BY ReplicationInvInit, ReplicationInvStep, RefinementInit, RefinementStep, PTL
DEF Spec, Abstract!Spec

=============================================================================
