---------------------------- MODULE ServerProofs ----------------------------
(***************************************************************************)
(* Proofs about module Server, for every set of keys, clients and          *)
(* replicas, every menu of commands and every bound.                       *)
(***************************************************************************)
EXTENDS Server, TLAPS

(***************************************************************************)
(* The store.                                                              *)
(***************************************************************************)
\* kv.Get leaves a store behind.
LEMMA GetType ==
    ASSUME NEW s \in Store, NEW k \in Keys, NEW t \in Nat
    PROVE  Get(s, k, t) \in Store
BY KeyValAssumption DEF Get, Store, Value, Data, Absent

\* kv.Set leaves a store behind.
LEMMA SetType ==
    ASSUME NEW s \in Store, NEW k \in Keys, NEW v \in Data
    PROVE  Set(s, k, v) \in Store
BY DEF Set, Store, Value

\* kv.ExpireAt leaves a store behind.
LEMMA ExpireAtType ==
    ASSUME NEW s \in Store, NEW k \in Keys, NEW t \in Nat
    PROVE  ExpireAt(s, k, t) \in Store
BY DEF ExpireAt, Store, Value

\* SET leaves a store behind, whatever its options.
LEMMA SetExecuteType ==
    ASSUME NEW s \in Store, NEW c \in Command, NEW t \in Nat
    PROVE  SetExecute(s, c, t) \in Store
<1> DEFINE s1 == IF c.get \/ c.nx \/ c.xx THEN Get(s, c.key, t) ELSE s
           s2 == Set(s1, c.key, c.val)
           s3 == IF c.keepttl THEN s2 ELSE DeleteTTL(s2, c.key)
<1>1. c.key \in Keys /\ c.val \in Data /\ c.ttl \in Nat /\ c.at \in Nat
  BY DEF Command
<1>2. s1 \in Store
  BY <1>1, GetType
<1>3. s2 \in Store
  BY <1>1, <1>2, SetType
<1>4. s3 \in Store
  BY <1>1, <1>3, ExpireAtType DEF DeleteTTL
<1>5. SetExpiry(s3, c, t) \in Store
  <2>1. t + c.ttl \in Nat
    BY <1>1
  <2> QED
    BY <1>1, <1>4, <2>1, ExpireAtType DEF SetExpiry
<1> QED
  BY <1>2, <1>5 DEF SetExecute, SetStores

\* INCR leaves a store behind: the number it stores is not above MaxInt.
LEMMA IncrExecuteType ==
    ASSUME NEW s \in Store, NEW c \in Command, NEW t \in Nat
    PROVE  IncrExecute(s, c, t) \in Store
<1> DEFINE s1 == Get(s, c.key, t)
           old == IF Found(s, c.key, t) THEN s[c.key].data ELSE 0
<1>1. c.key \in Keys
  BY DEF Command
<1>2. s1 \in Store
  BY <1>1, GetType
<1>3. old \in Data
  BY <1>1, KeyValAssumption DEF Store, Value, Data
<1>4. ASSUME old \notin Texts, old # MaxInt
      PROVE  Set(s1, c.key, old + 1) \in Store
  <2>1. old + 1 \in Data
    BY <1>3, <1>4, KeyValAssumption DEF Data
  <2> QED
    BY <1>1, <1>2, <2>1, SetType
<1> QED
  BY <1>2, <1>4 DEF IncrExecute

\* Every command leaves a store behind.
LEMMA ExecuteType ==
    ASSUME NEW s \in Store, NEW c \in Command, NEW t \in Nat
    PROVE  Execute(s, c, t) \in Store
<1>1. c.key \in Keys
  BY DEF Command
<1>2. GetStream(s, c.key) \in Store
  BY <1>1, KeyValAssumption DEF GetStream, Store, Value, Data
<1> QED
  BY <1>1, <1>2, GetType, SetExecuteType, IncrExecuteType DEF Execute


(***************************************************************************)
(* The type invariant.                                                     *)
(***************************************************************************)
\* What the loop takes off messageChan is a message.
LEMMA TakeType ==
    ASSUME TypeOK, NEW c \in Clients, Take(c)
    PROVE  /\ Head(inbox[c]) \in Message
           /\ inbox' \in [Clients -> Seq(Message)]
<1>1. inbox[c] \in Seq(Message) /\ inbox[c] # <<>>
  BY DEF TypeOK, Take
<1>2. Head(inbox[c]) \in Message /\ Tail(inbox[c]) \in Seq(Message)
  BY <1>1
<1> QED
  BY <1>2 DEF TypeOK, Take

\* What one flush of a client's Writer can do: the replies it brings, and the
\* client it may close.
Flushed(c, id, kind) ==
    LET a == [id |-> id, kind |-> kind]
    IN  /\ \/ UNCHANGED out
           \/ out' = [out EXCEPT ![c] = Append(@, a)]
           \/ out' = [out EXCEPT ![c] = Append(Append(@, a), a)]
        /\ clients' \in {clients, clients \ {c}}

\* Deliver is such a flush.
LEMMA DeliverFlushes ==
    ASSUME TypeOK, NEW c \in Clients, NEW id, NEW kind, NEW mixed \in BOOLEAN,
           Deliver(c, id, kind, mixed)
    PROVE  Flushed(c, id, kind)
<1> DEFINE a == [id |-> id, kind |-> kind]
           once == Append(out[c], a)
<1>1. CASE peer[c] /\ c \in clients /\ ~mixed
  BY <1>1 DEF Deliver, Flushed
<1>2. CASE peer[c] /\ c \in clients /\ mixed
  <2>1. PICK seen \in {out[c], once, Append(once, a)} : out' = [out EXCEPT ![c] = seen]
    BY <1>2 DEF Deliver
  <2>2. CASE seen = out[c]
    BY <1>2, <2>1, <2>2 DEF Deliver, Flushed, TypeOK
  <2>3. CASE seen = once
    BY <1>2, <2>1, <2>3 DEF Deliver, Flushed
  <2>4. CASE seen = Append(once, a)
    BY <1>2, <2>1, <2>4 DEF Deliver, Flushed
  <2> QED
    BY <2>1, <2>2, <2>3, <2>4
<1>3. CASE ~(peer[c] /\ c \in clients)
  BY <1>3 DEF Deliver, Flushed
<1> QED
  BY <1>1, <1>2, <1>3

\* A flush keeps the replies and the set of clients typed.
LEMMA FlushType ==
    ASSUME TypeOK, NEW c \in Clients, NEW id \in Nat, NEW kind \in ReplyKinds,
           Flushed(c, id, kind)
    PROVE  /\ out' \in [Clients -> Seq(Answer)]
           /\ clients' \subseteq Clients
<1> DEFINE a == [id |-> id, kind |-> kind]
<1>1. a \in Answer
  BY DEF Answer
<1>2. out[c] \in Seq(Answer) /\ out \in [Clients -> Seq(Answer)]
  BY DEF TypeOK
<1>3. Append(out[c], a) \in Seq(Answer)
  BY <1>1, <1>2
<1>4. Append(Append(out[c], a), a) \in Seq(Answer)
  BY <1>1, <1>3
<1> HIDE DEF a
<1>5. out' \in [Clients -> Seq(Answer)]
  BY <1>2, <1>3, <1>4 DEF Flushed, a
<1> QED
  BY <1>5 DEF TypeOK, Flushed

\* The requests in a race are numbers.
LEMMA RaceType ==
    ASSUME TypeOK, NEW c \in Clients, NEW id \in Nat, Race(c, id, Sending(c))
    PROVE  raced' \in [Clients -> SUBSET Nat]
<1>1. {w.id : w \in Sending(c)} \in SUBSET Nat
  BY DEF TypeOK, Sending, WaitState
<1> QED
  BY <1>1 DEF TypeOK, Race

\* The loop's replies are flushes, and keep the types.
LEMMA ReplyType ==
    ASSUME TypeOK, NEW c \in Clients, NEW id \in Nat, NEW kind \in ReplyKinds,
           Reply(c, id, kind) \/ ReplyFails(c, id)
    PROVE  /\ out' \in [Clients -> Seq(Answer)]
           /\ clients' \subseteq Clients
           /\ raced' \in [Clients -> SUBSET Nat]
<1>1. Race(c, id, Sending(c))
  BY DEF Reply, ReplyFails
<1>2. Flushed(c, id, kind)
  <2>1. CASE Reply(c, id, kind)
    <3>1. (Sending(c) # {}) \in BOOLEAN
      OBVIOUS
    <3> QED
      BY <2>1, <3>1, DeliverFlushes DEF Reply
  <2>2. CASE ReplyFails(c, id)
    BY <2>2 DEF ReplyFails, Flushed
  <2> QED
    BY <2>1, <2>2
<1> QED
  BY <1>1, <1>2, FlushType, RaceType

\* Running a command keeps the stores and the histories typed.
LEMMA RunType ==
    ASSUME TypeOK, NEW c \in Clients, NEW m \in Message, NEW tx \in Nat,
           NEW p \in BOOLEAN, Run(c, m, tx, p)
    PROVE  /\ store' \in Store
           /\ mirror' \in Store
           /\ log' \in Seq(LogEntry)
           /\ lastWrite' \in [Clients -> Nat]
           /\ ran' \in Seq(RunEntry)
<1>1. m.id \in Nat /\ m.cmd \in Command
  BY DEF Message
<1>2. Execute(store, m.cmd, now) \in Store /\ Execute(mirror, m.cmd, now) \in Store
  BY <1>1, ExecuteType DEF TypeOK
<1>3. ran' \in Seq(RunEntry)
  <2>1. [cl |-> c, id |-> m.id, tx |-> tx] \in RunEntry
    BY <1>1 DEF RunEntry
  <2> QED
    BY <2>1 DEF TypeOK, Run
<1>4. CASE p
  <2>1. PropagateCommand(c, m) /\ store' = Execute(store, m.cmd, now)
    BY <1>4, Zenon DEF Run
  <2>2. [cl |-> c, id |-> m.id] \in LogEntry
    BY <1>1 DEF LogEntry
  <2>3. log' \in Seq(LogEntry)
    BY <2>1, <2>2 DEF TypeOK, PropagateCommand
  <2>4. lastWrite' \in [Clients -> Nat]
    BY <2>1 DEF TypeOK, PropagateCommand
  <2> QED
    BY <1>2, <1>3, <2>1, <2>3, <2>4 DEF PropagateCommand
<1>5. CASE ~p
  BY <1>2, <1>3, <1>5 DEF TypeOK, Run
<1> QED
  BY <1>4, <1>5

\* A direct command is run and answered, or run and the write of its answer
\* fails.
LEMMA DirectRuns ==
    ASSUME TypeOK, NEW c \in Clients, ExecuteDirect(c)
    PROVE  \E p \in BOOLEAN, kind \in ReplyKinds :
             /\ kind \in {"error", "data"}
             /\ p => Head(inbox[c]).cmd.name \in WriteableCommands
             /\ Run(c, Head(inbox[c]), 0, p)
             /\ \/ Reply(c, Head(inbox[c]).id, kind)
                \/ ReplyFails(c, Head(inbox[c]).id)
<1> DEFINE m == Head(inbox[c])
           p == m.cmd.name \in WriteableCommands /\ ~ReturnsError(m.cmd)
           kind == IF ReturnsError(m.cmd) THEN "error" ELSE "data"
<1>1. p \in BOOLEAN /\ kind \in ReplyKinds /\ kind \in {"error", "data"}
  BY DEF ReplyKinds
<1>2. \/ Run(c, m, 0, p) /\ Reply(c, m.id, kind)
      \/ Run(c, m, 0, FALSE) /\ ReplyFails(c, m.id)
  BY DEF ExecuteDirect
<1>3. p => m.cmd.name \in WriteableCommands
  OBVIOUS
<1> HIDE DEF m, p, kind
<1> QED
  BY <1>1, <1>2, <1>3 DEF m

\* StartWait starts one goroutine, for the message it takes.
LEMMA StartWaitNew ==
    ASSUME TypeOK, NEW c \in Clients, StartWait(c)
    PROVE  \E w \in WaitState :
             /\ waits' = waits \cup {w}
             /\ w.cl = c /\ w.id = Head(inbox[c]).id
             /\ w.read => w.off = lastWrite[c]
             /\ ~w.sending \/ w.id \in raced'[c]
<1> DEFINE m == Head(inbox[c])
           new == [cl |-> c, id |-> m.id, cmd |-> m.cmd, read |-> FALSE, off |-> 0,
                   sending |-> FALSE]
           fast == [new EXCEPT !.read = TRUE, !.off = lastWrite[c], !.sending = TRUE]
<1>1. m \in Message
  BY TakeType DEF StartWait
<1>2. m.id \in Nat /\ m.cmd \in Command /\ lastWrite[c] \in Nat
  BY <1>1 DEF Message, TypeOK
<1>3. /\ new \in WaitState
      /\ new.cl = c /\ new.id = m.id /\ ~new.read /\ ~new.sending
  BY <1>2 DEF WaitState
<1>4. /\ fast \in WaitState
      /\ fast.cl = c /\ fast.id = m.id /\ fast.off = lastWrite[c]
  BY <1>2, <1>3 DEF WaitState
<1>5. \/ waits' = waits \cup {new}
      \/ waits' = waits \cup {fast} /\ m.id \in raced'[c]
  <2>1. CASE waits' = waits \cup {new}
    BY <2>1
  <2>2. CASE /\ waits' = waits \cup {fast}
             /\ raced' = [raced EXCEPT ![c] = @ \cup {m.id} \cup {w.id : w \in Sending(c)}]
    BY <1>2, <2>2 DEF TypeOK
  <2> QED
    BY <2>1, <2>2 DEF StartWait
<1> HIDE DEF new, fast, m
<1> QED
  BY <1>3, <1>4, <1>5 DEF m

\* The loop's Send after StartWait may close the client and races with the
\* goroutines in its Writer.
LEMMA StartWaitRace ==
    ASSUME TypeOK, NEW c \in Clients, StartWait(c)
    PROVE  /\ clients' \in {clients, clients \ {c}}
           /\ clients' \subseteq Clients
           /\ raced' \in [Clients -> SUBSET Nat]
           /\ \A d \in Clients : raced[d] \subseteq raced'[d]
<1> DEFINE ws == {w.id : w \in Sending(c)}
<1>1. ws \in SUBSET Nat
  BY DEF TypeOK, Sending, WaitState
<1>2. Head(inbox[c]).id \in Nat
  BY TakeType DEF StartWait, Message
<1>3. clients' \in {clients, clients \ {c}}
  BY DEF StartWait
<1>4. \/ raced' = [raced EXCEPT ![c] = @ \cup ws]
      \/ raced' = [raced EXCEPT ![c] = @ \cup {Head(inbox[c]).id} \cup ws]
  BY DEF StartWait
<1> HIDE DEF ws
<1>5. /\ raced' \in [Clients -> SUBSET Nat]
      /\ \A d \in Clients : raced[d] \subseteq raced'[d]
  BY <1>1, <1>2, <1>4 DEF TypeOK
<1> QED
  BY <1>3, <1>5 DEF TypeOK

\* A goroutine that moves on still works for the same request.
LEMMA WaitMoves ==
    ASSUME TypeOK, NEW w \in waits, WaitRead(w) \/ WaitWrite(w)
    PROVE  \E v \in WaitState :
             /\ waits' = (waits \ {w}) \cup {v}
             /\ v.cl = w.cl /\ v.id = w.id
             /\ v.off = lastWrite[w.cl] \/ (w.read /\ v.off = w.off)
<1>1. w \in WaitState /\ lastWrite[w.cl] \in Nat
  BY DEF TypeOK, WaitState
<1>2. CASE WaitRead(w)
  <2> DEFINE v == [w EXCEPT !.read = TRUE, !.off = lastWrite[w.cl]]
  <2>1. v \in WaitState /\ v.cl = w.cl /\ v.id = w.id /\ v.off = lastWrite[w.cl]
    BY <1>1 DEF WaitState
  <2>2. waits' = (waits \ {w}) \cup {v}
    BY <1>2 DEF WaitRead
  <2> HIDE DEF v
  <2> QED
    BY <1>2, <2>1, <2>2
<1>3. CASE WaitWrite(w)
  <2> DEFINE v == [w EXCEPT !.sending = TRUE]
  <2>1. v \in WaitState /\ v.cl = w.cl /\ v.id = w.id /\ v.off = w.off
    BY <1>1 DEF WaitState
  <2>2. waits' = (waits \ {w}) \cup {v} /\ w.read
    BY <1>3 DEF WaitWrite
  <2> HIDE DEF v
  <2> QED
    BY <1>3, <2>1, <2>2
<1> QED
  BY <1>2, <1>3

\* Every step of the loop, of a client and of a goroutine keeps the types.
LEMMA TypeStep == TypeOK /\ [Next]_vars => TypeOK'
<1> SUFFICES ASSUME TypeOK, [Next]_vars PROVE TypeOK'
  OBVIOUS
<1>1. ASSUME NEW c \in Clients, Request(c) PROVE TypeOK'
  <2>1. PICK cmd \in Commands[c] :
          inbox' = [inbox EXCEPT ![c] = Append(@, [id |-> nreq[c] + 1, cmd |-> cmd])]
    BY <1>1 DEF Request
  <2>2. [id |-> nreq[c] + 1, cmd |-> cmd] \in Message
    <3>1. Commands[c] \subseteq Command
      BY ServerAssumption
    <3>2. nreq[c] \in Nat
      BY DEF TypeOK
    <3> QED
      BY <3>1, <3>2 DEF Message
  <2>3. inbox' \in [Clients -> Seq(Message)]
    BY <2>1, <2>2 DEF TypeOK
  <2>4. nreq' \in [Clients -> Nat]
    BY <1>1, SMTT(30) DEF TypeOK, Request
  <2> QED
    BY <1>1, <2>3, <2>4 DEF TypeOK, Request, dataVars, sessionVars, execVars
<1>2. ASSUME NEW c \in Clients, Disconnect(c) PROVE TypeOK'
  BY <1>2 DEF TypeOK, Disconnect, dataVars, sessionVars, execVars
<1>3. ASSUME NEW c \in Clients, StopReading(c) PROVE TypeOK'
  <2>1. PICK n \in 0 .. Len(inbox[c]) - 1 :
          inbox' = [inbox EXCEPT ![c] = SubSeq(@, 1, n)]
    BY <1>3 DEF StopReading
  <2>2. SubSeq(inbox[c], 1, n) \in Seq(Message)
    BY <2>1 DEF TypeOK
  <2>3. inbox' \in [Clients -> Seq(Message)]
    BY <2>1, <2>2 DEF TypeOK
  <2> QED
    BY <1>3, <2>3 DEF TypeOK, StopReading, dataVars, sessionVars, execVars
<1>4. ASSUME Tick PROVE TypeOK'
  <2>1. now' \in Nat
    BY <1>4 DEF TypeOK, Tick
  <2> QED
    BY <1>4, <2>1 DEF TypeOK, Tick, dataVars, sessionVars, execVars
<1>5. ASSUME NEW r \in Replicas, HandleAck(r) PROVE TypeOK'
  <2>1. acked' \in [Replicas -> Nat]
    BY <1>5 DEF TypeOK, HandleAck
  <2> QED
    BY <1>5, <2>1 DEF TypeOK, HandleAck, dataVars, sessionVars, execVars
<1>6. ASSUME NEW c \in Clients, Unknown(c) PROVE TypeOK'
  <2>1. Take(c) /\ Reply(c, Head(inbox[c]).id, "error")
    BY <1>6 DEF Unknown
  <2>2. Head(inbox[c]).id \in Nat /\ inbox' \in [Clients -> Seq(Message)]
    BY <2>1, TakeType DEF Message
  <2>3. /\ out' \in [Clients -> Seq(Answer)]
        /\ clients' \subseteq Clients
        /\ raced' \in [Clients -> SUBSET Nat]
    BY <2>1, <2>2, ReplyType DEF ReplyKinds
  <2> QED
    BY <1>6, <2>2, <2>3 DEF TypeOK, Unknown, dataVars, sessionVars, execVars
<1>7. ASSUME NEW c \in Clients, Enqueue(c) PROVE TypeOK'
  <2>1. Take(c) /\ Reply(c, Head(inbox[c]).id, "queued")
    BY <1>7 DEF Enqueue
  <2>2. Head(inbox[c]) \in Message /\ inbox' \in [Clients -> Seq(Message)]
    BY <2>1, TakeType
  <2>3. /\ out' \in [Clients -> Seq(Answer)]
        /\ clients' \subseteq Clients
        /\ raced' \in [Clients -> SUBSET Nat]
    BY <2>1, <2>2, ReplyType DEF ReplyKinds, Message
  <2>4. txQueue' \in [Clients -> Seq(Message)]
    BY <1>7, <2>2 DEF TypeOK, Enqueue
  <2> QED
    BY <1>7, <2>2, <2>3, <2>4 DEF TypeOK, Enqueue, dataVars, execVars
<1>8. ASSUME NEW c \in Clients, RefuseTx(c) PROVE TypeOK'
  <2>1. Take(c) /\ Reply(c, Head(inbox[c]).id, "error")
    BY <1>8 DEF RefuseTx
  <2>2. Head(inbox[c]).id \in Nat /\ inbox' \in [Clients -> Seq(Message)]
    BY <2>1, TakeType DEF Message
  <2>3. /\ out' \in [Clients -> Seq(Answer)]
        /\ clients' \subseteq Clients
        /\ raced' \in [Clients -> SUBSET Nat]
    BY <2>1, <2>2, ReplyType DEF ReplyKinds
  <2> QED
    BY <1>8, <2>2, <2>3 DEF TypeOK, RefuseTx, dataVars, sessionVars, execVars
<1>9. ASSUME NEW c \in Clients, Multi(c) PROVE TypeOK'
  <2>1. Take(c) /\ Reply(c, Head(inbox[c]).id, "ok")
    BY <1>9 DEF Multi
  <2>2. Head(inbox[c]).id \in Nat /\ inbox' \in [Clients -> Seq(Message)]
    BY <2>1, TakeType DEF Message
  <2>3. /\ out' \in [Clients -> Seq(Answer)]
        /\ clients' \subseteq Clients
        /\ raced' \in [Clients -> SUBSET Nat]
    BY <2>1, <2>2, ReplyType DEF ReplyKinds
  <2>4. inTx' \in [Clients -> BOOLEAN] /\ txQueue' \in [Clients -> Seq(Message)]
    BY <1>9 DEF TypeOK, Multi
  <2> QED
    BY <1>9, <2>2, <2>3, <2>4 DEF TypeOK, Multi, dataVars, execVars
<1>10. ASSUME NEW c \in Clients, Discard(c) PROVE TypeOK'
  <2>1. Take(c) /\ Reply(c, Head(inbox[c]).id, "ok")
    BY <1>10 DEF Discard
  <2>2. Head(inbox[c]).id \in Nat /\ inbox' \in [Clients -> Seq(Message)]
    BY <2>1, TakeType DEF Message
  <2>3. /\ out' \in [Clients -> Seq(Answer)]
        /\ clients' \subseteq Clients
        /\ raced' \in [Clients -> SUBSET Nat]
    BY <2>1, <2>2, ReplyType DEF ReplyKinds
  <2>4. inTx' \in [Clients -> BOOLEAN] /\ txQueue' \in [Clients -> Seq(Message)]
    BY <1>10 DEF TypeOK, Discard, ClearTransaction
  <2> QED
    BY <1>10, <2>2, <2>3, <2>4 DEF TypeOK, Discard, dataVars, execVars
<1>11. ASSUME NEW c \in Clients, ExecBegin(c) PROVE TypeOK'
  <2>1. Head(inbox[c]).id \in Nat /\ inbox' \in [Clients -> Seq(Message)]
    BY <1>11, TakeType DEF ExecBegin, Message
  <2>2. execCl' \in Clients \cup {NoClient} /\ execId' \in Nat /\ execPos' \in Nat \ {0}
    BY <1>11, <2>1 DEF ExecBegin
  <2> QED
    BY <1>11, <2>1, <2>2 DEF TypeOK, ExecBegin, dataVars
<1>12. ASSUME NEW c \in Clients, ExecCommand(c) PROVE TypeOK'
  <2> DEFINE m == txQueue[c][execPos]
  <2>1. m \in Message /\ execId \in Nat /\ execPos + 1 \in Nat \ {0}
    BY <1>12 DEF TypeOK, ExecCommand
  <2> DEFINE p == m.cmd.name \in WriteableCommands
  <2>2. p \in BOOLEAN /\ Run(c, m, execId, p)
    BY <1>12 DEF ExecCommand
  <2>3. /\ store' \in Store
        /\ mirror' \in Store
        /\ log' \in Seq(LogEntry)
        /\ lastWrite' \in [Clients -> Nat]
        /\ ran' \in Seq(RunEntry)
    <3> HIDE DEF m, p
    <3> QED
      BY <2>1, <2>2, RunType
  <2> QED
    BY <1>12, <2>1, <2>3 DEF TypeOK, ExecCommand
<1>13. ASSUME NEW c \in Clients, ExecEnd(c) PROVE TypeOK'
  <2>1. /\ out' \in [Clients -> Seq(Answer)]
        /\ clients' \subseteq Clients
        /\ raced' \in [Clients -> SUBSET Nat]
    BY <1>13, ReplyType DEF ExecEnd, ReplyKinds, TypeOK
  <2>2. inTx' \in [Clients -> BOOLEAN] /\ txQueue' \in [Clients -> Seq(Message)]
    <3>1. CASE ClearTransaction(c)
      BY <3>1 DEF TypeOK, ClearTransaction
    <3>2. CASE UNCHANGED <<inTx, txQueue>>
      BY <3>2 DEF TypeOK
    <3> QED
      BY <1>13, <3>1, <3>2 DEF ExecEnd
  <2>3. execCl' \in Clients \cup {NoClient} /\ execId' \in Nat /\ execPos' \in Nat \ {0}
    BY <1>13 DEF ExecEnd
  <2> QED
    BY <1>13, <2>1, <2>2, <2>3 DEF TypeOK, ExecEnd, dataVars
<1>14. ASSUME NEW c \in Clients, ExecuteDirect(c) PROVE TypeOK'
  <2> DEFINE m == Head(inbox[c])
  <2>1. Take(c) /\ UNCHANGED <<sessionVars, now, acked, peer, nreq, waits>>
    BY <1>14 DEF ExecuteDirect
  <2>2. m \in Message /\ inbox' \in [Clients -> Seq(Message)]
    BY <2>1, TakeType
  <2>3. PICK p \in BOOLEAN, kind \in ReplyKinds :
          Run(c, m, 0, p) /\ (Reply(c, m.id, kind) \/ ReplyFails(c, m.id))
    BY <1>14, DirectRuns
  <2>4. /\ store' \in Store
        /\ mirror' \in Store
        /\ log' \in Seq(LogEntry)
        /\ lastWrite' \in [Clients -> Nat]
        /\ ran' \in Seq(RunEntry)
    BY <2>2, <2>3, RunType
  <2>5. m.id \in Nat
    BY <2>2 DEF Message
  <2>6. /\ out' \in [Clients -> Seq(Answer)]
        /\ clients' \subseteq Clients
        /\ raced' \in [Clients -> SUBSET Nat]
    BY <2>3, <2>5, ReplyType
  <2> QED
    BY <2>1, <2>2, <2>4, <2>6 DEF TypeOK, sessionVars, execVars
<1>15. ASSUME NEW c \in Clients, StartWait(c) PROVE TypeOK'
  <2>1. inbox' \in [Clients -> Seq(Message)]
    BY <1>15, TakeType DEF StartWait
  <2>2. PICK w \in WaitState : waits' = waits \cup {w}
    BY <1>15, StartWaitNew
  <2>3. clients' \subseteq Clients /\ raced' \in [Clients -> SUBSET Nat]
    BY <1>15, StartWaitRace
  <2> QED
    BY <1>15, <2>1, <2>2, <2>3 DEF TypeOK, StartWait, dataVars, sessionVars, execVars
<1>16. ASSUME NEW w \in waits, WaitRead(w) PROVE TypeOK'
  <2>1. waits' \subseteq WaitState
    BY <1>16 DEF TypeOK, WaitRead, WaitState
  <2> QED
    BY <1>16, <2>1 DEF TypeOK, WaitRead, dataVars, sessionVars, execVars
<1>17. ASSUME NEW w \in waits, WaitWrite(w) PROVE TypeOK'
  <2>1. waits' \subseteq WaitState
    BY <1>17 DEF TypeOK, WaitWrite, WaitState
  <2>2. raced' \in [Clients -> SUBSET Nat]
    BY <1>17, RaceType DEF TypeOK, WaitWrite, WaitState
  <2> QED
    BY <1>17, <2>1, <2>2 DEF TypeOK, WaitWrite, dataVars, sessionVars, execVars
<1>18. ASSUME NEW w \in waits, WaitSend(w) PROVE TypeOK'
  <2> DEFINE kind == IF w.cmd.bad THEN "refused" ELSE "count"
  <2>1. w.cl \in Clients /\ w.id \in Nat /\ kind \in ReplyKinds
    BY DEF TypeOK, WaitState, ReplyKinds
  <2>2. (w.id \in raced[w.cl]) \in BOOLEAN
    OBVIOUS
  <2>3. Flushed(w.cl, w.id, kind)
    BY <1>18, <2>1, <2>2, DeliverFlushes DEF WaitSend
  <2>4. /\ out' \in [Clients -> Seq(Answer)]
        /\ clients' \subseteq Clients
    BY <2>1, <2>3, FlushType
  <2> QED
    BY <1>18, <2>4 DEF TypeOK, WaitSend, dataVars, sessionVars, execVars
<1>19. CASE UNCHANGED vars
  BY <1>19 DEF TypeOK, vars
<1> QED
  BY <1>1, <1>2, <1>3, <1>4, <1>5, <1>6, <1>7, <1>8, <1>9, <1>10, <1>11, <1>12,
     <1>13, <1>14, <1>15, <1>16, <1>17, <1>18, <1>19 DEF Next, Handle

\* TypeOK is an invariant: no sequence of requests, however interleaved, takes
\* the store, a session, a queue or an offset out of its type; in particular
\* INCR never stores a number above MaxInt.
THEOREM TypeCorrect == Spec => []TypeOK
<1>1. Init => TypeOK
  BY KeyValAssumption DEF Init, TypeOK, NewStore, Absent, Store, Value, Data
<1> QED
  BY <1>1, TypeStep, PTL DEF Spec

(***************************************************************************)
(* The mirror.  Two stores that show the same strings are told apart by no *)
(* command, so MirrorAgrees is inductive together with TypeOK.             *)
(***************************************************************************)
SameView(s, t, n) == \A k \in Keys : Visible(s, k, n) = Visible(t, k, n)

\* The lazy deletion of kv.Get is invisible.
LEMMA GetInvisible ==
    ASSUME NEW s \in Store, NEW k \in Keys, NEW n \in Nat
    PROVE  SameView(Get(s, k, n), s, n)
<1> SUFFICES ASSUME NEW j \in Keys
             PROVE  Visible(Get(s, k, n), j, n) = Visible(s, j, n)
  BY DEF SameView
<1>1. CASE isExpired(s, k, n)
  <2>1. CASE j = k
    BY <1>1, <2>1 DEF Get, Visible, Found, isExpired, Absent, Store
  <2>2. CASE j # k
    BY <1>1, <2>2 DEF Get, Visible, Found, isExpired, Store
  <2> QED
    BY <2>1, <2>2
<1>2. CASE ~isExpired(s, k, n)
  BY <1>2 DEF Get
<1> QED
  BY <1>1, <1>2

\* A new stream key is invisible to readers of strings.
LEMMA GetStreamInvisible ==
    ASSUME NEW s \in Store, NEW k \in Keys, NEW n \in Nat
    PROVE  SameView(GetStream(s, k), s, n)
<1> SUFFICES ASSUME NEW j \in Keys
             PROVE  Visible(GetStream(s, k), j, n) = Visible(s, j, n)
  BY DEF SameView
<1>1. CASE s[k].type = "none" /\ j = k
  BY <1>1 DEF GetStream, Visible, Found, isExpired, Store
<1>2. CASE s[k].type = "none" /\ j # k
  BY <1>2 DEF GetStream, Visible, Found, isExpired, Store
<1>3. CASE s[k].type # "none"
  BY <1>3 DEF GetStream
<1> QED
  BY <1>1, <1>2, <1>3

\* What a SET that goes through leaves behind under its key does not depend on
\* the store, and it leaves the other keys alone.
LEMMA SetStoresValue ==
    ASSUME NEW s \in Store, NEW c \in Command, NEW n \in Nat
    PROVE  /\ SetStores(s, c, n)[c.key] =
                [type |-> "string", data |-> c.val,
                 expiry |-> IF c.ttl > 0 THEN n + c.ttl ELSE c.at]
           /\ \A j \in Keys \ {c.key} : SetStores(s, c, n)[j] = s[j]
<1> DEFINE v == [type |-> "string", data |-> c.val, expiry |-> 0]
           s2 == Set(s, c.key, c.val)
           s3 == IF c.keepttl THEN s2 ELSE DeleteTTL(s2, c.key)
<1>1. c.key \in Keys /\ c.val \in Data /\ c.ttl \in Nat /\ c.at \in Nat
  BY DEF Command
<1>2. s2 = [s EXCEPT ![c.key] = v] /\ s2 \in Store
  BY <1>1, SetType DEF Set
<1>3. s3 \in Store /\ s3[c.key] = v /\ \A j \in Keys \ {c.key} : s3[j] = s[j]
  BY <1>1, <1>2, ExpireAtType DEF DeleteTTL, ExpireAt, Store
<1>4. SetStores(s, c, n) = SetExpiry(s3, c, n)
  BY DEF SetStores
<1> HIDE DEF s2, s3
<1>5. ASSUME NEW t \in Nat
      PROVE  /\ ExpireAt(s3, c.key, t)[c.key] =
                  [type |-> "string", data |-> c.val, expiry |-> t]
             /\ \A j \in Keys \ {c.key} : ExpireAt(s3, c.key, t)[j] = s[j]
  BY <1>1, <1>3 DEF ExpireAt, Store
<1>6. CASE c.ttl > 0
  <2>1. n + c.ttl \in Nat
    BY <1>1
  <2>2. SetExpiry(s3, c, n) = ExpireAt(s3, c.key, n + c.ttl)
    BY <1>6 DEF SetExpiry
  <2> QED
    BY <1>4, <1>5, <1>6, <2>1, <2>2
<1>7. CASE ~(c.ttl > 0) /\ c.at > 0
  BY <1>1, <1>4, <1>5, <1>7 DEF SetExpiry
<1>8. CASE ~(c.ttl > 0) /\ ~(c.at > 0)
  <2>1. c.at = 0
    BY <1>1, <1>8
  <2> QED
    BY <1>3, <1>4, <1>8, <2>1 DEF SetExpiry
<1> QED
  BY <1>6, <1>7, <1>8

\* SET takes two stores with the same view to two stores with the same view.
LEMMA SetExecuteAgrees ==
    ASSUME NEW s \in Store, NEW t \in Store, NEW c \in Command, NEW n \in Nat,
           SameView(s, t, n)
    PROVE  SameView(SetExecute(s, c, n), SetExecute(t, c, n), n)
<1> DEFINE reads == c.get \/ c.nx \/ c.xx
           s1 == IF reads THEN Get(s, c.key, n) ELSE s
           t1 == IF reads THEN Get(t, c.key, n) ELSE t
           skips(u) == (c.nx /\ Found(u, c.key, n)) \/ (c.xx /\ ~Found(u, c.key, n))
<1>1. c.key \in Keys
  BY DEF Command
<1>2. s1 \in Store /\ t1 \in Store /\ SameView(s1, t1, n)
  <2>1. SameView(Get(s, c.key, n), s, n) /\ SameView(Get(t, c.key, n), t, n)
    BY <1>1, GetInvisible
  <2> QED
    BY <1>1, <2>1, GetType DEF SameView
<1>3. Found(s, c.key, n) = Found(t, c.key, n)
  BY <1>1 DEF SameView, Visible, Found, Absent
<1>4. CASE SetRejects(c)
  BY <1>4 DEF SetExecute
<1>5. CASE ~SetRejects(c) /\ skips(s)
  <2>1. SetExecute(s, c, n) = s1 /\ SetExecute(t, c, n) = t1
    BY <1>3, <1>5 DEF SetExecute
  <2> QED
    BY <1>2, <2>1
<1>6. CASE ~SetRejects(c) /\ ~skips(s)
  <2>1. /\ SetExecute(s, c, n) = SetStores(s1, c, n)
        /\ SetExecute(t, c, n) = SetStores(t1, c, n)
    BY <1>3, <1>6 DEF SetExecute
  <2> DEFINE v == [type |-> "string", data |-> c.val,
                   expiry |-> IF c.ttl > 0 THEN n + c.ttl ELSE c.at]
  <2> HIDE DEF s1, t1
  <2>2. /\ SetStores(s1, c, n)[c.key] = v
        /\ \A j \in Keys \ {c.key} : SetStores(s1, c, n)[j] = s1[j]
    BY <1>2, SetStoresValue
  <2>3. /\ SetStores(t1, c, n)[c.key] = v
        /\ \A j \in Keys \ {c.key} : SetStores(t1, c, n)[j] = t1[j]
    BY <1>2, SetStoresValue
  <2> HIDE DEF v
  <2>4. ASSUME NEW j \in Keys
        PROVE  Visible(SetStores(s1, c, n), j, n) = Visible(SetStores(t1, c, n), j, n)
    <3>1. CASE j = c.key
      <4>1. SetStores(s1, c, n)[j] = SetStores(t1, c, n)[j]
        BY <2>2, <2>3, <3>1
      <4> QED
        BY <4>1 DEF Visible, Found, isExpired
    <3>2. CASE j # c.key
      <4>1. SetStores(s1, c, n)[j] = s1[j] /\ SetStores(t1, c, n)[j] = t1[j]
        BY <2>2, <2>3, <2>4, <3>2
      <4>2. Visible(s1, j, n) = Visible(t1, j, n)
        BY <1>2, <2>4 DEF SameView
      <4> QED
        BY <4>1, <4>2 DEF Visible, Found, isExpired
    <3> QED
      BY <3>1, <3>2
  <2> QED
    BY <2>1, <2>4 DEF SameView
<1> QED
  BY <1>4, <1>5, <1>6

\* INCR too.
LEMMA IncrExecuteAgrees ==
    ASSUME NEW s \in Store, NEW t \in Store, NEW c \in Command, NEW n \in Nat,
           SameView(s, t, n)
    PROVE  SameView(IncrExecute(s, c, n), IncrExecute(t, c, n), n)
<1> DEFINE s1 == Get(s, c.key, n)
           t1 == Get(t, c.key, n)
           old(u) == IF Found(u, c.key, n) THEN u[c.key].data ELSE 0
           stuck(u) == old(u) \in Texts \/ old(u) = MaxInt
<1>1. c.key \in Keys
  BY DEF Command
<1>2. s1 \in Store /\ t1 \in Store /\ SameView(s1, t1, n)
  <2>1. SameView(s1, s, n) /\ SameView(t1, t, n)
    BY <1>1, GetInvisible
  <2> QED
    BY <1>1, <2>1, GetType DEF SameView
<1>3. old(s) = old(t)
  BY <1>1 DEF SameView, Visible, Found, Absent
<1>4. CASE c.bad
  BY <1>4 DEF IncrExecute
<1>5. CASE ~c.bad /\ stuck(s)
  <2>1. IncrExecute(s, c, n) = s1 /\ IncrExecute(t, c, n) = t1
    BY <1>3, <1>5 DEF IncrExecute
  <2> QED
    BY <1>2, <2>1
<1>6. CASE ~c.bad /\ ~stuck(s)
  <2> DEFINE v == old(s) + 1
  <2>1. IncrExecute(s, c, n) = Set(s1, c.key, v) /\ IncrExecute(t, c, n) = Set(t1, c.key, v)
    BY <1>3, <1>6 DEF IncrExecute
  <2> HIDE DEF s1, t1, v
  <2>2. ASSUME NEW j \in Keys
        PROVE  Visible(Set(s1, c.key, v), j, n) = Visible(Set(t1, c.key, v), j, n)
    <3>1. CASE j = c.key
      BY <1>2, <3>1 DEF Set, Store, Visible, Found, isExpired
    <3>2. CASE j # c.key
      <4>1. Visible(s1, j, n) = Visible(t1, j, n)
        BY <1>2, <2>2 DEF SameView
      <4> QED
        BY <1>2, <2>2, <3>2, <4>1 DEF Set, Store, Visible, Found, isExpired
    <3> QED
      BY <3>1, <3>2
  <2> QED
    BY <2>1, <2>2 DEF SameView
<1> QED
  BY <1>4, <1>5, <1>6

\* A command that is not propagated shows readers of strings nothing new.
LEMMA UnpropagatedInvisible ==
    ASSUME NEW s \in Store, NEW c \in Command, NEW n \in Nat,
           c.name \notin WriteableCommands \/ ReturnsError(c)
    PROVE  SameView(Execute(s, c, n), s, n)
<1>1. c.key \in Keys
  BY DEF Command
<1>2. SameView(s, s, n) /\ SameView(Get(s, c.key, n), s, n)
      /\ SameView(GetStream(s, c.key), s, n)
  BY <1>1, GetInvisible, GetStreamInvisible DEF SameView
<1>3. CASE c.name = "set" \/ c.name = "incr"
  <2>1. c.bad /\ c.name = "set"
    BY <1>3 DEF WriteableCommands, ReturnsError
  <2>2. Execute(s, c, n) = s
    BY <2>1 DEF Execute, SetExecute, SetRejects
  <2> QED
    BY <1>2, <2>2
<1>4. CASE c.name = "get"
  BY <1>2, <1>4 DEF Execute
<1>5. CASE c.name = "xadd"
  BY <1>2, <1>5 DEF Execute
<1>6. CASE c.name \notin {"set", "incr", "get", "xadd"}
  <2>1. Execute(s, c, n) = s
    BY <1>6 DEF Execute
  <2> QED
    BY <1>2, <2>1
<1> QED
  BY <1>3, <1>4, <1>5, <1>6

\* A command that is propagated has the same effect on both stores.
LEMMA PropagatedAgrees ==
    ASSUME NEW s \in Store, NEW t \in Store, NEW c \in Command, NEW n \in Nat,
           c.name \in WriteableCommands, SameView(s, t, n)
    PROVE  SameView(Execute(s, c, n), Execute(t, c, n), n)
<1>1. CASE c.name = "set"
  BY <1>1, SetExecuteAgrees DEF Execute
<1>2. CASE c.name = "incr"
  BY <1>2, IncrExecuteAgrees DEF Execute
<1>3. CASE c.name = "del"
  BY <1>3 DEF Execute
<1> QED
  BY <1>1, <1>2, <1>3 DEF WriteableCommands

\* Time passes alike on two stores with the same view.
LEMMA TickAgrees ==
    ASSUME NEW s \in Store, NEW t \in Store, NEW n \in Nat, SameView(s, t, n)
    PROVE  SameView(s, t, n + 1)
<1> SUFFICES ASSUME NEW k \in Keys
             PROVE  Visible(s, k, n + 1) = Visible(t, k, n + 1)
  BY DEF SameView
<1>1. s[k] \in Value /\ t[k] \in Value /\ Visible(s, k, n) = Visible(t, k, n)
  BY DEF Store, SameView
<1>2. s[k].expiry \in Nat /\ t[k].expiry \in Nat
  BY <1>1 DEF Value
<1>3. CASE Found(s, k, n)
  <2>1. s[k] = t[k]
    BY <1>1, <1>3 DEF Visible, Found, Absent
  <2> QED
    BY <2>1 DEF Visible, Found, isExpired
<1>4. CASE ~Found(s, k, n)
  <2>1. ~Found(t, k, n)
    BY <1>1, <1>4 DEF Visible, Found, Absent
  <2>2. ~Found(s, k, n + 1) /\ ~Found(t, k, n + 1)
    BY <1>2, <1>4, <2>1 DEF Found, isExpired
  <2> QED
    BY <2>2 DEF Visible
<1> QED
  BY <1>3, <1>4

\* A client that was closed stays closed.
LEMMA ClientsShrink == ASSUME [Next]_vars PROVE clients' \subseteq clients
<1>1. ASSUME NEW c \in Clients, NEW id, NEW kind, Reply(c, id, kind) \/ ReplyFails(c, id)
      PROVE  clients' \subseteq clients
  BY <1>1 DEF Reply, ReplyFails, Deliver
<1>2. ASSUME NEW c \in Clients, Request(c) \/ Disconnect(c) \/ StopReading(c)
      PROVE  clients' \subseteq clients
  BY <1>2 DEF Request, Disconnect, StopReading
<1>3. ASSUME NEW c \in Clients, Handle(c) PROVE clients' \subseteq clients
  BY <1>1, <1>3 DEF Handle, Unknown, Enqueue, RefuseTx, Multi, Discard, ExecBegin,
     ExecuteDirect, StartWait
<1>4. ASSUME NEW c \in Clients, ExecCommand(c) \/ ExecEnd(c)
      PROVE  clients' \subseteq clients
  BY <1>1, <1>4 DEF ExecCommand, ExecEnd
<1>5. ASSUME NEW w \in waits, WaitRead(w) \/ WaitWrite(w) \/ WaitSend(w)
      PROVE  clients' \subseteq clients
  BY <1>5 DEF WaitRead, WaitWrite, WaitSend, Deliver
<1>6. ASSUME Tick \/ (\E r \in Replicas : HandleAck(r)) \/ UNCHANGED vars
      PROVE  clients' \subseteq clients
  BY <1>6 DEF Tick, HandleAck, vars
<1> QED
  BY <1>2, <1>3, <1>4, <1>5, <1>6 DEF Next

\* Running a command, propagated or not as the code decides, keeps the views
\* of the store and the mirror the same.
LEMMA RunAgrees ==
    ASSUME TypeOK, MirrorAgrees, clients = Clients,
           NEW c \in Clients, NEW m \in Message, NEW tx,
           NEW p \in BOOLEAN, Run(c, m, tx, p), now' = now,
           p => m.cmd.name \in WriteableCommands,
           ~p => m.cmd.name \notin WriteableCommands \/ ReturnsError(m.cmd)
    PROVE  MirrorAgrees'
<1>1. m.cmd \in Command /\ store \in Store /\ mirror \in Store /\ now \in Nat
  BY DEF TypeOK, Message
<1>2. SameView(store, mirror, now)
  BY DEF MirrorAgrees, SameView
<1>3. store' = Execute(store, m.cmd, now)
  BY DEF Run
<1>4. CASE p
  <2>1. mirror' = Execute(mirror, m.cmd, now)
    BY <1>4, Zenon DEF Run, PropagateCommand
  <2>2. SameView(store', mirror', now)
    BY <1>1, <1>2, <1>3, <1>4, <2>1, PropagatedAgrees
  <2> QED
    BY <2>2 DEF MirrorAgrees, SameView
<1>5. CASE ~p
  <2>1. mirror' = mirror
    BY <1>5 DEF Run
  <2>2. SameView(store', store, now)
    BY <1>1, <1>3, <1>5, UnpropagatedInvisible
  <2> QED
    BY <1>2, <2>1, <2>2 DEF MirrorAgrees, SameView
<1> QED
  BY <1>4, <1>5

\* Every step keeps the mirror's view the master's.
LEMMA MirrorStep == TypeOK /\ MirrorAgrees /\ [Next]_vars => MirrorAgrees'
<1> SUFFICES ASSUME TypeOK, MirrorAgrees, [Next]_vars, clients' = Clients
             PROVE  MirrorAgrees'
  BY DEF MirrorAgrees
<1>0. clients = Clients
  BY ClientsShrink DEF TypeOK
<1>1. CASE Tick
  <2>1. SameView(store, mirror, now + 1)
    BY <1>0, TickAgrees DEF TypeOK, MirrorAgrees, SameView
  <2>2. store' = store /\ mirror' = mirror /\ now' = now + 1
    BY <1>1 DEF Tick, dataVars
  <2> QED
    BY <2>1, <2>2 DEF MirrorAgrees, SameView
<1>2. ASSUME NEW c \in Clients, ExecCommand(c) PROVE MirrorAgrees'
  <2> DEFINE m == txQueue[c][execPos]
             p == m.cmd.name \in WriteableCommands
  <2>1. m \in Message
    BY <1>2 DEF TypeOK, ExecCommand
  <2>2. p \in BOOLEAN /\ Run(c, m, execId, p) /\ now' = now
    BY <1>2 DEF ExecCommand
  <2>3. (p => m.cmd.name \in WriteableCommands) /\ (~p => m.cmd.name \notin WriteableCommands)
    OBVIOUS
  <2> HIDE DEF m, p
  <2> QED
    BY <1>0, <2>1, <2>2, <2>3, RunAgrees
<1>3. ASSUME NEW c \in Clients, ExecuteDirect(c) PROVE MirrorAgrees'
  <2> DEFINE m == Head(inbox[c])
             p == m.cmd.name \in WriteableCommands /\ ~ReturnsError(m.cmd)
  <2>1. m \in Message
    BY <1>3, TakeType DEF ExecuteDirect
  <2>2. p \in BOOLEAN /\ Run(c, m, 0, p) /\ now' = now
    BY <1>3 DEF ExecuteDirect, ReplyFails
  <2>3. /\ p => m.cmd.name \in WriteableCommands
        /\ ~p => m.cmd.name \notin WriteableCommands \/ ReturnsError(m.cmd)
    OBVIOUS
  <2> HIDE DEF m, p
  <2> QED
    BY <1>0, <2>1, <2>2, <2>3, RunAgrees
<1>4. CASE UNCHANGED <<store, mirror, now>>
  BY <1>0, <1>4 DEF MirrorAgrees, Visible, Found, isExpired
<1>5. ASSUME NEW c \in Clients,
             \/ Request(c) \/ Disconnect(c) \/ StopReading(c) \/ Unknown(c)
             \/ Enqueue(c) \/ RefuseTx(c) \/ Multi(c) \/ Discard(c)
             \/ ExecBegin(c) \/ ExecEnd(c) \/ StartWait(c)
      PROVE  UNCHANGED <<store, mirror, now>>
  BY <1>5 DEF Request, Disconnect, StopReading, Unknown, Enqueue, RefuseTx, Multi,
     Discard, ExecBegin, ExecEnd, StartWait, dataVars
<1>6. ASSUME NEW r \in Replicas, HandleAck(r) PROVE UNCHANGED <<store, mirror, now>>
  BY <1>6 DEF HandleAck, dataVars
<1>7. ASSUME NEW w \in waits, WaitRead(w) \/ WaitWrite(w) \/ WaitSend(w)
      PROVE  UNCHANGED <<store, mirror, now>>
  BY <1>7 DEF WaitRead, WaitWrite, WaitSend, dataVars
<1>8. CASE UNCHANGED vars
  BY <1>4, <1>8 DEF vars
<1> QED
  BY <1>1, <1>2, <1>3, <1>4, <1>5, <1>6, <1>7, <1>8 DEF Next, Handle

\* MirrorAgrees is an invariant, for every set of keys and clients: the writes
\* PropagateCommand sends are enough, and no more than enough, for a store that
\* applies them at once to show the master's live strings and their expiry.
THEOREM MirrorCorrect == Spec => []MirrorAgrees
<1>1. Init => MirrorAgrees
  BY DEF Init, MirrorAgrees
<1> QED
  BY <1>1, MirrorStep, TypeCorrect, PTL DEF Spec

(***************************************************************************)
(* The order of a session: what a WAIT waits for, in which order commands  *)
(* run, and that transactions do not mix.                                  *)
(*                                                                         *)
(* All of it rests on one fact, SessionOrder: of the requests of a client  *)
(* the ones in txQueue are older than the ones the loop has not taken yet. *)
(***************************************************************************)

(***************************************************************************)
(* Sequences of messages and their request numbers.                        *)
(***************************************************************************)
\* Request n is older than all of q.
Below(n, q) == \A i \in 1 .. Len(q) : n < q[i].id

\* No message of q is newer than request n.
UpTo(q, n) == \A i \in 1 .. Len(q) : q[i].id <= n

Ordered(q) == \A i, j \in 1 .. Len(q) : i < j => q[i].id < q[j].id

\* Request numbers are numbers.
LEMMA MessageId ==
    ASSUME NEW q \in Seq(Message), NEW i \in 1 .. Len(q)
    PROVE  q[i].id \in Nat
<1>1. q[i] \in Message
  OBVIOUS
<1> QED
  BY <1>1 DEF Message

\* Taking the oldest message off a queue.
LEMMA TailOrder ==
    ASSUME NEW q \in Seq(Message), q # <<>>
    PROVE  /\ Ordered(q) => Ordered(Tail(q)) /\ Below(Head(q).id, Tail(q))
           /\ \A n \in Nat : UpTo(q, n) => UpTo(Tail(q), n) /\ Head(q).id <= n
           /\ \A n \in Nat : Below(n, q) => Below(n, Tail(q)) /\ n < Head(q).id
<1>1. /\ Tail(q) \in Seq(Message) /\ Len(Tail(q)) = Len(q) - 1 /\ Len(q) \in Nat \ {0}
      /\ Head(q) = q[1]
      /\ \A i \in 1 .. Len(q) - 1 : Tail(q)[i] = q[i + 1]
  OBVIOUS
<1>2. \A i \in 1 .. Len(q) : q[i].id \in Nat
  BY MessageId
<1> QED
  BY <1>1, <1>2 DEF Ordered, UpTo, Below

\* Dropping the end of a queue.
LEMMA PrefixOrder ==
    ASSUME NEW q \in Seq(Message), NEW l \in 0 .. Len(q)
    PROVE  /\ Ordered(q) => Ordered(SubSeq(q, 1, l))
           /\ \A n \in Nat : UpTo(q, n) => UpTo(SubSeq(q, 1, l), n)
           /\ \A n \in Nat : Below(n, q) => Below(n, SubSeq(q, 1, l))
<1>1. /\ Len(SubSeq(q, 1, l)) = l /\ l \in Nat /\ l <= Len(q)
      /\ \A i \in 1 .. l : SubSeq(q, 1, l)[i] = q[i]
  OBVIOUS
<1> QED
  BY <1>1 DEF Ordered, UpTo, Below

\* Appending a message that is newer than all of the queue.
LEMMA AppendOrder ==
    ASSUME NEW q \in Seq(Message), NEW m \in Message
    PROVE  /\ Ordered(q) /\ (\A i \in 1 .. Len(q) : q[i].id < m.id)
                => Ordered(Append(q, m))
           /\ \A n \in Nat : UpTo(q, n) /\ m.id <= n => UpTo(Append(q, m), n)
           /\ \A n \in Nat : Below(n, q) /\ n < m.id => Below(n, Append(q, m))
<1>1. /\ Len(Append(q, m)) = Len(q) + 1 /\ Len(q) \in Nat
      /\ Append(q, m)[Len(q) + 1] = m
      /\ \A i \in 1 .. Len(q) : Append(q, m)[i] = q[i]
  OBVIOUS
<1>2. \A i \in 1 .. Len(q) + 1 : i \in 1 .. Len(q) \/ i = Len(q) + 1
  BY <1>1
<1>3. m.id \in Nat
  BY DEF Message
<1> QED
  BY <1>1, <1>2, <1>3 DEF Ordered, UpTo, Below

(***************************************************************************)
(* The order of a session.                                                 *)
(***************************************************************************)
QueueOrder(c) ==
    /\ Ordered(inbox[c]) /\ UpTo(inbox[c], nreq[c])
    /\ Ordered(txQueue[c]) /\ UpTo(txQueue[c], nreq[c])
    /\ \A i \in 1 .. Len(txQueue[c]) : Below(txQueue[c][i].id, inbox[c])
    /\ ~inTx[c] => txQueue[c] = <<>>

SessionOrder == \A c \in Clients : QueueOrder(c)

\* A WAIT that runs was sent before all that its client has in txQueue and
\* inbox: inside a transaction it would have been queued.
WaitOrder ==
    \A w \in waits : /\ w.id <= nreq[w.cl]
                     /\ Below(w.id, inbox[w.cl]) /\ Below(w.id, txQueue[w.cl])

\* The loop takes a message: the inboxes stay in order.
LEMMA TakeOrder ==
    ASSUME TypeOK, SessionOrder, NEW c \in Clients, Take(c)
    PROVE  /\ \A d \in Clients :
                /\ Ordered(inbox'[d]) /\ UpTo(inbox'[d], nreq[d])
                /\ \A n \in Nat : Below(n, inbox[d]) => Below(n, inbox'[d])
           /\ Below(Head(inbox[c]).id, inbox'[c])
           /\ Head(inbox[c]).id <= nreq[c]
           /\ \A n \in Nat : Below(n, inbox[c]) => n < Head(inbox[c]).id
<1>1. inbox[c] \in Seq(Message) /\ inbox[c] # <<>> /\ nreq \in [Clients -> Nat]
  BY DEF TypeOK, Take
<1>2. inbox'[c] = Tail(inbox[c]) /\ \A d \in Clients \ {c} : inbox'[d] = inbox[d]
  BY DEF TypeOK, Take
<1>3. \A d \in Clients : Ordered(inbox[d]) /\ UpTo(inbox[d], nreq[d])
  BY DEF SessionOrder, QueueOrder
<1>4. /\ Ordered(inbox'[c]) /\ UpTo(inbox'[c], nreq[c])
      /\ Below(Head(inbox[c]).id, inbox'[c]) /\ Head(inbox[c]).id <= nreq[c]
      /\ \A n \in Nat : Below(n, inbox[c]) => Below(n, inbox'[c]) /\ n < Head(inbox[c]).id
  BY <1>1, <1>2, <1>3, TailOrder
<1> QED
  BY <1>2, <1>3, <1>4

\* Steps that only shorten inboxes and clear transaction queues.
LEMMA ShrinkOrder ==
    ASSUME TypeOK, SessionOrder, WaitOrder, UNCHANGED nreq,
           \A d \in Clients :
             /\ Ordered(inbox'[d]) /\ UpTo(inbox'[d], nreq[d])
             /\ \A n \in Nat : Below(n, inbox[d]) => Below(n, inbox'[d])
             /\ \/ txQueue'[d] = txQueue[d] /\ inTx'[d] = inTx[d]
                \/ txQueue'[d] = <<>>,
           \A w \in waits' : \E v \in waits : v.cl = w.cl /\ v.id = w.id
    PROVE  SessionOrder' /\ WaitOrder'
<1>1. ASSUME NEW d \in Clients PROVE QueueOrder(d)'
  <2>1. QueueOrder(d)
    BY DEF SessionOrder
  <2>2. CASE txQueue'[d] = txQueue[d] /\ inTx'[d] = inTx[d]
    <3>1. \A i \in 1 .. Len(txQueue[d]) : txQueue[d][i].id \in Nat
      BY MessageId DEF TypeOK
    <3> QED
      BY <2>1, <2>2, <3>1 DEF QueueOrder, Ordered, UpTo
  <2>3. CASE txQueue'[d] = <<>>
    <3>1. Len(txQueue'[d]) = 0
      BY <2>3
    <3> QED
      BY <2>3, <3>1 DEF QueueOrder, Ordered, UpTo
  <2> QED
    BY <2>2, <2>3
<1>2. ASSUME NEW w \in waits'
      PROVE  /\ w.id <= nreq'[w.cl]
             /\ Below(w.id, inbox'[w.cl]) /\ Below(w.id, txQueue'[w.cl])
  <2>1. PICK v \in waits : v.cl = w.cl /\ v.id = w.id
    BY <1>2
  <2>2. v.cl \in Clients /\ v.id \in Nat
    BY DEF TypeOK, WaitState
  <2>3. v.id <= nreq[v.cl] /\ Below(v.id, inbox[v.cl]) /\ Below(v.id, txQueue[v.cl])
    BY DEF WaitOrder
  <2>4. Below(v.id, inbox'[v.cl])
    BY <2>2, <2>3
  <2>5. Below(v.id, txQueue'[v.cl])
    <3>1. CASE txQueue'[v.cl] = txQueue[v.cl]
      BY <2>3, <3>1 DEF Below
    <3>2. CASE txQueue'[v.cl] = <<>>
      BY <3>2 DEF Below
    <3> QED
      BY <2>2, <3>1, <3>2
  <2> QED
    BY <2>1, <2>3, <2>4, <2>5
<1> QED
  BY <1>1, <1>2 DEF SessionOrder, WaitOrder, Below

\* Every step keeps the order of every session.
LEMMA SessionStep ==
    TypeOK /\ SessionOrder /\ WaitOrder /\ [Next]_vars => SessionOrder' /\ WaitOrder'
<1> SUFFICES ASSUME TypeOK, SessionOrder, WaitOrder, [Next]_vars
             PROVE  SessionOrder' /\ WaitOrder'
  OBVIOUS
<1>0. /\ \A d \in Clients : QueueOrder(d) /\ inbox[d] \in Seq(Message)
                            /\ txQueue[d] \in Seq(Message) /\ nreq[d] \in Nat
      /\ \A w \in waits : \E v \in waits : v.cl = w.cl /\ v.id = w.id
  BY DEF TypeOK, SessionOrder
<1>1. ASSUME NEW c \in Clients, Request(c) PROVE SessionOrder' /\ WaitOrder'
  <2>1. PICK cmd \in Commands[c] :
          inbox' = [inbox EXCEPT ![c] = Append(@, [id |-> nreq[c] + 1, cmd |-> cmd])]
    BY <1>1 DEF Request
  <2> DEFINE m == [id |-> nreq[c] + 1, cmd |-> cmd]
  <2>2. m \in Message /\ m.id = nreq[c] + 1
    BY ServerAssumption DEF TypeOK, Message
  <2>3. /\ inbox'[c] = Append(inbox[c], m) /\ nreq'[c] = nreq[c] + 1
        /\ \A d \in Clients \ {c} : inbox'[d] = inbox[d] /\ nreq'[d] = nreq[d]
        /\ UNCHANGED <<txQueue, inTx, waits>>
    BY <1>1, <2>1 DEF TypeOK, Request, sessionVars
  <2> HIDE DEF m
  <2>4. \A n \in Nat : Below(n, inbox[c]) /\ n <= nreq[c] => Below(n, inbox'[c])
    BY <1>0, <2>2, <2>3, AppendOrder
  <2>5. Ordered(inbox'[c]) /\ UpTo(inbox'[c], nreq'[c])
    <3>1. UpTo(inbox[c], nreq[c]) /\ Ordered(inbox[c])
      BY <1>0 DEF QueueOrder
    <3>2. \A i \in 1 .. Len(inbox[c]) : inbox[c][i].id <= nreq[c] /\ inbox[c][i].id \in Nat
      BY <1>0, <3>1, MessageId DEF UpTo
    <3>3. UpTo(inbox[c], nreq[c] + 1) /\ \A i \in 1 .. Len(inbox[c]) : inbox[c][i].id < m.id
      BY <1>0, <2>2, <3>2 DEF UpTo
    <3> QED
      BY <1>0, <2>2, <2>3, <3>1, <3>3, AppendOrder
  <2>6. ASSUME NEW i \in 1 .. Len(txQueue[c])
        PROVE  Below(txQueue[c][i].id, inbox'[c]) /\ txQueue[c][i].id <= nreq[c] + 1
    <3>1. txQueue[c][i].id \in Nat /\ txQueue[c][i].id <= nreq[c]
          /\ Below(txQueue[c][i].id, inbox[c])
      BY <1>0, <2>6, MessageId DEF QueueOrder, UpTo
    <3> QED
      BY <1>0, <2>4, <3>1
  <2>7. QueueOrder(c)'
    BY <1>0, <2>3, <2>5, <2>6 DEF QueueOrder, UpTo, Ordered
  <2>8. ASSUME NEW d \in Clients \ {c} PROVE QueueOrder(d)'
    BY <1>0, <2>3, <2>8 DEF QueueOrder, UpTo, Ordered, Below
  <2>9. ASSUME NEW w \in waits
        PROVE  /\ w.id <= nreq'[w.cl]
               /\ Below(w.id, inbox'[w.cl]) /\ Below(w.id, txQueue'[w.cl])
    <3>1. w.cl \in Clients /\ w.id \in Nat
      BY DEF TypeOK, WaitState
    <3>2. w.id <= nreq[w.cl] /\ Below(w.id, inbox[w.cl]) /\ Below(w.id, txQueue[w.cl])
      BY DEF WaitOrder
    <3>3. CASE w.cl = c
      <4>1. w.id <= nreq[c] /\ Below(w.id, inbox[c]) /\ Below(w.id, txQueue[c])
        BY <3>2, <3>3
      <4>2. Below(w.id, inbox'[c]) /\ w.id <= nreq'[c] /\ txQueue'[c] = txQueue[c]
        BY <1>0, <2>3, <2>4, <3>1, <4>1
      <4> QED
        BY <3>3, <4>1, <4>2
    <3>4. CASE w.cl # c
      BY <2>3, <3>1, <3>2, <3>4
    <3> QED
      BY <3>3, <3>4
  <2> QED
    BY <2>3, <2>7, <2>8, <2>9 DEF SessionOrder, WaitOrder, Below
<1>2. ASSUME NEW c \in Clients, StopReading(c) PROVE SessionOrder' /\ WaitOrder'
  <2>1. PICK l \in 0 .. Len(inbox[c]) - 1 :
          inbox' = [inbox EXCEPT ![c] = SubSeq(@, 1, l)]
    BY <1>2 DEF StopReading
  <2>2. l \in 0 .. Len(inbox[c])
    BY <1>0
  <2>3. /\ inbox'[c] = SubSeq(inbox[c], 1, l)
        /\ \A d \in Clients \ {c} : inbox'[d] = inbox[d]
        /\ UNCHANGED <<nreq, txQueue, inTx, waits>>
    BY <1>2, <2>1 DEF TypeOK, StopReading, sessionVars
  <2>4. /\ Ordered(inbox'[c]) /\ UpTo(inbox'[c], nreq[c])
        /\ \A n \in Nat : Below(n, inbox[c]) => Below(n, inbox'[c])
    BY <1>0, <2>2, <2>3, PrefixOrder DEF QueueOrder
  <2>5. \A d \in Clients : /\ Ordered(inbox'[d]) /\ UpTo(inbox'[d], nreq[d])
                           /\ \A n \in Nat : Below(n, inbox[d]) => Below(n, inbox'[d])
    BY <1>0, <2>3, <2>4 DEF QueueOrder
  <2> QED
    BY <1>0, <2>3, <2>5, ShrinkOrder
<1>3. ASSUME NEW c \in Clients, Enqueue(c) PROVE SessionOrder' /\ WaitOrder'
  <2> DEFINE m == Head(inbox[c])
  <2>1. m \in Message /\ Take(c) /\ inTx[c] /\ UNCHANGED <<nreq, inTx, waits>>
    BY <1>3, TakeType DEF Enqueue
  <2>2. /\ txQueue'[c] = Append(txQueue[c], m)
        /\ \A d \in Clients \ {c} : txQueue'[d] = txQueue[d]
    BY <1>3 DEF TypeOK, Enqueue
  <2>3. /\ \A d \in Clients :
             /\ Ordered(inbox'[d]) /\ UpTo(inbox'[d], nreq[d])
             /\ \A n \in Nat : Below(n, inbox[d]) => Below(n, inbox'[d])
        /\ Below(m.id, inbox'[c]) /\ m.id <= nreq[c]
        /\ \A n \in Nat : Below(n, inbox[c]) => n < m.id
    BY <2>1, TakeOrder
  <2> HIDE DEF m
  <2>4. QueueOrder(c)'
    <3>1. \A i \in 1 .. Len(txQueue[c]) :
            txQueue[c][i].id < m.id /\ Below(txQueue[c][i].id, inbox'[c])
      BY <1>0, <2>3, MessageId DEF QueueOrder
    <3>2. Ordered(txQueue'[c]) /\ UpTo(txQueue'[c], nreq[c])
      BY <1>0, <2>1, <2>2, <2>3, <3>1, AppendOrder DEF QueueOrder
    <3>3. ASSUME NEW i \in 1 .. Len(txQueue'[c]) PROVE Below(txQueue'[c][i].id, inbox'[c])
      <4>1. CASE i \in 1 .. Len(txQueue[c])
        <5>1. txQueue'[c][i] = txQueue[c][i]
          BY <1>0, <2>1, <2>2, <4>1
        <5> QED
          BY <3>1, <4>1, <5>1
      <4>2. CASE i = Len(txQueue[c]) + 1
        <5>1. txQueue'[c][i] = m
          BY <1>0, <2>1, <2>2, <4>2
        <5> QED
          BY <2>3, <5>1
      <4>3. Len(txQueue'[c]) = Len(txQueue[c]) + 1 /\ Len(txQueue[c]) \in Nat
        BY <1>0, <2>1, <2>2
      <4> QED
        BY <4>1, <4>2, <4>3
    <3> QED
      BY <2>1, <2>3, <3>2, <3>3 DEF QueueOrder
  <2>5. ASSUME NEW d \in Clients \ {c} PROVE QueueOrder(d)'
    <3>1. \A i \in 1 .. Len(txQueue[d]) : txQueue[d][i].id \in Nat
      BY <1>0, MessageId
    <3> QED
      BY <1>0, <2>1, <2>2, <2>3, <2>5, <3>1 DEF QueueOrder, Ordered, UpTo
  <2>6. ASSUME NEW w \in waits
        PROVE  Below(w.id, inbox'[w.cl]) /\ Below(w.id, txQueue'[w.cl])
    <3>1. w.cl \in Clients /\ w.id \in Nat
      BY DEF TypeOK, WaitState
    <3>2. Below(w.id, inbox[w.cl]) /\ Below(w.id, txQueue[w.cl])
      BY DEF WaitOrder
    <3>3. CASE w.cl = c
      <4>1. Below(w.id, inbox[c]) /\ Below(w.id, txQueue[c])
        BY <3>2, <3>3
      <4>2. Below(w.id, inbox'[c]) /\ w.id < m.id
        BY <2>3, <3>1, <4>1
      <4>3. Below(w.id, txQueue'[c])
        BY <1>0, <2>1, <2>2, <3>1, <4>1, <4>2, AppendOrder
      <4> QED
        BY <3>3, <4>2, <4>3
    <3>4. CASE w.cl # c
      BY <2>2, <2>3, <3>1, <3>2, <3>4
    <3> QED
      BY <3>3, <3>4
  <2> QED
    BY <2>1, <2>4, <2>5, <2>6 DEF SessionOrder, WaitOrder, Below
<1>4. ASSUME NEW c \in Clients, StartWait(c) PROVE SessionOrder' /\ WaitOrder'
  <2> DEFINE m == Head(inbox[c])
  <2>1. Take(c) /\ ~inTx[c] /\ UNCHANGED <<nreq, inTx, txQueue>>
    BY <1>4 DEF StartWait, Direct, TransactionCommands, sessionVars
  <2>6. PICK w \in WaitState : waits' = waits \cup {w} /\ w.cl = c /\ w.id = m.id
    BY <1>4, StartWaitNew
  <2>2. /\ \A d \in Clients :
             /\ Ordered(inbox'[d]) /\ UpTo(inbox'[d], nreq[d])
             /\ \A n \in Nat : Below(n, inbox[d]) => Below(n, inbox'[d])
        /\ Below(m.id, inbox'[c]) /\ m.id <= nreq[c]
    BY <2>1, TakeOrder
  <2>3. SessionOrder'
    <3>1. ASSUME NEW d \in Clients PROVE QueueOrder(d)'
      <4>1. \A i \in 1 .. Len(txQueue[d]) : txQueue[d][i].id \in Nat
        BY <1>0, MessageId
      <4> QED
        BY <1>0, <2>1, <2>2, <4>1 DEF QueueOrder, Ordered, UpTo
    <3> QED
      BY <3>1 DEF SessionOrder
  <2>4. ASSUME NEW v \in waits
        PROVE  v.id <= nreq[v.cl] /\ Below(v.id, inbox'[v.cl]) /\ Below(v.id, txQueue[v.cl])
    <3>1. v.cl \in Clients /\ v.id \in Nat
      BY DEF TypeOK, WaitState
    <3> QED
      BY <2>2, <3>1 DEF WaitOrder
  <2>5. txQueue[c] = <<>> /\ Below(m.id, txQueue[c])
    BY <1>0, <2>1 DEF QueueOrder, Below
  <2> HIDE DEF m
  <2>7. WaitOrder'
    BY <2>1, <2>2, <2>4, <2>5, <2>6 DEF WaitOrder, Below
  <2> QED
    BY <2>3, <2>7
<1>5. ASSUME NEW c \in Clients, Unknown(c) \/ RefuseTx(c) \/ ExecBegin(c) \/ ExecuteDirect(c)
      PROVE  SessionOrder' /\ WaitOrder'
  <2>1. Take(c) /\ UNCHANGED <<nreq, inTx, txQueue, waits>>
    BY <1>5 DEF Unknown, RefuseTx, ExecBegin, ExecuteDirect, sessionVars
  <2> QED
    BY <1>0, <2>1, TakeOrder, ShrinkOrder
<1>6. ASSUME NEW c \in Clients, Multi(c) \/ Discard(c)
      PROVE  SessionOrder' /\ WaitOrder'
  <2>1. /\ Take(c) /\ UNCHANGED <<nreq, waits>>
        /\ txQueue'[c] = <<>>
        /\ \A d \in Clients \ {c} : txQueue'[d] = txQueue[d] /\ inTx'[d] = inTx[d]
    BY <1>6 DEF TypeOK, Multi, Discard, ClearTransaction
  <2> QED
    BY <1>0, <2>1, TakeOrder, ShrinkOrder
<1>7. ASSUME NEW c \in Clients, ExecEnd(c) PROVE SessionOrder' /\ WaitOrder'
  <2>1. /\ UNCHANGED <<nreq, waits, inbox>>
        /\ txQueue'[c] = <<>> \/ (txQueue'[c] = txQueue[c] /\ inTx'[c] = inTx[c])
        /\ \A d \in Clients \ {c} : txQueue'[d] = txQueue[d] /\ inTx'[d] = inTx[d]
    BY <1>7 DEF TypeOK, ExecEnd, ClearTransaction
  <2> QED
    BY <1>0, <2>1, ShrinkOrder DEF QueueOrder
<1>8. CASE /\ UNCHANGED <<nreq, inbox, inTx, txQueue>>
           /\ \A w \in waits' : \E v \in waits : v.cl = w.cl /\ v.id = w.id
  BY <1>0, <1>8, ShrinkOrder DEF QueueOrder
<1>9. ASSUME NEW w \in waits, WaitRead(w) \/ WaitWrite(w) \/ WaitSend(w)
      PROVE  SessionOrder' /\ WaitOrder'
  <2>1. UNCHANGED <<nreq, inbox, inTx, txQueue>>
    BY <1>9 DEF WaitRead, WaitWrite, WaitSend, sessionVars
  <2>2. CASE WaitRead(w) \/ WaitWrite(w)
    <3>1. PICK v \in WaitState : waits' = (waits \ {w}) \cup {v} /\ v.cl = w.cl /\ v.id = w.id
      BY <2>2, WaitMoves
    <3>2. \A u \in waits' : \E x \in waits : x.cl = u.cl /\ x.id = u.id
      BY <3>1
    <3> QED
      BY <1>8, <2>1, <3>2
  <2>3. CASE WaitSend(w)
    <3>1. waits' \subseteq waits
      BY <2>3 DEF WaitSend
    <3> QED
      BY <1>8, <2>1, <3>1
  <2> QED
    BY <1>9, <2>2, <2>3
<1>10. ASSUME NEW c \in Clients, Disconnect(c) \/ ExecCommand(c)
       PROVE  SessionOrder' /\ WaitOrder'
  <2>1. UNCHANGED <<nreq, inbox, inTx, txQueue, waits>>
    BY <1>10 DEF Disconnect, ExecCommand, sessionVars
  <2> QED
    BY <1>0, <1>8, <2>1
<1>11. ASSUME Tick \/ (\E r \in Replicas : HandleAck(r)) \/ UNCHANGED vars
       PROVE  SessionOrder' /\ WaitOrder'
  <2>1. UNCHANGED <<nreq, inbox, inTx, txQueue, waits>>
    BY <1>11 DEF Tick, HandleAck, sessionVars, vars
  <2> QED
    BY <1>0, <1>8, <2>1
<1> QED
  BY <1>1, <1>2, <1>3, <1>4, <1>5, <1>6, <1>7, <1>9, <1>10, <1>11 DEF Next, Handle

\* Whatever the clients pipeline and however the loop and the goroutines
\* interleave, of a client's requests the queued ones are older than the ones
\* not taken yet, and a running WAIT is older than both.
THEOREM SessionCorrect == Spec => [](SessionOrder /\ WaitOrder)
<1>1. Init => SessionOrder /\ WaitOrder
  BY DEF Init, SessionOrder, WaitOrder, QueueOrder, Ordered, UpTo, Below
<1> QED
  BY <1>1, SessionStep, TypeCorrect, PTL DEF Spec

(***************************************************************************)
(* lastWriteOffset and WAIT.                                               *)
(***************************************************************************)
\* Only a command that runs touches the stores and the histories.
LEMMA QuietSteps ==
    ASSUME [Next]_vars, \A c \in Clients : ~ExecCommand(c) /\ ~ExecuteDirect(c)
    PROVE  UNCHANGED dataVars
<1>1. ASSUME NEW c \in Clients,
             \/ Request(c) \/ Disconnect(c) \/ StopReading(c) \/ Unknown(c)
             \/ Enqueue(c) \/ RefuseTx(c) \/ Multi(c) \/ Discard(c)
             \/ ExecBegin(c) \/ ExecEnd(c) \/ StartWait(c)
      PROVE  UNCHANGED dataVars
  BY <1>1 DEF Request, Disconnect, StopReading, Unknown, Enqueue, RefuseTx, Multi,
     Discard, ExecBegin, ExecEnd, StartWait
<1>2. ASSUME NEW r \in Replicas, HandleAck(r) PROVE UNCHANGED dataVars
  BY <1>2 DEF HandleAck
<1>3. ASSUME NEW w \in waits, WaitRead(w) \/ WaitWrite(w) \/ WaitSend(w) PROVE UNCHANGED dataVars
  BY <1>3 DEF WaitRead, WaitWrite, WaitSend
<1>4. ASSUME Tick \/ UNCHANGED vars PROVE UNCHANGED dataVars
  BY <1>4 DEF Tick, vars, dataVars
<1> QED
  BY <1>1, <1>2, <1>3, <1>4 DEF Next, Handle

\* The two ways a command runs: which message it is, and that no goroutine of
\* a WAIT moves meanwhile.
LEMMA RunSteps ==
    ASSUME TypeOK, SessionOrder, WaitOrder, NEW c \in Clients,
           ExecCommand(c) \/ ExecuteDirect(c)
    PROVE  \E m \in Message, tx \in Nat, p \in BOOLEAN :
             /\ Run(c, m, tx, p)
             /\ \A w \in waits : w.cl = c => w.id < m.id
             /\ UNCHANGED waits
<1>1. CASE ExecCommand(c)
  <2> DEFINE m == txQueue[c][execPos]
             p == m.cmd.name \in WriteableCommands
  <2>1. /\ Run(c, m, execId, p) /\ UNCHANGED waits
        /\ m \in Message /\ execId \in Nat /\ p \in BOOLEAN
        /\ execPos \in 1 .. Len(txQueue[c])
    BY <1>1 DEF ExecCommand, TypeOK
  <2>2. \A w \in waits : w.cl = c => w.id < m.id
    BY <2>1 DEF WaitOrder, Below
  <2> HIDE DEF m, p
  <2> QED
    BY <2>1, <2>2
<1>2. CASE ExecuteDirect(c)
  <2> DEFINE m == Head(inbox[c])
  <2>0. UNCHANGED waits /\ Take(c)
    BY <1>2 DEF ExecuteDirect
  <2>1. PICK p \in BOOLEAN : Run(c, m, 0, p)
    BY <1>2, DirectRuns
  <2>2. m \in Message /\ \A n \in Nat : Below(n, inbox[c]) => n < m.id
    BY <2>0, TakeType, TakeOrder
  <2>3. \A w \in waits : w.cl = c => w.id < m.id
    <3>1. \A w \in waits : w.id \in Nat
      BY DEF TypeOK, WaitState
    <3> QED
      BY <2>2, <3>1 DEF WaitOrder
  <2> HIDE DEF m
  <2> QED
    BY <2>0, <2>1, <2>2, <2>3
<1> QED
  BY <1>1, <1>2

\* PropagateCommand appends one entry, of the client it records it for.
LEMMA PropagateLog ==
    ASSUME TypeOK, NEW c \in Clients, NEW m \in Message, PropagateCommand(c, m)
    PROVE  /\ Len(log') = Len(log) + 1 /\ Len(log) \in Nat
           /\ log'[Len(log) + 1].cl = c /\ log'[Len(log) + 1].id = m.id
           /\ \A i \in 1 .. Len(log) : log'[i] = log[i]
           /\ lastWrite'[c] = Len(log) + 1
           /\ \A d \in Clients \ {c} : lastWrite'[d] = lastWrite[d]
<1> DEFINE e == [cl |-> c, id |-> m.id]
<1>1. e.cl = c /\ e.id = m.id
  OBVIOUS
<1>2. log' = Append(log, e) /\ log \in Seq(LogEntry)
  BY DEF TypeOK, PropagateCommand
<1> HIDE DEF e
<1>3. /\ Len(log') = Len(log) + 1 /\ Len(log) \in Nat
      /\ log'[Len(log) + 1] = e
      /\ \A i \in 1 .. Len(log) : log'[i] = log[i]
  BY <1>2
<1> QED
  BY <1>1, <1>3 DEF TypeOK, PropagateCommand

\* Running a command records the offset for its own client only.
LEMMA RunLastWrite ==
    ASSUME TypeOK, LastWriteIsOwn, NEW c \in Clients, NEW m \in Message,
           NEW tx \in Nat, NEW p \in BOOLEAN, Run(c, m, tx, p)
    PROVE  LastWriteIsOwn'
<1>1. CASE p
  <2>1. PropagateCommand(c, m)
    BY <1>1, Zenon DEF Run
  <2>2. /\ Len(log') = Len(log) + 1 /\ Len(log) \in Nat
        /\ log'[Len(log) + 1].cl = c
        /\ \A i \in 1 .. Len(log) : log'[i] = log[i]
        /\ lastWrite'[c] = Len(log) + 1
        /\ \A d \in Clients \ {c} : lastWrite'[d] = lastWrite[d]
    BY <2>1, PropagateLog
  <2>3. ASSUME NEW d \in Clients
        PROVE  /\ lastWrite'[d] \in 0 .. Len(log')
               /\ lastWrite'[d] > 0 => log'[lastWrite'[d]].cl = d
               /\ \A i \in 1 .. Len(log') : log'[i].cl = d => i <= lastWrite'[d]
    <3>1. CASE d = c
      BY <2>2, <3>1
    <3>2. CASE d # c
      <4>1. /\ lastWrite[d] \in 0 .. Len(log)
            /\ lastWrite[d] > 0 => log[lastWrite[d]].cl = d
            /\ \A i \in 1 .. Len(log) : log[i].cl = d => i <= lastWrite[d]
        BY <2>3 DEF LastWriteIsOwn
      <4>2. lastWrite'[d] = lastWrite[d]
        BY <2>2, <2>3, <3>2
      <4> QED
        BY <2>2, <3>2, <4>1, <4>2
    <3> QED
      BY <3>1, <3>2
  <2> QED
    BY <2>3 DEF LastWriteIsOwn
<1>2. CASE ~p
  BY <1>2 DEF Run, LastWriteIsOwn
<1> QED
  BY <1>1, <1>2

\* A write that runs while a WAIT of its client is running is newer than it.
LEMMA RunWaits ==
    ASSUME TypeOK, WaitCoversEarlierWrites, NEW c \in Clients, NEW m \in Message,
           NEW tx \in Nat, NEW p \in BOOLEAN, Run(c, m, tx, p), UNCHANGED waits,
           \A w \in waits : w.cl = c => w.id < m.id
    PROVE  WaitCoversEarlierWrites'
<1>1. CASE p
  <2>1. PropagateCommand(c, m)
    BY <1>1, Zenon DEF Run
  <2>2. /\ Len(log') = Len(log) + 1 /\ Len(log) \in Nat
        /\ log'[Len(log) + 1].cl = c /\ log'[Len(log) + 1].id = m.id
        /\ \A i \in 1 .. Len(log) : log'[i] = log[i]
    BY <2>1, PropagateLog
  <2>3. \A w \in waits : w.id \in Nat /\ m.id \in Nat
    BY DEF TypeOK, WaitState, Message
  <2> QED
    BY <2>2, <2>3 DEF WaitCoversEarlierWrites
<1>2. CASE ~p
  BY <1>2 DEF Run, WaitCoversEarlierWrites
<1> QED
  BY <1>1, <1>2

\* Every step keeps the two properties of lastWriteOffset.
LEMMA OffsetStep ==
    TypeOK /\ SessionOrder /\ WaitOrder /\ LastWriteIsOwn /\ WaitCoversEarlierWrites
      /\ [Next]_vars => LastWriteIsOwn' /\ WaitCoversEarlierWrites'
<1> SUFFICES ASSUME TypeOK, SessionOrder, WaitOrder, LastWriteIsOwn,
                    WaitCoversEarlierWrites, [Next]_vars
             PROVE  LastWriteIsOwn' /\ WaitCoversEarlierWrites'
  OBVIOUS
<1>1. ASSUME NEW c \in Clients, ExecCommand(c) \/ ExecuteDirect(c)
      PROVE  LastWriteIsOwn' /\ WaitCoversEarlierWrites'
  BY <1>1, RunSteps, RunLastWrite, RunWaits
<1>2. ASSUME \A c \in Clients : ~ExecCommand(c) /\ ~ExecuteDirect(c)
      PROVE  LastWriteIsOwn' /\ WaitCoversEarlierWrites'
  <2>1. UNCHANGED <<log, lastWrite>>
    BY <1>2, QuietSteps DEF dataVars
  <2>2. LastWriteIsOwn'
    BY <2>1 DEF LastWriteIsOwn
  <2>3. ASSUME NEW w \in waits, WaitRead(w) \/ WaitWrite(w) PROVE WaitCoversEarlierWrites'
    <3>1. PICK v \in WaitState :
            /\ waits' = (waits \ {w}) \cup {v}
            /\ v.cl = w.cl /\ v.id = w.id
            /\ v.off = lastWrite[w.cl] \/ (w.read /\ v.off = w.off)
      BY <2>3, WaitMoves
    <3>2. w.cl \in Clients
      BY DEF TypeOK, WaitState
    <3>3. \A i \in 1 .. Len(log) : log[i].cl = v.cl /\ log[i].id < v.id => i <= v.off
      BY <3>1, <3>2 DEF LastWriteIsOwn, WaitCoversEarlierWrites
    <3> QED
      BY <2>1, <3>1, <3>3 DEF WaitCoversEarlierWrites
  <2>4. ASSUME NEW c \in Clients, StartWait(c) PROVE WaitCoversEarlierWrites'
    <3>1. PICK w \in WaitState :
            waits' = waits \cup {w} /\ w.cl = c /\ (w.read => w.off = lastWrite[c])
      BY <2>4, StartWaitNew
    <3>2. w.read => \A i \in 1 .. Len(log) : log[i].cl = w.cl => i <= w.off
      BY <3>1 DEF LastWriteIsOwn
    <3> QED
      BY <2>1, <3>1, <3>2 DEF WaitCoversEarlierWrites
  <2>5. ASSUME waits' \subseteq waits PROVE WaitCoversEarlierWrites'
    BY <2>1, <2>5 DEF WaitCoversEarlierWrites
  <2>6. ASSUME NEW c \in Clients,
               \/ Request(c) \/ Disconnect(c) \/ StopReading(c) \/ Unknown(c)
               \/ Enqueue(c) \/ RefuseTx(c) \/ Multi(c) \/ Discard(c)
               \/ ExecBegin(c) \/ ExecEnd(c)
        PROVE  waits' \subseteq waits
    BY <2>6 DEF Request, Disconnect, StopReading, Unknown, Enqueue, RefuseTx, Multi,
       Discard, ExecBegin, ExecEnd
  <2>7. ASSUME NEW w \in waits, WaitSend(w) PROVE waits' \subseteq waits
    BY <2>7 DEF WaitSend
  <2>8. ASSUME Tick \/ (\E r \in Replicas : HandleAck(r)) \/ UNCHANGED vars
        PROVE  waits' \subseteq waits
    BY <2>8 DEF Tick, HandleAck, vars
  <2> QED
    BY <1>2, <2>2, <2>3, <2>4, <2>5, <2>6, <2>7, <2>8 DEF Next, Handle
<1> QED
  BY <1>1, <1>2

\* For every number of clients and replicas: PropagateCommand moves a client's
\* lastWriteOffset for its own writes only, and a WAIT, although its goroutine
\* reads that offset late, waits for every write its client sent before it.
THEOREM WaitCorrect == Spec => [](LastWriteIsOwn /\ WaitCoversEarlierWrites)
<1>1. Init => LastWriteIsOwn /\ WaitCoversEarlierWrites
  BY DEF Init, LastWriteIsOwn, WaitCoversEarlierWrites
<1> QED
  BY <1>1, OffsetStep, SessionCorrect, TypeCorrect, PTL DEF Spec

(***************************************************************************)
(* Requests that the loop has taken.                                       *)
(***************************************************************************)
\* Request n of client c is older than all that c has waiting or will send.
Taken(n, c) == n <= nreq[c] /\ Below(n, inbox[c])

\* Every kind of message is taken off the inbox by its handler.
LEMMA HandleTakes ==
    ASSUME NEW c \in Clients, Handle(c)
    PROVE  Take(c) /\ UNCHANGED nreq
BY DEF Handle, Unknown, Enqueue, RefuseTx, Multi, Discard, ExecBegin, ExecuteDirect,
   StartWait

\* Steps other than handlers, requests and lost input leave the inboxes alone.
LEMMA InboxKept ==
    ASSUME [Next]_vars,
           \A c \in Clients : ~Handle(c) /\ ~Request(c) /\ ~StopReading(c)
    PROVE  UNCHANGED <<inbox, nreq>>
<1>1. ASSUME NEW c \in Clients, Disconnect(c) \/ ExecCommand(c) \/ ExecEnd(c)
      PROVE  UNCHANGED <<inbox, nreq>>
  BY <1>1 DEF Disconnect, ExecCommand, ExecEnd
<1>2. ASSUME NEW w \in waits, WaitRead(w) \/ WaitWrite(w) \/ WaitSend(w)
      PROVE  UNCHANGED <<inbox, nreq>>
  BY <1>2 DEF WaitRead, WaitWrite, WaitSend
<1>3. ASSUME Tick \/ (\E r \in Replicas : HandleAck(r)) \/ UNCHANGED vars
      PROVE  UNCHANGED <<inbox, nreq>>
  BY <1>3 DEF Tick, HandleAck, vars
<1> QED
  BY <1>1, <1>2, <1>3 DEF Next

\* What was taken stays taken.
LEMMA TakenStable ==
    ASSUME TypeOK, SessionOrder, [Next]_vars, NEW c \in Clients, NEW n \in Nat,
           Taken(n, c)
    PROVE  Taken(n, c)'
<1>0. inbox[c] \in Seq(Message) /\ nreq[c] \in Nat
  BY DEF TypeOK
<1>1. ASSUME NEW d \in Clients, Handle(d) PROVE Taken(n, c)'
  <2>1. Take(d) /\ UNCHANGED nreq
    BY <1>1, HandleTakes
  <2>2. Below(n, inbox'[c])
    BY <2>1, TakeOrder DEF Taken
  <2> QED
    BY <2>1, <2>2 DEF Taken, Below
<1>2. ASSUME NEW d \in Clients, Request(d) PROVE Taken(n, c)'
  <2>1. PICK cmd \in Commands[d] :
          inbox' = [inbox EXCEPT ![d] = Append(@, [id |-> nreq[d] + 1, cmd |-> cmd])]
    BY <1>2 DEF Request
  <2> DEFINE m == [id |-> nreq[d] + 1, cmd |-> cmd]
  <2>2. m \in Message /\ m.id = nreq[d] + 1
    <3>1. Commands[d] \subseteq Command
      BY ServerAssumption
    <3>2. nreq[d] \in Nat
      BY DEF TypeOK
    <3> QED
      BY <3>1, <3>2 DEF Message
  <2>3. inbox'[c] = IF c = d THEN Append(inbox[c], m) ELSE inbox[c]
    BY <2>1 DEF TypeOK
  <2>4. nreq'[c] = IF c = d THEN nreq[c] + 1 ELSE nreq[c]
    BY <1>2 DEF Request, TypeOK
  <2> HIDE DEF m
  <2>5. Below(n, inbox'[c])
    BY <1>0, <2>2, <2>3, AppendOrder DEF Taken
  <2> QED
    BY <1>0, <2>4, <2>5 DEF Taken, Below
<1>3. ASSUME NEW d \in Clients, StopReading(d) PROVE Taken(n, c)'
  <2>1. PICK l \in 0 .. Len(inbox[d]) - 1 :
          inbox' = [inbox EXCEPT ![d] = SubSeq(@, 1, l)]
    BY <1>3 DEF StopReading
  <2>2. l \in 0 .. Len(inbox[d])
    BY DEF TypeOK
  <2>3. inbox'[c] = IF c = d THEN SubSeq(inbox[c], 1, l) ELSE inbox[c]
    BY <2>1 DEF TypeOK
  <2>4. Below(n, inbox'[c]) /\ UNCHANGED nreq
    BY <1>0, <1>3, <2>2, <2>3, PrefixOrder DEF Taken, StopReading
  <2> QED
    BY <2>4 DEF Taken, Below
<1>4. ASSUME \A d \in Clients : ~Handle(d) /\ ~Request(d) /\ ~StopReading(d)
      PROVE  Taken(n, c)'
  BY <1>4, InboxKept DEF Taken, Below
<1> QED
  BY <1>1, <1>2, <1>3, <1>4

(***************************************************************************)
(* What has run, and what the running EXEC still has to run.               *)
(***************************************************************************)
\* Command j of txQueue[c] has not run yet.
ToRun(c, j) == execCl = c => j >= execPos

\* Request n of client c is older than all that c still has to run.
RanBefore(n, c) ==
    /\ Taken(n, c)
    /\ \A j \in 1 .. Len(txQueue[c]) : ToRun(c, j) => n < txQueue[c][j].id

RanOrder == \A i \in 1 .. Len(ran) :
              ran[i].cl \in clients => RanBefore(ran[i].id, ran[i].cl)

\* What has run stays older than what is still to run, until the client is
\* closed.
LEMMA RanBeforeStable ==
    ASSUME TypeOK, SessionOrder, [Next]_vars, NEW c \in Clients, NEW n \in Nat,
           RanBefore(n, c), c \in clients'
    PROVE  RanBefore(n, c)'
<1>0. /\ inbox[c] \in Seq(Message) /\ txQueue[c] \in Seq(Message)
      /\ execPos \in Nat /\ NoClient \notin Clients
  BY ServerAssumption DEF TypeOK
<1>1. Taken(n, c)'
  BY TakenStable DEF RanBefore
<1>2. ASSUME UNCHANGED <<txQueue, execCl>>, execPos' >= execPos, execPos' \in Nat
      PROVE  RanBefore(n, c)'
  BY <1>0, <1>1, <1>2 DEF RanBefore, ToRun
<1>3. ASSUME UNCHANGED txQueue, execCl = NoClient PROVE RanBefore(n, c)'
  BY <1>0, <1>1, <1>3 DEF RanBefore, ToRun
<1>4. ASSUME txQueue'[c] = <<>> PROVE RanBefore(n, c)'
  BY <1>1, <1>4 DEF RanBefore
<1>5. ASSUME txQueue'[c] = txQueue[c], execCl # c PROVE RanBefore(n, c)'
  BY <1>0, <1>1, <1>5 DEF RanBefore, ToRun
<1>6. ASSUME NEW d \in Clients, Enqueue(d) PROVE RanBefore(n, c)'
  <2>1. Take(d) /\ execCl = NoClient /\ txQueue' = [txQueue EXCEPT ![d] = Append(@, Head(inbox[d]))]
    BY <1>6 DEF Enqueue, Take
  <2>2. CASE c # d
    BY <1>0, <1>5, <2>1, <2>2 DEF TypeOK
  <2>3. CASE c = d
    <3> DEFINE m == Head(inbox[c])
    <3>1. m \in Message /\ n < m.id
      BY <2>1, <2>3, TakeType, TakeOrder DEF RanBefore, Taken
    <3>2. txQueue'[c] = Append(txQueue[c], m)
      BY <2>1, <2>3 DEF TypeOK
    <3>3. Below(n, txQueue[c])
      BY <1>0, <2>1 DEF RanBefore, ToRun, Below
    <3> HIDE DEF m
    <3>4. Below(n, txQueue'[c])
      BY <1>0, <3>1, <3>2, <3>3, AppendOrder
    <3> QED
      BY <1>1, <3>4 DEF RanBefore, Below
  <2> QED
    BY <2>2, <2>3
<1>7. ASSUME NEW d \in Clients, Multi(d) \/ Discard(d) PROVE RanBefore(n, c)'
  <2>1. execCl = NoClient /\ txQueue' = [txQueue EXCEPT ![d] = <<>>]
    BY <1>7 DEF Multi, Discard, ClearTransaction, Take
  <2> QED
    BY <1>0, <1>4, <1>5, <2>1 DEF TypeOK
<1>8. ASSUME NEW d \in Clients, ExecEnd(d) PROVE RanBefore(n, c)'
  <2>1. CASE d = c
    <3>1. c \in clients
      BY ClientsShrink
    <3>2. txQueue' = [txQueue EXCEPT ![c] = <<>>]
      BY <1>8, <2>1, <3>1 DEF ExecEnd, ReplyFails, ClearTransaction
    <3> QED
      BY <1>4, <3>2 DEF TypeOK
  <2>2. CASE d # c
    <3>1. execCl = d /\ txQueue'[c] = txQueue[c]
      BY <1>8, <2>2 DEF ExecEnd, ClearTransaction, TypeOK
    <3> QED
      BY <1>5, <2>2, <3>1
  <2> QED
    BY <2>1, <2>2
<1>9. ASSUME NEW d \in Clients, ExecBegin(d) PROVE RanBefore(n, c)'
  BY <1>3, <1>9 DEF ExecBegin, Take
<1>10. ASSUME NEW d \in Clients, ExecCommand(d) PROVE RanBefore(n, c)'
  BY <1>0, <1>2, <1>10 DEF ExecCommand
<1>11. ASSUME UNCHANGED <<txQueue, execCl, execPos>> PROVE RanBefore(n, c)'
  BY <1>0, <1>2, <1>11
<1>12. ASSUME NEW d \in Clients,
              \/ Request(d) \/ Disconnect(d) \/ StopReading(d) \/ Unknown(d)
              \/ RefuseTx(d) \/ ExecuteDirect(d) \/ StartWait(d)
       PROVE  UNCHANGED <<txQueue, execCl, execPos>>
  BY <1>12 DEF Request, Disconnect, StopReading, Unknown, RefuseTx, ExecuteDirect,
     StartWait, sessionVars, execVars
<1>13. ASSUME NEW w \in waits, WaitRead(w) \/ WaitWrite(w) \/ WaitSend(w)
       PROVE  UNCHANGED <<txQueue, execCl, execPos>>
  BY <1>13 DEF WaitRead, WaitWrite, WaitSend, sessionVars, execVars
<1>14. ASSUME Tick \/ (\E r \in Replicas : HandleAck(r)) \/ UNCHANGED vars
       PROVE  UNCHANGED <<txQueue, execCl, execPos>>
  BY <1>14 DEF Tick, HandleAck, sessionVars, execVars, vars
<1> QED
  BY <1>6, <1>7, <1>8, <1>9, <1>10, <1>11, <1>12, <1>13, <1>14 DEF Next, Handle

\* The message that runs: newer than what its client ran before, and older
\* than what it still has to run.
LEMMA RunsNext ==
    ASSUME TypeOK, SessionOrder, RanOrder, NEW c \in Clients,
           ExecCommand(c) \/ ExecuteDirect(c)
    PROVE  \E m \in Message, tx \in Nat :
             /\ ran' = Append(ran, [cl |-> c, id |-> m.id, tx |-> tx])
             /\ tx # 0 => execCl = c /\ tx = execId
             /\ c \in clients =>
                  \A i \in 1 .. Len(ran) : ran[i].cl = c => ran[i].id < m.id
             /\ RanBefore(m.id, c)'
<1>0. /\ inbox[c] \in Seq(Message) /\ txQueue[c] \in Seq(Message) /\ QueueOrder(c)
      /\ execPos \in Nat \ {0} /\ NoClient \notin Clients /\ execId \in Nat
      /\ \A i \in 1 .. Len(ran) : ran[i] \in RunEntry
  BY ServerAssumption DEF TypeOK, SessionOrder
<1>1. CASE ExecCommand(c)
  <2>1. /\ execCl = c /\ execPos \in 1 .. Len(txQueue[c])
        /\ ran' = Append(ran, [cl |-> c, id |-> txQueue[c][execPos].id, tx |-> execId])
        /\ execPos' = execPos + 1 /\ UNCHANGED <<execCl, txQueue, inbox, nreq>>
    BY <1>0, <1>1 DEF ExecCommand, Run
  <2>2. PICK m \in Message : m = txQueue[c][execPos]
    BY <1>0, <2>1
  <2>3. c \in clients => \A i \in 1 .. Len(ran) : ran[i].cl = c => ran[i].id < m.id
    BY <1>0, <2>1, <2>2 DEF RanOrder, RanBefore, ToRun
  <2>4. Taken(m.id, c)'
    BY <1>0, <2>1, <2>2 DEF Taken, QueueOrder, UpTo, Below
  <2>5. \A j \in 1 .. Len(txQueue[c]) : j >= execPos + 1 => m.id < txQueue[c][j].id
    BY <1>0, <2>1, <2>2 DEF QueueOrder, Ordered
  <2>6. RanBefore(m.id, c)'
    BY <2>1, <2>4, <2>5 DEF RanBefore, ToRun
  <2> QED
    BY <1>0, <2>1, <2>2, <2>3, <2>6
<1>2. CASE ExecuteDirect(c)
  <2>1. /\ Take(c) /\ ~inTx[c]
        /\ ran' = Append(ran, [cl |-> c, id |-> Head(inbox[c]).id, tx |-> 0])
        /\ UNCHANGED <<txQueue, nreq>>
    BY <1>2 DEF ExecuteDirect, Run, Direct, DataCommands, TransactionCommands, sessionVars
  <2>2. PICK m \in Message : m = Head(inbox[c])
    BY <2>1, TakeType
  <2>3. /\ Below(m.id, inbox'[c]) /\ m.id <= nreq[c]
        /\ \A n \in Nat : Below(n, inbox[c]) => n < m.id
    BY <2>1, <2>2, TakeOrder
  <2>4. ASSUME c \in clients, NEW i \in 1 .. Len(ran), ran[i].cl = c PROVE ran[i].id < m.id
    <3>1. ran[i].id \in Nat
      BY <1>0 DEF RunEntry
    <3> QED
      BY <2>3, <2>4, <3>1 DEF RanOrder, RanBefore, Taken
  <2>5. txQueue'[c] = <<>>
    BY <1>0, <2>1 DEF QueueOrder
  <2>6. RanBefore(m.id, c)'
    BY <2>1, <2>3, <2>5 DEF RanBefore, Taken, Below
  <2> QED
    BY <2>1, <2>2, <2>4, <2>6
<1> QED
  BY <1>1, <1>2

\* The command that was appended to the history.
LEMMA AppendRan ==
    ASSUME TypeOK, NEW c \in Clients, NEW n \in Nat, NEW tx \in Nat,
           ran' = Append(ran, [cl |-> c, id |-> n, tx |-> tx])
    PROVE  /\ Len(ran') = Len(ran) + 1 /\ Len(ran) \in Nat
           /\ \A i \in 1 .. Len(ran) : ran'[i] = ran[i]
           /\ ran'[Len(ran) + 1].cl = c /\ ran'[Len(ran) + 1].id = n
           /\ ran'[Len(ran) + 1].tx = tx
<1> DEFINE e == [cl |-> c, id |-> n, tx |-> tx]
<1>1. e.cl = c /\ e.id = n /\ e.tx = tx
  OBVIOUS
<1>2. ran' = Append(ran, e) /\ ran \in Seq(RunEntry)
  BY DEF TypeOK
<1> HIDE DEF e
<1> QED
  BY <1>1, <1>2

\* RanOrder after a step, command by command.
LEMMA RanOrderNext ==
    ASSUME TypeOK',
           \A i \in 1 .. Len(ran') : \A c \in Clients, n \in Nat :
             ran'[i].cl = c /\ ran'[i].id = n /\ c \in clients' => RanBefore(n, c)'
    PROVE  RanOrder'
<1> SUFFICES ASSUME NEW i \in 1 .. Len(ran'), ran'[i].cl \in clients'
             PROVE  RanBefore(ran[i].id, ran[i].cl)'
  BY DEF RanOrder
<1>1. ran'[i] \in RunEntry
  BY DEF TypeOK
<1>2. PICK c \in Clients, n \in Nat : ran'[i].cl = c /\ ran'[i].id = n
  BY <1>1 DEF RunEntry
<1>3. RanBefore(n, c)'
  BY <1>2
<1> QED
  BY <1>2, <1>3 DEF RanBefore, Taken, ToRun, Below

\* Every step keeps the order of execution.
LEMMA RanStep ==
    TypeOK /\ SessionOrder /\ RanOrder /\ RunsInOrder /\ [Next]_vars
      => RanOrder' /\ RunsInOrder'
<1> SUFFICES ASSUME TypeOK, SessionOrder, RanOrder, RunsInOrder, [Next]_vars
             PROVE  RanOrder' /\ RunsInOrder'
  OBVIOUS
<1>0. \A i \in 1 .. Len(ran) : ran[i].cl \in Clients /\ ran[i].id \in Nat
  <2>1. \A i \in 1 .. Len(ran) : ran[i] \in RunEntry
    BY DEF TypeOK
  <2> QED
    BY <2>1 DEF RunEntry
<1>1. clients' \subseteq clients
  BY ClientsShrink
<1>2. ASSUME NEW i \in 1 .. Len(ran), NEW c \in Clients, NEW n \in Nat,
             ran[i].cl = c, ran[i].id = n, c \in clients'
      PROVE  RanBefore(n, c)'
  <2>1. RanBefore(n, c)
    BY <1>1, <1>2 DEF RanOrder
  <2> QED
    BY <1>2, <2>1, RanBeforeStable
<1>3. TypeOK'
  BY TypeStep
<1>4. ASSUME NEW c \in Clients, ExecCommand(c) \/ ExecuteDirect(c)
      PROVE  RanOrder' /\ RunsInOrder'
  <2>1. PICK m \in Message, tx \in Nat :
             /\ ran' = Append(ran, [cl |-> c, id |-> m.id, tx |-> tx])
             /\ c \in clients =>
                  \A i \in 1 .. Len(ran) : ran[i].cl = c => ran[i].id < m.id
             /\ RanBefore(m.id, c)'
    BY <1>4, RunsNext
  <2>2. m.id \in Nat
    BY DEF Message
  <2>3. /\ Len(ran') = Len(ran) + 1 /\ Len(ran) \in Nat
        /\ \A i \in 1 .. Len(ran) : ran'[i] = ran[i]
        /\ ran'[Len(ran) + 1].cl = c /\ ran'[Len(ran) + 1].id = m.id
    BY <2>1, <2>2, AppendRan
  <2>4. RunsInOrder'
    <3> SUFFICES ASSUME NEW i \in 1 .. Len(ran'), NEW j \in 1 .. Len(ran'),
                        i < j, ran'[i].cl = ran'[j].cl, ran'[i].cl \in clients'
                 PROVE  ran'[i].id < ran'[j].id
      BY DEF RunsInOrder
    <3>1. i \in 1 .. Len(ran) /\ ran'[i] = ran[i] /\ ran[i].cl \in clients
      BY <1>1, <2>3
    <3>2. CASE j \in 1 .. Len(ran)
      <4>1. ran'[j] = ran[j]
        BY <2>3, <3>2
      <4> QED
        BY <3>1, <3>2, <4>1 DEF RunsInOrder
    <3>3. CASE j = Len(ran) + 1
      <4>1. ran[i].cl = c /\ ran'[j].id = m.id
        BY <2>3, <3>1, <3>3
      <4> QED
        BY <2>1, <3>1, <4>1
    <3> QED
      BY <2>3, <3>2, <3>3
  <2>5. ASSUME NEW i \in 1 .. Len(ran'), NEW d \in Clients, NEW n \in Nat,
               ran'[i].cl = d, ran'[i].id = n, d \in clients'
        PROVE  RanBefore(n, d)'
    <3>1. CASE i \in 1 .. Len(ran)
      BY <1>2, <2>3, <2>5, <3>1
    <3>2. CASE i = Len(ran) + 1
      <4>1. d = c /\ n = m.id
        BY <2>3, <2>5, <3>2
      <4> QED
        BY <2>1, <4>1
    <3> QED
      BY <2>3, <3>1, <3>2
  <2> QED
    BY <1>3, <2>4, <2>5, RanOrderNext
<1>5. ASSUME \A c \in Clients : ~ExecCommand(c) /\ ~ExecuteDirect(c)
      PROVE  RanOrder' /\ RunsInOrder'
  <2>1. ran' = ran
    BY <1>5, QuietSteps DEF dataVars
  <2>2. RunsInOrder'
    BY <1>1, <2>1 DEF RunsInOrder
  <2> QED
    BY <1>2, <1>3, <2>1, <2>2, RanOrderNext
<1> QED
  BY <1>4, <1>5

\* A client's commands are executed in the order it sent them and none twice,
\* whatever it pipelines, queues, discards and executes, for every client that
\* the server has not closed.
THEOREM OrderCorrect == Spec => []RunsInOrder
<1>1. Init => RanOrder /\ RunsInOrder
  BY DEF Init, RanOrder, RunsInOrder
<1> QED
  BY <1>1, RanStep, SessionCorrect, TypeCorrect, PTL DEF Spec

(***************************************************************************)
(* Transactions.                                                           *)
(***************************************************************************)
\* The EXECs that ran a command have been taken, and so has the one running.
TxTaken == \A i \in 1 .. Len(ran) : \A c \in Clients, n \in Nat \ {0} :
             ran[i].cl = c /\ ran[i].tx = n => Taken(n, c)

ExecTaken == \A c \in Clients, n \in Nat :
               execCl = c /\ execId = n => Taken(n, c)

\* What the running EXEC has executed is the end of the history.
ExecSuffix ==
    \A i \in 1 .. Len(ran) :
      ran[i].cl = execCl /\ ran[i].tx = execId /\ execId # 0 =>
        \A j \in i .. Len(ran) : ran[j].cl = execCl /\ ran[j].tx = execId

TxOrder == TxTaken /\ ExecTaken /\ ExecSuffix

\* Only ExecBegin gives the loop to an EXEC.
LEMMA ExecCases ==
    ASSUME [Next]_vars, \A c \in Clients : ~ExecBegin(c)
    PROVE  UNCHANGED <<execCl, execId>> \/ execCl' = NoClient
<1>1. ASSUME NEW c \in Clients,
             \/ Request(c) \/ Disconnect(c) \/ StopReading(c) \/ Unknown(c)
             \/ Enqueue(c) \/ RefuseTx(c) \/ Multi(c) \/ Discard(c)
             \/ ExecuteDirect(c) \/ StartWait(c) \/ ExecCommand(c)
      PROVE  UNCHANGED <<execCl, execId>>
  BY <1>1 DEF Request, Disconnect, StopReading, Unknown, Enqueue, RefuseTx, Multi,
     Discard, ExecuteDirect, StartWait, ExecCommand, sessionVars, execVars
<1>2. ASSUME NEW w \in waits, WaitRead(w) \/ WaitWrite(w) \/ WaitSend(w)
      PROVE  UNCHANGED <<execCl, execId>>
  BY <1>2 DEF WaitRead, WaitWrite, WaitSend, sessionVars, execVars
<1>3. ASSUME Tick \/ (\E r \in Replicas : HandleAck(r)) \/ UNCHANGED vars
      PROVE  UNCHANGED <<execCl, execId>>
  BY <1>3 DEF Tick, HandleAck, sessionVars, execVars, vars
<1>4. ASSUME NEW c \in Clients, ExecEnd(c) PROVE execCl' = NoClient
  BY <1>4 DEF ExecEnd
<1> QED
  BY <1>1, <1>2, <1>3, <1>4 DEF Next, Handle

\* Every step keeps transactions together.
LEMMA TxStep ==
    TypeOK /\ SessionOrder /\ RanOrder /\ TxOrder /\ TransactionsAreContiguous
      /\ [Next]_vars => TxOrder' /\ TransactionsAreContiguous'
<1> SUFFICES ASSUME TypeOK, SessionOrder, RanOrder, TxOrder,
                    TransactionsAreContiguous, [Next]_vars
             PROVE  TxOrder' /\ TransactionsAreContiguous'
  OBVIOUS
<1>0. NoClient \notin Clients /\ execId \in Nat /\ execCl \in Clients \cup {NoClient}
      /\ \A i \in 1 .. Len(ran) : ran[i].cl \in Clients /\ ran[i].tx \in Nat
  <2>1. \A i \in 1 .. Len(ran) : ran[i] \in RunEntry
    BY DEF TypeOK
  <2> QED
    BY <2>1, ServerAssumption DEF TypeOK, RunEntry
<1>1. \A c \in Clients, n \in Nat : Taken(n, c) => Taken(n, c)'
  BY TakenStable
<1>2. ASSUME NEW c \in Clients, ExecCommand(c) \/ ExecuteDirect(c)
      PROVE  TxOrder' /\ TransactionsAreContiguous'
  <2>1. PICK m \in Message, tx \in Nat :
             /\ ran' = Append(ran, [cl |-> c, id |-> m.id, tx |-> tx])
             /\ tx # 0 => execCl = c /\ tx = execId
    BY <1>2, RunsNext
  <2>2. /\ Len(ran') = Len(ran) + 1 /\ Len(ran) \in Nat
        /\ \A i \in 1 .. Len(ran) : ran'[i] = ran[i]
        /\ ran'[Len(ran) + 1].cl = c /\ ran'[Len(ran) + 1].tx = tx
    <3>1. m.id \in Nat
      BY DEF Message
    <3> QED
      BY <2>1, <3>1, AppendRan
  <2>3. UNCHANGED <<execCl, execId>>
    BY <1>2 DEF ExecCommand, ExecuteDirect, sessionVars, execVars
  <2>4. execCl = c => tx = execId
    <3>1. CASE ExecCommand(c)
      <4>1. ran' = Append(ran, [cl |-> c, id |-> txQueue[c][execPos].id, tx |-> execId])
            /\ txQueue[c][execPos] \in Message
        BY <3>1 DEF ExecCommand, Run, TypeOK
      <4>2. txQueue[c][execPos].id \in Nat
        BY <4>1 DEF Message
      <4>3. ran'[Len(ran) + 1].tx = execId
        BY <1>0, <4>1, <4>2, AppendRan
      <4> QED
        BY <2>2, <4>3
    <3>2. CASE ExecuteDirect(c)
      BY <1>0, <3>2 DEF ExecuteDirect, Take
    <3> QED
      BY <1>2, <3>1, <3>2
  <2>5. TxTaken'
    <3> SUFFICES ASSUME NEW i \in 1 .. Len(ran'), NEW d \in Clients,
                        NEW n \in Nat \ {0}, ran'[i].cl = d, ran'[i].tx = n
                 PROVE  Taken(n, d)'
      BY DEF TxTaken
    <3>1. CASE i \in 1 .. Len(ran)
      BY <1>1, <2>2, <3>1 DEF TxOrder, TxTaken
    <3>2. CASE i = Len(ran) + 1
      BY <1>1, <2>1, <2>2, <3>2 DEF TxOrder, ExecTaken
    <3> QED
      BY <2>2, <3>1, <3>2
  <2>6. ExecTaken'
    BY <1>1, <2>3 DEF TxOrder, ExecTaken
  <2>7. ExecSuffix'
    <3> SUFFICES ASSUME NEW i \in 1 .. Len(ran'),
                        ran'[i].cl = execCl, ran'[i].tx = execId, execId # 0,
                        NEW j \in i .. Len(ran')
                 PROVE  ran'[j].cl = execCl /\ ran'[j].tx = execId
      BY <2>3 DEF ExecSuffix
    <3>1. execCl = c
      <4>1. CASE ExecuteDirect(c)
        <5>1. execCl = NoClient
          BY <4>1 DEF ExecuteDirect, Take
        <5>2. ran'[i].cl \in Clients
          BY <1>0, <2>2
        <5> QED
          BY <1>0, <5>1, <5>2
      <4>2. CASE ExecCommand(c)
        BY <4>2 DEF ExecCommand
      <4> QED
        BY <1>2, <4>1, <4>2
    <3>2. CASE j = Len(ran) + 1
      BY <2>2, <2>4, <3>1, <3>2
    <3>3. CASE j \in 1 .. Len(ran)
      <4>1. i \in 1 .. Len(ran) /\ j \in i .. Len(ran)
        BY <2>2, <3>3
      <4>2. ran[i].cl = execCl /\ ran[i].tx = execId
        BY <2>2, <4>1
      <4>3. ran[j].cl = execCl /\ ran[j].tx = execId
        BY <4>1, <4>2 DEF TxOrder, ExecSuffix
      <4> QED
        BY <2>2, <3>3, <4>3
    <3> QED
      BY <2>2, <3>2, <3>3
  <2>8. TransactionsAreContiguous'
    <3> SUFFICES ASSUME NEW i \in 1 .. Len(ran'), NEW j \in 1 .. Len(ran'),
                        NEW k \in 1 .. Len(ran'), i < j, j < k, ran'[i].tx # 0,
                        ran'[i].tx = ran'[k].tx, ran'[i].cl = ran'[k].cl
                 PROVE  ran'[j].cl = ran'[i].cl /\ ran'[j].tx = ran'[i].tx
      BY DEF TransactionsAreContiguous
    <3>1. i \in 1 .. Len(ran) /\ j \in i .. Len(ran)
          /\ ran'[i] = ran[i] /\ ran'[j] = ran[j]
      BY <2>2
    <3>2. CASE k \in 1 .. Len(ran)
      BY <2>2, <3>1, <3>2 DEF TransactionsAreContiguous
    <3>3. CASE k = Len(ran) + 1
      <4>1. ran[i].cl = execCl /\ ran[i].tx = execId /\ execId # 0
        BY <2>1, <2>2, <3>1, <3>3
      <4>2. ran[j].cl = execCl /\ ran[j].tx = execId
        BY <3>1, <4>1 DEF TxOrder, ExecSuffix
      <4> QED
        BY <3>1, <4>1, <4>2
    <3> QED
      BY <2>2, <3>2, <3>3
  <2> QED
    BY <2>5, <2>6, <2>7, <2>8 DEF TxOrder
<1>3. ASSUME \A c \in Clients : ~ExecCommand(c) /\ ~ExecuteDirect(c)
      PROVE  TxOrder' /\ TransactionsAreContiguous'
  <2>1. ran' = ran
    BY <1>3, QuietSteps DEF dataVars
  <2>2. TransactionsAreContiguous' /\ TxTaken'
    BY <1>1, <2>1 DEF TransactionsAreContiguous, TxOrder, TxTaken
  <2>3. ASSUME NEW c \in Clients, ExecBegin(c) PROVE ExecTaken' /\ ExecSuffix'
    <3>1. /\ Take(c) /\ UNCHANGED nreq
          /\ execCl' = c /\ execId' = Head(inbox[c]).id
      BY <2>3 DEF ExecBegin
    <3>2. PICK m \in Message : m = Head(inbox[c])
      BY <3>1, TakeType
    <3>3. /\ Below(m.id, inbox'[c]) /\ m.id <= nreq[c]
          /\ \A n \in Nat : Below(n, inbox[c]) => n < m.id
      BY <3>1, <3>2, TakeOrder
    <3>4. Taken(m.id, c)'
      BY <3>1, <3>3 DEF Taken, Below
    <3>5. ExecTaken'
      BY <3>1, <3>2, <3>4 DEF ExecTaken
    <3>6. m.id \in Nat
      BY DEF Message
    <3>7. \A i \in 1 .. Len(ran) : ran[i].cl = c /\ ran[i].tx # 0 => ran[i].tx # m.id
      BY <1>0, <3>3, <3>6 DEF TxOrder, TxTaken, Taken
    <3>8. ExecSuffix'
      BY <2>1, <3>1, <3>2, <3>7 DEF ExecSuffix
    <3> QED
      BY <3>5, <3>8
  <2>4. ASSUME UNCHANGED <<execCl, execId>> PROVE ExecTaken' /\ ExecSuffix'
    BY <1>1, <2>1, <2>4 DEF TxOrder, ExecTaken, ExecSuffix
  <2>5. ASSUME execCl' = NoClient PROVE ExecTaken' /\ ExecSuffix'
    BY <1>0, <2>1, <2>5 DEF ExecTaken, ExecSuffix
  <2>6. ExecTaken' /\ ExecSuffix'
    BY <2>3, <2>4, <2>5, ExecCases
  <2> QED
    BY <2>2, <2>6 DEF TxOrder
<1> QED
  BY <1>2, <1>3

\* Transactions never interleave: between two commands of one EXEC nothing
\* else is executed, for every number of clients.
THEOREM TransactionsCorrect == Spec => []TransactionsAreContiguous
<1>1. Init => TxOrder /\ TransactionsAreContiguous /\ RanOrder /\ RunsInOrder
  BY ServerAssumption DEF Init, TxOrder, TxTaken, ExecTaken, ExecSuffix,
     TransactionsAreContiguous, RanOrder, RunsInOrder
<1> QED
  BY <1>1, TxStep, RanStep, SessionCorrect, TypeCorrect, PTL DEF Spec

(***************************************************************************)
(* A WAIT inside a transaction.                                            *)
(***************************************************************************)
\* While an EXEC is stuck in a WAIT, nothing its answer depends on moves.
LEMMA StuckStep ==
    ASSUME TypeOK, [Next]_vars, NEW c \in Clients, ExecStuck(c)
    PROVE  UNCHANGED <<execCl, execPos, txQueue, lastWrite, acked>>
<1>0. execCl = c /\ NoClient \notin Clients /\ execCl # NoClient
      /\ execPos <= Len(txQueue[c]) /\ execPos \in Nat /\ Len(txQueue[c]) \in Nat
  BY ServerAssumption DEF ExecStuck, TypeOK
<1>1. ASSUME NEW d \in Clients, Request(d) \/ Disconnect(d) \/ StopReading(d)
      PROVE  UNCHANGED <<execCl, execPos, txQueue, lastWrite, acked>>
  BY <1>1 DEF Request, Disconnect, StopReading, dataVars, sessionVars, execVars
<1>2. ASSUME NEW d \in Clients, Handle(d) PROVE FALSE
  BY <1>0, <1>2, HandleTakes DEF Take
<1>3. ASSUME NEW r \in Replicas, HandleAck(r) PROVE FALSE
  BY <1>0, <1>3 DEF HandleAck
<1>4. ASSUME NEW d \in Clients, ExecCommand(d) PROVE FALSE
  BY <1>0, <1>4 DEF ExecCommand, ExecStuck
<1>5. ASSUME NEW d \in Clients, ExecEnd(d) PROVE FALSE
  BY <1>0, <1>5 DEF ExecEnd
<1>6. ASSUME NEW w \in waits, WaitRead(w) \/ WaitWrite(w) \/ WaitSend(w)
      PROVE  UNCHANGED <<execCl, execPos, txQueue, lastWrite, acked>>
  BY <1>6 DEF WaitRead, WaitWrite, WaitSend, dataVars, sessionVars, execVars
<1>7. ASSUME Tick \/ UNCHANGED vars
      PROVE  UNCHANGED <<execCl, execPos, txQueue, lastWrite, acked>>
  BY <1>7 DEF Tick, dataVars, sessionVars, execVars, vars
<1> QED
  BY <1>1, <1>2, <1>3, <1>4, <1>5, <1>6, <1>7 DEF Next

\* The loop handles the ACKs that a WAIT inside an EXEC waits for, so no step of
\* anyone ever wakes it, for every number of clients and replicas.
THEOREM StuckForEver == Spec => QueuedWaitNeverWakes
<1>1. TypeOK /\ [Next]_vars => [\A c \in Clients : ExecStuck(c) => ExecStuck(c)']_vars
  <2> SUFFICES ASSUME TypeOK, [Next]_vars, NEW c \in Clients, ExecStuck(c)
               PROVE  ExecStuck(c)'
    OBVIOUS
  <2>1. UNCHANGED <<execCl, execPos, txQueue, lastWrite, acked>>
    BY StuckStep
  <2> QED
    BY <2>1 DEF ExecStuck, WaitOver, AckedCount
<1> QED
  BY <1>1, TypeCorrect, PTL DEF Spec, QueuedWaitNeverWakes

(***************************************************************************)
(* The replies: RepliesInOrder, NoRequestForgotten and ExecRunsItsQueue.   *)
(***************************************************************************)

(***************************************************************************)
(* The inductive invariant.                                                *)
(***************************************************************************)
\* Requests are numbered from 1; the 0 of ran[i].tx is no request.
Numbered ==
    /\ \A c \in Clients : Below(0, inbox[c])
    /\ \A w \in waits : 0 < w.id
    /\ \A c \in Clients : execCl = c => 0 < execId

\* Of one request there is one goroutine, and it is older than a running EXEC.
WaitsApart ==
    /\ \A v, w \in waits : v.cl = w.cl /\ v.id = w.id => v = w
    /\ \A w \in waits : execCl = w.cl => w.id < execId

\* Request n of client c is in nobody's hands any more.
Done(n, c) ==
    /\ 0 < n /\ Taken(n, c)
    /\ \A w \in waits : w.cl = c => w.id # n
    /\ execCl = c => n < execId

AnsweredIsDone ==
    \A c \in Clients : \A p \in 1 .. Len(out[c]) : Done(out[c][p].id, c)

Ids(q, l) == {q[i].id : i \in 1 .. l}

RanIn(n, c) ==
    {ran[i].id : i \in {i \in 1 .. Len(ran) : ran[i].cl = c /\ ran[i].tx = n}}

\* The requests of its open transaction that client c has been told are QUEUED.
Told(c) == QueuedBefore(c, Len(out[c]) + 1)

\* The open transaction of a client holds just them, if none of its replies
\* met another one in its Writer.
QueueIsTold ==
    \A c \in Clients :
      peer[c] /\ c \in clients /\ inTx[c] /\ raced[c] = {} =>
        Ids(txQueue[c], Len(txQueue[c])) = Told(c)

\* The running EXEC is in a transaction and has run its queue up to execPos.
ExecProgress ==
    \A c \in Clients :
      execCl = c => /\ inTx[c]
                    /\ execPos <= Len(txQueue[c]) + 1
                    /\ RanIn(execId, c) = Ids(txQueue[c], execPos - 1)

(***************************************************************************)
(* What a step may do to the replies.                                      *)
(***************************************************************************)
\* Request n of client c is answered with a reply of this kind.
Answers(c, n, kind) ==
    /\ peer[c] /\ c \in clients /\ UNCHANGED clients
    /\ out' = [out EXCEPT ![c] = Append(@, [id |-> n, kind |-> kind])]

\* The answer to request n of client c meets another one in the client's Writer.
Mixes(c, n, kind) == n \in raced'[c] /\ Flushed(c, n, kind)

\* A flush delivers its reply, or none, or races with another one; with the
\* connection up and no race, it delivers it.
LEMMA DeliverAnswers ==
    ASSUME TypeOK, NEW c \in Clients, NEW n, NEW kind, NEW mixed \in BOOLEAN,
           Deliver(c, n, kind, mixed), mixed => n \in raced'[c]
    PROVE  /\ Answers(c, n, kind) \/ UNCHANGED out \/ Mixes(c, n, kind)
           /\ peer[c] /\ c \in clients => Answers(c, n, kind) \/ n \in raced'[c]
<1>1. Flushed(c, n, kind)
  BY DeliverFlushes
<1>2. CASE mixed
  BY <1>1, <1>2 DEF Mixes
<1>3. CASE ~mixed
  BY <1>3 DEF Deliver, Answers
<1> QED
  BY <1>2, <1>3

\* The same of the loop's replies; the client of a failed write is closed.
LEMMA ReplyAnswers ==
    ASSUME TypeOK, NEW c \in Clients, NEW n, NEW kind, Reply(c, n, kind) \/ ReplyFails(c, n)
    PROVE  /\ Answers(c, n, kind) \/ UNCHANGED out \/ Mixes(c, n, kind)
           /\ peer[c] /\ c \in clients /\ c \in clients' =>
                Answers(c, n, kind) \/ n \in raced'[c]
<1>1. CASE Reply(c, n, kind)
  <2>1. (Sending(c) # {}) \in BOOLEAN
    OBVIOUS
  <2>2. Sending(c) # {} => n \in raced'[c]
    BY <1>1 DEF Reply, Race, TypeOK
  <2> QED
    BY <1>1, <2>1, <2>2, DeliverAnswers DEF Reply
<1>2. CASE ReplyFails(c, n)
  BY <1>2 DEF ReplyFails
<1> QED
  BY <1>1, <1>2

\* A race is never forgotten.
LEMMA RacedGrows ==
    ASSUME TypeOK, [Next]_vars, NEW c \in Clients
    PROVE  raced[c] \subseteq raced'[c]
<1>1. ASSUME NEW d \in Clients, NEW id, Race(d, id, Sending(d))
      PROVE  raced[c] \subseteq raced'[c]
  <2>1. CASE Sending(d) = {}
    BY <1>1, <2>1 DEF Race
  <2>2. CASE Sending(d) # {}
    <3>1. raced' = [raced EXCEPT ![d] = raced[d] \cup ({id} \cup {w.id : w \in Sending(d)})]
      BY <1>1, <2>2 DEF Race
    <3> QED
      BY <3>1 DEF TypeOK
  <2> QED
    BY <2>1, <2>2
<1>2. ASSUME NEW d \in Clients, NEW id, NEW kind, Reply(d, id, kind) \/ ReplyFails(d, id)
      PROVE  raced[c] \subseteq raced'[c]
  BY <1>1, <1>2 DEF Reply, ReplyFails
<1>3. ASSUME NEW d \in Clients,
             \/ Unknown(d) \/ Enqueue(d) \/ RefuseTx(d) \/ Multi(d) \/ Discard(d)
             \/ ExecuteDirect(d) \/ ExecEnd(d)
      PROVE  raced[c] \subseteq raced'[c]
  BY <1>2, <1>3 DEF Unknown, Enqueue, RefuseTx, Multi, Discard, ExecuteDirect, ExecEnd
<1>4. ASSUME NEW d \in Clients, StartWait(d) PROVE raced[c] \subseteq raced'[c]
  BY <1>4, StartWaitRace
<1>5. ASSUME NEW d \in Clients,
             \/ Request(d) \/ Disconnect(d) \/ StopReading(d) \/ ExecBegin(d) \/ ExecCommand(d)
      PROVE  UNCHANGED raced
  BY <1>5 DEF Request, Disconnect, StopReading, ExecBegin, ExecCommand
<1>6. ASSUME NEW w \in waits, WaitRead(w) \/ WaitSend(w) PROVE UNCHANGED raced
  BY <1>6 DEF WaitRead, WaitSend
<1>7. ASSUME NEW w \in waits, WaitWrite(w) PROVE raced[c] \subseteq raced'[c]
  <2>1. w.cl \in Clients
    BY DEF TypeOK, WaitState
  <2> QED
    BY <1>1, <1>7, <2>1 DEF WaitWrite
<1>8. ASSUME Tick \/ (\E r \in Replicas : HandleAck(r)) \/ UNCHANGED vars
      PROVE  UNCHANGED raced
  BY <1>8 DEF Tick, HandleAck, vars
<1> QED
  BY <1>3, <1>4, <1>5, <1>6, <1>7, <1>8 DEF Next, Handle

\* The handlers that answer: the message they took is the one they answer, and
\* they start neither a goroutine nor an EXEC.
Answering(c) ==
    \/ Unknown(c) \/ Enqueue(c) \/ RefuseTx(c) \/ Multi(c) \/ Discard(c)
    \/ ExecuteDirect(c)

\* The kind of reply tells the handlers apart that open, fill and close a
\* transaction.
AnswerKind(c, kind) ==
    \/ Enqueue(c) /\ kind = "queued"
    \/ (Multi(c) \/ Discard(c)) /\ kind = "ok"
    \/ (Unknown(c) \/ RefuseTx(c) \/ ExecuteDirect(c)) /\ kind \in {"error", "data"}

\* A handler other than StartWait and ExecBegin writes one reply, or fails to.
LEMMA HandlerReplies ==
    ASSUME TypeOK, NEW c \in Clients, Answering(c)
    PROVE  /\ Take(c) /\ execCl = NoClient /\ UNCHANGED <<nreq, waits, execVars, peer>>
           /\ Head(inbox[c]).id \in Nat
           /\ \E kind \in ReplyKinds :
                /\ AnswerKind(c, kind)
                /\ Reply(c, Head(inbox[c]).id, kind) \/ ReplyFails(c, Head(inbox[c]).id)
<1>1. Take(c) /\ UNCHANGED <<nreq, waits, execVars, peer>>
  BY DEF Answering, Unknown, Enqueue, RefuseTx, Multi, Discard, ExecuteDirect, sessionVars
<1>2. execCl = NoClient /\ Head(inbox[c]).id \in Nat
  BY <1>1, TakeType DEF Take, Message
<1>3. ASSUME NEW kind \in ReplyKinds, AnswerKind(c, kind),
             Reply(c, Head(inbox[c]).id, kind) \/ ReplyFails(c, Head(inbox[c]).id)
      PROVE  \E k \in ReplyKinds :
               /\ AnswerKind(c, k)
               /\ Reply(c, Head(inbox[c]).id, k) \/ ReplyFails(c, Head(inbox[c]).id)
  BY <1>3
<1>4. {"error", "queued", "ok", "data"} \subseteq ReplyKinds
  BY DEF ReplyKinds
<1>5. CASE Unknown(c) \/ RefuseTx(c)
  <2>1. Reply(c, Head(inbox[c]).id, "error")
    BY <1>5 DEF Unknown, RefuseTx
  <2>2. AnswerKind(c, "error")
    BY <1>5 DEF AnswerKind
  <2> QED
    BY <1>1, <1>2, <1>3, <1>4, <2>1, <2>2
<1>6. CASE Enqueue(c)
  <2>1. Reply(c, Head(inbox[c]).id, "queued")
    BY <1>6 DEF Enqueue
  <2>2. AnswerKind(c, "queued")
    BY <1>6 DEF AnswerKind
  <2> QED
    BY <1>1, <1>2, <1>3, <1>4, <2>1, <2>2
<1>7. CASE Multi(c) \/ Discard(c)
  <2>1. Reply(c, Head(inbox[c]).id, "ok")
    BY <1>7 DEF Multi, Discard
  <2>2. AnswerKind(c, "ok")
    BY <1>7 DEF AnswerKind
  <2> QED
    BY <1>1, <1>2, <1>3, <1>4, <2>1, <2>2
<1>8. CASE ExecuteDirect(c)
  <2>1. PICK kind \in ReplyKinds :
          /\ kind \in {"error", "data"}
          /\ Reply(c, Head(inbox[c]).id, kind) \/ ReplyFails(c, Head(inbox[c]).id)
    BY <1>8, DirectRuns
  <2>2. AnswerKind(c, kind)
    BY <1>8, <2>1 DEF AnswerKind
  <2> QED
    BY <1>1, <1>2, <1>3, <2>1, <2>2
<1> QED
  BY <1>5, <1>6, <1>7, <1>8 DEF Answering

\* The three places a reply comes from: a handler, the end of an EXEC, and the
\* goroutine of a WAIT.
FromHandler(c, n, kind) ==
    Answering(c) /\ n = Head(inbox[c]).id /\ AnswerKind(c, kind)

FromExec(c, n, kind) == ExecEnd(c) /\ n = execId /\ kind = "array"

FromWait(c, n, kind) ==
    \E w \in waits : /\ WaitSend(w) /\ w.cl = c /\ w.id = n
                     /\ kind \in {"count", "refused"}

\* Every step delivers the reply to at most one request, from one of these
\* places.
LEMMA AnswerCases ==
    ASSUME TypeOK, [Next]_vars
    PROVE  \/ UNCHANGED out
           \/ \E c \in Clients, n \in Nat, kind \in ReplyKinds :
                /\ Answers(c, n, kind) \/ Mixes(c, n, kind)
                /\ FromHandler(c, n, kind) \/ FromExec(c, n, kind) \/ FromWait(c, n, kind)
<1> DEFINE Goal == \/ UNCHANGED out
                   \/ \E c \in Clients, n \in Nat, kind \in ReplyKinds :
                        /\ Answers(c, n, kind) \/ Mixes(c, n, kind)
                        /\ \/ FromHandler(c, n, kind) \/ FromExec(c, n, kind)
                           \/ FromWait(c, n, kind)
<1>1. ASSUME NEW c \in Clients, Answering(c) PROVE Goal
  <2>1. PICK kind \in ReplyKinds :
          /\ AnswerKind(c, kind)
          /\ Reply(c, Head(inbox[c]).id, kind) \/ ReplyFails(c, Head(inbox[c]).id)
    BY <1>1, HandlerReplies
  <2>2. PICK n \in Nat : n = Head(inbox[c]).id
    BY <1>1, HandlerReplies
  <2>3. FromHandler(c, n, kind)
    BY <1>1, <2>1, <2>2 DEF FromHandler
  <2>4. Answers(c, n, kind) \/ UNCHANGED out \/ Mixes(c, n, kind)
    BY <2>1, <2>2, ReplyAnswers
  <2> QED
    BY <2>3, <2>4
<1>2. ASSUME NEW c \in Clients, ExecEnd(c) PROVE Goal
  <2>1. execId \in Nat /\ "array" \in ReplyKinds /\ FromExec(c, execId, "array")
    BY <1>2 DEF TypeOK, ReplyKinds, FromExec
  <2>2. Answers(c, execId, "array") \/ UNCHANGED out \/ Mixes(c, execId, "array")
    BY <1>2, ReplyAnswers DEF ExecEnd
  <2> QED
    BY <2>1, <2>2
<1>3. ASSUME NEW w \in waits, WaitSend(w) PROVE Goal
  <2> DEFINE kind == IF w.cmd.bad THEN "refused" ELSE "count"
  <2>1. w.cl \in Clients /\ w.id \in Nat /\ kind \in ReplyKinds /\ kind \in {"count", "refused"}
    BY DEF TypeOK, WaitState, ReplyKinds
  <2>2. Deliver(w.cl, w.id, kind, w.id \in raced[w.cl]) /\ raced' = raced
    BY <1>3 DEF WaitSend
  <2>3. (w.id \in raced[w.cl]) \in BOOLEAN
    OBVIOUS
  <2> HIDE DEF kind
  <2>4. Answers(w.cl, w.id, kind) \/ UNCHANGED out \/ Mixes(w.cl, w.id, kind)
    BY <2>1, <2>2, <2>3, DeliverAnswers
  <2>5. FromWait(w.cl, w.id, kind)
    BY <1>3, <2>1 DEF FromWait
  <2> QED
    BY <2>1, <2>4, <2>5
<1>4. ASSUME NEW c \in Clients,
             \/ Request(c) \/ Disconnect(c) \/ StopReading(c)
             \/ ExecBegin(c) \/ StartWait(c) \/ ExecCommand(c)
      PROVE  UNCHANGED out
  BY <1>4 DEF Request, Disconnect, StopReading, ExecBegin, StartWait, ExecCommand
<1>5. ASSUME NEW w \in waits, WaitRead(w) \/ WaitWrite(w) PROVE UNCHANGED out
  BY <1>5 DEF WaitRead, WaitWrite
<1>6. ASSUME Tick \/ (\E r \in Replicas : HandleAck(r)) \/ UNCHANGED vars
      PROVE  UNCHANGED out
  BY <1>6 DEF Tick, HandleAck, vars
<1> QED
  BY <1>1, <1>2, <1>3, <1>4, <1>5, <1>6 DEF Next, Handle, Answering

\* The replies after an answer.
LEMMA AnswersOut ==
    ASSUME TypeOK, NEW c \in Clients, NEW n \in Nat, NEW kind \in ReplyKinds,
           Answers(c, n, kind)
    PROVE  /\ Len(out'[c]) = Len(out[c]) + 1 /\ Len(out[c]) \in Nat
           /\ \A p \in 1 .. Len(out[c]) : out'[c][p] = out[c][p]
           /\ out'[c][Len(out[c]) + 1].id = n
           /\ out'[c][Len(out[c]) + 1].kind = kind
           /\ \A d \in Clients \ {c} : out'[d] = out[d]
<1> DEFINE a == [id |-> n, kind |-> kind]
<1>1. a.id = n /\ a.kind = kind
  OBVIOUS
<1>2. out'[c] = Append(out[c], a) /\ out[c] \in Seq(Answer)
      /\ \A d \in Clients \ {c} : out'[d] = out[d]
  BY DEF TypeOK, Answers
<1> HIDE DEF a
<1> QED
  BY <1>1, <1>2

\* The replies after a race: what is new carries the request's number.
LEMMA MixesOut ==
    ASSUME TypeOK, NEW c \in Clients, NEW n \in Nat, NEW kind \in ReplyKinds,
           Mixes(c, n, kind)
    PROVE  /\ Len(out[c]) \in Nat /\ Len(out'[c]) \in Nat /\ Len(out'[c]) >= Len(out[c])
           /\ \A p \in 1 .. Len(out[c]) : out'[c][p] = out[c][p]
           /\ \A p \in 1 .. Len(out'[c]) : p \notin 1 .. Len(out[c]) => out'[c][p].id = n
           /\ \A d \in Clients \ {c} : out'[d] = out[d]
<1> DEFINE a == [id |-> n, kind |-> kind]
           once == Append(out[c], a)
<1>1. a \in Answer /\ a.id = n
  BY DEF Answer
<1>2. out[c] \in Seq(Answer) /\ out \in [Clients -> Seq(Answer)]
  BY DEF TypeOK
<1>3. /\ out'[c] = out[c] \/ out'[c] = once \/ out'[c] = Append(once, a)
      /\ \A d \in Clients \ {c} : out'[d] = out[d]
  BY <1>2 DEF Mixes, Flushed
<1> HIDE DEF a
<1>4. /\ once \in Seq(Answer) /\ Len(once) = Len(out[c]) + 1 /\ Len(out[c]) \in Nat
      /\ once[Len(out[c]) + 1] = a
      /\ \A p \in 1 .. Len(out[c]) : once[p] = out[c][p]
  BY <1>1, <1>2
<1> HIDE DEF once
<1>5. /\ Len(Append(once, a)) = Len(out[c]) + 2
      /\ Append(once, a)[Len(out[c]) + 1] = a /\ Append(once, a)[Len(out[c]) + 2] = a
      /\ \A p \in 1 .. Len(out[c]) : Append(once, a)[p] = out[c][p]
  BY <1>1, <1>4
<1>6. CASE out'[c] = out[c]
  BY <1>2, <1>3, <1>6
<1>7. CASE out'[c] = once
  BY <1>1, <1>3, <1>4, <1>7
<1>8. CASE out'[c] = Append(once, a)
  <2>1. \A p \in 1 .. Len(out[c]) + 2 :
          p \notin 1 .. Len(out[c]) => p = Len(out[c]) + 1 \/ p = Len(out[c]) + 2
    BY <1>4
  <2> QED
    BY <1>1, <1>3, <1>4, <1>5, <1>8, <2>1
<1> QED
  BY <1>3, <1>6, <1>7, <1>8

\* A delivered reply is never taken back or changed.
LEMMA RepliesStay ==
    ASSUME TypeOK, [Next]_vars, NEW c \in Clients
    PROVE  /\ Len(out[c]) \in Nat /\ Len(out'[c]) >= Len(out[c]) /\ Len(out'[c]) \in Nat
           /\ \A p \in 1 .. Len(out[c]) : out'[c][p] = out[c][p]
<1>1. out[c] \in Seq(Answer) /\ Len(out[c]) \in Nat
  BY DEF TypeOK
<1>2. CASE UNCHANGED out
  BY <1>1, <1>2
<1>3. ASSUME NEW d \in Clients, NEW n \in Nat, NEW kind \in ReplyKinds, Answers(d, n, kind)
      PROVE  /\ Len(out'[c]) >= Len(out[c]) /\ Len(out'[c]) \in Nat
             /\ \A p \in 1 .. Len(out[c]) : out'[c][p] = out[c][p]
  BY <1>1, <1>3, AnswersOut
<1>4. ASSUME NEW d \in Clients, NEW n \in Nat, NEW kind \in ReplyKinds, Mixes(d, n, kind)
      PROVE  /\ Len(out'[c]) >= Len(out[c]) /\ Len(out'[c]) \in Nat
             /\ \A p \in 1 .. Len(out[c]) : out'[c][p] = out[c][p]
  BY <1>1, <1>4, MixesOut
<1> QED
  BY <1>1, <1>2, <1>3, <1>4, AnswerCases

(***************************************************************************)
(* Requests in the hands of a goroutine or of an EXEC.                     *)
(***************************************************************************)
\* A goroutine is started by StartWait, moved on by WaitRead and WaitWrite, and
\* otherwise only ends.
LEMMA WaitsCases ==
    ASSUME TypeOK, [Next]_vars
    PROVE  \/ waits' \subseteq waits
           \/ \E w \in waits, v \in WaitState :
                /\ waits' = (waits \ {w}) \cup {v} /\ v.cl = w.cl /\ v.id = w.id
                /\ UNCHANGED <<inbox, nreq, execCl, execId, out>>
           \/ \E c \in Clients, v \in WaitState :
                /\ waits' = waits \cup {v} /\ v.cl = c /\ v.id = Head(inbox[c]).id
                /\ StartWait(c)
<1>1. ASSUME NEW w \in waits, WaitRead(w) \/ WaitWrite(w)
      PROVE  \E v \in WaitState :
                /\ waits' = (waits \ {w}) \cup {v} /\ v.cl = w.cl /\ v.id = w.id
                /\ UNCHANGED <<inbox, nreq, execCl, execId, out>>
  <2>1. UNCHANGED <<inbox, nreq, execCl, execId, out>>
    BY <1>1 DEF WaitRead, WaitWrite, sessionVars, execVars
  <2> QED
    BY <1>1, <2>1, WaitMoves
<1>2. ASSUME NEW c \in Clients, StartWait(c)
      PROVE  \E v \in WaitState :
                /\ waits' = waits \cup {v} /\ v.cl = c /\ v.id = Head(inbox[c]).id
                /\ StartWait(c)
  BY <1>2, StartWaitNew
<1>3. ASSUME NEW c \in Clients,
             \/ Request(c) \/ Disconnect(c) \/ StopReading(c) \/ Unknown(c)
             \/ Enqueue(c) \/ RefuseTx(c) \/ Multi(c) \/ Discard(c)
             \/ ExecBegin(c) \/ ExecEnd(c) \/ ExecCommand(c) \/ ExecuteDirect(c)
      PROVE  waits' \subseteq waits
  BY <1>3 DEF Request, Disconnect, StopReading, Unknown, Enqueue, RefuseTx, Multi,
     Discard, ExecBegin, ExecEnd, ExecCommand, ExecuteDirect
<1>4. ASSUME NEW w \in waits, WaitSend(w) PROVE waits' \subseteq waits
  BY <1>4 DEF WaitSend
<1>5. ASSUME Tick \/ (\E r \in Replicas : HandleAck(r)) \/ UNCHANGED vars
      PROVE  waits' \subseteq waits
  BY <1>5 DEF Tick, HandleAck, vars
<1> QED
  BY <1>1, <1>2, <1>3, <1>4, <1>5 DEF Next, Handle

\* The request a handler takes is newer than every goroutine of its client and
\* than everything that was taken before.
LEMMA HeadIsNew ==
    ASSUME TypeOK, SessionOrder, WaitOrder, Numbered, NEW c \in Clients, Take(c)
    PROVE  /\ Head(inbox[c]).id \in Nat /\ 0 < Head(inbox[c]).id
           /\ \A n \in Nat : Taken(n, c) => n < Head(inbox[c]).id
           /\ \A w \in waits : w.cl = c => w.id < Head(inbox[c]).id
           /\ Below(Head(inbox[c]).id, inbox'[c]) /\ Head(inbox[c]).id <= nreq[c]
           /\ execCl = NoClient
<1>1. Head(inbox[c]).id \in Nat
  BY TakeType DEF Message
<1>2. /\ \A n \in Nat : Below(n, inbox[c]) => n < Head(inbox[c]).id
      /\ Below(Head(inbox[c]).id, inbox'[c]) /\ Head(inbox[c]).id <= nreq[c]
  BY TakeOrder
<1>3. \A w \in waits : w.id \in Nat
  BY DEF TypeOK, WaitState
<1>4. 0 < Head(inbox[c]).id
  BY <1>2 DEF Numbered
<1>5. \A w \in waits : w.cl = c => w.id < Head(inbox[c]).id
  BY <1>2, <1>3 DEF WaitOrder
<1> QED
  BY <1>1, <1>2, <1>4, <1>5 DEF Taken, Take

\* An EXEC begins with a request that is newer than all others in anyone's
\* hands; other steps leave the loop's owner or set the loop free.
LEMMA OwnerCases ==
    ASSUME TypeOK, SessionOrder, WaitOrder, Numbered, [Next]_vars
    PROVE  \/ UNCHANGED <<execCl, execId>>
           \/ execCl' = NoClient
           \/ \E c \in Clients :
                /\ execCl' = c /\ execId' \in Nat /\ 0 < execId'
                /\ \A n \in Nat : Taken(n, c) => n < execId'
                /\ \A w \in waits : w.cl = c => w.id < execId'
                /\ ExecBegin(c) /\ UNCHANGED <<waits, out>>
<1>1. ASSUME NEW c \in Clients, ExecBegin(c)
      PROVE  /\ execCl' = c /\ execId' \in Nat /\ 0 < execId'
             /\ \A n \in Nat : Taken(n, c) => n < execId'
             /\ \A w \in waits : w.cl = c => w.id < execId'
             /\ UNCHANGED <<waits, out>>
  <2>1. Take(c) /\ execCl' = c /\ execId' = Head(inbox[c]).id /\ UNCHANGED <<waits, out>>
    BY <1>1 DEF ExecBegin
  <2> QED
    BY <2>1, HeadIsNew
<1> QED
  BY <1>1, ExecCases

\* Requests stay numbered from 1 and goroutines stay apart.
LEMMA ApartStep ==
    ASSUME TypeOK, SessionOrder, WaitOrder, Numbered, WaitsApart, [Next]_vars
    PROVE  Numbered' /\ WaitsApart'
<1>0. /\ NoClient \notin Clients /\ execCl \in Clients \cup {NoClient} /\ execId \in Nat
      /\ \A w \in waits : w.cl \in Clients /\ w.id \in Nat
  BY ServerAssumption DEF TypeOK, WaitState
<1>1. ASSUME NEW c \in Clients PROVE Below(0, inbox'[c])
  <2>1. Taken(0, c)
    BY DEF Numbered, Taken, TypeOK
  <2>2. Taken(0, c)'
    BY <2>1, TakenStable
  <2> QED
    BY <2>2 DEF Taken, Below
<1>2. ASSUME NEW w \in waits PROVE execCl' = w.cl => w.id < execId'
  <2>1. CASE UNCHANGED <<execCl, execId>>
    BY <2>1 DEF WaitsApart
  <2>2. CASE execCl' = NoClient
    BY <1>0, <2>2
  <2> QED
    BY <2>1, <2>2, OwnerCases
<1>3. \A c \in Clients : execCl' = c => 0 < execId'
  <2>1. CASE UNCHANGED <<execCl, execId>>
    BY <2>1 DEF Numbered
  <2>2. CASE execCl' = NoClient
    BY <1>0, <2>2
  <2> QED
    BY <2>1, <2>2, OwnerCases
<1>4. CASE waits' \subseteq waits
  BY <1>1, <1>2, <1>3, <1>4 DEF Numbered, WaitsApart, Below
<1>5. ASSUME NEW w \in waits, NEW v \in WaitState,
             waits' = (waits \ {w}) \cup {v}, v.cl = w.cl, v.id = w.id
      PROVE  Numbered' /\ WaitsApart'
  <2>1. 0 < v.id /\ (execCl' = v.cl => v.id < execId')
    BY <1>2, <1>5 DEF Numbered
  <2>2. \A u \in waits \ {w} : ~(u.cl = v.cl /\ u.id = v.id)
    BY <1>5 DEF WaitsApart
  <2>3. Numbered'
    BY <1>1, <1>3, <1>5, <2>1 DEF Numbered, Below
  <2> QED
    BY <1>2, <1>5, <2>1, <2>2, <2>3 DEF WaitsApart
<1>6. ASSUME NEW c \in Clients, NEW v \in WaitState, waits' = waits \cup {v},
             v.cl = c, v.id = Head(inbox[c]).id, StartWait(c)
      PROVE  Numbered' /\ WaitsApart'
  <2>1. Take(c) /\ UNCHANGED <<execCl, execId>>
    BY <1>6 DEF StartWait, sessionVars, execVars
  <2>2. /\ 0 < v.id /\ \A u \in waits : u.cl = v.cl => u.id < v.id
        /\ execCl' = NoClient /\ v.id \in Nat
    BY <1>6, <2>1, HeadIsNew
  <2>3. Numbered'
    BY <1>0, <1>1, <1>6, <2>2 DEF Numbered, Below
  <2>4. \A u \in waits' : execCl' # u.cl
    BY <1>0, <1>6, <2>2
  <2>5. \A u \in waits : ~(u.cl = v.cl /\ u.id = v.id)
    BY <1>0, <2>2
  <2> QED
    BY <1>6, <2>3, <2>4, <2>5 DEF WaitsApart
<1> QED
  BY <1>4, <1>5, <1>6, WaitsCases

\* A request that is in nobody's hands stays so.
LEMMA DoneStable ==
    ASSUME TypeOK, SessionOrder, WaitOrder, Numbered, [Next]_vars,
           NEW c \in Clients, NEW n \in Nat, Done(n, c)
    PROVE  Done(n, c)'
<1>0. NoClient \notin Clients /\ \A w \in waits : w.id \in Nat
  BY ServerAssumption DEF TypeOK, WaitState
<1>1. 0 < n /\ Taken(n, c) /\ Taken(n, c)'
  BY TakenStable DEF Done
<1>2. execCl' = c => n < execId'
  <2>1. CASE UNCHANGED <<execCl, execId>>
    BY <2>1 DEF Done
  <2>2. CASE execCl' = NoClient
    BY <1>0, <2>2
  <2> QED
    BY <1>1, <2>1, <2>2, OwnerCases
<1>3. \A w \in waits' : w.cl = c => w.id # n
  <2>1. CASE waits' \subseteq waits
    BY <2>1 DEF Done
  <2>2. ASSUME NEW w \in waits, NEW v \in WaitState,
               waits' = (waits \ {w}) \cup {v}, v.cl = w.cl, v.id = w.id
        PROVE  \A u \in waits' : u.cl = c => u.id # n
    BY <2>2 DEF Done
  <2>3. ASSUME NEW d \in Clients, NEW v \in WaitState, waits' = waits \cup {v},
               v.cl = d, v.id = Head(inbox[d]).id, StartWait(d)
        PROVE  \A u \in waits' : u.cl = c => u.id # n
    <3>1. d = c => n < v.id /\ v.id \in Nat
      BY <1>1, <2>3, HeadIsNew DEF StartWait
    <3> QED
      BY <2>3, <3>1 DEF Done
  <2> QED
    BY <2>1, <2>2, <2>3, WaitsCases
<1> QED
  BY <1>1, <1>2, <1>3 DEF Done, Taken, Below

\* An answer takes its request out of everyone's hands, and it is newer than
\* every answered request unless it comes from the goroutine of a WAIT.
LEMMA AnswerIsDone ==
    ASSUME TypeOK, SessionOrder, WaitOrder, ExecTaken, Numbered, WaitsApart,
           NEW c \in Clients, NEW n \in Nat, NEW kind \in ReplyKinds,
           FromHandler(c, n, kind) \/ FromExec(c, n, kind) \/ FromWait(c, n, kind)
    PROVE  /\ Done(n, c)'
           /\ \A k \in Nat : Done(k, c) =>
                 k < n \/ (kind \in {"count", "refused"} /\ k # n)
<1>0. NoClient \notin Clients /\ \A w \in waits : w.id \in Nat
  BY ServerAssumption DEF TypeOK, WaitState
<1>1. CASE FromHandler(c, n, kind)
  <2>1. /\ Take(c) /\ UNCHANGED <<nreq, waits, execCl, execId>> /\ n = Head(inbox[c]).id
    BY <1>1, HandlerReplies DEF FromHandler, execVars
  <2>2. /\ 0 < n /\ \A k \in Nat : Taken(k, c) => k < n
        /\ \A w \in waits : w.cl = c => w.id < n
        /\ Below(n, inbox'[c]) /\ n <= nreq[c]
        /\ execCl = NoClient
    BY <2>1, HeadIsNew
  <2>3. Done(n, c)'
    BY <1>0, <2>1, <2>2 DEF Done, Taken, Below
  <2> QED
    BY <2>2, <2>3 DEF Done
<1>2. CASE FromExec(c, n, kind)
  <2>1. /\ execCl = c /\ n = execId /\ execCl' = NoClient
        /\ UNCHANGED <<inbox, nreq, waits>>
    BY <1>2 DEF FromExec, ExecEnd
  <2>2. 0 < n /\ Taken(n, c) /\ \A w \in waits : w.cl = c => w.id < n
    BY <2>1 DEF Numbered, WaitsApart, ExecTaken
  <2>3. Done(n, c)'
    BY <1>0, <2>1, <2>2 DEF Done, Taken, Below
  <2>4. \A k \in Nat : Done(k, c) => k < n
    BY <2>1 DEF Done
  <2> QED
    BY <2>3, <2>4
<1>3. CASE FromWait(c, n, kind)
  <2>1. PICK w \in waits : WaitSend(w) /\ w.cl = c /\ w.id = n /\ kind \in {"count", "refused"}
    BY <1>3 DEF FromWait
  <2>2. waits' = waits \ {w} /\ UNCHANGED <<inbox, nreq, execCl, execId>>
    BY <2>1 DEF WaitSend, sessionVars, execVars
  <2>3. 0 < n /\ Taken(n, c) /\ (execCl = c => n < execId)
    BY <2>1 DEF Numbered, WaitOrder, WaitsApart, Taken
  <2>4. \A v \in waits \ {w} : v.cl = c => v.id # n
    BY <2>1 DEF WaitsApart
  <2>5. Done(n, c)'
    BY <2>2, <2>3, <2>4 DEF Done, Taken, Below
  <2>6. \A k \in Nat : Done(k, c) => k # n
    BY <2>1 DEF Done
  <2> QED
    BY <2>1, <2>5, <2>6
<1> QED
  BY <1>1, <1>2, <1>3

(***************************************************************************)
(* Answers in order.                                                       *)
(***************************************************************************)
\* Replies carry request numbers.
LEMMA AnswerId ==
    ASSUME TypeOK, NEW c \in Clients, NEW p \in 1 .. Len(out[c])
    PROVE  out[c][p].id \in Nat
<1>1. out[c][p] \in Answer
  BY DEF TypeOK
<1> QED
  BY <1>1 DEF Answer

\* Every step keeps the answered requests done and the answers in order.
LEMMA AnswerStep ==
    ASSUME TypeOK, SessionOrder, WaitOrder, ExecTaken, Numbered, WaitsApart,
           AnsweredIsDone, RepliesInOrder, [Next]_vars
    PROVE  AnsweredIsDone' /\ RepliesInOrder'
<1>1. ASSUME NEW c \in Clients, NEW p \in 1 .. Len(out[c]), NEW n, out[c][p].id = n
      PROVE  n \in Nat /\ Done(n, c) /\ Done(n, c)'
  BY <1>1, AnswerId, DoneStable DEF AnsweredIsDone
<1>0. \A c \in Clients : raced[c] \subseteq raced'[c]
  BY RacedGrows
<1>2. ASSUME UNCHANGED out PROVE AnsweredIsDone' /\ RepliesInOrder'
  <2>1. RepliesInOrder'
    BY <1>0, <1>2 DEF RepliesInOrder
  <2>2. ASSUME NEW c \in Clients, NEW p \in 1 .. Len(out'[c])
        PROVE  Done(out[c][p].id, c)'
    <3>1. PICK n : n = out[c][p].id
      OBVIOUS
    <3>2. p \in 1 .. Len(out[c]) /\ out'[c][p].id = n
      BY <1>2, <2>2, <3>1
    <3>3. Done(n, c)'
      BY <1>1, <3>1, <3>2
    <3> QED
      BY <3>2, <3>3 DEF Done, Taken, Below
  <2> QED
    BY <2>1, <2>2 DEF AnsweredIsDone
<1>3. ASSUME NEW c \in Clients, NEW n \in Nat, NEW kind \in ReplyKinds,
             Answers(c, n, kind),
             FromHandler(c, n, kind) \/ FromExec(c, n, kind) \/ FromWait(c, n, kind)
      PROVE  AnsweredIsDone' /\ RepliesInOrder'
  <2>1. /\ Len(out'[c]) = Len(out[c]) + 1 /\ Len(out[c]) \in Nat
        /\ \A p \in 1 .. Len(out[c]) : out'[c][p] = out[c][p]
        /\ out'[c][Len(out[c]) + 1].id = n
        /\ out'[c][Len(out[c]) + 1].kind = kind
        /\ \A d \in Clients \ {c} : out'[d] = out[d]
    BY <1>3, AnswersOut
  <2>2. /\ Done(n, c)'
        /\ \A k \in Nat : Done(k, c) => k < n \/ (kind \in {"count", "refused"} /\ k # n)
    BY <1>3, AnswerIsDone
  <2>3. ASSUME NEW d \in Clients, NEW p \in 1 .. Len(out'[d])
        PROVE  Done(out[d][p].id, d)'
    <3>1. PICK k : k = out'[d][p].id
      OBVIOUS
    <3>2. CASE d = c /\ p = Len(out[c]) + 1
      <4>1. k = n
        BY <2>1, <3>1, <3>2
      <4> QED
        BY <2>2, <3>1, <3>2, <4>1 DEF Done, Taken, Below
    <3>3. CASE ~(d = c /\ p = Len(out[c]) + 1)
      <4>1. p \in 1 .. Len(out[d]) /\ out[d][p].id = k
        BY <2>1, <2>3, <3>1, <3>3
      <4>2. Done(k, d)'
        BY <1>1, <4>1
      <4> QED
        BY <3>1, <4>2 DEF Done, Taken, Below
    <3> QED
      BY <3>2, <3>3
  <2>4. ASSUME NEW d \in Clients, NEW p \in 1 .. Len(out'[d]), NEW q \in 1 .. Len(out'[d]),
               p < q, {out'[d][p].id, out'[d][q].id} \cap raced'[d] = {}
        PROVE  \/ out'[d][p].id < out'[d][q].id
               \/ /\ out'[d][q].kind \in {"count", "refused"}
                  /\ out'[d][p].id # out'[d][q].id
    <3>1. CASE d = c /\ q = Len(out[c]) + 1
      <4>1. p \in 1 .. Len(out[c]) /\ out'[d][p] = out[c][p]
        BY <2>1, <2>4, <3>1
      <4>2. out[c][p].id \in Nat /\ Done(out[c][p].id, c)
        BY <1>1, <4>1
      <4>3. out'[d][q].id = n /\ out'[d][q].kind = kind
        BY <2>1, <3>1
      <4> QED
        BY <2>2, <4>1, <4>2, <4>3
    <3>2. CASE ~(d = c /\ q = Len(out[c]) + 1)
      <4>1. /\ p \in 1 .. Len(out[d]) /\ q \in 1 .. Len(out[d])
            /\ out'[d][p] = out[d][p] /\ out'[d][q] = out[d][q]
        BY <2>1, <2>4, <3>2
      <4> QED
        BY <1>0, <2>4, <4>1 DEF RepliesInOrder
    <3> QED
      BY <3>1, <3>2
  <2> QED
    BY <2>3, <2>4 DEF AnsweredIsDone, RepliesInOrder
<1>4. ASSUME NEW c \in Clients, NEW n \in Nat, NEW kind \in ReplyKinds,
             Mixes(c, n, kind),
             FromHandler(c, n, kind) \/ FromExec(c, n, kind) \/ FromWait(c, n, kind)
      PROVE  AnsweredIsDone' /\ RepliesInOrder'
  <2>1. /\ \A p \in 1 .. Len(out[c]) : out'[c][p] = out[c][p]
        /\ \A p \in 1 .. Len(out'[c]) : p \notin 1 .. Len(out[c]) => out'[c][p].id = n
        /\ \A d \in Clients \ {c} : out'[d] = out[d]
        /\ n \in raced'[c]
    BY <1>4, MixesOut DEF Mixes
  <2>2. Done(n, c)'
    BY <1>4, AnswerIsDone
  <2>3. ASSUME NEW d \in Clients, NEW p \in 1 .. Len(out'[d])
        PROVE  Done(out[d][p].id, d)'
    <3>1. PICK k : k = out'[d][p].id
      OBVIOUS
    <3>2. CASE d = c /\ p \notin 1 .. Len(out[c])
      <4>1. k = n
        BY <2>1, <2>3, <3>1, <3>2
      <4> QED
        BY <2>2, <3>1, <3>2, <4>1 DEF Done, Taken, Below
    <3>3. CASE ~(d = c /\ p \notin 1 .. Len(out[c]))
      <4>1. p \in 1 .. Len(out[d]) /\ out[d][p].id = k
        BY <2>1, <2>3, <3>1, <3>3
      <4>2. Done(k, d)'
        BY <1>1, <4>1
      <4> QED
        BY <3>1, <4>2 DEF Done, Taken, Below
    <3> QED
      BY <3>2, <3>3
  <2>4. ASSUME NEW d \in Clients, NEW p \in 1 .. Len(out'[d]), NEW q \in 1 .. Len(out'[d]),
               p < q, {out'[d][p].id, out'[d][q].id} \cap raced'[d] = {}
        PROVE  \/ out'[d][p].id < out'[d][q].id
               \/ /\ out'[d][q].kind \in {"count", "refused"}
                  /\ out'[d][p].id # out'[d][q].id
    <3>1. p \in 1 .. Len(out[d]) /\ q \in 1 .. Len(out[d])
      BY <2>1, <2>4
    <3>2. out'[d][p] = out[d][p] /\ out'[d][q] = out[d][q]
      BY <2>1, <3>1
    <3> QED
      BY <1>0, <2>4, <3>1, <3>2 DEF RepliesInOrder
  <2> QED
    BY <2>3, <2>4 DEF AnsweredIsDone, RepliesInOrder
<1> QED
  BY <1>2, <1>3, <1>4, AnswerCases

\* Everything the proofs of ServerProofs rest on, in one formula.
HistoryInv == RanOrder /\ RunsInOrder /\ TxOrder /\ TransactionsAreContiguous

\* It holds at all times.
LEMMA HistoryCorrect == Spec => []HistoryInv
<1>1. Init => HistoryInv
  BY ServerAssumption DEF Init, HistoryInv, TxOrder, TxTaken, ExecTaken, ExecSuffix,
     TransactionsAreContiguous, RanOrder, RunsInOrder
<1>2. TypeOK /\ SessionOrder /\ HistoryInv /\ [Next]_vars => HistoryInv'
  BY TxStep, RanStep DEF HistoryInv
<1> QED
  BY <1>1, <1>2, SessionCorrect, TypeCorrect, PTL DEF Spec

\* Answered requests are in nobody's hands, and goroutines stay apart, at all
\* times.
LEMMA AnswersCorrect ==
    Spec => [](Numbered /\ WaitsApart /\ AnsweredIsDone /\ RepliesInOrder)
<1> DEFINE Inv == Numbered /\ WaitsApart /\ AnsweredIsDone /\ RepliesInOrder
<1>1. Init => Inv
  BY ServerAssumption DEF Init, Numbered, WaitsApart, AnsweredIsDone, RepliesInOrder, Below
<1>2. TypeOK /\ (SessionOrder /\ WaitOrder) /\ HistoryInv /\ Inv /\ [Next]_vars => Inv'
  BY ApartStep, AnswerStep DEF HistoryInv, TxOrder
<1> QED
  BY <1>1, <1>2, HistoryCorrect, SessionCorrect, TypeCorrect, PTL DEF Spec

\* No request is answered twice, and answers come in the order of the requests
\* except the ones a goroutine of a WAIT sends, for every number of clients,
\* every mix of pipelining, transactions and blocking commands.  Excepted are
\* the replies in a race: two that a goroutine and the loop, or two goroutines,
\* had in the client's unlocked Writer at the same time.
THEOREM AnswerOrder == Spec => []RepliesInOrder
BY AnswersCorrect, PTL

(***************************************************************************)
(* No request is forgotten.                                                *)
(***************************************************************************)
InInbox(c, n) == \E i \in 1 .. Len(inbox[c]) : inbox[c][i].id = n

Answered(c, n) == \E p \in 1 .. Len(out[c]) : out[c][p].id = n

InWait(c, n) == \E w \in waits : w.cl = c /\ w.id = n

InExec(c, n) == execCl = c /\ execId = n

Held(c, n) == InInbox(c, n) \/ Answered(c, n) \/ InWait(c, n) \/ InExec(c, n)

\* A peer that is gone stays gone.
LEMMA PeersShrink ==
    ASSUME TypeOK, [Next]_vars, NEW c \in Clients, peer'[c]
    PROVE  peer[c]
<1>1. ASSUME NEW d \in Clients, Disconnect(d) PROVE peer[c]
  BY <1>1 DEF Disconnect, TypeOK
<1>2. ASSUME NEW d \in Clients,
             \/ Request(d) \/ StopReading(d) \/ Unknown(d) \/ Enqueue(d) \/ RefuseTx(d)
             \/ Multi(d) \/ Discard(d) \/ ExecBegin(d) \/ ExecEnd(d) \/ ExecCommand(d)
             \/ ExecuteDirect(d) \/ StartWait(d)
      PROVE  UNCHANGED peer
  BY <1>2 DEF Request, StopReading, Unknown, Enqueue, RefuseTx, Multi, Discard,
     ExecBegin, ExecEnd, ExecCommand, ExecuteDirect, StartWait
<1>3. ASSUME NEW w \in waits, WaitRead(w) \/ WaitWrite(w) \/ WaitSend(w) PROVE UNCHANGED peer
  BY <1>3 DEF WaitRead, WaitWrite, WaitSend
<1>4. ASSUME Tick \/ (\E r \in Replicas : HandleAck(r)) \/ UNCHANGED vars
      PROVE  UNCHANGED peer
  BY <1>4 DEF Tick, HandleAck, vars
<1> QED
  BY <1>1, <1>2, <1>3, <1>4 DEF Next, Handle

\* A goroutine lives until its Send is over.
LEMMA WaitKept ==
    ASSUME TypeOK, [Next]_vars, NEW w \in waits
    PROVE  WaitSend(w) \/ \E v \in waits' : v.cl = w.cl /\ v.id = w.id
<1>1. ASSUME NEW u \in waits, WaitSend(u), u # w PROVE w \in waits'
  BY <1>1 DEF WaitSend
<1>2. ASSUME NEW u \in waits, WaitRead(u) \/ WaitWrite(u)
      PROVE  \E v \in waits' : v.cl = w.cl /\ v.id = w.id
  <2>1. PICK v \in WaitState : waits' = (waits \ {u}) \cup {v} /\ v.cl = u.cl /\ v.id = u.id
    BY <1>2, WaitMoves
  <2> QED
    BY <2>1
<1>3. ASSUME NEW c \in Clients,
             \/ Request(c) \/ Disconnect(c) \/ StopReading(c) \/ Unknown(c)
             \/ Enqueue(c) \/ RefuseTx(c) \/ Multi(c) \/ Discard(c) \/ StartWait(c)
             \/ ExecBegin(c) \/ ExecEnd(c) \/ ExecCommand(c) \/ ExecuteDirect(c)
      PROVE  w \in waits'
  BY <1>3 DEF Request, Disconnect, StopReading, Unknown, Enqueue, RefuseTx, Multi,
     Discard, ExecBegin, ExecEnd, ExecCommand, ExecuteDirect, StartWait
<1>4. ASSUME Tick \/ (\E r \in Replicas : HandleAck(r)) \/ UNCHANGED vars
      PROVE  w \in waits'
  BY <1>4 DEF Tick, HandleAck, vars
<1> QED
  BY <1>1, <1>2, <1>3, <1>4 DEF Next, Handle

\* An EXEC keeps the loop until it ends.
LEMMA ExecKept ==
    ASSUME TypeOK, [Next]_vars, NEW c \in Clients, execCl = c
    PROVE  ExecEnd(c) \/ UNCHANGED <<execCl, execId>>
<1>0. execCl # NoClient
  BY ServerAssumption
<1>1. ASSUME NEW d \in Clients, Handle(d) PROVE FALSE
  BY <1>0, <1>1, HandleTakes DEF Take
<1>2. ASSUME NEW d \in Clients, ExecEnd(d) PROVE d = c
  BY <1>2 DEF ExecEnd
<1>3. ASSUME NEW d \in Clients,
             Request(d) \/ Disconnect(d) \/ StopReading(d) \/ ExecCommand(d)
      PROVE  UNCHANGED <<execCl, execId>>
  BY <1>3 DEF Request, Disconnect, StopReading, ExecCommand, sessionVars, execVars
<1>4. ASSUME NEW w \in waits, WaitRead(w) \/ WaitWrite(w) \/ WaitSend(w) PROVE UNCHANGED <<execCl, execId>>
  BY <1>4 DEF WaitRead, WaitWrite, WaitSend, sessionVars, execVars
<1>5. ASSUME Tick \/ (\E r \in Replicas : HandleAck(r)) \/ UNCHANGED vars
      PROVE  UNCHANGED <<execCl, execId>>
  BY <1>5 DEF Tick, HandleAck, sessionVars, execVars, vars
<1> QED
  BY <1>1, <1>2, <1>3, <1>4, <1>5 DEF Next

\* A reply that is delivered answers its request.
LEMMA AnswersAnswered ==
    ASSUME TypeOK, NEW c \in Clients, NEW n \in Nat, NEW kind \in ReplyKinds,
           Answers(c, n, kind)
    PROVE  Answered(c, n)'
<1>1. /\ Len(out'[c]) = Len(out[c]) + 1 /\ Len(out[c]) \in Nat
      /\ out'[c][Len(out[c]) + 1].id = n
  BY AnswersOut
<1> QED
  BY <1>1 DEF Answered

\* The request a handler takes off an inbox is answered, or handed to a
\* goroutine or an EXEC, unless its reply is in a race or the client closed.
LEMMA HandleHolds ==
    ASSUME TypeOK, NEW c \in Clients, Handle(c), peer[c], c \in clients, c \in clients',
           NEW n \in Nat, n = Head(inbox[c]).id, n \notin raced'[c]
    PROVE  Held(c, n)'
<1>1. CASE Answering(c)
  <2>1. PICK kind \in ReplyKinds : Reply(c, n, kind) \/ ReplyFails(c, n)
    BY <1>1, HandlerReplies
  <2>2. Answers(c, n, kind)
    BY <2>1, ReplyAnswers
  <2> QED
    BY <2>2, AnswersAnswered DEF Held
<1>2. CASE StartWait(c)
  <2>1. PICK v \in WaitState : waits' = waits \cup {v} /\ v.cl = c /\ v.id = n
    BY <1>2, StartWaitNew
  <2> QED
    BY <2>1 DEF Held, InWait
<1>3. CASE ExecBegin(c)
  BY <1>3 DEF ExecBegin, Held, InExec
<1> QED
  BY <1>1, <1>2, <1>3 DEF Handle, Answering

\* As long as the peer is there a message waits for the loop to handle it.
LEMMA InboxHolds ==
    ASSUME TypeOK, [Next]_vars, NEW c \in Clients, NEW n \in Nat, InInbox(c, n),
           peer[c], c \in clients, c \in clients', n \notin raced'[c]
    PROVE  Held(c, n)'
<1>0. inbox[c] \in Seq(Message)
  BY DEF TypeOK
<1>1. PICK i \in 1 .. Len(inbox[c]) : inbox[c][i].id = n
  BY DEF InInbox
<1>2. ASSUME NEW d \in Clients, Handle(d) PROVE Held(c, n)'
  <2>1. CASE d # c
    <3>1. inbox'[c] = inbox[c]
      BY <1>2, <2>1, HandleTakes DEF Take, TypeOK
    <3> QED
      BY <1>1, <3>1 DEF Held, InInbox
  <2>2. CASE d = c
    <3>1. inbox'[c] = Tail(inbox[c]) /\ inbox[c] # <<>>
      BY <1>2, <2>2, HandleTakes DEF Take, TypeOK
    <3>2. CASE i = 1
      BY <1>0, <1>1, <1>2, <2>2, <3>1, <3>2, HandleHolds
    <3>3. CASE i # 1
      <4>1. i - 1 \in 1 .. Len(inbox'[c]) /\ inbox'[c][i - 1] = inbox[c][i]
        BY <1>0, <1>1, <3>1, <3>3
      <4> QED
        BY <1>1, <4>1 DEF Held, InInbox
    <3> QED
      BY <3>2, <3>3
  <2> QED
    BY <2>1, <2>2
<1>3. ASSUME NEW d \in Clients, Request(d) PROVE Held(c, n)'
  <2>1. PICK m \in Message : inbox' = [inbox EXCEPT ![d] = Append(@, m)]
    <3>1. PICK cmd \in Commands[d] :
            inbox' = [inbox EXCEPT ![d] = Append(@, [id |-> nreq[d] + 1, cmd |-> cmd])]
      BY <1>3 DEF Request
    <3>2. Commands[d] \subseteq Command
      BY ServerAssumption
    <3>3. nreq[d] \in Nat
      BY DEF TypeOK
    <3>4. [id |-> nreq[d] + 1, cmd |-> cmd] \in Message
      BY <3>2, <3>3 DEF Message
    <3> QED
      BY <3>1, <3>4
  <2>2. inbox'[c] = inbox[c] \/ inbox'[c] = Append(inbox[c], m)
    BY <2>1 DEF TypeOK
  <2>3. i \in 1 .. Len(inbox'[c]) /\ inbox'[c][i] = inbox[c][i]
    BY <1>0, <1>1, <2>2
  <2> QED
    BY <1>1, <2>3 DEF Held, InInbox
<1>4. ASSUME NEW d \in Clients, StopReading(d) PROVE Held(c, n)'
  <2>1. inbox'[c] = inbox[c]
    BY <1>4 DEF StopReading, TypeOK
  <2> QED
    BY <1>1, <2>1 DEF Held, InInbox
<1>5. ASSUME \A d \in Clients : ~Handle(d) /\ ~Request(d) /\ ~StopReading(d)
      PROVE  Held(c, n)'
  BY <1>1, <1>5, InboxKept DEF Held, InInbox
<1> QED
  BY <1>2, <1>3, <1>4, <1>5

\* A request stays held as long as the connection is up.
LEMMA HeldStable ==
    ASSUME TypeOK, [Next]_vars, NEW c \in Clients, NEW n \in Nat, Held(c, n),
           peer[c], c \in clients, c \in clients', n \notin raced'[c]
    PROVE  Held(c, n)'
<1>1. CASE InInbox(c, n)
  BY <1>1, InboxHolds
<1>2. CASE Answered(c, n)
  <2>1. PICK p \in 1 .. Len(out[c]) : out[c][p].id = n
    BY <1>2 DEF Answered
  <2>2. p \in 1 .. Len(out'[c]) /\ out'[c][p] = out[c][p]
    BY <2>1, RepliesStay
  <2> QED
    BY <2>1, <2>2 DEF Held, Answered
<1>3. CASE InWait(c, n)
  <2>1. PICK w \in waits : w.cl = c /\ w.id = n
    BY <1>3 DEF InWait
  <2>2. CASE WaitSend(w)
    <3> DEFINE kind == IF w.cmd.bad THEN "refused" ELSE "count"
    <3>1. /\ Deliver(c, n, kind, n \in raced[c]) /\ raced' = raced
          /\ kind \in ReplyKinds
      BY <2>1, <2>2 DEF WaitSend, ReplyKinds
    <3>2. (n \in raced[c]) \in BOOLEAN
      OBVIOUS
    <3> HIDE DEF kind
    <3>3. Answers(c, n, kind)
      BY <3>1, <3>2, DeliverAnswers
    <3> QED
      BY <3>1, <3>3, AnswersAnswered DEF Held
  <2>3. CASE \E v \in waits' : v.cl = w.cl /\ v.id = w.id
    BY <2>1, <2>3 DEF Held, InWait
  <2> QED
    BY <2>2, <2>3, WaitKept
<1>4. CASE InExec(c, n)
  <2>1. CASE ExecEnd(c)
    <3>1. (Reply(c, n, "array") \/ ReplyFails(c, n)) /\ "array" \in ReplyKinds
      BY <1>4, <2>1 DEF ExecEnd, InExec, ReplyKinds
    <3>2. Answers(c, n, "array")
      BY <3>1, ReplyAnswers
    <3> QED
      BY <3>1, <3>2, AnswersAnswered DEF Held
  <2>2. CASE UNCHANGED <<execCl, execId>>
    BY <1>4, <2>2 DEF Held, InExec
  <2> QED
    BY <1>4, <2>1, <2>2, ExecKept DEF InExec
<1> QED
  BY <1>1, <1>2, <1>3, <1>4 DEF Held

\* A new request is in the inbox, and no step forgets an old one.
LEMMA ForgottenStep ==
    TypeOK /\ NoRequestForgotten /\ [Next]_vars => NoRequestForgotten'
<1> SUFFICES ASSUME TypeOK, NoRequestForgotten, [Next]_vars,
                    NEW c \in Clients, peer'[c], c \in clients',
                    NEW n \in 1 .. nreq'[c], n \notin raced'[c]
             PROVE  Held(c, n)'
  BY DEF NoRequestForgotten, Held, InInbox, Answered, InWait, InExec
<1>0. peer[c] /\ c \in clients /\ nreq[c] \in Nat /\ inbox[c] \in Seq(Message)
  BY PeersShrink, ClientsShrink DEF TypeOK
<1>1. ASSUME n \in 1 .. nreq[c] PROVE Held(c, n)'
  <2>1. n \in Nat /\ n \notin raced[c]
    BY <1>0, <1>1, RacedGrows
  <2>2. Held(c, n)
    BY <1>0, <1>1, <2>1 DEF NoRequestForgotten, Held, InInbox, Answered, InWait, InExec
  <2> QED
    BY <1>0, <2>1, <2>2, HeldStable
<1>2. CASE nreq'[c] = nreq[c]
  BY <1>1, <1>2
<1>3. ASSUME NEW d \in Clients, Request(d) PROVE Held(c, n)'
  <2>1. CASE d # c \/ n # nreq[c] + 1
    <3>1. n \in 1 .. nreq[c]
      BY <1>0, <1>3, <2>1 DEF Request, TypeOK
    <3> QED
      BY <1>1, <3>1
  <2>2. CASE d = c /\ n = nreq[c] + 1
    <3>1. PICK cmd \in Commands[c] :
            inbox' = [inbox EXCEPT ![c] = Append(@, [id |-> nreq[c] + 1, cmd |-> cmd])]
      BY <1>3, <2>2 DEF Request
    <3> DEFINE m == [id |-> nreq[c] + 1, cmd |-> cmd]
    <3>2. m.id = n /\ inbox'[c] = Append(inbox[c], m)
      BY <2>2, <3>1 DEF TypeOK
    <3> HIDE DEF m
    <3>3. Len(inbox[c]) + 1 \in 1 .. Len(inbox'[c]) /\ inbox'[c][Len(inbox[c]) + 1] = m
      BY <1>0, <3>2
    <3> QED
      BY <3>2, <3>3 DEF Held, InInbox
  <2> QED
    BY <2>1, <2>2
<1>4. ASSUME NEW d \in Clients, Handle(d) \/ StopReading(d) PROVE UNCHANGED nreq
  BY <1>4, HandleTakes DEF StopReading
<1> QED
  BY <1>2, <1>3, <1>4, InboxKept

\* While its connection is up, every request of every client is waiting for the
\* loop, in the hands of an EXEC or a WAIT, answered, or one whose reply was in
\* a race in the client's Writer: no path through handleMessage, Exec.Execute or
\* handleBlockingCommand drops its reply, and a race costs no reply but the ones
\* in it.
THEOREM NothingForgotten == Spec => []NoRequestForgotten
<1>1. Init => NoRequestForgotten
  BY DEF Init, NoRequestForgotten
<1> QED
  BY <1>1, ForgottenStep, TypeCorrect, PTL DEF Spec

(***************************************************************************)
(* What an EXEC runs.                                                      *)
(***************************************************************************)
\* Reply q of client c says QUEUED, and no reply up to position l ended its
\* transaction.
OpenAt(c, q, l) ==
    /\ out[c][q].kind = "queued"
    /\ \A k \in q .. l : out[c][k].kind \notin {"ok", "array"}

\* Only the replies before position p count for QueuedBefore.
LEMMA QueuedBeforeKept ==
    ASSUME TypeOK, [Next]_vars, NEW c \in Clients, NEW p \in 1 .. Len(out[c]) + 1
    PROVE  QueuedBefore(c, p)' = QueuedBefore(c, p)
<1>1. /\ Len(out[c]) \in Nat /\ \A q \in 1 .. Len(out[c]) : out'[c][q] = out[c][q]
  BY RepliesStay
<1>2. p \in Int /\ \A q \in 1 .. p - 1 : out'[c][q] = out[c][q]
  BY <1>1
<1>3. \A q \in 1 .. p - 1 : \A k \in q .. p - 1 : k \in 1 .. p - 1
  BY <1>2
<1>4. \A q \in 1 .. p - 1 : out'[c][q].id = out[c][q].id
                            /\ (OpenAt(c, q, p - 1)' <=> OpenAt(c, q, p - 1))
  BY <1>2, <1>3 DEF OpenAt
<1>5. /\ QueuedBefore(c, p) = {out[c][q].id : q \in {q \in 1 .. p - 1 : OpenAt(c, q, p - 1)}}
      /\ QueuedBefore(c, p)' =
           {out'[c][q].id : q \in {q \in 1 .. p - 1 : OpenAt(c, q, p - 1)'}}
  BY DEF QueuedBefore, OpenAt
<1> QED
  BY <1>4, <1>5

\* What one more reply adds to the QUEUED requests, by its kind.
LEMMA ToldNext ==
    ASSUME TypeOK, NEW c \in Clients, NEW n \in Nat, NEW kind \in ReplyKinds,
           Answers(c, n, kind)
    PROVE  /\ kind \in {"ok", "array"} => Told(c)' = {}
           /\ kind = "queued" => Told(c)' = Told(c) \cup {n}
           /\ kind \notin {"ok", "array", "queued"} => Told(c)' = Told(c)
<1>1. /\ Len(out'[c]) = Len(out[c]) + 1 /\ Len(out[c]) \in Nat
      /\ \A q \in 1 .. Len(out[c]) : out'[c][q] = out[c][q]
      /\ out'[c][Len(out[c]) + 1].id = n /\ out'[c][Len(out[c]) + 1].kind = kind
  BY AnswersOut
<1>2. PICK l \in Nat : l = Len(out[c])
  BY <1>1
<1>3. Told(c) = {out[c][q].id : q \in {q \in 1 .. l : OpenAt(c, q, l)}}
  <2>1. l + 1 - 1 = l
    BY <1>2
  <2> QED
    BY <1>2, <2>1 DEF Told, QueuedBefore, OpenAt
<1>4. Told(c)' = {out'[c][q].id : q \in {q \in 1 .. l + 1 : OpenAt(c, q, l + 1)'}}
  <2>1. l + 1 + 1 - 1 = l + 1 /\ Len(out'[c]) = l + 1
    BY <1>1, <1>2
  <2> QED
    BY <2>1 DEF Told, QueuedBefore, OpenAt
<1>5. ASSUME NEW q \in 1 .. l
      PROVE  /\ out'[c][q] = out[c][q]
             /\ OpenAt(c, q, l + 1)' <=> OpenAt(c, q, l) /\ kind \notin {"ok", "array"}
  <2>1. \A k \in q .. l + 1 : k \in q .. l \/ k = l + 1
    BY <1>2
  <2>2. \A k \in q .. l : k \in 1 .. l /\ k \in q .. l + 1
    BY <1>2
  <2>3. l + 1 \in q .. l + 1
    BY <1>2
  <2> QED
    BY <1>1, <1>2, <2>1, <2>2, <2>3 DEF OpenAt
<1>6. OpenAt(c, l + 1, l + 1)' <=> kind = "queued"
  <2>1. \A k \in l + 1 .. l + 1 : k = l + 1
    BY <1>2
  <2> QED
    BY <1>1, <1>2, <2>1 DEF OpenAt
<1>7. \A q \in 1 .. l + 1 : q \in 1 .. l \/ q = l + 1
  BY <1>2
<1>8. 1 .. l \subseteq 1 .. l + 1 /\ l + 1 \in 1 .. l + 1 /\ out'[c][l + 1].id = n
  BY <1>1, <1>2
<1>9. CASE kind \in {"ok", "array"}
  BY <1>4, <1>5, <1>6, <1>7, <1>9
<1>10. CASE kind = "queued"
  <2>1. \A q \in 1 .. l : out'[c][q].id = out[c][q].id /\ (OpenAt(c, q, l + 1)' <=> OpenAt(c, q, l))
    BY <1>5, <1>10
  <2>2. Told(c)' \subseteq Told(c) \cup {n}
    BY <1>3, <1>4, <1>7, <1>8, <2>1
  <2>3. Told(c) \cup {n} \subseteq Told(c)'
    BY <1>3, <1>4, <1>6, <1>8, <1>10, <2>1
  <2> QED
    BY <1>10, <2>2, <2>3
<1>11. CASE kind \notin {"ok", "array", "queued"}
  <2>1. \A q \in 1 .. l : out'[c][q].id = out[c][q].id /\ (OpenAt(c, q, l + 1)' <=> OpenAt(c, q, l))
    BY <1>5, <1>11
  <2>2. Told(c)' \subseteq Told(c)
    BY <1>3, <1>4, <1>6, <1>7, <1>11, <2>1
  <2>3. Told(c) \subseteq Told(c)'
    BY <1>3, <1>4, <1>8, <2>1
  <2> QED
    BY <1>11, <2>2, <2>3
<1> QED
  BY <1>9, <1>10, <1>11

\* The request numbers of a queue with one more message.
LEMMA IdsAppend ==
    ASSUME NEW q \in Seq(Message), NEW m \in Message
    PROVE  Ids(Append(q, m), Len(Append(q, m))) = Ids(q, Len(q)) \cup {m.id}
<1>1. /\ Len(Append(q, m)) = Len(q) + 1 /\ Len(q) \in Nat
      /\ Append(q, m)[Len(q) + 1] = m
      /\ \A i \in 1 .. Len(q) : Append(q, m)[i] = q[i]
  OBVIOUS
<1>2. \A i \in 1 .. Len(q) + 1 : i \in 1 .. Len(q) \/ i = Len(q) + 1
  BY <1>1
<1>3. 1 .. Len(q) \subseteq 1 .. Len(q) + 1 /\ Len(q) + 1 \in 1 .. Len(q) + 1
  BY <1>1
<1>4. Ids(Append(q, m), Len(q) + 1) \subseteq Ids(q, Len(q)) \cup {m.id}
  BY <1>1, <1>2 DEF Ids
<1>5. Ids(q, Len(q)) \cup {m.id} \subseteq Ids(Append(q, m), Len(q) + 1)
  BY <1>1, <1>3 DEF Ids
<1> QED
  BY <1>1, <1>4, <1>5

\* A session's transaction is opened, filled and closed by its own commands.
LEMMA TransactionKept ==
    ASSUME TypeOK, [Next]_vars, NEW c \in Clients,
           ~Enqueue(c), ~Multi(c), ~Discard(c), ~ExecEnd(c)
    PROVE  txQueue'[c] = txQueue[c] /\ inTx'[c] = inTx[c]
<1>1. ASSUME NEW d \in Clients, Enqueue(d) \/ Multi(d) \/ Discard(d) \/ ExecEnd(d)
      PROVE  txQueue'[c] = txQueue[c] /\ inTx'[c] = inTx[c]
  <2>1. d # c
    BY <1>1
  <2> QED
    BY <1>1, <2>1 DEF Enqueue, Multi, Discard, ExecEnd, ClearTransaction, TypeOK
<1>2. ASSUME NEW d \in Clients,
             \/ Request(d) \/ Disconnect(d) \/ StopReading(d) \/ Unknown(d)
             \/ RefuseTx(d) \/ ExecBegin(d) \/ ExecCommand(d) \/ ExecuteDirect(d)
             \/ StartWait(d)
      PROVE  UNCHANGED <<txQueue, inTx>>
  BY <1>2 DEF Request, Disconnect, StopReading, Unknown, RefuseTx, ExecBegin,
     ExecCommand, ExecuteDirect, StartWait, sessionVars
<1>3. ASSUME NEW w \in waits, WaitRead(w) \/ WaitWrite(w) \/ WaitSend(w) PROVE UNCHANGED <<txQueue, inTx>>
  BY <1>3 DEF WaitRead, WaitWrite, WaitSend, sessionVars
<1>4. ASSUME Tick \/ (\E r \in Replicas : HandleAck(r)) \/ UNCHANGED vars
      PROVE  UNCHANGED <<txQueue, inTx>>
  BY <1>4 DEF Tick, HandleAck, sessionVars, vars
<1> QED
  BY <1>1, <1>2, <1>3, <1>4 DEF Next, Handle

\* Every step keeps a connected client's queue to what it was told.
LEMMA QueueStep ==
    ASSUME TypeOK, QueueIsTold, [Next]_vars
    PROVE  QueueIsTold'
<1> SUFFICES ASSUME NEW c \in Clients, peer'[c], c \in clients', inTx'[c], raced'[c] = {}
             PROVE  Ids(txQueue'[c], Len(txQueue'[c])) = Told(c)'
  BY DEF QueueIsTold, Ids
<1>0. peer[c] /\ c \in clients /\ txQueue[c] \in Seq(Message) /\ raced[c] = {}
  BY PeersShrink, ClientsShrink, RacedGrows DEF TypeOK
<1>1. CASE Enqueue(c)
  <2>1. /\ Take(c) /\ inTx[c] /\ Reply(c, Head(inbox[c]).id, "queued")
        /\ txQueue'[c] = Append(txQueue[c], Head(inbox[c]))
    BY <1>1 DEF Enqueue, TypeOK
  <2>2. PICK m \in Message : m = Head(inbox[c])
    BY <2>1, TakeType
  <2>3. Answers(c, m.id, "queued") /\ m.id \in Nat /\ "queued" \in ReplyKinds
    BY <1>0, <2>1, <2>2, ReplyAnswers DEF Message, ReplyKinds
  <2>4. Told(c)' = Told(c) \cup {m.id}
    BY <2>3, ToldNext
  <2>5. Ids(txQueue'[c], Len(txQueue'[c])) = Ids(txQueue[c], Len(txQueue[c])) \cup {m.id}
    BY <1>0, <2>1, <2>2, IdsAppend
  <2> QED
    BY <1>0, <2>1, <2>4, <2>5 DEF QueueIsTold
<1>2. CASE Multi(c)
  <2>1. Take(c) /\ Reply(c, Head(inbox[c]).id, "ok") /\ txQueue'[c] = <<>>
    BY <1>2 DEF Multi, TypeOK
  <2>2. PICK n \in Nat : n = Head(inbox[c]).id
    BY <2>1, TakeType DEF Message
  <2>3. Answers(c, n, "ok") /\ "ok" \in ReplyKinds
    BY <1>0, <2>1, <2>2, ReplyAnswers DEF ReplyKinds
  <2>4. Told(c)' = {}
    BY <2>3, ToldNext
  <2> QED
    BY <2>1, <2>4 DEF Ids
<1>3. CASE Discard(c) \/ ExecEnd(c)
  <2>1. inTx'[c] = FALSE
    BY <1>0, <1>3 DEF Discard, ExecEnd, ReplyFails, ClearTransaction, TypeOK
  <2> QED
    BY <2>1
<1>4. CASE ~Enqueue(c) /\ ~Multi(c) /\ ~Discard(c) /\ ~ExecEnd(c)
  <2>1. txQueue'[c] = txQueue[c] /\ inTx'[c] = inTx[c]
    BY <1>4, TransactionKept
  <2>2. Told(c)' = Told(c)
    <3>1. CASE out'[c] = out[c]
      BY <3>1 DEF Told, QueuedBefore
    <3>3. ASSUME NEW d \in Clients, NEW n \in Nat, NEW kind \in ReplyKinds,
                 Mixes(d, n, kind)
          PROVE  Told(c)' = Told(c)
      <4>1. d # c
        BY <3>3 DEF Mixes
      <4> QED
        BY <3>1, <3>3, <4>1, MixesOut
    <3>2. ASSUME NEW d \in Clients, NEW n \in Nat, NEW kind \in ReplyKinds,
                 Answers(d, n, kind),
                 FromHandler(d, n, kind) \/ FromExec(d, n, kind) \/ FromWait(d, n, kind)
          PROVE  Told(c)' = Told(c)
      <4>1. CASE d # c
        BY <3>1, <3>2, <4>1, AnswersOut
      <4>2. CASE d = c
        <5>1. kind \in {"error", "data", "count", "refused"}
          BY <1>4, <3>2, <4>2 DEF FromHandler, FromExec, FromWait, AnswerKind
        <5> QED
          BY <3>2, <4>2, <5>1, ToldNext
      <4> QED
        BY <4>1, <4>2
    <3> QED
      BY <3>1, <3>2, <3>3, AnswerCases
  <2> QED
    BY <1>0, <2>1, <2>2 DEF QueueIsTold
<1> QED
  BY <1>1, <1>2, <1>3, <1>4

\* The position in the queue moves with the EXEC.
LEMMA PositionKept ==
    ASSUME [Next]_vars, \A c \in Clients : ~ExecBegin(c) /\ ~ExecCommand(c) /\ ~ExecEnd(c)
    PROVE  UNCHANGED execPos
<1>1. ASSUME NEW c \in Clients,
             \/ Request(c) \/ Disconnect(c) \/ StopReading(c) \/ Unknown(c)
             \/ Enqueue(c) \/ RefuseTx(c) \/ Multi(c) \/ Discard(c)
             \/ ExecuteDirect(c) \/ StartWait(c)
      PROVE  UNCHANGED execPos
  BY <1>1 DEF Request, Disconnect, StopReading, Unknown, Enqueue, RefuseTx, Multi,
     Discard, ExecuteDirect, StartWait, sessionVars, execVars
<1>2. ASSUME NEW w \in waits, WaitRead(w) \/ WaitWrite(w) \/ WaitSend(w) PROVE UNCHANGED execPos
  BY <1>2 DEF WaitRead, WaitWrite, WaitSend, sessionVars, execVars
<1>3. ASSUME Tick \/ (\E r \in Replicas : HandleAck(r)) \/ UNCHANGED vars
      PROVE  UNCHANGED execPos
  BY <1>3 DEF Tick, HandleAck, sessionVars, execVars, vars
<1> QED
  BY <1>1, <1>2, <1>3 DEF Next, Handle

\* What one more command adds to what request n of client c ran.
LEMMA RanInNext ==
    ASSUME TypeOK, NEW d \in Clients, NEW id \in Nat, NEW tx \in Nat,
           ran' = Append(ran, [cl |-> d, id |-> id, tx |-> tx]),
           NEW c \in Clients, NEW n \in Nat
    PROVE  /\ d = c /\ tx = n => RanIn(n, c)' = RanIn(n, c) \cup {id}
           /\ d # c \/ tx # n => RanIn(n, c)' = RanIn(n, c)
<1>1. /\ Len(ran') = Len(ran) + 1 /\ Len(ran) \in Nat
      /\ \A i \in 1 .. Len(ran) : ran'[i] = ran[i]
      /\ ran'[Len(ran) + 1].cl = d /\ ran'[Len(ran) + 1].id = id
      /\ ran'[Len(ran) + 1].tx = tx
  BY AppendRan
<1>2. \A i \in 1 .. Len(ran) + 1 : i \in 1 .. Len(ran) \/ i = Len(ran) + 1
  BY <1>1
<1>3. 1 .. Len(ran) \subseteq 1 .. Len(ran) + 1 /\ Len(ran) + 1 \in 1 .. Len(ran) + 1
  BY <1>1
<1>4. RanIn(n, c) \subseteq RanIn(n, c)'
  BY <1>1, <1>3 DEF RanIn
<1>5. RanIn(n, c)' \subseteq RanIn(n, c) \cup {id}
  BY <1>1, <1>2 DEF RanIn
<1>6. ASSUME d = c, tx = n PROVE id \in RanIn(n, c)'
  BY <1>1, <1>3, <1>6 DEF RanIn
<1>7. ASSUME d # c \/ tx # n PROVE RanIn(n, c)' \subseteq RanIn(n, c)
  BY <1>1, <1>2, <1>7 DEF RanIn
<1> QED
  BY <1>4, <1>5, <1>6, <1>7

\* Every step keeps the running EXEC on its way through its queue.
LEMMA ProgressStep ==
    ASSUME TypeOK, SessionOrder, WaitOrder, TxTaken, Numbered, ExecProgress, [Next]_vars
    PROVE  ExecProgress'
<1> SUFFICES ASSUME NEW c \in Clients, execCl' = c
             PROVE  /\ inTx'[c]
                    /\ execPos' <= Len(txQueue'[c]) + 1
                    /\ RanIn(execId, c)' = Ids(txQueue'[c], execPos' - 1)
  BY DEF ExecProgress, Ids
<1>0. /\ execCl' # NoClient /\ txQueue[c] \in Seq(Message) /\ Len(txQueue[c]) \in Nat
      /\ execPos \in Nat \ {0} /\ execId \in Nat
  BY ServerAssumption DEF TypeOK
<1>1. CASE execCl = c
  <2>1. UNCHANGED <<execCl, execId>>
    <3>1. ~ExecEnd(c)
      BY <1>0 DEF ExecEnd
    <3> QED
      BY <1>1, <3>1, ExecKept
  <2>2. \A d \in Clients : ~Handle(d) /\ ~ExecEnd(d)
    BY <1>0, <1>1, <2>1, HandleTakes DEF Take, ExecEnd
  <2>3. txQueue'[c] = txQueue[c] /\ inTx'[c] = inTx[c]
    BY <2>2, TransactionKept DEF Handle
  <2>4. /\ inTx[c] /\ execPos <= Len(txQueue[c]) + 1
        /\ RanIn(execId, c) = Ids(txQueue[c], execPos - 1)
    BY <1>1 DEF ExecProgress
  <2>5. CASE ExecCommand(c)
    <3>1. /\ execPos \in 1 .. Len(txQueue[c]) /\ execPos' = execPos + 1
          /\ ran' = Append(ran, [cl |-> c, id |-> txQueue[c][execPos].id, tx |-> execId])
      BY <1>0, <2>5 DEF ExecCommand, Run
    <3>2. PICK id \in Nat : id = txQueue[c][execPos].id
      BY <1>0, <3>1, MessageId
    <3>3. PICK n \in Nat : n = execId
      BY <1>0
    <3>4. RanIn(n, c)' = RanIn(n, c) \cup {id}
      BY <3>1, <3>2, <3>3, RanInNext
    <3>5. RanIn(execId, c)' = RanIn(n, c)' /\ RanIn(execId, c) = RanIn(n, c)
      BY <2>1, <3>3 DEF RanIn
    <3>6. \A i \in 1 .. execPos : i \in 1 .. execPos - 1 \/ i = execPos
      BY <1>0
    <3>7. 1 .. execPos - 1 \subseteq 1 .. execPos /\ execPos \in 1 .. execPos
          /\ execPos' - 1 = execPos
      BY <1>0, <3>1
    <3>8. Ids(txQueue[c], execPos' - 1) = Ids(txQueue[c], execPos - 1) \cup {id}
      BY <3>2, <3>6, <3>7 DEF Ids
    <3>9. execPos' <= Len(txQueue[c]) + 1
      BY <1>0, <3>1
    <3> QED
      BY <2>3, <2>4, <3>4, <3>5, <3>8, <3>9
  <2>6. CASE ~ExecCommand(c)
    <3>1. \A d \in Clients : ~ExecCommand(d) /\ ~ExecuteDirect(d) /\ ~ExecBegin(d)
      BY <1>1, <2>2, <2>6 DEF ExecCommand, Handle
    <3>2. UNCHANGED <<ran, execPos>>
      BY <2>2, <3>1, QuietSteps, PositionKept DEF dataVars
    <3> QED
      BY <2>1, <2>3, <2>4, <3>2 DEF RanIn
  <2> QED
    BY <2>5, <2>6
<1>2. CASE execCl # c
  <2>1. ExecBegin(c)
    <3>1. PICK d \in Clients : ExecBegin(d)
      BY <1>0, <1>2, ExecCases
    <3>2. d = c
      BY <3>1 DEF ExecBegin
    <3> QED
      BY <3>1, <3>2
  <2>2. /\ Take(c) /\ execId' = Head(inbox[c]).id /\ execPos' = 1
        /\ UNCHANGED <<ran, inTx, txQueue>>
    BY <2>1 DEF ExecBegin, dataVars
  <2>3. inTx[c]
    BY <2>1 DEF ExecBegin, TxRefuses, TransactionCommands, TypeOK
  <2>4. PICK n \in Nat : n = Head(inbox[c]).id
    BY <2>2, HeadIsNew
  <2>5. 0 < n /\ \A k \in Nat : Taken(k, c) => k < n
    BY <2>2, <2>4, HeadIsNew
  <2>6. \A i \in 1 .. Len(ran) : ~(ran[i].cl = c /\ ran[i].tx = n)
    BY <2>5 DEF TxTaken
  <2>7. RanIn(execId, c)' = {}
    BY <2>2, <2>4, <2>6 DEF RanIn
  <2>8. Ids(txQueue[c], 0) = {}
    BY DEF Ids
  <2>9. execPos' - 1 = 0 /\ execPos' <= Len(txQueue[c]) + 1
    BY <1>0, <2>2
  <2> QED
    BY <2>2, <2>3, <2>7, <2>8, <2>9
<1> QED
  BY <1>1, <1>2

\* What an answered EXEC ran does not change any more.
LEMMA RanInKept ==
    ASSUME TypeOK, SessionOrder, RanOrder, [Next]_vars, NEW c \in Clients, NEW n \in Nat,
           Done(n, c)
    PROVE  RanIn(n, c)' = RanIn(n, c)
<1>1. ASSUME NEW d \in Clients, ExecCommand(d) \/ ExecuteDirect(d)
      PROVE  RanIn(n, c)' = RanIn(n, c)
  <2>1. PICK m \in Message, tx \in Nat :
          /\ ran' = Append(ran, [cl |-> d, id |-> m.id, tx |-> tx])
          /\ tx # 0 => execCl = d /\ tx = execId
    BY <1>1, RunsNext
  <2>2. m.id \in Nat
    BY DEF Message
  <2>3. d # c \/ tx # n
    BY <2>1 DEF Done
  <2> QED
    BY <2>1, <2>2, <2>3, RanInNext
<1>2. ASSUME \A d \in Clients : ~ExecCommand(d) /\ ~ExecuteDirect(d)
      PROVE  RanIn(n, c)' = RanIn(n, c)
  BY <1>2, QuietSteps DEF dataVars, RanIn
<1> QED
  BY <1>1, <1>2

\* Every step keeps what the answered EXECs ran and were told.
LEMMA ExecAnswerStep ==
    ASSUME TypeOK, SessionOrder, RanOrder, AnsweredIsDone, QueueIsTold, ExecProgress,
           ExecRunsItsQueue, [Next]_vars
    PROVE  ExecRunsItsQueue'
<1> SUFFICES ASSUME NEW c \in Clients, raced'[c] = {}, NEW p \in 1 .. Len(out'[c]),
                    NEW n, n = out'[c][p].id, out'[c][p].kind = "array"
             PROVE  QueuedBefore(c, p)' = RanIn(n, c)'
  BY DEF ExecRunsItsQueue, RanIn
<1>0. Len(out[c]) \in Nat /\ Len(out'[c]) \in Nat /\ raced[c] = {}
  BY RepliesStay, RacedGrows
<1>1. CASE p \in 1 .. Len(out[c])
  <2>1. out'[c][p] = out[c][p] /\ n = out[c][p].id /\ out[c][p].kind = "array"
    BY <1>1, RepliesStay
  <2>2. n \in Nat /\ Done(n, c)
    BY <1>1, <2>1, AnswerId DEF AnsweredIsDone
  <2>3. QueuedBefore(c, p)' = QueuedBefore(c, p)
    <3>1. p \in 1 .. Len(out[c]) + 1
      BY <1>0, <1>1
    <3> QED
      BY <3>1, QueuedBeforeKept
  <2>4. QueuedBefore(c, p) = RanIn(n, c)
    BY <1>0, <1>1, <2>1 DEF ExecRunsItsQueue, RanIn
  <2> QED
    BY <2>2, <2>3, <2>4, RanInKept
<1>2. CASE p \notin 1 .. Len(out[c])
  <2>1. out'[c] # out[c]
    BY <1>2
  <2>2. PICK d \in Clients, k \in Nat, kind \in ReplyKinds :
          /\ Answers(d, k, kind) \/ Mixes(d, k, kind)
          /\ FromHandler(d, k, kind) \/ FromExec(d, k, kind) \/ FromWait(d, k, kind)
    BY <2>1, AnswerCases
  <2>3. d = c /\ Answers(d, k, kind)
    <3>1. d = c
      BY <2>1, <2>2, AnswersOut, MixesOut
    <3> QED
      BY <2>2, <3>1 DEF Mixes
  <2>4. p = Len(out[c]) + 1 /\ k = n /\ kind = "array"
    <3>1. /\ Len(out'[c]) = Len(out[c]) + 1
          /\ out'[c][Len(out[c]) + 1].id = k
          /\ out'[c][Len(out[c]) + 1].kind = kind
      BY <2>3, AnswersOut
    <3>2. p = Len(out[c]) + 1
      BY <1>0, <1>2, <3>1
    <3> QED
      BY <3>1, <3>2
  <2>5. ExecEnd(c) /\ n = execId
    BY <2>2, <2>3, <2>4 DEF FromHandler, FromExec, FromWait, AnswerKind
  <2>6. /\ execCl = c /\ execPos > Len(txQueue[c]) /\ UNCHANGED ran
        /\ execPos \in Nat /\ Len(txQueue[c]) \in Nat
    BY <2>5 DEF ExecEnd, dataVars, TypeOK
  <2>7. /\ inTx[c] /\ execPos <= Len(txQueue[c]) + 1
        /\ RanIn(n, c) = Ids(txQueue[c], execPos - 1)
    BY <2>5, <2>6 DEF ExecProgress
  <2>8. execPos - 1 = Len(txQueue[c])
    BY <2>6, <2>7
  <2>9. Ids(txQueue[c], Len(txQueue[c])) = Told(c)
    BY <1>0, <2>3, <2>7 DEF QueueIsTold, Answers
  <2>10. QueuedBefore(c, p)' = QueuedBefore(c, p) /\ Told(c) = QueuedBefore(c, p)
    <3>1. p \in 1 .. Len(out[c]) + 1
      BY <1>0, <2>4
    <3> QED
      BY <2>4, <3>1, QueuedBeforeKept DEF Told
  <2>11. RanIn(n, c)' = RanIn(n, c)
    BY <2>6 DEF RanIn
  <2> QED
    BY <2>7, <2>8, <2>9, <2>10, <2>11
<1> QED
  BY <1>1, <1>2

\* For every number of clients, however they pipeline and whatever the loop
\* serves in between: an EXEC that was answered ran exactly the commands whose
\* QUEUED its client received since MULTI (of a client none of whose replies
\* met another one in its Writer, as what it received is told by its replies).
THEOREM ExecCorrect == Spec => []ExecRunsItsQueue
<1> DEFINE Inv == QueueIsTold /\ ExecProgress /\ ExecRunsItsQueue
           Known == Numbered /\ WaitsApart /\ AnsweredIsDone /\ RepliesInOrder
<1>1. Init => Inv
  BY ServerAssumption DEF Init, QueueIsTold, ExecProgress, ExecRunsItsQueue
<1>2. TypeOK /\ (SessionOrder /\ WaitOrder) /\ HistoryInv /\ Known /\ Inv /\ [Next]_vars => Inv'
  BY QueueStep, ProgressStep, ExecAnswerStep DEF HistoryInv, TxOrder
<1> QED
  BY <1>1, <1>2, AnswersCorrect, HistoryCorrect, SessionCorrect, TypeCorrect, PTL DEF Spec

=============================================================================
