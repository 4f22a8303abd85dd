---------------------------- MODULE Replication ----------------------------
(***************************************************************************)
(* Single-leader replication (internal/app/server/server.go, with PSYNC,   *)
(* REPLCONF and WAIT of pkg/command): the master's loop, its PING and      *)
(* GETACK goroutines, the replicas' handshake and master-link reader, and  *)
(* the byte offsets by which WAIT decides that a write has reached them.   *)
(*                                                                         *)
(* Every replica is one process that connects once (the code never         *)
(* reconnects).  wire[r] is the TCP stream to it: Conn().Write puts a      *)
(* message on it at once, replies and GETACKs go through wbuf[r], the      *)
(* unlocked bufio.Writer of the connection.  A flush of that writer is two *)
(* steps, as in bufio: write the buffer to the connection, then set its    *)
(* length to zero; several goroutines may be inside it.                    *)
(*                                                                         *)
(* A write is the index of its place in log; log[i] is the master's offset *)
(* right after write i was propagated.                                     *)
(***************************************************************************)
EXTENDS Integers, Sequences, FiniteSets

CONSTANTS
    Replicas,     \* replica processes
    NoConn,       \* "the loop is idle"
    Clients,      \* clients of the master that write and WAIT
    Streams,      \* may a client XADD (a stream key makes SaveRDB fail)
    WriteLen,     \* length of a write command on the wire
    MaxWrites,    \* bound: writes
    MaxGetAcks,   \* bound: GETACK rounds of the ticker
    MaxPings,     \* bound: PING rounds of the ticker
    MaxWaits,     \* bound: WAITs of a client, 0 or 1
    Breaks        \* may connections break

ASSUME ReplicationAssumption ==
    /\ IsFiniteSet(Replicas) /\ NoConn \notin Replicas
    /\ Streams \in BOOLEAN
    /\ WriteLen \in Nat \ {0}
    /\ MaxWrites \in Nat
    /\ MaxGetAcks \in Nat
    /\ MaxPings \in Nat
    /\ MaxWaits \in {0, 1}
    /\ Breaks \in BOOLEAN

\* *3 $8 REPLCONF $6 GETACK $1 * and *1 $4 PING, in bytes.
GetAckLen == 37
PingLen == 14

VARIABLES
    \* the master
    offset,      \* Server.offset
    log,         \* offset after each propagated write
    lastWrite,   \* Client.lastWriteOffset
    hasStream,   \* the store holds a stream key
    replicas,    \* Server.replicas
    acked,       \* Client.offset of the replica's connection
    closed,      \* the master has closed the connection
    wbuf,        \* the messages in the connection's bufio.Writer
    loop,        \* what the loop does next, and for which connection
    getters,     \* GETACK goroutines that have not written yet
    pingers,     \* PING goroutines that have not counted yet
    pinging,     \* PING goroutines that have counted and not written
    flushers,    \* goroutines about to Flush the Writer
    resetters,   \* goroutines inside Flush, and how much each has written
    flushed,     \* history: the messages of wbuf that are on the wire already
    getAckRounds, pingRounds,
    waiting,     \* the state of each client's WAIT
    \* the connections
    wire,        \* messages from the master the replica has not read
    up,          \* messages from the replica the loop has not taken
    down,        \* the connection is broken
    \* the replicas
    hs,          \* the handshake request in progress
    phase,       \* and how far it is
    got,         \* the response dispatched to it
    reader,      \* what handleMasterConnection is doing
    roff,        \* Server.offset of the replica
    synced,      \* history: has it loaded the snapshot
    base,        \* history: the writes in the snapshot it loaded
    applied,     \* history: the writes executed since
    doubled      \* history: was a buffered message sent to it twice

masterVars == <<offset, log, lastWrite, hasStream, replicas, acked>>
goVars == <<getters, pingers, pinging, getAckRounds, pingRounds>>
flushVars == <<flushers, resetters>>
connVars == <<closed, wbuf, flushed, wire, up, down, doubled>>
handshakeVars == <<hs, phase, got>>
replicaVars == <<reader, roff, synced, base, applied>>
vars == <<masterVars, loop, goVars, flushVars, waiting, connVars,
          handshakeVars, replicaVars>>

Kinds == {"ok", "full", "rdb", "error", "write", "getack", "ping"}
Arrays == {"write", "getack", "ping"}
Requests == {"ping", "port", "capa", "psync"}
Msg == [kind : Kinds, n : Nat]
UpMsg == [kind : Requests \cup {"ack"}, n : Nat]
LoopPcs == {"idle", "send", "reset", "full", "fullreset", "rdb"}
Idle == [pc |-> "idle", conn |-> NoConn, n |-> 0]
WaitPcs == {"none", "start", "poll", "done", "timeout"}

TypeOK ==
    /\ offset \in Nat /\ log \in Seq(Nat) /\ lastWrite \in [Clients -> Nat]
    /\ hasStream \in BOOLEAN
    /\ replicas \subseteq Replicas
    /\ acked \in [Replicas -> Nat]
    /\ closed \in [Replicas -> BOOLEAN]
    /\ wbuf \in [Replicas -> Seq(Msg)]
    /\ loop \in [pc : LoopPcs, conn : Replicas \cup {NoConn}, n : Nat]
    /\ getters \in [Replicas -> Nat] /\ pingers \in [Replicas -> Nat]
    /\ pinging \in [Replicas -> Nat]
    /\ flushers \in [Replicas -> Nat] /\ resetters \in [Replicas -> Seq(Nat)]
    /\ flushed \in [Replicas -> Nat]
    /\ getAckRounds \in Nat /\ pingRounds \in Nat
    /\ waiting \in [Clients -> [pc : WaitPcs, need : Nat, off : Nat, reply : Nat]]
    /\ wire \in [Replicas -> Seq(Msg)]
    /\ up \in [Replicas -> Seq(UpMsg)]
    /\ down \in [Replicas -> BOOLEAN]
    /\ hs \in [Replicas -> Requests \cup {"done", "failed"}]
    /\ phase \in [Replicas -> {"send", "sent", "wait", "got"}]
    /\ got \in [Replicas -> Kinds \cup {"bulk"}]
    /\ reader \in [Replicas -> {"run", "load", "swallow", "stop"}]
    /\ roff \in [Replicas -> Nat]
    /\ synced \in [Replicas -> BOOLEAN]
    /\ base \in [Replicas -> Nat]
    /\ applied \in [Replicas -> Seq(Nat)]
    /\ doubled \in [Replicas -> BOOLEAN]

Init ==
    /\ offset = 0 /\ log = <<>> /\ lastWrite = [c \in Clients |-> 0]
    /\ hasStream = FALSE
    /\ replicas = {}
    /\ acked = [r \in Replicas |-> 0]
    /\ closed = [r \in Replicas |-> FALSE]
    /\ wbuf = [r \in Replicas |-> <<>>]
    /\ loop = Idle
    /\ getters = [r \in Replicas |-> 0] /\ pingers = [r \in Replicas |-> 0]
    /\ pinging = [r \in Replicas |-> 0]
    /\ flushers = [r \in Replicas |-> 0] /\ resetters = [r \in Replicas |-> <<>>]
    /\ flushed = [r \in Replicas |-> 0]
    /\ getAckRounds = 0 /\ pingRounds = 0
    /\ waiting = [c \in Clients |-> [pc |-> "none", need |-> 0, off |-> 0, reply |-> 0]]
    /\ wire = [r \in Replicas |-> <<>>]
    /\ up = [r \in Replicas |-> <<>>]
    /\ down = [r \in Replicas |-> FALSE]
    /\ hs = [r \in Replicas |-> "ping"]
    /\ phase = [r \in Replicas |-> "send"]
    /\ got = [r \in Replicas |-> "ok"]
    /\ reader = [r \in Replicas |-> "run"]
    /\ roff = [r \in Replicas |-> 0]
    /\ synced = [r \in Replicas |-> FALSE]
    /\ base = [r \in Replicas |-> 0]
    /\ applied = [r \in Replicas |-> <<>>]
    /\ doubled = [r \in Replicas |-> FALSE]

(***************************************************************************)
(* Writing to a connection.                                                *)
(***************************************************************************)
\* A write to a broken connection may still be accepted by the kernel (and go
\* nowhere); a write to one the master has closed fails.
CanWrite(r) == ~closed[r]
MayFail(r) == closed[r] \/ down[r]

Put(r, ms) == wire' = [wire EXCEPT ![r] = IF down[r] THEN @ ELSE @ \o ms]

Buffer(r, m) == wbuf' = [wbuf EXCEPT ![r] = Append(@, m)]

removeReplica(r) ==
    /\ replicas' = replicas \ {r}
    /\ closed' = [closed EXCEPT ![r] = TRUE]

\* bufio.Flush, first half: the whole buffer goes to the connection.  What an
\* unfinished Flush has already written goes there a second time.  (Looking at
\* the buffer and writing it is one step: a Flush is not overtaken in between.)
FlushWrite(r) ==
    /\ wbuf[r] # <<>>
    /\ CanWrite(r)
    /\ Put(r, wbuf[r])
    /\ flushed' = [flushed EXCEPT ![r] = Len(wbuf[r])]
    /\ doubled' = [doubled EXCEPT ![r] = @ \/ flushed[r] > 0]

\* Second half: the buffer is emptied.
FlushReset(r) ==
    /\ wbuf' = [wbuf EXCEPT ![r] = <<>>]
    /\ flushed' = [flushed EXCEPT ![r] = 0]

\* ... unless it grew since: Flush that wrote n messages reports a short write.
FlushShort(r, n) == Len(wbuf[r]) > n

(***************************************************************************)
(* The master's loop: writes, and the messages of the replicas.            *)
(***************************************************************************)
\* A write command and PropagateCommand: counted and sent to every replica
\* under Server.mu; a replica whose connection fails is removed.
Write(c) ==
    /\ loop = Idle
    /\ Len(log) < MaxWrites
    /\ offset' = offset + WriteLen
    /\ log' = Append(log, offset + WriteLen)
    /\ lastWrite' = [lastWrite EXCEPT ![c] = offset + WriteLen]
    /\ \E failing \in SUBSET {r \in replicas : MayFail(r)} :
         /\ {r \in replicas : closed[r]} \subseteq failing
         /\ replicas' = replicas \ failing
         /\ closed' = [r \in Replicas |-> closed[r] \/ r \in failing]
         /\ wire' = [r \in Replicas |->
              IF r \in replicas \ failing /\ ~down[r]
              THEN Append(wire[r], [kind |-> "write", n |-> Len(log) + 1])
              ELSE wire[r]]
    /\ UNCHANGED <<hasStream, acked, loop, goVars, flushVars, waiting, wbuf,
                   flushed, up, down, doubled, handshakeVars, replicaVars>>

\* XADD creates a stream key; it is not propagated.
XAdd ==
    /\ loop = Idle
    /\ Streams /\ ~hasStream
    /\ hasStream' = TRUE
    /\ UNCHANGED <<offset, log, lastWrite, replicas, acked, loop, goVars, flushVars,
                   waiting, connVars, handshakeVars, replicaVars>>

\* The loop takes the next message of replica r.
TakeUp(r, kind) ==
    /\ loop = Idle
    /\ up[r] # <<>>
    /\ Head(up[r]).kind = kind
    /\ up' = [up EXCEPT ![r] = Tail(@)]

GoOn(pc, r) == loop' = [pc |-> pc, conn |-> r, n |-> 0]

\* PING and REPLCONF capa are answered with a simple string.
HandlePing(r) ==
    /\ TakeUp(r, "ping") \/ TakeUp(r, "capa")
    /\ Buffer(r, [kind |-> "ok", n |-> 0])
    /\ GoOn("send", r)
    /\ UNCHANGED <<masterVars, goVars, flushVars, waiting, closed, flushed, wire,
                   down, doubled, handshakeVars, replicaVars>>

\* Mutant: the replica is not registered.
PortWithoutAddReplica(r) ==
    /\ TakeUp(r, "port")
    /\ Buffer(r, [kind |-> "ok", n |-> 0])
    /\ GoOn("send", r)
    /\ UNCHANGED <<masterVars, goVars, flushVars, waiting, closed, flushed, wire,
                   down, doubled, handshakeVars, replicaVars>>

\* REPLCONF listening-port, and addReplica before the answer is sent.
HandlePort(r) ==
    /\ TakeUp(r, "port")
    /\ Buffer(r, [kind |-> "ok", n |-> 0])
    /\ replicas' = replicas \cup {r}
    /\ GoOn("send", r)
    /\ UNCHANGED <<offset, log, lastWrite, hasStream, acked, goVars, flushVars,
                   waiting, closed, flushed, wire, down, doubled, handshakeVars,
                   replicaVars>>

\* REPLCONF ACK sets the offset of the connection and has no answer.
HandleAck(r) ==
    /\ TakeUp(r, "ack")
    /\ acked' = [acked EXCEPT ![r] = Head(up[r]).n]
    /\ GoOn("send", r)
    /\ UNCHANGED <<offset, log, lastWrite, hasStream, replicas, goVars, flushVars,
                   waiting, closed, wbuf, flushed, wire, down, doubled,
                   handshakeVars, replicaVars>>

\* PSYNC: FULLRESYNC is buffered and flushed, then the snapshot is taken and
\* written straight to the connection, or an error is buffered instead.
HandlePsync(r) ==
    /\ TakeUp(r, "psync")
    /\ Buffer(r, [kind |-> "full", n |-> 0])
    /\ GoOn("full", r)
    /\ UNCHANGED <<masterVars, goVars, flushVars, waiting, closed, flushed, wire,
                   down, doubled, handshakeVars, replicaVars>>

\* Mutant: the snapshot is always the empty one.
SendEmptySnapshot(r) ==
    /\ loop.pc = "rdb" /\ loop.conn = r
    /\ GoOn("send", r)
    /\ CanWrite(r)
    /\ Put(r, <<[kind |-> "rdb", n |-> 0]>>)
    /\ UNCHANGED <<masterVars, goVars, flushVars, waiting, closed, wbuf, flushed, up,
                   down, doubled, handshakeVars, replicaVars>>

SendSnapshot(r) ==
    /\ loop.pc = "rdb" /\ loop.conn = r
    /\ GoOn("send", r)
    /\ \/ /\ ~hasStream /\ CanWrite(r)
          /\ Put(r, <<[kind |-> "rdb", n |-> Len(log)]>>)
          /\ UNCHANGED wbuf
       \/ /\ hasStream \/ MayFail(r)
          /\ Buffer(r, [kind |-> "error", n |-> 0])
          /\ UNCHANGED wire
    /\ UNCHANGED <<masterVars, goVars, flushVars, waiting, closed, flushed, up,
                   down, doubled, handshakeVars, replicaVars>>

\* Client.Send in the loop: after every message, and inside PSYNC.
LoopFlush(r) ==
    /\ loop.pc \in {"send", "full"} /\ loop.conn = r
    /\ \/ /\ wbuf[r] = <<>>
          /\ IF loop.pc = "send" THEN loop' = Idle ELSE GoOn("rdb", r)
          /\ UNCHANGED <<closed, wire, flushed, doubled>>
       \/ /\ FlushWrite(r)
          /\ loop' = [pc |-> IF loop.pc = "send" THEN "reset" ELSE "fullreset",
                      conn |-> r, n |-> Len(wbuf[r])]
          /\ UNCHANGED closed
       \/ /\ wbuf[r] # <<>> /\ MayFail(r)
          /\ loop' = Idle
          /\ closed' = [closed EXCEPT ![r] = TRUE]
          /\ UNCHANGED <<wire, flushed, doubled>>
    /\ UNCHANGED <<masterVars, goVars, flushVars, waiting, wbuf, up, down,
                   handshakeVars, replicaVars>>

LoopReset(r) ==
    /\ loop.pc \in {"reset", "fullreset"} /\ loop.conn = r
    /\ \/ /\ FlushReset(r)
          /\ IF loop.pc = "reset" THEN loop' = Idle ELSE GoOn("rdb", r)
          /\ UNCHANGED closed
       \/ /\ FlushShort(r, loop.n)
          /\ loop' = Idle
          /\ closed' = [closed EXCEPT ![r] = TRUE]
          /\ UNCHANGED <<wbuf, flushed>>
    /\ UNCHANGED <<masterVars, goVars, flushVars, waiting, wire, up, down, doubled,
                   handshakeVars, replicaVars>>

(***************************************************************************)
(* The tickers and their goroutines.                                       *)
(***************************************************************************)
\* Mutant: the GETACK is not counted.
GetAckUncounted ==
    /\ getters' = [r \in Replicas |-> getters[r] + (IF r \in replicas THEN 1 ELSE 0)]
    /\ UNCHANGED offset

\* sendReplConfGetAckToAllReplicas: counted once, whatever the number of
\* replicas, before the goroutines that send it have run.
GetAckRound ==
    /\ offset' = offset + GetAckLen
    /\ getters' = [r \in Replicas |-> getters[r] + (IF r \in replicas THEN 1 ELSE 0)]

GetAckTick ==
    /\ getAckRounds < MaxGetAcks
    /\ getAckRounds' = getAckRounds + 1
    /\ GetAckRound
    /\ UNCHANGED <<log, lastWrite, hasStream, replicas, acked, loop, pingers,
                   pinging, pingRounds, flushVars, waiting, connVars,
                   handshakeVars, replicaVars>>

GetAckWrite(r) ==
    /\ getters[r] > 0
    /\ getters' = [getters EXCEPT ![r] = @ - 1]
    /\ Buffer(r, [kind |-> "getack", n |-> 0])
    /\ flushers' = [flushers EXCEPT ![r] = @ + 1]
    /\ UNCHANGED <<masterVars, loop, pingers, pinging, getAckRounds, pingRounds,
                   resetters, waiting, closed, flushed, wire, up, down, doubled,
                   handshakeVars, replicaVars>>

PingTick ==
    /\ pingRounds < MaxPings
    /\ pingRounds' = pingRounds + 1
    /\ pingers' = [r \in Replicas |-> pingers[r] + (IF r \in replicas THEN 1 ELSE 0)]
    /\ UNCHANGED <<masterVars, loop, getters, pinging, getAckRounds, flushVars,
                   waiting, connVars, handshakeVars, replicaVars>>

\* Mutant: a PING is counted that no goroutine was started for.
PingCountUnstarted(r) ==
    /\ pingers' = [pingers EXCEPT ![r] = @ - 1]
    /\ pinging' = [pinging EXCEPT ![r] = @ + 1]
    /\ offset' = offset + PingLen
    /\ UNCHANGED <<log, lastWrite, hasStream, replicas, acked, loop, getters,
                   getAckRounds, pingRounds, flushVars, waiting, connVars,
                   handshakeVars, replicaVars>>

\* sendPing counts its PING once for every replica, under Server.mu ...
PingCount(r) ==
    /\ pingers[r] > 0
    /\ pingers' = [pingers EXCEPT ![r] = @ - 1]
    /\ pinging' = [pinging EXCEPT ![r] = @ + 1]
    /\ offset' = offset + PingLen
    /\ UNCHANGED <<log, lastWrite, hasStream, replicas, acked, loop, getters,
                   getAckRounds, pingRounds, flushVars, waiting, connVars,
                   handshakeVars, replicaVars>>

\* ... and writes it to the connection later, then flushes the Writer.
PingWrite(r) ==
    /\ pinging[r] > 0
    /\ pinging' = [pinging EXCEPT ![r] = @ - 1]
    /\ \/ /\ CanWrite(r)
          /\ Put(r, <<[kind |-> "ping", n |-> 0]>>)
          /\ flushers' = [flushers EXCEPT ![r] = @ + 1]
          /\ UNCHANGED <<replicas, closed>>
       \/ /\ MayFail(r)
          /\ removeReplica(r)
          /\ UNCHANGED <<wire, flushers>>
    /\ UNCHANGED <<offset, log, lastWrite, hasStream, acked, loop, getters, pingers,
                   getAckRounds, pingRounds, resetters, waiting, wbuf, flushed, up,
                   down, doubled, handshakeVars, replicaVars>>

\* Writer.Flush of a GETACK or PING goroutine.
Flush(r) ==
    /\ flushers[r] > 0
    /\ flushers' = [flushers EXCEPT ![r] = @ - 1]
    /\ \/ /\ wbuf[r] = <<>>
          /\ UNCHANGED <<replicas, closed, resetters, flushed, wire, doubled>>
       \/ /\ FlushWrite(r)
          /\ resetters' = [resetters EXCEPT ![r] = Append(@, Len(wbuf[r]))]
          /\ UNCHANGED <<replicas, closed>>
       \/ /\ wbuf[r] # <<>> /\ MayFail(r)
          /\ removeReplica(r)
          /\ UNCHANGED <<resetters, flushed, wire, doubled>>
    /\ UNCHANGED <<offset, log, lastWrite, hasStream, acked, loop, goVars, waiting,
                   wbuf, up, down, handshakeVars, replicaVars>>

FlushEnd(r) ==
    /\ \E j \in 1 .. Len(resetters[r]) :
         /\ resetters' = [resetters EXCEPT ![r] =
                            SubSeq(@, 1, j - 1) \o SubSeq(@, j + 1, Len(@))]
         /\ \/ FlushReset(r) /\ UNCHANGED <<replicas, closed>>
            \/ /\ FlushShort(r, resetters[r][j])
               /\ removeReplica(r)
               /\ UNCHANGED <<wbuf, flushed>>
    /\ UNCHANGED <<offset, log, lastWrite, hasStream, acked, loop, goVars, flushers,
                   waiting, wire, up, down, doubled, handshakeVars, replicaVars>>

(***************************************************************************)
(* WAIT.                                                                   *)
(***************************************************************************)
\* Mutant: every connected replica counts.
ConnectedCount(off) == Cardinality(replicas)

AckedCount(off) == Cardinality({r \in replicas : acked[r] >= off})

\* The loop asks for ACKs and starts the goroutine.
StartWait(c) ==
    /\ loop = Idle
    /\ MaxWaits = 1 /\ waiting[c].pc = "none"
    /\ \E need \in 0 .. Cardinality(Replicas) :
         waiting' = [waiting EXCEPT ![c].pc = "start", ![c].need = need]
    /\ GetAckRound
    /\ UNCHANGED <<log, lastWrite, hasStream, replicas, acked, loop, pingers,
                   pinging, getAckRounds, pingRounds, flushVars, connVars,
                   handshakeVars, replicaVars>>

WaitVarsKept ==
    UNCHANGED <<masterVars, loop, goVars, flushVars, connVars, handshakeVars,
                replicaVars>>

\* No write of the client: the answer is 0.
WaitRead(c) ==
    /\ waiting[c].pc = "start"
    /\ waiting' = [waiting EXCEPT ![c].off = lastWrite[c],
                                  ![c].pc = IF lastWrite[c] = 0 THEN "done" ELSE "poll"]
    /\ WaitVarsKept

WaitAcked(c) ==
    /\ waiting[c].pc = "poll"
    /\ AckedCount(waiting[c].off) >= waiting[c].need
    /\ waiting' = [waiting EXCEPT ![c].pc = "done",
                                  ![c].reply = AckedCount(waiting[c].off)]
    /\ WaitVarsKept

\* The timeout answers with the number of connected replicas.
WaitTimeout(c) ==
    /\ waiting[c].pc = "poll"
    /\ AckedCount(waiting[c].off) < waiting[c].need
    /\ waiting' = [waiting EXCEPT ![c].pc = "timeout", ![c].reply = Cardinality(replicas)]
    /\ WaitVarsKept

(***************************************************************************)
(* The replica's handshake: startReplication and commandSender.            *)
(***************************************************************************)
Following(h) == CASE h = "ping" -> "port" [] h = "port" -> "capa"
                  [] h = "capa" -> "psync" [] OTHER -> "done"

\* startReplication returns an error: the process exits.
Exit(r) ==
    /\ hs' = [hs EXCEPT ![r] = "failed"]
    /\ wire' = [wire EXCEPT ![r] = <<>>]
    /\ reader' = [reader EXCEPT ![r] = "stop"]
    /\ down' = [down EXCEPT ![r] = TRUE]

\* commandSender writes and flushes the request; the response channel is
\* queued only afterwards.  It shares the Writer of the link with respondToGetAck;
\* at this end a write and its flush are taken as one step.
SendRequest(r) ==
    /\ hs[r] \in Requests /\ phase[r] = "send"
    /\ \/ /\ ~down[r]
          /\ up' = [up EXCEPT ![r] = Append(@, [kind |-> hs[r], n |-> 0])]
          /\ phase' = [phase EXCEPT ![r] = "sent"]
          /\ UNCHANGED <<hs, reader, down, wire>>
       \/ /\ down[r]
          /\ Exit(r)
          /\ UNCHANGED <<up, phase>>
    /\ UNCHANGED <<masterVars, loop, goVars, flushVars, waiting, closed, wbuf, flushed,
                   doubled, got, roff, synced, base, applied>>

QueueRequest(r) ==
    /\ hs[r] \in Requests /\ phase[r] = "sent"
    /\ phase' = [phase EXCEPT ![r] = "wait"]
    /\ UNCHANGED <<masterVars, loop, goVars, flushVars, waiting, connVars, hs, got,
                   replicaVars>>

\* sendCommandAndCheckOK and sendPsyncToMaster.
CheckResponse(r) ==
    /\ hs[r] \in Requests /\ phase[r] = "got"
    /\ IF got[r] = (IF hs[r] = "psync" THEN "full" ELSE "ok")
       THEN /\ hs' = [hs EXCEPT ![r] = Following(@)]
            /\ phase' = [phase EXCEPT ![r] = "send"]
            /\ UNCHANGED <<reader, down, wire>>
       ELSE Exit(r) /\ UNCHANGED phase
    /\ UNCHANGED <<masterVars, loop, goVars, flushVars, waiting, closed, wbuf, flushed,
                   up, doubled, got, roff, synced, base, applied>>

\* Mutant: no timeout.
HandshakeWithoutTimeout(r) == FALSE /\ UNCHANGED vars

\* Five seconds without a response.
HandshakeTimeout(r) ==
    /\ hs[r] \in Requests /\ phase[r] # "send"
    /\ Exit(r)
    /\ UNCHANGED <<masterVars, loop, goVars, flushVars, waiting, closed, wbuf, flushed,
                   up, doubled, phase, got, roff, synced, base, applied>>

(***************************************************************************)
(* The replica's master link: handleMasterConnection.                      *)
(***************************************************************************)
Receive(r) ==
    /\ wire[r] # <<>>
    /\ wire' = [wire EXCEPT ![r] = Tail(@)]

\* dispatchResponse: to the request that is queued, or to no one.
dispatchResponse(r, kind) ==
    IF phase[r] = "wait"
    THEN /\ phase' = [phase EXCEPT ![r] = "got"]
         /\ got' = [got EXCEPT ![r] = kind]
    ELSE UNCHANGED <<phase, got>>

LinkKept ==
    UNCHANGED <<masterVars, loop, goVars, flushVars, waiting, closed, wbuf, flushed,
                down, doubled, hs>>

\* Answers of the handshake.  After FULLRESYNC receiveRDB reads the stream.
ReadAnswer(r) ==
    /\ reader[r] = "run" /\ Receive(r)
    /\ Head(wire[r]).kind \in {"ok", "error", "full"}
    /\ dispatchResponse(r, Head(wire[r]).kind)
    /\ reader' = [reader EXCEPT ![r] =
                    IF Head(wire[r]).kind = "full" THEN "load" ELSE @]
    /\ LinkKept /\ UNCHANGED <<up, roff, synced, base, applied>>

\* A propagated write: executed, then counted.
ReadWrite(r) ==
    /\ reader[r] = "run" /\ Receive(r)
    /\ Head(wire[r]).kind = "write"
    /\ dispatchResponse(r, "write")
    /\ applied' = [applied EXCEPT ![r] = Append(@, Head(wire[r]).n)]
    /\ roff' = [roff EXCEPT ![r] = @ + WriteLen]
    /\ LinkKept /\ UNCHANGED <<up, reader, synced, base>>

\* GETACK: answered with the offset before it, then counted.
ReadGetAck(r) ==
    /\ reader[r] = "run" /\ Receive(r)
    /\ Head(wire[r]).kind = "getack"
    /\ dispatchResponse(r, "getack")
    /\ up' = [up EXCEPT ![r] =
                IF down[r] THEN @ ELSE Append(@, [kind |-> "ack", n |-> roff[r]])]
    /\ roff' = [roff EXCEPT ![r] = @ + GetAckLen]
    /\ LinkKept /\ UNCHANGED <<reader, synced, base, applied>>

ReadPing(r) ==
    /\ reader[r] = "run" /\ Receive(r)
    /\ Head(wire[r]).kind = "ping"
    /\ dispatchResponse(r, "ping")
    /\ roff' = [roff EXCEPT ![r] = @ + PingLen]
    /\ LinkKept /\ UNCHANGED <<up, reader, synced, base, applied>>

\* Mutant: the snapshot is merged into the store instead of replacing it.
LoadMerges(r) ==
    /\ reader[r] = "load" /\ Receive(r)
    /\ Head(wire[r]).kind = "rdb"
    /\ synced' = [synced EXCEPT ![r] = TRUE]
    /\ base' = [base EXCEPT ![r] = Head(wire[r]).n]
    /\ reader' = [reader EXCEPT ![r] = "run"]
    /\ LinkKept /\ UNCHANGED <<up, roff, phase, got, applied>>

\* receiveRDB finds the snapshot: RestoreRDB replaces the store, unless the
\* snapshot is empty.
LoadSnapshot(r) ==
    /\ reader[r] = "load" /\ Receive(r)
    /\ Head(wire[r]).kind = "rdb"
    /\ synced' = [synced EXCEPT ![r] = TRUE]
    /\ base' = [base EXCEPT ![r] = Head(wire[r]).n]
    /\ applied' = [applied EXCEPT ![r] = IF Head(wire[r]).n = 0 THEN @ ELSE <<>>]
    /\ reader' = [reader EXCEPT ![r] = "run"]
    /\ LinkKept /\ UNCHANGED <<up, roff, phase, got>>

\* Anything else in its place is not a header: receiveRDB gives up, and the
\* rest of an array is read as bulk strings that nothing executes or counts.
LoadRefused(r) ==
    /\ reader[r] = "load" /\ Receive(r)
    /\ Head(wire[r]).kind # "rdb"
    /\ reader' = [reader EXCEPT ![r] = "run"]
    /\ IF Head(wire[r]).kind \in Arrays
       THEN dispatchResponse(r, "bulk") ELSE UNCHANGED <<phase, got>>
    /\ LinkKept /\ UNCHANGED <<up, roff, synced, base, applied>>

\* A snapshot that receiveRDB no longer waits for is a bulk string without
\* CRLF: it takes the first two bytes of the message that follows.
ReadStrayRdb(r) ==
    /\ reader[r] = "run" /\ Receive(r)
    /\ Head(wire[r]).kind = "rdb"
    /\ reader' = [reader EXCEPT ![r] = "swallow"]
    /\ LinkKept /\ UNCHANGED <<up, roff, synced, base, applied, phase, got>>

ReadSwallowed(r) ==
    /\ reader[r] = "swallow" /\ Receive(r)
    /\ reader' = [reader EXCEPT ![r] = "run"]
    /\ dispatchResponse(r, "bulk")
    /\ LinkKept /\ UNCHANGED <<up, roff, synced, base, applied>>

\* The connection breaks, and the reader finds out.
Break(r) ==
    /\ Breaks /\ ~down[r]
    /\ down' = [down EXCEPT ![r] = TRUE]
    /\ UNCHANGED <<masterVars, loop, goVars, flushVars, waiting, closed, wbuf, flushed,
                   wire, up, doubled, handshakeVars, replicaVars>>

ReadEof(r) ==
    /\ reader[r] # "stop"
    /\ down[r] \/ (closed[r] /\ wire[r] = <<>>)
    /\ reader' = [reader EXCEPT ![r] = "stop"]
    /\ wire' = [wire EXCEPT ![r] = <<>>]
    /\ down' = [down EXCEPT ![r] = TRUE]
    /\ UNCHANGED <<masterVars, loop, goVars, flushVars, waiting, closed, wbuf, flushed,
                   up, doubled, handshakeVars, roff, synced, base, applied>>

(***************************************************************************)
(* The specification.                                                      *)
(***************************************************************************)
Loop(r) ==
    \/ HandlePing(r) \/ HandlePort(r) \/ HandleAck(r) \/ HandlePsync(r)
    \/ SendSnapshot(r) \/ LoopFlush(r) \/ LoopReset(r)

Goroutines(r) ==
    GetAckWrite(r) \/ PingCount(r) \/ PingWrite(r) \/ Flush(r) \/ FlushEnd(r)

Handshake(r) ==
    SendRequest(r) \/ QueueRequest(r) \/ CheckResponse(r) \/ HandshakeTimeout(r)

Link(r) ==
    \/ ReadAnswer(r) \/ ReadWrite(r) \/ ReadGetAck(r) \/ ReadPing(r)
    \/ LoadSnapshot(r) \/ LoadRefused(r) \/ ReadStrayRdb(r) \/ ReadSwallowed(r)
    \/ ReadEof(r)

Waiting(c) == WaitRead(c) \/ WaitAcked(c) \/ WaitTimeout(c)

Next ==
    \/ \E c \in Clients : Write(c) \/ StartWait(c) \/ Waiting(c)
    \/ XAdd \/ GetAckTick \/ PingTick
    \/ \E r \in Replicas :
         Loop(r) \/ Goroutines(r) \/ Handshake(r) \/ Link(r) \/ Break(r)

Spec == Init /\ [][Next]_vars

\* Runnable goroutines run, bytes on an open connection arrive, and timers
\* fire.  Clients need not write, and connections need not break.
Fairness ==
    /\ \A r \in Replicas : /\ SF_vars(Loop(r)) /\ WF_vars(Goroutines(r))
                           /\ WF_vars(Handshake(r)) /\ WF_vars(Link(r))
    /\ \A c \in Clients : WF_vars(Waiting(c))

FairSpec == Spec /\ Fairness

(***************************************************************************)
(* Properties.                                                             *)
(***************************************************************************)
\* Replica r holds write i: in the snapshot it loaded or executed since.
Holds(r, i) ==
    i <= base[r] \/ \E j \in 1 .. Len(applied[r]) : applied[r][j] = i

\* What WAIT relies on.  The master counts every byte before it is sent and
\* the replica counts only what it received, so a registered replica that has
\* loaded its snapshot and acknowledges the offset of a write holds that write,
\* whatever PINGs, GETACKs and handshake traffic were counted or lost around
\* it; unless two flushes of its Writer overlapped and sent a message twice.
AckMeansHeld ==
    \A r \in replicas : synced[r] /\ ~doubled[r] =>
      \A i \in 1 .. Len(log) : acked[r] >= log[i] => Holds(r, i)

\* The snapshot is taken after the replica was registered, so no write falls
\* between the snapshot and the stream: what a connected replica that has
\* loaded it does not hold is still on the wire to it.
NoWriteBetween ==
    \A r \in replicas : synced[r] /\ ~down[r] =>
      \A i \in 1 .. Len(log) :
        Holds(r, i) \/ \E j \in 1 .. Len(wire[r]) : wire[r][j] = [kind |-> "write", n |-> i]

\* What WAIT answers, when it does not time out: so many replicas hold all the
\* writes that its client had made, not counting on those that have joined
\* without a snapshot or were sent a message twice.
WaitMeansHeld ==
    \A c \in Clients : waiting[c].pc = "done" =>
      waiting[c].reply <= Cardinality({r \in Replicas :
        (synced[r] /\ ~doubled[r]) =>
          \A i \in 1 .. Len(log) : log[i] <= waiting[c].off => Holds(r, i)})

\* A handshake that succeeded matched each answer with its own request: on a
\* connection that is up the master has registered the replica, and has
\* answered its PSYNC.
HandshakeDoneMeansRegistered ==
    \A r \in Replicas : hs[r] = "done" /\ ~down[r] /\ ~closed[r] =>
      r \in replicas /\ \A i \in 1 .. Len(up[r]) : up[r][i].kind = "ack"

\* Every handshake ends: each request is answered, times out or fails.
HandshakeEnds == \A r \in Replicas : <>(hs[r] \in {"done", "failed"})

\* Replication implements the replicated log: a replica is unsynced until it
\* loads a snapshot, which is some prefix of the writes, also when it was
\* registered and was sent writes before; from then on each step of anyone
\* leaves what it holds alone or makes it execute the next write, once, in the
\* master's order and without a gap; and it eventually holds every write,
\* unless its connection is lost.
Abstract == INSTANCE ReplicatedLog WITH
    written <- Len(log),
    held <- [r \in Replicas |->
               IF synced[r] THEN [i \in 1 .. base[r] |-> i] \o applied[r] ELSE <<>>],
    lost <- [r \in Replicas |-> down[r] \/ closed[r]]

ImplementsReplicatedLog == Abstract!FairSpec

=============================================================================
