------------------------------- MODULE Server -------------------------------
(***************************************************************************)
(* The command loop of a master: internal/app/server/server.go (loop,      *)
(* handleMessage, handleBlockingCommand, PropagateCommand), the sessions   *)
(* of internal/client/client.go and the transaction commands of            *)
(* pkg/command/transaction.go, over the store of module KeyVal.            *)
(*                                                                         *)
(* One goroutine (the loop) takes messages off messageChan one at a time.  *)
(* WAIT runs in a goroutine of its own, unless it was queued by MULTI: EXEC *)
(* runs queued commands inside the loop, one after the other.  The         *)
(* replicas' ACKs are messages of the same loop.                           *)
(*                                                                         *)
(* A WAIT's goroutine and the loop write to and flush the same bufio.Writer *)
(* of their client without a lock: the goroutine is inside it from         *)
(* WaitWrite to WaitSend, and what that does to the replies written        *)
(* meanwhile is a choice (variable raced, action Deliver).                 *)
(*                                                                         *)
(* The byte offset is abstracted to the number of propagated commands      *)
(* (module Replication counts bytes), and a replica's ACK to any offset    *)
(* not smaller than its last one.                                          *)
(***************************************************************************)
EXTENDS KeyVal, Sequences, FiniteSets

CONSTANTS
    Clients,    \* connections of ordinary clients
    NoClient,   \* "the loop is not inside an EXEC"
    Replicas,   \* connected replicas
    Commands,   \* the commands each client may send
    MaxReq,     \* bound: the number of requests of each client
    MaxPipe,    \* bound: the requests of a client that wait for the loop
    MaxTime     \* bound: the clock

ASSUME ServerAssumption ==
    /\ NoClient \notin Clients
    /\ \A c \in Clients : Commands[c] \subseteq Command
    /\ IsFiniteSet(Replicas)
    /\ \A c \in Clients : MaxReq[c] \in Nat
    /\ MaxPipe \in Nat
    /\ MaxTime \in Nat

VARIABLES
    store,      \* Server.store
    mirror,     \* history: a store to which every propagated command was applied
    now,        \* time.Now
    log,        \* the propagated commands, as [cl, id]
    lastWrite,  \* Client.lastWriteOffset
    acked,      \* Client.offset of a replica's connection
    peer,       \* is the remote end of the client's connection still there
    clients,    \* Server.clients
    inbox,      \* requests of a client that the loop has not taken yet
    nreq,       \* number of requests the client has sent
    inTx,       \* Client.inTransaction
    txQueue,    \* Client.txQueue
    execCl,     \* the client whose EXEC the loop is running
    execId,     \* the request of that EXEC
    execPos,    \* the queued command that EXEC runs next
    waits,      \* goroutines of handleBlockingCommand
    out,        \* replies delivered to the client, as [id, kind]
    raced,      \* history: the requests whose reply was written while another
                \* goroutine was inside the client's Writer
    ran         \* history: the commands executed, as [cl, id, tx]

execVars == <<execCl, execId, execPos>>
sessionVars == <<inTx, txQueue, execVars>>
dataVars == <<store, mirror, log, lastWrite, ran>>
vars == <<store, mirror, now, log, lastWrite, acked, peer, clients, inbox,
          nreq, inTx, txQueue, execCl, execId, execPos, waits, out, raced, ran>>

Message == [id : Nat, cmd : Command]

LogEntry == [cl : Clients, id : Nat]

RunEntry == [cl : Clients, id : Nat, tx : Nat]

ReplyKinds == {"error", "queued", "ok", "array", "data", "count", "refused"}

Answer == [id : Nat, kind : ReplyKinds]

WaitState == [cl : Clients, id : Nat, cmd : Command, read : BOOLEAN, off : Nat,
              sending : BOOLEAN]

TypeOK ==
    /\ store \in Store
    /\ mirror \in Store
    /\ now \in Nat
    /\ log \in Seq(LogEntry)
    /\ lastWrite \in [Clients -> Nat]
    /\ acked \in [Replicas -> Nat]
    /\ peer \in [Clients -> BOOLEAN]
    /\ clients \subseteq Clients
    /\ inbox \in [Clients -> Seq(Message)]
    /\ nreq \in [Clients -> Nat]
    /\ inTx \in [Clients -> BOOLEAN]
    /\ txQueue \in [Clients -> Seq(Message)]
    /\ execCl \in Clients \cup {NoClient}
    /\ execId \in Nat
    /\ execPos \in Nat \ {0}
    /\ waits \subseteq WaitState
    /\ out \in [Clients -> Seq(Answer)]
    /\ raced \in [Clients -> SUBSET Nat]
    /\ ran \in Seq(RunEntry)

Init ==
    /\ store = NewStore
    /\ mirror = NewStore
    /\ now = 1
    /\ log = <<>>
    /\ lastWrite = [c \in Clients |-> 0]
    /\ acked = [r \in Replicas |-> 0]
    /\ peer = [c \in Clients |-> TRUE]
    /\ clients = Clients
    /\ inbox = [c \in Clients |-> <<>>]
    /\ nreq = [c \in Clients |-> 0]
    /\ inTx = [c \in Clients |-> FALSE]
    /\ txQueue = [c \in Clients |-> <<>>]
    /\ execCl = NoClient
    /\ execId = 0
    /\ execPos = 1
    /\ waits = {}
    /\ out = [c \in Clients |-> <<>>]
    /\ raced = [c \in Clients |-> {}]
    /\ ran = <<>>

(***************************************************************************)
(* Pieces of the handlers.                                                 *)
(***************************************************************************)
\* The goroutines between writing their reply to client c and the end of their
\* Send.  An overlap with the loop can be taken to begin before the loop's step.
Sending(c) == {w \in waits : w.cl = c /\ w.sending}

\* Request id of client c is answered next to the goroutines ws.
Race(c, id, ws) ==
    raced' = IF ws = {} THEN raced
             ELSE [raced EXCEPT ![c] = @ \cup {id} \cup {w.id : w \in ws}]

\* What a Send brings to the client.  A flush to a peer that is gone is lost;
\* once it fails the client is closed, and its bufio.Writer refuses every later
\* write: c \notin clients stands for both.  Two unlocked flushes of a buffer
\* may send a reply twice, clear or overwrite one that is not sent yet, or meet
\* a short write, which closes the client of a live connection.
Deliver(c, id, kind, mixed) ==
    LET once == Append(out[c], [id |-> id, kind |-> kind])
    IN  \/ /\ peer[c] /\ c \in clients /\ ~mixed
           /\ out' = [out EXCEPT ![c] = once]
           /\ UNCHANGED clients
        \/ /\ peer[c] /\ c \in clients /\ mixed
           /\ \E seen \in {out[c], once, Append(once, [id |-> id, kind |-> kind])} :
                out' = [out EXCEPT ![c] = seen]
           /\ clients' \in {clients, clients \ {c}}
        \/ /\ ~(peer[c] /\ c \in clients)
           /\ clients' \in {clients, clients \ {c}}
           /\ UNCHANGED out

\* The loop writes a reply and calls Client.Send.
Reply(c, id, kind) ==
    /\ Race(c, id, Sending(c))
    /\ Deliver(c, id, kind, Sending(c) # {})

\* Writing a reply fails when the client is closed, or when a flush next to it
\* has just met a short write.
MayFail(c) == c \notin clients \/ Sending(c) # {}

\* The error of a failed write cannot be written either: the client is closed.
ReplyFails(c, id) ==
    /\ Race(c, id, Sending(c))
    /\ clients' = clients \ {c}
    /\ UNCHANGED out

\* Mutant: messages are handled while an EXEC is running.
TakeDuringExec(c) ==
    inbox[c] # <<>> /\ inbox' = [inbox EXCEPT ![c] = Tail(@)]

\* Mutant: the message stays in the buffer and is handled again.
TakeWithoutConsuming(c) ==
    execCl = NoClient /\ inbox[c] # <<>> /\ UNCHANGED inbox

\* Mutant: the loop itself waits for a blocking command.
TakeBehindWait(c) ==
    /\ execCl = NoClient /\ waits = {}
    /\ inbox[c] # <<>> /\ inbox' = [inbox EXCEPT ![c] = Tail(@)]

\* The loop takes the next message of client c off messageChan.
Take(c) ==
    /\ execCl = NoClient
    /\ inbox[c] # <<>>
    /\ inbox' = [inbox EXCEPT ![c] = Tail(@)]

\* A known command that is not queued by a transaction.
Direct(c, cmd) ==
    /\ cmd.name # "unknown"
    /\ inTx[c] => cmd.name \in TransactionCommands

\* Mutant: the offset is recorded before it is advanced.
PropagateStale(c, m) ==
    /\ log' = Append(log, [cl |-> c, id |-> m.id])
    /\ lastWrite' = [lastWrite EXCEPT ![c] = Len(log)]
    /\ mirror' = Execute(mirror, m.cmd, now)

\* PropagateCommand, called by handleMessage and by Exec.Execute.
PropagateCommand(c, m) ==
    /\ log' = Append(log, [cl |-> c, id |-> m.id])
    /\ lastWrite' = [lastWrite EXCEPT ![c] = Len(log) + 1]
    /\ mirror' = Execute(mirror, m.cmd, now)

\* Running command m for client c; tx is the request of the EXEC, or 0.
Run(c, m, tx, propagate) ==
    /\ store' = Execute(store, m.cmd, now)
    /\ ran' = Append(ran, [cl |-> c, id |-> m.id, tx |-> tx])
    /\ \/ propagate /\ PropagateCommand(c, m)
       \/ ~propagate /\ UNCHANGED <<log, lastWrite, mirror>>

AckedCount(off) == Cardinality({r \in Replicas : acked[r] >= off})

\* Wait.Execute has its answer: refused arguments, no write to wait for,
\* enough ACKs, or the timeout (which may expire at any time).
WaitOver(cmd, off) ==
    \/ cmd.bad
    \/ off = 0
    \/ AckedCount(off) >= cmd.need
    \/ ~cmd.forever

(***************************************************************************)
(* The clients and the clock.                                              *)
(***************************************************************************)
Request(c) ==
    /\ peer[c] /\ c \in clients
    /\ nreq[c] < MaxReq[c]
    /\ Len(inbox[c]) < MaxPipe
    /\ nreq' = [nreq EXCEPT ![c] = @ + 1]
    /\ \E cmd \in Commands[c] :
         inbox' = [inbox EXCEPT ![c] = Append(@, [id |-> nreq[c] + 1, cmd |-> cmd])]
    /\ UNCHANGED <<dataVars, sessionVars, now, acked, peer, clients, waits, out, raced>>

Disconnect(c) ==
    /\ peer[c]
    /\ peer' = [peer EXCEPT ![c] = FALSE]
    /\ UNCHANGED <<dataVars, sessionVars, now, acked, clients, inbox, nreq, waits, out, raced>>

\* HandleConnection's read fails, as the peer or closeClient closed the
\* connection: what it had not parsed yet is lost.
StopReading(c) ==
    /\ ~(peer[c] /\ c \in clients)
    /\ \E n \in 0 .. Len(inbox[c]) - 1 :
         inbox' = [inbox EXCEPT ![c] = SubSeq(@, 1, n)]
    /\ UNCHANGED <<dataVars, sessionVars, now, acked, peer, clients, nreq, waits, out, raced>>

Tick ==
    /\ now < MaxTime
    /\ now' = now + 1
    /\ UNCHANGED <<dataVars, sessionVars, acked, peer, clients, inbox, nreq, waits, out, raced>>

\* Mutant: ACKs are handled outside of the loop.
AckOutsideLoop(r) ==
    /\ \E off \in acked[r] + 1 .. Len(log) : acked' = [acked EXCEPT ![r] = off]
    /\ UNCHANGED <<dataVars, sessionVars, now, peer, clients, inbox, nreq, waits, out, raced>>

\* A REPLCONF ACK of replica r, handled by the loop; it gets no reply.
HandleAck(r) ==
    /\ execCl = NoClient
    /\ \E off \in acked[r] + 1 .. Len(log) : acked' = [acked EXCEPT ![r] = off]
    /\ UNCHANGED <<dataVars, sessionVars, now, peer, clients, inbox, nreq, waits, out, raced>>

(***************************************************************************)
(* handleMessage, by kind of message.                                      *)
(***************************************************************************)
\* GetCommand fails: the error is answered, in a transaction too, and the
\* transaction goes on without the command.
Unknown(c) ==
    /\ Take(c)
    /\ Head(inbox[c]).cmd.name = "unknown"
    /\ Reply(c, Head(inbox[c]).id, "error")
    /\ UNCHANGED <<dataVars, sessionVars, now, acked, peer, nreq, waits>>

Enqueue(c) ==
    /\ Take(c)
    /\ inTx[c]
    /\ Head(inbox[c]).cmd.name \notin TransactionCommands \cup {"unknown"}
    /\ txQueue' = [txQueue EXCEPT ![c] = Append(@, Head(inbox[c]))]
    /\ Reply(c, Head(inbox[c]).id, "queued")
    /\ UNCHANGED <<dataVars, inTx, execVars, now, acked, peer, nreq, waits>>

\* MULTI inside a transaction, EXEC and DISCARD outside of one, and any of
\* them with arguments, only write an error.
TxRefuses(c, cmd) ==
    /\ cmd.name \in TransactionCommands
    /\ cmd.bad \/ (cmd.name = "multi" <=> inTx[c])

RefuseTx(c) ==
    /\ Take(c)
    /\ TxRefuses(c, Head(inbox[c]).cmd)
    /\ Reply(c, Head(inbox[c]).id, "error")
    /\ UNCHANGED <<dataVars, sessionVars, now, acked, peer, nreq, waits>>

Multi(c) ==
    /\ Take(c)
    /\ Head(inbox[c]).cmd.name = "multi"
    /\ ~TxRefuses(c, Head(inbox[c]).cmd)
    /\ inTx' = [inTx EXCEPT ![c] = TRUE]
    /\ txQueue' = [txQueue EXCEPT ![c] = <<>>]
    /\ Reply(c, Head(inbox[c]).id, "ok")
    /\ UNCHANGED <<dataVars, execVars, now, acked, peer, nreq, waits>>

\* Mutant: the session stays in its transaction.
ClearNothing(c) == UNCHANGED <<inTx, txQueue>>

ClearTransaction(c) ==
    /\ inTx' = [inTx EXCEPT ![c] = FALSE]
    /\ txQueue' = [txQueue EXCEPT ![c] = <<>>]

Discard(c) ==
    /\ Take(c)
    /\ Head(inbox[c]).cmd.name = "discard"
    /\ ~TxRefuses(c, Head(inbox[c]).cmd)
    /\ ClearTransaction(c)
    /\ Reply(c, Head(inbox[c]).id, "ok")
    /\ UNCHANGED <<dataVars, execVars, now, acked, peer, nreq, waits>>

\* Mutant: EXEC skips the first queued command.
ExecSkipsFirst(c) ==
    /\ Take(c)
    /\ Head(inbox[c]).cmd.name = "exec"
    /\ ~TxRefuses(c, Head(inbox[c]).cmd)
    /\ execCl' = c /\ execId' = Head(inbox[c]).id /\ execPos' = 2
    /\ UNCHANGED <<dataVars, inTx, txQueue, now, acked, peer, clients, nreq,
                   waits, out, raced>>

\* EXEC is taken: the loop now belongs to it.
ExecBegin(c) ==
    /\ Take(c)
    /\ Head(inbox[c]).cmd.name = "exec"
    /\ ~TxRefuses(c, Head(inbox[c]).cmd)
    /\ execCl' = c
    /\ execId' = Head(inbox[c]).id
    /\ execPos' = 1
    /\ UNCHANGED <<dataVars, inTx, txQueue, now, acked, peer, clients, nreq,
                   waits, out, raced>>

\* The next queued command.  A write is propagated even if it returned an
\* error.  A WAIT holds the loop until it is over.
ExecCommand(c) ==
    /\ execCl = c
    /\ execPos <= Len(txQueue[c])
    /\ LET m == txQueue[c][execPos]
       IN  /\ m.cmd.name = "wait" => WaitOver(m.cmd, lastWrite[c])
           /\ Run(c, m, execId, m.cmd.name \in WriteableCommands)
    /\ execPos' = execPos + 1
    /\ UNCHANGED <<inTx, txQueue, execCl, execId, now, acked, peer, clients, inbox,
                   nreq, waits, out, raced>>

\* Mutant: the reply of EXEC waits for a client that is gone.
ExecEndNeedsPeer(c) ==
    /\ execCl = c /\ peer[c]
    /\ execPos > Len(txQueue[c])
    /\ execCl' = NoClient /\ execId' = 0 /\ execPos' = 1
    /\ ClearTransaction(c)
    /\ Reply(c, execId, "array")
    /\ UNCHANGED <<dataVars, now, acked, peer, inbox, nreq, waits>>

\* The reply is written first: if that fails the transaction is not cleared.
ExecEnd(c) ==
    /\ execCl = c
    /\ execPos > Len(txQueue[c])
    /\ execCl' = NoClient
    /\ execId' = 0
    /\ execPos' = 1
    /\ \/ c \in clients /\ ClearTransaction(c) /\ Reply(c, execId, "array")
       \/ MayFail(c) /\ UNCHANGED <<inTx, txQueue>> /\ ReplyFails(c, execId)
    /\ UNCHANGED <<dataVars, now, acked, peer, inbox, nreq, waits>>

\* A command that does not block, outside of a transaction.  A write whose reply
\* cannot be written has been executed, and is not propagated.
ExecuteDirect(c) ==
    LET m == Head(inbox[c])
    IN  /\ Take(c)
        /\ Direct(c, m.cmd)
        /\ m.cmd.name \in DataCommands
        /\ \/ /\ c \in clients
              /\ Run(c, m, 0, m.cmd.name \in WriteableCommands /\ ~ReturnsError(m.cmd))
              /\ Reply(c, m.id, IF ReturnsError(m.cmd) THEN "error" ELSE "data")
           \/ /\ MayFail(c)
              /\ Run(c, m, 0, FALSE)
              /\ ReplyFails(c, m.id)
        /\ UNCHANGED <<sessionVars, now, acked, peer, nreq, waits>>

\* WAIT outside of a transaction starts a goroutine and the loop goes on to its
\* Send, which may flush next to others.  A WAIT that is over at once may have
\* written its reply by then.
StartWait(c) ==
    LET m == Head(inbox[c])
        new == [cl |-> c, id |-> m.id, cmd |-> m.cmd, read |-> FALSE, off |-> 0,
                sending |-> FALSE]
    IN  /\ Take(c)
        /\ Direct(c, m.cmd)
        /\ m.cmd.name = "wait"
        /\ \/ /\ waits' = waits \cup {new}
              /\ raced' = [raced EXCEPT ![c] = @ \cup {w.id : w \in Sending(c)}]
              /\ clients' \in {clients} \cup {clients \ {c} : w \in Sending(c)}
           \/ /\ WaitOver(m.cmd, lastWrite[c])
              /\ waits' = waits \cup {[new EXCEPT !.read = TRUE, !.off = lastWrite[c],
                                                  !.sending = TRUE]}
              /\ raced' = [raced EXCEPT ![c] = @ \cup {m.id} \cup {w.id : w \in Sending(c)}]
              /\ clients' \in {clients, clients \ {c}}
        /\ UNCHANGED <<dataVars, sessionVars, now, acked, peer, nreq, out>>

(***************************************************************************)
(* handleBlockingCommand and Wait.Execute.                                 *)
(***************************************************************************)
\* The goroutine reads lastWriteOffset, some time after the loop went on.
WaitRead(w) ==
    /\ ~w.read
    /\ waits' = (waits \ {w}) \cup
                {[w EXCEPT !.read = TRUE, !.off = lastWrite[w.cl]]}
    /\ UNCHANGED <<dataVars, sessionVars, now, acked, peer, clients, inbox, nreq, out, raced>>

\* Wait.Execute has its answer and writes it to the client's buffer.
WaitWrite(w) ==
    /\ w.read /\ ~w.sending
    /\ WaitOver(w.cmd, w.off)
    /\ waits' = (waits \ {w}) \cup {[w EXCEPT !.sending = TRUE]}
    /\ Race(w.cl, w.id, Sending(w.cl))
    /\ UNCHANGED <<dataVars, sessionVars, now, acked, peer, clients, inbox, nreq, out>>

\* Mutant: the goroutine ends without sending what it wrote.
WaitEndsUnsent(w) ==
    /\ w.sending
    /\ waits' = waits \ {w}
    /\ UNCHANGED <<dataVars, sessionVars, now, acked, peer, clients, inbox, nreq, out, raced>>

\* handleBlockingCommand's Send returns and the goroutine ends.
WaitSend(w) ==
    /\ w.sending
    /\ waits' = waits \ {w}
    /\ Deliver(w.cl, w.id, IF w.cmd.bad THEN "refused" ELSE "count",
               w.id \in raced[w.cl])
    /\ UNCHANGED <<dataVars, sessionVars, now, acked, peer, inbox, nreq, raced>>

(***************************************************************************)
(* The specification.                                                      *)
(***************************************************************************)
Handle(c) ==
    \/ Unknown(c) \/ Enqueue(c) \/ RefuseTx(c) \/ Multi(c) \/ Discard(c)
    \/ ExecBegin(c) \/ ExecuteDirect(c) \/ StartWait(c)

Next ==
    \/ \E c \in Clients : Request(c) \/ Disconnect(c) \/ StopReading(c)
    \/ Tick
    \/ \E r \in Replicas : HandleAck(r)
    \/ \E c \in Clients : Handle(c) \/ ExecCommand(c) \/ ExecEnd(c)
    \/ \E w \in waits : WaitRead(w) \/ WaitWrite(w) \/ WaitSend(w)

Spec == Init /\ [][Next]_vars

\* Go schedules every runnable goroutine: the loop, which chooses among ready
\* senders at random, and the goroutines of blocking commands, each of which
\* has three steps.
Fairness ==
    /\ \A c \in Clients : SF_vars(Handle(c)) /\ WF_vars(ExecCommand(c) \/ ExecEnd(c))
    /\ WF_vars(\E w \in waits : WaitRead(w) \/ WaitWrite(w) \/ WaitSend(w))

FairSpec == Spec /\ Fairness

(***************************************************************************)
(* Properties.                                                             *)
(***************************************************************************)
\* PropagateCommand sends every effective write of a string and nothing that is
\* not one (XADD is not among the WriteableCommands and never propagated): a
\* replica that applies the propagated commands without delay shows, at any
\* time, exactly the live strings of the master with the same expiry, whatever
\* was refused, failed inside an EXEC, expired, or was lazily deleted by a GET.
\* This ends when a flush to a client fails: the writes that client has in the
\* buffer are then executed without being propagated.
MirrorAgrees ==
    clients = Clients =>
      \A k \in Keys : Visible(store, k, now) = Visible(mirror, k, now)

\* PropagateCommand records for its client the offset of that client's latest
\* write, and a write of another client never moves it (proved in ServerProofs,
\* where WaitCoversEarlierWrites rests on it).
LastWriteIsOwn ==
    \A c \in Clients :
      /\ lastWrite[c] \in 0 .. Len(log)
      /\ lastWrite[c] > 0 => log[lastWrite[c]].cl = c
      /\ \A i \in 1 .. Len(log) : log[i].cl = c => i <= lastWrite[c]

\* Wait.Execute reads lastWriteOffset in its own goroutine, late: the offset it
\* waits for covers every write its client sent before the WAIT.
WaitCoversEarlierWrites ==
    \A w \in waits, i \in 1 .. Len(log) :
      w.read /\ log[i].cl = w.cl /\ log[i].id < w.id => i <= w.off

\* Exec.Execute runs inside the loop: between two commands of one EXEC no
\* command of another client, and none from outside the EXEC, is executed.
TransactionsAreContiguous ==
    \A i, j, k \in 1 .. Len(ran) :
      i < j /\ j < k /\ ran[i].tx # 0 /\ ran[i].tx = ran[k].tx /\ ran[i].cl = ran[k].cl
        => ran[j].cl = ran[i].cl /\ ran[j].tx = ran[i].tx

\* A client's commands are executed in the order it sent them and none twice,
\* directly or out of its txQueue, until a flush to it fails (an EXEC that
\* cannot write its reply keeps its queue, and the next EXEC runs it again).
RunsInOrder ==
    \A i, j \in 1 .. Len(ran) :
      i < j /\ ran[i].cl = ran[j].cl /\ ran[i].cl \in clients
        => ran[i].id < ran[j].id

\* The requests of client c answered QUEUED since the MULTI that the reply at
\* position p closes.
QueuedBefore(c, p) ==
    {out[c][q].id : q \in {q \in 1 .. p - 1 :
        /\ out[c][q].kind = "queued"
        /\ \A k \in q .. p - 1 : out[c][k].kind \notin {"ok", "array"}}}

\* An EXEC that was answered ran exactly the commands answered QUEUED since its
\* MULTI: nothing left over from a discarded or an earlier transaction, and
\* nothing lost, however the client pipelined them.  It is told by the replies,
\* so it is about clients none of whose replies met another one in the Writer.
ExecRunsItsQueue ==
    \A c \in Clients : raced[c] = {} => \A p \in 1 .. Len(out[c]) :
      out[c][p].kind = "array" =>
        QueuedBefore(c, p) =
          {ran[i].id : i \in {i \in 1 .. Len(ran) :
                                ran[i].cl = c /\ ran[i].tx = out[c][p].id}}

\* No request is answered twice, and only the answer of a blocking command,
\* sent by its goroutine, may arrive after the answer to a later request.  The
\* replies that a goroutine and the loop had in the client's unlocked Writer at
\* the same time are excepted, and no others: those may come twice.
RepliesInOrder ==
    \A c \in Clients : \A p, q \in 1 .. Len(out[c]) :
      p < q /\ {out[c][p].id, out[c][q].id} \cap raced[c] = {} =>
        \/ out[c][p].id < out[c][q].id
        \/ /\ out[c][q].kind \in {"count", "refused"}
           /\ out[c][p].id # out[c][q].id

\* As long as the connection is up every request is waiting for the loop, held
\* by an EXEC or a WAIT, answered, or one whose reply met another one in the
\* client's Writer: no handler forgets its reply, and a race between the loop
\* and a goroutine costs no reply but the ones in it.
NoRequestForgotten ==
    \A c \in Clients : peer[c] /\ c \in clients =>
      \A id \in (1 .. nreq[c]) \ raced[c] :
        \/ \E i \in 1 .. Len(inbox[c]) : inbox[c][i].id = id
        \/ \E p \in 1 .. Len(out[c]) : out[c][p].id = id
        \/ \E w \in waits : w.cl = c /\ w.id = id
        \/ execCl = c /\ execId = id

\* EXEC has reached a WAIT without timeout that lacks ACKs.
ExecStuck(c) ==
    /\ execCl = c
    /\ execPos <= Len(txQueue[c])
    /\ LET m == txQueue[c][execPos]
       IN  m.cmd.name = "wait" /\ ~WaitOver(m.cmd, lastWrite[c])

\* ACKs are handled by the loop that EXEC occupies: a queued WAIT without
\* timeout that is short of ACKs when EXEC reaches it stays short for ever.
QueuedWaitNeverWakes ==
    [][\A c \in Clients : ExecStuck(c) => ExecStuck(c)']_vars

\* Of the commands of this module only that WAIT can make an EXEC hold the loop:
\* any other EXEC ends.  (A queued XREAD BLOCK 0 is another way, see XRead.)
ExecFinishes ==
    \A c \in Clients : execCl = c ~> (execCl = NoClient \/ ExecStuck(c))

\* Request id of client c is answered, or is a WAIT without timeout that lacks
\* ACKs.
Settled(c, id) ==
    \/ \E p \in 1 .. Len(out[c]) : out[c][p].id = id
    \/ \E w \in waits : w.cl = c /\ w.id = id /\ w.read /\ ~WaitOver(w.cmd, w.off)

\* Every request of a client that stays connected is settled (a client sends
\* finitely many), the ones that block included, unless its reply met another
\* one in the client's Writer or a WAIT inside an EXEC has stopped the loop for
\* everyone.
EveryRequestAnswered ==
    \A c \in Clients :
      []<>(\/ ~(peer[c] /\ c \in clients)
           \/ \A id \in (1 .. nreq[c]) \ raced[c] : Settled(c, id)
           \/ \E d \in Clients : ExecStuck(d))

\* The comment on SET says of KEEPTTL: "Retain the time to live associated with
\* the key."  A SET with KEEPTTL that is executed on a live key with an expiry
\* would then leave that expiry in place.
KeepTtlRetains ==
    [][\A c \in Clients :
         inbox[c] # <<>> =>
           LET m == Head(inbox[c])
           IN  (/\ m.cmd.name = "set" /\ m.cmd.keepttl /\ ~SetRejects(m.cmd)
                /\ Found(store, m.cmd.key, now)
                /\ ran' = Append(ran, [cl |-> c, id |-> m.id, tx |-> 0]))
               => store'[m.cmd.key].expiry = store[m.cmd.key].expiry]_vars

=============================================================================
