------------------------------ MODULE Framing ------------------------------
(***************************************************************************)
(* A write on its way from a client's connection to a replica: the two     *)
(* readers that cut a byte stream into commands, HandleConnection of       *)
(* internal/client/client.go and handleMasterConnection of                 *)
(* internal/app/server/server.go, and the loop between them, which counts  *)
(* and propagates the bytes of each write.                                 *)
(*                                                                         *)
(* Both readers take one line at a time, add it to a buffer and parse the  *)
(* whole buffer again; what they make of an error decides whether the      *)
(* stream stays in step.  They differ: a value that is not complete is an  *)
(* error for the one and a reason to wait for the other.                   *)
(*                                                                         *)
(* Every command here is taken to be a write that succeeds; what commands  *)
(* do is in module Server, and the other traffic of the link in module     *)
(* Replication.                                                            *)
(***************************************************************************)
EXTENDS Resp

CONSTANTS
    Commands,     \* what the client may send
    MaxCommands   \* bound: how many commands it sends

\* A command has a value; the values are any bytes.
ASSUME FramingAssumption ==
    /\ MaxCommands \in Nat
    /\ \A c \in Commands : c \in Seq(Seq(Byte)) /\ c # <<>>

VARIABLES
    wire,      \* bytes from the client that have not been read
    open,      \* has the client kept the connection
    buffer,    \* the buffer of HandleConnection
    pc,        \* HandleConnection: "reading", "sending" or "leaving"
    msg,       \* the command it offers on messageChan
    offset,    \* Server.offset of the master
    link,      \* bytes to the replica that have not been read
    rbuffer,   \* the buffer of handleMasterConnection
    roffset,   \* Server.offset of the replica
    sent,      \* history: the commands of the client
    taken,     \* history: the commands the loop has handled
    executed   \* history: the commands the replica has executed

vars == <<wire, open, buffer, pc, msg, offset, link, rbuffer, roffset, sent, taken,
          executed>>

clientVars == <<wire, open, sent>>
connVars == <<buffer, pc, msg>>
replicaVars == <<rbuffer, roffset, executed>>

Init ==
    /\ wire = <<>> /\ open = TRUE
    /\ buffer = <<>> /\ pc = "reading" /\ msg = <<>>
    /\ offset = 0 /\ link = <<>>
    /\ rbuffer = <<>> /\ roffset = 0
    /\ sent = <<>> /\ taken = <<>> /\ executed = <<>>

(***************************************************************************)
(* The client.                                                             *)
(***************************************************************************)
\* Commands may be sent without waiting for the answers.
Send(c) ==
    /\ open /\ Len(sent) < MaxCommands
    /\ sent' = Append(sent, c)
    /\ wire' = wire \o WriteStringSlice(c)
    /\ UNCHANGED <<open, connVars, offset, link, taken, replicaVars>>

\* The connection ends, and may take with it what has not been read.
Close ==
    /\ open
    /\ open' = FALSE
    /\ \E n \in 0 .. Len(wire) : wire' = SubSeq(wire, 1, n)
    /\ UNCHANGED <<connVars, offset, link, sent, taken, replicaVars>>

(***************************************************************************)
(* HandleConnection.                                                       *)
(***************************************************************************)
\* Does the first line of s have n bytes.
FirstLine(s, n) == s[n] = LF /\ \A m \in 1 .. n - 1 : s[m] # LF

\* What a reader has in front of it, with what it parses from that: its
\* buffer and the first n bytes of the stream.
Parsed(buf, stream, n) ==
    {[bytes |-> b, r |-> ParseResp(b, 1)] : b \in {buf \o SubSeq(stream, 1, n)}}

\* Errors after which the buffer waits for another line.
Incomplete == {"EOF", "incomplete input", "unknown type"}

\* Mutant: the buffer is kept after every error.
ReadLineKeeps ==
    /\ pc = "reading"
    /\ \E n \in DOMAIN wire : FirstLine(wire, n) /\ \E p \in Parsed(buffer, wire, n) :
         LET isCommand == p.r.err = "none" /\ p.r.type = Array /\ p.r.data # <<>>
         IN  /\ wire' = SubSeq(wire, n + 1, Len(wire))
             /\ buffer' = IF p.r.err # "none" \/ isCommand THEN p.bytes ELSE <<>>
             /\ pc' = IF isCommand THEN "sending" ELSE pc
             /\ msg' = IF isCommand THEN p.r.data ELSE msg
    /\ UNCHANGED <<open, sent, offset, link, taken, replicaVars>>

\* One line: a command is offered to the loop, anything else complete is
\* dropped.
ReadLine ==
    /\ pc = "reading"
    /\ \E n \in DOMAIN wire : FirstLine(wire, n) /\ \E p \in Parsed(buffer, wire, n) :
         LET isCommand == p.r.err = "none" /\ p.r.type = Array /\ p.r.data # <<>>
         IN  /\ wire' = SubSeq(wire, n + 1, Len(wire))
             /\ buffer' = IF p.r.err \in Incomplete \/ isCommand THEN p.bytes ELSE <<>>
             /\ pc' = IF isCommand THEN "sending" ELSE pc
             /\ msg' = IF isCommand THEN p.r.data ELSE msg
    /\ UNCHANGED <<open, sent, offset, link, taken, replicaVars>>

\* The stream has ended.  The goroutine now sends itself on a channel that
\* nobody receives from.
Leave ==
    /\ pc = "reading" /\ ~open /\ LF \notin Range(wire)
    /\ pc' = "leaving"
    /\ UNCHANGED <<clientVars, buffer, msg, offset, link, taken, replicaVars>>

\* Mutant: the buffer is not reset behind a command.
TakeKeepsBuffer ==
    /\ pc = "sending"
    /\ pc' = "reading" /\ UNCHANGED buffer
    /\ taken' = Append(taken, msg) /\ msg' = <<>>
    /\ offset' = offset + Len(RAW(msg))
    /\ link' = link \o RAW(msg)
    /\ UNCHANGED <<clientVars, replicaVars>>

\* The loop receives the command, handles and propagates it; the channel has
\* no buffer, so the connection goes on from here.
Take ==
    /\ pc = "sending"
    /\ pc' = "reading" /\ buffer' = <<>>
    /\ taken' = Append(taken, msg) /\ msg' = <<>>
    /\ offset' = offset + Len(RAW(msg))
    /\ link' = link \o RAW(msg)
    /\ UNCHANGED <<clientVars, replicaVars>>

(***************************************************************************)
(* handleMasterConnection.                                                 *)
(***************************************************************************)
\* Mutant: only the last line is counted.
ReadLinkLastLine ==
    /\ \E n \in DOMAIN link : FirstLine(link, n) /\ \E p \in Parsed(rbuffer, link, n) :
         LET isCommand == p.r.err = "none" /\ p.r.type = Array
             wait == p.r.err \in Incomplete \cup {"unexpected EOF"}
         IN  /\ link' = SubSeq(link, n + 1, Len(link))
             /\ rbuffer' = IF wait THEN p.bytes ELSE <<>>
             /\ executed' = IF isCommand THEN Append(executed, p.r.data) ELSE executed
             /\ roffset' = IF isCommand THEN roffset + n ELSE roffset
    /\ UNCHANGED <<clientVars, connVars, offset, taken>>

\* One line from the master: a command is executed, and what the buffer holds
\* is counted.
ReadLink ==
    /\ \E n \in DOMAIN link : FirstLine(link, n) /\ \E p \in Parsed(rbuffer, link, n) :
         LET isCommand == p.r.err = "none" /\ p.r.type = Array
             wait == p.r.err \in Incomplete \cup {"unexpected EOF"}
         IN  /\ link' = SubSeq(link, n + 1, Len(link))
             /\ rbuffer' = IF wait THEN p.bytes ELSE <<>>
             /\ executed' = IF isCommand THEN Append(executed, p.r.data) ELSE executed
             /\ roffset' = IF isCommand THEN roffset + Len(p.bytes) ELSE roffset
    /\ UNCHANGED <<clientVars, connVars, offset, taken>>

Next ==
    \/ \E c \in Commands : Send(c)
    \/ Close
    \/ ReadLine \/ Leave
    \/ Take
    \/ ReadLink

Spec == Init /\ [][Next]_vars

\* A step that takes a line off the stream: of the connection, a ReadLine, and
\* of the link, a ReadLink, each of which is enabled when there is a line.
TakesLine ==
    /\ pc = "reading" /\ open' = open
    /\ \E n \in DOMAIN wire : FirstLine(wire, n) /\ wire' = SubSeq(wire, n + 1, Len(wire))
TakesLinkLine ==
    \E n \in DOMAIN link : FirstLine(link, n) /\ link' = SubSeq(link, n + 1, Len(link))

\* The connection's goroutine, the loop and the goroutine of the link run.
FairSpec == Spec /\ WF_wire(TakesLine) /\ WF_vars(Take) /\ WF_link(TakesLinkLine)

(***************************************************************************)
(* Properties.                                                             *)
(***************************************************************************)
\* No line of a value looks like the beginning of a command, a star and a number.
Tame(c) ==
    \A i \in DOMAIN c : \A j \in DOMAIN c[i] :
      c[i][j] = Array /\ (j > 1 => c[i][j - 1] = LF) =>
        j = Len(c[i]) \/ c[i][j + 1] \notin {43, 45} \cup 48 .. 57

AllTame == \A i \in DOMAIN sent : Tame(sent[i])

TypeOK ==
    /\ \A s \in {wire, buffer, link, rbuffer} : \A i \in DOMAIN s : s[i] \in Byte
    /\ open \in BOOLEAN /\ pc \in {"reading", "sending", "leaving"}
    /\ msg # <<>> <=> pc = "sending"
    /\ offset \in Nat /\ roffset \in 0 .. offset
    /\ Range(sent) \subseteq Commands
    /\ AllTame => \A s \in {taken, executed} : Range(s) \subseteq Commands

\* No line of a value ends before the value does.
Plain(c) == \A i \in DOMAIN c : LF \notin Range(SubSeq(c[i], 1, Len(c[i]) - 1))

\* How many commands were sent before the first that is not plain.
InStep ==
    CHOOSE n \in 0 .. Len(sent) : /\ \A i \in 1 .. n : Plain(sent[i])
                                  /\ n = Len(sent) \/ ~Plain(sent[n + 1])

\* Wherever the connection is cut, the loop gets only commands the client has
\* sent, whole, in their order and each once: a command is lost, never changed,
\* split or repeated.  This takes values without a line that is a star and a
\* number: HandleConnection drops the beginning of a value like
\* "a\n*1\r\n$4\r\nPING\r\n" and hands the rest to the loop as a command.
WholeCommandsInOrder ==
    AllTame => \E at \in [DOMAIN taken -> DOMAIN sent] :
      \A i \in DOMAIN taken :
        /\ taken[i] = sent[at[i]]
        /\ \A j \in 1 .. i - 1 : at[j] < at[i]

\* The connection only gets out of step through a value with a newline before
\* its last byte: when everything has been read, each command before the first
\* such has been handled, those included that end early because the last value
\* is empty or ends in a newline.
LossNeedsNewline ==
    (open /\ wire = <<>> /\ pc = "reading") =>
      /\ Len(taken) >= InStep
      /\ \A i \in 1 .. InStep : taken[i] = sent[i]
      /\ InStep = Len(sent) => buffer = <<>>

\* A command whose last value is empty or ends in a newline is complete for
\* the reader before its last line end has arrived.
EndsEarly(c) == LET v == c[Len(c)] IN v = <<>> \/ v[Len(v)] = LF

\* A replica that has read all of its link has executed every write of the
\* master, in order, and its offset is the master's, less the two bytes of
\* every write that ended early: those it never counts.  A WAIT for such a
\* write cannot be satisfied, though the replica holds it.  A command that
\* HandleConnection found inside a value may hold a null array or a map, of
\* which RAW makes something else, and is left out.
ReplicaFallsBehindByLineEnds ==
    AllTame /\ link = <<>> =>
      /\ executed = taken
      /\ offset - roffset = 2 * Cardinality({i \in DOMAIN taken : EndsEarly(taken[i])})

\* Liveness: on a connection that stays open a command that only plain ones
\* precede is handled, and reaches the replica.
PlainCommandsReachReplica ==
    \A n \in 1 .. MaxCommands :
      (Len(sent) >= n /\ InStep >= n) ~> (~open \/ Len(executed) >= n)

=============================================================================
