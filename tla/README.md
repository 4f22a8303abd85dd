# A verification project for SRC, the simple Redis clone

This directory holds TLA+ modules that model the server under `src/`, the TLC
configurations that check them on small instances, and theorems about them with
proofs that TLAPS checks. Paths below are relative to the repository.

## 1. The system

SRC is a Redis-like server in Go: strings with expiry, streams, transactions,
blocking commands, and single-leader replication with `WAIT`.

| Component | State | Operations | Talks to |
|---|---|---|---|
| String store (`pkg/keyval/kv.go`, `set.go`, `get.go`, `incr.go`) | map of key to `{type, data, expiry}` | SET with NX, XX, GET, EX, PX, EXAT, PXAT, KEEPTTL; GET; INCR; lazy expiry | called by commands, in the loop or in a goroutine |
| Loop and sessions (`server.go`, `client.go`) | `messageChan`, `clients`; per connection `inTransaction`, `txQueue`, `lastWriteOffset`, a `bufio.Writer` | read a request, dispatch it, queue it, run it, propagate it, reply, close | one goroutine per connection sends to the loop; blocking commands leave it for a goroutine |
| Transactions (`transaction.go`) | the session's queue | MULTI, EXEC, DISCARD | EXEC runs the queue inside the loop and propagates its writes |
| Replication, master (`server.go`, `psync.go`, `replconf.go`) | `offset`, `replicas`, `Client.offset` | registration, full synchronisation, propagation, PING and GETACK tickers | the loop and the ticker goroutines write to a replica's connection |
| Replication, replica (`server.go`) | handshake queue, `offset`, `IsReceivingRDB` | handshake, snapshot, executing the stream, ACKs | reads the master link in a goroutine next to its own loop |
| WAIT (`wait.go`) | the offset it read | wait for ACKs or the timeout | reads `lastWriteOffset` and the replicas' offsets; starts a GETACK round |
| Stream IDs and XADD (`stream.go`, `radix_tree.go`, `xadd.go`) | `LastID`, `lastTimestamp`, `sequence` | `*`, `t-*` and explicit IDs, MAXLEN and MINID | XADD notifies XREAD's channels |
| Radix tree (`radix_tree.go`), XRANGE (`xrange.go`) | nodes with a prefix, entries and children; `size` | insert with splits, range, trim | under every stream |
| XREAD (`xread.go`, `stream.go`) | `streamOrder`, the subscriber maps | check, subscribe, select, unsubscribe, answer | runs in a goroutine with BLOCK, in the loop without |
| RESP and framing (`resp.go`, `writer.go`, `client.go`, `server.go`) | per connection a buffer of bytes | read a line, parse the buffer, offer a command; RAW | one reader per client, another for the master link |
| RDB and SAVE (`rdb.go`, `saver.go`, `save.go`) | `dump2.rdb` | SAVE in a goroutine, load at start-up or from the master | exports and replaces the store |
| KEYS patterns, INFO and others | | | see "Not modelled" |

What is hard here:

* *Interleaving.* The loop is sequential, but readers of connections, blocking
  commands, tickers, GETACK and PING goroutines and the master link are not, and
  several share unlocked state: a connection's `bufio.Writer`, the `streamOrder`
  field of the one `XRead` object, `lastWriteOffset`.
* *Failure.* Connections break in the handshake, in a flush and in the stream; a
  reply that cannot be written changes what a handler does next; a snapshot is
  written in place and a crash leaves what was written.
* *Ordering.* Offsets are counted before bytes are sent, a replica is registered
  before it has a snapshot, a response channel is queued after the request.
* *Waiting.* WAIT waits for messages that only the loop handles, and EXEC may run
  WAIT in the loop.
* *Numbers.* INCR at its limit; stream IDs compared as strings; lengths at the
  boundaries of their encodings; the bytes a replica counts for a value that is
  empty.

What makes each component correct, and where it is stated:

* strings: propagated writes reproduce the store (`MirrorAgrees`), INCR stays in
  its width (`TypeOK`), KEEPTTL keeps the expiry (violated: `KeepTtlRetains`);
* sessions: requests run once and in order (`RunsInOrder`), none is forgotten
  (`NoRequestForgotten`, `EveryRequestAnswered`), answers come in order
  (`RepliesInOrder`);
* transactions: isolation (`TransactionsAreContiguous`), EXEC runs its own queue
  (`ExecRunsItsQueue`) and ends (`ExecFinishes`), except for a WAIT that cannot
  wake up (`QueuedWaitNeverWakes`);
* WAIT: it covers the writes its client sent before it
  (`WaitCoversEarlierWrites`; proved with it: `LastWriteIsOwn`); an acknowledged offset means the
  write is held (`AckMeansHeld`), and so does the number a WAIT answers
  (`WaitMeansHeld`);
* replication: every write once, in order, without a gap, as an abstract replicated
  log says it (`ImplementsReplicatedLog`, `NoWriteBetween`), a handshake that ends and matches
  its answers (`HandshakeEnds`, `HandshakeDoneMeansRegistered`);
* streams: IDs increase (`IdsIncrease`, `GeneratorAheadOfLastID`), the tree loses
  and misplaces nothing (`TreeIsSound`), ranges select what they name
  (`RangeIsNumeric`) and trimming removes what it should (`TrimIsExact`);
* XREAD: right answers, no lost entry, no leaked subscription (`ReplyIsRight`,
  `UndisturbedReaderListens`, `NewDataIsDelivered`, `NoLeakedSubscription`;
  violated: `PlusReturnsImmediately`), except for a queued one
  that cannot wake up (`QueuedReadNeverWakes`);
* snapshots: what SAVE wrote is what the next start loads (`SavedFileLoads`,
  `LengthsRoundTrip`), and nothing is made up from a file that is cut or mixed
  (`LoadedWasSaved`, `MixtureIsRefused`);
* framing: no command is split, changed or repeated (`WholeCommandsInOrder`), it is
  known which are lost (`LossNeedsNewline`, `PlainCommandsReachReplica`), and how far
  a replica's count falls behind (`ReplicaFallsBehindByLineEnds`).

`PROJECT.json` lists the hazards with the line where each bites and the properties
that watch it, and maps every definition to the lines it models.

## 2. The modules

| Module | Extends | Models |
|---|---|---|
| `KeyVal` | | the store and the commands on it, constant-level operators |
| `Server` | `KeyVal` | loop, sessions, transactions, WAIT, propagation |
| `Replication` | | both ends of replication, byte offsets, the unlocked Writer |
| `ReplicatedLog` | | what replication promises; `Replication` implements it |
| `RadixTree` | | the tree of a stream, operators on a tree value |
| `StreamIds` | `RadixTree` | stream IDs, their order and generation, XADD, trimming, XRANGE |
| `XRead` | | XREAD, XADD's notifications, subscriptions |
| `Bytes` | | numbers as the bytes of their digits |
| `Rdb` | `Bytes` | the bytes of a snapshot: the saver's calls of Write, and the parser |
| `Snapshot` | `Rdb` | SAVE, crash and start-up |
| `Resp` | `Bytes` | the bytes of a command: writer, RAW and parser |
| `Framing` | `Resp` | the two line readers and the loop between them |
| `MCServer`, `MCStreamIds`, `MCXRead`, `MCSnapshot`, `MCFraming` | the above | instances for TLC |
| `ServerProofs` | `Server` | theorems |
| `XReadProofs` | `XRead` | theorems |
| `ReplicationProofs`, `OffsetProofs` | `Replication`; the second extends the first | theorems |
| `BytesProofs` | `Bytes` | lemmas on digits and on flattened sequences |
| `StreamIdsProofs` | `StreamIds`, `BytesProofs` | theorems |
| `FramingProofs` | `Framing`, `BytesProofs` | theorems |
| `SnapshotProofs` | `Snapshot`, `BytesProofs` | theorems |

Definitions whose comment starts with *Mutant:* are the deliberately
wrong variants with which `PROJECT.json` tests that each property can fail.

### KeyVal

A store maps each key to `[type, data, expiry]`, `type = "none"` for a key the Go map
does not have. The data of a string is what `strconv.ParseInt` makes of its bytes: a
number up to `MaxInt` (for `math.MaxInt64`) or a text. `isExpired`, `Get`, `Set`,
`ExpireAt`, `DeleteTTL` and `GetStream` are the methods of `kv.go`; note that `Get`
deletes an expired key and `Set` replaces the whole value with its expiry.
`SetExecute` and `IncrExecute` are the `Execute` methods, with their order of checks.

### Server

The loop takes the head of one client's `inbox`; each kind of message is one action
(`Unknown`, `Enqueue`, `RefuseTx`, `Multi`, `Discard`, `ExecBegin`, `ExecuteDirect`,
`StartWait`), and each includes its reply and its propagation. EXEC is several
actions, so that other goroutines can step in between: `ExecBegin`, one
`ExecCommand` per queued command, `ExecEnd`. While `execCl` is set no message is
taken. A WAIT outside of EXEC is a record in `waits`, since `handleBlockingCommand` starts
it in a goroutine: it reads `lastWriteOffset` (`WaitRead`), writes its answer to the
client's Writer (`WaitWrite`) and returns from `Send` (`WaitSend`).

Between `WaitWrite` and `WaitSend` the goroutine is inside the client's `bufio.Writer`, which
the loop, or another WAIT of that client, may write to and flush at the same time without a lock.
The requests whose replies meet there are recorded in `raced`, and what comes of them is a choice
(`Deliver`): a reply arrives once, twice, or not at all (overwritten, cleared, or garbled), and
a short write may fail, which closes the client. A step of the loop is atomic, so an overlap is taken to
begin before it: `Sending(c)` are the goroutines that are inside. `StartWait` has the
case of a WAIT that is over at once and meets the `Send` of the loop that started it. Afterwards the
buffer is empty or its client closed, so a race has no effect on later replies. (`Writer.Reset`, which `handleMessage`
calls after an error, hands the `bufio.Writer` to its own Reset and does nothing.)

Abstractions: the offset is the number of propagated commands (`Replication` counts
bytes); a replica's ACK may be any offset up to the master's that is not smaller
than its last; `mirror` and `ran` are history variables. The Go channel and the
connection's read buffer together are `inbox`; `Disconnect` and `StopReading` are
the remote end going away and the reader losing what it had not parsed.

A flush that fails is sticky in `bufio.Writer` (`resp.Writer.Reset` does not clear
it), and `closeClient` removes the client while its reader may still deliver
buffered requests. Both are `c \notin clients`. From then on a write of this client
is executed and *not* propagated, because `Execute` returns the error of writing its
reply; and EXEC returns before `ClearTransaction`, so another EXEC runs the same
queue again. `MirrorAgrees` and `RunsInOrder` therefore say "while no flush has
failed"; without that condition both are false of the code.

### Replication

A replica is a process that connects once; the code never reconnects. `wire[r]` is
the stream of messages to it, `up[r]` from it. Commands are written to the
connection directly, replies and GETACKs through `wbuf[r]`, the unlocked
`bufio.Writer`; a flush is two steps (write the buffer, then set its length to zero),
so two overlapping flushes can send a message twice (`doubled`) or report a short
write, which removes the replica. The loop's own flushes are `LoopFlush` and
`LoopReset`. `GetAckRound` counts 37 bytes per round before any goroutine has written;
`PingCount` counts 14 bytes per replica; a write has `WriteLen` bytes.

The replica's handshake has a request (`hs`) and a phase: `send`, `sent` (flushed, but
its response channel is not queued yet), `wait`, `got`. An answer that arrives in
phase `sent` is dispatched to no one. Its reader is in `run`, `load` (after FULLRESYNC,
`receiveRDB`), `swallow` (a stray snapshot parsed as a bulk string takes the start of
the next message with it), or `stop`. `synced`, `base` and `applied` are histories:
what the replica really holds.

`ReplicatedLog` says what this is for, without connections, offsets or threads: writes
are numbered, a replica starts from a snapshot of the first of them and executes the
later ones in order, each once and, unless its connection is lost, to the end. Under the
mapping `written <- Len(log)`, `held <-` the writes `1 .. base` of the snapshot
followed by `applied`, `lost <-` its connection is closed on either side, `Replication` implements
it, fairness included (`ImplementsReplicatedLog`).

### RadixTree and StreamIds

A tree is a function from paths (all prefixes from the root, concatenated) to nodes; the
path of a leaf is the ID of its entries, as bytes. The walk down, `split` and `addChild`
are the cases of `RadixTree.AddEntry`; children are kept in the order they were added,
which is the order in which `Node4` and `Node16` are walked, so the walk is *not* in the order
of the IDs. (The bytes of an ID are ten digits and `-`: a node never needs the 17 children
of a Node48.) `TopLeaves` are the leaves that the walk of the two trimming methods reaches: it
returns at a leaf without looking below it, and finds emptied leaves still there. `Visited` is what it
has seen of them before a leaf. `InOrder` lists leaves as the walk meets them, by the number of those
that come before each.

`StreamIds` adds the generator's three fields, XADD in its three forms with MAXLEN and MINID,
and XRANGE with its forms of bounds; it compares IDs by the bytes of `timestamp-sequence`, as
the code does. `kept` is a history: the entries that should be left by what the options mean.

### XRead

`XRead` treats every XREAD as a
process whose steps follow `Execute`: `ParseArgs`, `Check` per stream, `Subscribe` per
stream, `BuildCases`, `Receive` or `Timeout`, `Unsubscribe` per stream, `WriteResult`.
Each step reads the shared `streamOrder` where the code does. `disturbed` is a
history: another XREAD parsed its arguments meanwhile. Which XREADs a transaction has
queued is chosen at the start: those run in the loop, and no XADD comes while they do.

### Rdb and Snapshot

`Rdb` gives the saver as the sequence of its `Write` calls, since the file is not buffered,
and the parser as it reads bytes from a position: lengths of 6, 14 and 32 bits, special
integers, expiry, markers, and the checksum over the whole file. Its loop over the records is
`ParseRecords`, a recursive function on positions: every record it reads moves the position on. Keys and
values are shorter than 2^31 bytes (`MaxLength`); a time is a number below `Far`, 2^24, and `Far` is
what the parser makes of any larger one. The eight bytes of a
checksum are a symbol of the saver that computed it (CRC64 without collisions); the header,
the auxiliary fields and the database number, the same in every file, are one call.

`Snapshot` runs SAVEs in goroutines next to the loop: `Create` truncates the file, `Export`
copies the store and fixes the order of the map's iteration, each `Write` goes to the offset
of its own descriptor (`Overlay` fills holes with zeros), `Crash` ends the process anywhere in a
call and `Start` parses what is left. SAVE always writes `dump2.rdb` in the working
directory, and a server loads `dbfilename` from `dir`, by default another file: the module is
about a server that was started with `dump2.rdb`.

### Resp and Framing

`Resp` has the bytes of a command and `ParseResp` with its kinds of errors, since the readers
differ in what they make of them. `Framing` follows one connection: the client sends commands
without waiting (`Send`), the connection may end at any byte (`Close`), `ReadLine` is one turn of
`HandleConnection`, `Take` the loop, which counts and propagates `RAW`, and `ReadLink` one turn of
`handleMasterConnection`. How TCP cuts the stream is invisible, because both use `ReadBytes`
up to a newline. Values are of any length and hold any bytes. After a value with a newline the reader takes what
follows for the start of a message, and where a line of the value is itself the beginning of an array it
hands the rest to the loop as a command that nobody sent. Such a command may have elements of any type: `Resp`
keeps of each what `String` and `RAW` make of it (`Element`). `Tame` says of a command that no line of its values
begins with `*` and a digit or sign, and `AllTame` of all commands sent; a lone `*`, as of KEYS and XADD, or `*foo*` is tame.

## 3. The runs

| Run | Result | Question |
|---|---|---|
| ServerTx | holds | isolation, order and contents of transactions under pipelining and disconnects |
| ServerStore | holds | propagated commands reproduce the strings, with every SET option, streams, INCR and time |
| ServerLive | holds | WAITs that read `lastWriteOffset` late and share a Writer with the loop: order of answers, no forgotten request, what a WAIT covers; a WAIT in EXEC never wakes; otherwise EXEC ends and every request is answered |
| ReplicationGetAck | holds | what an ACK means; no write between snapshot and stream |
| ReplicationPing | holds | order of writes with PINGs and failing snapshots; handshakes end; the replicated log is implemented |
| ReplicationBreak | holds | handshakes on connections that break, and what the answer of a WAIT means |
| StreamIds | holds | IDs increase, generators keep ahead, the tree is sound, ranges and trimming are exact |
| XRead | holds | XREADs that no other XREAD disturbs answer rightly, are woken, and leave nothing behind; queued ones may never wake |
| Snapshot | holds | what a start finds after SAVEs, overlapping SAVEs and crashes |
| Framing | holds | which commands get through two line readers, and the bytes counted for them |
| ServerKeepTtl | violated | KEEPTTL loses the expiry |
| XReadPlus | violated | an entry between check and subscription is missed |

The violated ones are where the code differs from what its comments say; `PROJECT.json` quotes them under "findings".

### What the conditions of the properties leave out

Several properties that hold carry a condition, and each condition marks behaviour of
the code that the models contain and a maintainer should know:

* `AckMeansHeld` is about replicas that loaded a snapshot (`synced`). One that did not
  (SaveRDB refuses stream keys; a PING or GETACK in front of the snapshot makes
  `receiveRDB` give up) stays registered, counts bytes from zero and acknowledges writes
  that it does not hold. It is also about replicas to which no message was sent
  twice (`doubled`) by overlapping flushes.
* `WaitMeansHeld` is about a WAIT that ends before its timeout. One that times out answers
  with the number of connected replicas, acknowledged or not (`WaitTimeout`).
* `UndisturbedReaderListens`, `ReplyIsRight`, `NewDataIsDelivered` are about XREADs during
  which no other XREAD parsed its arguments. A disturbed one may have no select case
  for an entry it was sent, answer under another stream's name, or panic.
* `IdsIncrease`, `RangeIsNumeric` and `TrimIsExact` need numbers of equal length. Otherwise the
  order of strings decides: `10-0` is refused after `9-1`, with an error that says it is
  "equal or smaller"; and when one ID is the beginning of another (`9-1` and `9-10`), the
  longer one is below a leaf, where trimming does not look: MAXLEN 1 may leave two entries.
  `TreeIsSound` holds for all IDs. `0-0` is accepted by an
  empty stream, because `IsLargestID` holds for any ID there.
* `GeneratorAheadOfLastID` holds for IDs of any length until a sequence wraps (`Unwrapped`), and the three above need that as
  well. `sequence` is an int64: after `5-9223372036854775807` the next `5-*` stores `5--9223372036854775808`, which
  as a string is below `LastID`; the generator has fallen behind, and the IDs it gives no longer increase.
* `RepliesInOrder`, `NoRequestForgotten`, `EveryRequestAnswered` and `ExecRunsItsQueue` except the replies that were in
  their client's Writer together with another one (`raced`): the reply of a WAIT and one
  that the loop sends to the same client meanwhile may come twice or not at all. A client that waits for
  the answer to its WAIT before it sends on is never in this case, but for the empty `Send` of the loop that started the WAIT.
* `WholeCommandsInOrder` and `ReplicaFallsBehindByLineEnds` are about clients that send no value with a line of a star and
  a number (`AllTame`). For `SET k "a\n*1\r\n$4\r\nPING\r\n"` `HandleConnection` drops the beginning (the value is an
  unexpected EOF) and hands PING to the loop, as it would any other command.
* `RangeIsNumeric` is about the bounds XRANGE accepts. An end without a sequence becomes
  `t-18446744073709551615`, which `ValidateID` cannot parse, and an exclusive bound is refused
  by it as well: both answer nothing (`ValidateID` in `StreamIds`).
* `SavedFileLoads` and `LoadedWasSaved` are about a SAVE that ran alone, and `MixtureIsRefused`
  about overlapping ones that completed. When one of two overlapping SAVEs is cut by a crash,
  the file may have a hole of zeros, which parse as an empty key with an empty value,
  and the end of the file counts as complete: the start then loads a key nobody stored.
  A cut or failed SAVE (a stream key fails it) has also destroyed the previous snapshot.
  `MixtureIsRefused` says so only of a parse that comes to an EOF marker: an end of the file between two
  records is taken for the end of the snapshot, and no checksum is compared.
* `LossNeedsNewline`: after a value with a newline before its last byte the command is gone
  without an answer, and when the rest of that line is of no known type it stays in the buffer,
  so that the connection is never served again.
* `ReplicaFallsBehindByLineEnds`: two bytes for each write whose last value is empty or ends in
  a newline are counted by the master and never by the replica. `Replication`, where both
  count `WriteLen`, is about writes of the other kind.
* `QueuedReadNeverWakes` is so on replicas as well: XADD is not among the `WriteableCommands`, so the master
  never propagates it and the master link never runs it.
* `MirrorAgrees` and `RunsInOrder` end with the first failed flush (see Server).

### Bounds

* *ServerTx*: six requests of the client with transactions are two whole transactions in a row, or MULTI, SET, EXEC
  and three more, or a DISCARD in the middle; `MaxPipe = 3`
  lets EXEC, EXEC wait behind a request whose flush fails, which is how a queue runs
  twice. The other client's two INCRs can fall before, between and after. WAIT is left to ServerLive: its goroutine
  runs nothing in the loop and moves no queue.
* *ServerStore*: five commands on one key (keys do not interact), out of thirteen shapes;
  `MaxInt = 2`, and SET stores `MaxInt` itself, so INCR at the limit is one step away.
  The clock from 1 to 4 covers before, at and after an expiry.
* *ServerLive*: one client with four requests out of SET, MULTI, EXEC and WAIT with and without timeout, enough for a
  SET behind a running WAIT, for two WAITs next to each other, and for MULTI, WAIT, EXEC after a SET. Its properties are about a
  client's own Writer, goroutines and queue, and a WAIT depends on another client only through the common log and the
  loop; that the loop is busy with another client is in the strong fairness of `Handle`. One replica, because
  replicas only enter through the number that has acknowledged.
* *Replication*: one replica. Replicas share no connection, buffer or handshake; the
  master's loop, offset and log, which they share, are driven by writes and rounds
  as well. Two GETACK rounds are the least that overlap in one Writer; two
  writes the least with an order, with one of them before the snapshot.
* *StreamIds*: timestamps 8 to 11 and sequences up to 11 cross the step from one digit to two,
  where string order and numeric order part, and `9-1` is the beginning of `9-10`. `MaxNum = 11` stands for `MaxInt64`:
  two generated IDs behind `9-10` wrap the sequence, and more entries follow.
  Five XADDs make every kind of split, and a trimming before and after one.
* *XRead*: one XREAD over two streams, one over one and one in the loop; channels of
  size 1 (the code: 100) so that two entries fill one.
* *Snapshot*: two SAVEs, two writes out of a string that expires, one that does not and a
  stream, so that snapshots differ in length and one cannot be saved; one restart. The clock
  has one tick past the expiry, once there is a file: only the parser looks at it. Lengths on both sides of each boundary of the encoding.
* *Framing*: three commands of up to two values; six shapes: plain, an empty or newline-ended value
  in the middle and at the end, a newline inside that leaves the connection deaf, one it
  recovers from, and a value that holds a command.

Bounded requests and ticks run out, so every configuration says `CHECK_DEADLOCK
FALSE`; that nothing gets stuck before is what the liveness properties say.

### Fairness

Go runs every runnable goroutine, so a goroutine's own steps are weakly fair. The
loop's `select` chooses at random among senders that are ready, so that a client's
message is taken sooner or later although the loop is now and then busy with an EXEC
or another client: strong fairness of `Handle(c)` and `Loop(r)`. The goroutines of WAITs read, poll and
send on their own: weak fairness of their steps, of which each has three. In `Framing` one
connection and the loop have the stage to themselves, and weak fairness is enough; it
is stated for the steps that take a line off a stream, which are the reader's own. Timers fire, bytes on
an open connection arrive. Clients need not send, the clock need not tick, XADD need
not come and connections need not break.

## 4. What is proved

TLAPS checks these for all keys, texts, clients, readers and replicas and for every bound,
from the assumptions that the modules name and every run evaluates: `KeyValAssumption`
(`MaxInt` is a natural number, texts are not numbers), `ServerAssumption` (clients send
well-formed commands, `NoClient` is no client, bounds are natural numbers),
`XReadAssumption` (an XREAD names at least one stream, a channel has room for an
entry), `ReplicationAssumption` (finitely many replicas, a write has bytes),
`StreamIdsAssumption` (what clients send are IDs without negative numbers and positive lengths, the clock stays below
`MaxNum`), `FramingAssumption` (commands are non-empty lists of byte strings), `SnapshotAssumption` (keys and values are byte strings shorter than 2^31,
times are below `Far`).

| Module | Theorem | Statement |
|---|---|---|
| `ServerProofs` | `TypeCorrect` | `Spec => []TypeOK` |
| | `MirrorCorrect` | `Spec => []MirrorAgrees` |
| | `SessionCorrect` | `Spec => [](SessionOrder /\ WaitOrder)` |
| | `WaitCorrect` | `Spec => [](LastWriteIsOwn /\ WaitCoversEarlierWrites)` |
| | `OrderCorrect` | `Spec => []RunsInOrder` |
| | `TransactionsCorrect` | `Spec => []TransactionsAreContiguous` |
| | `StuckForEver` | `Spec => QueuedWaitNeverWakes` |
| | `AnswerOrder` | `Spec => []RepliesInOrder` |
| | `NothingForgotten` | `Spec => []NoRequestForgotten` |
| | `ExecCorrect` | `Spec => []ExecRunsItsQueue` |
| `XReadProofs` | `TypeCorrect` | `Spec => []TypeOK` |
| | `SubscriptionsAreTakenBack` | `Spec => []NoLeakedSubscription` |
| | `UndisturbedAnswer` | `Spec => []ReplyIsRight` |
| | `UndisturbedListens` | `Spec => []UndisturbedReaderListens` |
| | `QueuedReadStuck` | `Spec => QueuedReadNeverWakes` |
| `ReplicationProofs` | `TypeCorrect` | `Spec => []TypeOK` |
| | `HandshakeCorrect` | `Spec => []HandshakeDoneMeansRegistered` |
| | `NoGap` | `Spec => []NoWriteBetween` |
| | `ImplementsLog` | `Spec => Abstract!Spec` |
| `OffsetProofs` | `AcksAreTrue` | `Spec => []AckMeansHeld` |
| | `WaitIsTrue` | `Spec => []WaitMeansHeld` |
| `StreamIdsProofs` | `AddEntryShape` | what `AddEntry` does to a tree of the invariant's `Shape` |
| | `BeforeIsLess` | the walk over strings of one length is in their order |
| | `MaxLenContents` | `TrimBySize` leaves the newest entries |
| | `MinIDContents` | `TrimByMinID` leaves the entries that are not below |
| | `GeneratorCorrect` | `Spec => []GeneratorAheadOfLastID` |
| | `IdsCorrect` | `Spec => []IdsIncrease` |
| | `TypeCorrect` | `Spec => []TypeOK` |
| | `TreeCorrect` | `Spec => []TreeIsSound` |
| | `TrimCorrect` | `Spec => []TrimIsExact` |
| | `RangeCorrect` | `Spec => []RangeIsNumeric` |
| `FramingProofs` | `FramingTypeOK` | `Spec => [](AllTame => TypeOK)` |
| | `WholeCommands` | `Spec => []WholeCommandsInOrder` |
| | `LossOnlyByNewline` | `Spec => []LossNeedsNewline` |
| | `ReplicaBehindByLineEnds` | `Spec => []ReplicaFallsBehindByLineEnds` |
| `SnapshotProofs` | `SnapshotTypeOK` | `Spec => []TypeOK` |
| | `SavedLoads` | `Spec => []SavedFileLoads` |
| | `LoadedSaved` | `Spec => []LoadedWasSaved` |
| | `MixtureRefused` | `Spec => []MixtureIsRefused` |
| | `LengthsBack` | `Spec => []LengthsRoundTrip` |

Every invariant that a passing run checks is among them.

* `ServerProofs`: lemmas give the type of what each command leaves (`Execute` maps
  stores to stores, INCR included), then one lemma per handler. `MirrorAgrees` is
  inductive with `TypeOK`, but only because of facts about `Execute`: two stores with the
  same visible strings have them after the same command (`SetExecute` and `IncrExecute`
  look only at what is visible), a command that is not propagated leaves the visible
  strings alone, and time makes the same strings disappear from both.
* `ServerProofs`, sessions: that a WAIT covers earlier writes needs the order of a client's
  requests in all the places where they can be. `SessionOrder`: the requests in `inbox`
  and in `txQueue` are increasing, and those in `txQueue` are older. `WaitOrder`: a WAIT
  that runs is older than all its client has in either. A write that is
  logged after a WAIT has read its offset is then a later request.
* `ServerProofs`, transactions: `RunsInOrder` needs `RanOrder`: everything that ran is older than
  everything that waits or is queued, and, inside an EXEC, than the rest of its queue.
  Contiguity needs `TxOrder`: the number of an EXEC that ran is behind the requests that
  wait (so no later EXEC reuses it), the running EXEC has been taken, and what it ran is the end of `ran`.
  `StuckForEver` is an action property: every action that could raise an ACK needs
  the loop.
* `ServerProofs`, answers: an answered request is in nobody's hands any more (`AnsweredIsDone`),
  and of one request there is one goroutine, older than a running EXEC (`WaitsApart`);
  so an answer is the first one for its request, and of those a goroutine does not
  send the newest; a request whose reply comes twice is in `raced`. That none is forgotten follows step by step: what a step takes out of
  one place it puts into another, or it closes the connection, or the request is in `raced` by then. For EXEC the queue of an
  open transaction is what its client has been told is QUEUED (`QueueIsTold`) and a
  running EXEC has run just the beginning of it (`ExecProgress`).
* `XReadProofs`: the invariant follows an XREAD through its phases: which streams it
  is subscribed to while it subscribes, selects and unsubscribes (`Subscribed`), that only
  a subscription has a channel with entries (`Channels`), that the shared `streamOrder` is its own
  until another XREAD parses (`OwnOrder`), what it has found (`Found`) and who holds the
  loop (`LoopOwner`). `QueuedIsDeaf` says why a queued one stays stuck: its channels are empty, and
  the only action that fills them needs the loop it holds.
* `ReplicationProofs`: replicas share only the loop, the offset and the log, so the invariants are
  stated and proved for one replica; `Frame` says that what another one does leaves its part alone.
  `HandshakeInv(r)` orders the requests in flight (`RequestOrder`), and says what of PSYNC's answer can exist
  before, while and after the loop runs it (`BeforePsync`, `DuringPsync`, `FullInWriter`, `OneRdb`,
  `AfterSnapshot`), and that registration has happened once the port was taken (`Registered`).
* `ReplicationProofs`, the stream: `StreamInv(r)` is about the writes on the wire: they are in order, the snapshot on its way has
  all that was sent before it, those behind it continue it without a gap, and a registered replica
  that is up has, or will be sent, every write. From it follow `NoWriteBetween` and that each step of
  `Replication` is a step of `ReplicatedLog` or leaves its variables alone.
* `OffsetProofs`: offsets are sums over the messages in transit, and a recursive sum is out of the prover's reach.
  The invariant says instead that ceilings exist (`Climbs`): numbers, one for each message on the way, that grow
  at least by its length, of which the first is not below the replica's offset, the one at a
  write not above the offset the master logged for it, and the last, with what is still in the
  Writer, not above what the master has counted and sent (`Credit`: the master counts GETACKs and
  PINGs before the goroutines have written them). An offset that reaches a write's is then that of a replica which has read
  it. `WaitMeansHeld` needs in addition that what was once safe stays so (`Safe`), since a replica may
  acknowledge, and be removed, while a WAIT still polls.
* `StreamIdsProofs`, for a tree over any strings: `Shape` (children are nodes below their parent and differ
  in the byte behind its path) and `Placed` (an entry is in the node of its string) are kept by each of the
  three cases of `AddEntry`, found by `AddEntryCases`. Trimming needs more: that the walk
  finds every node below a node (`Connected`), that a leaf is the end of a string (`Grounded`),
  and, if each string was the largest when it came, that children are in the order of their bytes
  (`Sorted`) and a leaf has one entry (`Single`). Then the walk meets the entries in their order
  (`BeforeIsLess`), and what it has visited when it comes to one are the older ones (`VisitedAreOlder`).
* `StreamIdsProofs`, the stream: `Digits` is what its recursive definition says, and numbers of equally many
  digits are ordered as their digits are (`DigitsLess`). For IDs of
  one width the order of strings is then the numeric one (`StrOrder`). `IdsIncrease` needs that the
  generator is at the newest ID (`AtNewest`); `TreeIsSound` only the invariant of the tree, for
  IDs of every length. `TrimIsExact` puts them together: each new string is the largest, so the tree stays in the order of its
  IDs (`WalkInv`) and trimming leaves what the options mean. For `RangeIsNumeric` the leaves of such a tree,
  emptied ones included, are in a total order (`LeavesOrdered`), so that each place of `InOrder` has one leaf
  (`InOrderIs`, by counting), a leaf gives at most one entry (`FlatSources`), and a bound selects by the bytes
  what it means by the numbers (`BoundMeans`).
* `BytesProofs`: what recursive definitions compute. The library's induction cannot be instantiated, so
  induction is done by the least counterexample (`Least`, from the well-foundedness of the natural
  numbers): a recursive function is a CHOOSE, so first a function as described exists for every beginning, then
  it is unique, and then it has its property. So it is shown that `Number` undoes
  `Decimal`, and where the parts of a `FlattenSeq` are (`FlatParts`).
* `FramingProofs`: first what `ParseResp` makes of any beginning of a command: with all its bytes, or all
  but the last line end if the last value ends early, the command; with fewer, an error after which
  `HandleConnection` waits, or, behind a newline in a value, drops the line (`ReadStep`, `ReadAll`, `CommandRead`).
  The bytes of the stream are then laid out as the commands sent, `Laid`, and the invariant says where a reader stands in
  them: `ClientInv`, that the buffer and the wire are the rest of the stream from the start of some line, that the
  commands taken are those that ended before it, and that the buffer begins at a command as long as all commands were
  plain (`KeepsStep`); `ReplicaInv`, the same of the link, with the bytes counted. What is behind a broken value can
  begin at any line, and `LineStarts` says that, for tame commands, none of those lines is a star with a length. `LossNeedsNewline` is
  proved without that: its invariant (`FramingInv`) is that the reader stands as `ClientInv` says, or everything before the first
  command that is not plain has been taken already (`Lost`), after which nothing can take it back.
* `SnapshotProofs`: the parser reads back what the saver wrote. `LengthRead` and `RecordRead` say so of a
  length and of one record at any place of a file, `FileIsRow` that a file is the header, a row of
  records and the EOF marker, and `RowWhole` that the parser goes through such a row, by the least record at which
  it would not. For a file that was cut, whatever is read from the part is read from the whole as well, or the read
  fails (the `Cut` lemmas); `RowCut` then gives a beginning of the records. The invariant is `Types`,
  `Progress` (what a SAVE exported and has left to write) and `Alone` (the file of a SAVE that runs alone is a
  beginning of all that it writes). `MixtureIsRefused` needs no more of it than `Progress`: a checksum that agrees is that of one
  SAVE over all the bytes before it, so these are the bytes it exported.

Only model-checked: liveness, `ENABLED` and fairness, for which the prover has no rules: `EveryRequestAnswered`,
`ExecFinishes`, `HandshakeEnds`, `NewDataIsDelivered`, `PlainCommandsReachReplica`, and the fair part of
`ImplementsReplicatedLog`.

## 5. Not modelled

* Replies as bytes: the encodings of RESP2 and RESP3 values in `writer.go`. `Server` has the kinds
  of replies and their order; no other part reads them back.
* CRC64 and LZF: a checksum is a symbol. A compressed string is taken to fail in `readString`, whose output buffer
  has the compressed length; one made only of literal runs, which LZF did not shrink, would fit. SAVE writes no compressed strings.
* The upper bytes of an expiry: times are below 2^24, within TLC's integers, where the code's are
  milliseconds of about 2^41, so the upper four of its eight bytes are always zero here.
* IDs that XADD takes and nobody should send: `+` and `-`, which `ValidateID` lets through, numbers with leading zeros, a MINID
  without a sequence.
* The Writer of a replica's link, shared by `commandSender` and `respondToGetAck`: a write and its flush are one step at
  that end. At the master's end a flush is two steps, of which the first, looking at the buffer and writing it, is atomic.
* Blocking commands other than WAIT next to the loop's replies: the replies of XREAD with BLOCK and of SAVE race in the Writer
  as those of WAIT do.
* WRONGTYPE exits of XREAD, and a SET over a stream that has subscribers.
* In `Resp`: numbers beyond int64, which `Atoi` refuses and here are read, and allocations that panic.
* KEYS: a glob is translated to a regular expression and matched by Go's `regexp`, which
  would have to be modelled as well. TYPE, INFO, CONFIG, HELLO, CLIENT: they read, or
  set fields no protocol depends on.
* COUNT of XREAD, and the pool of result buffers that `Range` returns slices of: a data race
  that values cannot show.
* Accepting connections (with an unlocked map of clients), shutdown, logging, random IDs.
* The clients of a replica, whose commands run next to the master link.

## 6. Plan

Done: all modules above, their runs, and a theorem for every invariant they check. Left:

1. Replies as bytes (`writer.go` in RESP2 and RESP3), read back by a client.
2. The clients of a replica next to its master link.
3. Accepting and closing connections, with the unlocked map of clients.
