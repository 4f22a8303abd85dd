-------------------------------- MODULE XRead --------------------------------
(***************************************************************************)
(* XREAD and the subscriptions of streams: pkg/command/xread.go and        *)
(* Subscribe, Unsubscribe and notifySubscribers of pkg/keyval/stream.go.   *)
(*                                                                         *)
(* An XREAD with BLOCK runs in a goroutine of its own, next to the loop    *)
(* that runs XADD and the other XREADs.  All of them share one XRead       *)
(* object, whose field streamOrder every parseArgs overwrites and every    *)
(* later step of every XREAD reads again.                                  *)
(*                                                                         *)
(* An XREAD with BLOCK that MULTI has queued is run by EXEC, in the loop.   *)
(*                                                                         *)
(* Each member of Readers is one XREAD request.  The entries of a stream   *)
(* are numbered 1, 2, ... in the order they were added; module StreamIds   *)
(* models their IDs.                                                       *)
(***************************************************************************)
EXTENDS Integers, Sequences, FiniteSets

CONSTANTS
    Keys,        \* stream keys
    Readers,     \* XREAD requests
    NoReader,    \* "no XREAD runs inside the loop"
    Order,       \* the streams each request names, in its order
    From,        \* its start in a stream: "first" (an ID up to the first
                 \* entry's), "+" (the last entry) or "$" (only new entries)
    Block,       \* "no", "forever" or "timeout"
    ChanSize,    \* capacity of a subscriber's channel (100 in the code)
    MaxEntries   \* bound: entries of a stream

Asked(r) == {Order[r][i] : i \in 1 .. Len(Order[r])}

ASSUME XReadAssumption ==
    /\ NoReader \notin Readers
    /\ \A r \in Readers : Order[r] \in Seq(Keys) /\ Order[r] # <<>>
    /\ \A r \in Readers : Block[r] \in {"no", "forever", "timeout"}
    /\ ChanSize \in Nat \ {0} /\ MaxEntries \in Nat

VARIABLES
    size,         \* number of entries of each stream
    exists,       \* keys that hold a stream
    streamOrder,  \* XRead.streamOrder, shared
    queued,       \* the XREADs that a transaction has queued
    loopHeld,     \* the XREAD that the loop is running
    pc,           \* progress of each XREAD
    todo,         \* streams the current step has not visited yet
    chan,         \* channel of each subscription, <<>> if there is none
    subs,         \* the subscriptions of each stream
    cases,        \* the select cases of blockingRead, by stream name
    result,       \* the entries found, by stream name
    reply,        \* the reply
    disturbed,    \* history: did another parseArgs run during this XREAD
    panicked      \* an index was out of range: the process is gone

vars == <<size, exists, streamOrder, queued, loopHeld, pc, todo, chan, subs, cases,
          result, reply, disturbed, panicked>>

Pcs == {"new", "check", "subscribe", "cases", "select", "unsubscribe", "write", "done"}

NoEntries == [k \in Keys |-> {}]

TypeOK ==
    /\ size \in [Keys -> 0 .. MaxEntries]
    /\ exists \subseteq Keys
    /\ streamOrder \in Seq(Keys)
    /\ queued \subseteq Readers
    /\ loopHeld \in Readers \cup {NoReader}
    /\ pc \in [Readers -> Pcs]
    /\ todo \in [Readers -> SUBSET Keys]
    /\ chan \in [Readers -> [Keys -> Seq(1 .. MaxEntries)]]
    /\ subs \in [Keys -> SUBSET Readers]
    /\ cases \in [Readers -> Seq(Keys)]
    /\ result \in [Readers -> [Keys -> SUBSET (1 .. MaxEntries)]]
    /\ reply \in [Readers -> [Keys -> SUBSET (1 .. MaxEntries)]]
    /\ disturbed \in [Readers -> BOOLEAN]
    /\ panicked \in BOOLEAN

Init ==
    /\ size = [k \in Keys |-> 0]
    /\ exists = {}
    /\ streamOrder = <<>>
    /\ queued \in SUBSET {r \in Readers : Block[r] # "no"}
    /\ loopHeld = NoReader
    /\ pc = [r \in Readers |-> "new"]
    /\ todo = [r \in Readers |-> {}]
    /\ chan = [r \in Readers |-> [k \in Keys |-> <<>>]]
    /\ subs = [k \in Keys |-> {}]
    /\ cases = [r \in Readers |-> <<>>]
    /\ result = [r \in Readers |-> NoEntries]
    /\ reply = [r \in Readers |-> NoEntries]
    /\ disturbed = [r \in Readers |-> FALSE]
    /\ panicked = FALSE

(***************************************************************************)
(* XADD, in the loop: the entry is added and every subscriber whose        *)
(* channel has room is notified.                                           *)
(***************************************************************************)
\* Mutant: XADD does not need the loop.
XAddOutsideLoop(k) ==
    /\ ~panicked
    /\ size[k] < MaxEntries
    /\ size' = [size EXCEPT ![k] = @ + 1]
    /\ exists' = exists \cup {k}
    /\ chan' = [r \in Readers |->
         IF r \in subs[k] /\ Len(chan[r][k]) < ChanSize
         THEN [chan[r] EXCEPT ![k] = Append(@, size[k] + 1)] ELSE chan[r]]
    /\ UNCHANGED <<streamOrder, queued, loopHeld, pc, todo, subs, cases, result, reply,
                   disturbed, panicked>>

\* XADD runs in the loop, which an XREAD may be holding.
XAdd(k) ==
    /\ ~panicked /\ loopHeld = NoReader
    /\ size[k] < MaxEntries
    /\ size' = [size EXCEPT ![k] = @ + 1]
    /\ exists' = exists \cup {k}
    /\ chan' = [r \in Readers |->
         IF r \in subs[k] /\ Len(chan[r][k]) < ChanSize
         THEN [chan[r] EXCEPT ![k] = Append(@, size[k] + 1)] ELSE chan[r]]
    /\ UNCHANGED <<streamOrder, queued, loopHeld, pc, todo, subs, cases, result, reply,
                   disturbed, panicked>>

(***************************************************************************)
(* XRead.Execute.                                                          *)
(***************************************************************************)
Running(r) == ~panicked /\ pc[r] \notin {"new", "done"}

\* Is r run by the loop: without BLOCK, or as part of an EXEC.
InLoop(r) == Block[r] = "no" \/ r \in queued

\* parseArgs.  With BLOCK it runs in the goroutine, at any time; in the loop,
\* the request keeps the loop from here until it is answered.
ParseArgs(r) ==
    /\ ~panicked /\ pc[r] = "new"
    /\ InLoop(r) => loopHeld = NoReader
    /\ streamOrder' = Order[r]
    /\ pc' = [pc EXCEPT ![r] = "check"]
    /\ todo' = [todo EXCEPT ![r] = Asked(r)]
    /\ loopHeld' = IF InLoop(r) THEN r ELSE loopHeld
    /\ disturbed' = [q \in Readers |-> disturbed[q] \/ (q # r /\ Running(q))]
    /\ UNCHANGED <<size, exists, queued, chan, subs, cases, result, reply, panicked>>

\* Mutant: "+" on a stream without entries.
AvailableUnguarded(r, k) ==
    IF k \notin exists \/ From[r][k] = "$" THEN {}
    ELSE IF From[r][k] = "+" THEN {size[k]}
    ELSE 1 .. size[k]

\* The entries that readStreams finds at once: none for $, the last one for +,
\* and the entries from the given ID on, that ID included, otherwise.
Available(r, k) ==
    IF k \notin exists \/ From[r][k] = "$" THEN {}
    ELSE IF From[r][k] = "+" THEN {size[k]} \ {0}
    ELSE 1 .. size[k]

\* readStreams visits the streams one by one, in any order.
Check(r, k) ==
    /\ ~panicked /\ pc[r] = "check"
    /\ k \in todo[r]
    /\ todo' = [todo EXCEPT ![r] = @ \ {k}]
    /\ result' = [result EXCEPT ![r][k] = Available(r, k)]
    /\ UNCHANGED <<size, exists, streamOrder, queued, loopHeld, pc, chan, subs, cases, reply,
                   disturbed, panicked>>

\* Data, or nothing to wait for: reply.  Otherwise blockingRead.
Checked(r) ==
    /\ ~panicked /\ pc[r] = "check" /\ todo[r] = {}
    /\ LET blocks == result[r] = NoEntries /\ Block[r] # "no"
       IN  /\ pc' = [pc EXCEPT ![r] = IF blocks THEN "subscribe" ELSE "write"]
           /\ todo' = [todo EXCEPT ![r] = IF blocks THEN Asked(r) ELSE {}]
    /\ UNCHANGED <<size, exists, streamOrder, queued, loopHeld, chan, subs, cases, result,
                   reply, disturbed, panicked>>

\* blockingRead creates the stream if need be and subscribes to it.  The keys
\* hold streams or nothing throughout: the exits with WRONGTYPE, and a SET that
\* replaces a stream under its subscribers, are left out.
Subscribe(r, k) ==
    /\ ~panicked /\ pc[r] = "subscribe"
    /\ k \in todo[r]
    /\ todo' = [todo EXCEPT ![r] = @ \ {k}]
    /\ exists' = exists \cup {k}
    /\ subs' = [subs EXCEPT ![k] = @ \cup {r}]
    /\ pc' = [pc EXCEPT ![r] = IF todo[r] = {k} THEN "cases" ELSE @]
    /\ UNCHANGED <<size, streamOrder, queued, loopHeld, chan, cases, result, reply,
                   disturbed, panicked>>

\* Mutant: the last stream gets no case.
BuildCasesShort(r) ==
    /\ ~panicked /\ pc[r] = "cases"
    /\ cases' = [cases EXCEPT ![r] = SubSeq(streamOrder, 1, Len(streamOrder) - 1)]
    /\ pc' = [pc EXCEPT ![r] = "select"]
    /\ UNCHANGED <<size, exists, streamOrder, queued, loopHeld, todo, chan, subs, result,
                   reply, disturbed, panicked>>

\* One case per name in the shared streamOrder, whoever wrote it last; a name
\* without a subscription gives a nil channel, which is never ready.
BuildCases(r) ==
    /\ ~panicked /\ pc[r] = "cases"
    /\ cases' = [cases EXCEPT ![r] = streamOrder]
    /\ pc' = [pc EXCEPT ![r] = "select"]
    /\ UNCHANGED <<size, exists, streamOrder, queued, loopHeld, todo, chan, subs, result,
                   reply, disturbed, panicked>>

\* Mutant: the entry is filed under the first stream.
ReceiveUnderFirst(r, j) ==
    /\ ~panicked /\ pc[r] = "select"
    /\ j \in 1 .. Len(cases[r])
    /\ LET k == cases[r][j]
       IN  /\ r \in subs[k] /\ chan[r][k] # <<>>
           /\ chan' = [chan EXCEPT ![r][k] = Tail(@)]
           /\ result' = [result EXCEPT ![r][streamOrder[1]] = {Head(chan[r][k])}]
    /\ pc' = [pc EXCEPT ![r] = "unsubscribe"]
    /\ todo' = [todo EXCEPT ![r] = Asked(r)]
    /\ UNCHANGED <<size, exists, streamOrder, queued, loopHeld, subs, cases, reply, disturbed,
                   panicked>>

\* reflect.Select chose case j.  The name is looked up in streamOrder again.
Receive(r, j) ==
    /\ ~panicked /\ pc[r] = "select"
    /\ j \in 1 .. Len(cases[r])
    /\ LET k == cases[r][j]
       IN  /\ r \in subs[k] /\ chan[r][k] # <<>>
           /\ chan' = [chan EXCEPT ![r][k] = Tail(@)]
           /\ IF j > Cardinality(Asked(r))
              THEN UNCHANGED <<result, panicked>>
              ELSE IF j > Len(streamOrder)
              THEN panicked' = TRUE /\ UNCHANGED result
              ELSE /\ result' = [result EXCEPT ![r][streamOrder[j]] = {Head(chan[r][k])}]
                   /\ UNCHANGED panicked
    /\ pc' = [pc EXCEPT ![r] = "unsubscribe"]
    /\ todo' = [todo EXCEPT ![r] = Asked(r)]
    /\ UNCHANGED <<size, exists, streamOrder, queued, loopHeld, subs, cases, reply, disturbed>>

Timeout(r) ==
    /\ ~panicked /\ pc[r] = "select"
    /\ Block[r] = "timeout"
    /\ pc' = [pc EXCEPT ![r] = "unsubscribe"]
    /\ todo' = [todo EXCEPT ![r] = Asked(r)]
    /\ UNCHANGED <<size, exists, streamOrder, queued, loopHeld, chan, subs, cases, result,
                   reply, disturbed, panicked>>

\* Mutant: the channel is closed but stays in the subscriber map.
UnsubscribeKeepsEntry(r, k) ==
    /\ ~panicked /\ pc[r] = "unsubscribe"
    /\ k \in todo[r]
    /\ todo' = [todo EXCEPT ![r] = @ \ {k}]
    /\ chan' = [chan EXCEPT ![r][k] = <<>>]
    /\ pc' = [pc EXCEPT ![r] = IF todo[r] = {k} THEN "write" ELSE @]
    /\ UNCHANGED <<size, exists, streamOrder, queued, loopHeld, subs, cases, result, reply,
                   disturbed, panicked>>

\* The deferred Unsubscribe of each stream closes and drops the channel.
Unsubscribe(r, k) ==
    /\ ~panicked /\ pc[r] = "unsubscribe"
    /\ k \in todo[r]
    /\ todo' = [todo EXCEPT ![r] = @ \ {k}]
    /\ subs' = [subs EXCEPT ![k] = @ \ {r}]
    /\ chan' = [chan EXCEPT ![r][k] = <<>>]
    /\ pc' = [pc EXCEPT ![r] = IF todo[r] = {k} THEN "write" ELSE @]
    /\ UNCHANGED <<size, exists, streamOrder, queued, loopHeld, cases, result, reply,
                   disturbed, panicked>>

\* writeResult writes the streams that are in the result and in streamOrder.
WriteResult(r) ==
    /\ ~panicked /\ pc[r] = "write"
    /\ reply' = [reply EXCEPT ![r] = [k \in Keys |->
         IF \E i \in 1 .. Len(streamOrder) : streamOrder[i] = k THEN result[r][k] ELSE {}]]
    /\ pc' = [pc EXCEPT ![r] = "done"]
    /\ loopHeld' = IF loopHeld = r THEN NoReader ELSE loopHeld
    /\ UNCHANGED <<size, exists, streamOrder, queued, todo, chan, subs, cases, result,
                   disturbed, panicked>>

Step(r) ==
    \/ Checked(r) \/ BuildCases(r) \/ WriteResult(r)
    \/ \E k \in Keys : Check(r, k) \/ Subscribe(r, k) \/ Unsubscribe(r, k)
    \/ \E j \in 1 .. Len(cases[r]) : Receive(r, j)
    \/ Timeout(r)

Next ==
    \/ \E k \in Keys : XAdd(k)
    \/ \E r \in Readers : ParseArgs(r) \/ Step(r)

Spec == Init /\ [][Next]_vars

\* A goroutine that can run does; a timer fires.  No one has to XADD or XREAD.
FairSpec == Spec /\ \A r \in Readers : WF_vars(Step(r))

(***************************************************************************)
(* Properties.                                                             *)
(***************************************************************************)
\* An XREAD during which no other XREAD parsed its arguments answers with
\* all it found, under the names of the streams it asked for, and nothing that
\* is not in the stream of that name.  The lookup in streamOrder ends the
\* process only when another XREAD has replaced it.
ReplyIsRight ==
    /\ \A r \in Readers : pc[r] = "done" /\ ~disturbed[r] =>
         \A k \in Keys :
           /\ reply[r][k] # {} => k \in Asked(r)
           /\ reply[r][k] \subseteq 1 .. size[k]
           /\ reply[r] = result[r]
    /\ panicked => \E r \in Readers : disturbed[r]

\* A blocked XREAD that was not disturbed listens to every stream it asked
\* for: an entry in one of its channels always has a case to be received by.
UndisturbedReaderListens ==
    \A r \in Readers : pc[r] = "select" /\ ~disturbed[r] =>
      \A k \in Asked(r) : r \in subs[k] /\ \E j \in 1 .. Len(cases[r]) : cases[r][j] = k

\* Subscriptions do not leak: an XREAD that has been answered, by data or by
\* its timeout, is not subscribed to anything any more.
NoLeakedSubscription ==
    \A r \in Readers, k \in Keys : r \in subs[k] => Running(r) \/ panicked

\* An XREAD that was not disturbed and has an entry waiting in one of its
\* channels is answered.
NewDataIsDelivered ==
    \A r \in Readers :
      (pc[r] = "select" /\ \E k \in Keys : chan[r][k] # <<>>)
        ~> (pc[r] = "done" \/ disturbed[r] \/ panicked)

Stuck(r) ==
    Block[r] = "forever" /\ pc[r] \in {"subscribe", "cases", "select"}

\* A queued XREAD with BLOCK 0 that has found nothing waits for an XADD while
\* it holds the loop that would run it: it never ends.  XADD is never propagated,
\* so this is so on a replica as well.
QueuedReadNeverWakes ==
    [][\A r \in queued : Stuck(r) => Stuck(r)']_vars

\* The first edge case in the comment on XREAD: 'Block > 0, id "+", stream is
\* not empty => Return immediately'.  An XREAD that blocks with "+" would then have found the stream
\* empty, or have been notified of its entries.
PlusReturnsImmediately ==
    \A r \in Readers : \A k \in Asked(r) :
      pc[r] = "select" /\ From[r][k] = "+" => size[k] = 0 \/ chan[r][k] # <<>>

=============================================================================
