------------------------------ MODULE Snapshot ------------------------------
(***************************************************************************)
(* SAVE and the start-up: pkg/command/save.go, Export and RestoreRDB of    *)
(* pkg/keyval/kv.go and the first half of Server.Start, over the format of *)
(* module Rdb.                                                             *)
(*                                                                         *)
(* SAVE is a blocking command: each one runs in a goroutine of its own,    *)
(* next to the loop that changes the store and next to other SAVEs.  It    *)
(* creates the file, which truncates it, exports the store and writes the  *)
(* snapshot in place, call by call.  The process may be killed at any      *)
(* point; what was written stays, and the next process parses it.          *)
(* The server is taken to be started with dbfilename dump2.rdb, the name   *)
(* that SAVE writes to.                                                    *)
(***************************************************************************)
EXTENDS Rdb

CONSTANTS
    Writes,     \* what clients store: pairs of a key (a byte string) and a value
    NSaves,     \* bound: SAVE requests
    MaxSets,    \* bound: changes of the store
    MaxStarts,  \* bound: restarts
    MaxTime,    \* bound: the clock
    Lengths     \* lengths that must survive writeLength and readLength

Saves == 1 .. NSaves

\* Keys and values are shorter than 2^31 bytes.
MaxLength == 2147483647

ASSUME SnapshotAssumption ==
    /\ \A w \in Writes :
         /\ w[1] \in Seq(Byte) /\ Len(w[1]) <= MaxLength
         /\ \/ w[2] = Stream
            \/ /\ w[2] = String(w[2].data, w[2].expiry)
               /\ w[2].data \in Seq(Byte) /\ Len(w[2].data) <= MaxLength
               /\ w[2].expiry \in 0 .. Far - 1
    /\ NSaves \in Nat /\ MaxSets \in Nat /\ MaxStarts \in Nat
    /\ MaxTime \in 1 .. Far - 1
    /\ Lengths \subseteq 0 .. MaxLength

VARIABLES
    now,       \* time.Now
    store,     \* kv.store
    up,        \* is the process running
    exists,    \* is there a file
    file,      \* its bytes
    pc,        \* progress of each SAVE
    todo,      \* the Write calls it has left
    off,       \* the offset of its file descriptor
    snap,      \* the data it exported
    sums,      \* the bytes its checksum is about
    sets, starts,
    mixed,     \* history: was another SAVE running at the same time
    latest     \* history: the SAVE that created the file last, 0 for none

vars == <<now, store, up, exists, file, pc, todo, off, snap, sums, sets, starts,
          mixed, latest>>

saveVars == <<pc, todo, off, snap, sums, mixed, latest>>

Running(s) == pc[s] \in {"created", "writing"}

Init ==
    /\ now = 1
    /\ store = Empty /\ up = TRUE
    /\ exists = FALSE /\ file = <<>>
    /\ pc = [s \in Saves |-> "new"]
    /\ todo = [s \in Saves |-> <<>>]
    /\ off = [s \in Saves |-> 0]
    /\ snap = [s \in Saves |-> Empty]
    /\ sums = [s \in Saves |-> <<>>]
    /\ sets = 0 /\ starts = 0
    /\ mixed = [s \in Saves |-> FALSE]
    /\ latest = 0

\* A command of a client changes a key.  Bound: only while a SAVE is still to
\* export the store.
Set(k, v) ==
    /\ up /\ sets < MaxSets /\ \E s \in Saves : pc[s] \in {"new", "created"}
    /\ sets' = sets + 1
    /\ store' = [x \in DOMAIN store \cup {k} |-> IF x = k THEN v ELSE store[x]]
    /\ UNCHANGED <<now, up, exists, file, saveVars, starts>>

\* Time passes.  Bound: not before there is a file and not during a SAVE, as
\* only the parser looks at the clock.
Tick ==
    /\ now < MaxTime /\ exists /\ \A s \in Saves : ~Running(s)
    /\ now' = now + 1
    /\ UNCHANGED <<store, up, exists, file, saveVars, sets, starts>>

(***************************************************************************)
(* SAVE.                                                                   *)
(***************************************************************************)
\* os.Create truncates the file, whoever else has it open.
Create(s) ==
    /\ up /\ pc[s] = "new" /\ \A q \in Saves : q < s => pc[q] # "new"
    /\ pc' = [pc EXCEPT ![s] = "created"]
    /\ exists' = TRUE /\ file' = <<>>
    /\ mixed' = [q \in Saves |->
         mixed[q] \/ (q # s /\ Running(q)) \/ (q = s /\ \E p \in Saves : Running(p))]
    /\ latest' = s
    /\ UNCHANGED <<now, store, up, todo, off, snap, sums, sets, starts>>

\* Export copies the store; SaveRDB goes through the copy in any order.
Export(s) ==
    /\ up /\ pc[s] = "created"
    /\ \E order \in SetToSeqs(DOMAIN store) :
         LET calls == SaveRDB(store, order)
         IN  /\ sums' = [sums EXCEPT ![s] = FlattenSeq(calls)]
             /\ todo' = [todo EXCEPT ![s] =
                  IF SaveFails(store) THEN calls ELSE calls \o writeChecksum(s)]
    /\ snap' = [snap EXCEPT ![s] = store]
    /\ pc' = [pc EXCEPT ![s] = "writing"]
    /\ UNCHANGED <<now, store, up, exists, file, off, sets, starts, mixed, latest>>

\* The file with b written at offset o; a gap before it is filled with zeros.
Overlay(f, o, b) ==
    [i \in 1 .. (IF Len(f) > o + Len(b) THEN Len(f) ELSE o + Len(b)) |->
       IF i \in o + 1 .. o + Len(b) THEN b[i - o] ELSE IF i <= Len(f) THEN f[i] ELSE 0]

\* Mutant: the call is repeated.
WriteAgain(s) ==
    /\ up /\ pc[s] = "writing" /\ todo[s] # <<>>
    /\ file' = Overlay(file, off[s], Head(todo[s]))
    /\ off' = [off EXCEPT ![s] = @ + Len(Head(todo[s]))]
    /\ UNCHANGED <<now, store, up, exists, pc, todo, snap, sums, sets, starts, mixed, latest>>

\* One call of Write, at the offset of this descriptor.
Write(s) ==
    /\ up /\ pc[s] = "writing" /\ todo[s] # <<>>
    /\ file' = Overlay(file, off[s], Head(todo[s]))
    /\ off' = [off EXCEPT ![s] = @ + Len(Head(todo[s]))]
    /\ todo' = [todo EXCEPT ![s] = Tail(@)]
    /\ UNCHANGED <<now, store, up, exists, pc, snap, sums, sets, starts, mixed, latest>>

\* The answer: OK, or the error of the key that cannot be saved.
Answer(s) ==
    /\ up /\ pc[s] = "writing" /\ todo[s] = <<>>
    /\ pc' = [pc EXCEPT ![s] = IF SaveFails(snap[s]) THEN "failed" ELSE "ok"]
    /\ UNCHANGED <<now, store, up, exists, file, todo, off, snap, sums, sets, starts,
                   mixed, latest>>

(***************************************************************************)
(* The process ends and starts again.                                      *)
(***************************************************************************)
\* Killed: the goroutines are gone, and part of a call may have been written
\* (bound: only by a SAVE that ran alone).
Crash ==
    /\ up
    /\ up' = FALSE
    /\ store' = Empty
    /\ \/ UNCHANGED file
       \/ \E s \in Saves : /\ pc[s] = "writing" /\ todo[s] # <<>> /\ ~mixed[s]
                           /\ \E n \in 1 .. Len(Head(todo[s])) - 1 :
                                file' = Overlay(file, off[s], SubSeq(Head(todo[s]), 1, n))
    /\ pc' = [s \in Saves |-> IF Running(s) THEN "cut" ELSE pc[s]]
    /\ todo' = [s \in Saves |-> <<>>]
    /\ UNCHANGED <<now, exists, off, snap, sums, sets, starts, mixed, latest>>

\* Server.Start: without a file the store is empty, and a file that cannot be
\* parsed ends the process again.
Start ==
    /\ ~up /\ starts < MaxStarts
    /\ starts' = starts + 1
    /\ LET parsed == ParseRDB(file, sums, now)
       IN  /\ up' = (~exists \/ parsed.ok)
           /\ store' = IF exists /\ parsed.ok THEN parsed.val ELSE Empty
    /\ UNCHANGED <<now, exists, file, saveVars, sets>>

Next ==
    \/ \E w \in Writes : Set(w[1], w[2])
    \/ Tick
    \/ \E s \in Saves : Create(s) \/ Export(s) \/ Write(s) \/ Answer(s)
    \/ Crash \/ Start

Spec == Init /\ [][Next]_vars

(***************************************************************************)
(* Properties.                                                             *)
(***************************************************************************)
TypeOK ==
    /\ now \in 1 .. MaxTime
    /\ up \in BOOLEAN /\ exists \in BOOLEAN
    /\ \A k \in DOMAIN store : store[k].type \in {"string", "stream"}
    /\ \A i \in DOMAIN file : file[i] \in 0 .. 256 + NSaves
    /\ pc \in [Saves -> {"new", "created", "writing", "ok", "failed", "cut"}]
    /\ \A s \in Saves : off[s] <= Len(sums[s]) + 8
    /\ latest \in Saves \cup {0}

\* The part of the data that has not expired.
Live(data) == {k \in DOMAIN data : data[k].expiry = 0 \/ data[k].expiry >= now}

Part(small, big) == \A k \in DOMAIN small : k \in DOMAIN big /\ small[k] = big[k]

\* The whole point of SAVE: once it has answered OK, without another SAVE at
\* the same time or since, a restart finds exactly the keys that were in the
\* store when it exported it, with their values and expiry, less those that
\* have expired: whatever their lengths, in whatever order the map gave them.
SavedFileLoads ==
    (latest # 0 /\ pc[latest] = "ok" /\ ~mixed[latest]) =>
      LET parsed == ParseRDB(file, sums, now)
      IN  parsed.ok /\ parsed.val = [k \in Live(snap[latest]) |-> snap[latest][k]]

\* A SAVE that was cut short or failed has destroyed the file it replaced, but
\* a start never makes up a key or a value: it loads a part of what that SAVE
\* exported, or refuses the file.
LoadedWasSaved ==
    (latest # 0 /\ ~mixed[latest]) =>
      LET parsed == ParseRDB(file, sums, now)
      IN  parsed.ok => Part(parsed.val, snap[latest])

\* SAVEs that overlapped wrote into one file.  When they have all answered, the
\* checksum refuses a mixture: what a parse that comes to an EOF marker loads is
\* exactly what one of them exported.  (One that comes to the end of the file
\* between two records has compared no checksum.)
MixtureIsRefused ==
    (latest # 0 /\ \A s \in Saves : pc[s] \in {"new", "ok"}) =>
      LET parsed == ParseRDB(file, sums, now)
      IN  parsed.ok /\ parsed.at <= Len(file) =>
            \E s \in Saves : parsed.val = [k \in Live(snap[s]) |-> snap[s][k]]

\* Lengths at the boundaries of the three encodings, and those of what a start
\* has loaded, are read back as written, with the reader left behind them.
LengthsRoundTrip ==
    \A n \in IF exists THEN UNION {{Len(k), Len(store[k].data)} : k \in DOMAIN store} ELSE Lengths :
      LET bytes == FlattenSeq(writeLength(n))
      IN  readLength(bytes, 1) = Read(n, Len(bytes) + 1)

=============================================================================
