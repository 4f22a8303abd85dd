------------------------------ MODULE StreamIds ------------------------------
(***************************************************************************)
(* One stream: XADD's three ways of choosing an ID and its trimming        *)
(* (pkg/command/xadd.go, Stream.AddEntry in pkg/keyval/stream.go, and      *)
(* GenerateID, GenerateIncompleteID, ValidateID, IsLargestID and           *)
(* updateLastID in pkg/keyval/radix_tree.go), and the ranges XRANGE and    *)
(* XREAD read from its tree, module RadixTree.                             *)
(*                                                                         *)
(* An ID is a pair <<timestamp, sequence>>.  The code compares IDs as the  *)
(* strings "timestamp-sequence"; Str gives the bytes of that string, and   *)
(* the order of IDs below is the order of those bytes.  The numbers are    *)
(* int64, of which MaxNum is the largest: a generated sequence wraps from  *)
(* it to the smallest, -(MaxNum + 1).  An entry is the number of the XADD  *)
(* that added it.                                                          *)
(***************************************************************************)
EXTENDS RadixTree

CONSTANTS
    Explicit,     \* IDs that clients spell out in XADD
    Partial,      \* timestamps t that clients use as t-*
    MaxLens,      \* arguments of MAXLEN
    MinIDs,       \* arguments of MINID
    StartTime,    \* the clock when the stream is created
    MaxTime,      \* bound: the clock
    MaxNum,       \* MaxInt64, the largest number in an ID
    MaxEntries    \* bound: XADDs

\* The IDs that clients can spell out: ValidateID refuses negative numbers.
ClientID == (0 .. MaxNum) \X (0 .. MaxNum)

\* The IDs of entries: a generated sequence may have wrapped.
ID == (0 .. MaxNum) \X (-(MaxNum + 1) .. MaxNum)

ASSUME StreamIdsAssumption ==
    /\ Explicit \subseteq ClientID
    /\ Partial \subseteq 0 .. MaxNum
    /\ MaxLens \subseteq Nat \ {0}
    /\ MinIDs \subseteq ClientID
    /\ StartTime \in Nat /\ MaxTime \in StartTime .. MaxNum
    /\ MaxNum \in Nat \ {0} /\ MaxEntries \in Nat

VARIABLES
    now,        \* time.Now
    tree,       \* RadixTree.root
    size,       \* RadixTree.size
    LastID,     \* RadixTree.LastID, <<>> for the empty string
    lastTimestamp,
    sequence,
    added,      \* history: the IDs added, in the order of the XADDs
    kept,       \* history: the entries MAXLEN and MINID ask to keep
    widths      \* history: the lengths of the numbers of the IDs in use

vars == <<now, tree, size, LastID, lastTimestamp, sequence, added, kept, widths>>

(***************************************************************************)
(* IDs as strings.                                                         *)
(***************************************************************************)
\* The decimal digits of n, as bytes.
Digits[n \in 0 .. MaxNum + 1] ==
    IF n < 10 THEN <<48 + n>> ELSE Append(Digits[n \div 10], 48 + (n % 10))

\* %d: the digits, behind a "-" if n is negative.
Signed(n) == IF n < 0 THEN <<45>> \o Digits[-n] ELSE Digits[n]

Str(id) == Digits[id[1]] \o <<45>> \o Signed(id[2])

Greater(a, b) == LessStr(Str(b), Str(a))

\* The numeric order of stream IDs.
NumericLess(a, b) == a[1] < b[1] \/ (a[1] = b[1] /\ a[2] < b[2])

Width(id) == <<Len(Digits[id[1]]), Len(Signed(id[2]))>>

\* Mutant: the last ID itself passes.
NotSmaller(id) == IF LastID = <<>> THEN TRUE ELSE ~Greater(LastID, id)

IsLargestID(id) == IF LastID = <<>> THEN TRUE ELSE Greater(id, LastID)

(***************************************************************************)
(* XADD.                                                                   *)
(***************************************************************************)
Trims ==
    {[kind |-> "none"]} \cup [kind : {"MAXLEN"}, n : MaxLens]
                        \cup [kind : {"MINID"}, id : MinIDs]

\* What XADD does to the tree: the new entry, then the trimming it asks for.
Store(id, trim) ==
    LET t == AddEntry(tree, Str(id), Len(added) + 1)
        u == CASE trim.kind = "MAXLEN" -> TrimBySize(t, size + 1, trim.n)
               [] trim.kind = "MINID" -> TrimByMinID(t, Str(trim.id))
               [] OTHER -> t
    IN  tree' = u /\ size' = size + 1 - Cardinality(Contents(t) \ Contents(u))

\* The same, by what the options mean: MAXLEN keeps the newest, MINID what is
\* not below it.
Keep(id, trim) ==
    LET all == Append(added, id)
        now_ == kept \cup {Len(all)}
    IN  /\ added' = all
        /\ widths' = widths \cup {Width(id)}
                       \cup (IF trim.kind = "MINID" THEN {Width(trim.id)} ELSE {})
        /\ kept' = {i \in now_ :
             CASE trim.kind = "MAXLEN" -> Cardinality({j \in now_ : j > i}) < trim.n
               [] trim.kind = "MINID" -> ~NumericLess(all[i], trim.id)
               [] OTHER -> TRUE}

\* Mutant: sequence is the next one to use instead of the last one used.
updateNextSequence(id, t, s) ==
    LastID' = id /\ lastTimestamp' = id[1] /\ sequence' = id[2] + 1

\* Mutant: an explicit ID does not move the generator.
updateKeepsGenerator(id, t, s) ==
    LastID' = id /\ lastTimestamp' = t /\ sequence' = s

\* updateLastID, after the generator set the timestamp and the sequence to t
\* and s, or left them alone.
updateLastID(id, t, s) ==
    IF IsLargestID(id)
    THEN LastID' = id /\ lastTimestamp' = id[1] /\ sequence' = id[2]
    ELSE UNCHANGED LastID /\ lastTimestamp' = t /\ sequence' = s

Add(id, t, s) ==
    /\ Len(added) < MaxEntries
    /\ \E trim \in Trims : Store(id, trim) /\ Keep(id, trim)
    /\ updateLastID(id, t, s)
    /\ UNCHANGED now

AddGenerated(id) == Add(id, id[1], id[2])

\* sequence++ on an int64.
NextSequence == IF sequence = MaxNum THEN -(MaxNum + 1) ELSE sequence + 1

\* XADD with *.
XAddAuto ==
    AddGenerated(IF now <= lastTimestamp THEN <<lastTimestamp, NextSequence>>
                 ELSE <<now, 0>>)

\* XADD with t-*: an old t is replaced by the last timestamp.
XAddPartial(t) ==
    AddGenerated(IF t <= lastTimestamp THEN <<lastTimestamp, NextSequence>>
                 ELSE <<t, 0>>)

\* XADD with an explicit ID (t alone stands for t-0).  Left out: "+" and "-",
\* which ValidateID lets through as IDs, and numbers with leading zeros.
XAddExplicit(id) ==
    /\ IsLargestID(id)
    /\ Add(id, lastTimestamp, sequence)

\* An explicit ID that is not the largest, by the order of strings, changes
\* nothing.
XAddRefused(id) ==
    /\ ~IsLargestID(id)
    /\ UNCHANGED vars

Tick ==
    /\ now < MaxTime
    /\ now' = now + 1
    /\ UNCHANGED <<tree, size, LastID, lastTimestamp, sequence, added, kept, widths>>

(***************************************************************************)
(* XRANGE.  A bound is an ID, a timestamp alone, an ID behind "(", which   *)
(* asks for an exclusive bound, or one of - and +.                         *)
(***************************************************************************)
Bounds ==
    [form : {"id", "exclusive"}, id : Explicit]
      \cup [form : {"time"}, id : {id \in Explicit : id[2] = 0}]
      \cup [form : {"-", "+"}, id : {<<0, 0>>}]

\* The bound as parseStreamID leaves it and RadixTree.Range compares it.  A
\* timestamp alone stands for its first ID as a start.
parseStreamID(b, isStart) ==
    CASE b.form = "-" -> IF isStart THEN <<>> ELSE <<45>>
      [] b.form = "+" -> IF isStart THEN <<43>> ELSE <<255>>
      [] OTHER -> Str(b.id)

\* ValidateID behind parseStreamID refuses "(", and the largest uint64 that
\* stands for the sequence of an end without one.
ValidateID(b, isStart) == b.form # "exclusive" /\ (b.form = "time" => isStart)

\* A bound that is refused selects nothing.
XRange(start, end, count) ==
    IF ValidateID(start, TRUE) /\ ValidateID(end, FALSE)
    THEN TreeRange(tree, parseStreamID(start, TRUE), parseStreamID(end, FALSE), count)
    ELSE <<>>

Init ==
    /\ now = StartTime
    /\ tree = NewRadixTree /\ size = 0
    /\ LastID = <<>>
    /\ lastTimestamp = 0 /\ sequence = 0
    /\ added = <<>>
    /\ kept = {} /\ widths = {}

Next ==
    \/ Tick
    \/ XAddAuto
    \/ \E t \in Partial : XAddPartial(t)
    \/ \E id \in Explicit : XAddExplicit(id) \/ XAddRefused(id)

Spec == Init /\ [][Next]_vars

(***************************************************************************)
(* Properties.                                                             *)
(***************************************************************************)
TypeOK ==
    /\ now \in StartTime .. MaxTime
    /\ added \in Seq(ID) /\ kept \subseteq 1 .. Len(added)
    /\ size \in 0 .. Len(added) /\ Contents(tree) \subseteq 1 .. Len(added)
    /\ LastID \in ID \cup {<<>>}
    /\ lastTimestamp \in 0 .. MaxNum /\ sequence \in -(MaxNum + 1) .. MaxNum

Increasing(s) == \A i, j \in 1 .. Len(s) : i < j => NumericLess(s[i], s[j])

\* No generated sequence has wrapped past MaxInt64.
Unwrapped == \A i \in 1 .. Len(added) : added[i] \in ClientID

\* All IDs of the stream have timestamps of one length and sequences of one
\* length, as the millisecond clock produces until a sequence reaches 10.
UniformWidth == Unwrapped /\ Cardinality(widths) <= 1

\* However *, t-* and explicit IDs are mixed and the clock moves, XADD produces
\* strictly increasing IDs and LastID is the newest, as long as their numbers
\* have the same length: the string order of the code is then the numeric one.
IdsIncrease ==
    UniformWidth => /\ Increasing(added)
                    /\ added # <<>> => LastID = added[Len(added)]

\* Until a sequence wraps past MaxInt64, the generators never fall behind the
\* explicit IDs, of whatever length: LastID is nowhere above the last timestamp
\* and sequence.  (After XADD of t-MaxInt64 the next t-* wraps: sequence is then
\* negative, and behind LastID.)
GeneratorAheadOfLastID ==
    Unwrapped /\ LastID # <<>> => \/ lastTimestamp > LastID[1]
                                  \/ lastTimestamp = LastID[1] /\ sequence >= LastID[2]

\* Splitting and filling nodes loses no entry and puts none on a wrong path,
\* for IDs of any length, also where one is the beginning of another: size
\* counts the entries in the tree, each is in the leaf of its own ID, and the
\* children of a node differ in their first byte.
TreeIsSound ==
    /\ size = Cardinality(Contents(tree))
    /\ \A p \in DOMAIN tree :
         /\ \A i \in 1 .. Len(tree[p].entries) : Str(added[tree[p].entries[i]]) = p
         /\ \A c \in DOMAIN tree[p].children, d \in DOMAIN tree[p].children :
              c # d => tree[p].children[c][Len(p) + 1] # tree[p].children[d][Len(p) + 1]

\* The lengths of the numbers of a bound.
BoundWidth(b) == IF b.form \in {"-", "+"} THEN {} ELSE {Width(b.id)}

\* XRANGE selects exactly the entries between two IDs, from the first ID of a
\* timestamp, from the beginning or to the end of the stream, in the order of
\* the IDs, and with COUNT the first of them.
RangeIsNumeric ==
    \A a, b \in Bounds :
      (/\ a.form \in {"id", "time", "-"} /\ b.form \in {"id", "+"} /\ Unwrapped
       /\ Cardinality(widths \cup BoundWidth(a) \cup BoundWidth(b)) <= 1) =>
        LET between == {i \in Contents(tree) :
                          /\ ~NumericLess(added[i], a.id)
                          /\ (b.form = "+" \/ ~NumericLess(b.id, added[i]))}
            all == XRange(a, b, 0)
        IN  /\ {all[i] : i \in 1 .. Len(all)} = between
            /\ Increasing([i \in 1 .. Len(all) |-> added[all[i]]])
            /\ XRange(a, b, 1) = SubSeq(all, 1, IF all = <<>> THEN 0 ELSE 1)

\* Trimming keeps what MAXLEN and MINID ask to keep and nothing else, whatever
\* was trimmed or split before, as long as the IDs have numbers of one length.
TrimIsExact == UniformWidth => Contents(tree) = kept

=============================================================================
