-------------------------------- MODULE Rdb --------------------------------
(***************************************************************************)
(* The snapshot format: what pkg/rdb/saver.go writes and what              *)
(* pkg/rdb/rdb.go makes of the bytes it finds.                             *)
(*                                                                         *)
(* A file is a sequence of bytes.  The saver is given as the sequence of   *)
(* its Write calls, each a sequence of bytes: the file is not buffered, so *)
(* a crash or another writer can come between any two of them.  The eight  *)
(* bytes of a checksum are eight times 256 + s, where s stands for the     *)
(* saver that computed it (CRC64 is taken to be free of collisions, and    *)
(* its bytes never to be a plausible length).                              *)
(***************************************************************************)
EXTENDS Bytes, FiniteSets

TypeString == 0
AuxiliaryField == 250
ResizeDB == 251
ExpiryMS == 252
Expiry == 253
SelectDB == 254
MarkerEOF == 255

\* keyval.Value: a string with an expiry (0 for none), or a stream.
String(d, e) == [type |-> "string", data |-> d, expiry |-> e]
Stream == [type |-> "stream", data |-> <<>>, expiry |-> 0]

\* A map without keys.
Empty == [k \in {} |-> Stream]

\* Stands for every time from here on.
Far == 16777216

(***************************************************************************)
(* Saving.                                                                 *)
(***************************************************************************)
\* The number without its lowest byte.
Shift(n) == n \div 256

BigEndian4(n) ==
    <<Shift(Shift(Shift(n))) % 256, Shift(Shift(n)) % 256, Shift(n) % 256, n % 256>>

\* Eight bytes of a time up to Far.
LittleEndian8(n) ==
    <<n % 256, Shift(n) % 256, Shift(Shift(n)) % 256, Shift(Shift(Shift(n))), 0, 0, 0, 0>>

\* Mutant: the boundary of the short form is one too large.
writeLengthOffByOne(n) ==
    IF n <= 64 THEN <<<<n>>>>
    ELSE IF n <= 16383 THEN <<<<64 + Shift(n), n % 256>>>>
    ELSE <<<<128>>, BigEndian4(n)>>

\* 6, 14 or 32 bits.
writeLength(n) ==
    IF n <= 63 THEN <<<<n>>>>
    ELSE IF n <= 16383 THEN <<<<64 + Shift(n), n % 256>>>>
    ELSE <<<<128>>, BigEndian4(n)>>

writeBytes(b) == Append(writeLength(Len(b)), b)

\* REDIS0012.
Magic == <<82, 69, 68, 73, 83, 48, 48, 49, 50>>

\* The header, the auxiliary fields (one with an 8 bit integer stands for the
\* five) and the number of the database, taken as one call.  The code makes one
\* call for each part, and its field ctime differs from file to file.
writeHeader == <<Magic \o <<AuxiliaryField, 1, 97, 192, 0, SelectDB, 0>>>>

writeExpire(e) == IF e = 0 THEN <<>> ELSE <<<<ExpiryMS>>, LittleEndian8(e)>>

writeObject(k, v) ==
    writeExpire(v.expiry) \o <<<<TypeString>>>> \o writeBytes(k) \o writeBytes(v.data)

\* The position of the first stream in order, or one past the end.
FirstStream(data, order) ==
    CHOOSE n \in 1 .. Len(order) + 1 :
      /\ n <= Len(order) => data[order[n]].type = "stream"
      /\ \A i \in 1 .. n - 1 : data[order[i]].type = "string"

\* SaveRDB, up to the checksum: the keys in the order of the map's iteration,
\* up to the first that cannot be saved.
SaveRDB(data, order) ==
    LET n == FirstStream(data, order)
        objects == FlattenSeq([i \in 1 .. n - 1 |-> writeObject(order[i], data[order[i]])])
    IN  writeHeader \o <<<<ResizeDB>>>>
        \o writeLength(Cardinality(DOMAIN data))
        \o writeLength(Cardinality({k \in DOMAIN data : data[k].expiry > 0}))
        \o objects \o (IF n > Len(order) THEN <<<<MarkerEOF>>>> ELSE <<>>)

SaveFails(data) == \E k \in DOMAIN data : data[k].type = "stream"

writeChecksum(s) == <<[i \in 1 .. 8 |-> 256 + s]>>

(***************************************************************************)
(* Loading.  A reader is given the file and a position and returns what it *)
(* read and the position behind it, or Failed.                             *)
(***************************************************************************)
Failed == [ok |-> FALSE, val |-> <<>>, special |-> FALSE, at |-> 0]
Read(val, at) == [ok |-> TRUE, val |-> val, special |-> FALSE, at |-> at]

Has(f, i, n) == i + n - 1 <= Len(f)
AreBytes(f, i, n) == Has(f, i, n) /\ \A j \in i .. i + n - 1 : f[j] <= 255

\* Mutant: Read instead of ReadFull.
readBytesShort(f, i, n) ==
    IF Has(f, i, n) THEN Read(SubSeq(f, i, i + n - 1), i + n)
    ELSE Read(SubSeq(f, i, Len(f)), Len(f) + 1)

readBytes(f, i, n) == IF Has(f, i, n) THEN Read(SubSeq(f, i, i + n - 1), i + n) ELSE Failed

readLength(f, i) ==
    IF ~AreBytes(f, i, 1) THEN Failed
    ELSE IF f[i] < 64 THEN Read(f[i], i + 1)
    ELSE IF f[i] < 128
    THEN IF AreBytes(f, i + 1, 1) THEN Read((f[i] - 64) * 256 + f[i + 1], i + 2) ELSE Failed
    ELSE IF f[i] < 192
    THEN IF ~AreBytes(f, i + 1, 4) THEN Failed
         ELSE Read(256 * (256 * (256 * f[i + 1] + f[i + 2]) + f[i + 3]) + f[i + 4], i + 5)
    ELSE [ok |-> TRUE, val |-> f[i] - 192, special |-> TRUE, at |-> i + 1]

\* The number of the next 1, 2 or 4 bytes, the lowest first.
Unsigned(f, i, width) ==
    f[i] + 256 * (IF width = 1 THEN 0
                  ELSE f[i + 1] + 256 * (IF width = 2 THEN 0 ELSE f[i + 2] + 256 * f[i + 3]))

\* A string of length l.  The special formats are integers of 8, 16 and 32 bits,
\* read without a sign, and compressed strings, taken to be larger than the
\* buffer of compressedLength bytes they are given (those that LZF did not
\* shrink would fit; the saver writes none).
StringOfLength(f, l) ==
    LET width == IF l.val = 0 THEN 1 ELSE IF l.val = 1 THEN 2 ELSE 4
    IN  IF ~l.ok THEN Failed
        ELSE IF ~l.special THEN readBytes(f, l.at, l.val)
        ELSE IF l.val > 2 \/ ~AreBytes(f, l.at, width) THEN Failed
        ELSE Read(Decimal[Unsigned(f, l.at, width)], l.at + width)

readString(f, i) == StringOfLength(f, readLength(f, i))

\* The string, or the length, that follows what r has read.
StringAfter(f, r) == IF r.ok THEN readString(f, r.at) ELSE Failed
LengthAfter(f, r) == IF r.ok THEN readLength(f, r.at) ELSE Failed

\* Mutant: the comparison of the checksums is left out.
verifyNothing(f, sums) == Len(f) >= 8

\* verifyChecksum looks at the whole file, wherever the EOF marker was found.
verifyChecksum(f, sums) == \E s \in DOMAIN sums : f = sums[s] \o writeChecksum(s)[1]

\* Mutant: a key is dropped in the millisecond it expires.
putObjectEarly(k, v, expiry, now) ==
    IF ~v.ok THEN Failed
    ELSE Read(IF expiry > 0 /\ expiry <= now THEN Empty ELSE [x \in {k.val} |-> String(v.val, expiry)],
              v.at)

\* What an object adds to the data: a key that has expired is skipped.
putObject(k, v, expiry, now) ==
    IF ~v.ok THEN Failed
    ELSE Read(IF expiry > 0 /\ expiry < now THEN Empty ELSE [x \in {k.val} |-> String(v.val, expiry)],
              v.at)

objectOfKey(f, k, expiry, now) == putObject(k, StringAfter(f, k), expiry, now)

\* handleObject at position i: the key, then its value.
handleObject(f, i, expiry, now) == objectOfKey(f, readString(f, i), expiry, now)

\* handleExpiryTime: n bytes of time, then the type and the object.
handleExpiryTime(f, i, n, now) ==
    IF ~AreBytes(f, i, n + 1) \/ f[i + n] # TypeString THEN Failed
    ELSE LET low == f[i] + 256 * (f[i + 1] + 256 * f[i + 2])
             far == \E j \in i + 3 .. i + n - 1 : f[j] > 0
         IN  handleObject(f, i + n + 1, IF far THEN Far ELSE low, now)

\* What an auxiliary field says is only logged; the ones SaveRDB writes are
\* the numbers that the parser expects.
handlerAuxiliaryField(f, i) == StringAfter(f, readString(f, i))

handleSelectDB(f, i) == readLength(f, i)

handleResizeDB(f, i) == LengthAfter(f, readLength(f, i))

\* A record that leaves the data as it is.
Keep(r) == IF r.ok THEN Read(Empty, r.at) ELSE Failed

\* The record at position i, with what it adds to the data.
handleRecord(f, i, now) ==
    CASE f[i] = AuxiliaryField -> Keep(handlerAuxiliaryField(f, i + 1))
      [] f[i] = SelectDB -> Keep(handleSelectDB(f, i + 1))
      [] f[i] = ResizeDB -> Keep(handleResizeDB(f, i + 1))
      [] f[i] = Expiry -> handleExpiryTime(f, i + 1, 4, now)
      [] f[i] = ExpiryMS -> handleExpiryTime(f, i + 1, 8, now)
      [] f[i] = TypeString -> handleObject(f, i + 1, 0, now)
      [] OTHER -> Failed

\* Two maps, where the keys of the later one replace those of the earlier.
Over(later, earlier) ==
    [k \in DOMAIN later \cup DOMAIN earlier |-> IF k \in DOMAIN later THEN later[k] ELSE earlier[k]]

\* A record r and what has been read behind it, q.
Followed(r, q) == IF q.ok THEN Read(Over(q.val, r.val), q.at) ELSE Failed

\* The records from position i on, up to the EOF marker.  The end of the file
\* between two records counts as completed.
ParseRecords(f, i, now) ==
    LET from[p \in 1 .. Len(f) + 1] ==
          IF p > Len(f) \/ f[p] = MarkerEOF THEN Read(Empty, p)
          ELSE LET r == handleRecord(f, p, now) IN IF r.ok THEN Followed(r, from[r.at]) ELSE Failed
    IN  from[i]

\* What is left to do at the EOF marker.
AtMarker(f, r, sums) == IF r.ok /\ r.at <= Len(f) /\ ~verifyChecksum(f, sums) THEN Failed ELSE r

\* ParseRDB: the header, then the records.
ParseRDB(f, sums, now) ==
    IF Has(f, 1, 9) /\ SubSeq(f, 1, 5) = SubSeq(Magic, 1, 5)
    THEN AtMarker(f, ParseRecords(f, 10, now), sums) ELSE Failed

=============================================================================
