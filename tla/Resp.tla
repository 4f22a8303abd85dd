-------------------------------- MODULE Resp --------------------------------
(***************************************************************************)
(* RESP as bytes: what pkg/resp/writer.go writes for a command, what       *)
(* Resp.RAW makes of a parsed one, and what ParseResp of pkg/resp/resp.go  *)
(* reads from a buffer that may hold only the beginning of a value.        *)
(*                                                                         *)
(* A value is a sequence of bytes, a command a sequence of values.  The    *)
(* elements of a parsed array are values too; one that is no bulk string   *)
(* is marked as such, behind Typed, with its text and its bytes.           *)
(***************************************************************************)
EXTENDS Bytes

LF == 10
CR == 13
CLRF == <<CR, LF>>

SimpleString == 43
BulkString == 36
Array == 42
Map == 37
Simple == {SimpleString, 45, 58, 95, 35, 44, 40}    \* + - : _ # , (
Bulk == {BulkString, 33, 61}                        \* $ ! =
Arrays == {Array, 62, 126}                          \* * > ~

(***************************************************************************)
(* Writing.                                                                *)
(***************************************************************************)
writeLen(n) == Decimal[n] \o CLRF

writeBytesWithType(type, b) == <<type>> \o writeLen(Len(b)) \o b \o CLRF

\* CreateCommand, as a client library would do it.
WriteStringSlice(cmd) ==
    <<Array>> \o writeLen(Len(cmd))
    \o FlattenSeq([i \in DOMAIN cmd |-> writeBytesWithType(BulkString, cmd[i])])

\* An element that is no bulk string: Resp.String and Resp.RAW of it.
Typed == 256
typedElement(text, raw) == <<Typed, Len(text)>> \o text \o raw
IsTyped(el) == el # <<>> /\ el[1] = Typed

String(el) == IF IsTyped(el) THEN SubSeq(el, 3, 2 + el[2]) ELSE el

rawElement(el) ==
    IF IsTyped(el) THEN SubSeq(el, 3 + el[2], Len(el))
    ELSE <<BulkString>> \o writeLen(Len(el)) \o el \o CLRF

\* Mutant: the length leaves out a newline at the end of the value.
RAWShort(cmd) ==
    <<Array>> \o writeLen(Len(cmd))
    \o FlattenSeq([i \in DOMAIN cmd |->
         <<BulkString>> \o writeLen(Cardinality({j \in DOMAIN cmd[i] : j < Len(cmd[i]) \/ cmd[i][j] # LF}))
         \o cmd[i] \o CLRF])

\* Resp.RAW of a parsed command: what the master propagates.
RAW(cmd) ==
    <<Array>> \o writeLen(Len(cmd)) \o FlattenSeq([i \in DOMAIN cmd |-> rawElement(cmd[i])])

(***************************************************************************)
(* Reading.  A reader is given the buffer and a position; it returns the   *)
(* type, the data and the position behind it, or the kind of its error.    *)
(***************************************************************************)
Err(kind) == [err |-> kind, type |-> 0, data |-> <<>>, at |-> 0]
Got(type, data, at) == [err |-> "none", type |-> type, data |-> data, at |-> at]

\* io.ReadFull of n bytes.
ReadFull(f, i, n) ==
    IF i + n - 1 <= Len(f) THEN Got(0, SubSeq(f, i, i + n - 1), i + n)
    ELSE IF i > Len(f) THEN Err("EOF") ELSE Err("unexpected EOF")

\* The line that begins at i.  An empty line is invalid.
readLine(f, i) ==
    LET ends == {j \in i .. Len(f) : f[j] = LF}
        j == CHOOSE x \in ends : \A y \in ends : x <= y
    IN  IF ends = {} THEN Err("EOF")
        ELSE IF j - i < 2 \/ f[j - 1] # CR THEN Err("invalid input")
        ELSE Got(0, SubSeq(f, i, j - 2), j + 1)

\* The number behind the type byte, which may have a sign; -2 for none.  Atoi
\* also refuses what int64 does not hold, and make panics on what memory does
\* not; here the data of such a number is merely not there.
parseLen(line) ==
    LET text == Tail(line)
        signed == text # <<>> /\ text[1] \in {43, 45}
        digits == IF signed THEN Tail(text) ELSE text
        n == IF signed /\ text[1] = 45 THEN 0 - Number(digits) ELSE Number(digits)
    IN  IF digits = <<>> \/ (\E d \in Range(digits) : d \notin 48 .. 57) \/ n < -1 THEN -2
        ELSE n

\* The data, then the line end, which may be missing altogether.
parseBulkString(f, line, at) ==
    LET n == parseLen(line)
        data == ReadFull(f, at, n)
        crlf == ReadFull(f, data.at, 2)
    IN  IF n = -2 THEN Err("invalid length")
        ELSE IF n = -1 THEN Got(0, <<>>, at)
        ELSE IF data.err # "none" THEN data
        ELSE IF crlf.err \notin {"none", "EOF"} THEN crlf
        ELSE Got(0, data.data, IF crlf.err = "EOF" THEN data.at ELSE crlf.at)

\* Does a map of the values vs, of which every other is a key, have fewer keys.
SameKeys(vs) ==
    \E j, k \in DOMAIN vs : j < k /\ j % 2 = 1 /\ k % 2 = 1 /\ String(vs[j]) = String(vs[k])

\* stringifyArray and stringifyMap: the texts of vs, in brackets, with one byte
\* behind those at odd places and another behind those at even ones.
Stringify(opening, vs, odd, even, closing) ==
    <<opening>> \o FlattenSeq([i \in DOMAIN vs |->
                     String(vs[i]) \o (IF i = Len(vs) THEN <<>>
                                       ELSE IF i % 2 = 1 THEN <<odd>> ELSE <<even>>)])
    \o <<closing>>

\* A value as an element of an array.  RAW writes the keys of a map as simple
\* strings; Go's order of the keys, which is any, is taken to be theirs, and
\* the text of a null array, which is empty, to be that of an empty one.
Element(v) ==
    LET vs == v.data
        sum == FlattenSeq([i \in DOMAIN vs |-> rawElement(vs[i])])
        pairs == FlattenSeq([i \in DOMAIN vs |->
                   IF i % 2 = 1 THEN <<SimpleString>> \o String(vs[i]) \o CLRF
                   ELSE rawElement(vs[i])])
    IN  CASE v.type = BulkString -> v.data
          [] v.type \in Bulk \ {BulkString} ->
               typedElement(v.data, writeBytesWithType(v.type, v.data))
          [] v.type \in Simple -> typedElement(v.data, <<v.type>> \o v.data \o CLRF)
          [] v.type \in Arrays ->
               typedElement(Stringify(91, vs, 44, 44, 93),
                            <<v.type>> \o writeLen(Len(vs)) \o sum)
          [] v.type = Map ->
               typedElement(Stringify(123, vs, 58, 44, 125),
                            <<Map>> \o writeLen(Len(vs) \div 2) \o pairs)

\* The value at position i, where elements[p][n] are n values from p on.
Value(f, i, elements) ==
    LET line == readLine(f, i)
        type == line.data[1]
        n == parseLen(line.data)
        body == IF type \in Bulk THEN parseBulkString(f, line.data, line.at)
                ELSE IF type \notin Arrays \cup {Map} THEN Err("unknown type")
                ELSE IF n = -2 THEN Err("invalid length")
                ELSE elements[line.at][IF type = Map THEN 2 * n ELSE n]
    IN  IF line.err # "none" THEN line
        ELSE IF type \in Simple THEN Got(type, Tail(line.data), line.at)
        ELSE IF body.err = "none" /\ type = Map /\ SameKeys(body.data)
        THEN Err("incomplete input")
        ELSE [body EXCEPT !.type = type]

\* The values of parseArray, and of parseMap with two for each key.
Elements(f) ==
    LET elements[i \in Nat \ {0}] == [n \in Int |->
          LET first == Value(f, i, elements)
              rest == elements[first.at][n - 1]
          IN  IF n <= 0 THEN Got(0, <<>>, i)
              ELSE IF first.err # "none" THEN first
              ELSE IF rest.err # "none" THEN rest
              ELSE Got(0, <<Element(first)>> \o rest.data, rest.at)]
    IN  elements

ParseResp(f, i) == Value(f, i, Elements(f))

=============================================================================
