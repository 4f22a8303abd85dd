------------------------------- MODULE KeyVal -------------------------------
(***************************************************************************)
(* The in-memory store of pkg/keyval/kv.go and the commands that change    *)
(* it: SET, GET and INCR on strings, XADD as the creator of stream keys.   *)
(*                                                                         *)
(* A store maps every key to a record [type, data, expiry]; type "none"    *)
(* says that the Go map has no such key (kv.Type answers "none" for it).   *)
(* The data of a string is what strconv.ParseInt makes of its bytes: a     *)
(* number 0..MaxInt (MaxInt stands for math.MaxInt64) or, for bytes that   *)
(* are not a number, one of Texts.  expiry is a time, 0 for "never".       *)
(*                                                                         *)
(* Every operator is constant level: a command takes the store and the     *)
(* clock and gives the store it leaves behind.                             *)
(***************************************************************************)
EXTENDS Integers

CONSTANTS
    Keys,     \* the keys
    Texts,    \* string values that are not numbers
    MaxInt    \* math.MaxInt64

ASSUME KeyValAssumption == MaxInt \in Nat /\ Texts \cap Int = {}

Data == (0 .. MaxInt) \cup Texts

Value == [type : {"none", "string", "stream"}, data : Data, expiry : Nat]

Store == [Keys -> Value]

\* The value of a key that is not in the map.
Absent == [type |-> "none", data |-> 0, expiry |-> 0]

NewStore == [k \in Keys |-> Absent]

(***************************************************************************)
(* The methods of kv.                                                      *)
(***************************************************************************)
isExpired(s, k, now) ==
    s[k].type # "none" /\ s[k].expiry > 0 /\ s[k].expiry < now

\* kv.Get finds a live string; a stream is answered with nil.
Found(s, k, now) == ~isExpired(s, k, now) /\ s[k].type = "string"

\* The store after kv.Get: an expired key is deleted on the way.
Get(s, k, now) ==
    IF isExpired(s, k, now) THEN [s EXCEPT ![k] = Absent] ELSE s

\* kv.Set replaces the whole Value: its Expiry is zero again.
Set(s, k, v) ==
    [s EXCEPT ![k] = [type |-> "string", data |-> v, expiry |-> 0]]

ExpireAt(s, k, t) ==
    IF s[k].type = "none" THEN s ELSE [s EXCEPT ![k].expiry = t]

DeleteTTL(s, k) == ExpireAt(s, k, 0)

\* kv.GetStream with createIfNotExist: a string under the key is an error,
\* even one that has expired.
GetStream(s, k) ==
    IF s[k].type = "none"
    THEN [s EXCEPT ![k] = [type |-> "stream", data |-> 0, expiry |-> 0]]
    ELSE s

(***************************************************************************)
(* Commands.  bad marks arguments the command refuses; ttl is the positive *)
(* duration of EX or PX and at the time of EXAT or PXAT, 0 if not given;   *)
(* need and forever are the arguments of WAIT (timeout 0 is forever).      *)
(***************************************************************************)
DataCommands == {"set", "incr", "get", "xadd"}

Command ==
    [name : DataCommands \cup {"multi", "exec", "discard", "wait", "unknown"},
     key : Keys, val : Data, bad : BOOLEAN,
     nx : BOOLEAN, xx : BOOLEAN, get : BOOLEAN, keepttl : BOOLEAN,
     ttl : Nat, at : Nat, need : Nat, forever : BOOLEAN]

\* Mutant: INCR is missing from the list.
IncrNotWriteable == {"set", "del"}

WriteableCommands == {"set", "del", "incr"}

TransactionCommands == {"multi", "exec", "discard"}

\* Set.Execute refuses these options before it looks at the store.
SetRejects(c) ==
    \/ c.bad
    \/ c.nx /\ c.xx
    \/ c.keepttl /\ (c.ttl > 0 \/ c.at > 0)

SetExpiry(s, c, now) ==
    IF c.ttl > 0 THEN ExpireAt(s, c.key, now + c.ttl)
    ELSE IF c.at > 0 THEN ExpireAt(s, c.key, c.at)
    ELSE s

SetStores(s, c, now) ==
    LET t == Set(s, c.key, c.val)
    IN  SetExpiry(IF c.keepttl THEN t ELSE DeleteTTL(t, c.key), c, now)

SetExecute(s, c, now) ==
    LET s1 == IF c.get \/ c.nx \/ c.xx THEN Get(s, c.key, now) ELSE s
        exists == Found(s, c.key, now)
    IN  IF SetRejects(c) THEN s
        ELSE IF (c.nx /\ exists) \/ (c.xx /\ ~exists) THEN s1
        ELSE SetStores(s1, c, now)

\* Mutant: no check for overflow.
IncrUnchecked(s, c, now) ==
    LET old == IF Found(s, c.key, now) THEN s[c.key].data ELSE 0
    IN  IF c.bad \/ old \in Texts THEN s ELSE Set(s, c.key, old + 1)

IncrExecute(s, c, now) ==
    LET s1 == Get(s, c.key, now)
        old == IF Found(s, c.key, now) THEN s[c.key].data ELSE 0
    IN  IF c.bad THEN s
        ELSE IF old \in Texts \/ old = MaxInt THEN s1
        ELSE Set(s1, c.key, old + 1)

\* The store that command c leaves behind.
Execute(s, c, now) ==
    CASE c.name = "set"  -> SetExecute(s, c, now)
      [] c.name = "incr" -> IncrExecute(s, c, now)
      [] c.name = "get"  -> IF c.bad THEN s ELSE Get(s, c.key, now)
      [] c.name = "xadd" -> IF c.bad THEN s ELSE GetStream(s, c.key)
      [] OTHER           -> s

\* Execute returns a Go error (as opposed to writing an error reply).  A SET
\* with too few arguments, which only writes one, is taken with the others: it
\* is propagated by the code and changes nothing at either end.
ReturnsError(c) == c.bad /\ c.name \in {"set", "get"}

\* What a reader of strings sees under key k at time now.
Visible(s, k, now) == IF Found(s, k, now) THEN s[k] ELSE Absent

=============================================================================
