----------------------------- MODULE MCFraming -----------------------------
(* Commands with plain, empty and newline values, last and in the middle.  *)
EXTENDS Framing

a == <<97>>
Inner == <<97, LF, 98>>             \* the connection never recovers
Skipped == <<LF, LF, SimpleString>> \* what follows the newlines is dropped
\* "a\n*2\r\n+b\r\n$0": handed to the loop as a command of its own
Wild == <<97, LF, Array, 50, CR, LF, SimpleString, 98, CR, LF, BulkString, 48>>
CommandSet == {<<a, a>>, <<<<LF>>, <<>>>>, <<<<>>, <<97, LF>>>>, <<a, Inner>>,
               <<Skipped, <<Array>>>>, <<Wild>>}
=============================================================================
