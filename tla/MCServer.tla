------------------------------ MODULE MCServer ------------------------------
(***************************************************************************)
(* Small instances of Server: for each configuration, which commands each  *)
(* client chooses from and how many requests it sends.                     *)
(***************************************************************************)
EXTENDS Server, TLC

CONSTANTS c1, c2, k1, t1

GetCmd == [name |-> "get", key |-> k1, val |-> 0, bad |-> FALSE, nx |-> FALSE,
           xx |-> FALSE, get |-> FALSE, keepttl |-> FALSE, ttl |-> 0, at |-> 0,
           need |-> 0, forever |-> FALSE]

Cmd(n) == [GetCmd EXCEPT !.name = n]

\* Transactions: one client queues, executes and discards, against another
\* that increments the same key.
TxCommands ==
    (c1 :> {Cmd("multi"), Cmd("exec"), Cmd("discard"), Cmd("set")}) @@
    (c2 :> {Cmd("incr")})
TxRequests == (c1 :> 6) @@ (c2 :> 2)

\* Strings, streams and expiry on one key, inside and outside an EXEC.
StoreCommands == (c1 :> {
    GetCmd, Cmd("incr"), Cmd("xadd"), Cmd("unknown"), Cmd("multi"), Cmd("exec"),
    [Cmd("set") EXCEPT !.val = t1, !.nx = TRUE],
    [Cmd("set") EXCEPT !.val = MaxInt, !.xx = TRUE, !.get = TRUE],
    [Cmd("set") EXCEPT !.ttl = 1],
    [Cmd("set") EXCEPT !.at = 2, !.nx = TRUE],
    [Cmd("set") EXCEPT !.keepttl = TRUE],
    [Cmd("set") EXCEPT !.nx = TRUE, !.xx = TRUE],
    [Cmd("set") EXCEPT !.bad = TRUE]})
StoreRequests == (c1 :> 5)

\* WAIT with and without a timeout, alone and queued, pipelined with the
\* requests that need the loop and the client's Writer.
LiveCommands ==
    (c1 :> {Cmd("set"), Cmd("multi"), Cmd("exec"), [Cmd("wait") EXCEPT !.need = 1],
            [Cmd("wait") EXCEPT !.need = 1, !.forever = TRUE]})
LiveRequests == (c1 :> 4)

\* A key with a TTL, overwritten with KEEPTTL.
KeepTtlCommands ==
    (c1 :> {[Cmd("set") EXCEPT !.ttl = 1], [Cmd("set") EXCEPT !.keepttl = TRUE]})
KeepTtlRequests == (c1 :> 2)

=============================================================================
