------------------------------ MODULE MCXRead ------------------------------
(* Two blocking XREADs over different streams, and one without BLOCK.      *)
EXTENDS XRead, TLC

CONSTANTS r1, r2, r3, k1, k2

ReaderOrder == (r1 :> <<k1, k2>>) @@ (r2 :> <<k2>>) @@ (r3 :> <<k1>>)
ReaderFrom == (r1 :> (k1 :> "$" @@ k2 :> "+")) @@ (r2 :> (k1 :> "$" @@ k2 :> "first"))
              @@ (r3 :> (k1 :> "first" @@ k2 :> "first"))
ReaderBlock == (r1 :> "forever") @@ (r2 :> "timeout") @@ (r3 :> "no")
=============================================================================
