----------------------------- MODULE MCSnapshot -----------------------------
(* Two keys; values of different lengths, with and without an expiry, and a *)
(* stream.                                                                 *)
EXTENDS Snapshot

WriteSet == {<<<<97>>, String(<<50, 50>>, 1)>>, <<<<98>>, String(<<51>>, 0)>>,
             <<<<98>>, Stream>>}
Boundaries == {0, 1, 63, 64, 255, 256, 16383, 16384, 65535, 65536, 16777216, 1073741823}
=============================================================================
