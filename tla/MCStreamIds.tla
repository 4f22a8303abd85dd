----------------------------- MODULE MCStreamIds -----------------------------
(* Explicit IDs on both sides of the step from one digit to two, one that  *)
(* is the beginning of another, and one next to the largest sequence.      *)
EXTENDS StreamIds

MixedIds == {<<8, 0>>, <<9, 1>>, <<9, 3>>, <<9, 10>>, <<10, 0>>, <<11, 0>>}
MinIds == {<<9, 2>>}
=============================================================================
