------------------------------- MODULE Bytes -------------------------------
(***************************************************************************)
(* Numbers as the bytes of their decimal digits, which the code gets from  *)
(* Go's fmt and strconv.                                                   *)
(***************************************************************************)
EXTENDS Integers, SequencesExt

Byte == 0 .. 255

\* The decimal digits of n.
Decimal[n \in Nat] ==
    IF n < 10 THEN <<48 + n>> ELSE Append(Decimal[n \div 10], 48 + (n % 10))

\* The number that a sequence of digits stands for.
Number(s) ==
    LET upTo[k \in 0 .. Len(s)] == IF k = 0 THEN 0 ELSE 10 * upTo[k - 1] + (s[k] - 48)
    IN  upTo[Len(s)]

=============================================================================
