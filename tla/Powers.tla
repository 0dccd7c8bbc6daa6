------------------------------- MODULE Powers -------------------------------
(***************************************************************************)
(* Powers of a natural number, by a recursive function.                    *)
(***************************************************************************)
EXTENDS Integers

(* b to the power of k *)
Power(b, k) ==
  LET power[i \in 0 .. k] == IF i = 0 THEN 1 ELSE b * power[i - 1]
  IN  power[k]
=============================================================================
