---------------------------- MODULE MCStdBanding ----------------------------
(* Sequential construction of the standard family: every hash of each key  *)
(* under every seed.                                                       *)
EXTENDS StdBanding

CONSTANTS k1, k2, k3

(* No key, distinct keys, and a key that occurs twice *)
MCInputs == {<<>>, <<k1, k2, k1>>, <<k1, k2, k3>>}
=============================================================================
