---------------------------- MODULE MCPleatPlan ----------------------------
(* The counting sort on short slices, with every start slot of each key.   *)
EXTENDS PleatPlan

CONSTANTS k1, k2, k3

(* No key, distinct keys, and keys that occur twice *)
MCInputs == {<<>>, <<k1, k2, k3>>, <<k1, k2, k1, k3>>, <<k2, k1, k1>>}
=============================================================================
