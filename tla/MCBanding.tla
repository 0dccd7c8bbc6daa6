----------------------------- MODULE MCBanding -----------------------------
(* Sequential construction on small tables: every hash of every key.       *)
EXTENDS Banding

CONSTANTS k1, k2, k3

(* No key, distinct keys, and a key that occurs twice. *)
MCInputs == {<<>>, <<k1, k2, k1>>, <<k1, k2, k3>>}

(* Bit j of the pseudorandom row of slot s: the columns differ, and in     *)
(* neither are all empty slots alike.                                      *)
MCEmptyRow == [s \in Slots |-> {j \in Columns : (s * (j + 2)) % 3 # 0}]
=============================================================================
