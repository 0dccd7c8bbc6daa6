---------------------------- MODULE MCParallel -----------------------------
(* Parallel construction with up to three workers: every hash of each key. *)
EXTENDS ParallelBanding

CONSTANTS k1, k2, k3

(* No key, distinct keys, and a key that occurs twice *)
MCInputs == {<<>>, <<k1, k2, k1>>, <<k1, k2, k3>>}

MCEmptyRow == [s \in Slots |-> {j \in Columns : (s * (j + 2)) % 3 # 0}]
=============================================================================
