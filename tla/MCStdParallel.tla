--------------------------- MODULE MCStdParallel ---------------------------
(* Parallel construction of the standard family: every hash of each key    *)
(* under every seed.                                                       *)
EXTENDS StdParallel

CONSTANTS k1, k2, k3

MCInputs == {<<>>, <<k1, k2, k1>>, <<k1, k2, k3>>}
=============================================================================
