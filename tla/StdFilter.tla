----------------------------- MODULE StdFilter -----------------------------
(***************************************************************************)
(* What every builder of the standard family promises: the ordinal seeds   *)
(* are tried in order, the first whose equations have a solution gives the *)
(* filter, and that filter is determined by the set of the equations; if   *)
(* no seed has a solution, the builder says so                             *)
(* (src/src/banding128.rs: "Bit-identical to build_std128 (same seed, same *)
(* solution)"; "Returns None only if no seed in 0..64 solves").            *)
(***************************************************************************)
EXTENDS Hashing128, LinearSystem, Sequences, Functions

CONSTANTS
  Inputs,     \* the key slices a filter may be built from
  R,          \* the columns of the solution
  SeedCount   \* how many ordinal seeds there are

VARIABLES
  keys,      \* the slice
  stage,     \* "between" seeds, "trying" one, "returned" or "failed"
  tried,     \* how many seeds have been tried; the last was tried - 1
  hash,      \* the hash of every key under that seed
  returned   \* the filters returned: none yet, or one

vars == <<keys, stage, tried, hash, returned>>

(* The bits that a key's coefficient row selects in column j must add up   *)
(* to bit j of its result row.                                             *)
Equation(h) == RowEquation(Start(h), CoeffRow128(h), ResultRow(h))

Equations == {Equation(hash[k]) : k \in Range(keys)}

(* A seed counts as solvable only if all bits of the result rows can be    *)
(* met, also those past the R columns of the filter.                       *)
Solvable ==
  \A j \in ResultBits : \E X \in SUBSET Slots : Solves(X, j, Equations)

Init ==
  /\ keys \in Inputs
  /\ stage = "between"
  /\ tried = 0
  /\ hash = [k \in Range(keys) |-> [hi |-> 0, lo |-> {}]]
  /\ returned = {}

TrySeed ==
  /\ stage = "between"
  /\ tried < SeedCount
  /\ stage' = "trying"
  /\ tried' = tried + 1
  /\ hash' \in [Range(keys) -> Hashes128]
  /\ UNCHANGED <<keys, returned>>

Abandon ==
  /\ stage = "trying"
  /\ ~Solvable
  /\ stage' = "between"
  /\ UNCHANGED <<keys, tried, hash, returned>>

Return ==
  /\ stage = "trying"
  /\ Solvable
  /\ stage' = "returned"
  /\ \E f \in returned' :
       /\ returned' = {f}
       /\ f.ordinal = tried - 1
       /\ \A j \in 0 .. R - 1 :
            CanonicalColumns(Slots, j, Equations, [s \in Slots |-> {}])
              = {f.column[j]}
  /\ UNCHANGED <<keys, tried, hash>>

Fail ==
  /\ stage = "between"
  /\ tried = SeedCount
  /\ stage' = "failed"
  /\ UNCHANGED <<keys, tried, hash, returned>>

Next == TrySeed \/ Abandon \/ Return \/ Fail

Spec == Init /\ [][Next]_vars
=============================================================================
