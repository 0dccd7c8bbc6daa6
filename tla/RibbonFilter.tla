---------------------------- MODULE RibbonFilter ----------------------------
(***************************************************************************)
(* What every constructor of a homogeneous filter promises: from a slice   *)
(* of keys it returns one filter, and that filter is determined by the set *)
(* of the keys' equations alone - not by the order of the keys, the        *)
(* duplicates among them, the pleating window or the number of threads     *)
(* (README.md: "Construction variants, all producing the bit-identical     *)
(* filter").                                                               *)
(***************************************************************************)
EXTENDS Hashing, LinearSystem, Sequences, Functions

CONSTANTS
  Inputs,    \* the key slices a filter may be built from
  R,         \* the columns of the solution
  EmptyRow   \* the bits of the unconstrained slots

VARIABLES
  keys, hash,  \* the slice and the hash of every key in it
  returned     \* the filters returned: none yet, or one, column by column

(* In every column, the bits that a key's coefficient row selects must     *)
(* cancel out.                                                             *)
Equation(h) == RowEquation(Start(h), CoeffRow(h), {})

Equations == {Equation(hash[k]) : k \in Range(keys)}

Init ==
  /\ keys \in Inputs
  /\ hash \in [Range(keys) -> Hashes]
  /\ returned = {}

Return ==
  /\ returned = {}
  /\ \E f \in returned' :
       /\ returned' = {f}
       /\ f \in [0 .. R - 1 -> SUBSET Slots]
       /\ \A j \in 0 .. R - 1 :
            CanonicalColumns(Slots, j, Equations, EmptyRow) = {f[j]}
  /\ UNCHANGED <<keys, hash>>

Spec == Init /\ [][Return]_<<keys, hash, returned>>
=============================================================================
