------------------------------ MODULE Hashing ------------------------------
(***************************************************************************)
(* The hashing layer of the homogeneous filter (src/src/hash.rs).          *)
(*                                                                         *)
(* A 64-bit key hash is used twice: its magnitude picks the start slot     *)
(* (fastrange) and its product with an odd constant gives the coefficient  *)
(* row.  Which magnitude and which product a key gets is up to the mixing  *)
(* function, so a hash is any pair [hi, lo]: hi is the magnitude, scaled   *)
(* down to HashRange values, and lo the product without its bit 0, which   *)
(* coeff_row overwrites.                                                   *)
(***************************************************************************)
EXTENDS BitRows

CONSTANTS
  W,          \* the ribbon width: bits in a coefficient row
  NumBlocks,  \* blocks of W slots in the table
  HashRange   \* how many magnitudes a key hash takes (2^64 in the code)

ASSUME WAssumption == W \in Nat \ {0}
ASSUME NumBlocksAssumption == NumBlocks \in Nat /\ NumBlocks >= 2
ASSUME HashRangeAssumption == HashRange \in Nat \ {0}

NumSlots  == NumBlocks * W
Slots     == 0 .. NumSlots - 1

(* A slip: counts one start slot too many *)
NumStartsPlusOne == NumSlots - W + 2

NumStarts == NumSlots - W + 1

Word   == SUBSET (0 .. W - 1)
Hashes == [hi : 0 .. HashRange - 1, lo : SUBSET (1 .. W - 1)]

(* (h * num_starts) >> 64 *)
Start(h) == (h.hi * NumStarts) \div HashRange

(* (h * factor) | 1 *)
CoeffRow(h) == h.lo \cup {0}
=============================================================================
