---------------------------- MODULE Hashing128 -----------------------------
(***************************************************************************)
(* The hashing layer of the standard family (src/src/hash128.rs).  The     *)
(* start slot is that of the homogeneous family; the coefficient row and   *)
(* the result row are both expanded from one product of half the ribbon    *)
(* width, so the result row is a function of the coefficient row.          *)
(***************************************************************************)
EXTENDS Hashing

CONSTANTS
  XorMask,      \* kCoeffXor64
  ByteBits,     \* bits in a byte
  ResultWidth   \* bits in a result row (32 in the code)

Half == W \div 2

ASSUME HalfAssumption == W = 2 * Half /\ Half \in Nat \ {0}
ASSUME XorMaskAssumption == XorMask \subseteq 0 .. Half - 1
ASSUME ByteAssumption == ByteBits \in Nat \ {0} /\ Half % ByteBits = 0
ASSUME ResultWidthAssumption == ResultWidth \in 1 .. Half

ResultBits == 0 .. ResultWidth - 1

(* lo is the product `a`, whole *)
Hashes128 == [hi : 0 .. HashRange - 1, lo : SUBSET (0 .. Half - 1)]

(* ((a << 64) ^ (a ^ kCoeffXor64)) | 1 *)
CoeffRow128(h) ==
  {b + Half : b \in h.lo} \cup SymDiff(h.lo, XorMask) \cup {0}

SwapBytes(x) ==
  {Half - ByteBits * (b \div ByteBits + 1) + (b % ByteBits) : b \in x}

(* a.swap_bytes(), cut to the width of a result row *)
ResultRow(h) == SwapBytes(h.lo) \cap ResultBits
=============================================================================
