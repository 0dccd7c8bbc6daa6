------------------------------- MODULE Sizing -------------------------------
(***************************************************************************)
(* How many slots a table gets (src/src/filter.rs: num_slots_for;          *)
(* src/src/banding128.rs: num_slots_for_128).                              *)
(*                                                                         *)
(* The factor 1 + (4 + r / 4) / w is a binary fraction, (4 w + 16 + r) of  *)
(* 4 w, and no f64 rounds it.  The number of keys and the product with the *)
(* factor are rounded to the bits of a mantissa, 53 in the code; with      *)
(* fewer of them rounding begins at fewer keys.                            *)
(***************************************************************************)
EXTENDS Geometry, Powers

CONSTANTS
  MantissaBits,  \* significant bits of a float
  TableTypes,    \* filter types: records as in Geometry
  MaxKeys        \* bound on the number of keys

ASSUME MantissaAssumption == MantissaBits \in Nat /\ MantissaBits >= 8

(* Ribbons are 64 or 128 bits wide.                                        *)
ASSUME TableTypesAssumption == TableTypes \subseteq {t \in Types : t.w <= 128}

ASSUME KeysAssumption == MaxKeys \in Nat

(* The nearest number of MantissaBits significant bits, of two the even    *)
(* one                                                                     *)
Rounded(x) ==
  LET shift == CHOOSE s \in 0 .. x :
                 /\ x < Power(2, MantissaBits + s)
                 /\ s > 0 => x >= Power(2, MantissaBits + s - 1)
      ulp   == Power(2, shift)
      q     == x \div ulp
      up    == 2 * (x % ulp) > ulp \/ (2 * (x % ulp) = ulp /\ q % 2 = 1)
  IN  (IF up THEN q + 1 ELSE q) * ulp

(* overhead(r) * n as f64, cut to an integer                               *)
Raw(n, t) == Rounded(Rounded(n) * (4 * t.w + 16 + t.r)) \div (4 * t.w)

DivCeil(a, b) == (a + b - 1) \div b

(* A slip: rounded down to whole blocks *)
RoundDown(raw, w) ==
  LET s == (raw \div w) * w IN  IF s < 2 * w THEN 2 * w ELSE s

(* Whole blocks, and never fewer than two                                  *)
RoundUpNumSlots(raw, w) ==
  LET s == DivCeil(raw, w) * w
      t == IF s = w THEN s + w ELSE s
  IN  IF t < 2 * w THEN 2 * w ELSE t

num_slots_for(n, t) == RoundUpNumSlots(Raw(n, t), t.w)

(* A usize is no wider than a u64, and memory has room for the tables that *)
(* are built and for the buffers they are serialized into.                 *)
ASSUME RoomAssumption ==
  /\ UsizeMax < U64
  /\ \A t \in TableTypes, keys \in 0 .. MaxKeys :
       LET slots == num_slots_for(keys, t)
       IN  /\ slots <= UsizeMax
           /\ HeaderLen + (slots \div t.w) * t.r * t.elem + ChecksumLen <= UsizeMax

-----------------------------------------------------------------------------
VARIABLES
  type,      \* the filter type
  n,         \* the number of keys to build it for
  num_slots  \* the size of its table

sizeVars == <<type, n, num_slots>>

SizeInit == type \in TableTypes /\ n = 0 /\ num_slots = num_slots_for(0, type)

(* The set of keys grows by some, and the filter is built anew.            *)
Rebuild ==
  /\ \E more \in {1, 97} : n + more <= MaxKeys /\ n' = n + more
  /\ num_slots' = num_slots_for(n', type)
  /\ UNCHANGED type

SizeSpec == SizeInit /\ [][Rebuild]_sizeVars

(* A table has a slot for every key, though product and key count have     *)
(* been rounded and cut, and no more than the overhead asks for, a 64th of *)
(* that, which rounding may add, and two blocks; the constructors'         *)
(* assertion on whole blocks holds; and the filter, once serialized, has a *)
(* geometry that decode accepts.                                           *)
TableFits ==
  /\ n <= num_slots
  /\ num_slots * 4 * type.w
       <= (n * (4 * type.w + 16 + type.r) * 65) \div 64 + 2 * type.w * 4 * type.w
  /\ num_slots % type.w = 0
  /\ GoodGeometry(num_slots - type.w + 1, (num_slots \div type.w) * type.r, type)
=============================================================================
