------------------------------ MODULE Geometry ------------------------------
(***************************************************************************)
(* The geometry of a serialized filter, as decode computes and checks it   *)
(* (src/src/format.rs): a filter type t of ribbon width t.w, t.r columns   *)
(* and segments of t.elem bytes, the number of start slots and the number  *)
(* of segments that the header declares.                                   *)
(***************************************************************************)
EXTENDS Integers

CONSTANTS
  U64,         \* how many values a u64 takes
  UsizeMax,    \* the largest usize of the target
  HeaderLen, ChecksumLen

ASSUME WidthAssumption == U64 \in Nat \ {0} /\ UsizeMax \in Nat
ASSUME LengthAssumption == HeaderLen \in Nat /\ ChecksumLen \in Nat

Types == [family : {0, 1}, r : Nat \ {0}, elem : Nat \ {0}, w : Nat \ {0}]

(* The operations wrap; GoodGeometry checks that they do not.              *)
SlotsOf(num_starts, t) == (num_starts + t.w - 1) % U64
PayloadLen(count, t)   == (count * t.elem) % (UsizeMax + 1)
TotalLen(count, t)     == (HeaderLen + PayloadLen(count, t) + ChecksumLen) % (UsizeMax + 1)

(* The number of slots is at least that of two blocks.                     *)
GoodSlots(num_starts, t) ==
  /\ num_starts + t.w - 1 < U64
  /\ num_starts # 0
  /\ SlotsOf(num_starts, t) % t.w = 0
  /\ SlotsOf(num_starts, t) >= 2 * t.w
  /\ SlotsOf(num_starts, t) <= UsizeMax

(* There are just as many segments as the blocks have columns.             *)
GoodCount(num_starts, count, t) ==
  LET expect_segments == (SlotsOf(num_starts, t) \div t.w) * t.r
  IN  expect_segments < U64 /\ count = expect_segments /\ count <= UsizeMax

(* A slip: the length of the payload is computed without a check.          *)
GeometryWraps(num_starts, count, t) ==
  /\ GoodSlots(num_starts, t)
  /\ GoodCount(num_starts, count, t)
  /\ HeaderLen + PayloadLen(count, t) + ChecksumLen <= UsizeMax

GoodGeometry(num_starts, count, t) ==
  /\ GoodSlots(num_starts, t)
  /\ GoodCount(num_starts, count, t)
  /\ count * t.elem <= UsizeMax
  /\ HeaderLen + PayloadLen(count, t) + ChecksumLen <= UsizeMax

-----------------------------------------------------------------------------
(* What contains needs: for a key of any start slot, the segments of its   *)
(* block, and those of the next if its row crosses into it, are there.     *)
QueriesInBounds(num_starts, count, t) ==
  \A s \in 0 .. num_starts - 1 :
    LET seg   == (s \div t.w) * t.r
        maybe == IF s % t.w # 0 THEN t.r ELSE 0
    IN  seg + maybe + t.r <= count
=============================================================================
