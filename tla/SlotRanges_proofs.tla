------------------------- MODULE SlotRanges_proofs --------------------------
(***************************************************************************)
(* The ranges of the parallel builders tile the table, for every number of *)
(* threads and windows of every size, however close to the largest usize.  *)
(***************************************************************************)
EXTENDS SlotRanges, Hashing_proofs

-----------------------------------------------------------------------------
(* The arithmetic of boundaries                                            *)

LEMMA MinOfTwo ==
  ASSUME NEW a \in Nat, NEW b \in Nat
  PROVE  Min({a, b}) = IF a <= b THEN a ELSE b
<1>1. Min({a, b}) \in {a, b} /\ \A y \in {a, b} : Min({a, b}) <= y
  <2>1. {a, b} \in SUBSET Nat /\ {a, b} # {}
    OBVIOUS
  <2> QED BY <2>1, MinIsLeast
<1> QED BY <1>1

(* Enough pieces of the rounded-up size hold everything.                   *)
LEMMA CeilDivCovers ==
  ASSUME NEW a \in Nat, NEW b \in Nat \ {0}
  PROVE  CeilDiv(a, b) \in Nat /\ a <= b * CeilDiv(a, b)
<1> DEFINE x == a + b - 1
           q == x \div b
<1>1. x \in Nat
  OBVIOUS
<1>2. q \in Nat /\ x % b \in 0 .. b - 1 /\ x = b * q + (x % b)
  <2> HIDE DEF x
  <2> QED BY <1>1
<1>3. b * q \in Nat
  BY <1>2
<1>4. a <= b * q
  <2> HIDE DEF q
  <2> QED BY <1>2, <1>3
<1> QED BY <1>2, <1>4 DEF CeilDiv

(* A saturating product is the product, or it is the largest usize.        *)
LEMMA Saturates ==
  ASSUME NEW a \in Nat, NEW b \in Nat
  PROVE  /\ SatMul(a, b) \in 0 .. UsizeMax
         /\ SatMul(a, b) = IF a * b <= UsizeMax THEN a * b ELSE UsizeMax
<1>1. a * b \in Nat /\ UsizeMax \in Nat
  BY UsizeAssumption
<1> QED BY <1>1, MinOfTwo DEF SatMul

LEMMA SatMulType ==
  ASSUME NEW a \in Nat, NEW b \in Nat
  PROVE  SatMul(a, b) \in Nat
<1>1. SatMul(a, b) \in 0 .. UsizeMax
  BY Saturates
<1> QED BY <1>1

LEMMA SatMulGrows ==
  ASSUME NEW a \in Nat, NEW b \in Nat, NEW c \in Nat, a <= b
  PROVE  SatMul(a, c) <= SatMul(b, c)
<1> DEFINE p == a * c
           q == b * c
<1>1. p \in Nat /\ q \in Nat /\ p <= q
  BY ProductGrows
<1>2. /\ SatMul(a, c) = IF p <= UsizeMax THEN p ELSE UsizeMax
      /\ SatMul(b, c) = IF q <= UsizeMax THEN q ELSE UsizeMax
  BY Saturates
<1> HIDE DEF p, q
<1> QED BY <1>1, <1>2, UsizeAssumption

(* A boundary, without the minimum                                         *)
LEMMA BoundValue ==
  ASSUME NEW window \in Nat \ {0}, NEW threads \in Nat \ {0}, NEW t \in Nat
  PROVE  LET per == CeilDiv(NumWindows(window), threads)
             x   == SatMul(SatMul(t, per), window)
         IN  /\ per \in Nat /\ x \in Nat
             /\ BoundOf(t, threads, window) = IF x <= NumSlots THEN x ELSE NumSlots
             /\ BoundOf(t, threads, window) \in 0 .. NumSlots
<1> DEFINE per == CeilDiv(NumWindows(window), threads)
           x   == SatMul(SatMul(t, per), window)
<1>1. NumSlots \in Nat
  BY TableSize
<1>2. per \in Nat
  BY <1>1, CeilDivCovers DEF NumWindows
<1>3. x \in Nat
  <2>1. SatMul(t, per) \in Nat
    <3> HIDE DEF per
    <3> QED BY <1>2, SatMulType
  <2> QED BY <2>1, SatMulType
<1>4. BoundOf(t, threads, window) = Min({x, NumSlots})
  BY DEF BoundOf
<1> HIDE DEF x, per
<1>5. BoundOf(t, threads, window) = IF x <= NumSlots THEN x ELSE NumSlots
  BY <1>1, <1>3, <1>4, MinOfTwo
<1>6. BoundOf(t, threads, window) \in 0 .. NumSlots
  BY <1>1, <1>3, <1>5
<1> QED BY <1>2, <1>3, <1>5, <1>6 DEF x, per

-----------------------------------------------------------------------------
(* The boundaries that the builders collect are in order, from the start   *)
(* of the table to its end: a saturated product is never below the one     *)
(* before it, and the last range reaches the last slot.                    *)
THEOREM BoundsTile ==
  \A window, threads \in Nat \ {0} :
    /\ BoundOf(0, threads, window) = 0
    /\ BoundOf(threads, threads, window) = NumSlots
    /\ \A t \in 0 .. threads - 1 :
         BoundOf(t, threads, window) <= BoundOf(t + 1, threads, window)
<1> SUFFICES ASSUME NEW window \in Nat \ {0}, NEW threads \in Nat \ {0}
             PROVE  /\ BoundOf(0, threads, window) = 0
                    /\ BoundOf(threads, threads, window) = NumSlots
                    /\ \A t \in 0 .. threads - 1 :
                         BoundOf(t, threads, window) <= BoundOf(t + 1, threads, window)
  OBVIOUS
<1> DEFINE per  == CeilDiv(NumWindows(window), threads)
           x(t) == SatMul(SatMul(t, per), window)
<1>1. NumSlots \in Nat \ {0} /\ UsizeMax \in Nat /\ NumSlots <= UsizeMax
  BY TableSize, UsizeAssumption, WAssumption
<1>2. NumWindows(window) \in Nat /\ NumSlots <= window * NumWindows(window)
  BY <1>1, CeilDivCovers DEF NumWindows
<1>3. per \in Nat /\ NumWindows(window) <= threads * per
  BY <1>2, CeilDivCovers
<1>4. \A t \in Nat :
        /\ x(t) \in Nat
        /\ BoundOf(t, threads, window) = IF x(t) <= NumSlots THEN x(t) ELSE NumSlots
  BY BoundValue
<1> HIDE DEF per
<1>5. \A t \in Nat : SatMul(t, per) \in Nat
  BY <1>3, SatMulType
<1>6. x(0) = 0
  <2>1. SatMul(0, per) = 0
    BY <1>1, <1>3, Saturates
  <2>2. SatMul(0, window) = 0
    BY <1>1, Saturates
  <2> QED BY <2>1, <2>2
<1>7. x(threads) >= NumSlots
  <2> DEFINE y == SatMul(threads, per)
  <2>1. y >= NumWindows(window) \/ y >= NumSlots
    <3>1. threads * per \in Nat
      BY <1>3
    <3> QED BY <1>1, <1>2, <1>3, <3>1, Saturates
  <2>2. y \in Nat
    BY <1>5
  <2> HIDE DEF y
  <2>3. y * window \in Nat /\ y * window >= NumSlots
    <3>1. CASE y >= NumWindows(window)
      <4>1. NumWindows(window) * window <= y * window
        BY <1>2, <2>2, <3>1, ProductGrows
      <4>2. NumWindows(window) * window = window * NumWindows(window)
        BY <1>2
      <4>3. y * window \in Nat /\ window * NumWindows(window) \in Nat
        BY <1>2, <2>2
      <4> QED BY <1>1, <1>2, <4>1, <4>2, <4>3
    <3>2. CASE y >= NumSlots
      <4>1. 1 * y <= window * y /\ window * y \in Nat
        BY <2>2, ProductGrows
      <4>2. window * y = y * window
        BY <2>2
      <4> QED BY <1>1, <2>2, <3>2, <4>1, <4>2
    <3> QED BY <2>1, <3>1, <3>2
  <2>4. SatMul(y, window) >= NumSlots
    BY <1>1, <2>2, <2>3, Saturates
  <2> QED BY <2>4 DEF y
<1>8. ASSUME NEW t \in 0 .. threads - 1
      PROVE  x(t) <= x(t + 1)
  <2>1. t \in Nat /\ t + 1 \in Nat
    OBVIOUS
  <2>2. SatMul(t, per) <= SatMul(t + 1, per)
    BY <1>3, <2>1, SatMulGrows
  <2> QED BY <1>5, <2>1, <2>2, SatMulGrows
<1> HIDE DEF x
<1>9. BoundOf(0, threads, window) = 0
  BY <1>1, <1>4, <1>6
<1>10. BoundOf(threads, threads, window) = NumSlots
  BY <1>1, <1>4, <1>7
<1>11. \A t \in 0 .. threads - 1 :
         BoundOf(t, threads, window) <= BoundOf(t + 1, threads, window)
  BY <1>1, <1>4, <1>8
<1> QED BY <1>9, <1>10, <1>11

(* What the boundaries of any tiling are like                              *)
Tiling(bounds) == bounds \in SUBSET (0 .. NumSlots) /\ 0 \in bounds /\ NumSlots \in bounds

LEMMA BoundsAreTiling ==
  ASSUME NEW window \in Nat \ {0}, NEW threads \in Nat \ {0}
  PROVE  Tiling(Bounds(threads, window))
<1>1. Bounds(threads, window) \in SUBSET (0 .. NumSlots)
  <2>1. \A t \in 0 .. threads : BoundOf(t, threads, window) \in 0 .. NumSlots
    BY BoundValue
  <2> QED BY <2>1, Zenon DEF Bounds
<1>2. 0 \in 0 .. threads /\ threads \in 0 .. threads
  OBVIOUS
<1> QED BY <1>1, <1>2, BoundsTile DEF Bounds, Tiling

(* A range ends at the next boundary, and the last one at the end of the   *)
(* table.                                                                  *)
LEMMA RangeEnds ==
  ASSUME NEW bounds, Tiling(bounds), NEW b \in RangesOf(bounds)
  PROVE  /\ b \in Slots /\ b \in Nat
         /\ RangeEnd(bounds, b) \in bounds
         /\ RangeEnd(bounds, b) \in Nat /\ b < RangeEnd(bounds, b)
         /\ RangeEnd(bounds, b) <= NumSlots
         /\ \A x \in bounds : b < x => RangeEnd(bounds, b) <= x
<1> DEFINE above == {x \in bounds : x > b}
<1>1. NumSlots \in Nat /\ bounds \in SUBSET Nat /\ \A x \in bounds : x <= NumSlots
  BY TableSize DEF Tiling
<1>2. b \in Nat /\ b < NumSlots
  BY <1>1 DEF RangesOf
<1>3. above \in SUBSET Nat /\ above # {}
  BY <1>1, <1>2 DEF Tiling
<1>4. Min(above) \in above /\ \A y \in above : Min(above) <= y
  <2> HIDE DEF above
  <2> QED BY <1>3, MinIsLeast
<1> DEFINE e == RangeEnd(bounds, b)
<1>5. e \in above /\ \A y \in above : e <= y
  BY <1>4 DEF RangeEnd
<1> HIDE DEF e
<1>6. e \in bounds /\ e \in Nat /\ b < e /\ e <= NumSlots
  BY <1>1, <1>2, <1>5
<1>7. \A x \in bounds : b < x => e <= x
  <2> SUFFICES ASSUME NEW x \in bounds, b < x PROVE e <= x
    OBVIOUS
  <2>1. x \in above
    BY <1>1, <1>2
  <2> QED BY <1>5, <2>1
<1> QED BY <1>1, <1>2, <1>6, <1>7 DEF e, Slots

LEMMA LastBound ==
  ASSUME NEW bounds, Tiling(bounds)
  PROVE  Max(bounds) = NumSlots
<1>1. NumSlots \in Nat /\ bounds \in SUBSET Nat /\ \A x \in bounds : x <= NumSlots
  BY TableSize DEF Tiling
<1>2. Max(bounds) \in bounds /\ \A y \in bounds : Max(bounds) >= y
  BY <1>1, MaxIsGreatest DEF Tiling
<1> DEFINE m == Max(bounds)
<1>3. m \in Nat /\ m <= NumSlots /\ m >= NumSlots
  BY <1>1, <1>2 DEF Tiling
<1> HIDE DEF m
<1>4. m = NumSlots
  BY <1>1, <1>3
<1> QED BY <1>4 DEF m

LEMMA SlotInRange ==
  ASSUME NEW bounds, Tiling(bounds), NEW s \in Slots
  PROVE  /\ RangeOf(bounds, s) \in RangesOf(bounds)
         /\ RangeOf(bounds, s) <= s
         /\ s < RangeEnd(bounds, RangeOf(bounds, s))
<1> DEFINE below == {b \in bounds : b <= s}
           b     == RangeOf(bounds, s)
           e     == RangeEnd(bounds, b)
<1>1. /\ NumSlots \in Nat /\ s \in Nat /\ s < NumSlots
      /\ bounds \in SUBSET Nat
  BY TableSize DEF Slots, Tiling
<1>2. below \in SUBSET Nat /\ below # {} /\ \A x \in below : x <= s
  <2>1. 0 \in below
    BY <1>1 DEF Tiling
  <2> QED BY <1>1, <2>1
<1>3. b \in below /\ \A x \in below : b >= x
  <2> HIDE DEF below
  <2> QED BY <1>1, <1>2, MaxIsGreatest DEF RangeOf, below
<1> HIDE DEF b
<1>4. b \in RangesOf(bounds) /\ b <= s /\ b \in Nat
  <2>1. b \in bounds /\ b <= s
    BY <1>3
  <2>2. b \in Nat /\ b # NumSlots
    BY <1>1, <2>1
  <2> QED BY <2>1, <2>2 DEF RangesOf
<1>5. e \in bounds /\ e \in Nat /\ b < e
  BY <1>4, RangeEnds
<1> HIDE DEF e
<1>6. ~ (e <= s)
  <2> SUFFICES ASSUME e <= s PROVE FALSE
    OBVIOUS
  <2>1. e \in below
    BY <1>5
  <2> QED BY <1>3, <1>4, <1>5, <2>1
<1> QED BY <1>1, <1>4, <1>5, <1>6 DEF b, e

(* Every slot lies in the range it is assigned to, which is one of the     *)
(* ranges and not empty: a worker never meets a key that starts before its *)
(* slice (`start - base` cannot underflow) or behind it.                   *)
THEOREM SlotInItsRange ==
  \A window, threads \in Nat \ {0} : \A s \in Slots :
    LET bounds == Bounds(threads, window)
        b      == RangeOf(bounds, s)
    IN  /\ b \in RangesOf(bounds)
        /\ RangeEnd(bounds, b) \in bounds
        /\ b <= s /\ s < RangeEnd(bounds, b)
<1> SUFFICES ASSUME NEW window \in Nat \ {0}, NEW threads \in Nat \ {0}, NEW s \in Slots
             PROVE  LET bounds == Bounds(threads, window)
                        b      == RangeOf(bounds, s)
                    IN  /\ b \in RangesOf(bounds)
                        /\ RangeEnd(bounds, b) \in bounds
                        /\ b <= s /\ s < RangeEnd(bounds, b)
  OBVIOUS
<1>1. Tiling(Bounds(threads, window))
  BY BoundsAreTiling
<1> QED BY <1>1, SlotInRange, RangeEnds
=============================================================================
