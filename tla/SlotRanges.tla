----------------------------- MODULE SlotRanges -----------------------------
(***************************************************************************)
(* How the parallel builders of both families cut a table of NumSlots      *)
(* slots into ranges, one per thread (src/src/filter/parallel.rs and       *)
(* src/src/banding128.rs).  A set of boundaries stands for the code's      *)
(* sorted vector without repetitions; a range is named by its first slot.  *)
(***************************************************************************)
EXTENDS Hashing

CONSTANTS
  G,        \* safety margin: keys this close to a boundary are deferred
  UsizeMax  \* the largest usize

ASSUME GAssumption == G \in Nat
ASSUME UsizeAssumption == UsizeMax \in Nat /\ NumSlots <= UsizeMax

CeilDiv(a, b) == (a + b - 1) \div b

NumWindows(window) == CeilDiv(NumSlots, window)

(* saturating_mul *)
SatMul(a, b) == Min({a * b, UsizeMax})

(* A slip: the products wrap. *)
BoundOfWraps(t, threads, window) ==
  LET per == CeilDiv(NumWindows(window), threads)
  IN  Min({(t * per * window) % (UsizeMax + 1), NumSlots})

(* The t-th boundary: a whole number of windows, or the end of the table.  *)
(* A window may be so large that two of them are more than a usize holds.  *)
BoundOf(t, threads, window) ==
  LET per == CeilDiv(NumWindows(window), threads)
  IN  Min({SatMul(SatMul(t, per), window), NumSlots})

Bounds(threads, window) == {BoundOf(t, threads, window) : t \in 0 .. threads}

(* The ranges, and the end of range b *)
RangesOf(bounds)    == bounds \ {NumSlots}
RangeEnd(bounds, b) == Min({x \in bounds : x > b})

(* A slip: a slot just below a boundary is taken to be in the next range. *)
RangeOfNext(bounds, s) == Max({b \in bounds : b <= s + 1})

(* The range of slot s: the last boundary at or below it *)
RangeOf(bounds, s) == Max({b \in bounds : b <= s})

(* A slip: a key exactly G slots from the boundary is not deferred.        *)
IsDeferredLate(bounds, s) ==
  LET end == RangeEnd(bounds, RangeOf(bounds, s))
  IN  end # Max(bounds) /\ s + G > end

(* A start slot within G slots of the end of its range, unless the range   *)
(* is the last: its reduction might leave the range.                       *)
IsDeferred(bounds, s) ==
  LET end == RangeEnd(bounds, RangeOf(bounds, s))
  IN  end # Max(bounds) /\ s + G >= end
=============================================================================
