---------------------------- MODULE LinearSystem ----------------------------
(***************************************************************************)
(* Systems of linear equations over GF(2), the mathematics a ribbon filter *)
(* promises to solve.  An unknown is a slot; a solution column is the set  *)
(* X of slots whose bit is one.  An equation [on, rhs] asks, in column j,  *)
(* that the bits of X on the slots `on` add up to bit j of `rhs`.          *)
(*                                                                         *)
(* Nothing here mentions the order in which the equations were given: this *)
(* is the reference the builders of the filter are compared with.          *)
(***************************************************************************)
EXTENDS BitRows

(* The equation of a coefficient row c that starts at slot s, whose result *)
(* row is rr.                                                              *)
RowEquation(s, c, rr) == [on |-> {s + b : b \in c}, rhs |-> rr]

Bit(j, rr) == IF j \in rr THEN 1 ELSE 0

Satisfies(X, j, e) == Parity(e.on \cap X) = Bit(j, e.rhs)

Solves(X, j, E) == \A e \in E : Satisfies(X, j, e)

(* The slots E mentions: whether X solves E depends on no other one.       *)
Unknowns(E) == UNION {e.on : e \in E}

(* The differences between two solutions of E. *)
Kernel(slots, E) ==
  {D \in SUBSET slots : \A e \in E : Parity(e.on \cap D) = 0}

(* The slots that E leaves open once the slots above are chosen: two       *)
(* solutions can agree above s and differ at s.                            *)
FreeSlots(slots, E) == {Max(D) : D \in Kernel(slots, E) \ {{}}}

(* The columns that solve E and hold, on every free slot, the bits that    *)
(* fill gives it.  There is exactly one such column if E is solvable.      *)
CanonicalColumns(slots, j, E, fill) ==
  LET free == FreeSlots(slots, E)
  IN  {X \in SUBSET slots :
         /\ Solves(X, j, E)
         /\ \A s \in free : (s \in X) <=> (j \in fill[s])}
=============================================================================
