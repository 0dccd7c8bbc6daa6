---------------------------- MODULE WindowOrder ----------------------------
(***************************************************************************)
(* The order a pleating plan promises (src/src/lib.rs, PleatPlan::pleat):  *)
(* "windows are the contiguous runs, in table order; arrival order is      *)
(* preserved within a window".                                             *)
(***************************************************************************)
EXTENDS Integers, Sequences, Functions

(* The permutations of ks by window, stable within each window, where      *)
(* window[k] is the window key k starts in.  There is one.                 *)
PleatedOrders(ks, window) ==
  LET indices == 1 .. Len(ks)
      Sorted(p) ==
        \A a, b \in indices :
          a < b => LET v == window[ks[p[a]]]
                       w == window[ks[p[b]]]
                   IN  v < w \/ (v = w /\ p[a] < p[b])
  IN  {[m \in indices |-> ks[p[m]]] :
         p \in {q \in Bijection(indices, indices) : Sorted(q)}}
=============================================================================
