------------------------------ MODULE MCSizing ------------------------------
(* Both families with their real widths and all result widths, and floats  *)
(* so short that key counts past 255 are rounded.                          *)
EXTENDS Sizing

MCTypes ==
  {[family |-> 0, r |-> r, elem |-> 8, w |-> 64] : r \in 1 .. 32}
    \cup {[family |-> 1, r |-> r, elem |-> 16, w |-> 128] : r \in 1 .. 32}
=============================================================================
