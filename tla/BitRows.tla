------------------------------ MODULE BitRows ------------------------------
(***************************************************************************)
(* Machine words as sets of bit positions.  A w-bit word is a subset of    *)
(* 0..w-1: the word 0 is the empty set, XOR is SymDiff, AND is \cap and OR *)
(* is \cup.  The remaining word operations of the ribbon kernel are here.  *)
(***************************************************************************)
EXTENDS Integers, FiniteSets, FiniteSetsExt

(* x.count_ones() & 1 *)
Parity(x) == Cardinality(x) % 2

(* x.trailing_zeros(), for a word other than 0 *)
TrailingZeros(x) == Min(x)

(* x >> n: the bits below n fall off *)
ShiftRight(x, n) == {b - n : b \in {d \in x : d >= n}}

(* A slip: a shift that keeps the bits past the register *)
ShiftLeftUnbounded(x, n, w) == {b + n : b \in x}

(* x << n in a register of w bits: the bits that reach w fall off *)
ShiftLeft(x, n, w) == {b + n : b \in {d \in x : d + n < w}}
=============================================================================
