------------------------------ MODULE Banding ------------------------------
(***************************************************************************)
(* Sequential construction of a homogeneous ribbon filter                  *)
(* (src/src/banding.rs, and the constructors of src/src/filter.rs):        *)
(* the keys are put in a banding order, each is added to the coefficient   *)
(* matrix by Gaussian reduction, and the matrix is back-substituted into   *)
(* the interleaved solution that queries read.                             *)
(*                                                                         *)
(* One step is one turn of the code's innermost loop: a slot visited by    *)
(* the reduction of a key, or a row of the back-substitution.              *)
(***************************************************************************)
EXTENDS Hashing, LinearSystem, WindowOrder

CONSTANTS
  Keys,        \* the 64-bit keys an application may store
  Inputs,      \* the key slices it may build a filter from
  R,           \* result bits: the columns of the solution
  EmptyRow,    \* EmptyRow[s]: the pseudorandom columns of an empty slot s
  WindowSizes  \* the sizes 1 << window_shift of pleating windows

Columns == 0 .. R - 1

ASSUME RAssumption == R \in Nat \ {0}
ASSUME InputsAssumption == Inputs \subseteq Seq(Keys)
ASSUME EmptyRowAssumption == EmptyRow \in [Slots -> SUBSET Columns]
ASSUME WindowSizesAssumption == WindowSizes \subseteq Nat \ {0}

VARIABLES
  keys,        \* the slice passed to the constructor
  hash,        \* hash[k] = ribbon_hash(k, raw_seed)
  pc,          \* where the builder is
  ordered,     \* the keys in banding order
  n,           \* the index in ordered of the key to add next
  coeff_rows,  \* the banding matrix: one W-bit word per slot, {} = 0
  pos, cr,     \* `i` and `cr` of the reduction under way
  slot,        \* the row back-substitution visits next, -1 after the last
  state,       \* the rolling word of each column
  data         \* the interleaved solution: R words per block

solverVars == <<slot, state, data>>
addVars    == <<ordered, n, coeff_rows, pos, cr>>
vars       == <<keys, hash, pc, addVars, solverVars>>

-----------------------------------------------------------------------------
(* The matrix starts out zero, like the two registers of the solver.       *)

Init ==
  /\ keys \in Inputs
  /\ hash \in [Range(keys) -> Hashes]
  /\ pc = "order"
  /\ ordered = <<>>
  /\ n = 1
  /\ coeff_rows = [s \in Slots |-> {}]
  /\ pos = 0
  /\ cr = {}
  /\ slot = -1
  /\ state = [j \in Columns |-> {}]
  /\ data = [g \in 0 .. NumBlocks * R - 1 |-> {}]

(* Ribbon::from_keys: the arrival order *)
FromKeys ==
  /\ pc = "order"
  /\ ordered' = keys
  /\ pc' = "next"
  /\ UNCHANGED <<keys, hash, n, coeff_rows, pos, cr, solverVars>>

(* Ribbon::from_keys_pleated: the keys in the order of their windows of    *)
(* so many start slots                                                     *)
FromKeysPleated(window) ==
  /\ pc = "order"
  /\ ordered' \in PleatedOrders(keys,
                     [k \in Range(keys) |-> Start(hash[k]) \div window])
  /\ pc' = "next"
  /\ UNCHANGED <<keys, hash, n, coeff_rows, pos, cr, solverVars>>

-----------------------------------------------------------------------------
(* Banding::add, called by add_all for each key in turn                    *)

AddKey ==
  /\ pc = "next"
  /\ n <= Len(ordered)
  /\ pos' = Start(hash[ordered[n]])
  /\ cr' = CoeffRow(hash[ordered[n]])
  /\ pc' = "reduce"
  /\ UNCHANGED <<keys, hash, ordered, n, coeff_rows, solverVars>>

(* The slot is empty: the row is stored in it. *)
PlaceRow ==
  /\ pc = "reduce"
  /\ coeff_rows[pos] = {}
  /\ coeff_rows' = [coeff_rows EXCEPT ![pos] = cr]
  /\ n' = n + 1
  /\ pc' = "next"
  /\ UNCHANGED <<keys, hash, ordered, pos, cr, solverVars>>

(* The row is the sum of stored rows: it is redundant and dropped. *)
DropRow ==
  /\ pc = "reduce"
  /\ coeff_rows[pos] # {}
  /\ SymDiff(cr, coeff_rows[pos]) = {}
  /\ cr' = {}
  /\ n' = n + 1
  /\ pc' = "next"
  /\ UNCHANGED <<keys, hash, ordered, coeff_rows, pos, solverVars>>

(* Slips of the next action: the shift of the row, or the addition of the  *)
(* stored row is forgotten.                                                *)
ReduceRowUnshifted ==
  /\ pc = "reduce"
  /\ coeff_rows[pos] # {}
  /\ LET x == SymDiff(cr, coeff_rows[pos])
     IN  x # {} /\ pos' = pos + TrailingZeros(x) /\ cr' = x
  /\ UNCHANGED <<keys, hash, pc, ordered, n, coeff_rows, solverVars>>

ReduceRowWithoutSum ==
  /\ pc = "reduce"
  /\ coeff_rows[pos] # {}
  /\ SymDiff(cr, coeff_rows[pos]) # {}
  /\ pos' = pos + TrailingZeros(cr)
  /\ cr' = ShiftRight(cr, TrailingZeros(cr))
  /\ UNCHANGED <<keys, hash, pc, ordered, n, coeff_rows, solverVars>>

(* The row is reduced by the stored one and moves on to its new low bit. *)
ReduceRow ==
  /\ pc = "reduce"
  /\ coeff_rows[pos] # {}
  /\ LET x  == SymDiff(cr, coeff_rows[pos])
         tz == TrailingZeros(x)
     IN  /\ x # {}
         /\ pos' = pos + tz
         /\ cr' = ShiftRight(x, tz)
  /\ UNCHANGED <<keys, hash, pc, ordered, n, coeff_rows, solverVars>>

-----------------------------------------------------------------------------
(* Banding::back_substitute: the rows from the last to the first           *)

Solve ==
  /\ pc = "next"
  /\ n > Len(ordered)
  /\ slot' = NumSlots - 1
  /\ pc' = "solve"
  /\ UNCHANGED <<keys, hash, addVars, state, data>>

(* Slips of the next operator: the parity is taken of the word before it   *)
(* is shifted, or an empty slot is filled with zeros.                      *)
NextWordBeforeShift(j) ==
  LET c   == coeff_rows[slot]
      tmp == ShiftLeft(state[j], 1, W)
      odd == Parity(state[j] \cap c) = 1
  IN  IF odd # (c = {} /\ j \in EmptyRow[slot]) THEN tmp \cup {0} ELSE tmp

NextWordZeroFill(j) ==
  LET tmp == ShiftLeft(state[j], 1, W)
  IN  IF Parity(tmp \cap coeff_rows[slot]) = 1 THEN tmp \cup {0} ELSE tmp

(* The word of column j after the row of the current slot: an occupied     *)
(* slot gets the bit its equation (of result row 0) asks for, an empty one *)
(* a pseudorandom bit.                                                     *)
NextWord(j) ==
  LET c   == coeff_rows[slot]
      tmp == ShiftLeft(state[j], 1, W)
      rr  == IF c = {} THEN EmptyRow[slot] ELSE {}
      odd == Parity(tmp \cap c) = 1
  IN  IF odd # (j \in rr) THEN tmp \cup {0} ELSE tmp

BackSubstRow ==
  /\ pc = "solve"
  /\ slot >= 0
  /\ state' = [j \in Columns |-> NextWord(j)]
  /\ data' = IF slot % W = 0   \* the last row of its block
             THEN LET g == (slot \div W) * R
                  IN  [d \in DOMAIN data |->
                         IF d \in g .. g + R - 1 THEN state'[d - g] ELSE data[d]]
             ELSE data
  /\ slot' = slot - 1
  /\ UNCHANGED <<keys, hash, pc, addVars>>

(* The segments are wrapped into a Solution. *)
Finish ==
  /\ pc = "solve"
  /\ slot < 0
  /\ pc' = "built"
  /\ UNCHANGED <<keys, hash, addVars, solverVars>>

-----------------------------------------------------------------------------
(* Solution::contains, for a key with hash h                               *)
Contains(h) ==
  LET start_block == Start(h) \div W
      start_bit   == Start(h) % W
      segment_num == start_block * R
      cr_left     == ShiftLeft(CoeffRow(h), start_bit, W)
      cr_right    == ShiftRight(CoeffRow(h), (W - start_bit) % W)
      maybe       == IF start_bit # 0 THEN R ELSE 0
      soln(j)     == (data[segment_num + j] \cap cr_left)
                       \cup (data[segment_num + maybe + j] \cap cr_right)
  IN  \A j \in Columns : Parity(soln(j)) = 0

-----------------------------------------------------------------------------
Add == AddKey \/ PlaceRow \/ DropRow \/ ReduceRow

BackSubstitute == Solve \/ BackSubstRow \/ Finish

Next ==
  \/ FromKeys
  \/ \E window \in WindowSizes : FromKeysPleated(window)
  \/ Add
  \/ BackSubstitute

(* A constructor runs in its caller's thread and waits for nothing. *)
Spec == Init /\ [][Next]_vars /\ WF_vars(Next)
-----------------------------------------------------------------------------
(* The equation the key with hash h contributes, the equations of the keys *)
(* added so far, and those the matrix holds.                               *)
Equation(h) == RowEquation(Start(h), CoeffRow(h), {})

Added == {ordered[m] : m \in 1 .. n - 1}

AddedEquations == {Equation(hash[k]) : k \in Added}

Occupied == {s \in Slots : coeff_rows[s] # {}}

StoredEquations == {RowEquation(s, coeff_rows[s], {}) : s \in Occupied}

(* Column j of the solution, read off the interleaved segments. *)
Column(j) == {s \in Slots : s % W \in data[(s \div W) * R + j]}

-----------------------------------------------------------------------------
(* Types.  (A slice of keys is a function on 1..Len(keys).)                *)
TypeOK ==
  /\ keys \in Inputs
  /\ hash \in [Range(keys) -> Hashes]
  /\ pc \in {"order", "next", "reduce", "solve", "built"}
  /\ ordered \in Seq(Range(keys))
  /\ n \in 1 .. Len(ordered) + 1
  /\ coeff_rows \in [Slots -> Word]
  /\ pos \in Nat
  /\ cr \in Word
  /\ slot \in -1 .. NumSlots - 1
  /\ state \in [Columns -> Word]
  /\ data \in [0 .. NumBlocks * R - 1 -> Word]

(* A row of the matrix, and the row being reduced, has its low bit set     *)
(* (banding.rs, test no_reduction_leaves_low_bit_set) and no bit past the  *)
(* last slot: shifting a row to its new low bit never walks it off the     *)
(* table, so `coeff_rows[i]` never panics and no equation mentions a slot  *)
(* the solution does not have.                                             *)
InBand(s, c) == 0 \in c /\ \A b \in c : s + b < NumSlots

RowsInBand ==
  /\ \A s \in Occupied : InBand(s, coeff_rows[s])
  /\ pc = "reduce" => InBand(pos, cr)

(* Banding is order-independent (filter.rs: "the ribbon banding solution   *)
(* is invariant to insertion order"): whatever the order, the rows stored  *)
(* have exactly the solutions of the equations of the keys added, no row   *)
(* lost and none invented; and while a key is reduced, what is left of its *)
(* row says, given the stored rows, what its equation said.                *)
EquationsPreserved ==
  LET stored == StoredEquations
      added  == AddedEquations
  IN  \A X \in SUBSET Slots :
        /\ Solves(X, 0, stored) <=> Solves(X, 0, added)
        /\ pc = "reduce" /\ Solves(X, 0, stored) =>
             (Satisfies(X, 0, RowEquation(pos, cr, {}))
                <=> Satisfies(X, 0, Equation(hash[ordered[n]])))

(* A member is never reported absent (filter.rs, Ribbon::contains: "Never  *)
(* a false negative").                                                     *)
NoFalseNegatives ==
  pc = "built" => \A k \in Range(keys) : Contains(hash[k])

(* Every constructor call returns. *)
Terminates == <>(pc = "built")

(* Arrival and pleated construction return the filter that RibbonFilter    *)
(* derives from the equations of the keys: they are bit-identical.         *)
Filter == INSTANCE RibbonFilter WITH
  returned <- IF pc = "built" THEN {[j \in Columns |-> Column(j)]} ELSE {}

BitIdentical == Filter!Spec
=============================================================================
