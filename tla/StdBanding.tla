----------------------------- MODULE StdBanding -----------------------------
(***************************************************************************)
(* Sequential construction of a standard ribbon filter                     *)
(* (src/src/banding128.rs: find_seed, find_seed_pleated).  Rows carry a    *)
(* result row, so a key may contradict those before it: the seed is then   *)
(* given up, the matrix reset, and the next ordinal seed tried.            *)
(*                                                                         *)
(* One step is one slot visited by the reduction of a key; ordering the    *)
(* keys and back-substitution, which nothing can interrupt, are one each.  *)
(***************************************************************************)
EXTENDS Hashing128, LinearSystem, WindowOrder

CONSTANTS
  Keys,         \* the 64-bit keys an application may store
  Inputs,       \* the key slices it may build a filter from
  R,            \* result bits a query compares: the columns of the solution
  SeedCount,    \* SEED_COUNT
  WindowSizes,  \* the sizes 1 << window_shift of pleating windows
  Arrival       \* stands for the window of a builder that does not pleat

Columns == 0 .. R - 1

ASSUME RAssumption == R \in 1 .. ResultWidth
ASSUME InputsAssumption == Inputs \subseteq Seq(Keys)
ASSUME SeedCountAssumption == SeedCount \in Nat \ {0}
ASSUME WindowSizesAssumption == WindowSizes \subseteq Nat \ {0}
ASSUME ArrivalAssumption == Arrival \notin Nat

VARIABLES
  keys,         \* the slice passed to the builder
  window,       \* its window size, or Arrival
  tried,        \* seeds tried so far: ordinal_seed is tried - 1
  hash,         \* hash[k] = ribbon_hash(k, raw_seed)
  pc,           \* where the builder is
  ordered, n,   \* the keys in banding order, the index of the next one
  coeff_rows,   \* the banding matrix: one W-bit word per slot, {} = 0
  result_rows,  \* and one result row per slot
  pos, cr, rr,  \* `i`, `cr` and `rr` of the reduction under way
  data          \* the interleaved solution: R words per block

callVars   == <<keys, window>>
seedVars   == <<tried, hash>>
matrixVars == <<coeff_rows, result_rows>>
addVars    == <<ordered, n, pos, cr, rr>>
vars       == <<callVars, seedVars, pc, matrixVars, addVars, data>>

NoRows == [s \in Slots |-> {}]

-----------------------------------------------------------------------------
(* Banding128::new: raw_seed is 0, and no key has been hashed. *)
Init ==
  /\ keys \in Inputs
  /\ window \in WindowSizes \cup {Arrival}
  /\ tried = 0
  /\ hash = [k \in Range(keys) |-> [hi |-> 0, lo |-> {}]]
  /\ pc = "seed"
  /\ coeff_rows = NoRows /\ result_rows = NoRows
  /\ ordered = <<>> /\ n = 1
  /\ pos = 0 /\ cr = {} /\ rr = {}
  /\ data = [g \in 0 .. NumBlocks * R - 1 |-> {}]

(* The locals of the last attempt are dead. *)
ClearAdd == ordered' = <<>> /\ n' = 1 /\ pos' = 0 /\ cr' = {} /\ rr' = {}

(* A slip: the result rows of the last attempt stay in the matrix. *)
ResetCoeffRows ==
  /\ pc = "seed"
  /\ tried < SeedCount
  /\ tried' = tried + 1
  /\ hash' \in [Range(keys) -> Hashes128]
  /\ coeff_rows' = NoRows
  /\ ClearAdd
  /\ pc' = "order"
  /\ UNCHANGED <<callVars, result_rows, data>>

(* Banding128::reset, for the next ordinal seed: every key gets another    *)
(* hash.                                                                   *)
Reset ==
  /\ pc = "seed"
  /\ tried < SeedCount
  /\ tried' = tried + 1
  /\ hash' \in [Range(keys) -> Hashes128]
  /\ coeff_rows' = NoRows /\ result_rows' = NoRows
  /\ ClearAdd
  /\ pc' = "order"
  /\ UNCHANGED <<callVars, data>>

(* A slip: the last seed is not tried. *)
GiveUpOneShort ==
  /\ pc = "seed"
  /\ tried >= SeedCount - 1
  /\ pc' = "failed"
  /\ UNCHANGED <<callVars, seedVars, matrixVars, addVars, data>>

(* All seeds have failed: None *)
GiveUp ==
  /\ pc = "seed"
  /\ tried = SeedCount
  /\ pc' = "failed"
  /\ UNCHANGED <<callVars, seedVars, matrixVars, addVars, data>>

(* The keys are banded in arrival order, or pleated under the new seed.    *)
Order ==
  /\ pc = "order"
  /\ IF window = Arrival
     THEN ordered' = keys
     ELSE ordered' \in PleatedOrders(keys,
            [k \in Range(keys) |-> Start(hash[k]) \div window])
  /\ pc' = "next"
  /\ UNCHANGED <<callVars, seedVars, matrixVars, n, pos, cr, rr, data>>

-----------------------------------------------------------------------------
(* Banding128::add                                                         *)

AddKey ==
  /\ pc = "next"
  /\ n <= Len(ordered)
  /\ LET h == hash[ordered[n]]
     IN  pos' = Start(h) /\ cr' = CoeffRow128(h) /\ rr' = ResultRow(h)
  /\ pc' = "reduce"
  /\ UNCHANGED <<callVars, seedVars, matrixVars, ordered, n, data>>

PlaceRow ==
  /\ pc = "reduce"
  /\ coeff_rows[pos] = {}
  /\ coeff_rows' = [coeff_rows EXCEPT ![pos] = cr]
  /\ result_rows' = [result_rows EXCEPT ![pos] = rr]
  /\ n' = n + 1
  /\ pc' = "next"
  /\ UNCHANGED <<callVars, seedVars, ordered, pos, cr, rr, data>>

(* The row and the result row in hand, reduced by those of the slot *)
RowSum    == SymDiff(cr, coeff_rows[pos])
ResultSum == SymDiff(rr, result_rows[pos])

(* A slip: the result row is not looked at. *)
DropRowUnchecked ==
  /\ pc = "reduce"
  /\ coeff_rows[pos] # {}
  /\ RowSum = {}
  /\ n' = n + 1
  /\ pc' = "next"
  /\ UNCHANGED <<callVars, seedVars, matrixVars, ordered, pos, cr, rr, data>>

(* The key follows from the keys before it. *)
DropRow ==
  /\ pc = "reduce"
  /\ coeff_rows[pos] # {}
  /\ RowSum = {}
  /\ ResultSum = {}
  /\ n' = n + 1
  /\ pc' = "next"
  /\ UNCHANGED <<callVars, seedVars, matrixVars, ordered, pos, cr, rr, data>>

(* The key contradicts them: `add` returns false, and the seed is given up. *)
Reject ==
  /\ pc = "reduce"
  /\ coeff_rows[pos] # {}
  /\ RowSum = {}
  /\ ResultSum # {}
  /\ pc' = "seed"
  /\ UNCHANGED <<callVars, seedVars, matrixVars, addVars, data>>

(* Slips of the next action: the addition of the stored row, or that of    *)
(* its result row, is forgotten.                                           *)
ReduceRowWithoutSum ==
  /\ pc = "reduce"
  /\ coeff_rows[pos] # {}
  /\ RowSum # {}
  /\ pos' = pos + TrailingZeros(cr)
  /\ cr' = ShiftRight(cr, TrailingZeros(cr))
  /\ UNCHANGED <<callVars, seedVars, pc, matrixVars, rr, ordered, n, data>>

ReduceRowOnly ==
  /\ pc = "reduce"
  /\ coeff_rows[pos] # {}
  /\ RowSum # {}
  /\ pos' = pos + TrailingZeros(RowSum)
  /\ cr' = ShiftRight(RowSum, TrailingZeros(RowSum))
  /\ UNCHANGED <<callVars, seedVars, pc, matrixVars, rr, ordered, n, data>>

ReduceRow ==
  /\ pc = "reduce"
  /\ coeff_rows[pos] # {}
  /\ RowSum # {}
  /\ pos' = pos + TrailingZeros(RowSum)
  /\ cr' = ShiftRight(RowSum, TrailingZeros(RowSum))
  /\ rr' = ResultSum
  /\ UNCHANGED <<callVars, seedVars, pc, matrixVars, ordered, n, data>>

-----------------------------------------------------------------------------
(* Banding128::back_substitute                                             *)

(* The word of column j after the row of slot s, from the word before it.  *)
(* The result row of an empty slot is 0.                                   *)
NextWord(word, j, s) ==
  LET tmp == ShiftLeft(word, 1, W)
      odd == Parity(tmp \cap coeff_rows[s]) = 1
  IN  IF odd # (j \in result_rows[s]) THEN tmp \cup {0} ELSE tmp

(* The words of the columns after the rows from the last down to s *)
Words[s \in 0 .. NumSlots] ==
  IF s = NumSlots
  THEN [j \in Columns |-> {}]
  ELSE LET above == Words[s + 1]
       IN  [j \in Columns |-> NextWord(above[j], j, s)]

(* All keys are in: the matrix becomes the solution. *)
IntoSolution ==
  /\ pc = "next"
  /\ n > Len(ordered)
  /\ data' = [g \in 0 .. NumBlocks * R - 1 |-> Words[(g \div R) * W][g % R]]
  /\ pc' = "built"
  /\ UNCHANGED <<callVars, seedVars, matrixVars, addVars>>

(* Solution128::contains, for a key with hash h                            *)
Contains(h) ==
  LET start_bit == Start(h) % W
      seg       == (Start(h) \div W) * R
      cr_left   == ShiftLeft(CoeffRow128(h), start_bit, W)
      cr_right  == ShiftRight(CoeffRow128(h), (W - start_bit) % W)
      maybe     == IF start_bit # 0 THEN R ELSE 0
      soln(i)   == (data[seg + i] \cap cr_left)
                     \cup (data[seg + maybe + i] \cap cr_right)
  IN  \A i \in Columns : Parity(soln(i)) = Bit(i, ResultRow(h))

-----------------------------------------------------------------------------
Add == AddKey \/ PlaceRow \/ DropRow \/ Reject \/ ReduceRow

FindSeed == Reset \/ Order \/ GiveUp

Next == FindSeed \/ Add \/ IntoSolution

(* A builder runs in its caller's thread and waits for nothing. *)
Spec == Init /\ [][Next]_vars /\ WF_vars(Next)
-----------------------------------------------------------------------------
(* The equations of the keys added since the last reset, those the matrix  *)
(* holds, and the two rows in hand: what the key said, and what is left.   *)
Equation(h) == RowEquation(Start(h), CoeffRow128(h), ResultRow(h))

Added == {ordered[m] : m \in 1 .. n - 1}

AddedEquations == {Equation(hash[k]) : k \in Added}

Occupied == {s \in Slots : coeff_rows[s] # {}}

StoredEquations == {RowEquation(s, coeff_rows[s], result_rows[s]) : s \in Occupied}

Column(j) == {s \in Slots : s % W \in data[(s \div W) * R + j]}

-----------------------------------------------------------------------------
(* Types *)
StdTypeOK ==
  /\ keys \in Inputs
  /\ window \in WindowSizes \cup {Arrival}
  /\ tried \in 0 .. SeedCount
  /\ hash \in [Range(keys) -> Hashes128]
  /\ pc \in {"seed", "order", "next", "reduce", "built", "failed"}
  /\ ordered \in Seq(Range(keys))
  /\ n \in 1 .. Len(ordered) + 1
  /\ coeff_rows \in [Slots -> Word]
  /\ result_rows \in [Slots -> SUBSET ResultBits]
  /\ pos \in Nat
  /\ cr \in Word
  /\ rr \in SUBSET ResultBits
  /\ data \in [0 .. NumBlocks * R - 1 -> Word]

(* Where a row is in the table: low bit set, no bit past the last slot. In *)
(* every attempt `coeff_rows[i]` stays in bounds; and an empty slot has    *)
(* result row 0, which back-substitution takes for granted: no result row  *)
(* of an abandoned seed survives the reset.                                *)
InBand(s, c) == 0 \in c /\ \A b \in c : s + b < NumSlots

StdRowsInBand ==
  /\ \A s \in Slots : IF coeff_rows[s] = {} THEN result_rows[s] = {}
                      ELSE InBand(s, coeff_rows[s])
  /\ pc = "reduce" => InBand(pos, cr)

(* In every attempt and every column, the rows stored have exactly the     *)
(* solutions of the equations of the keys added since the reset: none of   *)
(* an abandoned seed's equations is left, none of this seed's is lost; and *)
(* what is left of the row in hand says what its key said.                 *)
StdEquationsPreserved ==
  LET stored == StoredEquations
      added  == AddedEquations
      inHand == IF pc = "reduce"
                THEN {RowEquation(pos, cr, rr), Equation(hash[ordered[n]])}
                ELSE {}
  IN  pc \in {"next", "reduce"} =>
        \A X \in SUBSET Unknowns(stored \cup added \cup inHand), j \in ResultBits :
          LET holds == Solves(X, j, stored)
          IN  /\ holds <=> Solves(X, j, added)
              /\ pc = "reduce" /\ holds =>
                   (Satisfies(X, j, RowEquation(pos, cr, rr))
                      <=> Satisfies(X, j, Equation(hash[ordered[n]])))

(* A member is never reported absent: in every column the bits of the      *)
(* solution that its row selects add up to its result bit.                 *)
StdNoFalseNegatives ==
  pc = "built" => \A k \in Range(keys) : Contains(hash[k])

(* Every builder call returns, with a filter or with None. *)
StdTerminates == <>(pc \in {"built", "failed"})

(* Arrival and pleated builders return the filter of the first seed that   *)
(* solves, and give up only when no seed does.                             *)
Filter == INSTANCE StdFilter WITH
  stage    <- CASE pc = "seed"   -> "between"
                [] pc = "built"  -> "returned"
                [] pc = "failed" -> "failed"
                [] OTHER         -> "trying",
  returned <- IF pc = "built"
              THEN {[ordinal |-> tried - 1, column |-> [j \in Columns |-> Column(j)]]}
              ELSE {}

FirstSolvableSeed == Filter!Spec
=============================================================================
