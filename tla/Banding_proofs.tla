-------------------------- MODULE Banding_proofs ---------------------------
(***************************************************************************)
(* Proofs about the sequential construction, for tables of every size,     *)
(* every width and every slice of keys: its type invariant, that rows stay *)
(* inside the table, and that Gaussian reduction preserves the equations   *)
(* of the keys.                                                            *)
(***************************************************************************)
EXTENDS Banding, Hashing_proofs

(* Where the loops are: nothing is ordered before the constructor chose an *)
(* order, and a key is being reduced only while there is one.              *)
LoopsInv ==
  /\ pc = "order" => ordered = <<>>
  /\ pc = "reduce" => n \in 1 .. Len(ordered)

(* The inductive invariant of the construction: TypeOK alone is not        *)
(* inductive, since the index of the next key is bounded by LoopsInv, and  *)
(* RowsInBand needs the types.                                             *)
BandInv == TypeOK /\ RowsInBand /\ LoopsInv

-----------------------------------------------------------------------------
LEMMA RangeOfSeq ==
  ASSUME NEW S, NEW s \in Seq(S)
  PROVE  /\ s \in Seq(Range(s))
         /\ \A m \in 1 .. Len(s) : s[m] \in Range(s)
BY DEF Range

LEMMA InitBandInv == Init => BandInv
<1> SUFFICES ASSUME Init PROVE BandInv
  OBVIOUS
<1>1. TypeOK
  <2>1. {} \in Word
    BY DEF Word
  <2>2. -1 \in -1 .. NumSlots - 1
    BY TableSize
  <2> QED BY <2>1, <2>2 DEF Init, TypeOK
<1>2. RowsInBand
  BY DEF Init, RowsInBand, Occupied
<1> QED BY <1>1, <1>2 DEF BandInv, LoopsInv, Init

-----------------------------------------------------------------------------
LEMMA NextBandInv == BandInv /\ [Next]_vars => BandInv'
<1> SUFFICES ASSUME BandInv, [Next]_vars PROVE BandInv'
  OBVIOUS
<1>0. TypeOK /\ RowsInBand /\ LoopsInv
  BY DEF BandInv
<1>1. CASE FromKeys
  <2>1. keys \in Seq(Range(keys))
    BY <1>0, InputsAssumption, RangeOfSeq DEF TypeOK
  <2>2. TypeOK'
    BY <1>0, <1>1, <2>1 DEF TypeOK, LoopsInv, FromKeys, solverVars
  <2>3. RowsInBand'
    BY <1>0, <1>1 DEF RowsInBand, Occupied, FromKeys
  <2> QED BY <1>1, <2>2, <2>3 DEF BandInv, LoopsInv, FromKeys
<1>2. ASSUME NEW window \in WindowSizes, FromKeysPleated(window) PROVE BandInv'
  <2>1. keys \in Seq(Range(keys))
    BY <1>0, InputsAssumption, RangeOfSeq DEF TypeOK
  <2>2. PICK p \in Bijection(1 .. Len(keys), 1 .. Len(keys)) :
          ordered' = [m \in 1 .. Len(keys) |-> keys[p[m]]]
    BY <1>2 DEF FromKeysPleated, PleatedOrders
  <2>3. p \in [1 .. Len(keys) -> 1 .. Len(keys)]
    BY DEF Bijection, Injection
  <2>4. ordered' \in Seq(Range(keys)) /\ Len(ordered') = Len(keys)
    BY <2>1, <2>2, <2>3
  <2>5. TypeOK'
    BY <1>0, <1>2, <2>4 DEF TypeOK, LoopsInv, FromKeysPleated, solverVars
  <2>6. RowsInBand'
    BY <1>0, <1>2 DEF RowsInBand, Occupied, FromKeysPleated
  <2> QED BY <1>2, <2>5, <2>6 DEF BandInv, LoopsInv, FromKeysPleated
<1>3. CASE AddKey
  <2> DEFINE h == hash[ordered[n]]
  <2>1. n \in 1 .. Len(ordered) /\ ordered[n] \in Range(keys)
    BY <1>0, <1>3 DEF AddKey, TypeOK
  <2>2. h \in Hashes
    BY <1>0, <2>1 DEF TypeOK
  <2>3. /\ Start(h) \in Nat
        /\ \A b \in CoeffRow(h) : Start(h) + b < NumSlots
        /\ CoeffRow(h) \in Word /\ 0 \in CoeffRow(h)
    <3> HIDE DEF h
    <3> QED BY <2>2, RowFits, CoeffRowIsWord
  <2>4. pos' = Start(h) /\ cr' = CoeffRow(h)
    BY <1>3 DEF AddKey
  <2>5. TypeOK'
    BY <1>0, <1>3, <2>3, <2>4 DEF TypeOK, AddKey, solverVars
  <2>6. RowsInBand'
    BY <1>0, <1>3, <2>3, <2>4 DEF RowsInBand, InBand, Occupied, AddKey
  <2> QED BY <1>3, <2>1, <2>5, <2>6 DEF BandInv, LoopsInv, AddKey
<1>4. CASE PlaceRow
  <2>1. n \in 1 .. Len(ordered) /\ InBand(pos, cr)
    BY <1>0, <1>4 DEF PlaceRow, LoopsInv, RowsInBand
  <2>2. TypeOK'
    <3>1. n + 1 \in 1 .. Len(ordered) + 1
      BY <1>0, <2>1 DEF TypeOK
    <3>2. [coeff_rows EXCEPT ![pos] = cr] \in [Slots -> Word]
      BY <1>0 DEF TypeOK
    <3> QED BY <1>0, <1>4, <3>1, <3>2 DEF TypeOK, PlaceRow, solverVars
  <2>3. RowsInBand'
    <3>1. ASSUME NEW s \in Slots, coeff_rows'[s] # {}
          PROVE  InBand(s, coeff_rows'[s])
      <4>1. CASE s = pos
        BY <1>0, <1>4, <2>1, <4>1 DEF PlaceRow, TypeOK
      <4>2. CASE s # pos
        BY <1>0, <1>4, <3>1, <4>2 DEF PlaceRow, TypeOK, RowsInBand, Occupied
      <4> QED BY <4>1, <4>2
    <3> QED BY <1>4, <3>1 DEF RowsInBand, Occupied, PlaceRow
  <2> QED BY <1>4, <2>2, <2>3 DEF BandInv, LoopsInv, PlaceRow
<1>5. CASE DropRow
  <2>1. n \in 1 .. Len(ordered)
    BY <1>0, <1>5 DEF DropRow, LoopsInv
  <2>2. TypeOK'
    BY <1>0, <1>5, <2>1 DEF TypeOK, DropRow, solverVars, Word
  <2>3. RowsInBand'
    BY <1>0, <1>5 DEF RowsInBand, Occupied, DropRow
  <2> QED BY <1>5, <2>2, <2>3 DEF BandInv, LoopsInv, DropRow
<1>6. CASE ReduceRow
  <2> DEFINE x  == SymDiff(cr, coeff_rows[pos])
             tz == TrailingZeros(x)
  <2>1. /\ x # {}
        /\ pos' = pos + tz
        /\ cr' = ShiftRight(x, tz)
    BY <1>6 DEF ReduceRow
  <2>2. pos \in Occupied /\ InBand(pos, cr) /\ InBand(pos, coeff_rows[pos])
    <3>1. InBand(pos, cr)
      BY <1>0, <1>6 DEF ReduceRow, RowsInBand
    <3>2. pos \in Slots
      BY <1>0, <3>1, TableSize DEF InBand, TypeOK, Slots
    <3> QED BY <1>0, <1>6, <3>1, <3>2 DEF ReduceRow, RowsInBand, Occupied
  <2>3. x \in SUBSET (0 .. W - 1) /\ \A b \in x : pos + b < NumSlots
    BY <1>0, <2>2 DEF SymDiff, InBand, TypeOK, Word, Occupied
  <2>4. /\ tz \in x
        /\ \A b \in x : tz <= b
        /\ ShiftRight(x, tz) \in Word
        /\ 0 \in ShiftRight(x, tz)
    <3> HIDE DEF x
    <3> QED BY <2>1, <2>3, ShiftToLowBit, WAssumption DEF Word
  <2>5. \A b \in ShiftRight(x, tz) : pos + tz + b < NumSlots
    <3> HIDE DEF x, tz
    <3> QED BY <1>0, <2>3, <2>4 DEF ShiftRight, TypeOK
  <2>6. TypeOK'
    <3> HIDE DEF x, tz
    <3> QED BY <1>0, <1>6, <2>1, <2>3, <2>4 DEF TypeOK, ReduceRow, solverVars
  <2>7. RowsInBand'
    <3> HIDE DEF x, tz
    <3> QED BY <1>0, <1>6, <2>1, <2>4, <2>5
            DEF RowsInBand, InBand, Occupied, ReduceRow
  <2> QED BY <1>0, <1>6, <2>6, <2>7 DEF BandInv, LoopsInv, ReduceRow
<1>7. CASE Solve
  <2>1. NumSlots - 1 \in -1 .. NumSlots - 1
    BY TableSize
  <2>2. TypeOK'
    BY <1>0, <1>7, <2>1 DEF TypeOK, Solve, addVars
  <2>3. RowsInBand'
    BY <1>0, <1>7 DEF RowsInBand, Occupied, Solve, addVars
  <2> QED BY <1>7, <2>2, <2>3 DEF BandInv, LoopsInv, Solve
<1>8. CASE BackSubstRow
  <2>1. \A j \in Columns : NextWord(j) \in Word
    <3> SUFFICES ASSUME NEW j \in Columns PROVE NextWord(j) \in Word
      OBVIOUS
    <3>1. state[j] \in SUBSET (0 .. W - 1)
      BY <1>0 DEF TypeOK, Word
    <3>2. /\ ShiftLeft(state[j], 1, W) \in Word
          /\ ShiftLeft(state[j], 1, W) \cup {0} \in Word
      BY <3>1, WAssumption DEF ShiftLeft, Word
    <3> QED BY <3>2, Zenon DEF NextWord
  <2>2. TypeOK'
    <3>1. state' \in [Columns -> Word] /\ slot' \in -1 .. NumSlots - 1
      BY <1>0, <1>8, <2>1, TableSize DEF TypeOK, BackSubstRow
    <3>2. data' \in [0 .. NumBlocks * R - 1 -> Word]
      <4> DEFINE g == (slot \div W) * R
      <4>1. g \in Int
        BY <1>0, TableSize, WAssumption, RAssumption DEF TypeOK
      <4>2. data' = IF slot % W = 0
                    THEN [d \in DOMAIN data |->
                            IF d \in g .. g + R - 1 THEN state'[d - g]
                                                   ELSE data[d]]
                    ELSE data
        BY <1>8 DEF BackSubstRow
      <4> HIDE DEF g
      <4>3. \A d \in g .. g + R - 1 : state'[d - g] \in Word
        BY <3>1, <4>1, RAssumption DEF Columns
      <4> QED BY <1>0, <4>2, <4>3 DEF TypeOK
    <3> QED BY <1>0, <1>8, <3>1, <3>2 DEF TypeOK, BackSubstRow, addVars
  <2>3. RowsInBand'
    BY <1>0, <1>8 DEF RowsInBand, Occupied, BackSubstRow, addVars
  <2> QED BY <1>0, <1>8, <2>2, <2>3 DEF BandInv, LoopsInv, BackSubstRow, addVars
<1>9. CASE Finish
  <2>1. TypeOK' /\ RowsInBand'
    BY <1>0, <1>9
    DEF TypeOK, RowsInBand, Occupied, Finish, addVars, solverVars
  <2> QED BY <1>9, <2>1 DEF BandInv, LoopsInv, Finish
<1>10. CASE UNCHANGED vars
  BY <1>0, <1>10
  DEF vars, addVars, solverVars, BandInv, TypeOK, RowsInBand, Occupied, LoopsInv
<1> QED
  BY <1>1, <1>2, <1>3, <1>4, <1>5, <1>6, <1>7, <1>8, <1>9, <1>10
  DEF Next, Add, BackSubstitute

-----------------------------------------------------------------------------
(* Every state of the construction is well typed, and no row, stored or in *)
(* hand, sticks out of the table: `coeff_rows[i]` in Banding::add is never *)
(* out of bounds.                                                          *)
THEOREM TypeCorrect == Spec => []TypeOK
<1>1. Spec => []BandInv
  BY InitBandInv, NextBandInv, PTL DEF Spec
<1>2. BandInv => TypeOK
  BY DEF BandInv
<1> QED BY <1>1, <1>2, PTL

THEOREM RowsStayInBand == Spec => []RowsInBand
<1>1. Spec => []BandInv
  BY InitBandInv, NextBandInv, PTL DEF Spec
<1>2. BandInv => RowsInBand
  BY DEF BandInv
<1> QED BY <1>1, <1>2, PTL

-----------------------------------------------------------------------------
(* Gaussian reduction preserves the equations                              *)

(* An equation of result row 0 asks for even parity. *)
LEMMA SatisfiesZero ==
  ASSUME NEW X, NEW s, NEW c
  PROVE  Satisfies(X, 0, RowEquation(s, c, {}))
           <=> Parity({s + b : b \in c} \cap X) = 0
BY Zenon DEF Satisfies, RowEquation, Bit

(* Two sets of equations have the same solutions as their union has, taken *)
(* together.                                                               *)
LEMMA SolvesUnion ==
  ASSUME NEW X, NEW E, NEW e
  PROVE  Solves(X, 0, E \cup {e}) <=> Solves(X, 0, E) /\ Satisfies(X, 0, e)
BY DEF Solves

(* One turn of the reduction: adding a stored row c to the row x in hand,  *)
(* and shifting the sum to its new low bit, leaves a row that is satisfied *)
(* by the same solutions of the stored row.                                *)
LEMMA ReductionStep ==
  ASSUME NEW X, NEW s \in Nat, NEW x \in Word, NEW c \in Word,
         SymDiff(x, c) # {},
         Satisfies(X, 0, RowEquation(s, c, {}))
  PROVE  LET y  == SymDiff(x, c)
             tz == TrailingZeros(y)
         IN  Satisfies(X, 0, RowEquation(s + tz, ShiftRight(y, tz), {}))
               <=> Satisfies(X, 0, RowEquation(s, x, {}))
<1> DEFINE y  == SymDiff(x, c)
           tz == TrailingZeros(y)
           onx == {s + b : b \in x}
           onc == {s + b : b \in c}
           ony == {s + b : b \in y}
<1>1. x \in SUBSET Nat /\ c \in SUBSET Nat /\ y \in SUBSET (0 .. W - 1)
  BY DEF Word, SymDiff
<1>2. tz \in Nat /\ \A b \in y : tz <= b
  <2>1. y # {} /\ W \in Nat
    BY WAssumption
  <2> HIDE DEF y
  <2>2. tz \in y /\ \A b \in y : tz <= b
    BY <1>1, <2>1, ShiftToLowBit
  <2> HIDE DEF tz
  <2> QED BY <1>1, <2>1, <2>2
<1>3. {s + tz + b : b \in ShiftRight(y, tz)} = ony
  <2>1. y \in SUBSET Nat
    BY <1>1
  <2> HIDE DEF y, tz
  <2> QED BY <1>2, <2>1, RowOfShift
<1>4. ony = SymDiff(onx, onc)
  <2>1. \A a, b \in SUBSET Nat :
          {s + i : i \in SymDiff(a, b)} = SymDiff({s + i : i \in a}, {s + i : i \in b})
    BY RowOfSum, Zenon
  <2> QED BY <1>1, <2>1, Zenon
<1>5. IsFiniteSet(onx) /\ IsFiniteSet(onc)
  BY FiniteWord, RowIsFinite
<1>6. Parity(onc \cap X) = 0
  BY SatisfiesZero
<1>7. Parity(ony \cap X) = Parity(onx \cap X)
  <2> HIDE DEF onx, onc, ony
  <2> QED BY <1>4, <1>5, <1>6, ParityOfSum
<1>8. Satisfies(X, 0, RowEquation(s, x, {})) <=> Parity(onx \cap X) = 0
  BY SatisfiesZero
<1>9. Satisfies(X, 0, RowEquation(s + tz, ShiftRight(y, tz), {}))
         <=> Parity(ony \cap X) = 0
  <2> HIDE DEF y, tz, ony
  <2> QED BY <1>3, SatisfiesZero
<1> QED BY <1>7, <1>8, <1>9

(* EquationsPreserved for one candidate solution X *)
PreservedFor(X) ==
  /\ Solves(X, 0, StoredEquations) <=> Solves(X, 0, AddedEquations)
  /\ pc = "reduce" /\ Solves(X, 0, StoredEquations) =>
       (Satisfies(X, 0, RowEquation(pos, cr, {}))
          <=> Satisfies(X, 0, Equation(hash[ordered[n]])))

LEMMA InitPreserved ==
  ASSUME Init, NEW X \in SUBSET Slots
  PROVE  PreservedFor(X)
<1>1. StoredEquations = {} /\ AddedEquations = {}
  BY DEF Init, StoredEquations, Occupied, AddedEquations, Added
<1> QED BY <1>1 DEF PreservedFor, Init

LEMMA NextPreserved ==
  ASSUME BandInv, BandInv', [Next]_vars,
         NEW X \in SUBSET Slots, PreservedFor(X)
  PROVE  PreservedFor(X)'
<1>0. TypeOK /\ RowsInBand /\ LoopsInv /\ TypeOK'
  BY DEF BandInv
(* Steps that leave the matrix and the set of added keys as they are *)
<1>1. ASSUME UNCHANGED <<coeff_rows, hash>>, Added' = Added
      PROVE  StoredEquations' = StoredEquations /\ AddedEquations' = AddedEquations
  BY <1>1 DEF StoredEquations, Occupied, AddedEquations
<1>2. CASE UNCHANGED <<coeff_rows, hash>> /\ Added' = Added /\ pc' # "reduce"
  BY <1>1, <1>2 DEF PreservedFor
<1>3. CASE AddKey
  <2>1. Added' = Added /\ UNCHANGED <<coeff_rows, hash>>
    BY <1>3 DEF AddKey, Added
  <2>2. RowEquation(pos, cr, {})' = Equation(hash[ordered[n]])'
    BY <1>3 DEF AddKey, Equation, RowEquation
  <2> QED BY <1>1, <2>1, <2>2 DEF PreservedFor
<1>4. CASE PlaceRow
  <2> DEFINE row == RowEquation(pos, cr, {})
             key == Equation(hash[ordered[n]])
  <2>1. pos \in Slots /\ n \in 1 .. Len(ordered) /\ cr # {}
    BY <1>0, <1>4, TableSize
    DEF PlaceRow, LoopsInv, RowsInBand, InBand, TypeOK, Slots
  <2>2. StoredEquations' = StoredEquations \cup {row}
    <3>1. Occupied' = Occupied \cup {pos} /\ pos \notin Occupied
      BY <1>0, <1>4, <2>1 DEF PlaceRow, Occupied, TypeOK
    <3>2. coeff_rows'[pos] = cr
      BY <1>0, <1>4, <2>1 DEF PlaceRow, TypeOK
    <3>3. \A s \in Occupied : coeff_rows'[s] = coeff_rows[s]
      BY <1>0, <1>4, <3>1 DEF PlaceRow, Occupied, TypeOK
    <3> QED BY <3>1, <3>2, <3>3 DEF StoredEquations
  <2>3. AddedEquations' = AddedEquations \cup {key}
    <3>1. Added' = Added \cup {ordered[n]}
      BY <1>0, <1>4, <2>1 DEF PlaceRow, Added, TypeOK
    <3> QED BY <1>4, <3>1 DEF PlaceRow, AddedEquations
  <2>4. pc = "reduce" /\ pc' # "reduce"
    BY <1>4 DEF PlaceRow
  <2> HIDE DEF row, key
  <2>5. Solves(X, 0, StoredEquations') <=> Solves(X, 0, AddedEquations')
    <3>1. Solves(X, 0, StoredEquations)
            => (Satisfies(X, 0, row) <=> Satisfies(X, 0, key))
      BY <2>4 DEF PreservedFor, row, key
    <3>2. Solves(X, 0, StoredEquations) <=> Solves(X, 0, AddedEquations)
      BY DEF PreservedFor
    <3> QED BY <2>2, <2>3, <3>1, <3>2, SolvesUnion
  <2> QED BY <2>4, <2>5 DEF PreservedFor
<1>5. CASE DropRow
  <2> DEFINE key == Equation(hash[ordered[n]])
  <2>1. pos \in Slots /\ n \in 1 .. Len(ordered)
    BY <1>0, <1>5, TableSize
    DEF DropRow, LoopsInv, RowsInBand, InBand, TypeOK, Slots
  <2>2. cr = coeff_rows[pos] /\ pos \in Occupied
    BY <1>5, <2>1 DEF DropRow, SymDiff, Occupied
  <2>3. RowEquation(pos, cr, {}) \in StoredEquations
    BY <2>2 DEF StoredEquations
  <2>4. StoredEquations' = StoredEquations
    BY <1>5 DEF DropRow, StoredEquations, Occupied
  <2>5. AddedEquations' = AddedEquations \cup {key}
    <3>1. Added' = Added \cup {ordered[n]}
      BY <1>0, <1>5, <2>1 DEF DropRow, Added, TypeOK
    <3> QED BY <1>5, <3>1 DEF DropRow, AddedEquations
  <2>6. pc = "reduce" /\ pc' # "reduce"
    BY <1>5 DEF DropRow
  <2> HIDE DEF key
  <2>7. Solves(X, 0, StoredEquations) => Satisfies(X, 0, key)
    BY <2>3, <2>6 DEF PreservedFor, Solves, key
  <2>8. Solves(X, 0, StoredEquations) <=> Solves(X, 0, AddedEquations)
    BY DEF PreservedFor
  <2>9. Solves(X, 0, StoredEquations') <=> Solves(X, 0, AddedEquations')
    BY <2>4, <2>5, <2>7, <2>8, SolvesUnion
  <2> QED BY <2>6, <2>9 DEF PreservedFor
<1>6. CASE ReduceRow
  <2>1. pos \in Slots
    BY <1>0, <1>6, TableSize DEF ReduceRow, RowsInBand, InBand, TypeOK, Slots
  <2>2. /\ coeff_rows[pos] \in Word /\ pos \in Occupied /\ cr \in Word
        /\ pos \in Nat
    BY <1>0, <1>6, <2>1 DEF ReduceRow, TypeOK, Occupied
  <2>3. Added' = Added /\ UNCHANGED <<coeff_rows, hash, ordered, n>>
    BY <1>6 DEF ReduceRow, Added
  <2>4. pc = "reduce" /\ pc' = "reduce"
    BY <1>6 DEF ReduceRow
  <2>5. ASSUME Solves(X, 0, StoredEquations)
        PROVE  Satisfies(X, 0, RowEquation(pos', cr', {}))
                 <=> Satisfies(X, 0, RowEquation(pos, cr, {}))
    <3>1. Satisfies(X, 0, RowEquation(pos, coeff_rows[pos], {}))
      BY <2>2, <2>5 DEF Solves, StoredEquations
    <3>2. /\ SymDiff(cr, coeff_rows[pos]) # {}
          /\ pos' = pos + TrailingZeros(SymDiff(cr, coeff_rows[pos]))
          /\ cr' = ShiftRight(SymDiff(cr, coeff_rows[pos]),
                              TrailingZeros(SymDiff(cr, coeff_rows[pos])))
      BY <1>6 DEF ReduceRow
    <3> QED BY <2>2, <3>1, <3>2, ReductionStep, Zenon
  <2> QED BY <1>1, <2>3, <2>4, <2>5 DEF PreservedFor
<1>7. CASE FromKeys \/ \E window \in WindowSizes : FromKeysPleated(window)
  <2>1. /\ pc = "order" /\ pc' # "reduce"
        /\ UNCHANGED <<coeff_rows, hash, n>>
    BY <1>7 DEF FromKeys, FromKeysPleated
  <2>2. n = 1
    <3>1. n \in 1 .. Len(ordered) + 1 /\ ordered = <<>>
      BY <1>0, <2>1 DEF TypeOK, LoopsInv
    <3> QED BY <3>1
  <2>3. Added = {} /\ Added' = {}
    BY <2>1, <2>2 DEF Added
  <2> QED BY <1>2, <2>1, <2>3
<1>8. CASE BackSubstitute
  <2>1. UNCHANGED <<coeff_rows, hash>> /\ Added' = Added /\ pc' # "reduce"
    BY <1>8 DEF BackSubstitute, Solve, BackSubstRow, Finish, addVars, Added
  <2> QED BY <1>2, <2>1
<1>9. CASE UNCHANGED vars
  <2>1. Added' = Added /\ UNCHANGED <<coeff_rows, hash, pc, pos, cr, ordered, n>>
    BY <1>9 DEF vars, addVars, Added
  <2> QED BY <1>1, <2>1 DEF PreservedFor
<1> QED
  BY <1>3, <1>4, <1>5, <1>6, <1>7, <1>8, <1>9 DEF Next, Add

(* Whatever the order of the keys, the matrix has the solutions of the     *)
(* keys' equations, and a row in hand never loses what its key said: the   *)
(* loop of Banding::add neither loses nor invents an equation.             *)
THEOREM ReductionPreservesEquations == Spec => []EquationsPreserved
<1>1. EquationsPreserved <=> \A X \in SUBSET Slots : PreservedFor(X)
  BY DEF EquationsPreserved, PreservedFor
<1>2. Init => EquationsPreserved
  BY <1>1, InitPreserved
<1>3. BandInv /\ BandInv' /\ EquationsPreserved /\ [Next]_vars
        => EquationsPreserved'
  <2>1. SUFFICES ASSUME BandInv, BandInv', EquationsPreserved, [Next]_vars,
                        NEW X \in SUBSET Slots
                 PROVE  PreservedFor(X)'
    BY DEF EquationsPreserved, PreservedFor
  <2> QED BY <1>1, <2>1, NextPreserved
<1>4. Spec => []BandInv
  BY InitBandInv, NextBandInv, PTL DEF Spec
<1> QED BY <1>2, <1>3, <1>4, PTL DEF Spec
-----------------------------------------------------------------------------
(* Back-substitution                                                       *)

(* What the row of slot s asks of column j, X                              *)
RowHolds(s, j, X) ==
  IF coeff_rows[s] = {} THEN s \in X <=> j \in EmptyRow[s]
                        ELSE Parity(Selected(s, coeff_rows[s], X)) = 0

(* X is the part of column j that is decided above `slot`: the rolling     *)
(* word holds its W lowest bits, the segments of the blocks that are done  *)
(* hold the rest, and every row above `slot` has what it asks for.         *)
DecidedIs(j, X) ==
  /\ X \in SUBSET (slot + 1 .. NumSlots - 1)
  /\ \A b \in 0 .. W - 1 : b \in state[j] <=> slot + 1 + b \in X
  /\ \A g \in 0 .. NumBlocks - 1 :
       g * W > slot => \A b \in 0 .. W - 1 :
                         b \in data[g * R + j] <=> g * W + b \in X
  /\ \A s \in slot + 1 .. NumSlots - 1 : RowHolds(s, j, X)

(* The invariant of back-substitution, which knows nothing of how the      *)
(* matrix was filled                                                       *)
SolveInv ==
  /\ pc \notin {"solve", "built"} => state = [j \in Columns |-> {}]
  /\ pc \in {"solve", "built"} =>
       /\ n = Len(ordered) + 1
       /\ \A j \in Columns : \E X : DecidedIs(j, X)
  /\ pc = "built" => slot = -1

LEMMA InitSolveInv == Init => SolveInv
BY DEF Init, SolveInv

(* The rows of the segments: no two blocks share one.                      *)
LEMMA SegmentOf ==
  ASSUME NEW g \in 0 .. NumBlocks - 1, NEW f \in Int, NEW j \in Columns
  PROVE  /\ g * R + j \in 0 .. NumBlocks * R - 1
         /\ g * R + j \in f * R .. f * R + R - 1 <=> g = f
<1>1. /\ R \in Nat \ {0} /\ NumBlocks \in Nat /\ g \in Nat
      /\ j \in Nat /\ j < R /\ g + 1 <= NumBlocks
  BY RAssumption, NumBlocksAssumption DEF Columns
<1>2. g * R \in Nat /\ (g + 1) * R = g * R + R
  BY <1>1
<1>3. (g + 1) * R <= NumBlocks * R /\ NumBlocks * R \in Nat
  BY <1>1, ProductGrows
<1>4. ASSUME g < f PROVE ~ (g * R + j >= f * R)
  <2>1. (g + 1) * R <= f * R /\ f * R \in Nat
    BY <1>1, <1>4, ProductGrows
  <2> QED BY <1>1, <1>2, <2>1
<1>5. ASSUME f < g PROVE ~ (g * R + j <= f * R + R - 1)
  <2>1. CASE f >= 0
    <3>1. (f + 1) * R <= g * R /\ (f + 1) * R = f * R + R /\ f * R \in Nat
      BY <1>1, <1>5, <2>1, ProductGrows
    <3> QED BY <1>1, <1>2, <3>1
  <2>2. CASE f < 0
    <3> DEFINE m == -f - 1
    <3>1. m \in Nat /\ f = -(m + 1)
      BY <2>2
    <3> HIDE DEF m
    <3>2. m * R \in Nat /\ f * R = -(m * R) - R
      BY <1>1, <3>1
    <3> QED BY <1>1, <1>2, <3>2
  <2> QED BY <2>1, <2>2
<1>6. f * R \in Int
  BY <1>1
<1>7. g = f => g * R + j \in f * R .. f * R + R - 1
  BY <1>1, <1>2
<1>8. g * R + j \in f * R .. f * R + R - 1 => g = f
  BY <1>1, <1>2, <1>4, <1>5, <1>6
<1>9. g * R + j \in 0 .. NumBlocks * R - 1
  BY <1>1, <1>2, <1>3
<1> QED BY <1>7, <1>8, <1>9

(* One row of back-substitution decides one more bit of every column: what *)
(* was decided, with `slot` if bit 0 of the new word is set.               *)
LEMMA RowDecided ==
  ASSUME TypeOK, RowsInBand, BackSubstRow,
         NEW j \in Columns, NEW X, DecidedIs(j, X)
  PROVE  \E Y : DecidedIs(j, Y)'
<1> DEFINE c   == coeff_rows[slot]
           tmp == ShiftLeft(state[j], 1, W)
<1>0. PICK Y : Y = IF 0 \in NextWord(j) THEN X \cup {slot} ELSE X
  OBVIOUS
<1>1. slot \in Slots /\ slot \in Nat /\ slot < NumSlots /\ slot' = slot - 1
  BY TableSize DEF TypeOK, BackSubstRow, Slots
<1>2. /\ coeff_rows' = coeff_rows
      /\ state'[j] = NextWord(j)
  BY DEF BackSubstRow, addVars
<1>3. W \in Nat \ {0} /\ NumSlots \in Nat /\ R \in Nat \ {0} /\ NumBlocks \in Nat
  BY TableSize, RAssumption, NumBlocksAssumption
<1>4. state[j] \in SUBSET (0 .. W - 1) /\ c \in SUBSET (0 .. W - 1)
  BY <1>1 DEF TypeOK, Word
<1>5. X \in SUBSET (slot + 1 .. NumSlots - 1) /\ slot \notin X
  BY <1>1 DEF DecidedIs
<1>6. /\ 0 \notin tmp
      /\ tmp \in SUBSET (0 .. W - 1)
      /\ \A b \in 1 .. W - 1 : b \in tmp <=> slot + b \in X
  <2>1. 0 \notin tmp /\ tmp \in SUBSET (0 .. W - 1)
    BY <1>3, <1>4 DEF ShiftLeft
  <2>2. ASSUME NEW b \in 1 .. W - 1
        PROVE  b \in tmp <=> slot + b \in X
    <3>1. b - 1 \in 0 .. W - 1 /\ slot + 1 + (b - 1) = slot + b
      BY <1>1, <1>3
    <3>2. b - 1 \in state[j] <=> slot + b \in X
      BY <3>1 DEF DecidedIs
    <3>3. b \in tmp <=> b - 1 \in state[j]
      BY <1>3, <1>4 DEF ShiftLeft
    <3> QED BY <3>2, <3>3
  <2> QED BY <2>1, <2>2
<1>7. NextWord(j) = tmp \/ NextWord(j) = tmp \cup {0}
  BY DEF NextWord
<1>8. \A b \in 0 .. W - 1 : b \in NextWord(j) <=> slot + b \in Y
  <2> HIDE DEF tmp
  <2>1. ASSUME NEW b \in 0 .. W - 1
        PROVE  b \in NextWord(j) <=> slot + b \in Y
    <3>1. CASE b = 0
      <4>1. slot + b = slot
        BY <1>1, <3>1
      <4> QED BY <1>0, <1>5, <3>1, <4>1
    <3>2. CASE b # 0
      <4>1. b \in 1 .. W - 1 /\ slot + b # slot
        BY <1>1, <1>3, <3>2
      <4> QED BY <1>0, <1>6, <1>7, <3>2, <4>1
    <3> QED BY <3>1, <3>2
  <2> QED BY <2>1
<1>9. Y \in SUBSET (slot' + 1 .. NumSlots - 1)
  <2>1. slot' + 1 = slot
    BY <1>1
  <2>2. Y \subseteq X \cup {slot}
    BY <1>0
  <2>3. \A x \in X \cup {slot} : x \in slot .. NumSlots - 1
    BY <1>1, <1>3, <1>5
  <2> QED BY <2>1, <2>2, <2>3
<1>10. \A b \in 0 .. W - 1 : b \in state'[j] <=> slot' + 1 + b \in Y
  <2>1. \A b \in 0 .. W - 1 : slot' + 1 + b = slot + b
    BY <1>1
  <2> QED BY <1>2, <1>8, <2>1
<1>11. ASSUME NEW g \in 0 .. NumBlocks - 1, g * W > slot', NEW b \in 0 .. W - 1
       PROVE  b \in data'[g * R + j] <=> g * W + b \in Y
  <2> DEFINE f == slot \div W
  <2>1. g * W \in Nat /\ g \in Nat
    BY BlockInTable
  <2>2. f \in Nat /\ slot % W \in 0 .. W - 1 /\ f * W \in Nat
        /\ slot = f * W + (slot % W)
    BY <1>1, <1>3, Division
  <2>3. g * R + j \in DOMAIN data /\ (g * R + j \in f * R .. f * R + R - 1 <=> g = f)
    <3> HIDE DEF f
    <3> QED BY <2>2, SegmentOf DEF TypeOK
  <2>4. data' = IF slot % W = 0
                THEN [d \in DOMAIN data |->
                        IF d \in f * R .. f * R + R - 1 THEN state'[d - f * R]
                                                        ELSE data[d]]
                ELSE data
    BY DEF BackSubstRow
  <2> HIDE DEF f
  <2>5. CASE g * W = slot
    <3>1. g = f /\ slot % W = 0
      <4>1. 0 \in 0 .. W - 1 /\ g * W + 0 = slot
        BY <1>3, <2>1, <2>5
      <4> QED BY <1>3, <2>1, <4>1, DivisionIsUnique DEF f
    <3>2. data'[g * R + j] = state'[j]
      <4>1. (g * R + j) - f * R = j
        <5>1. g * R \in Nat /\ j \in Int
          BY <1>3, <2>1 DEF Columns
        <5> QED BY <3>1, <5>1
      <4>2. /\ g * R + j \in DOMAIN data
            /\ g * R + j \in f * R .. f * R + R - 1
        BY <2>3, <3>1, Zenon
      <4> DEFINE d == g * R + j
      <4>3. data'[d] = state'[d - f * R]
        <5> HIDE DEF d
        <5> QED BY <2>4, <3>1, <4>2 DEF d
      <4> QED BY <4>1, <4>3
    <3> QED BY <1>2, <1>8, <2>5, <3>2
  <2>6. CASE g * W # slot
    <3>1. g * W > slot
      BY <1>1, <1>11, <2>1, <2>6
    <3>2. ~ (slot % W = 0 /\ g = f)
      <4> SUFFICES ASSUME slot % W = 0, g = f PROVE FALSE
        OBVIOUS
      <4>1. slot = g * W
        BY <2>1, <2>2
      <4> QED BY <2>6, <4>1
    <3>3. data'[g * R + j] = data[g * R + j]
      BY <2>3, <2>4, <3>2
    <3>4. b \in data[g * R + j] <=> g * W + b \in X
      BY <3>1 DEF DecidedIs
    <3>5. g * W + b # slot
      BY <1>1, <2>1, <3>1
    <3> QED BY <1>0, <3>3, <3>4, <3>5
  <2> QED BY <2>5, <2>6
<1>12. ASSUME NEW s \in slot' + 1 .. NumSlots - 1
       PROVE  RowHolds(s, j, Y)'
  <2>1. CASE s = slot
    <3>1. CASE c = {}
      <4>1. Parity(tmp \cap c) = 0
        <5>1. tmp \cap c = {}
          BY <3>1
        <5> QED BY <5>1, ParityOfNone
      <4>2. NextWord(j) = IF j \in EmptyRow[slot] THEN tmp \cup {0} ELSE tmp
        BY <3>1, <4>1 DEF NextWord
      <4> HIDE DEF tmp
      <4>3. 0 \in NextWord(j) <=> j \in EmptyRow[slot]
        BY <1>6, <4>2
      <4>4. slot \in Y <=> 0 \in NextWord(j)
        BY <1>0, <1>5
      <4> QED BY <1>2, <2>1, <3>1, <4>3, <4>4 DEF RowHolds
    <3>2. CASE c # {}
      <4>1. 0 \in c
        BY <1>1, <3>2 DEF RowsInBand, Occupied, InBand
      <4> DEFINE T == tmp \cap c
      <4>2. /\ IsFiniteSet(T) /\ Parity(T) \in {0, 1}
        <5>1. c \in Word
          BY <1>1 DEF TypeOK
        <5>2. IsFiniteSet(T)
          BY <5>1, FiniteWord, FS_Subset
        <5> QED BY <5>2, ParityType
      <4>3. NextWord(j) \cap c = IF Parity(T) = 1 THEN T \cup {0} ELSE T
        <5>1. NextWord(j) = IF Parity(T) = 1 THEN tmp \cup {0} ELSE tmp
          BY <3>2 DEF NextWord
        <5> HIDE DEF tmp
        <5> QED BY <4>1, <5>1
      <4>4. 0 \notin T
        BY <1>6
      <4> HIDE DEF T
      <4>5. Parity(NextWord(j) \cap c) = 0
        <5>1. Parity(T) = 1 => Parity(T \cup {0}) = 0
          <6>1. Parity(T \cup {0}) = 1 - Parity(T)
            BY <4>2, <4>4, ParityOfAdded
          <6> QED BY <6>1
        <5> QED BY <4>2, <4>3, <5>1
      <4>6. Selecting(slot, c, Y) = NextWord(j) \cap c
        <5> QED BY <1>4, <1>8 DEF Selecting
      <4>7. Parity(Selected(slot, c, Y)) = Parity(Selecting(slot, c, Y))
        <5>1. c \in Word
          BY <1>1 DEF TypeOK
        <5> HIDE DEF c
        <5> QED BY <1>1, <5>1, FiniteWord, ParityOfRow
      <4> QED BY <1>2, <2>1, <3>2, <4>5, <4>6, <4>7 DEF RowHolds
    <3> QED BY <3>1, <3>2
  <2>2. CASE s # slot
    <3>1. s \in slot + 1 .. NumSlots - 1 /\ s \in Slots /\ s > slot /\ s \in Nat
      BY <1>1, <2>2 DEF Slots
    <3>2. RowHolds(s, j, X)
      BY <3>1 DEF DecidedIs
    <3>3. s \in Y <=> s \in X
      BY <1>0, <2>2
    <3>4. Selected(s, coeff_rows[s], Y) = Selected(s, coeff_rows[s], X)
      <4>1. \A b \in coeff_rows[s] : s + b # slot
        <5>1. coeff_rows[s] \in SUBSET (0 .. W - 1)
          BY <3>1 DEF TypeOK, Word
        <5> QED BY <1>1, <3>1, <5>1
      <4> QED BY <1>0, <4>1 DEF Selected
    <3> QED BY <1>2, <3>2, <3>3, <3>4 DEF RowHolds
  <2> QED BY <2>1, <2>2
<1>13. DecidedIs(j, Y)'
  BY <1>9, <1>10, <1>11, <1>12 DEF DecidedIs
<1> QED BY <1>13

(* Each step of the construction preserves the invariant.                  *)
LEMMA SolveStarts ==
  ASSUME TypeOK, SolveInv, Solve
  PROVE  SolveInv'
<1>1. /\ pc = "next" /\ pc' = "solve"
      /\ slot' = NumSlots - 1
      /\ n > Len(ordered)
      /\ UNCHANGED <<n, ordered, coeff_rows, state, data>>
  BY DEF Solve, addVars
<1>2. n = Len(ordered) + 1
  BY <1>1 DEF TypeOK
<1>3. NumSlots \in Nat /\ W \in Nat \ {0}
  BY TableSize
<1>4. ASSUME NEW j \in Columns
      PROVE  DecidedIs(j, {})'
  <2>1. slot' + 1 = NumSlots /\ slot' + 1 .. NumSlots - 1 = {}
    BY <1>1, <1>3
  <2>2. state'[j] = {}
    BY <1>1 DEF SolveInv
  <2>3. \A g \in 0 .. NumBlocks - 1 : ~ (g * W > slot')
    <3>1. ASSUME NEW g \in 0 .. NumBlocks - 1 PROVE ~ (g * W > slot')
      <4>1. g * W \in Nat /\ g * W + W <= NumSlots
        BY BlockInTable
      <4> QED BY <1>1, <1>3, <4>1
    <3> QED BY <3>1
  <2> QED BY <2>1, <2>2, <2>3 DEF DecidedIs
<1>5. \A j \in Columns : \E X : DecidedIs(j, X)'
  BY <1>4, Zenon
<1> QED BY <1>1, <1>2, <1>5 DEF SolveInv

LEMMA SolveGoesOn ==
  ASSUME TypeOK, RowsInBand, SolveInv, BackSubstRow
  PROVE  SolveInv'
<1>1. pc = "solve" /\ UNCHANGED <<pc, n, ordered>>
  BY DEF BackSubstRow, addVars
<1>2. \A j \in Columns : \E Y : DecidedIs(j, Y)'
  BY <1>1, RowDecided DEF SolveInv
<1> QED BY <1>1, <1>2 DEF SolveInv

LEMMA SolveEnds ==
  ASSUME TypeOK, SolveInv, Finish
  PROVE  SolveInv'
<1>1. /\ pc = "solve" /\ pc' = "built" /\ slot < 0
      /\ UNCHANGED <<n, ordered, coeff_rows, slot, state, data>>
  BY DEF Finish, addVars, solverVars
<1>2. slot = -1
  BY <1>1, TableSize DEF TypeOK
<1>3. \A j, X : DecidedIs(j, X)' <=> DecidedIs(j, X)
  BY <1>1 DEF DecidedIs, RowHolds
<1> QED BY <1>1, <1>2, <1>3 DEF SolveInv

LEMMA SolveAwaits ==
  ASSUME SolveInv, state' = state,
         pc \notin {"solve", "built"}, pc' \notin {"solve", "built"}
  PROVE  SolveInv'
BY DEF SolveInv

LEMMA SolveStutters ==
  ASSUME SolveInv, UNCHANGED <<pc, n, ordered, coeff_rows, solverVars>>
  PROVE  SolveInv'
<1>1. \A j, X : DecidedIs(j, X)' <=> DecidedIs(j, X)
  BY DEF DecidedIs, RowHolds, solverVars
<1> QED BY <1>1 DEF SolveInv, solverVars

-----------------------------------------------------------------------------
(* The finished solution                                                   *)

(* The segments hold the columns, and the columns have what the rows ask.  *)
LEMMA BuiltColumns ==
  ASSUME TypeOK, SolveInv, pc = "built", NEW j \in Columns
  PROVE  /\ Column(j) \in SUBSET Slots
         /\ \A g \in 0 .. NumBlocks - 1 : \A b \in 0 .. W - 1 :
              b \in data[g * R + j] <=> g * W + b \in Column(j)
         /\ \A s \in Slots : RowHolds(s, j, Column(j))
<1>1. slot = -1 /\ slot + 1 = 0
  BY DEF SolveInv
<1>2. PICK X : DecidedIs(j, X)
  BY DEF SolveInv
<1>3. X \in SUBSET Slots /\ \A s \in Slots : RowHolds(s, j, X)
  BY <1>1, <1>2 DEF DecidedIs, Slots
<1>4. ASSUME NEW g \in 0 .. NumBlocks - 1, NEW b \in 0 .. W - 1
      PROVE  b \in data[g * R + j] <=> g * W + b \in X
  <2>1. g * W \in Nat /\ g * W > slot
    BY <1>1, BlockInTable
  <2> QED BY <1>2, <2>1 DEF DecidedIs
<1>5. ASSUME NEW s \in Slots
      PROVE  s % W \in data[(s \div W) * R + j] <=> s \in X
  <2> DEFINE g == s \div W
             b == s % W
  <2>1. s \in Nat /\ W \in Nat \ {0}
    BY TableSize DEF Slots
  <2>2. b \in 0 .. W - 1 /\ s = g * W + b
    BY <2>1, Division
  <2>3. g \in 0 .. NumBlocks - 1
    BY BlockOfSlot
  <2> HIDE DEF g, b
  <2>4. b \in data[g * R + j] <=> s \in X
    BY <1>4, <2>2, <2>3
  <2> QED BY <2>4 DEF g, b
<1>6. Column(j) = X
  BY <1>3, <1>5 DEF Column
<1> QED BY <1>3, <1>4, <1>6

(* A query finds a key if and only if every column satisfies its equation. *)
LEMMA ContainsMeansSatisfied ==
  ASSUME TypeOK, SolveInv, pc = "built", NEW h \in Hashes
  PROVE  Contains(h) <=> \A j \in Columns : Satisfies(Column(j), 0, Equation(h))
<1> DEFINE s     == Start(h)
           c     == CoeffRow(h)
           block == s \div W
           bit   == s % W
           maybe == IF bit # 0 THEN R ELSE 0
           seg   == block * R
           soln(j) == Queried(data[seg + j], data[seg + maybe + j], c, bit, W)
<1>1. Contains(h) <=> \A j \in Columns : Parity(soln(j)) = 0
  BY DEF Contains, Queried
<1>2. /\ s \in 0 .. NumStarts - 1 /\ s \in Slots /\ s \in Nat
      /\ c \in Word
  BY StartInRange, CoeffRowIsWord, TableSize DEF Slots
<1>3. W \in Nat \ {0} /\ R \in Nat \ {0} /\ NumBlocks \in Nat /\ NumSlots \in Nat
  BY TableSize, RAssumption, NumBlocksAssumption
<1> HIDE DEF s, c
<1>4. /\ block \in 0 .. NumBlocks - 1
      /\ bit \in 0 .. W - 1
      /\ block * W \in Nat
      /\ s = block * W + bit
  <2>1. /\ bit \in 0 .. W - 1
        /\ block * W \in Nat
        /\ s = block * W + bit
    BY <1>2, <1>3, Division
  <2> QED BY <1>2, <2>1, BlockOfSlot
<1> HIDE DEF block, bit
<1>5. bit # 0 => /\ block + 1 \in 0 .. NumBlocks - 1
                 /\ (block + 1) * W = block * W + W
  <2> SUFFICES ASSUME bit # 0
               PROVE  /\ block + 1 \in 0 .. NumBlocks - 1
                      /\ (block + 1) * W = block * W + W
    OBVIOUS
  <2>1. block \in Nat /\ (block + 1) * W = block * W + W
    BY <1>3, <1>4
  <2>2. block * W + W < NumBlocks * W
    BY <1>2, <1>3, <1>4, TableSize DEF NumSlots
  <2>3. ~ (NumBlocks <= block + 1)
    <3> SUFFICES ASSUME NumBlocks <= block + 1 PROVE FALSE
      OBVIOUS
    <3>1. NumBlocks * W <= (block + 1) * W
      BY <1>3, <2>1, ProductGrows
    <3> QED BY <1>3, <1>4, <2>1, <2>2, <3>1 DEF NumSlots
  <2> QED BY <1>3, <1>4, <2>1, <2>3
<1>6. ASSUME NEW j \in Columns
      PROVE  Parity(soln(j)) = 0 <=> Satisfies(Column(j), 0, Equation(h))
  <2> DEFINE X  == Column(j)
             lo == data[seg + j]
             hi == data[seg + maybe + j]
  <2>0. \A g \in 0 .. NumBlocks - 1 :
          /\ g * R + j \in 0 .. NumBlocks * R - 1
          /\ \A b \in 0 .. W - 1 : b \in data[g * R + j] <=> g * W + b \in X
    <3>1. \A g \in 0 .. NumBlocks - 1 : g * R + j \in 0 .. NumBlocks * R - 1
      BY SegmentOf
    <3> QED BY <3>1, BuiltColumns
  <2> HIDE DEF X
  <2>1. /\ lo \in SUBSET (0 .. W - 1)
        /\ \A b \in 0 .. W - 1 : b \in lo <=> block * W + b \in X
    BY <1>4, <2>0 DEF TypeOK, Word
  <2>2. bit # 0 => /\ hi \in SUBSET (0 .. W - 1)
                   /\ \A b \in 0 .. W - 1 : b \in hi <=> block * W + W + b \in X
    <3> SUFFICES ASSUME bit # 0
                 PROVE  /\ hi \in SUBSET (0 .. W - 1)
                        /\ \A b \in 0 .. W - 1 : b \in hi <=> block * W + W + b \in X
      OBVIOUS
    <3> DEFINE nxt == block + 1
    <3>1. nxt \in 0 .. NumBlocks - 1 /\ nxt * W = block * W + W
      BY <1>5
    <3>2. hi = data[nxt * R + j]
      <4>1. block * R \in Nat /\ nxt * R = block * R + R
        BY <1>3, <1>4
      <4>2. seg + maybe + j = nxt * R + j
        BY <1>3, <4>1
      <4> QED BY <4>2
    <3> HIDE DEF nxt, hi
    <3>3. nxt * R + j \in 0 .. NumBlocks * R - 1
      BY <2>0, <3>1
    <3> QED BY <2>0, <3>1, <3>2, <3>3 DEF TypeOK, Word
  <2>3. bit = 0 => hi = lo
    <3>1. seg \in Nat /\ j \in Int
      BY <1>3, <1>4 DEF Columns
    <3>2. bit = 0 => seg + maybe + j = seg + j
      BY <3>1
    <3> QED BY <3>2
  <2>4. c \in SUBSET (0 .. W - 1)
    BY <1>2 DEF Word
  <2>5. hi \in SUBSET (0 .. W - 1)
    BY <2>1, <2>2, <2>3
  <2>6. Parity(Queried(lo, hi, c, bit, W)) = Parity(Selected(s, c, X))
    <3> DEFINE base == block * W
    <3> HIDE DEF lo, hi, base
    <3> QED BY <1>2, <1>3, <1>4, <2>1, <2>2, <2>3, <2>4, <2>5, ParityOfQuery
            DEF base
  <2>7. Satisfies(X, 0, Equation(h)) <=> Parity(Selected(s, c, X)) = 0
    BY SatisfiesZero, Zenon DEF Equation, Selected, s, c
  <2> QED BY <2>6, <2>7 DEF X
<1> QED BY <1>1, <1>6

(* In every column the solution solves the equations of the matrix.        *)
LEMMA ColumnsSolveStored ==
  ASSUME TypeOK, SolveInv, pc = "built", NEW j \in Columns
  PROVE  Solves(Column(j), 0, StoredEquations)
<1> SUFFICES ASSUME NEW s \in Occupied
             PROVE  Satisfies(Column(j), 0, RowEquation(s, coeff_rows[s], {}))
  BY DEF Solves, StoredEquations
<1>1. RowHolds(s, j, Column(j)) /\ coeff_rows[s] # {}
  BY BuiltColumns DEF Occupied
<1>2. Parity(Selected(s, coeff_rows[s], Column(j))) = 0
  BY <1>1 DEF RowHolds
<1> QED BY <1>2, SatisfiesZero, Zenon DEF Selected

-----------------------------------------------------------------------------
(* Members are found                                                       *)

LEMMA NextSolveInv ==
  ASSUME TypeOK, RowsInBand, SolveInv, [Next]_vars
  PROVE  SolveInv'
<1>1. CASE FromKeys \/ \E window \in WindowSizes : FromKeysPleated(window)
  BY <1>1, SolveAwaits DEF FromKeys, FromKeysPleated, solverVars
<1>2. CASE Add
  BY <1>2, SolveAwaits
  DEF Add, AddKey, PlaceRow, DropRow, ReduceRow, solverVars
<1>3. CASE BackSubstitute
  BY <1>3, SolveStarts, SolveGoesOn, SolveEnds DEF BackSubstitute
<1>4. CASE UNCHANGED vars
  BY <1>4, SolveStutters DEF vars, addVars
<1> QED BY <1>1, <1>2, <1>3, <1>4 DEF Next

(* Whatever the order, all the keys are in it.                             *)
AllOrdered == pc # "order" => Range(ordered) = Range(keys)

LEMMA NextAllOrdered ==
  ASSUME TypeOK, AllOrdered, [Next]_vars
  PROVE  AllOrdered'
<1>1. CASE FromKeys
  BY <1>1 DEF FromKeys, AllOrdered
<1>2. ASSUME NEW window \in WindowSizes, FromKeysPleated(window)
      PROVE  AllOrdered'
  <2>1. PICK p \in Bijection(1 .. Len(keys), 1 .. Len(keys)) :
          ordered' = [m \in 1 .. Len(keys) |-> keys[p[m]]]
    BY <1>2 DEF FromKeysPleated, PleatedOrders
  <2>2. /\ p \in [1 .. Len(keys) -> 1 .. Len(keys)]
        /\ \A m \in 1 .. Len(keys) : \E i \in 1 .. Len(keys) : p[i] = m
    BY DEF Bijection, Injection, Surjection
  <2>3. DOMAIN keys = 1 .. Len(keys)
    BY InputsAssumption DEF TypeOK
  <2>4. Range(ordered') = Range(keys)
    <3>1. ASSUME NEW x \in Range(ordered') PROVE x \in Range(keys)
      <4>1. PICK m \in 1 .. Len(keys) : x = keys[p[m]]
        BY <2>1 DEF Range
      <4> QED BY <2>2, <2>3, <4>1 DEF Range
    <3>2. ASSUME NEW x \in Range(keys) PROVE x \in Range(ordered')
      <4>1. PICK m \in 1 .. Len(keys) : x = keys[m]
        BY <2>3 DEF Range
      <4>2. PICK i \in 1 .. Len(keys) : p[i] = m
        BY <2>2
      <4>3. ordered'[i] = x /\ i \in DOMAIN ordered'
        BY <2>1, <4>1, <4>2
      <4> QED BY <4>3 DEF Range
    <3> QED BY <3>1, <3>2
  <2> QED BY <1>2, <2>4 DEF AllOrdered, FromKeysPleated
<1>3. CASE Add \/ BackSubstitute
  BY <1>3
  DEF AllOrdered, Add, AddKey, PlaceRow, DropRow, ReduceRow,
      BackSubstitute, Solve, BackSubstRow, Finish, addVars, solverVars
<1>4. CASE UNCHANGED vars
  BY <1>4 DEF AllOrdered, vars, addVars
<1> QED BY <1>1, <1>2, <1>3, <1>4 DEF Next

(* A finished matrix has the solutions of the keys' equations.             *)
KeyEquations == {Equation(hash[k]) : k \in Range(keys)}

MatrixComplete ==
  pc \in {"solve", "built"} =>
    \A X \in SUBSET Slots : Solves(X, 0, StoredEquations) <=> Solves(X, 0, KeyEquations)

(* All that queries and the shape of the filter depend on, however the     *)
(* matrix was filled                                                       *)
BuildInv == TypeOK /\ RowsInBand /\ SolveInv /\ MatrixComplete

LEMMA BuildInvariant == Spec => []BuildInv
<1>1. Init => SolveInv /\ AllOrdered
  BY InitSolveInv DEF Init, AllOrdered
<1>2. BandInv /\ SolveInv /\ AllOrdered /\ [Next]_vars => SolveInv' /\ AllOrdered'
  BY NextSolveInv, NextAllOrdered DEF BandInv
<1>3. Spec => []BandInv
  BY InitBandInv, NextBandInv, PTL DEF Spec
<1>4. Spec => []EquationsPreserved
  BY ReductionPreservesEquations
<1>5. Spec => [](SolveInv /\ AllOrdered)
  BY <1>1, <1>2, <1>3, PTL DEF Spec
<1>6. BandInv /\ SolveInv /\ AllOrdered /\ EquationsPreserved => BuildInv
  <2> SUFFICES ASSUME TypeOK, RowsInBand, SolveInv, AllOrdered, EquationsPreserved,
                      pc \in {"solve", "built"}
               PROVE  AddedEquations = KeyEquations
    BY DEF BuildInv, BandInv, MatrixComplete, EquationsPreserved
  <2>1. n - 1 = Len(ordered) /\ DOMAIN ordered = 1 .. Len(ordered)
    BY DEF SolveInv, TypeOK
  <2>2. Range(ordered) = Range(keys)
    BY DEF AllOrdered
  <2>3. Added = Range(keys)
    BY <2>1, <2>2 DEF Added, Range
  <2> QED BY <2>3 DEF AddedEquations, KeyEquations
<1> QED BY <1>3, <1>4, <1>5, <1>6, PTL

LEMMA BuiltFindsMembers == BuildInv => NoFalseNegatives
<1> SUFFICES ASSUME BuildInv, pc = "built", NEW k \in Range(keys)
             PROVE  Contains(hash[k])
  BY DEF NoFalseNegatives
<1>1. TypeOK /\ SolveInv /\ MatrixComplete
  BY DEF BuildInv
<1>2. hash[k] \in Hashes
  BY <1>1 DEF TypeOK
<1>3. ASSUME NEW j \in Columns
      PROVE  Satisfies(Column(j), 0, Equation(hash[k]))
  <2>1. Column(j) \in SUBSET Slots
    BY <1>1, BuiltColumns
  <2>2. Solves(Column(j), 0, StoredEquations)
    BY <1>1, ColumnsSolveStored
  <2>3. Solves(Column(j), 0, KeyEquations)
    BY <1>1, <2>1, <2>2 DEF MatrixComplete
  <2> QED BY <2>3 DEF Solves, KeyEquations
<1> QED BY <1>1, <1>2, <1>3, ContainsMeansSatisfied

(* The keys a filter was built from are reported present by it: in every   *)
(* column, back-substitution makes the bits that a member's row selects    *)
(* cancel out, across the boundary of blocks as well as within one.        *)
THEOREM MembersAreFound == Spec => []NoFalseNegatives
BY BuildInvariant, BuiltFindsMembers, PTL

-----------------------------------------------------------------------------
(* The filter is determined by the keys' equations                         *)

(* In the definitions of RibbonFilter, instantiated *)
LEMMA SameMathematics ==
  /\ Filter!Slots = Slots
  /\ Filter!Hashes = Hashes
  /\ \A h : Filter!Equation(h) = Equation(h)
  /\ \A A : Filter!Range(A) = Range(A)
  /\ \A S, j, E, f :
       Filter!CanonicalColumns(S, j, E, f) = CanonicalColumns(S, j, E, f)
<1>1. Filter!Slots = Slots /\ Filter!Hashes = Hashes
  BY DEF Filter!Slots, Slots, Filter!NumSlots, NumSlots, Filter!Hashes, Hashes
<1>2. ASSUME NEW h PROVE Filter!Equation(h) = Equation(h)
  <2>1. Filter!Start(h) = Start(h)
    BY DEF Filter!Start, Start, Filter!NumStarts, NumStarts,
           Filter!NumSlots, NumSlots
  <2> QED BY <2>1 DEF Filter!Equation, Equation, Filter!RowEquation, RowEquation,
                      Filter!CoeffRow, CoeffRow
<1>3. ASSUME NEW A PROVE Filter!Range(A) = Range(A)
  BY Zenon DEF Filter!Range, Range
<1>4. ASSUME NEW A PROVE Filter!Parity(A) = Parity(A)
  <2>1. Filter!Cardinality(A) = Cardinality(A)
    BY Zenon DEF Filter!Cardinality, Cardinality
  <2> QED BY <2>1 DEF Filter!Parity, Parity
<1>5. ASSUME NEW A PROVE Filter!Max(A) = Max(A)
  BY Zenon DEF Filter!Max, Max
<1>6. ASSUME NEW S, NEW j, NEW E, NEW f
      PROVE  Filter!CanonicalColumns(S, j, E, f) = CanonicalColumns(S, j, E, f)
  BY <1>4, <1>5, Zenon
  DEF CanonicalColumns, Filter!CanonicalColumns, Filter!Solves, Solves,
      FreeSlots, Filter!FreeSlots, Filter!Kernel, Kernel,
      Filter!Satisfies, Satisfies, Filter!Bit, Bit
<1> QED BY <1>1, <1>2, <1>3, <1>6

(* Since result rows are 0, all columns have the same equations.           *)
LEMMA SameInAllColumns ==
  ASSUME NEW X, NEW j, NEW E, \A e \in E : e.rhs = {}
  PROVE  Solves(X, j, E) <=> Solves(X, 0, E)
BY DEF Solves, Satisfies, Bit

(* The matrix is in echelon form, so each column of the solution is the    *)
(* only one that the rows it holds and the bits of its empty slots allow.  *)
Canonical ==
  \A j \in Columns :
    CanonicalColumns(Slots, j, KeyEquations, EmptyRow) = {Column(j)}

LEMMA ColumnsAreCanonical == BuildInv /\ pc = "built" => Canonical
<1> SUFFICES ASSUME BuildInv, pc = "built", NEW j \in Columns
             PROVE  CanonicalColumns(Slots, j, KeyEquations, EmptyRow) = {Column(j)}
  BY DEF Canonical
<1> DEFINE E == StoredEquations
           F == KeyEquations
           X == Column(j)
<1>0. TypeOK /\ RowsInBand /\ SolveInv /\ MatrixComplete
  BY DEF BuildInv
<1>2. \A e \in E \cup F : IsFiniteSet(e.on) /\ e.rhs = {}
  <2>1. ASSUME NEW s \in Occupied
        PROVE  IsFiniteSet({s + b : b \in coeff_rows[s]})
    <3>1. s \in Nat /\ coeff_rows[s] \in Word
      BY <1>0 DEF Occupied, Slots, TypeOK
    <3> QED BY <3>1, FiniteWord, RowIsFinite
  <2>2. ASSUME NEW k \in Range(keys)
        PROVE  IsFiniteSet({Start(hash[k]) + b : b \in CoeffRow(hash[k])})
    <3>1. hash[k] \in Hashes
      BY <1>0 DEF TypeOK
    <3>2. Start(hash[k]) \in Nat /\ CoeffRow(hash[k]) \in Word
      BY <3>1, RowFits, CoeffRowIsWord
    <3> QED BY <3>2, FiniteWord, RowIsFinite
  <2>3. \A e \in E : IsFiniteSet(e.on) /\ e.rhs = {}
    BY <2>1 DEF StoredEquations, RowEquation
  <2>4. ASSUME NEW e \in F PROVE IsFiniteSet(e.on) /\ e.rhs = {}
    <3>1. PICK k \in Range(keys) : e = Equation(hash[k])
      BY DEF KeyEquations
    <3>2. e.on = {Start(hash[k]) + b : b \in CoeffRow(hash[k])} /\ e.rhs = {}
      BY <3>1 DEF Equation, RowEquation
    <3> QED BY <2>2, <3>2
  <2> HIDE DEF E, F
  <2> QED BY <2>3, <2>4
<1>3. X \in SUBSET Slots /\ Solves(X, 0, E)
  BY <1>0, BuiltColumns, ColumnsSolveStored
<1>4. \A s \in Occupied : \E e \in E : s \in e.on /\ \A t \in e.on : t \in Int /\ s <= t
  <2> SUFFICES ASSUME NEW s \in Occupied
               PROVE  \E e \in E : s \in e.on /\ \A t \in e.on : t \in Int /\ s <= t
    OBVIOUS
  <2> DEFINE c == coeff_rows[s]
             e == RowEquation(s, c, {})
  <2>1. s \in Nat /\ c \in SUBSET Nat /\ 0 \in c
    BY <1>0 DEF Occupied, Slots, TypeOK, Word, RowsInBand, InBand
  <2>2. s + 0 = s /\ \A b \in c : s + b \in Int /\ s <= s + b
    BY <2>1
  <2>3. e.on = {s + b : b \in c}
    BY DEF RowEquation
  <2>4. s \in e.on /\ \A t \in e.on : t \in Int /\ s <= t
    <3> HIDE DEF c, e
    <3> QED BY <2>1, <2>2, <2>3
  <2>5. e \in E
    BY DEF StoredEquations
  <2> QED BY <2>4, <2>5
<1>5. \A s \in Slots \ Occupied : s \in X <=> j \in EmptyRow[s]
  <2> SUFFICES ASSUME NEW s \in Slots, s \notin Occupied
               PROVE  s \in X <=> j \in EmptyRow[s]
    OBVIOUS
  <2>1. RowHolds(s, j, X) /\ coeff_rows[s] = {}
    BY <1>0, BuiltColumns DEF Occupied
  <2> HIDE DEF X
  <2> QED BY <2>1 DEF RowHolds
<1>6. \A Y \in SUBSET Slots : Solves(Y, 0, E) <=> Solves(Y, 0, F)
  BY <1>0 DEF MatrixComplete
<1> HIDE DEF E, F, X
<1>7. \A Y : /\ Solves(Y, j, E) <=> Solves(Y, 0, E)
             /\ Solves(Y, j, F) <=> Solves(Y, 0, F)
  BY <1>2, SameInAllColumns
<1>8. NumSlots \in Nat /\ Slots = 0 .. NumSlots - 1
  BY TableSize DEF Slots
<1>9. CanonicalColumns(Slots, j, E, EmptyRow) = {X}
  <2>1. Finitary(E) /\ Lead(Occupied, E) /\ Solves(X, j, E)
    BY <1>2, <1>3, <1>4, <1>7 DEF Finitary, Lead
  <2>2. FilledFrom(X, j, EmptyRow, Slots \ Occupied)
    BY <1>5 DEF FilledFrom
  <2> QED BY <1>3, <1>8, <2>1, <2>2, EchelonIsCanonical
<1>10. CanonicalColumns(Slots, j, E, EmptyRow) = CanonicalColumns(Slots, j, F, EmptyRow)
  BY <1>2, <1>3, <1>6, <1>7, CanonicalOfEquivalent
<1> QED BY <1>9, <1>10 DEF F, X

(* The builder returns once, when back-substitution ends.                  *)
returned == IF pc = "built" THEN {[j \in Columns |-> Column(j)]} ELSE {}

LEMMA FinishReturns ==
  ASSUME Finish, Canonical'
  PROVE  Filter!Return
<1> DEFINE f == [j \in Columns |-> Column(j)']
<1>1. /\ pc = "solve" /\ pc' = "built"
      /\ UNCHANGED <<keys, hash>>
  BY DEF Finish
<1>2. returned = {} /\ returned' = {f}
  BY <1>1 DEF returned
<1>3. ASSUME NEW j \in Columns
      PROVE  /\ Column(j)' \in SUBSET Slots
             /\ CanonicalColumns(Slots, j, KeyEquations, EmptyRow) = {Column(j)'}
  <2>1. (Column(j) \in SUBSET Slots)'
    BY DEF Column
  <2>2. KeyEquations' = KeyEquations
    BY <1>1 DEF KeyEquations
  <2> QED BY <2>1, <2>2 DEF Canonical
<1>4. f \in [0 .. R - 1 -> SUBSET Slots]
  BY <1>3 DEF Columns
<1>5. \A j \in 0 .. R - 1 :
        Filter!CanonicalColumns(Filter!Slots, j, Filter!Equations, EmptyRow) = {f[j]}
  BY <1>3, SameMathematics DEF Columns, Filter!Equations, KeyEquations
<1> QED BY <1>1, <1>2, <1>4, <1>5, SameMathematics DEF Filter!Return, returned

LEMMA OthersReturnNothing ==
  ASSUME UNCHANGED <<keys, hash>>,
         \/ pc # "built" /\ pc' # "built"
         \/ UNCHANGED <<pc, data>>
  PROVE  UNCHANGED <<keys, hash, returned>>
<1>1. CASE UNCHANGED <<pc, data>>
  <2>1. \A j : Column(j)' = Column(j)
    BY <1>1 DEF Column
  <2> QED BY <1>1, <2>1 DEF returned
<1> QED BY <1>1 DEF returned

(* The filter returned is the one RibbonFilter derives from the set of the *)
(* keys' equations: neither the order of the keys, their repetition nor    *)
(* the pleating window has any influence on a bit of it.                   *)
THEOREM FilterIsDetermined == Spec => BitIdentical
<1>1. Init => Filter!Init
  BY SameMathematics DEF Init, Filter!Init
<1>2. (BuildInv /\ pc = "built" => Canonical)'
  BY ColumnsAreCanonical, PTL
<1>3. BuildInv' /\ [Next]_vars => [Filter!Return]_<<keys, hash, returned>>
  <2> SUFFICES ASSUME BuildInv', [Next]_vars
               PROVE  [Filter!Return]_<<keys, hash, returned>>
    OBVIOUS
  <2>1. CASE Finish
    BY <1>2, <2>1, FinishReturns DEF Finish
  <2>2. CASE UNCHANGED vars
    BY <2>2, OthersReturnNothing DEF vars, solverVars
  <2>3. CASE Next /\ ~Finish
    <3>1. pc # "built" /\ pc' # "built" /\ UNCHANGED <<keys, hash>>
      BY <2>3
      DEF Next, FromKeys, FromKeysPleated, Add, AddKey, PlaceRow, DropRow,
          ReduceRow, BackSubstitute, Solve, BackSubstRow
    <3> QED BY <3>1, OthersReturnNothing
  <2> QED BY <2>1, <2>2, <2>3
<1> QED
  BY <1>1, <1>3, BuildInvariant, PTL DEF Spec, BitIdentical, Filter!Spec, returned
=============================================================================
