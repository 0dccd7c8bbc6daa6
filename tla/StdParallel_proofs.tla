------------------------- MODULE StdParallel_proofs --------------------------
(***************************************************************************)
(* Proofs about the standard family, for tables of every size, every width *)
(* and every slice of keys: the sequential construction (StdBanding, whose *)
(* theorems are about Spec) and the parallel one on top of it (ParSpec,    *)
(* for any number of threads and every interleaving of the workers).       *)
(***************************************************************************)
EXTENDS StdParallel, Hashing_proofs, SlotRanges_proofs

(* Where the loops are: no key is ordered before the builder chose an      *)
(* order, and a key is being reduced only while there is one.              *)
LoopsInv ==
  /\ pc = "order" => ordered = <<>>
  /\ pc = "reduce" => n \in 1 .. Len(ordered)

(* The inductive invariant of the seed loop: StdTypeOK alone is not        *)
(* inductive, since the index of the next key is bounded by LoopsInv, and  *)
(* StdRowsInBand needs the types.                                          *)
StdInv == StdTypeOK /\ StdRowsInBand /\ LoopsInv

-----------------------------------------------------------------------------
(* Rows and result rows                                                    *)

LEMMA RangeOfSeq ==
  ASSUME NEW S, NEW s \in Seq(S)
  PROVE  /\ s \in Seq(Range(s))
         /\ \A m \in 1 .. Len(s) : s[m] \in Range(s)
BY DEF Range

LEMMA InputIsSeq ==
  ASSUME keys \in Inputs
  PROVE  /\ keys \in Seq(Range(keys)) /\ Len(keys) \in Nat
         /\ \A m \in 1 .. Len(keys) : keys[m] \in Range(keys)
BY InputsAssumption, RangeOfSeq

(* A permutation of the keys is a sequence of all of them. *)
LEMMA PleatedIsPermuted ==
  ASSUME keys \in Inputs, NEW window_of, NEW q \in PleatedOrders(keys, window_of)
  PROVE  /\ q \in Seq(Range(keys)) /\ Len(q) = Len(keys)
         /\ Range(q) = Range(keys)
<1>1. keys \in Seq(Range(keys)) /\ Len(keys) \in Nat /\ DOMAIN keys = 1 .. Len(keys)
  BY InputIsSeq, InputsAssumption
<1>2. PICK p \in Bijection(1 .. Len(keys), 1 .. Len(keys)) :
        q = [m \in 1 .. Len(keys) |-> keys[p[m]]]
  BY DEF PleatedOrders
<1>3. /\ p \in [1 .. Len(keys) -> 1 .. Len(keys)]
      /\ \A m \in 1 .. Len(keys) : \E i \in 1 .. Len(keys) : p[i] = m
  BY <1>2 DEF Bijection, Injection, Surjection
<1>4. q \in Seq(Range(keys)) /\ Len(q) = Len(keys)
  BY <1>1, <1>2, <1>3
<1>5. ASSUME NEW x \in Range(q) PROVE x \in Range(keys)
  <2>1. PICK m \in 1 .. Len(keys) : x = keys[p[m]]
    BY <1>2 DEF Range
  <2> QED BY <1>1, <1>3, <2>1 DEF Range
<1>6. ASSUME NEW x \in Range(keys) PROVE x \in Range(q)
  <2>1. PICK m \in 1 .. Len(keys) : x = keys[m]
    BY <1>1 DEF Range
  <2>2. PICK i \in 1 .. Len(keys) : p[i] = m
    BY <1>3
  <2>3. q[i] = x /\ i \in DOMAIN q
    BY <1>2, <2>1, <2>2
  <2> QED BY <2>3 DEF Range
<1> QED BY <1>4, <1>5, <1>6

(* A key's row fits into the table, wherever it starts. *)
LEMMA KeyRow ==
  ASSUME NEW h \in Hashes128
  PROVE  /\ Start(h) \in 0 .. NumStarts - 1
         /\ Start(h) \in Slots /\ Start(h) \in Nat
         /\ CoeffRow128(h) \in Word
         /\ InBand(Start(h), CoeffRow128(h))
         /\ ResultRow(h) \in SUBSET ResultBits
<1>1. h.hi \in 0 .. HashRange - 1 /\ h.lo \in SUBSET (0 .. Half - 1)
  BY DEF Hashes128
<1>2. Start(h) \in 0 .. NumStarts - 1
  BY <1>1, StartOfMagnitude
<1>3. Half \in Nat \ {0} /\ W = 2 * Half /\ XorMask \in SUBSET (0 .. Half - 1)
  BY HalfAssumption, XorMaskAssumption
<1>4. CoeffRow128(h) \in SUBSET (0 .. W - 1)
  <2>1. \A b \in h.lo : b \in 0 .. W - 1 /\ b + Half \in 0 .. W - 1
    BY <1>1, <1>3
  <2>2. \A b \in XorMask : b \in 0 .. W - 1
    BY <1>3
  <2>3. 0 \in 0 .. W - 1
    BY <1>3
  <2> QED BY <2>1, <2>2, <2>3 DEF CoeffRow128, SymDiff
<1>5. 0 \in CoeffRow128(h)
  BY DEF CoeffRow128
<1>6. Start(h) \in Slots /\ Start(h) \in Nat
  BY <1>2, TableSize DEF Slots
<1>7. \A b \in CoeffRow128(h) : Start(h) + b < NumSlots
  BY <1>2, <1>4, TableSize
<1> QED BY <1>2, <1>4, <1>5, <1>6, <1>7 DEF InBand, Word, ResultRow

LEMMA InBandStaysBelow ==
  ASSUME NEW s, NEW c
  PROVE  InBand(s, c) <=> 0 \in c /\ StaysBelow(s, c, NumSlots)
BY DEF InBand, StaysBelow

(* Two rows of the table give a row of the table. *)
LEMMA ReducedInBand ==
  ASSUME NEW s \in Nat, NEW x \in Word, NEW c \in Word,
         InBand(s, x), InBand(s, c), SymDiff(x, c) # {},
         NEW tz, tz = TrailingZeros(SymDiff(x, c)),
         NEW r, r = ShiftRight(SymDiff(x, c), tz)
  PROVE  tz \in Nat /\ r \in Word /\ InBand(s + tz, r)
<1>1. NumSlots \in Nat
  BY TableSize
<1> QED BY <1>1, ReducedRow, InBandStaysBelow

-----------------------------------------------------------------------------
(* Back-substitution: the recursion that Words stands for                  *)

(* No descent from the end of the table to 0 stops half-way.               *)
LEMMA Descent ==
  ASSUME NEW S \in SUBSET (0 .. NumSlots), NumSlots \in S,
         \A s \in 0 .. NumSlots - 1 : s + 1 \in S => s \in S
  PROVE  S = 0 .. NumSlots
<1> DEFINE T == {d \in Nat : d <= NumSlots /\ NumSlots - d \notin S}
<1>1. NumSlots \in Nat
  BY TableSize
<1>2. T = {}
  <2> SUFFICES ASSUME T # {} PROVE FALSE
    OBVIOUS
  <2>1. PICK d \in T : \A e \in T : d <= e
    BY LeastNatural
  <2>2. d \in Nat /\ d <= NumSlots /\ NumSlots - d \notin S /\ d # 0
    BY <1>1, <2>1
  <2>3. NumSlots - d + 1 \in S
    <3>1. d - 1 \in Nat /\ d - 1 <= NumSlots /\ d - 1 \notin T
      BY <1>1, <2>1, <2>2
    <3>2. NumSlots - (d - 1) \in S
      BY <3>1
    <3> QED BY <1>1, <2>2, <3>2
  <2> QED BY <1>1, <2>2, <2>3
<1>3. ASSUME NEW s \in 0 .. NumSlots PROVE s \in S
  <2> DEFINE d == NumSlots - s
  <2>1. d \in Nat /\ d <= NumSlots /\ NumSlots - d = s
    BY <1>1
  <2>2. d \notin T
    BY <1>2
  <2> HIDE DEF d
  <2> QED BY <2>1, <2>2
<1> QED BY <1>3

(* What Words says of slot s, of a function g on the slots from s on       *)
WordsAt(g, s) ==
  IF s = NumSlots
  THEN [j \in Columns |-> {}]
  ELSE [j \in Columns |-> NextWord(g[s + 1][j], j, s)]

LEMMA NextWordType ==
  ASSUME NEW word \in Word, NEW j, NEW s
  PROVE  NextWord(word, j, s) \in Word
<1> DEFINE tmp == ShiftLeft(word, 1, W)
<1>1. tmp \in Word /\ tmp \cup {0} \in Word
  BY WAssumption DEF ShiftLeft, Word
<1> QED BY <1>1, Zenon DEF NextWord

(* There is a function that meets the recursion, so Words does.            *)
LEMMA WordsRecursion ==
  \A s \in 0 .. NumSlots : Words[s] = WordsAt(Words, s)
<1> DEFINE N == NumSlots
           Meets(g, s) == \A t \in s .. N : g[t] = WordsAt(g, t)
           S == {s \in 0 .. N : \E g \in [s .. N -> [Columns -> Word]] : Meets(g, s)}
<1>1. N \in Nat
  BY TableSize
<1>2. N \in S
  <2> DEFINE g == [t \in N .. N |-> [j \in Columns |-> {}]]
  <2>1. {} \in Word
    BY DEF Word
  <2>2. g \in [N .. N -> [Columns -> Word]]
    BY <2>1
  <2>3. Meets(g, N)
    BY <1>1 DEF WordsAt
  <2>4. N \in 0 .. N
    BY <1>1
  <2> HIDE DEF Meets, g
  <2> QED BY <2>2, <2>3, <2>4
<1>3. ASSUME NEW s \in 0 .. N - 1, s + 1 \in S PROVE s \in S
  <2>1. PICK g \in [s + 1 .. N -> [Columns -> Word]] : Meets(g, s + 1)
    BY <1>3
  <2> DEFINE w == [j \in Columns |-> NextWord(g[s + 1][j], j, s)]
             f == [t \in s .. N |-> IF t = s THEN w ELSE g[t]]
  <2>2. s \in Nat /\ s < N /\ s + 1 \in s + 1 .. N
    BY <1>1
  <2>3. w \in [Columns -> Word]
    BY <2>1, <2>2, NextWordType
  <2>4. f \in [s .. N -> [Columns -> Word]]
    <3> HIDE DEF w
    <3>1. \A t \in s .. N : t # s => t \in s + 1 .. N
      BY <1>1, <2>2
    <3> QED BY <2>1, <2>3, <3>1
  <2>5. \A t \in s + 1 .. N : f[t] = g[t]
    BY <1>1, <2>2
  <2>6. ASSUME NEW t \in s .. N PROVE f[t] = WordsAt(f, t)
    <3>1. CASE t = s
      <4>1. f[t] = w /\ f[t + 1] = g[s + 1] /\ t # N
        BY <2>2, <2>5, <3>1
      <4> HIDE DEF f
      <4> QED BY <3>1, <4>1 DEF WordsAt
    <3>2. CASE t # s
      <4>1. t \in s + 1 .. N /\ (t # N => t + 1 \in s + 1 .. N)
        BY <1>1, <2>2, <3>2
      <4>2. f[t] = g[t] /\ (t # N => f[t + 1] = g[t + 1])
        BY <2>5, <4>1
      <4>3. g[t] = WordsAt(g, t)
        BY <2>1, <4>1
      <4> HIDE DEF f
      <4> QED BY <4>2, <4>3 DEF WordsAt
    <3> QED BY <3>1, <3>2
  <2> HIDE DEF f
  <2>7. Meets(f, s)
    BY <2>6
  <2>8. s \in 0 .. N
    BY <1>1
  <2> HIDE DEF Meets
  <2> QED BY <2>4, <2>7, <2>8
<1>4. 0 \in S
  <2> HIDE DEF S
  <2>1. S \in SUBSET (0 .. N)
    BY DEF S
  <2>2. S = 0 .. N
    BY <1>2, <1>3, <2>1, Descent
  <2> QED BY <1>1, <2>2
<1>5. PICK g \in [0 .. N -> [Columns -> Word]] : Meets(g, 0)
  BY <1>4
<1> DEFINE Step(h) ==
             [s \in 0 .. N |->
                IF s = N THEN [j \in Columns |-> {}]
                ELSE LET above == h[s + 1]
                     IN  [j \in Columns |-> NextWord(above[j], j, s)]]
<1>6. \A h : Step(h) = [s \in 0 .. N |-> WordsAt(h, s)]
  BY DEF WordsAt
<1>7. g = Step(g)
  <2>1. g = [s \in 0 .. N |-> WordsAt(g, s)]
    BY <1>5
  <2> QED BY <1>6, <2>1
<1>8. Words = CHOOSE h : h = Step(h)
  BY DEF Words
<1>9. Words = Step(Words)
  <2> HIDE DEF Step
  <2> QED BY <1>7, <1>8
<1>10. Words = [s \in 0 .. N |-> WordsAt(Words, s)]
  BY <1>6, <1>9
<1> QED BY <1>10

LEMMA WordsType == \A s \in 0 .. NumSlots : Words[s] \in [Columns -> Word]
<1> DEFINE S == {s \in 0 .. NumSlots : Words[s] \in [Columns -> Word]}
<1>1. NumSlots \in Nat /\ {} \in Word
  BY TableSize DEF Word
<1>2. NumSlots \in S
  <2>1. NumSlots \in 0 .. NumSlots
    BY <1>1
  <2>2. Words[NumSlots] = WordsAt(Words, NumSlots)
    BY <2>1, WordsRecursion
  <2>3. WordsAt(Words, NumSlots) = [j \in Columns |-> {}]
    BY DEF WordsAt
  <2> QED BY <1>1, <2>1, <2>2, <2>3
<1>3. ASSUME NEW s \in 0 .. NumSlots - 1, s + 1 \in S PROVE s \in S
  <2>1. s \in 0 .. NumSlots /\ s # NumSlots
    BY <1>1
  <2>2. Words[s] = [j \in Columns |-> NextWord(Words[s + 1][j], j, s)]
    BY <2>1, WordsRecursion DEF WordsAt
  <2>3. \A j \in Columns : NextWord(Words[s + 1][j], j, s) \in Word
    BY <1>3, NextWordType
  <2> QED BY <2>1, <2>2, <2>3
<1>4. S = 0 .. NumSlots
  <2>1. S \in SUBSET (0 .. NumSlots)
    OBVIOUS
  <2> HIDE DEF S
  <2> QED BY <1>2, <1>3, <2>1, Descent
<1> QED BY <1>4

-----------------------------------------------------------------------------
(* The inductive invariant of the seed loop                                *)

LEMMA InitStdInv == Init => StdInv
<1> SUFFICES ASSUME Init PROVE StdInv
  OBVIOUS
<1>1. {} \in Word /\ 0 \in 0 .. HashRange - 1
  BY HashRangeAssumption DEF Word
<1>2. [hi |-> 0, lo |-> {}] \in Hashes128
  BY <1>1 DEF Hashes128
<1>3. StdTypeOK
  <2>1. hash \in [Range(keys) -> Hashes128]
    BY <1>2 DEF Init
  <2>2. coeff_rows \in [Slots -> Word] /\ result_rows \in [Slots -> SUBSET ResultBits]
    BY <1>1 DEF Init, NoRows
  <2>3. tried \in 0 .. SeedCount
    BY SeedCountAssumption DEF Init
  <2> QED BY <1>1, <2>1, <2>2, <2>3 DEF Init, StdTypeOK
<1>4. StdRowsInBand
  BY DEF Init, StdRowsInBand, NoRows
<1> QED BY <1>3, <1>4 DEF StdInv, LoopsInv, Init

LEMMA ResetKeepsInv ==
  ASSUME StdInv, Reset
  PROVE  StdInv'
<1>1. {} \in Word
  BY DEF Word
<1>2. StdTypeOK'
  <2>1. coeff_rows' \in [Slots -> Word] /\ result_rows' \in [Slots -> SUBSET ResultBits]
    BY <1>1 DEF Reset, NoRows
  <2>2. tried' \in 0 .. SeedCount
    BY SeedCountAssumption DEF Reset, StdInv, StdTypeOK
  <2> QED BY <1>1, <2>1, <2>2 DEF StdInv, StdTypeOK, Reset, ClearAdd, callVars
<1>3. StdRowsInBand'
  BY DEF StdRowsInBand, Reset, NoRows
<1> QED BY <1>2, <1>3 DEF StdInv, LoopsInv, Reset, ClearAdd

LEMMA GiveUpKeepsInv ==
  ASSUME StdInv, GiveUp
  PROVE  StdInv'
BY DEF StdInv, StdTypeOK, StdRowsInBand, LoopsInv, GiveUp, callVars, seedVars,
       matrixVars, addVars

(* Whatever puts keys into `ordered` and starts with the first of them *)
LEMMA OrderedKeepsInv ==
  ASSUME StdInv, pc = "order", pc' = "next",
         ordered' \in Seq(Range(keys)),
         UNCHANGED <<callVars, seedVars, matrixVars, n, pos, cr, rr, data>>
  PROVE  StdInv'
<1>1. n \in 1 .. Len(ordered') + 1
  <2>1. n = 1 /\ Len(ordered') \in Nat
    BY DEF StdInv, StdTypeOK, LoopsInv
  <2> QED BY <2>1
<1>2. StdTypeOK'
  BY <1>1 DEF StdInv, StdTypeOK, callVars, seedVars, matrixVars
<1>3. StdRowsInBand' /\ LoopsInv'
  BY DEF StdInv, StdRowsInBand, LoopsInv, matrixVars
<1> QED BY <1>2, <1>3 DEF StdInv

LEMMA OrderKeepsInv ==
  ASSUME StdInv, Order
  PROVE  StdInv' /\ Range(ordered') = Range(keys)
<1>1. keys \in Inputs
  BY DEF StdInv, StdTypeOK
<1>2. ordered' \in Seq(Range(keys)) /\ Range(ordered') = Range(keys)
  BY <1>1, InputIsSeq, PleatedIsPermuted DEF Order
<1> QED BY <1>2, OrderedKeepsInv DEF Order

LEMMA AddKeepsInv ==
  ASSUME StdInv, Add
  PROVE  StdInv'
<1>0. StdTypeOK /\ StdRowsInBand /\ LoopsInv
  BY DEF StdInv
<1>1. CASE AddKey
  <2> DEFINE h == hash[ordered[n]]
  <2>1. n \in 1 .. Len(ordered) /\ ordered[n] \in Range(keys)
    BY <1>0, <1>1 DEF AddKey, StdTypeOK
  <2>2. h \in Hashes128
    BY <1>0, <2>1 DEF StdTypeOK
  <2>3. pos' = Start(h) /\ cr' = CoeffRow128(h) /\ rr' = ResultRow(h)
    BY <1>1 DEF AddKey
  <2> HIDE DEF h
  <2>4. pos' \in Nat /\ cr' \in Word /\ rr' \in SUBSET ResultBits /\ InBand(pos', cr')
    BY <2>2, <2>3, KeyRow
  <2>5. StdTypeOK'
    BY <1>0, <1>1, <2>4 DEF StdTypeOK, AddKey, callVars, seedVars, matrixVars
  <2>6. StdRowsInBand'
    BY <1>0, <1>1, <2>4 DEF StdRowsInBand, InBand, AddKey, matrixVars
  <2> QED BY <1>1, <2>1, <2>5, <2>6 DEF StdInv, LoopsInv, AddKey
<1>2. CASE PlaceRow
  <2>1. n \in 1 .. Len(ordered) /\ InBand(pos, cr)
    BY <1>0, <1>2 DEF PlaceRow, LoopsInv, StdRowsInBand
  <2>2. StdTypeOK'
    <3>1. n + 1 \in 1 .. Len(ordered) + 1
      BY <1>0, <2>1 DEF StdTypeOK
    <3>2. /\ [coeff_rows EXCEPT ![pos] = cr] \in [Slots -> Word]
          /\ [result_rows EXCEPT ![pos] = rr] \in [Slots -> SUBSET ResultBits]
      BY <1>0 DEF StdTypeOK
    <3> QED BY <1>0, <1>2, <3>1, <3>2 DEF StdTypeOK, PlaceRow, callVars, seedVars
  <2>3. StdRowsInBand'
    <3>1. ASSUME NEW s \in Slots
          PROVE  IF coeff_rows'[s] = {} THEN result_rows'[s] = {}
                                       ELSE InBand(s, coeff_rows'[s])
      <4>1. CASE s = pos
        <5>1. coeff_rows'[s] = cr /\ cr # {}
          BY <1>0, <1>2, <2>1, <4>1 DEF PlaceRow, StdTypeOK, InBand
        <5> QED BY <2>1, <4>1, <5>1
      <4>2. CASE s # pos
        BY <1>0, <1>2, <3>1, <4>2 DEF PlaceRow, StdTypeOK, StdRowsInBand
      <4> QED BY <4>1, <4>2
    <3> QED BY <1>2, <3>1 DEF StdRowsInBand, PlaceRow, InBand
  <2> QED BY <1>2, <2>2, <2>3 DEF StdInv, LoopsInv, PlaceRow
<1>3. CASE DropRow
  <2>1. n \in 1 .. Len(ordered)
    BY <1>0, <1>3 DEF DropRow, LoopsInv
  <2>2. StdTypeOK'
    BY <1>0, <1>3, <2>1 DEF StdTypeOK, DropRow, callVars, seedVars, matrixVars
  <2>3. StdRowsInBand'
    BY <1>0, <1>3 DEF StdRowsInBand, DropRow, matrixVars
  <2> QED BY <1>3, <2>2, <2>3 DEF StdInv, LoopsInv, DropRow
<1>4. CASE Reject
  <2>1. StdTypeOK'
    BY <1>0, <1>4 DEF StdTypeOK, Reject, callVars, seedVars, matrixVars, addVars
  <2>2. StdRowsInBand'
    BY <1>0, <1>4 DEF StdRowsInBand, Reject, matrixVars
  <2> QED BY <1>4, <2>1, <2>2 DEF StdInv, LoopsInv, Reject
<1>5. CASE ReduceRow
  <2> DEFINE c  == coeff_rows[pos]
             tz == TrailingZeros(SymDiff(cr, c))
             r  == ShiftRight(SymDiff(cr, c), tz)
  <2>1. /\ c # {} /\ SymDiff(cr, c) # {}
        /\ pos' = pos + tz /\ cr' = r
        /\ rr' = SymDiff(rr, result_rows[pos])
    BY <1>5 DEF ReduceRow, RowSum, ResultSum
  <2>2. /\ pos \in Slots /\ pos \in Nat /\ cr \in Word /\ c \in Word
        /\ InBand(pos, cr) /\ InBand(pos, c)
    <3>1. InBand(pos, cr) /\ pos \in Nat
      BY <1>0, <1>5 DEF ReduceRow, StdRowsInBand, StdTypeOK
    <3>2. pos \in Slots
      BY <3>1, TableSize DEF InBand, Slots
    <3> QED BY <1>0, <2>1, <3>1, <3>2 DEF StdRowsInBand, StdTypeOK
  <2>3. tz \in Nat /\ r \in Word /\ InBand(pos + tz, r)
    <3> HIDE DEF c
    <3> QED BY <2>1, <2>2, ReducedInBand
  <2> HIDE DEF tz, r
  <2>4. rr' \in SUBSET ResultBits /\ pos' \in Nat
    BY <1>0, <2>1, <2>2, <2>3 DEF StdTypeOK, SymDiff
  <2>5. StdTypeOK'
    BY <1>0, <1>5, <2>1, <2>3, <2>4
    DEF StdTypeOK, ReduceRow, callVars, seedVars, matrixVars
  <2>6. StdRowsInBand'
    <3>1. InBand(pos', cr')
      BY <2>1, <2>3
    <3> QED BY <1>0, <1>5, <3>1 DEF StdRowsInBand, InBand, ReduceRow, matrixVars
  <2> QED BY <1>0, <1>5, <2>5, <2>6 DEF StdInv, LoopsInv, ReduceRow
<1> QED BY <1>1, <1>2, <1>3, <1>4, <1>5 DEF Add

LEMMA IntoSolutionKeepsInv ==
  ASSUME StdInv, IntoSolution
  PROVE  StdInv'
<1>0. StdTypeOK /\ StdRowsInBand
  BY DEF StdInv
<1>1. ASSUME NEW g \in 0 .. NumBlocks * R - 1
      PROVE  Words[(g \div R) * W][g % R] \in Word
  <2> DEFINE block == g \div R
  <2>1. R \in Nat \ {0} /\ NumBlocks \in Nat /\ W \in Nat \ {0} /\ NumSlots \in Nat
    BY RAssumption, NumBlocksAssumption, TableSize
  <2>2. /\ block \in Nat /\ g % R \in 0 .. R - 1 /\ block * R \in Nat
        /\ g = block * R + (g % R)
    <3>1. g \in Nat
      BY <2>1
    <3> QED BY <2>1, <3>1, Division
  <2> HIDE DEF block
  <2>3. block < NumBlocks
    <3> SUFFICES ASSUME NumBlocks <= block PROVE FALSE
      BY <2>1, <2>2
    <3>1. NumBlocks * R <= block * R /\ NumBlocks * R \in Nat
      BY <2>1, <2>2, ProductGrows
    <3> QED BY <2>2, <3>1
  <2>4. block * W \in Nat /\ block * W + W <= NumSlots
    BY <2>1, <2>2, <2>3, BlockInTable
  <2>5. block * W \in 0 .. NumSlots
    BY <2>1, <2>4
  <2>6. Words[block * W] \in [Columns -> Word]
    BY <2>5, WordsType
  <2> QED BY <2>2, <2>6 DEF Columns, block
<1>2. StdTypeOK'
  BY <1>0, <1>1
  DEF StdTypeOK, IntoSolution, callVars, seedVars, matrixVars, addVars
<1>3. StdRowsInBand'
  BY <1>0 DEF StdRowsInBand, IntoSolution, matrixVars
<1> QED BY <1>2, <1>3 DEF StdInv, LoopsInv, IntoSolution

LEMMA NextStdInv == StdInv /\ [Next]_vars => StdInv'
<1> SUFFICES ASSUME StdInv, [Next]_vars PROVE StdInv'
  OBVIOUS
<1>1. CASE UNCHANGED vars
  BY <1>1 DEF vars, callVars, seedVars, matrixVars, addVars, StdInv, StdTypeOK,
              StdRowsInBand, LoopsInv
<1> QED
  BY <1>1, ResetKeepsInv, GiveUpKeepsInv, OrderKeepsInv, AddKeepsInv,
     IntoSolutionKeepsInv
  DEF Next, FindSeed

-----------------------------------------------------------------------------
(* Every state of the sequential builders is well typed.                   *)
THEOREM StdTypeCorrect == Spec => []StdTypeOK
<1>1. StdInv => StdTypeOK
  BY DEF StdInv
<1> QED BY <1>1, InitStdInv, NextStdInv, PTL DEF Spec

(* In every attempt, no row, stored or in hand, has a bit outside the      *)
(* table, so Banding128::add never indexes out of bounds; and no result    *)
(* row of an abandoned seed is left on a slot without a row.               *)
THEOREM StdRowsStayInBand == Spec => []StdRowsInBand
<1>1. StdInv => StdRowsInBand
  BY DEF StdInv
<1> QED BY <1>1, InitStdInv, NextStdInv, PTL DEF Spec

-----------------------------------------------------------------------------
(* Gaussian reduction preserves the equations, in every column             *)

(* The slots that a row selects, and their parity in a column *)
On(s, c) == {s + b : b \in c}

RowParity(s, c, X) == Parity(On(s, c) \cap X)

LEMMA SatisfiesRow ==
  ASSUME NEW X, NEW j, NEW s, NEW c, NEW r
  PROVE  Satisfies(X, j, RowEquation(s, c, r)) <=> RowParity(s, c, X) = Bit(j, r)
BY Zenon DEF Satisfies, RowEquation, On, RowParity

LEMMA ParityOfWords ==
  ASSUME NEW X, NEW s \in Nat, NEW x \in Word, NEW c \in Word
  PROVE  /\ RowParity(s, x, X) \in {0, 1}
         /\ RowParity(s, SymDiff(x, c), X)
              = (RowParity(s, x, X) + RowParity(s, c, X)) % 2
<1> DEFINE A == On(s, x)
           B == On(s, c)
<1>1. IsFiniteSet(A) /\ IsFiniteSet(B)
  BY FiniteWord, RowIsFinite DEF On
<1>2. x \in SUBSET Nat /\ c \in SUBSET Nat
  BY FiniteWord
<1>3. On(s, SymDiff(x, c)) = SymDiff(A, B)
  <2>1. \A a, b \in SUBSET Nat : On(s, SymDiff(a, b)) = SymDiff(On(s, a), On(s, b))
    BY RowOfSum, Zenon DEF On
  <2> QED BY <1>2, <2>1, Zenon
<1> HIDE DEF A, B
<1>4. SymDiff(A, B) \cap X = SymDiff(A \cap X, B \cap X)
  BY DEF SymDiff
<1>5. IsFiniteSet(A \cap X) /\ IsFiniteSet(B \cap X)
  BY <1>1, FS_Intersection
<1>6. Parity(SymDiff(A \cap X, B \cap X)) = (Parity(A \cap X) + Parity(B \cap X)) % 2
  BY <1>5, ParityOfSymDiff
<1>7. Parity(A \cap X) \in {0, 1}
  BY <1>5, ParityType
<1> QED BY <1>3, <1>4, <1>6, <1>7 DEF A, B, RowParity

LEMMA BitOfSum ==
  ASSUME NEW j, NEW r, NEW q
  PROVE  Bit(j, SymDiff(r, q)) = (Bit(j, r) + Bit(j, q)) % 2
<1>1. j \in SymDiff(r, q) <=> ~ (j \in r <=> j \in q)
  BY DEF SymDiff
<1> QED BY <1>1 DEF Bit

(* Adding a stored row c with result row q to the row x in hand, and       *)
(* shifting the sum to its new low bit, leaves a row that is satisfied by  *)
(* the same solutions of the stored row.                                   *)
LEMMA ReductionStep ==
  ASSUME NEW X, NEW j, NEW s \in Nat, NEW x \in Word, NEW c \in Word, NEW r, NEW q,
         SymDiff(x, c) # {},
         NEW tz, tz = TrailingZeros(SymDiff(x, c)),
         NEW z, z = ShiftRight(SymDiff(x, c), tz),
         Satisfies(X, j, RowEquation(s, c, q))
  PROVE  Satisfies(X, j, RowEquation(s + tz, z, SymDiff(r, q)))
           <=> Satisfies(X, j, RowEquation(s, x, r))
<1> DEFINE y == SymDiff(x, c)
<1>1. y \in SUBSET (0 .. W - 1) /\ y # {} /\ W \in Nat
  BY WAssumption DEF Word, SymDiff
<1>2. z = ShiftRight(y, tz) /\ tz = TrailingZeros(y)
  OBVIOUS
<1> HIDE DEF y
<1>3. tz \in Nat /\ \A b \in y : tz <= b
  <2>1. TrailingZeros(y) \in y /\ \A b \in y : TrailingZeros(y) <= b
    BY <1>1, ShiftToLowBit
  <2>2. tz \in y /\ \A b \in y : tz <= b
    BY <1>2, <2>1, Zenon
  <2> QED BY <1>1, <2>2
<1>4. On(s + tz, z) = On(s, y)
  <2>1. y \in SUBSET Nat
    BY <1>1
  <2> QED BY <1>2, <1>3, <2>1, RowOfShift DEF On
<1> DEFINE px == RowParity(s, x, X)
           pt == RowParity(s, c, X)
           py == RowParity(s, y, X)
<1>5. px \in {0, 1} /\ pt \in {0, 1} /\ py = (px + pt) % 2
  BY ParityOfWords DEF y
<1>6. pt = Bit(j, q)
  BY SatisfiesRow
<1>7. Satisfies(X, j, RowEquation(s, x, r)) <=> px = Bit(j, r)
  BY SatisfiesRow
<1>8. Satisfies(X, j, RowEquation(s + tz, z, SymDiff(r, q))) <=> py = Bit(j, SymDiff(r, q))
  BY <1>4, SatisfiesRow DEF RowParity
<1> HIDE DEF px, pt, py
<1>9. py = Bit(j, SymDiff(r, q)) <=> px = Bit(j, r)
  <2>1. Bit(j, SymDiff(r, q)) = (Bit(j, r) + Bit(j, q)) % 2
    BY BitOfSum
  <2>2. Bit(j, r) \in {0, 1} /\ Bit(j, q) \in {0, 1}
    BY BitType
  <2> QED BY <1>5, <1>6, <2>1, <2>2
<1> QED BY <1>7, <1>8, <1>9

LEMMA SolvesUnion ==
  ASSUME NEW X, NEW j, NEW E, NEW e
  PROVE  Solves(X, j, E \cup {e}) <=> Solves(X, j, E) /\ Satisfies(X, j, e)
BY DEF Solves

(* The key being reduced, what is left of its row, and that the two say    *)
(* the same, given the rows stored                                         *)
KeyInHand == Equation(hash[ordered[n]])
RowInHand == RowEquation(pos, cr, rr)

HandSaysKey(X, j) ==
  pc = "reduce" /\ Solves(X, j, StoredEquations) =>
    (Satisfies(X, j, RowInHand) <=> Satisfies(X, j, KeyInHand))

(* A turn of Banding128::add: as long as it is busy with a key it leaves   *)
(* the matrix as it is, and once it is done with it, the rows stored are   *)
(* solved by the solutions of the rows before that solve the key's row.    *)
LEMMA AddStep ==
  ASSUME StdInv, Add, NEW X, NEW j, HandSaysKey(X, j)
  PROVE  /\ HandSaysKey(X, j)'
         /\ UNCHANGED <<keys, hash, ordered>>
         /\ \/ UNCHANGED <<coeff_rows, result_rows, n>>
            \/ /\ n \in 1 .. Len(ordered) /\ n' = n + 1 /\ pc' = "next"
               /\ Solves(X, j, StoredEquations')
                    <=> Solves(X, j, StoredEquations) /\ Satisfies(X, j, KeyInHand)
<1>0. StdTypeOK /\ StdRowsInBand /\ LoopsInv
  BY DEF StdInv
<1>1. CASE AddKey
  <2>1. /\ UNCHANGED <<keys, hash, ordered, coeff_rows, result_rows, n>>
        /\ RowInHand' = KeyInHand'
    BY <1>1 DEF AddKey, callVars, seedVars, matrixVars, RowInHand, KeyInHand, Equation,
                RowEquation
  <2> QED BY <2>1 DEF HandSaysKey
<1>2. CASE PlaceRow
  <2>1. /\ pc = "reduce" /\ pc' = "next" /\ n' = n + 1
        /\ coeff_rows' = [coeff_rows EXCEPT ![pos] = cr]
        /\ result_rows' = [result_rows EXCEPT ![pos] = rr]
        /\ coeff_rows[pos] = {}
        /\ UNCHANGED <<keys, hash, ordered>>
    BY <1>2 DEF PlaceRow, callVars, seedVars
  <2>2. pos \in Slots /\ n \in 1 .. Len(ordered) /\ cr # {}
    BY <1>0, <2>1, TableSize DEF LoopsInv, StdRowsInBand, InBand, StdTypeOK, Slots
  <2>3. StoredEquations' = StoredEquations \cup {RowInHand}
    <3>1. coeff_rows'[pos] = cr /\ result_rows'[pos] = rr
      BY <1>0, <2>1, <2>2 DEF StdTypeOK
    <3>2. Occupied' = Occupied \cup {pos} /\ pos \notin Occupied
      BY <1>0, <2>1, <2>2 DEF Occupied, StdTypeOK
    <3>3. \A s \in Occupied : coeff_rows'[s] = coeff_rows[s] /\ result_rows'[s] = result_rows[s]
      BY <1>0, <2>1, <3>2 DEF Occupied, StdTypeOK
    <3> QED BY <3>1, <3>2, <3>3 DEF StoredEquations, RowInHand
  <2>4. Solves(X, j, StoredEquations') <=> Solves(X, j, StoredEquations) /\ Satisfies(X, j, RowInHand)
    BY <2>3, SolvesUnion
  <2> QED BY <2>1, <2>2, <2>4 DEF HandSaysKey
<1>3. CASE DropRow
  <2>1. /\ pc = "reduce" /\ pc' = "next" /\ n' = n + 1
        /\ coeff_rows[pos] # {} /\ RowSum = {} /\ ResultSum = {}
        /\ UNCHANGED <<keys, hash, ordered, coeff_rows, result_rows>>
    BY <1>3 DEF DropRow, callVars, seedVars, matrixVars
  <2>2. pos \in Slots /\ n \in 1 .. Len(ordered)
    BY <1>0, <2>1, TableSize DEF LoopsInv, StdRowsInBand, InBand, StdTypeOK, Slots
  <2>3. cr = coeff_rows[pos] /\ rr = result_rows[pos]
    BY <2>1 DEF RowSum, ResultSum, SymDiff
  <2>4. RowInHand \in StoredEquations
    BY <2>1, <2>2, <2>3 DEF StoredEquations, Occupied, RowInHand
  <2>5. StoredEquations' = StoredEquations
    BY <2>1 DEF StoredEquations, Occupied
  <2>6. Solves(X, j, StoredEquations) => Satisfies(X, j, KeyInHand)
    BY <2>1, <2>4 DEF HandSaysKey, Solves
  <2> QED BY <2>1, <2>2, <2>5, <2>6 DEF HandSaysKey
<1>4. CASE Reject
  BY <1>4 DEF Reject, callVars, seedVars, matrixVars, addVars, HandSaysKey
<1>5. CASE ReduceRow
  <2> DEFINE c  == coeff_rows[pos]
             q  == result_rows[pos]
             tz == TrailingZeros(SymDiff(cr, c))
             z  == ShiftRight(SymDiff(cr, c), tz)
  <2>1. /\ pc = "reduce" /\ pc' = "reduce"
        /\ c # {} /\ SymDiff(cr, c) # {}
        /\ pos' = pos + tz /\ cr' = z /\ rr' = SymDiff(rr, q)
        /\ UNCHANGED <<keys, hash, ordered, coeff_rows, result_rows, n>>
    BY <1>5 DEF ReduceRow, RowSum, ResultSum, callVars, seedVars, matrixVars
  <2>2. /\ pos \in Slots /\ pos \in Nat /\ cr \in Word /\ c \in Word
    <3>1. InBand(pos, cr) /\ pos \in Nat
      BY <1>0, <2>1 DEF StdRowsInBand, StdTypeOK
    <3>2. pos \in Slots
      BY <3>1, TableSize DEF InBand, Slots
    <3> QED BY <1>0, <3>1, <3>2 DEF StdTypeOK
  <2>3. StoredEquations' = StoredEquations /\ KeyInHand' = KeyInHand
    BY <2>1 DEF StoredEquations, Occupied, KeyInHand
  <2>4. ASSUME Solves(X, j, StoredEquations)
        PROVE  Satisfies(X, j, RowInHand') <=> Satisfies(X, j, RowInHand)
    <3>1. Satisfies(X, j, RowEquation(pos, c, q))
      BY <2>1, <2>2, <2>4 DEF Solves, StoredEquations, Occupied
    <3> HIDE DEF c, q
    <3>2. Satisfies(X, j, RowEquation(pos + tz, z, SymDiff(rr, q)))
            <=> Satisfies(X, j, RowEquation(pos, cr, rr))
      BY <2>1, <2>2, <3>1, ReductionStep
    <3>3. RowInHand' = RowEquation(pos + tz, z, SymDiff(rr, q))
      BY <2>1 DEF RowInHand, RowEquation
    <3> QED BY <3>2, <3>3 DEF RowInHand
  <2> QED BY <2>1, <2>3, <2>4 DEF HandSaysKey
<1> QED BY <1>1, <1>2, <1>3, <1>4, <1>5 DEF Add

(* StdEquationsPreserved for one candidate solution X of column j          *)
PreservedFor(X, j) ==
  /\ HandSaysKey(X, j)
  /\ pc \in {"next", "reduce"} =>
       (Solves(X, j, StoredEquations) <=> Solves(X, j, AddedEquations))

(* Every attempt starts from an empty matrix. *)
CleanInv == pc = "order" => coeff_rows = NoRows

LEMMA AddedByStep ==
  ASSUME n \in Nat \ {0}, UNCHANGED <<hash, ordered>>, n' = n \/ n' = n + 1
  PROVE  /\ n' = n => Added' = Added /\ AddedEquations' = AddedEquations
         /\ n' = n + 1 => /\ Added' = Added \cup {ordered[n]}
                          /\ AddedEquations' = AddedEquations \cup {KeyInHand}
<1>1. n' = n => Added' = Added /\ AddedEquations' = AddedEquations
  BY DEF Added, AddedEquations
<1>2. ASSUME n' = n + 1 PROVE Added' = Added \cup {ordered[n]}
  BY <1>2 DEF Added
<1>3. n' = n + 1 => AddedEquations' = AddedEquations \cup {KeyInHand}
  BY <1>2 DEF AddedEquations, KeyInHand
<1> QED BY <1>1, <1>2, <1>3

LEMMA AddPreserves ==
  ASSUME StdInv, Add, NEW X, NEW j, PreservedFor(X, j)
  PROVE  PreservedFor(X, j)'
<1>1. /\ HandSaysKey(X, j)'
      /\ UNCHANGED <<keys, hash, ordered>>
      /\ \/ UNCHANGED <<coeff_rows, result_rows, n>>
         \/ /\ n \in 1 .. Len(ordered) /\ n' = n + 1 /\ pc' = "next"
            /\ Solves(X, j, StoredEquations')
                 <=> Solves(X, j, StoredEquations) /\ Satisfies(X, j, KeyInHand)
  BY AddStep DEF PreservedFor
<1>2. n \in Nat \ {0} /\ pc \in {"next", "reduce"}
  BY DEF StdInv, StdTypeOK, Add, AddKey, PlaceRow, DropRow, Reject, ReduceRow
<1>3. Solves(X, j, StoredEquations) <=> Solves(X, j, AddedEquations)
  BY <1>2 DEF PreservedFor
<1>4. CASE UNCHANGED <<coeff_rows, result_rows, n>>
  <2>1. StoredEquations' = StoredEquations
    BY <1>4 DEF StoredEquations, Occupied
  <2>2. AddedEquations' = AddedEquations
    BY <1>1, <1>2, <1>4, AddedByStep
  <2> QED BY <1>1, <1>3, <2>1, <2>2 DEF PreservedFor
<1>5. CASE n' = n + 1 /\ (Solves(X, j, StoredEquations')
                            <=> Solves(X, j, StoredEquations) /\ Satisfies(X, j, KeyInHand))
  <2>1. AddedEquations' = AddedEquations \cup {KeyInHand}
    BY <1>1, <1>2, <1>5, AddedByStep
  <2>2. Solves(X, j, AddedEquations') <=> Solves(X, j, AddedEquations) /\ Satisfies(X, j, KeyInHand)
    BY <2>1, SolvesUnion
  <2> QED BY <1>1, <1>3, <1>5, <2>2 DEF PreservedFor
<1> QED BY <1>1, <1>4, <1>5

LEMMA NextPreserves ==
  ASSUME StdInv, [Next]_vars, CleanInv, NEW X, NEW j, PreservedFor(X, j)
  PROVE  CleanInv' /\ PreservedFor(X, j)'
<1>1. CASE Add
  <2>1. pc' # "order"
    BY <1>1 DEF Add, AddKey, PlaceRow, DropRow, Reject, ReduceRow
  <2> QED BY <1>1, <2>1, AddPreserves DEF CleanInv
<1>2. CASE Order
  <2>1. /\ pc = "order" /\ pc' = "next" /\ coeff_rows' = coeff_rows /\ n' = n /\ n = 1
    BY <1>2 DEF Order, matrixVars, StdInv, StdTypeOK, LoopsInv
  <2>2. StoredEquations' = {}
    BY <2>1 DEF CleanInv, NoRows, StoredEquations, Occupied
  <2>3. AddedEquations' = {}
    BY <2>1 DEF AddedEquations, Added
  <2> QED BY <2>1, <2>2, <2>3 DEF PreservedFor, HandSaysKey, CleanInv, Solves
<1>3. CASE Reset \/ GiveUp \/ IntoSolution
  BY <1>3 DEF Reset, GiveUp, IntoSolution, CleanInv, PreservedFor, HandSaysKey
<1>4. CASE UNCHANGED vars
  <2>1. UNCHANGED <<hash, pc, ordered, n, coeff_rows, result_rows, pos, cr, rr>>
    BY <1>4 DEF vars, seedVars, matrixVars, addVars
  <2>2. /\ StoredEquations' = StoredEquations /\ AddedEquations' = AddedEquations
        /\ RowInHand' = RowInHand /\ KeyInHand' = KeyInHand
    BY <2>1 DEF StoredEquations, Occupied, AddedEquations, Added, RowInHand, KeyInHand
  <2> QED BY <2>1, <2>2 DEF PreservedFor, HandSaysKey, CleanInv
<1> QED BY <1>1, <1>2, <1>3, <1>4 DEF Next, FindSeed

(* In the bounds that StdEquationsPreserved gives them, candidate columns  *)
(* are sets of slots.                                                      *)
LEMMA OnlySlotsMatter ==
  ASSUME StdInv, pc \in {"next", "reduce"}
  PROVE  LET inHand == IF pc = "reduce" THEN {RowInHand, KeyInHand} ELSE {}
         IN  Unknowns(StoredEquations \cup AddedEquations \cup inHand) \in SUBSET Nat
<1> DEFINE inHand == IF pc = "reduce" THEN {RowInHand, KeyInHand} ELSE {}
<1>0. StdTypeOK /\ LoopsInv
  BY DEF StdInv
<1>1. ASSUME NEW s \in Nat, NEW c \in Word, NEW r
      PROVE  RowEquation(s, c, r).on \in SUBSET Nat
  <2>1. RowEquation(s, c, r).on = {s + b : b \in c}
    BY DEF RowEquation
  <2>2. \A b \in c : s + b \in Nat
    BY DEF Word
  <2> QED BY <2>1, <2>2
<1>2. ASSUME NEW k \in Range(keys) PROVE Equation(hash[k]).on \in SUBSET Nat
  <2>1. hash[k] \in Hashes128
    BY <1>0 DEF StdTypeOK
  <2> QED BY <1>1, <2>1, KeyRow DEF Equation
<1>3. \A e \in StoredEquations : e.on \in SUBSET Nat
  BY <1>0, <1>1 DEF StoredEquations, Occupied, Slots, StdTypeOK
<1>4. \A e \in AddedEquations : e.on \in SUBSET Nat
  <2>1. \A m \in 1 .. n - 1 : ordered[m] \in Range(keys)
    BY <1>0 DEF StdTypeOK
  <2> QED BY <1>2, <2>1 DEF AddedEquations, Added
<1>5. \A e \in inHand : e.on \in SUBSET Nat
  <2>1. CASE pc = "reduce"
    <3>1. ordered[n] \in Range(keys)
      BY <1>0, <2>1 DEF StdTypeOK, LoopsInv
    <3>2. RowInHand.on \in SUBSET Nat
      BY <1>0, <1>1 DEF StdTypeOK, RowInHand
    <3> QED BY <1>2, <3>1, <3>2 DEF KeyInHand
  <2> QED BY <2>1
<1> HIDE DEF inHand
<1>6. \A e \in StoredEquations \cup AddedEquations \cup inHand : e.on \in SUBSET Nat
  BY <1>3, <1>4, <1>5
<1> QED BY <1>6 DEF Unknowns, inHand

(* In every attempt and every column, the matrix has the solutions of the  *)
(* equations of the keys added since the reset, and a row in hand never    *)
(* loses what its key said: the loop of Banding128::add neither loses nor  *)
(* invents an equation, and the reset leaves none behind.                  *)
THEOREM StdReductionPreservesEquations == Spec => []StdEquationsPreserved
<1> DEFINE I == CleanInv /\ \A X \in SUBSET Nat : \A j \in ResultBits : PreservedFor(X, j)
<1>1. Init => I
  BY DEF Init, CleanInv, PreservedFor, HandSaysKey
<1>2. StdInv /\ I /\ [Next]_vars => I'
  <2> SUFFICES ASSUME StdInv, I, [Next]_vars PROVE I'
    OBVIOUS
  <2>1. CleanInv'
    <3>1. {} \in SUBSET Nat /\ 0 \in ResultBits
      BY ResultWidthAssumption DEF ResultBits
    <3> QED BY <3>1, NextPreserves
  <2>2. \A X \in SUBSET Nat : \A j \in ResultBits : PreservedFor(X, j)'
    BY NextPreserves
  <2> QED BY <2>1, <2>2 DEF ResultBits
<1>3. StdInv /\ I => StdEquationsPreserved
  <2> SUFFICES ASSUME StdInv, I, pc \in {"next", "reduce"}
               PROVE  StdEquationsPreserved
    BY DEF StdEquationsPreserved
  <2> DEFINE inHand == IF pc = "reduce" THEN {RowInHand, KeyInHand} ELSE {}
             U == Unknowns(StoredEquations \cup AddedEquations \cup inHand)
  <2>1. U \in SUBSET Nat
    BY OnlySlotsMatter
  <2>2. \A X \in SUBSET U : \A j \in ResultBits :
          /\ HandSaysKey(X, j)
          /\ Solves(X, j, StoredEquations) <=> Solves(X, j, AddedEquations)
    <3> HIDE DEF U
    <3> QED BY <2>1 DEF PreservedFor
  <2> QED BY <2>2 DEF StdEquationsPreserved, HandSaysKey, RowInHand, KeyInHand
<1> HIDE DEF I
<1> QED BY <1>1, <1>2, <1>3, InitStdInv, NextStdInv, PTL DEF Spec

-----------------------------------------------------------------------------
(* The solution                                                            *)

(* The words of column j are windows on one set of slots: those whose word *)
(* has bit 0.                                                              *)
Solution(j) == {s \in Slots : 0 \in Words[s][j]}

LEMMA SlotWord ==
  ASSUME StdTypeOK, NEW j \in Columns, NEW s \in Slots
  PROVE  LET tmp == ShiftLeft(Words[s + 1][j], 1, W)
         IN  /\ tmp \in SUBSET (0 .. W - 1) /\ 0 \notin tmp
             /\ \A b \in 1 .. W - 1 : b \in tmp <=> b - 1 \in Words[s + 1][j]
             /\ Words[s][j] = IF (Parity(tmp \cap coeff_rows[s]) = 1) # (j \in result_rows[s])
                              THEN tmp \cup {0} ELSE tmp
<1> DEFINE above == Words[s + 1][j]
<1>1. NumSlots \in Nat /\ W \in Nat \ {0}
  BY TableSize
<1>2. s \in 0 .. NumSlots /\ s # NumSlots /\ s + 1 \in 0 .. NumSlots
  BY <1>1 DEF Slots
<1>3. Words[s + 1] \in [Columns -> Word]
  BY <1>2, WordsType
<1>4. above \in SUBSET (0 .. W - 1)
  BY <1>3 DEF Word
<1>5. Words[s] = [i \in Columns |-> NextWord(Words[s + 1][i], i, s)]
  BY <1>2, WordsRecursion DEF WordsAt
<1>6. Words[s][j] = NextWord(above, j, s)
  BY <1>5
<1> HIDE DEF above
<1>7. /\ ShiftLeft(above, 1, W) \in SUBSET (0 .. W - 1)
      /\ 0 \notin ShiftLeft(above, 1, W)
      /\ \A b \in 1 .. W - 1 : b \in ShiftLeft(above, 1, W) <=> b - 1 \in above
  BY <1>1, <1>4 DEF ShiftLeft
<1> QED BY <1>6, <1>7, Zenon DEF NextWord, above

LEMMA WordsAreWindows ==
  ASSUME StdTypeOK, NEW j \in Columns, NEW s \in 0 .. NumSlots
  PROVE  \A b \in 0 .. W - 1 : b \in Words[s][j] <=> s + b \in Solution(j)
<1> DEFINE Window(t) == \A b \in 0 .. W - 1 : b \in Words[t][j] <=> t + b \in Solution(j)
           S == {t \in 0 .. NumSlots : Window(t)}
<1>1. NumSlots \in Nat /\ W \in Nat \ {0}
  BY TableSize
<1>2. NumSlots \in S
  <2>1. NumSlots \in 0 .. NumSlots
    BY <1>1
  <2>2. Words[NumSlots] = WordsAt(Words, NumSlots)
    BY <2>1, WordsRecursion
  <2>3. Words[NumSlots] = [i \in Columns |-> {}]
    BY <2>2, Zenon DEF WordsAt
  <2>4. Words[NumSlots][j] = {}
    BY <2>3
  <2>5. \A b \in 0 .. W - 1 : NumSlots + b \notin Solution(j)
    BY <1>1 DEF Solution, Slots
  <2> QED BY <2>1, <2>4, <2>5
<1>3. ASSUME NEW t \in 0 .. NumSlots - 1, t + 1 \in S PROVE t \in S
  <2> DEFINE tmp == ShiftLeft(Words[t + 1][j], 1, W)
  <2>1. t \in Slots /\ t \in Nat /\ t \in 0 .. NumSlots
    BY <1>1 DEF Slots
  <2>2. /\ \A b \in 1 .. W - 1 : b \in tmp <=> b - 1 \in Words[t + 1][j]
        /\ Words[t][j] = tmp \cup {0} \/ Words[t][j] = tmp
    BY <2>1, SlotWord
  <2>3. \A b \in 0 .. W - 1 : b \in Words[t + 1][j] <=> t + 1 + b \in Solution(j)
    BY <1>3
  <2> HIDE DEF tmp
  <2>4. ASSUME NEW b \in 0 .. W - 1
        PROVE  b \in Words[t][j] <=> t + b \in Solution(j)
    <3>1. CASE b = 0
      <4>1. t + b = t
        BY <2>1, <3>1
      <4> QED BY <2>1, <3>1, <4>1 DEF Solution
    <3>2. CASE b # 0
      <4>1. b \in 1 .. W - 1 /\ b - 1 \in 0 .. W - 1 /\ t + 1 + (b - 1) = t + b
        BY <1>1, <2>1, <3>2
      <4>2. b \in Words[t][j] <=> b \in tmp
        BY <2>2, <3>2
      <4> QED BY <2>2, <2>3, <4>1, <4>2
    <3> QED BY <3>1, <3>2
  <2> QED BY <2>1, <2>4
<1>4. S = 0 .. NumSlots
  <2>1. S \in SUBSET (0 .. NumSlots)
    OBVIOUS
  <2> HIDE DEF S
  <2> QED BY <1>2, <1>3, <2>1, Descent
<1> QED BY <1>4

(* What the row of slot s asks of column j, X                              *)
RowHolds(s, j, X) ==
  IF coeff_rows[s] = {} THEN s \notin X
                        ELSE RowParity(s, coeff_rows[s], X) = Bit(j, result_rows[s])

LEMMA SolutionHolds ==
  ASSUME StdTypeOK, StdRowsInBand, NEW j \in Columns, NEW s \in Slots
  PROVE  RowHolds(s, j, Solution(j))
<1> DEFINE X    == Solution(j)
           c    == coeff_rows[s]
           tmp  == ShiftLeft(Words[s + 1][j], 1, W)
           word == Words[s][j]
           odd  == Parity(tmp \cap c) = 1
           bit  == j \in result_rows[s]
<1>1. /\ tmp \in SUBSET (0 .. W - 1) /\ 0 \notin tmp
      /\ word = IF odd # bit THEN tmp \cup {0} ELSE tmp
  BY SlotWord
<1>2. s \in Nat /\ s \in 0 .. NumSlots /\ W \in Nat \ {0}
  BY TableSize DEF Slots
<1>3. c \in Word /\ c \in SUBSET (0 .. W - 1)
  BY DEF StdTypeOK, Word
<1>4. \A b \in 0 .. W - 1 : b \in word <=> s + b \in X
  BY <1>2, WordsAreWindows
<1>5. s \in X <=> 0 \in word
  BY DEF Solution
<1> HIDE DEF X, word, tmp
<1>6. CASE c = {}
  <2>1. ~bit
    BY <1>6 DEF StdRowsInBand
  <2>2. tmp \cap c = {}
    BY <1>6
  <2>3. ~odd
    BY <2>2, ParityOfNone
  <2>4. word = tmp
    BY <1>1, <2>1, <2>3
  <2> QED BY <1>1, <1>5, <1>6, <2>4 DEF RowHolds, X
<1>7. CASE c # {}
  <2> DEFINE T == tmp \cap c
  <2>1. 0 \in c
    BY <1>7 DEF StdRowsInBand, InBand
  <2>2. IsFiniteSet(c) /\ c \in SUBSET Nat
    BY <1>3, FiniteWord
  <2>3. IsFiniteSet(T) /\ Parity(T) \in {0, 1}
    <3>1. IsFiniteSet(T)
      BY <2>2, FS_Subset
    <3> QED BY <3>1, ParityType
  <2>4. word \cap c = IF odd <=> bit THEN T ELSE T \cup {0}
    BY <1>1, <2>1
  <2>5. 0 \notin T
    BY <1>1
  <2> HIDE DEF T
  <2>6. Parity(T \cup {0}) = 1 - Parity(T)
    BY <2>3, <2>5, ParityOfAdded
  <2>7. odd <=> Parity(T) = 1
    BY DEF T
  <2> HIDE DEF odd, c, bit
  <2>8. Parity(word \cap c) = IF bit THEN 1 ELSE 0
    <3>1. CASE ~(odd <=> bit)
      BY <2>3, <2>4, <2>6, <2>7, <3>1
    <3>2. CASE odd <=> bit
      BY <2>3, <2>4, <2>7, <3>2
    <3> QED BY <3>1, <3>2
  <2>9. Selecting(s, c, X) = word \cap c
    BY <1>3, <1>4 DEF Selecting
  <2>10. Parity(Selected(s, c, X)) = Parity(Selecting(s, c, X))
    BY <1>2, <2>2, ParityOfRow
  <2>11. RowParity(s, c, X) = Parity(Selected(s, c, X))
    BY Zenon DEF RowParity, Selected, On
  <2> QED BY <1>7, <2>8, <2>9, <2>10, <2>11 DEF RowHolds, Bit, bit, c, X
<1> QED BY <1>6, <1>7

(* The segments of a built filter hold these columns.                      *)
BuiltInv ==
  pc = "built" => data = [g \in 0 .. NumBlocks * R - 1 |-> Words[(g \div R) * W][g % R]]

LEMMA SegmentBits ==
  ASSUME StdTypeOK, BuiltInv, pc = "built", NEW j \in Columns,
         NEW g \in 0 .. NumBlocks - 1
  PROVE  /\ g * R + j \in 0 .. NumBlocks * R - 1
         /\ data[g * R + j] \in SUBSET (0 .. W - 1)
         /\ \A b \in 0 .. W - 1 : b \in data[g * R + j] <=> g * W + b \in Solution(j)
<1> DEFINE d == g * R + j
<1>1. R \in Nat \ {0} /\ NumBlocks \in Nat /\ g \in Nat /\ j \in 0 .. R - 1 /\ g + 1 <= NumBlocks
  BY RAssumption, NumBlocksAssumption DEF Columns
<1>2. d \in Nat /\ d \div R = g /\ d % R = j
  BY <1>1, DivisionIsUnique
<1>3. d \in 0 .. NumBlocks * R - 1
  <2>1. (g + 1) * R <= NumBlocks * R /\ NumBlocks * R \in Nat /\ g * R \in Nat
    BY <1>1, ProductGrows
  <2>2. (g + 1) * R = g * R + R
    BY <1>1
  <2> QED BY <1>1, <2>1, <2>2
<1>4. g * W \in Nat /\ g * W \in 0 .. NumSlots
  <2>1. g * W \in Nat /\ g * W + W <= NumSlots /\ W \in Nat /\ NumSlots \in Nat
    BY BlockInTable, TableSize
  <2> QED BY <2>1
<1>5. data[d] = Words[g * W][j]
  <2> HIDE DEF d
  <2> QED BY <1>2, <1>3 DEF BuiltInv
<1>6. Words[g * W] \in [Columns -> Word]
  BY <1>4, WordsType
<1>7. \A b \in 0 .. W - 1 : b \in Words[g * W][j] <=> g * W + b \in Solution(j)
  BY <1>4, WordsAreWindows
<1> QED BY <1>3, <1>5, <1>6, <1>7 DEF Word

LEMMA BuiltColumn ==
  ASSUME StdTypeOK, BuiltInv, pc = "built", NEW j \in Columns
  PROVE  Column(j) = Solution(j)
<1>1. ASSUME NEW s \in Slots
      PROVE  s % W \in data[(s \div W) * R + j] <=> s \in Solution(j)
  <2> DEFINE g == s \div W
             b == s % W
  <2>1. s \in Nat /\ W \in Nat \ {0}
    BY TableSize DEF Slots
  <2>2. b \in 0 .. W - 1 /\ s = g * W + b
    BY <2>1, Division
  <2>3. g \in 0 .. NumBlocks - 1
    BY BlockOfSlot
  <2> HIDE DEF g, b
  <2>4. b \in data[g * R + j] <=> s \in Solution(j)
    BY <2>2, <2>3, SegmentBits
  <2> QED BY <2>4 DEF g, b
<1> QED BY <1>1 DEF Column, Solution

(* A query finds a key if and only if every column satisfies its equation, *)
(* across the boundary of blocks as well as within one.                    *)
LEMMA ContainsMeansSatisfied ==
  ASSUME StdTypeOK, BuiltInv, pc = "built", NEW h \in Hashes128
  PROVE  Contains(h) <=> \A j \in Columns : Satisfies(Solution(j), j, Equation(h))
<1> DEFINE s     == Start(h)
           c     == CoeffRow128(h)
           block == s \div W
           bit   == s % W
           maybe == IF bit # 0 THEN R ELSE 0
           seg   == block * R
           soln(j) == Queried(data[seg + j], data[seg + maybe + j], c, bit, W)
<1>1. Contains(h) <=> \A j \in Columns : Parity(soln(j)) = Bit(j, ResultRow(h))
  BY DEF Contains, Queried
<1>2. h.hi \in 0 .. HashRange - 1 /\ c \in SUBSET (0 .. W - 1)
  BY KeyRow DEF Hashes128, Word
<1>3. W \in Nat \ {0} /\ R \in Nat \ {0} /\ NumBlocks \in Nat
  BY TableSize, RAssumption, NumBlocksAssumption
<1>4. /\ s \in Nat
      /\ block \in 0 .. NumBlocks - 1
      /\ bit \in 0 .. W - 1
      /\ s = block * W + bit
      /\ bit # 0 => block + 1 <= NumBlocks - 1
  BY <1>2, BlocksOfQuery
<1> HIDE DEF s, c, block, bit
<1>5. ASSUME NEW j \in Columns
      PROVE  Parity(soln(j)) = Bit(j, ResultRow(h))
               <=> Satisfies(Solution(j), j, Equation(h))
  <2> DEFINE X  == Solution(j)
             lo == data[seg + j]
             hi == data[seg + maybe + j]
  <2>0. \A g \in 0 .. NumBlocks - 1 :
          /\ data[g * R + j] \in SUBSET (0 .. W - 1)
          /\ \A b \in 0 .. W - 1 : b \in data[g * R + j] <=> g * W + b \in X
    BY SegmentBits
  <2> HIDE DEF X
  <2>1. /\ lo \in SUBSET (0 .. W - 1)
        /\ \A b \in 0 .. W - 1 : b \in lo <=> block * W + b \in X
    BY <1>4, <2>0
  <2>2. ASSUME bit # 0
        PROVE  /\ hi \in SUBSET (0 .. W - 1)
               /\ \A b \in 0 .. W - 1 : b \in hi <=> block * W + W + b \in X
    <3> DEFINE nxt == block + 1
    <3>1. nxt \in 0 .. NumBlocks - 1 /\ nxt * W = block * W + W
      BY <1>3, <1>4, <2>2
    <3>2. hi = data[nxt * R + j]
      <4>1. block * R \in Nat /\ nxt * R = block * R + R
        BY <1>3, <1>4
      <4>2. seg + maybe + j = nxt * R + j
        BY <2>2, <4>1
      <4> QED BY <4>2
    <3> HIDE DEF nxt, hi
    <3> QED BY <2>0, <3>1, <3>2
  <2>3. bit = 0 => hi = lo
    <3>1. seg \in Nat /\ j \in Int
      BY <1>3, <1>4 DEF Columns
    <3>2. bit = 0 => seg + maybe + j = seg + j
      BY <3>1
    <3> QED BY <3>2
  <2>4. hi \in SUBSET (0 .. W - 1)
    BY <2>1, <2>2, <2>3
  <2>5. Parity(Queried(lo, hi, c, bit, W)) = Parity(Selected(s, c, X))
    <3> DEFINE base == block * W
    <3>1. base \in Nat
      BY <1>3, <1>4
    <3> HIDE DEF lo, hi, base
    <3> QED BY <1>2, <1>3, <1>4, <2>1, <2>2, <2>3, <2>4, <3>1, ParityOfQuery
            DEF base
  <2>6. Satisfies(X, j, Equation(h)) <=> Parity(Selected(s, c, X)) = Bit(j, ResultRow(h))
    <3>1. Satisfies(X, j, Equation(h)) <=> RowParity(s, c, X) = Bit(j, ResultRow(h))
      BY SatisfiesRow DEF Equation, s, c
    <3> QED BY <3>1, Zenon DEF RowParity, On, Selected
  <2> QED BY <2>5, <2>6 DEF X
<1> QED BY <1>1, <1>5

(* The solution has what the rows of the matrix ask for.                   *)
LEMMA SolutionSolvesStored ==
  ASSUME StdTypeOK, StdRowsInBand, NEW j \in Columns
  PROVE  Solution(j) \in SUBSET Slots /\ Solves(Solution(j), j, StoredEquations)
<1>1. ASSUME NEW s \in Occupied
      PROVE  Satisfies(Solution(j), j, RowEquation(s, coeff_rows[s], result_rows[s]))
  <2>1. s \in Slots /\ coeff_rows[s] # {}
    BY DEF Occupied
  <2>2. RowHolds(s, j, Solution(j))
    BY <2>1, SolutionHolds
  <2> QED BY <2>1, <2>2, SatisfiesRow DEF RowHolds
<1> QED BY <1>1 DEF Solves, StoredEquations, Solution

-----------------------------------------------------------------------------
(* Members are found                                                       *)

KeyEquations == {Equation(hash[k]) : k \in Range(keys)}

(* The order a builder chose leaves no key out. *)
OrderedInv == pc \in {"next", "reduce", "built"} => Range(ordered) = Range(keys)

(* The matrix of a built filter has the solutions of all keys' equations.  *)
BuiltFor(X, j) ==
  pc = "built" => (Solves(X, j, StoredEquations) <=> Solves(X, j, KeyEquations))

LEMMA WordsUnchanged ==
  ASSUME UNCHANGED <<coeff_rows, result_rows>>
  PROVE  Words' = Words
BY DEF Words, NextWord

LEMMA IntoSolutionBuilds ==
  ASSUME StdInv, OrderedInv, IntoSolution, NEW X, NEW j, PreservedFor(X, j)
  PROVE  OrderedInv' /\ BuiltInv' /\ BuiltFor(X, j)'
<1>1. /\ pc = "next" /\ n > Len(ordered)
      /\ UNCHANGED <<keys, hash, coeff_rows, result_rows, ordered>>
      /\ data' = [g \in 0 .. NumBlocks * R - 1 |-> Words[(g \div R) * W][g % R]]
  BY DEF IntoSolution, callVars, seedVars, matrixVars, addVars
<1>2. OrderedInv' /\ BuiltInv'
  BY <1>1, WordsUnchanged DEF OrderedInv, BuiltInv
<1>3. Added = Range(keys)
  <2>1. n - 1 = Len(ordered) /\ DOMAIN ordered = 1 .. Len(ordered)
    BY <1>1 DEF StdInv, StdTypeOK
  <2>2. Range(ordered) = Range(keys)
    BY <1>1 DEF OrderedInv
  <2> QED BY <2>1, <2>2 DEF Added, Range
<1>4. Solves(X, j, StoredEquations) <=> Solves(X, j, KeyEquations)
  BY <1>1, <1>3 DEF PreservedFor, AddedEquations, KeyEquations
<1>5. StoredEquations' = StoredEquations /\ KeyEquations' = KeyEquations
  BY <1>1 DEF StoredEquations, Occupied, KeyEquations
<1> QED BY <1>2, <1>4, <1>5 DEF BuiltFor

LEMMA NextBuilds ==
  ASSUME StdInv, [Next]_vars, NEW X, NEW j, PreservedFor(X, j),
         OrderedInv, BuiltInv, BuiltFor(X, j)
  PROVE  OrderedInv' /\ BuiltInv' /\ BuiltFor(X, j)'
<1>1. CASE Add
  <2>1. pc \in {"next", "reduce"} /\ pc' # "built" /\ UNCHANGED <<keys, ordered>>
    BY <1>1 DEF Add, AddKey, PlaceRow, DropRow, Reject, ReduceRow, callVars, addVars
  <2> QED BY <2>1 DEF OrderedInv, BuiltInv, BuiltFor
<1>2. CASE Reset \/ GiveUp
  BY <1>2 DEF Reset, GiveUp, OrderedInv, BuiltInv, BuiltFor
<1>3. CASE Order
  <2>1. Range(ordered') = Range(keys)
    BY <1>3, OrderKeepsInv
  <2> QED BY <1>3, <2>1 DEF Order, callVars, OrderedInv, BuiltInv, BuiltFor
<1>4. CASE IntoSolution
  BY <1>4, IntoSolutionBuilds
<1>5. CASE UNCHANGED vars
  <2>1. UNCHANGED <<keys, hash, pc, ordered, coeff_rows, result_rows, data>>
    BY <1>5 DEF vars, callVars, seedVars, matrixVars, addVars
  <2>2. StoredEquations' = StoredEquations /\ KeyEquations' = KeyEquations
    BY <2>1 DEF StoredEquations, Occupied, KeyEquations
  <2> QED BY <2>1, <2>2, WordsUnchanged DEF OrderedInv, BuiltInv, BuiltFor
<1> QED BY <1>1, <1>2, <1>3, <1>4, <1>5 DEF Next, FindSeed

(* What holds of a built filter, in every column a row can speak of        *)
BuildInv ==
  /\ CleanInv /\ OrderedInv /\ BuiltInv
  /\ \A X \in SUBSET Nat : \A j \in ResultBits : PreservedFor(X, j) /\ BuiltFor(X, j)

LEMMA InitBuildInv == Init => BuildInv
BY DEF Init, BuildInv, CleanInv, OrderedInv, BuiltInv, PreservedFor, HandSaysKey, BuiltFor

LEMMA NextBuildInv == StdInv /\ BuildInv /\ [Next]_vars => BuildInv'
<1> SUFFICES ASSUME StdInv, BuildInv, [Next]_vars PROVE BuildInv'
  OBVIOUS
<1>1. {} \in SUBSET Nat /\ 0 \in ResultBits
  BY ResultWidthAssumption DEF ResultBits
<1>2. CleanInv' /\ OrderedInv' /\ BuiltInv'
  BY <1>1, NextPreserves, NextBuilds DEF BuildInv
<1>3. \A X \in SUBSET Nat : \A j \in ResultBits :
        PreservedFor(X, j)' /\ BuiltFor(X, j)'
  BY NextPreserves, NextBuilds DEF BuildInv
<1> QED BY <1>2, <1>3 DEF BuildInv, ResultBits

(* Back-substitution solves what the matrix asks for, and a query reads    *)
(* the columns it solved for.                                              *)
LEMMA BuiltAnswers ==
  ASSUME StdInv, BuiltInv,
         \A X \in SUBSET Nat : \A j \in ResultBits : BuiltFor(X, j)
  PROVE  StdNoFalseNegatives
<1> SUFFICES ASSUME pc = "built", NEW k \in Range(keys)
             PROVE  Contains(hash[k])
  BY DEF StdNoFalseNegatives
<1>0. StdTypeOK /\ StdRowsInBand
  BY DEF StdInv
<1>1. hash[k] \in Hashes128
  BY <1>0 DEF StdTypeOK
<1>2. ASSUME NEW j \in Columns
      PROVE  Satisfies(Solution(j), j, Equation(hash[k]))
  <2>1. j \in ResultBits
    BY RAssumption, ResultWidthAssumption DEF Columns, ResultBits
  <2>2. Solution(j) \in SUBSET Nat /\ Solves(Solution(j), j, StoredEquations)
    BY <1>0, SolutionSolvesStored, TableSize DEF Slots
  <2>3. Solves(Solution(j), j, KeyEquations)
    BY <2>1, <2>2 DEF BuiltFor
  <2> QED BY <2>3 DEF Solves, KeyEquations
<1> QED BY <1>0, <1>1, <1>2, ContainsMeansSatisfied

(* No member is reported absent: whatever the seed, the order of the keys  *)
(* and the seeds that were abandoned before, every key of the slice is     *)
(* found in the filter that find_seed or find_seed_pleated returns.        *)
THEOREM StdMembersAreFound == Spec => []StdNoFalseNegatives
<1>1. StdInv /\ BuildInv => StdNoFalseNegatives
  BY BuiltAnswers DEF BuildInv
<1> QED BY <1>1, InitStdInv, NextStdInv, InitBuildInv, NextBuildInv, PTL DEF Spec

-----------------------------------------------------------------------------
(* The filter returned                                                     *)

(* The rows stored on the slots from t on hold for X in column j.          *)
SolvesFrom(t, j, X) ==
  \A s \in Occupied : t <= s => RowParity(s, coeff_rows[s], X) = Bit(j, result_rows[s])

(* One more slot can be given the bit that its row asks for: the rows      *)
(* above it do not look at it.                                             *)
LEMMA SolveOneMore ==
  ASSUME StdTypeOK, StdRowsInBand, NEW j, NEW t \in Slots,
         NEW X \in SUBSET (t + 1 .. NumSlots - 1), SolvesFrom(t + 1, j, X)
  PROVE  \E Y \in SUBSET (t .. NumSlots - 1) : SolvesFrom(t, j, Y)
<1> DEFINE c == coeff_rows[t]
           bit == Bit(j, result_rows[t])
           Y == X \cup {t}
<1>1. t \in Nat /\ NumSlots \in Nat /\ t < NumSlots
  BY TableSize DEF Slots
<1>2. X \in SUBSET (t .. NumSlots - 1) /\ Y \in SUBSET (t .. NumSlots - 1) /\ t \notin X
  BY <1>1
<1>3. \A s \in Occupied : s \in Nat /\ (t <= s => s = t \/ t + 1 <= s)
  BY <1>1, TableSize DEF Occupied, Slots
<1>4. CASE t \notin Occupied \/ RowParity(t, c, X) = bit
  <2>1. SolvesFrom(t, j, X)
    BY <1>3, <1>4 DEF SolvesFrom
  <2> QED BY <1>2, <2>1
<1>5. CASE t \in Occupied /\ RowParity(t, c, X) # bit
  <2>1. c \in Word /\ 0 \in c
    BY <1>5 DEF Occupied, StdTypeOK, StdRowsInBand, InBand
  <2>2. RowParity(t, c, X) \in {0, 1} /\ bit \in {0, 1}
    BY <1>1, <2>1, ParityOfWords, BitType
  <2>3. RowParity(t, c, Y) = 1 - RowParity(t, c, X)
    <3> DEFINE A == On(t, c) \cap X
    <3>1. IsFiniteSet(On(t, c))
      BY <1>1, <2>1, FiniteWord, RowIsFinite DEF On
    <3>2. IsFiniteSet(A) /\ t \notin A
      BY <1>2, <3>1, FS_Intersection
    <3>3. t \in On(t, c)
      BY <1>1, <2>1 DEF On
    <3>4. On(t, c) \cap Y = A \cup {t}
      BY <3>3
    <3> HIDE DEF A
    <3>5. Parity(A \cup {t}) = 1 - Parity(A)
      BY <3>2, ParityOfAdded
    <3> QED BY <3>4, <3>5 DEF RowParity, A
  <2>4. ASSUME NEW s \in Occupied, t + 1 <= s
        PROVE  RowParity(s, coeff_rows[s], Y) = RowParity(s, coeff_rows[s], X)
    <3>1. s \in Nat /\ coeff_rows[s] \in SUBSET Nat
      BY <1>3 DEF Occupied, StdTypeOK, Word
    <3>2. t \notin On(s, coeff_rows[s])
      BY <1>1, <2>4, <3>1 DEF On
    <3>3. On(s, coeff_rows[s]) \cap Y = On(s, coeff_rows[s]) \cap X
      BY <3>2
    <3> QED BY <3>3 DEF RowParity
  <2> HIDE DEF c, bit, Y
  <2>5. RowParity(t, c, Y) = bit
    BY <1>5, <2>2, <2>3
  <2>6. SolvesFrom(t, j, Y)
    BY <1>3, <2>4, <2>5 DEF SolvesFrom, c, bit
  <2> QED BY <1>2, <2>6
<1> QED BY <1>4, <1>5

(* The matrix is in echelon form, so in every column some X solves it.     *)
LEMMA EchelonIsSolvable ==
  ASSUME StdTypeOK, StdRowsInBand, NEW j
  PROVE  \E X \in SUBSET Slots : Solves(X, j, StoredEquations)
<1> DEFINE S == {t \in 0 .. NumSlots :
                   \E X \in SUBSET (t .. NumSlots - 1) : SolvesFrom(t, j, X)}
<1>1. NumSlots \in Nat
  BY TableSize
<1>2. NumSlots \in S
  <2>1. SolvesFrom(NumSlots, j, {})
    BY <1>1 DEF SolvesFrom, Occupied, Slots
  <2>2. {} \in SUBSET (NumSlots .. NumSlots - 1) /\ NumSlots \in 0 .. NumSlots
    BY <1>1
  <2> QED BY <2>1, <2>2
<1>3. ASSUME NEW t \in 0 .. NumSlots - 1, t + 1 \in S PROVE t \in S
  <2>1. t \in Slots /\ t \in 0 .. NumSlots
    BY <1>1 DEF Slots
  <2>2. PICK X \in SUBSET (t + 1 .. NumSlots - 1) : SolvesFrom(t + 1, j, X)
    BY <1>3
  <2>3. \E Y \in SUBSET (t .. NumSlots - 1) : SolvesFrom(t, j, Y)
    BY <2>1, <2>2, SolveOneMore
  <2> QED BY <2>1, <2>3
<1>4. S = 0 .. NumSlots
  <2>1. S \in SUBSET (0 .. NumSlots)
    OBVIOUS
  <2> HIDE DEF S
  <2> QED BY <1>2, <1>3, <2>1, Descent
<1>5. 0 \in S
  BY <1>1, <1>4
<1>6. PICK X \in SUBSET (0 .. NumSlots - 1) : SolvesFrom(0, j, X)
  BY <1>5
<1>7. X \in SUBSET Slots
  BY <1>6 DEF Slots
<1>8. ASSUME NEW s \in Occupied
      PROVE  Satisfies(X, j, RowEquation(s, coeff_rows[s], result_rows[s]))
  <2>1. s \in Nat
    BY TableSize DEF Occupied, Slots
  <2>2. RowParity(s, coeff_rows[s], X) = Bit(j, result_rows[s])
    BY <1>6, <2>1 DEF SolvesFrom
  <2> QED BY <2>2, SatisfiesRow
<1>9. Solves(X, j, StoredEquations)
  BY <1>8 DEF Solves, StoredEquations
<1> QED BY <1>7, <1>9

(* What StdFilter calls a solvable seed                                    *)
SeedSolvable ==
  \A j \in ResultBits : \E X \in SUBSET Slots : Solves(X, j, KeyEquations)

NoFill == [s \in Slots |-> {}]

Canonical ==
  \A j \in Columns : CanonicalColumns(Slots, j, KeyEquations, NoFill) = {Column(j)}

LEMMA SlotsAreNat == SUBSET Slots \subseteq SUBSET Nat
BY TableSize DEF Slots

LEMMA BuiltIsSolvable ==
  ASSUME StdInv, pc = "built",
         \A X \in SUBSET Nat : \A j \in ResultBits : BuiltFor(X, j)
  PROVE  SeedSolvable
<1> SUFFICES ASSUME NEW j \in ResultBits
             PROVE  \E X \in SUBSET Slots : Solves(X, j, KeyEquations)
  BY DEF SeedSolvable
<1>1. PICK X \in SUBSET Slots : Solves(X, j, StoredEquations)
  BY EchelonIsSolvable DEF StdInv
<1>2. X \in SUBSET Nat
  BY SlotsAreNat
<1> QED BY <1>1, <1>2 DEF BuiltFor

LEMMA FiniteEquations ==
  ASSUME StdTypeOK
  PROVE  \A e \in StoredEquations \cup KeyEquations : IsFiniteSet(e.on)
<1>1. ASSUME NEW s \in Nat, NEW c \in Word, NEW r
      PROVE  IsFiniteSet(RowEquation(s, c, r).on)
  <2>1. IsFiniteSet({s + b : b \in c})
    BY FiniteWord, RowIsFinite
  <2>2. RowEquation(s, c, r).on = {s + b : b \in c}
    BY DEF RowEquation
  <2> QED BY <2>1, <2>2
<1>2. \A s \in Occupied : IsFiniteSet(RowEquation(s, coeff_rows[s], result_rows[s]).on)
  BY <1>1, TableSize DEF Occupied, Slots, StdTypeOK
<1>3. \A k \in Range(keys) : IsFiniteSet(Equation(hash[k]).on)
  BY <1>1, KeyRow DEF Equation, StdTypeOK
<1> QED BY <1>2, <1>3 DEF StoredEquations, KeyEquations

(* Each column of the solution is the only one that the rows, and the 0 on *)
(* every slot without a row, allow.                                        *)
LEMMA BuiltIsCanonical ==
  ASSUME StdInv, BuiltInv, pc = "built",
         \A X \in SUBSET Nat : \A j \in ResultBits : BuiltFor(X, j)
  PROVE  Canonical
<1> SUFFICES ASSUME NEW j \in Columns
             PROVE  CanonicalColumns(Slots, j, KeyEquations, NoFill) = {Column(j)}
  BY DEF Canonical
<1> DEFINE E == StoredEquations
           F == KeyEquations
           X == Column(j)
<1>0. StdTypeOK /\ StdRowsInBand
  BY DEF StdInv
<1>1. \A e \in E \cup F : IsFiniteSet(e.on)
  BY <1>0, FiniteEquations
<1>2. X = Solution(j) /\ X \in SUBSET Slots /\ Solves(X, j, E)
  BY <1>0, BuiltColumn, SolutionSolvesStored
<1>3. ASSUME NEW s \in Occupied
      PROVE  \E e \in E : s \in e.on /\ \A t \in e.on : t \in Int /\ s <= t
  <2> DEFINE c == coeff_rows[s]
             e == RowEquation(s, c, result_rows[s])
  <2>1. s \in Nat /\ c \in SUBSET Nat /\ 0 \in c
    BY <1>0, TableSize DEF Occupied, Slots, StdTypeOK, Word, StdRowsInBand, InBand
  <2>2. s + 0 = s /\ \A b \in c : s + b \in Int /\ s <= s + b
    BY <2>1
  <2>3. e.on = {s + b : b \in c}
    BY DEF RowEquation
  <2>4. s \in e.on /\ \A t \in e.on : t \in Int /\ s <= t
    <3> HIDE DEF c, e
    <3> QED BY <2>1, <2>2, <2>3
  <2>5. e \in E
    BY DEF StoredEquations
  <2> QED BY <2>4, <2>5
<1>4. ASSUME NEW s \in Slots, s \notin Occupied
      PROVE  s \in X <=> j \in NoFill[s]
  <2>1. RowHolds(s, j, Solution(j)) /\ coeff_rows[s] = {}
    BY <1>0, <1>4, SolutionHolds DEF Occupied
  <2>2. s \notin X
    BY <1>2, <2>1 DEF RowHolds
  <2> QED BY <2>2 DEF NoFill
<1>5. \A Y \in SUBSET Slots : Solves(Y, j, E) <=> Solves(Y, j, F)
  <2>1. j \in ResultBits
    BY RAssumption, ResultWidthAssumption DEF Columns, ResultBits
  <2> QED BY <2>1, SlotsAreNat DEF BuiltFor
<1> HIDE DEF E, F, X
<1>6. NumSlots \in Nat /\ Slots = 0 .. NumSlots - 1
  BY TableSize DEF Slots
<1>7. CanonicalColumns(Slots, j, E, NoFill) = {X}
  <2>1. Finitary(E) /\ Lead(Occupied, E) /\ Solves(X, j, E)
    BY <1>1, <1>2, <1>3 DEF Finitary, Lead
  <2>2. FilledFrom(X, j, NoFill, Slots \ Occupied)
    BY <1>4 DEF FilledFrom
  <2> QED BY <1>2, <1>6, <2>1, <2>2, EchelonIsCanonical
<1>8. CanonicalColumns(Slots, j, E, NoFill) = CanonicalColumns(Slots, j, F, NoFill)
  BY <1>1, <1>2, <1>5, CanonicalOfEquivalent
<1> QED BY <1>7, <1>8 DEF F, X

(* A key whose row is used up, with a result left, contradicts the rows    *)
(* stored: no X has all the keys' equations.                               *)
Contradicts(s, c, r) ==
  /\ s \in Slots /\ coeff_rows[s] # {}
  /\ SymDiff(c, coeff_rows[s]) = {}
  /\ r \in SUBSET ResultBits /\ SymDiff(r, result_rows[s]) # {}

LEMMA ContradictionIsFinal ==
  ASSUME StdTypeOK, NEW s, NEW c, NEW r, Contradicts(s, c, r), NEW e \in KeyEquations,
         \A X \in SUBSET Nat : \A j \in ResultBits :
           /\ Solves(X, j, KeyEquations) => Solves(X, j, StoredEquations)
           /\ Solves(X, j, StoredEquations) =>
                (Satisfies(X, j, RowEquation(s, c, r)) <=> Satisfies(X, j, e))
  PROVE  ~SeedSolvable
<1>1. /\ s \in Occupied /\ c = coeff_rows[s] /\ r # result_rows[s]
      /\ r \in SUBSET ResultBits /\ result_rows[s] \in SUBSET ResultBits
  BY DEF Contradicts, Occupied, SymDiff, StdTypeOK
<1>2. PICK j \in ResultBits : ~(j \in r <=> j \in result_rows[s])
  BY <1>1
<1> SUFFICES ASSUME NEW X \in SUBSET Slots, Solves(X, j, KeyEquations) PROVE FALSE
  BY DEF SeedSolvable
<1>3. X \in SUBSET Nat
  BY SlotsAreNat
<1>4. Solves(X, j, StoredEquations) /\ Satisfies(X, j, e)
  BY <1>3 DEF Solves
<1>5. RowParity(s, c, X) = Bit(j, r)
  BY <1>3, <1>4, SatisfiesRow
<1>6. RowParity(s, c, X) = Bit(j, result_rows[s])
  <2>1. RowEquation(s, c, result_rows[s]) \in StoredEquations
    BY <1>1 DEF StoredEquations
  <2> QED BY <1>4, <2>1, SatisfiesRow DEF Solves
<1> QED BY <1>2, <1>5, <1>6 DEF Bit

-----------------------------------------------------------------------------
(* StdBanding implements StdFilter                                         *)

LEMMA SameMathematics ==
  /\ Filter!Slots = Slots /\ Filter!Hashes128 = Hashes128
  /\ Filter!ResultBits = ResultBits
  /\ \A h : Filter!Equation(h) = Equation(h)
  /\ \A A : Filter!Range(A) = Range(A)
  /\ \A X, j, E : Filter!Solves(X, j, E) <=> Solves(X, j, E)
  /\ \A S, j, E, f :
       Filter!CanonicalColumns(S, j, E, f) = CanonicalColumns(S, j, E, f)
<1>1. /\ Filter!Slots = Slots /\ Filter!Hashes128 = Hashes128
      /\ Filter!ResultBits = ResultBits
  BY DEF Filter!Slots, Slots, Filter!NumSlots, NumSlots, Filter!Hashes128, Hashes128,
         Filter!Half, Half, Filter!ResultBits, ResultBits
<1>2. ASSUME NEW h PROVE Filter!Equation(h) = Equation(h)
  <2>1. Filter!Start(h) = Start(h)
    BY DEF Filter!Start, Start, Filter!NumStarts, NumStarts,
           Filter!NumSlots, NumSlots
  <2>2. Filter!CoeffRow128(h) = CoeffRow128(h)
    BY DEF Filter!CoeffRow128, CoeffRow128, Filter!SymDiff, SymDiff, Filter!Half, Half
  <2>3. Filter!ResultRow(h) = ResultRow(h)
    BY <1>1 DEF Filter!ResultRow, ResultRow, Filter!SwapBytes, SwapBytes,
                Filter!Half, Half
  <2> QED BY <2>1, <2>2, <2>3 DEF Filter!Equation, Equation, Filter!RowEquation, RowEquation
<1>3. ASSUME NEW A PROVE Filter!Range(A) = Range(A)
  BY Zenon DEF Filter!Range, Range
<1>4. ASSUME NEW A PROVE Filter!Parity(A) = Parity(A)
  <2>1. Filter!Cardinality(A) = Cardinality(A)
    BY Zenon DEF Filter!Cardinality, Cardinality
  <2> QED BY <2>1 DEF Filter!Parity, Parity
<1>5. ASSUME NEW A PROVE Filter!Max(A) = Max(A)
  BY Zenon DEF Filter!Max, Max
<1>6. ASSUME NEW X, NEW j, NEW E PROVE Filter!Solves(X, j, E) <=> Solves(X, j, E)
  BY <1>4 DEF Filter!Solves, Solves, Filter!Satisfies, Satisfies, Filter!Bit, Bit
<1>7. ASSUME NEW S, NEW j, NEW E, NEW f
      PROVE  Filter!CanonicalColumns(S, j, E, f) = CanonicalColumns(S, j, E, f)
  BY <1>4, <1>5, Zenon
  DEF CanonicalColumns, Filter!CanonicalColumns, Filter!Solves, Solves,
      FreeSlots, Filter!FreeSlots, Filter!Kernel, Kernel,
      Filter!Satisfies, Satisfies, Filter!Bit, Bit
<1> QED BY <1>1, <1>2, <1>3, <1>6, <1>7

LEMMA SameSolvable == Filter!Equations = KeyEquations /\ (Filter!Solvable <=> SeedSolvable)
<1>1. Filter!Equations = KeyEquations
  BY SameMathematics DEF Filter!Equations, KeyEquations
<1> QED BY <1>1, SameMathematics DEF Filter!Solvable, SeedSolvable

(* What the builder's state is to StdFilter                                *)
stage == CASE pc = "seed"   -> "between"
           [] pc = "built"  -> "returned"
           [] pc = "failed" -> "failed"
           [] OTHER         -> "trying"

returned == IF pc = "built"
            THEN {[ordinal |-> tried - 1, column |-> [j \in Columns |-> Column(j)]]}
            ELSE {}

filterVars == <<keys, stage, tried, hash, returned>>

LEMMA InitIsInit == Init => Filter!Init
BY SameMathematics DEF Init, Filter!Init

LEMMA TrialGoesOn ==
  ASSUME pc \in {"order", "next", "reduce"}, pc' \in {"order", "next", "reduce"},
         UNCHANGED <<keys, tried, hash>>
  PROVE  UNCHANGED filterVars
BY DEF filterVars, stage, returned

LEMMA StutterIsStutter ==
  ASSUME UNCHANGED <<keys, tried, hash, pc, data>>
  PROVE  UNCHANGED filterVars
<1>1. \A j : Column(j)' = Column(j)
  BY DEF Column
<1> QED BY <1>1 DEF filterVars, stage, returned

LEMMA ResetTries ==
  ASSUME Reset
  PROVE  Filter!TrySeed
<1>1. /\ pc = "seed" /\ pc' = "order" /\ tried < SeedCount /\ tried' = tried + 1
      /\ hash' \in [Range(keys) -> Hashes128] /\ keys' = keys
  BY DEF Reset, callVars
<1>2. stage = "between" /\ stage' = "trying" /\ returned = {} /\ returned' = {}
  BY <1>1 DEF stage, returned
<1> QED BY <1>1, <1>2, SameMathematics DEF Filter!TrySeed, stage, returned

LEMMA GiveUpFails ==
  ASSUME GiveUp
  PROVE  Filter!Fail
<1>1. pc = "seed" /\ pc' = "failed" /\ tried = SeedCount /\ UNCHANGED <<keys, tried, hash>>
  BY DEF GiveUp, callVars, seedVars
<1>2. stage = "between" /\ stage' = "failed" /\ returned = {} /\ returned' = {}
  BY <1>1 DEF stage, returned
<1> QED BY <1>1, <1>2 DEF Filter!Fail, stage, returned

(* A seed is given up only if it has no solution.                          *)
LEMMA SeedIsAbandoned ==
  ASSUME pc \in {"order", "next", "reduce"}, pc' = "seed",
         UNCHANGED <<keys, tried, hash>>, ~SeedSolvable
  PROVE  Filter!Abandon
<1>1. stage = "trying" /\ stage' = "between" /\ returned = {} /\ returned' = {}
  BY DEF stage, returned
<1> QED BY <1>1, SameSolvable DEF Filter!Abandon, stage, returned

LEMMA SolutionIsReturned ==
  ASSUME IntoSolution, Canonical', SeedSolvable'
  PROVE  Filter!Return
<1> DEFINE f == [ordinal |-> tried - 1, column |-> [j \in Columns |-> Column(j)']]
<1>1. pc = "next" /\ pc' = "built" /\ UNCHANGED <<keys, tried, hash>>
  BY DEF IntoSolution, callVars, seedVars
<1>2. stage = "trying" /\ stage' = "returned" /\ returned' = {f}
  BY <1>1 DEF stage, returned
<1>3. KeyEquations' = KeyEquations
  BY <1>1 DEF KeyEquations
<1>4. SeedSolvable
  BY <1>3 DEF SeedSolvable
<1>5. \A j \in 0 .. R - 1 :
        CanonicalColumns(Slots, j, KeyEquations, NoFill) = {f.column[j]}
  BY <1>3 DEF Canonical, Columns
<1>6. f.ordinal = tried - 1
  OBVIOUS
<1>7. \A j \in 0 .. R - 1 :
        Filter!CanonicalColumns(Filter!Slots, j, Filter!Equations,
                                [s \in Filter!Slots |-> {}]) = {f.column[j]}
  <2> HIDE DEF f
  <2> QED BY <1>5, SameMathematics, SameSolvable DEF NoFill
<1>8. f \in returned' /\ returned' = {f}
  BY <1>2
<1> HIDE DEF f
<1> QED BY <1>1, <1>2, <1>4, <1>6, <1>7, <1>8, SameSolvable
        DEF Filter!Return, stage, returned

(* A key that Banding128::add rejects makes the seed unsolvable.           *)
LEMMA RejectedSeed ==
  ASSUME StdInv, Reject, ordered[n] \in Range(keys),
         \A X \in SUBSET Nat : \A j \in ResultBits :
           /\ Solves(X, j, KeyEquations) => Solves(X, j, StoredEquations)
           /\ HandSaysKey(X, j)
  PROVE  ~SeedSolvable
<1>0. StdTypeOK /\ StdRowsInBand
  BY DEF StdInv
<1>1. /\ pc = "reduce" /\ coeff_rows[pos] # {}
      /\ SymDiff(cr, coeff_rows[pos]) = {} /\ SymDiff(rr, result_rows[pos]) # {}
  BY DEF Reject, RowSum, ResultSum
<1>2. pos \in Slots
  BY <1>0, <1>1, TableSize DEF StdRowsInBand, InBand, StdTypeOK, Slots
<1>3. Contradicts(pos, cr, rr)
  BY <1>0, <1>1, <1>2 DEF Contradicts, StdTypeOK
<1>4. KeyInHand \in KeyEquations
  BY DEF KeyInHand, KeyEquations
<1>5. \A X \in SUBSET Nat : \A j \in ResultBits :
        /\ Solves(X, j, KeyEquations) => Solves(X, j, StoredEquations)
        /\ Solves(X, j, StoredEquations) =>
             (Satisfies(X, j, RowEquation(pos, cr, rr)) <=> Satisfies(X, j, KeyInHand))
  BY <1>1 DEF HandSaysKey, RowInHand
<1> HIDE DEF KeyInHand
<1> QED BY <1>0, <1>3, <1>4, <1>5, ContradictionIsFinal

LEMMA AddedAreKeys ==
  ASSUME StdInv, pc \in {"next", "reduce"}
  PROVE  /\ AddedEquations \subseteq KeyEquations
         /\ pc = "reduce" => ordered[n] \in Range(keys)
<1>1. /\ ordered \in Seq(Range(keys)) /\ n \in 1 .. Len(ordered) + 1
      /\ pc = "reduce" => n \in 1 .. Len(ordered)
  BY DEF StdInv, StdTypeOK, LoopsInv
<1>2. \A m \in 1 .. Len(ordered) : ordered[m] \in Range(keys)
  BY <1>1
<1>3. \A m \in 1 .. n - 1 : ordered[m] \in Range(keys)
  BY <1>1, <1>2
<1> QED BY <1>1, <1>2, <1>3 DEF AddedEquations, Added, KeyEquations

LEMMA NextIsFilterStep ==
  ASSUME StdInv, BuildInv, [Next]_vars, StdInv', BuildInv',
         (StdInv /\ BuildInv /\ pc = "built" => Canonical /\ SeedSolvable)'
  PROVE  [Filter!Next]_filterVars
<1>1. CASE Reset
  BY <1>1, ResetTries DEF Filter!Next
<1>2. CASE GiveUp
  BY <1>2, GiveUpFails DEF Filter!Next
<1>3. CASE Order \/ AddKey \/ PlaceRow \/ DropRow \/ ReduceRow
  <2>1. /\ pc \in {"order", "next", "reduce"} /\ pc' \in {"order", "next", "reduce"}
        /\ UNCHANGED <<keys, tried, hash>>
    BY <1>3 DEF Order, AddKey, PlaceRow, DropRow, ReduceRow, callVars, seedVars
  <2> QED BY <2>1, TrialGoesOn
<1>4. CASE Reject
  <2>1. pc = "reduce" /\ pc' = "seed" /\ UNCHANGED <<keys, tried, hash>>
    BY <1>4 DEF Reject, callVars, seedVars
  <2>2. AddedEquations \subseteq KeyEquations /\ ordered[n] \in Range(keys)
    BY <2>1, AddedAreKeys
  <2>3. \A X \in SUBSET Nat : \A j \in ResultBits :
          /\ Solves(X, j, KeyEquations) => Solves(X, j, StoredEquations)
          /\ HandSaysKey(X, j)
    BY <2>1, <2>2 DEF BuildInv, PreservedFor, Solves
  <2>4. ~SeedSolvable
    BY <1>4, <2>2, <2>3, RejectedSeed
  <2> QED BY <2>1, <2>4, SeedIsAbandoned DEF Filter!Next
<1>5. CASE IntoSolution
  <2>1. pc' = "built"
    BY <1>5 DEF IntoSolution
  <2>2. Canonical' /\ SeedSolvable'
    BY <2>1
  <2> QED BY <1>5, <2>2, SolutionIsReturned DEF Filter!Next
<1>6. CASE UNCHANGED vars
  BY <1>6, StutterIsStutter DEF vars, callVars, seedVars
<1> QED BY <1>1, <1>2, <1>3, <1>4, <1>5, <1>6 DEF Next, FindSeed, Add

LEMMA BuiltFilter == StdInv /\ BuildInv /\ pc = "built" => Canonical /\ SeedSolvable
BY BuiltIsCanonical, BuiltIsSolvable DEF BuildInv

(* find_seed and find_seed_pleated implement StdFilter: a seed is given up *)
(* only if no columns solve it, the first that has a solution is the one   *)
(* returned, with the one solution that its equations and the zero of the  *)
(* open slots determine, and None is returned only after the last seed.    *)
THEOREM StdFirstSolvableSeed == Spec => FirstSolvableSeed
<1>1. (StdInv /\ BuildInv /\ pc = "built" => Canonical /\ SeedSolvable)'
  BY BuiltFilter, PTL
<1>2. StdInv /\ BuildInv /\ [Next]_vars /\ StdInv' /\ BuildInv' => [Filter!Next]_filterVars
  BY <1>1, NextIsFilterStep
<1> QED
  BY <1>2, InitStdInv, NextStdInv, InitBuildInv, NextBuildInv, InitIsInit, PTL
  DEF Spec, FirstSolvableSeed, Filter!Spec, Filter!vars, filterVars, stage, returned
-----------------------------------------------------------------------------
(* The parallel construction: its recursions, unrolled                     *)

LEMMA Ascent ==
  ASSUME NEW N \in Nat, NEW S \in SUBSET (0 .. N), 0 \in S,
         \A m \in 0 .. N - 1 : m \in S => m + 1 \in S
  PROVE  S = 0 .. N
<1> DEFINE T == {m \in Nat : m <= N /\ m \notin S}
<1>1. T = {}
  <2> SUFFICES ASSUME T # {} PROVE FALSE
    OBVIOUS
  <2>1. PICK m \in T : \A x \in T : m <= x
    BY LeastNatural
  <2>2. m \in Nat /\ m <= N /\ m \notin S /\ m # 0
    BY <2>1
  <2>3. m - 1 \in 0 .. N - 1 /\ m - 1 \notin T
    BY <2>1, <2>2
  <2>4. m - 1 \in S /\ m - 1 + 1 = m
    BY <2>2, <2>3
  <2> QED BY <2>2, <2>3, <2>4
<1>2. \A m \in 0 .. N : m \in S
  <2> SUFFICES ASSUME NEW m \in 0 .. N PROVE m \in S
    OBVIOUS
  <2>1. m \notin T /\ m \in Nat /\ m <= N
    BY <1>1
  <2> QED BY <2>1
<1> QED BY <1>2

(* A function g on 0 .. N that starts with e and takes the steps of F      *)
Unrolls(g, N, e, F) ==
  \A m \in 0 .. N : g[m] = IF m = 0 THEN e ELSE F[<<m, g[m - 1]>>]

HasUnrolling(N, V, e, F) == \E g \in [0 .. N -> V] : Unrolls(g, N, e, F)

LEMMA RecursionExists ==
  ASSUME NEW N \in Nat, NEW V, NEW e \in V, NEW F \in [(1 .. N) \X V -> V]
  PROVE  HasUnrolling(N, V, e, F)
<1> DEFINE S == {m \in 0 .. N : \E g \in [0 .. m -> V] : Unrolls(g, m, e, F)}
<1>1. 0 \in S
  <2> DEFINE g == [i \in 0 .. 0 |-> e]
  <2>1. g \in [0 .. 0 -> V] /\ Unrolls(g, 0, e, F)
    BY DEF Unrolls
  <2> QED BY <2>1
<1>2. ASSUME NEW m \in 0 .. N - 1, m \in S PROVE m + 1 \in S
  <2>1. PICK g \in [0 .. m -> V] : Unrolls(g, m, e, F)
    BY <1>2
  <2> DEFINE v == F[<<m + 1, g[m]>>]
             f == [i \in 0 .. m + 1 |-> IF i = m + 1 THEN v ELSE g[i]]
  <2>2. m \in Nat /\ m < N /\ m \in 0 .. m /\ <<m + 1, g[m]>> \in (1 .. N) \X V
    BY <2>1
  <2>3. v \in V
    BY <2>2
  <2>4. f \in [0 .. m + 1 -> V]
    <3> HIDE DEF v
    <3>1. \A i \in 0 .. m + 1 : i # m + 1 => i \in 0 .. m
      BY <2>2
    <3> QED BY <2>1, <2>3, <3>1
  <2>5. f[m + 1] = v /\ \A i \in 0 .. m : f[i] = g[i]
    BY <2>2
  <2>6. ASSUME NEW i \in 0 .. m + 1
        PROVE  f[i] = IF i = 0 THEN e ELSE F[<<i, f[i - 1]>>]
    <3> HIDE DEF f
    <3>1. CASE i = m + 1
      <4>1. i - 1 = m /\ i # 0 /\ f[i - 1] = g[m]
        BY <2>2, <2>5, <3>1
      <4> QED BY <2>5, <3>1, <4>1
    <3>2. CASE i # m + 1
      <4>1. i \in 0 .. m /\ (i # 0 => i - 1 \in 0 .. m)
        BY <2>2, <3>2
      <4>2. f[i] = g[i] /\ (i # 0 => f[i - 1] = g[i - 1])
        BY <2>5, <4>1
      <4> QED BY <2>1, <4>1, <4>2 DEF Unrolls
    <3> QED BY <3>1, <3>2
  <2> HIDE DEF f
  <2>7. Unrolls(f, m + 1, e, F) /\ m + 1 \in 0 .. N
    BY <2>2, <2>6 DEF Unrolls
  <2> QED BY <2>4, <2>7
<1>3. N \in S
  <2>1. S \in SUBSET (0 .. N)
    OBVIOUS
  <2> HIDE DEF S
  <2>2. S = 0 .. N
    BY <1>1, <1>2, <2>1, Ascent
  <2> QED BY <2>2
<1> QED BY <1>3 DEF HasUnrolling

(* Dealing out the keys: a place for each worker and one for the caller    *)
Places == Bases \cup {-1}

Deals == [Places -> Seq(Range(keys))]

NoDeal == [p \in Places |-> <<>>]

DealOne(d, k) == [d EXCEPT ![Place(k)] = Append(@, k)]

LEMMA DealtOutUnrolled ==
  ASSUME keys \in Inputs
  PROVE  /\ DealtOut \in [0 .. Len(keys) -> Deals]
         /\ DealtOut[0] = NoDeal
         /\ \A m \in 1 .. Len(keys) : DealtOut[m] = DealOne(DealtOut[m - 1], keys[m])
<1> DEFINE N == Len(keys)
           F == [x \in (1 .. N) \X Deals |-> DealOne(x[2], keys[x[1]])]
<1>1. N \in Nat /\ \A m \in 1 .. N : keys[m] \in Range(keys)
  BY InputIsSeq
<1>2. NoDeal \in Deals
  BY DEF NoDeal, Deals
<1>3. \A d \in Deals : \A k \in Range(keys) : DealOne(d, k) \in Deals
  <2> SUFFICES ASSUME NEW d \in Deals, NEW k \in Range(keys) PROVE DealOne(d, k) \in Deals
    OBVIOUS
  <2> DEFINE q == Place(k)
             e == Append(d[q], k)
  <2>1. d \in [Places -> Seq(Range(keys))] /\ DealOne(d, k) = [d EXCEPT ![q] = e]
    BY DEF DealOne, Deals
  <2>2. q \in Places => e \in Seq(Range(keys))
    BY <2>1
  <2> HIDE DEF q, e
  <2>3. [d EXCEPT ![q] = e] \in [Places -> Seq(Range(keys))]
    BY <2>1, <2>2
  <2> QED BY <2>1, <2>3 DEF Deals
<1>4. F \in [(1 .. N) \X Deals -> Deals]
  <2> HIDE DEF N
  <2> QED BY <1>1, <1>3
<1>5. \A m \in 1 .. N : \A d \in Deals : F[<<m, d>>] = DealOne(d, keys[m])
  OBVIOUS
<1> HIDE DEF F
<1>6. HasUnrolling(N, Deals, NoDeal, F)
  <2> HIDE DEF N
  <2> QED BY <1>1, <1>2, <1>4, RecursionExists
<1>7. PICK g \in [0 .. N -> Deals] : Unrolls(g, N, NoDeal, F)
  BY <1>6 DEF HasUnrolling
<1> DEFINE Step(h) == [m \in 0 .. N |-> IF m = 0 THEN [p \in Bases \cup {-1} |-> <<>>]
                                         ELSE [h[m - 1] EXCEPT ![Place(keys[m])] = Append(@, keys[m])]]
<1>8. \A h : Step(h) = [m \in 0 .. N |-> IF m = 0 THEN NoDeal ELSE DealOne(h[m - 1], keys[m])]
  BY DEF NoDeal, Places, DealOne
<1>9. g = Step(g)
  <2>1. \A m \in 0 .. N : g[m] = IF m = 0 THEN NoDeal ELSE DealOne(g[m - 1], keys[m])
    <3> SUFFICES ASSUME NEW m \in 0 .. N
                 PROVE  g[m] = IF m = 0 THEN NoDeal ELSE DealOne(g[m - 1], keys[m])
      OBVIOUS
    <3>1. g[m] = IF m = 0 THEN NoDeal ELSE F[<<m, g[m - 1]>>]
      BY <1>7 DEF Unrolls
    <3>2. m # 0 => m \in 1 .. N /\ g[m - 1] \in Deals
      BY <1>1, <1>7
    <3> QED BY <1>5, <3>1, <3>2
  <2> HIDE DEF N
  <2>2. g = [m \in 0 .. N |-> IF m = 0 THEN NoDeal ELSE DealOne(g[m - 1], keys[m])]
    BY <1>7, <2>1
  <2> QED BY <1>8, <2>2
<1>10. DealtOut = CHOOSE h : h = Step(h)
  BY DEF DealtOut
<1> HIDE DEF Step
<1>11. DealtOut = Step(DealtOut)
  BY <1>9, <1>10
<1>12. DealtOut = [m \in 0 .. N |-> IF m = 0 THEN NoDeal ELSE DealOne(DealtOut[m - 1], keys[m])]
  BY <1>8, <1>11
<1> DEFINE D == DealtOut
           S == {m \in 0 .. N : D[m] \in Deals}
<1> HIDE DEF N, D
<1>13. \A m \in 0 .. N : D[m] = IF m = 0 THEN NoDeal ELSE DealOne(D[m - 1], keys[m])
  BY <1>12 DEF D
<1>14. S = 0 .. N
  <2>1. 0 \in S
    BY <1>1, <1>2, <1>13
  <2>2. ASSUME NEW m \in 0 .. N - 1, m \in S PROVE m + 1 \in S
    <3>1. m + 1 \in 1 .. N /\ m + 1 \in 0 .. N /\ m + 1 - 1 = m /\ m + 1 # 0
      BY <1>1
    <3>2. D[m + 1] = DealOne(D[m], keys[m + 1])
      BY <1>13, <3>1
    <3> QED BY <1>1, <1>3, <2>2, <3>1, <3>2
  <2>3. S \in SUBSET (0 .. N)
    OBVIOUS
  <2> HIDE DEF S
  <2> QED BY <1>1, <2>1, <2>2, <2>3, Ascent
<1>15. D \in [0 .. N -> Deals]
  <2>1. D = [m \in 0 .. N |-> D[m]]
    BY <1>12 DEF D
  <2> QED BY <1>14, <2>1
<1>16. D[0] = NoDeal /\ \A m \in 1 .. N : D[m] = DealOne(D[m - 1], keys[m])
  BY <1>1, <1>13
<1> QED BY <1>15, <1>16 DEF D, N

LEMMA RangeOfAppend ==
  ASSUME NEW S, NEW s \in Seq(S), NEW e \in S
  PROVE  Range(Append(s, e)) = Range(s) \cup {e}
<1> DEFINE t == Append(s, e)
<1>1. /\ DOMAIN t = 1 .. Len(s) + 1 /\ DOMAIN s = 1 .. Len(s) /\ Len(s) \in Nat
      /\ t[Len(s) + 1] = e /\ \A m \in 1 .. Len(s) : t[m] = s[m]
  OBVIOUS
<1> HIDE DEF t
<1>2. DOMAIN t = DOMAIN s \cup {Len(s) + 1}
  BY <1>1
<1>3. Range(t) = Range(s) \cup {e}
  BY <1>1, <1>2 DEF Range
<1> QED BY <1>3 DEF t

LEMMA RangeOfConcat ==
  ASSUME NEW S, NEW s \in Seq(S), NEW t \in Seq(S)
  PROVE  Range(s \o t) = Range(s) \cup Range(t)
<1> DEFINE u == s \o t
<1>1. /\ DOMAIN u = 1 .. Len(s) + Len(t) /\ Len(s) \in Nat /\ Len(t) \in Nat
      /\ DOMAIN s = 1 .. Len(s) /\ DOMAIN t = 1 .. Len(t)
      /\ \A m \in 1 .. Len(s) : u[m] = s[m]
      /\ \A m \in 1 .. Len(t) : u[Len(s) + m] = t[m]
  OBVIOUS
<1> HIDE DEF u
<1>2. ASSUME NEW x \in Range(u) PROVE x \in Range(s) \cup Range(t)
  <2>1. PICK m \in 1 .. Len(s) + Len(t) : x = u[m]
    BY <1>1 DEF Range
  <2>2. CASE m <= Len(s)
    BY <1>1, <2>1, <2>2 DEF Range
  <2>3. CASE m > Len(s)
    <3>1. m - Len(s) \in 1 .. Len(t) /\ Len(s) + (m - Len(s)) = m
      BY <1>1, <2>3
    <3> QED BY <1>1, <2>1, <3>1 DEF Range
  <2> QED BY <1>1, <2>2, <2>3
<1>3. ASSUME NEW x \in Range(s) PROVE x \in Range(u)
  <2>1. PICK m \in 1 .. Len(s) : x = s[m]
    BY <1>1 DEF Range
  <2>2. m \in 1 .. Len(s) + Len(t)
    BY <1>1
  <2> QED BY <1>1, <2>1, <2>2 DEF Range
<1>4. ASSUME NEW x \in Range(t) PROVE x \in Range(u)
  <2>1. PICK m \in 1 .. Len(t) : x = t[m]
    BY <1>1 DEF Range
  <2>2. Len(s) + m \in 1 .. Len(s) + Len(t)
    BY <1>1
  <2> QED BY <1>1, <2>1, <2>2 DEF Range
<1>5. Range(u) = Range(s) \cup Range(t)
  BY <1>2, <1>3, <1>4
<1> QED BY <1>5 DEF u

(* No key is lost in dealing, and each lies where its start slot says.     *)
DealtWell(d, m) ==
  /\ \A p \in Places : \A i \in 1 .. Len(d[p]) : Place(d[p][i]) = p
  /\ \A i \in 1 .. m : \E p \in Places : keys[i] \in Range(d[p])

LEMMA DealingIsSound ==
  ASSUME keys \in Inputs, \A k \in Range(keys) : Place(k) \in Places
  PROVE  DealtWell(DealtOut[Len(keys)], Len(keys)) /\ DealtOut[Len(keys)] \in Deals
<1> DEFINE N == Len(keys)
           D == DealtOut
           S == {m \in 0 .. N : DealtWell(D[m], m)}
<1>1. /\ D \in [0 .. N -> Deals] /\ D[0] = NoDeal
      /\ \A m \in 1 .. N : D[m] = DealOne(D[m - 1], keys[m])
  BY DealtOutUnrolled
<1>2. N \in Nat /\ \A m \in 1 .. N : keys[m] \in Range(keys)
  BY InputIsSeq
<1> HIDE DEF D, N
<1>3. 0 \in S
  <2>1. DealtWell(NoDeal, 0)
    BY DEF DealtWell, NoDeal
  <2> QED BY <1>1, <1>2, <2>1
<1>4. ASSUME NEW m \in 0 .. N - 1, m \in S PROVE m + 1 \in S
  <2> DEFINE d == D[m]
             k == keys[m + 1]
             q == Place(k)
             f == D[m + 1]
  <2>1. /\ m + 1 \in 1 .. N /\ m \in 0 .. N /\ m \in Nat
    BY <1>2
  <2>2. d \in Deals /\ k \in Range(keys) /\ q \in Places /\ f = DealOne(d, k)
    <3>1. f = DealOne(D[m + 1 - 1], k) /\ m + 1 - 1 = m
      BY <1>1, <2>1
    <3> QED BY <1>1, <1>2, <2>1, <3>1
  <2>3. DealtWell(d, m)
    BY <1>4
  <2> HIDE DEF d, f, k
  <2>4. f[q] = Append(d[q], k) /\ \A p \in Places \ {q} : f[p] = d[p]
    BY <2>2 DEF DealOne, Deals
  <2>5. d[q] \in Seq(Range(keys))
    BY <2>2 DEF Deals
  <2>6. Range(f[q]) = Range(d[q]) \cup {k}
    BY <2>2, <2>4, <2>5, RangeOfAppend
  <2>7. \A p \in Places : Range(d[p]) \subseteq Range(f[p])
    BY <2>4, <2>6
  <2>8. ASSUME NEW p \in Places, NEW i \in 1 .. Len(f[p]) PROVE Place(f[p][i]) = p
    <3>1. CASE p = q
      <4>1. /\ Len(f[q]) = Len(d[q]) + 1 /\ Len(d[q]) \in Nat
            /\ f[q][Len(d[q]) + 1] = k
            /\ \A j \in 1 .. Len(d[q]) : f[q][j] = d[q][j]
        BY <2>4, <2>5
      <4>2. i \in 1 .. Len(d[q]) \/ i = Len(d[q]) + 1
        BY <2>8, <3>1, <4>1
      <4> QED BY <2>2, <2>3, <3>1, <4>1, <4>2 DEF DealtWell
    <3>2. CASE p # q
      <4>1. f[p] = d[p]
        BY <2>4, <3>2
      <4> QED BY <2>3, <2>8, <4>1 DEF DealtWell
    <3> QED BY <3>1, <3>2
  <2>9. ASSUME NEW i \in 1 .. m + 1 PROVE \E p \in Places : keys[i] \in Range(f[p])
    <3>1. CASE i = m + 1
      BY <2>2, <2>6, <3>1 DEF k
    <3>2. CASE i # m + 1
      <4>1. i \in 1 .. m
        BY <2>1, <3>2
      <4> QED BY <2>3, <2>7, <4>1 DEF DealtWell
    <3> QED BY <3>1, <3>2
  <2>10. DealtWell(f, m + 1)
    BY <2>8, <2>9 DEF DealtWell
  <2> QED BY <1>2, <2>1, <2>10 DEF f
<1>5. S = 0 .. N
  <2>1. S \in SUBSET (0 .. N)
    OBVIOUS
  <2> HIDE DEF S
  <2> QED BY <1>2, <1>3, <1>4, <2>1, Ascent
<1>6. N \in 0 .. N
  BY <1>2
<1> QED BY <1>1, <1>5, <1>6 DEF D, N

(* The spilled keys of all workers                                         *)
SpilledOf(b) == IF b \in Bases THEN spilled[b] ELSE <<>>

Collect(s, b) == s \o SpilledOf(b)

LEMMA SpilledBelowUnrolled ==
  ASSUME spilled \in [Bases -> Seq(Range(keys))]
  PROVE  /\ SpilledBelow \in [0 .. NumSlots -> Seq(Range(keys))]
         /\ SpilledBelow[0] = <<>>
         /\ \A b \in 1 .. NumSlots : SpilledBelow[b] = Collect(SpilledBelow[b - 1], b - 1)
<1> DEFINE N == NumSlots
           V == Seq(Range(keys))
           F == [x \in (1 .. N) \X V |-> Collect(x[2], x[1] - 1)]
<1>1. N \in Nat
  BY TableSize
<1>2. <<>> \in V /\ \A b : SpilledOf(b) \in V
  BY DEF SpilledOf
<1>3. \A v \in V : \A b : Collect(v, b) \in V
  BY <1>2 DEF Collect
<1> HIDE DEF V
<1>4. F \in [(1 .. N) \X V -> V]
  BY <1>3
<1>5. \A m \in 1 .. N : \A v \in V : F[<<m, v>>] = Collect(v, m - 1)
  OBVIOUS
<1> HIDE DEF F
<1>6. HasUnrolling(N, V, <<>>, F)
  <2> HIDE DEF N
  <2> QED BY <1>1, <1>2, <1>4, RecursionExists
<1>7. PICK g \in [0 .. N -> V] : Unrolls(g, N, <<>>, F)
  BY <1>6 DEF HasUnrolling
<1> DEFINE Step(h) == [b \in 0 .. N |-> IF b = 0 THEN <<>>
                                         ELSE h[b - 1] \o (IF b - 1 \in Bases THEN spilled[b - 1] ELSE <<>>)]
<1>8. \A h : Step(h) = [b \in 0 .. N |-> IF b = 0 THEN <<>> ELSE Collect(h[b - 1], b - 1)]
  BY DEF SpilledOf, Collect
<1>9. g = Step(g)
  <2>1. \A m \in 0 .. N : g[m] = IF m = 0 THEN <<>> ELSE Collect(g[m - 1], m - 1)
    <3> SUFFICES ASSUME NEW m \in 0 .. N
                 PROVE  g[m] = IF m = 0 THEN <<>> ELSE Collect(g[m - 1], m - 1)
      OBVIOUS
    <3>1. g[m] = IF m = 0 THEN <<>> ELSE F[<<m, g[m - 1]>>]
      BY <1>7 DEF Unrolls
    <3>2. m # 0 => m \in 1 .. N /\ g[m - 1] \in V
      BY <1>1, <1>7
    <3> QED BY <1>5, <3>1, <3>2
  <2> HIDE DEF N
  <2>2. g = [m \in 0 .. N |-> IF m = 0 THEN <<>> ELSE Collect(g[m - 1], m - 1)]
    BY <1>7, <2>1
  <2> QED BY <1>8, <2>2
<1>10. SpilledBelow = CHOOSE h : h = Step(h)
  BY DEF SpilledBelow
<1> HIDE DEF Step
<1>11. SpilledBelow = Step(SpilledBelow)
  BY <1>9, <1>10
<1>12. SpilledBelow
         = [b \in 0 .. N |-> IF b = 0 THEN <<>> ELSE Collect(SpilledBelow[b - 1], b - 1)]
  BY <1>8, <1>11
<1> DEFINE D == SpilledBelow
           S == {m \in 0 .. N : D[m] \in V}
<1> HIDE DEF N, D
<1>13. \A m \in 0 .. N : D[m] = IF m = 0 THEN <<>> ELSE Collect(D[m - 1], m - 1)
  BY <1>12 DEF D
<1>14. S = 0 .. N
  <2>1. 0 \in S
    <3>1. 0 \in 0 .. N
      BY <1>1
    <3>2. D[0] = <<>>
      BY <1>13, <3>1
    <3> QED BY <1>2, <3>1, <3>2
  <2>2. ASSUME NEW m \in 0 .. N - 1, m \in S PROVE m + 1 \in S
    <3>1. m + 1 \in 0 .. N /\ m + 1 - 1 = m /\ m + 1 # 0
      BY <1>1
    <3>2. D[m + 1] = Collect(D[m], m)
      BY <1>13, <3>1
    <3> QED BY <1>3, <2>2, <3>1, <3>2
  <2>3. S \in SUBSET (0 .. N)
    OBVIOUS
  <2> HIDE DEF S
  <2> QED BY <1>1, <2>1, <2>2, <2>3, Ascent
<1>15. D \in [0 .. N -> V]
  <2>1. D = [m \in 0 .. N |-> D[m]]
    BY <1>12 DEF D
  <2> QED BY <1>14, <2>1
<1>16. D[0] = <<>> /\ \A m \in 1 .. N : D[m] = Collect(D[m - 1], m - 1)
  BY <1>1, <1>13
<1> QED BY <1>15, <1>16 DEF D, N, V

(* The caller gets the spilled keys of every worker.                       *)
LEMMA SpilledAreCollected ==
  ASSUME spilled \in [Bases -> Seq(Range(keys))], Bases \subseteq Slots
  PROVE  /\ AllSpilled \in Seq(Range(keys))
         /\ \A b \in Bases : Range(spilled[b]) \subseteq Range(AllSpilled)
<1> DEFINE N == NumSlots
           V == Seq(Range(keys))
           D == SpilledBelow
           S == {m \in 0 .. N : \A b \in Bases : b < m => Range(spilled[b]) \subseteq Range(D[m])}
<1>1. /\ D \in [0 .. N -> V] /\ D[0] = <<>>
      /\ \A b \in 1 .. N : D[b] = Collect(D[b - 1], b - 1)
  BY SpilledBelowUnrolled
<1>2. N \in Nat /\ \A b \in Bases : b \in Nat /\ b < N
  BY TableSize DEF Slots
<1>3. \A b : SpilledOf(b) \in V
  BY DEF SpilledOf
<1> HIDE DEF N, D, V
<1>4. 0 \in S
  BY <1>2
<1>5. ASSUME NEW m \in 0 .. N - 1, m \in S PROVE m + 1 \in S
  <2>1. m + 1 \in 0 .. N /\ m + 1 \in 1 .. N /\ m + 1 - 1 = m /\ m \in 0 .. N /\ m \in Nat
    BY <1>2
  <2>2. D[m + 1] = Collect(D[m], m) /\ D[m] \in V
    BY <1>1, <2>1
  <2>3. Range(D[m + 1]) = Range(D[m]) \cup Range(SpilledOf(m))
    BY <1>3, <2>2, RangeOfConcat DEF V, Collect
  <2>4. ASSUME NEW b \in Bases, b < m + 1 PROVE Range(spilled[b]) \subseteq Range(D[m + 1])
    <3>1. b < m \/ b = m
      BY <1>2, <2>1, <2>4
    <3>2. b = m => SpilledOf(m) = spilled[b]
      BY DEF SpilledOf
    <3> QED BY <1>5, <2>3, <3>1, <3>2
  <2> QED BY <2>1, <2>4
<1>6. S = 0 .. N
  <2>1. S \in SUBSET (0 .. N)
    OBVIOUS
  <2> HIDE DEF S
  <2> QED BY <1>2, <1>4, <1>5, <2>1, Ascent
<1>7. N \in 0 .. N
  BY <1>2
<1>8. D[N] \in V /\ \A b \in Bases : Range(spilled[b]) \subseteq Range(D[N])
  BY <1>1, <1>2, <1>6, <1>7
<1> QED BY <1>8 DEF AllSpilled, D, N, V

-----------------------------------------------------------------------------
(* The inductive invariant of the parallel construction                    *)

(* The end of worker b's range *)
Hi(b) == RangeEnd(bounds, b)

(* Key k starts in worker b's range, and clear of its margin, unless the   *)
(* range is the last one.                                                  *)
BelongsTo(b, k) ==
  /\ Start(hash[k]) \in b .. Hi(b) - 1
  /\ Hi(b) # NumSlots => Start(hash[k]) + G < Hi(b)

(* Workers whose rows never leave their range                              *)
Confined(b) == G >= W - 1 \/ Hi(b) = NumSlots

(* A call keeps its window, and starts every attempt from an empty matrix. *)
CallInv ==
  /\ window \in WindowSizes
  /\ phase = "workers" => threads > 1
  /\ phase = "caller" /\ pc = "order" => coeff_rows = NoRows

BucketInv ==
  phase = "workers" =>
    \A b \in Bases : \A m \in 1 .. Len(bucket[b]) : BelongsTo(b, bucket[b][m])

(* A worker goes through its bucket once, and is only busy while it has a  *)
(* key.                                                                    *)
WorkerInv ==
  phase = "workers" =>
    \A b \in Bases :
      /\ wn[b] \in 1 .. Len(bucket[b]) + 1
      /\ wpc[b] = "reduce" => wn[b] <= Len(bucket[b]) /\ InBand(b + wi[b], wcr[b])

(* Neither a row stored in a confined worker's range nor the row in its    *)
(* hand selects a slot past the end of the range.                          *)
ConfinedInv ==
  phase = "workers" =>
    \A b \in Bases : Confined(b) =>
      /\ spilled[b] = <<>>
      /\ \A s \in b .. Hi(b) - 1 : StaysBelow(s, coeff_rows[s], Hi(b))
      /\ wpc[b] = "reduce" => StaysBelow(b + wi[b], wcr[b], Hi(b))

(* No key is left out when the keys are dealt out.                         *)
PlacedInv ==
  phase = "workers" =>
    \A k \in Range(keys) : k \in Range(deferred) \/ \E b \in Bases : k \in Range(bucket[b])

(* StdParTypeOK and StdWorkersInBand are not inductive: that a row in hand *)
(* stays in the table needs the rows stored and the keys in the bucket,    *)
(* and that the last range does not spill needs the end of its range.      *)
StdParInv ==
  /\ StdInv /\ StdParTypeOK
  /\ CallInv /\ BucketInv /\ WorkerInv /\ ConfinedInv /\ PlacedInv

LEMMA ThreadsTile ==
  ASSUME window \in WindowSizes, threads \in ThreadCounts, threads > 1
  PROVE  Tiling(bounds)
<1> DEFINE m == NumWindows(window)
<1>1. threads \in Nat /\ window \in Nat \ {0} /\ NumSlots \in Nat \ {0}
  BY ThreadCountsAssumption, WindowSizesAssumption, TableSize
<1>2. m \in Nat \ {0}
  <2>1. m \in Nat /\ NumSlots <= window * m
    BY <1>1, CeilDivCovers DEF NumWindows
  <2> HIDE DEF m
  <2>2. m # 0
    BY <1>1, <2>1
  <2> QED BY <2>1, <2>2
<1> HIDE DEF m
<1>3. Min({threads, m}) = IF threads <= m THEN threads ELSE m
  BY <1>1, <1>2, MinOfTwo
<1>4. NumThreads \in Nat \ {0}
  BY <1>1, <1>2, <1>3 DEF NumThreads, m
<1> QED BY <1>1, <1>4, BoundsAreTiling DEF bounds

LEMMA BasesInTable ==
  ASSUME CallInv, StdParTypeOK, phase = "workers"
  PROVE  /\ Tiling(bounds) /\ Bases \subseteq Slots
         /\ \A b \in Bases :
              /\ b \in Slots /\ b \in Nat /\ b \in bounds
              /\ Hi(b) \in bounds /\ Hi(b) \in Nat
              /\ b < Hi(b) /\ Hi(b) <= NumSlots
              /\ \A x \in bounds : b < x => Hi(b) <= x
<1>1. Tiling(bounds)
  BY ThreadsTile DEF CallInv, StdParTypeOK
<1>2. ASSUME NEW b \in Bases
      PROVE  /\ b \in Slots /\ b \in Nat /\ b \in bounds
             /\ Hi(b) \in bounds /\ Hi(b) \in Nat
             /\ b < Hi(b) /\ Hi(b) <= NumSlots
             /\ \A x \in bounds : b < x => Hi(b) <= x
  <2>1. b \in RangesOf(bounds) /\ b \in bounds
    BY DEF Bases, RangesOf
  <2> QED BY <1>1, <2>1, RangeEnds DEF Hi
<1> QED BY <1>1, <1>2

LEMMA RangesUnchanged ==
  ASSUME UNCHANGED <<threads, window>>
  PROVE  /\ Bases' = Bases /\ bounds' = bounds
         /\ \A b : Hi(b)' = Hi(b) /\ (Confined(b)' <=> Confined(b)) /\ Length(b)' = Length(b)
<1>1. NumThreads' = NumThreads
  BY DEF NumThreads
<1>2. bounds' = bounds
  BY <1>1 DEF bounds
<1> QED BY <1>2 DEF Bases, Hi, Confined, Length

-----------------------------------------------------------------------------
(* A turn of worker b                                                      *)

(* What a turn may do: b moves, the others stand still, and at most one    *)
(* row is written, inside b's range.                                       *)
RangeTurn(b) ==
  /\ /\ wpc' \in [Bases -> {"next", "reduce", "failed"}]
     /\ wn' \in [Bases -> Nat \ {0}]
     /\ wi' \in [Bases -> Nat]
     /\ wcr' \in [Bases -> Word]
     /\ wrr' \in [Bases -> SUBSET ResultBits]
     /\ spilled' \in [Bases -> Seq(Range(keys))]
  /\ \A a \in Bases \ {b} :
       /\ wpc'[a] = wpc[a] /\ wn'[a] = wn[a] /\ wi'[a] = wi[a]
       /\ wcr'[a] = wcr[a] /\ wrr'[a] = wrr[a] /\ spilled'[a] = spilled[a]
  /\ wn'[b] \in 1 .. Len(bucket[b]) + 1
  /\ wpc'[b] = "reduce" => wn'[b] <= Len(bucket[b]) /\ InBand(b + wi'[b], wcr'[b])
  /\ Confined(b) =>
       /\ spilled'[b] = <<>>
       /\ wpc'[b] = "reduce" => StaysBelow(b + wi'[b], wcr'[b], Hi(b))
  /\ \/ UNCHANGED <<coeff_rows, result_rows>>
     \/ \E s \in b .. Hi(b) - 1 : \E c \in Word : \E r \in SUBSET ResultBits :
          /\ InBand(s, c)
          /\ Confined(b) => StaysBelow(s, c, Hi(b))
          /\ coeff_rows' = [coeff_rows EXCEPT ![s] = c]
          /\ result_rows' = [result_rows EXCEPT ![s] = r]

LEMMA RangeTurns ==
  ASSUME StdParInv, NEW b \in Slots, BandRange(b)
  PROVE  RangeTurn(b)
<1>0. /\ StdTypeOK /\ StdParTypeOK /\ CallInv /\ BucketInv /\ WorkerInv /\ ConfinedInv
      /\ StdRowsInBand
      /\ phase = "workers" /\ b \in Bases
  BY DEF StdParInv, StdInv, BandRange
<1> DEFINE N == Len(bucket[b])
<1>1. /\ b \in Nat /\ Hi(b) \in Nat /\ b < Hi(b) /\ Hi(b) <= NumSlots
      /\ NumSlots \in Nat /\ W \in Nat \ {0} /\ G \in Nat
  BY <1>0, BasesInTable, TableSize, WAssumption, GAssumption
<1>2. /\ wpc \in [Bases -> {"next", "reduce", "failed"}]
      /\ wn \in [Bases -> Nat \ {0}]
      /\ wi \in [Bases -> Nat]
      /\ wcr \in [Bases -> Word]
      /\ wrr \in [Bases -> SUBSET ResultBits]
      /\ spilled \in [Bases -> Seq(Range(keys))]
      /\ bucket[b] \in Seq(Range(keys))
      /\ coeff_rows \in [Slots -> Word]
      /\ result_rows \in [Slots -> SUBSET ResultBits]
  BY <1>0 DEF StdParTypeOK, StdTypeOK
<1>3. /\ wn[b] \in 1 .. N + 1
      /\ wpc[b] = "reduce" => wn[b] <= N /\ InBand(b + wi[b], wcr[b])
      /\ Confined(b) =>
           /\ spilled[b] = <<>>
           /\ \A s \in b .. Hi(b) - 1 : StaysBelow(s, coeff_rows[s], Hi(b))
           /\ wpc[b] = "reduce" => StaysBelow(b + wi[b], wcr[b], Hi(b))
  BY <1>0 DEF WorkerInv, ConfinedInv
<1>4. N \in Nat /\ \A m \in 1 .. N : bucket[b][m] \in Range(keys) /\ BelongsTo(b, bucket[b][m])
  BY <1>0, <1>2 DEF BucketInv
<1>5. CASE TakeKey(b)
  <2> DEFINE k == bucket[b][wn[b]]
             h == hash[k]
             s == Start(h)
             c == CoeffRow128(h)
             r == ResultRow(h)
  <2>1. k \in Range(keys) /\ BelongsTo(b, k) /\ wn[b] <= N
    BY <1>3, <1>4, <1>5 DEF TakeKey
  <2>2. s \in Nat /\ c \in Word /\ InBand(s, c) /\ r \in SUBSET ResultBits
    <3>1. h \in Hashes128
      BY <1>0, <2>1 DEF StdTypeOK
    <3> QED BY <3>1, KeyRow
  <2>3. b <= s /\ s < Hi(b) /\ (Hi(b) # NumSlots => s + G < Hi(b))
    BY <1>1, <2>1, <2>2 DEF BelongsTo
  <2>4. /\ wi' = [wi EXCEPT ![b] = s - b] /\ wcr' = [wcr EXCEPT ![b] = c]
        /\ wrr' = [wrr EXCEPT ![b] = r]
        /\ wpc' = [wpc EXCEPT ![b] = "reduce"]
        /\ UNCHANGED <<wn, spilled, coeff_rows, result_rows>>
    BY <1>5 DEF TakeKey, matrixVars
  <2> HIDE DEF k, h, s, c, r
  <2>5. s - b \in Nat /\ b + (s - b) = s
    BY <1>1, <2>2, <2>3
  <2>6. Confined(b) => StaysBelow(s, c, Hi(b))
    <3>1. CASE Hi(b) = NumSlots
      BY <2>2, <3>1 DEF InBand, StaysBelow
    <3>2. CASE Hi(b) # NumSlots /\ G >= W - 1
      <4>1. \A i \in c : i \in Nat /\ i <= W - 1
        BY <1>1, <2>2 DEF Word
      <4> QED BY <1>1, <2>2, <2>3, <3>2, <4>1 DEF StaysBelow
    <3> QED BY <3>1, <3>2 DEF Confined
  <2>7. wi'[b] = s - b /\ wcr'[b] = c /\ b + wi'[b] = s
    BY <1>0, <1>2, <2>4, <2>5
  <2>8. /\ wi' \in [Bases -> Nat] /\ wcr' \in [Bases -> Word]
        /\ wrr' \in [Bases -> SUBSET ResultBits]
        /\ wpc' \in [Bases -> {"next", "reduce", "failed"}]
    BY <1>2, <2>2, <2>4, <2>5
  <2>9. \A a \in Bases \ {b} :
          /\ wpc'[a] = wpc[a] /\ wn'[a] = wn[a] /\ wi'[a] = wi[a]
          /\ wcr'[a] = wcr[a] /\ wrr'[a] = wrr[a] /\ spilled'[a] = spilled[a]
    BY <1>2, <2>4
  <2> QED BY <1>0, <1>2, <1>3, <2>1, <2>2, <2>4, <2>6, <2>7, <2>8, <2>9 DEF RangeTurn
<1>6. CASE SpillKey(b)
  <2>1. /\ wpc[b] = "reduce" /\ wi[b] >= Length(b)
        /\ spilled' = [spilled EXCEPT ![b] = Append(@, bucket[b][wn[b]])]
        /\ wn' = [wn EXCEPT ![b] = @ + 1] /\ wpc' = [wpc EXCEPT ![b] = "next"]
        /\ UNCHANGED <<wi, wcr, wrr, coeff_rows, result_rows>>
    BY <1>6 DEF SpillKey, NextKey, matrixVars
  <2>2. ~Confined(b)
    <3> SUFFICES ASSUME Confined(b) PROVE FALSE
      OBVIOUS
    <3>1. b + wi[b] + 0 < Hi(b) /\ wi[b] \in Nat
      BY <1>0, <1>2, <1>3, <2>1 DEF InBand, StaysBelow
    <3> QED BY <1>1, <2>1, <3>1 DEF Length, Hi
  <2>3. bucket[b][wn[b]] \in Range(keys) /\ wn[b] + 1 \in 1 .. N + 1
    BY <1>3, <1>4, <2>1
  <2>4. spilled' \in [Bases -> Seq(Range(keys))]
    BY <1>0, <1>2, <2>1, <2>3
  <2>5. /\ wn' \in [Bases -> Nat \ {0}] /\ wpc' \in [Bases -> {"next", "reduce", "failed"}]
        /\ wn'[b] = wn[b] + 1 /\ wpc'[b] = "next"
        /\ \A a \in Bases \ {b} : wpc'[a] = wpc[a] /\ wn'[a] = wn[a] /\ spilled'[a] = spilled[a]
    BY <1>0, <1>2, <2>1, <2>3
  <2> QED BY <1>0, <1>2, <2>1, <2>2, <2>3, <2>4, <2>5 DEF RangeTurn
<1>7. CASE PlaceInRange(b)
  <2> DEFINE s == b + wi[b]
  <2>1. /\ wpc[b] = "reduce" /\ wi[b] < Length(b)
        /\ coeff_rows' = [coeff_rows EXCEPT ![s] = wcr[b]]
        /\ result_rows' = [result_rows EXCEPT ![s] = wrr[b]]
        /\ wn' = [wn EXCEPT ![b] = @ + 1] /\ wpc' = [wpc EXCEPT ![b] = "next"]
        /\ UNCHANGED <<wi, wcr, wrr, spilled>>
    BY <1>7 DEF PlaceInRange, NextKey
  <2>2. s \in b .. Hi(b) - 1
    <3>1. wi[b] \in Nat
      BY <1>0, <1>2
    <3> QED BY <1>1, <2>1, <3>1 DEF Length, Hi
  <2>3. /\ wcr[b] \in Word /\ wrr[b] \in SUBSET ResultBits /\ InBand(s, wcr[b])
        /\ Confined(b) => StaysBelow(s, wcr[b], Hi(b))
    BY <1>0, <1>2, <1>3, <2>1
  <2>4. wn[b] + 1 \in 1 .. N + 1
    BY <1>3, <1>4, <2>1
  <2> HIDE DEF s
  <2>5. \E t \in b .. Hi(b) - 1 : \E c \in Word : \E r \in SUBSET ResultBits :
          /\ InBand(t, c)
          /\ Confined(b) => StaysBelow(t, c, Hi(b))
          /\ coeff_rows' = [coeff_rows EXCEPT ![t] = c]
          /\ result_rows' = [result_rows EXCEPT ![t] = r]
    BY <2>1, <2>2, <2>3
  <2>6. /\ wpc' \in [Bases -> {"next", "reduce", "failed"}] /\ wn' \in [Bases -> Nat \ {0}]
        /\ wpc'[b] = "next" /\ wn'[b] = wn[b] + 1
        /\ \A a \in Bases \ {b} : wpc'[a] = wpc[a] /\ wn'[a] = wn[a]
    BY <1>0, <1>2, <2>1, <2>4
  <2> QED BY <1>0, <1>2, <1>3, <2>1, <2>4, <2>5, <2>6, Zenon DEF RangeTurn
<1>8. CASE DropInRange(b)
  <2>1. /\ wpc[b] = "reduce"
        /\ wn' = [wn EXCEPT ![b] = @ + 1] /\ wpc' = [wpc EXCEPT ![b] = "next"]
        /\ UNCHANGED <<wi, wcr, wrr, spilled, coeff_rows, result_rows>>
    BY <1>8 DEF DropInRange, NextKey, matrixVars
  <2>2. wn[b] + 1 \in 1 .. N + 1
    BY <1>3, <1>4, <2>1
  <2>3. /\ wpc' \in [Bases -> {"next", "reduce", "failed"}] /\ wn' \in [Bases -> Nat \ {0}]
        /\ wpc'[b] = "next" /\ wn'[b] = wn[b] + 1
        /\ \A a \in Bases \ {b} : wpc'[a] = wpc[a] /\ wn'[a] = wn[a]
    BY <1>0, <1>2, <2>1, <2>2
  <2> QED BY <1>0, <1>2, <1>3, <2>1, <2>2, <2>3 DEF RangeTurn
<1>9. CASE FailInRange(b)
  <2>1. /\ wpc' = [wpc EXCEPT ![b] = "failed"]
        /\ UNCHANGED <<wn, wi, wcr, wrr, spilled, coeff_rows, result_rows>>
    BY <1>9 DEF FailInRange, matrixVars
  <2>2. /\ wpc' \in [Bases -> {"next", "reduce", "failed"}]
        /\ wpc'[b] = "failed"
        /\ \A a \in Bases \ {b} : wpc'[a] = wpc[a]
    BY <1>0, <1>2, <2>1
  <2> QED BY <1>0, <1>2, <1>3, <2>1, <2>2 DEF RangeTurn
<1>10. CASE ReduceInRange(b)
  <2> DEFINE s  == b + wi[b]
             tz == TrailingZeros(SymDiff(wcr[b], coeff_rows[s]))
             r  == ShiftRight(SymDiff(wcr[b], coeff_rows[s]), tz)
             q  == SymDiff(wrr[b], result_rows[s])
  <2>1. /\ wpc[b] = "reduce" /\ wi[b] < Length(b)
        /\ coeff_rows[s] # {} /\ SymDiff(wcr[b], coeff_rows[s]) # {}
        /\ wi' = [wi EXCEPT ![b] = @ + tz]
        /\ wcr' = [wcr EXCEPT ![b] = r]
        /\ wrr' = [wrr EXCEPT ![b] = q]
        /\ UNCHANGED <<wpc, wn, spilled, coeff_rows, result_rows>>
    BY <1>10 DEF ReduceInRange, WorkerRowSum, WorkerResultSum, matrixVars
  <2>2. s \in b .. Hi(b) - 1 /\ s \in Slots /\ s \in Nat /\ wi[b] \in Nat
    <3>1. wi[b] \in Nat
      BY <1>0, <1>2
    <3> QED BY <1>1, <2>1, <3>1 DEF Length, Hi, Slots
  <2>3. wcr[b] \in Word /\ coeff_rows[s] \in Word /\ q \in SUBSET ResultBits
    BY <1>0, <1>2, <2>2 DEF SymDiff
  <2>4. /\ StaysBelow(s, wcr[b], NumSlots) /\ StaysBelow(s, coeff_rows[s], NumSlots)
        /\ Confined(b) => StaysBelow(s, wcr[b], Hi(b)) /\ StaysBelow(s, coeff_rows[s], Hi(b))
    <3>1. StaysBelow(s, wcr[b], NumSlots)
      BY <1>3, <2>1, InBandStaysBelow
    <3>2. StaysBelow(s, coeff_rows[s], NumSlots)
      BY <1>0, <2>1, <2>2, InBandStaysBelow DEF StdRowsInBand
    <3> QED BY <1>3, <2>1, <2>2, <3>1, <3>2
  <2>5. /\ tz \in Nat /\ r \in Word /\ 0 \in r
        /\ \A end \in Nat : StaysBelow(s, wcr[b], end) /\ StaysBelow(s, coeff_rows[s], end)
                              => StaysBelow(s + tz, r, end)
    BY <2>1, <2>2, <2>3, ReducedRow
  <2> HIDE DEF tz, r, q
  <2>6. /\ InBand(s + tz, r)
        /\ Confined(b) => StaysBelow(s + tz, r, Hi(b))
    BY <1>1, <2>4, <2>5, InBandStaysBelow
  <2>7. wi'[b] = wi[b] + tz /\ wcr'[b] = r /\ b + (wi[b] + tz) = s + tz
    <3>1. b + (wi[b] + tz) = s + tz
      BY <1>1, <2>2, <2>5
    <3> QED BY <1>0, <1>2, <2>1, <3>1
  <2>8. /\ wi' \in [Bases -> Nat] /\ wcr' \in [Bases -> Word]
        /\ wrr' \in [Bases -> SUBSET ResultBits]
    BY <1>0, <1>2, <2>1, <2>2, <2>3, <2>5
  <2> HIDE DEF s
  <2>9. InBand(b + wi'[b], wcr'[b]) /\ (Confined(b) => StaysBelow(b + wi'[b], wcr'[b], Hi(b)))
    BY <2>6, <2>7
  <2>10. \A a \in Bases \ {b} : wi'[a] = wi[a] /\ wcr'[a] = wcr[a] /\ wrr'[a] = wrr[a]
    BY <1>2, <2>1
  <2> QED BY <1>0, <1>2, <1>3, <2>1, <2>8, <2>9, <2>10 DEF RangeTurn
<1> QED BY <1>5, <1>6, <1>7, <1>8, <1>9, <1>10 DEF BandRange

LEMMA RangeParInv ==
  ASSUME StdParInv, NEW b \in Slots, BandRange(b)
  PROVE  StdParInv'
<1>0. /\ StdInv /\ StdTypeOK /\ StdRowsInBand /\ LoopsInv
      /\ StdParTypeOK /\ CallInv /\ BucketInv /\ WorkerInv /\ ConfinedInv /\ PlacedInv
  BY DEF StdParInv, StdInv
<1>1. /\ phase = "workers" /\ b \in Bases /\ pc = "order"
      /\ UNCHANGED <<keys, window, tried, hash, pc, ordered, n, pos, cr, rr, data,
                     threads, phase, bucket, deferred>>
  BY <1>0 DEF BandRange, callVars, seedVars, addVars, StdParTypeOK
<1>2. RangeTurn(b)
  BY RangeTurns
<1>3. Bases' = Bases /\ \A a : Hi(a)' = Hi(a) /\ (Confined(a)' <=> Confined(a))
  BY <1>1, RangesUnchanged
<1>4. \A a \in Bases :
        /\ a \in Slots /\ a \in Nat /\ a \in bounds /\ Hi(a) \in Nat /\ a < Hi(a)
        /\ Hi(a) <= NumSlots
        /\ \A x \in bounds : a < x => Hi(a) <= x
  BY <1>0, <1>1, BasesInTable
(* The rows of the matrix *)
<1>5. /\ coeff_rows' \in [Slots -> Word] /\ result_rows' \in [Slots -> SUBSET ResultBits]
      /\ \A s \in Slots :
           \/ coeff_rows'[s] = coeff_rows[s] /\ result_rows'[s] = result_rows[s]
           \/ /\ s \in b .. Hi(b) - 1 /\ InBand(s, coeff_rows'[s])
              /\ Confined(b) => StaysBelow(s, coeff_rows'[s], Hi(b))
  <2>0. coeff_rows \in [Slots -> Word] /\ result_rows \in [Slots -> SUBSET ResultBits]
    BY <1>0 DEF StdTypeOK
  <2>1. CASE UNCHANGED <<coeff_rows, result_rows>>
    BY <2>0, <2>1
  <2>2. ASSUME NEW t \in b .. Hi(b) - 1, NEW c \in Word, NEW r \in SUBSET ResultBits,
               InBand(t, c), Confined(b) => StaysBelow(t, c, Hi(b)),
               coeff_rows' = [coeff_rows EXCEPT ![t] = c],
               result_rows' = [result_rows EXCEPT ![t] = r]
        PROVE  /\ coeff_rows' \in [Slots -> Word]
               /\ result_rows' \in [Slots -> SUBSET ResultBits]
               /\ \A s \in Slots :
                    \/ coeff_rows'[s] = coeff_rows[s] /\ result_rows'[s] = result_rows[s]
                    \/ /\ s \in b .. Hi(b) - 1 /\ InBand(s, coeff_rows'[s])
                       /\ Confined(b) => StaysBelow(s, coeff_rows'[s], Hi(b))
    BY <2>0, <2>2
  <2> QED BY <1>2, <2>1, <2>2 DEF RangeTurn
<1>6. StdInv'
  <2>1. StdTypeOK'
    BY <1>0, <1>1, <1>5 DEF StdTypeOK
  <2>2. ASSUME NEW s \in Slots
        PROVE  IF coeff_rows'[s] = {} THEN result_rows'[s] = {}
                                     ELSE InBand(s, coeff_rows'[s])
    <3>1. CASE coeff_rows'[s] = coeff_rows[s] /\ result_rows'[s] = result_rows[s]
      BY <1>0, <3>1 DEF StdRowsInBand
    <3>2. CASE InBand(s, coeff_rows'[s])
      BY <3>2 DEF InBand
    <3> QED BY <1>5, <3>1, <3>2
  <2>3. StdRowsInBand'
    BY <1>1, <2>2 DEF StdRowsInBand, InBand
  <2>4. LoopsInv'
    BY <1>0, <1>1 DEF LoopsInv
  <2> QED BY <2>1, <2>3, <2>4 DEF StdInv
<1>7. StdParTypeOK'
  BY <1>0, <1>1, <1>2, <1>3, <1>6 DEF StdParTypeOK, RangeTurn, StdInv
<1>8. CallInv' /\ BucketInv' /\ PlacedInv'
  <2>1. CallInv'
    BY <1>0, <1>1 DEF CallInv
  <2>2. BucketInv'
    BY <1>0, <1>1, <1>3 DEF BucketInv, BelongsTo
  <2>3. PlacedInv'
    BY <1>0, <1>1, <1>3 DEF PlacedInv
  <2> QED BY <2>1, <2>2, <2>3
<1>9. WorkerInv'
  BY <1>0, <1>1, <1>2, <1>3 DEF WorkerInv, RangeTurn
<1>10. ConfinedInv'
  <2> SUFFICES ASSUME NEW a \in Bases, Confined(a)
               PROVE  /\ spilled'[a] = <<>>
                      /\ \A s \in a .. Hi(a) - 1 : StaysBelow(s, coeff_rows'[s], Hi(a))
                      /\ wpc'[a] = "reduce" => StaysBelow(a + wi'[a], wcr'[a], Hi(a))
    BY <1>1, <1>3 DEF ConfinedInv
  <2>1. /\ spilled'[a] = <<>>
        /\ wpc'[a] = "reduce" => StaysBelow(a + wi'[a], wcr'[a], Hi(a))
    BY <1>0, <1>1, <1>2 DEF ConfinedInv, RangeTurn
  <2>2. ASSUME NEW s \in a .. Hi(a) - 1
        PROVE  StaysBelow(s, coeff_rows'[s], Hi(a))
    <3>1. s \in Slots
      BY <1>4, TableSize DEF Slots
    <3>2. CASE a = b
      BY <1>0, <1>1, <1>5, <2>2, <3>1, <3>2 DEF ConfinedInv
    <3>3. CASE a # b
      <4>1. a < b => Hi(a) <= b
        BY <1>1, <1>4
      <4>2. b < a => Hi(b) <= a
        BY <1>1, <1>4
      <4>3. s \notin b .. Hi(b) - 1
        BY <1>1, <1>4, <3>3, <4>1, <4>2
      <4> QED BY <1>0, <1>1, <1>5, <2>2, <3>1, <4>3 DEF ConfinedInv
    <3> QED BY <3>2, <3>3
  <2> QED BY <2>1, <2>2
<1> QED BY <1>6, <1>7, <1>8, <1>9, <1>10 DEF StdParInv

-----------------------------------------------------------------------------
(* The caller's steps                                                      *)

LEMMA ParInitInv == ParInit => StdParInv
<1> SUFFICES ASSUME ParInit PROVE StdParInv
  OBVIOUS
<1>1. StdInv
  BY InitStdInv DEF ParInit
<1>2. phase = "caller" /\ pc = "seed" /\ deferred = <<>> /\ threads \in ThreadCounts
      /\ window \in WindowSizes
  BY DEF ParInit, Init
<1>3. StdParTypeOK
  <2>1. <<>> \in Seq(Range(keys))
    OBVIOUS
  <2> QED BY <1>1, <1>2, <2>1 DEF StdParTypeOK, StdInv
<1>4. CallInv /\ BucketInv /\ WorkerInv /\ ConfinedInv /\ PlacedInv
  BY <1>2 DEF CallInv, BucketInv, WorkerInv, ConfinedInv, PlacedInv
<1> QED BY <1>1, <1>3, <1>4 DEF StdParInv

(* Steps of the sequential construction, while the caller is alone         *)
LEMMA SequentialParInv ==
  ASSUME StdParInv, [Next]_vars, UNCHANGED parVars, phase = "workers" => UNCHANGED vars
  PROVE  StdParInv'
<1>0. /\ StdInv /\ StdParTypeOK /\ CallInv /\ BucketInv /\ WorkerInv /\ ConfinedInv /\ PlacedInv
  BY DEF StdParInv
<1>1. StdInv'
  BY <1>0, NextStdInv
<1>2. /\ UNCHANGED <<threads, phase, bucket, deferred, wpc, wn, wi, wcr, wrr, spilled>>
      /\ phase \in {"caller", "workers"}
  BY <1>0 DEF parVars, workerVars, StdParTypeOK
<1>3. UNCHANGED <<keys, window>>
  BY DEF Next, FindSeed, Reset, GiveUp, Order, Add, AddKey, PlaceRow, DropRow, Reject,
         ReduceRow, IntoSolution, vars, callVars
<1>4. CASE phase = "caller"
  <2>1. pc' = "order" => coeff_rows' = NoRows
    <3>1. CASE Reset
      BY <3>1 DEF Reset
    <3>2. CASE UNCHANGED vars
      BY <1>0, <1>4, <3>2 DEF vars, matrixVars, CallInv
    <3>3. CASE Next /\ ~Reset
      BY <3>3 DEF Next, FindSeed, GiveUp, Order, Add, AddKey, PlaceRow, DropRow, Reject,
                  ReduceRow, IntoSolution
    <3> QED BY <3>1, <3>2, <3>3
  <2>2. /\ phase' = "caller" /\ threads' \in ThreadCounts /\ window' \in WindowSizes
        /\ deferred' \in Seq(Range(keys'))
    BY <1>0, <1>2, <1>3, <1>4 DEF CallInv, StdParTypeOK
  <2>3. StdParTypeOK'
    BY <1>1, <2>2 DEF StdParTypeOK, StdInv
  <2>4. CallInv' /\ BucketInv' /\ WorkerInv' /\ ConfinedInv' /\ PlacedInv'
    BY <2>1, <2>2 DEF CallInv, BucketInv, WorkerInv, ConfinedInv, PlacedInv
  <2> QED BY <1>1, <2>3, <2>4 DEF StdParInv
<1>5. CASE phase = "workers"
  <2>1. UNCHANGED <<hash, pc, coeff_rows, result_rows>>
    BY <1>5 DEF vars, seedVars, matrixVars
  <2>2. Bases' = Bases /\ \A b : Hi(b)' = Hi(b) /\ (Confined(b)' <=> Confined(b))
    BY <1>2, <1>3, RangesUnchanged
  <2>3. StdParTypeOK'
    BY <1>0, <1>1, <1>2, <1>3, <2>1, <2>2 DEF StdParTypeOK, StdInv
  <2>4. CallInv' /\ BucketInv'
    BY <1>0, <1>2, <1>3, <2>1, <2>2 DEF CallInv, BucketInv, BelongsTo
  <2>5. WorkerInv' /\ ConfinedInv' /\ PlacedInv'
    BY <1>0, <1>2, <1>3, <2>1, <2>2 DEF WorkerInv, ConfinedInv, PlacedInv
  <2> QED BY <1>1, <2>3, <2>4, <2>5 DEF StdParInv
<1> QED BY <1>2, <1>4, <1>5

(* Where a key goes                                                        *)
LEMMA KeyGoes ==
  ASSUME StdTypeOK, Tiling(bounds), NEW k \in Range(keys)
  PROVE  /\ Place(k) \in Places
         /\ Place(k) \in Bases => BelongsTo(Place(k), k)
<1> DEFINE s == Start(hash[k])
           b == RangeOf(bounds, s)
<1>1. s \in Slots /\ s \in Nat
  <2>1. hash[k] \in Hashes128
    BY DEF StdTypeOK
  <2> QED BY <2>1, KeyRow
<1>2. Place(k) = IF IsDeferred(bounds, s) THEN -1 ELSE b
  BY DEF Place
<1>3. \A x \in Bases : x \in Nat /\ Hi(x) \in Nat
  BY RangeEnds DEF Bases, Hi
<1>4. b \in Bases /\ b <= s /\ s < Hi(b)
  BY <1>1, SlotInRange DEF Bases, Hi
<1>5. ASSUME ~IsDeferred(bounds, s)
      PROVE  BelongsTo(b, k)
  <2>1. Hi(b) # NumSlots => ~(s + G >= Hi(b))
    BY <1>5, LastBound DEF IsDeferred, Hi
  <2> HIDE DEF s, b
  <2>2. s \in b .. Hi(b) - 1 /\ (Hi(b) # NumSlots => s + G < Hi(b))
    BY <1>1, <1>3, <1>4, <2>1, GAssumption
  <2> QED BY <2>2 DEF BelongsTo, s
<1> HIDE DEF s, b
<1>6. CASE IsDeferred(bounds, s)
  <2>1. Place(k) = -1 /\ -1 \notin Bases
    BY <1>2, <1>3, <1>6
  <2> QED BY <2>1 DEF Places
<1>7. CASE ~IsDeferred(bounds, s)
  BY <1>2, <1>4, <1>5, <1>7 DEF Places
<1> QED BY <1>6, <1>7

LEMMA SpawnParInv ==
  ASSUME StdParInv, Spawn
  PROVE  StdParInv'
<1>0. /\ StdInv /\ StdTypeOK /\ StdParTypeOK /\ CallInv
  BY DEF StdParInv, StdInv
<1> DEFINE d == DealtOut[Len(keys)]
<1>1. /\ phase = "caller" /\ pc = "order" /\ threads > 1 /\ phase' = "workers"
      /\ deferred' = d[-1] /\ bucket' = [b \in Bases |-> d[b]]
      /\ wpc' = [b \in Bases |-> "next"] /\ wn' = [b \in Bases |-> 1]
      /\ wi' = [b \in Bases |-> 0] /\ wcr' = [b \in Bases |-> {}]
      /\ wrr' = [b \in Bases |-> {}]
      /\ spilled' = [b \in Bases |-> <<>>]
      /\ UNCHANGED <<vars, threads>>
  BY DEF Spawn
<1>2. UNCHANGED <<keys, window, hash, pc, coeff_rows, result_rows>>
  BY <1>1 DEF vars, callVars, seedVars, matrixVars
<1>3. StdInv' /\ StdTypeOK'
  BY <1>0, <1>1, NextStdInv DEF StdInv
<1>4. Bases' = Bases /\ \A b : Hi(b)' = Hi(b) /\ (Confined(b)' <=> Confined(b))
  BY <1>1, <1>2, RangesUnchanged
<1>5. Tiling(bounds)
  BY <1>0, <1>1, ThreadsTile DEF CallInv, StdParTypeOK
<1>6. keys \in Inputs /\ \A k \in Range(keys) :
        /\ Place(k) \in Places
        /\ Place(k) \in Bases => BelongsTo(Place(k), k)
  BY <1>0, <1>5, KeyGoes DEF StdTypeOK
<1>7. DealtWell(d, Len(keys)) /\ d \in [Places -> Seq(Range(keys))]
  BY <1>6, DealingIsSound DEF Deals
<1> HIDE DEF d
<1>8. /\ bucket' \in [Bases -> Seq(Range(keys))] /\ deferred' \in Seq(Range(keys))
      /\ \A b \in Bases : bucket'[b] = d[b]
  BY <1>1, <1>7 DEF Places
<1>9. StdParTypeOK'
  <2>1. /\ wpc' \in [Bases -> {"next", "reduce", "failed"}] /\ wn' \in [Bases -> Nat \ {0}]
        /\ wi' \in [Bases -> Nat]
        /\ wcr' \in [Bases -> Word] /\ wrr' \in [Bases -> SUBSET ResultBits]
        /\ spilled' \in [Bases -> Seq(Range(keys))]
    BY <1>1 DEF Word
  <2> QED BY <1>0, <1>1, <1>2, <1>3, <1>4, <1>8, <2>1 DEF StdParTypeOK
<1>10. CallInv'
  BY <1>0, <1>1, <1>2 DEF CallInv
<1>11. BucketInv'
  <2>1. ASSUME NEW b \in Bases, NEW m \in 1 .. Len(d[b]) PROVE BelongsTo(b, d[b][m])
    <3>1. d[b] \in Seq(Range(keys)) /\ b \in Places
      BY <1>7 DEF Places
    <3>2. d[b][m] \in Range(keys) /\ Place(d[b][m]) = b
      BY <1>7, <3>1 DEF DealtWell
    <3> QED BY <1>6, <3>2
  <2> QED BY <1>2, <1>4, <1>8, <2>1 DEF BucketInv, BelongsTo
<1>12. PlacedInv'
  <2>1. ASSUME NEW k \in Range(keys)
        PROVE  k \in Range(deferred') \/ \E b \in Bases : k \in Range(bucket'[b])
    <3>1. PICK i \in 1 .. Len(keys) : k = keys[i]
      BY <1>6, InputsAssumption DEF Range
    <3>2. PICK p \in Places : k \in Range(d[p])
      BY <1>7, <3>1 DEF DealtWell
    <3> QED BY <1>1, <1>8, <3>2 DEF Places
  <2> QED BY <1>2, <1>4, <2>1 DEF PlacedInv
<1>13. WorkerInv'
  <2>1. \A b \in Bases : Len(bucket'[b]) \in Nat
    BY <1>8
  <2> QED BY <1>1, <1>4, <2>1 DEF WorkerInv
<1>14. ConfinedInv'
  <2>1. \A b \in Bases : \A s \in b .. Hi(b) - 1 : coeff_rows[s] = {}
    <3> SUFFICES ASSUME NEW b \in Bases, NEW s \in b .. Hi(b) - 1 PROVE coeff_rows[s] = {}
      OBVIOUS
    <3>1. b \in Nat /\ Hi(b) \in Nat /\ Hi(b) <= NumSlots /\ NumSlots \in Nat
      BY <1>5, RangeEnds, TableSize DEF Bases, Hi
    <3>2. s \in Slots
      BY <3>1 DEF Slots
    <3> QED BY <1>0, <1>1, <3>2 DEF CallInv, NoRows
  <2> QED BY <1>1, <1>2, <1>4, <2>1 DEF ConfinedInv, StaysBelow
<1> QED BY <1>3, <1>9, <1>10, <1>11, <1>12, <1>13, <1>14 DEF StdParInv

LEMMA JoinParInv ==
  ASSUME StdParInv, Join
  PROVE  StdParInv'
<1>0. /\ StdInv /\ StdTypeOK /\ StdRowsInBand /\ LoopsInv /\ StdParTypeOK /\ CallInv
  BY DEF StdParInv, StdInv
<1>1. /\ phase = "workers" /\ phase' = "caller" /\ deferred' = <<>>
      /\ IF SeedFails THEN pc' = "seed" /\ UNCHANGED ordered
                      ELSE pc' = "next" /\ ordered' = deferred \o AllSpilled
      /\ UNCHANGED <<keys, window, tried, hash, coeff_rows, result_rows, n, pos, cr, rr,
                     data, threads>>
  BY DEF Join, Joined, callVars, seedVars, matrixVars
<1>2. pc = "order" /\ ordered = <<>> /\ n = 1 /\ pc' \in {"seed", "next"}
  BY <1>0, <1>1 DEF StdParTypeOK, LoopsInv, StdTypeOK
<1>3. ordered' \in Seq(Range(keys))
  <2>1. AllSpilled \in Seq(Range(keys)) /\ deferred \in Seq(Range(keys))
    BY <1>0, <1>1, BasesInTable, SpilledAreCollected DEF StdParTypeOK
  <2>2. deferred \o AllSpilled \in Seq(Range(keys)) /\ <<>> \in Seq(Range(keys))
    BY <2>1
  <2> QED BY <1>1, <1>2, <2>2
<1>4. StdInv'
  <2>1. n' \in 1 .. Len(ordered') + 1
    BY <1>1, <1>2, <1>3
  <2>2. StdTypeOK'
    BY <1>0, <1>1, <1>2, <1>3, <2>1 DEF StdTypeOK
  <2>3. StdRowsInBand' /\ LoopsInv'
    BY <1>0, <1>1, <1>2 DEF StdRowsInBand, LoopsInv
  <2> QED BY <2>2, <2>3 DEF StdInv
<1>5. /\ threads' \in ThreadCounts /\ window' \in WindowSizes
      /\ deferred' \in Seq(Range(keys')) /\ pc' # "order"
  BY <1>0, <1>1, <1>2 DEF StdParTypeOK, CallInv
<1>6. StdParTypeOK'
  BY <1>1, <1>4, <1>5 DEF StdParTypeOK, StdInv
<1>7. CallInv' /\ BucketInv' /\ WorkerInv' /\ ConfinedInv' /\ PlacedInv'
  BY <1>1, <1>5 DEF CallInv, BucketInv, WorkerInv, ConfinedInv, PlacedInv
<1> QED BY <1>4, <1>6, <1>7 DEF StdParInv

(* What a step of the parallel builder is: one of the sequential builder,  *)
(* while no worker runs, or one of the parallel part                       *)
LEMMA ParSteps ==
  ASSUME StdParInv, [ParNext]_allVars
  PROVE  \/ [Next]_vars /\ UNCHANGED parVars /\ (phase = "workers" => UNCHANGED vars)
         \/ Spawn
         \/ Join
         \/ \E b \in Slots : BandRange(b)
<1>1. phase = "workers" => pc = "order" /\ threads > 1 /\ threads \in Nat
  BY ThreadCountsAssumption DEF StdParInv, StdParTypeOK, CallInv
<1>2. CASE PleatedFallback
  <2>1. Order /\ UNCHANGED parVars /\ threads <= 1
    BY <1>2 DEF PleatedFallback
  <2>2. phase # "workers"
    BY <1>1, <2>1
  <2> QED BY <2>1, <2>2 DEF Next, FindSeed
<1>3. CASE (Reset \/ GiveUp \/ Add \/ IntoSolution) /\ UNCHANGED parVars
  <2>1. pc # "order"
    BY <1>3 DEF Reset, GiveUp, Add, AddKey, PlaceRow, DropRow, Reject, ReduceRow, IntoSolution
  <2> QED BY <1>1, <1>3, <2>1 DEF Next, FindSeed
<1>4. CASE UNCHANGED allVars
  BY <1>4 DEF allVars
<1> QED BY <1>2, <1>3, <1>4 DEF ParNext, Caller

LEMMA ParInvariant == ParSpec => []StdParInv
<1>1. StdParInv /\ [ParNext]_allVars => StdParInv'
  BY ParSteps, SequentialParInv, SpawnParInv, JoinParInv, RangeParInv
<1> QED BY <1>1, ParInitInv, PTL DEF ParSpec

(* The state of the parallel builder is well typed, in every attempt.      *)
THEOREM StdParTypeCorrect == ParSpec => []StdParTypeOK
<1>1. StdParInv => StdParTypeOK
  BY DEF StdParInv
<1> QED BY <1>1, ParInvariant, PTL

(* However the workers of band_range_128 interleave, the row in hand of    *)
(* each starts and ends inside the table, and the worker of the last range *)
(* spills no key.                                                          *)
THEOREM StdWorkersStayInBand == ParSpec => []StdWorkersInBand
<1>1. StdParInv => StdWorkersInBand
  <2> SUFFICES ASSUME StdParInv, NEW b \in Working
               PROVE  /\ wpc[b] = "reduce" => InBand(b + wi[b], wcr[b])
                      /\ Hi(b) = NumSlots => spilled[b] = <<>>
    BY DEF StdWorkersInBand, Reducing, Hi
  <2>1. phase = "workers" /\ b \in Bases
    BY DEF Working
  <2> QED BY <2>1 DEF StdParInv, WorkerInv, ConfinedInv, Confined
<1> QED BY <1>1, ParInvariant, PTL

(* A margin of W - 1 slots is enough for no worker of any attempt to spill *)
(* a key; the code's 1 << 14 exceeds it by far.                            *)
THEOREM StdMarginSuffices == ParSpec => []StdMarginPreventsSpills
<1>1. StdParInv => StdMarginPreventsSpills
  BY DEF StdParInv, ConfinedInv, Confined, StdMarginPreventsSpills, Working
<1> QED BY <1>1, ParInvariant, PTL

-----------------------------------------------------------------------------
(* The equations, while the workers run                                    *)

(* What is left of the row in worker b's hand, and the key it came from    *)
RowOf(b) == RowEquation(b + wi[b], wcr[b], wrr[b])
KeyOf(b) == Equation(hash[bucket[b][wn[b]]])

(* The keys worker b has finished with, the ones it spilled included       *)
Dealt(b) == {bucket[b][m] : m \in 1 .. wn[b] - 1}

(* StdParEquationsPreserved for one candidate solution X of column j, and  *)
(* what the caller has in hand                                             *)
ParPreservedFor(X, j) ==
  /\ HandSaysKey(X, j)
  /\ phase = "workers" \/ pc \in {"next", "reduce"} =>
       /\ Solves(X, j, KeyEquations) => Solves(X, j, StoredEquations)
       /\ Solves(X, j, StoredEquations) =>
            \A k \in Settled : Satisfies(X, j, Equation(hash[k]))
  /\ Solves(X, j, StoredEquations) =>
       \A b \in Reducing : Satisfies(X, j, RowOf(b)) <=> Satisfies(X, j, KeyOf(b))

LEMMA SettledByWorkers ==
  ASSUME phase = "workers"
  PROVE  /\ Reducing = {b \in Bases : wpc[b] = "reduce"}
         /\ \A x : x \in Settled <=> \E b \in Bases : x \in Dealt(b) /\ x \notin Range(spilled[b])
BY DEF Reducing, Working, Settled, Dealt

(* The key that worker b has dealt with                                    *)
LEMMA KeyDealt ==
  ASSUME StdParInv, NEW b \in Slots, BandRange(b), wn' = [wn EXCEPT ![b] = @ + 1]
  PROVE  LET k == bucket[b][wn[b]]
         IN  /\ UNCHANGED spilled => \A x \in Settled' : x \in Settled \/ x = k
             /\ spilled' = [spilled EXCEPT ![b] = Append(@, k)] /\ k \in Range(keys)
                  => \A x \in Settled' : x \in Settled
<1> DEFINE k == bucket[b][wn[b]]
<1>1. phase = "workers" /\ b \in Bases /\ UNCHANGED <<phase, bucket, threads, window>>
  BY DEF BandRange, callVars
<1>2. Bases' = Bases
  BY <1>1, RangesUnchanged
<1>3. wn \in [Bases -> Nat \ {0}] /\ spilled \in [Bases -> Seq(Range(keys))]
  BY <1>1 DEF StdParInv, StdParTypeOK
<1>4. \A a \in Bases \ {b} : Dealt(a)' = Dealt(a)
  BY <1>1, <1>3 DEF Dealt
<1>5. Dealt(b)' = Dealt(b) \cup {k}
  <2> DEFINE w == wn[b]
  <2>1. w \in Nat \ {0} /\ wn'[b] = w + 1
    BY <1>1, <1>3
  <2> HIDE DEF w
  <2>2. 1 .. wn'[b] - 1 = (1 .. w - 1) \cup {w}
    BY <2>1
  <2> QED BY <1>1, <2>2 DEF Dealt, w
<1> HIDE DEF k
<1>6. /\ \A x : x \in Settled <=> \E a \in Bases : x \in Dealt(a) /\ x \notin Range(spilled[a])
      /\ \A x : x \in Settled' <=> \E a \in Bases : x \in Dealt(a)' /\ x \notin Range(spilled'[a])
  BY <1>1, <1>2 DEF Settled, Dealt
<1>7. ASSUME UNCHANGED spilled, NEW x \in Settled'
      PROVE  x \in Settled \/ x = k
  BY <1>4, <1>5, <1>6, <1>7
<1>8. ASSUME spilled' = [spilled EXCEPT ![b] = Append(@, k)], k \in Range(keys), NEW x \in Settled'
      PROVE  x \in Settled
  <2>1. Range(spilled'[b]) = Range(spilled[b]) \cup {k}
    BY <1>1, <1>3, <1>8, RangeOfAppend
  <2>2. \A a \in Bases \ {b} : spilled'[a] = spilled[a]
    BY <1>3, <1>8
  <2>3. PICK a \in Bases : x \in Dealt(a)' /\ x \notin Range(spilled'[a])
    BY <1>6
  <2> QED BY <1>1, <1>4, <1>5, <1>6, <2>1, <2>2, <2>3
<1> QED BY <1>7, <1>8 DEF k

(* The row in worker b's hand *)
LEMMA HandOfWorker ==
  ASSUME StdParInv, NEW b \in Bases, phase = "workers", wpc[b] = "reduce"
  PROVE  /\ bucket[b][wn[b]] \in Range(keys) /\ KeyOf(b) \in KeyEquations
         /\ wcr[b] \in Word /\ wrr[b] \in SUBSET ResultBits /\ wi[b] \in Nat
         /\ 0 \in wcr[b] /\ b \in Nat /\ b \in Reducing
         /\ wi[b] < Length(b) => b + wi[b] \in Slots /\ b + wi[b] \in Nat
<1>1. /\ StdParTypeOK /\ CallInv /\ InBand(b + wi[b], wcr[b]) /\ wn[b] \in 1 .. Len(bucket[b])
      /\ bucket[b] \in Seq(Range(keys))
  BY DEF StdParInv, WorkerInv, StdParTypeOK
<1>2. b \in Nat /\ Hi(b) \in Nat /\ Hi(b) <= NumSlots /\ NumSlots \in Nat
  BY <1>1, BasesInTable, TableSize
<1>3. wcr[b] \in Word /\ wrr[b] \in SUBSET ResultBits /\ wi[b] \in Nat
  BY <1>1 DEF StdParTypeOK
<1>4. bucket[b][wn[b]] \in Range(keys)
  BY <1>1
<1>5. KeyOf(b) \in KeyEquations
  BY <1>4 DEF KeyOf, KeyEquations
<1>6. wi[b] < Length(b) => b + wi[b] \in Slots /\ b + wi[b] \in Nat
  BY <1>2, <1>3 DEF Length, Hi, Slots
<1>7. b \in Reducing
  BY DEF Reducing, Working
<1> QED BY <1>1, <1>2, <1>3, <1>4, <1>5, <1>6, <1>7 DEF InBand

(* What a turn of worker b does to the equations: as long as it is busy    *)
(* with a key the matrix stays as it is, and once it is done with it the   *)
(* rows stored are solved by the solutions of the rows before that solve   *)
(* the key's row; no other worker's hand is touched.                       *)
LEMMA RangeStep ==
  ASSUME StdParInv, NEW b \in Slots, BandRange(b), NEW X, NEW j, ParPreservedFor(X, j)
  PROVE  /\ \A a \in Reducing' \ {b} : a \in Reducing /\ RowOf(a)' = RowOf(a) /\ KeyOf(a)' = KeyOf(a)
         /\ b \in Reducing' /\ Solves(X, j, StoredEquations') =>
              (Satisfies(X, j, RowOf(b)') <=> Satisfies(X, j, KeyOf(b)'))
         /\ \/ /\ StoredEquations' = StoredEquations
               /\ \A x \in Settled' : x \in Settled
            \/ /\ KeyOf(b) \in KeyEquations
               /\ \A x \in Settled' : x \in Settled \/ Equation(hash[x]) = KeyOf(b)
               /\ Solves(X, j, StoredEquations')
                    <=> Solves(X, j, StoredEquations) /\ Satisfies(X, j, KeyOf(b))
<1>0. /\ StdTypeOK /\ StdParTypeOK /\ CallInv
  BY DEF StdParInv, StdInv
<1>1. /\ phase = "workers" /\ b \in Bases
      /\ UNCHANGED <<keys, hash, phase, bucket, threads, window>>
  BY DEF BandRange, callVars, seedVars
<1>2. Bases' = Bases
  BY <1>1, RangesUnchanged
<1>3. /\ Reducing = {a \in Bases : wpc[a] = "reduce"}
      /\ Reducing' = {a \in Bases : wpc'[a] = "reduce"}
  BY <1>1, <1>2 DEF Reducing, Working
<1>4. /\ wpc \in [Bases -> {"next", "reduce", "failed"}] /\ wn \in [Bases -> Nat \ {0}]
      /\ wi \in [Bases -> Nat] /\ wcr \in [Bases -> Word] /\ wrr \in [Bases -> SUBSET ResultBits]
      /\ coeff_rows \in [Slots -> Word] /\ result_rows \in [Slots -> SUBSET ResultBits]
      /\ b \in Nat
  BY <1>0, <1>1, BasesInTable DEF StdParTypeOK, StdTypeOK
<1>5. ASSUME NEW a \in Reducing' \ {b}
      PROVE  a \in Reducing /\ RowOf(a)' = RowOf(a) /\ KeyOf(a)' = KeyOf(a)
  <2>1. /\ a \in Bases /\ wpc'[a] = wpc[a] /\ wn'[a] = wn[a] /\ wi'[a] = wi[a]
        /\ wcr'[a] = wcr[a] /\ wrr'[a] = wrr[a]
    BY <1>3, RangeTurns DEF RangeTurn
  <2>2. a \in Reducing
    BY <1>3, <2>1
  <2>3. RowOf(a)' = RowOf(a)
    BY <2>1 DEF RowOf, RowEquation
  <2>4. KeyOf(a)' = KeyOf(a)
    BY <1>1, <2>1 DEF KeyOf, Equation, RowEquation
  <2> QED BY <2>2, <2>3, <2>4
<1>6. UNCHANGED <<coeff_rows, result_rows>> => StoredEquations' = StoredEquations
  BY DEF StoredEquations, Occupied
<1>7. UNCHANGED <<wn, spilled>> => \A x \in Settled' : x \in Settled
  BY <1>1, <1>2 DEF Settled
<1> DEFINE k == bucket[b][wn[b]]
           s == b + wi[b]
<1>8. CASE TakeKey(b)
  <2>1. /\ wpc' = [wpc EXCEPT ![b] = "reduce"]
        /\ wi' = [wi EXCEPT ![b] = Start(hash[k]) - b]
        /\ wcr' = [wcr EXCEPT ![b] = CoeffRow128(hash[k])]
        /\ wrr' = [wrr EXCEPT ![b] = ResultRow(hash[k])]
        /\ UNCHANGED <<wn, spilled, coeff_rows, result_rows>>
    BY <1>8 DEF TakeKey, matrixVars
  <2>2. Start(hash[k]) \in Nat
    <3>1. bucket[b] \in Seq(Range(keys)) /\ wn[b] \in 1 .. Len(bucket[b])
      BY <1>0, <1>1, <1>4, <1>8 DEF TakeKey, StdParTypeOK
    <3>2. k \in Range(keys)
      BY <3>1
    <3>3. hash[k] \in Hashes128
      BY <1>0, <3>2 DEF StdTypeOK
    <3> QED BY <3>3, KeyRow
  <2>3. /\ b + wi'[b] = Start(hash[k]) /\ wcr'[b] = CoeffRow128(hash[k])
        /\ wrr'[b] = ResultRow(hash[k])
    <3>1. b + (Start(hash[k]) - b) = Start(hash[k])
      BY <1>4, <2>2
    <3> QED BY <1>1, <1>4, <2>1, <3>1
  <2>4. RowOf(b)' = KeyOf(b)'
    <3>1. KeyOf(b)' = Equation(hash[k])
      BY <1>1, <2>1 DEF KeyOf, Equation, RowEquation
    <3>2. RowOf(b)' = RowEquation(Start(hash[k]), CoeffRow128(hash[k]), ResultRow(hash[k]))
      BY <2>3 DEF RowOf, RowEquation
    <3> QED BY <3>1, <3>2 DEF Equation
  <2> QED BY <1>5, <1>6, <1>7, <2>1, <2>4
<1>9. CASE SpillKey(b) \/ PlaceInRange(b) \/ DropInRange(b)
  <2>1. /\ wpc[b] = "reduce" /\ wn' = [wn EXCEPT ![b] = @ + 1]
        /\ wpc' = [wpc EXCEPT ![b] = "next"]
    BY <1>9 DEF SpillKey, PlaceInRange, DropInRange, NextKey
  <2>2. b \notin Reducing'
    BY <1>1, <1>3, <1>4, <2>1
  <2>3. /\ k \in Range(keys) /\ KeyOf(b) \in KeyEquations /\ KeyOf(b) = Equation(hash[k])
        /\ wcr[b] \in Word /\ wrr[b] \in SUBSET ResultBits /\ wcr[b] # {} /\ b \in Reducing
        /\ wi[b] < Length(b) => s \in Slots
    BY <1>1, <2>1, HandOfWorker DEF KeyOf
  <2>4. Solves(X, j, StoredEquations) => (Satisfies(X, j, RowOf(b)) <=> Satisfies(X, j, KeyOf(b)))
    BY <2>3 DEF ParPreservedFor
  <2>5. CASE SpillKey(b)
    <3>1. \A x \in Settled' : x \in Settled
      BY <2>1, <2>3, <2>5, KeyDealt DEF SpillKey
    <3> QED BY <1>5, <1>6, <2>2, <2>5, <3>1 DEF SpillKey, matrixVars
  <2>6. CASE PlaceInRange(b)
    <3>1. /\ coeff_rows[s] = {} /\ s \in Slots
          /\ coeff_rows' = [coeff_rows EXCEPT ![s] = wcr[b]]
          /\ result_rows' = [result_rows EXCEPT ![s] = wrr[b]]
      BY <2>3, <2>6 DEF PlaceInRange
    <3>2. \A x \in Settled' : x \in Settled \/ x = k
      BY <2>1, <2>6, KeyDealt DEF PlaceInRange
    <3>3. StoredEquations' = StoredEquations \cup {RowOf(b)}
      <4> HIDE DEF s
      <4>1. coeff_rows'[s] = wcr[b] /\ result_rows'[s] = wrr[b]
        BY <1>4, <3>1
      <4>2. Occupied' = Occupied \cup {s} /\ s \notin Occupied
        BY <1>4, <2>3, <3>1 DEF Occupied
      <4>3. \A t \in Occupied : coeff_rows'[t] = coeff_rows[t] /\ result_rows'[t] = result_rows[t]
        BY <1>4, <3>1, <4>2 DEF Occupied
      <4>4. RowOf(b) = RowEquation(s, wcr[b], wrr[b])
        BY DEF RowOf, s
      <4> QED BY <4>1, <4>2, <4>3, <4>4 DEF StoredEquations
    <3>4. Solves(X, j, StoredEquations') <=> Solves(X, j, StoredEquations) /\ Satisfies(X, j, RowOf(b))
      BY <3>3, SolvesUnion
    <3> HIDE DEF k, s
    <3>5. \A x \in Settled' : x \in Settled \/ Equation(hash[x]) = KeyOf(b)
      BY <2>3, <3>2
    <3> QED BY <1>5, <2>2, <2>3, <2>4, <3>4, <3>5
  <2>7. CASE DropInRange(b)
    <3>1. /\ coeff_rows[s] # {} /\ s \in Slots
          /\ SymDiff(wcr[b], coeff_rows[s]) = {} /\ SymDiff(wrr[b], result_rows[s]) = {}
          /\ UNCHANGED <<spilled, coeff_rows, result_rows>>
      BY <2>3, <2>7 DEF DropInRange, WorkerRowSum, WorkerResultSum, matrixVars
    <3>2. \A x \in Settled' : x \in Settled \/ x = k
      BY <2>1, <3>1, KeyDealt
    <3>3. RowOf(b) \in StoredEquations
      <4>1. wcr[b] = coeff_rows[s] /\ wrr[b] = result_rows[s]
        BY <3>1 DEF SymDiff
      <4> QED BY <3>1, <4>1 DEF StoredEquations, Occupied, RowOf
    <3>4. Solves(X, j, StoredEquations) => Satisfies(X, j, KeyOf(b))
      BY <2>4, <3>3 DEF Solves
    <3>5. StoredEquations' = StoredEquations
      BY <1>6, <3>1
    <3> HIDE DEF k, s
    <3>6. \A x \in Settled' : x \in Settled \/ Equation(hash[x]) = KeyOf(b)
      BY <2>3, <3>2
    <3> QED BY <1>5, <2>2, <2>3, <3>4, <3>5, <3>6
  <2> QED BY <1>9, <2>5, <2>6, <2>7
<1>10. CASE FailInRange(b)
  <2>1. /\ wpc' = [wpc EXCEPT ![b] = "failed"]
        /\ UNCHANGED <<wn, spilled, coeff_rows, result_rows>>
    BY <1>10 DEF FailInRange, matrixVars
  <2>2. b \notin Reducing'
    BY <1>1, <1>3, <1>4, <2>1
  <2> QED BY <1>5, <1>6, <1>7, <2>1, <2>2
<1>11. CASE ReduceInRange(b)
  <2> DEFINE c  == coeff_rows[s]
             q  == result_rows[s]
             tz == TrailingZeros(SymDiff(wcr[b], c))
             z  == ShiftRight(SymDiff(wcr[b], c), tz)
  <2>1. /\ wpc[b] = "reduce" /\ wi[b] < Length(b)
        /\ c # {} /\ SymDiff(wcr[b], c) # {}
        /\ wi' = [wi EXCEPT ![b] = @ + tz]
        /\ wcr' = [wcr EXCEPT ![b] = z]
        /\ wrr' = [wrr EXCEPT ![b] = SymDiff(wrr[b], q)]
        /\ UNCHANGED <<wpc, wn, spilled, coeff_rows, result_rows>>
    BY <1>11 DEF ReduceInRange, WorkerRowSum, WorkerResultSum, matrixVars
  <2>2. s \in Slots /\ s \in Nat /\ wcr[b] \in Word /\ c \in Word /\ wi[b] \in Nat /\ b \in Reducing
    <3>1. s \in Slots /\ s \in Nat /\ wcr[b] \in Word /\ wi[b] \in Nat /\ b \in Reducing
      BY <1>1, <2>1, HandOfWorker
    <3> QED BY <1>4, <3>1
  <2>3. StoredEquations' = StoredEquations
    BY <1>6, <2>1
  <2>4. KeyOf(b)' = KeyOf(b)
    BY <1>1, <2>1 DEF KeyOf, Equation, RowEquation
  <2>5. tz \in Nat
    <3>1. W \in Nat
      BY WAssumption
    <3> HIDE DEF c
    <3> QED BY <2>1, <2>2, ReducedRow
  <2>6. ASSUME Solves(X, j, StoredEquations)
        PROVE  Satisfies(X, j, RowOf(b)') <=> Satisfies(X, j, RowOf(b))
    <3>1. Satisfies(X, j, RowEquation(s, c, q))
      BY <2>1, <2>2, <2>6 DEF Solves, StoredEquations, Occupied
    <3> HIDE DEF s, c, q
    <3>2. Satisfies(X, j, RowEquation(s + tz, z, SymDiff(wrr[b], q)))
            <=> Satisfies(X, j, RowEquation(s, wcr[b], wrr[b]))
      BY <2>1, <2>2, <3>1, ReductionStep
    <3> HIDE DEF tz, z
    <3>3. b + wi'[b] = s + tz /\ wcr'[b] = z /\ wrr'[b] = SymDiff(wrr[b], q)
      <4>1. b + (wi[b] + tz) = s + tz
        BY <1>4, <2>2, <2>5 DEF s
      <4> QED BY <1>1, <1>4, <2>1, <4>1
    <3>4. RowOf(b)' = RowEquation(s + tz, z, SymDiff(wrr[b], q))
      BY <3>3 DEF RowOf, RowEquation
    <3>5. RowOf(b) = RowEquation(s, wcr[b], wrr[b])
      BY DEF RowOf, s
    <3> QED BY <3>2, <3>4, <3>5
  <2>7. Solves(X, j, StoredEquations) => (Satisfies(X, j, RowOf(b)) <=> Satisfies(X, j, KeyOf(b)))
    BY <2>2 DEF ParPreservedFor
  <2> QED BY <1>5, <1>7, <2>1, <2>3, <2>4, <2>6, <2>7
<1> QED BY <1>8, <1>9, <1>10, <1>11 DEF BandRange

(* A turn of a worker keeps the equations.                                 *)
LEMMA RangePreserves ==
  ASSUME StdParInv, NEW b \in Slots, BandRange(b), NEW X, NEW j, ParPreservedFor(X, j)
  PROVE  ParPreservedFor(X, j)'
<1>1. /\ phase = "workers" /\ pc = "order"
      /\ UNCHANGED <<keys, hash, phase, pc>>
  BY DEF BandRange, callVars, seedVars, StdParInv, StdParTypeOK
<1>2. KeyEquations' = KeyEquations
  BY <1>1 DEF KeyEquations, Equation, RowEquation
<1>3. /\ Solves(X, j, KeyEquations) => Solves(X, j, StoredEquations)
      /\ Solves(X, j, StoredEquations) => \A k \in Settled : Satisfies(X, j, Equation(hash[k]))
      /\ Solves(X, j, StoredEquations) =>
           \A a \in Reducing : Satisfies(X, j, RowOf(a)) <=> Satisfies(X, j, KeyOf(a))
  BY <1>1 DEF ParPreservedFor
<1>4. /\ \A a \in Reducing' \ {b} : a \in Reducing /\ RowOf(a)' = RowOf(a) /\ KeyOf(a)' = KeyOf(a)
      /\ b \in Reducing' /\ Solves(X, j, StoredEquations') =>
           (Satisfies(X, j, RowOf(b)') <=> Satisfies(X, j, KeyOf(b)'))
      /\ \/ /\ StoredEquations' = StoredEquations
            /\ \A x \in Settled' : x \in Settled
         \/ /\ KeyOf(b) \in KeyEquations
            /\ \A x \in Settled' : x \in Settled \/ Equation(hash[x]) = KeyOf(b)
            /\ Solves(X, j, StoredEquations')
                 <=> Solves(X, j, StoredEquations) /\ Satisfies(X, j, KeyOf(b))
  BY RangeStep
<1>5. Solves(X, j, StoredEquations') => Solves(X, j, StoredEquations)
  BY <1>4
<1>6. Solves(X, j, KeyEquations) => Solves(X, j, StoredEquations')
  BY <1>3, <1>4 DEF Solves
<1>7. Solves(X, j, StoredEquations') => \A x \in Settled' : Satisfies(X, j, Equation(hash[x]))
  BY <1>3, <1>4, <1>5
<1>8. ASSUME Solves(X, j, StoredEquations'), NEW a \in Reducing'
      PROVE  Satisfies(X, j, RowOf(a)') <=> Satisfies(X, j, KeyOf(a)')
  BY <1>3, <1>4, <1>5, <1>8
<1>9. HandSaysKey(X, j)'
  BY <1>1 DEF HandSaysKey
<1>10. \A x : Equation(hash[x])' = Equation(hash[x])
  BY <1>1 DEF Equation, RowEquation
<1>11. Solves(X, j, StoredEquations') => \A x \in Settled' : Satisfies(X, j, Equation(hash[x])')
  BY <1>7, <1>10
<1> QED BY <1>2, <1>6, <1>8, <1>9, <1>11 DEF ParPreservedFor

(* So does a step of the sequential construction.                          *)
LEMMA SequentialPreserves ==
  ASSUME StdParInv, [Next]_vars, UNCHANGED parVars, phase = "workers" => UNCHANGED vars,
         NEW X, NEW j, ParPreservedFor(X, j)
  PROVE  ParPreservedFor(X, j)'
<1>0. StdInv /\ StdTypeOK /\ CallInv /\ phase \in {"caller", "workers"}
  BY DEF StdParInv, StdInv, StdParTypeOK
<1>1. UNCHANGED <<threads, phase, bucket, wpc, wn, wi, wcr, wrr, spilled>>
  BY DEF parVars, workerVars
<1>2. phase # "workers" => Reducing = {} /\ Reducing' = {}
  BY <1>1 DEF Reducing, Working
<1>3. CASE UNCHANGED vars
  <2>1. /\ UNCHANGED <<keys, window, hash, pc, ordered, n, coeff_rows, result_rows, pos, cr, rr>>
    BY <1>3 DEF vars, callVars, seedVars, matrixVars, addVars
  <2>2. Bases' = Bases
    BY <1>1, <2>1, RangesUnchanged
  <2>3. /\ StoredEquations' = StoredEquations /\ KeyEquations' = KeyEquations
        /\ RowInHand' = RowInHand /\ KeyInHand' = KeyInHand
        /\ \A b : RowOf(b)' = RowOf(b) /\ KeyOf(b)' = KeyOf(b)
        /\ \A k : Equation(hash[k])' = Equation(hash[k])
    BY <1>1, <2>1 DEF StoredEquations, Occupied, KeyEquations, RowInHand, KeyInHand, RowOf,
                      KeyOf
  <2>4. Reducing' = Reducing /\ Settled' = Settled
    BY <1>1, <2>1, <2>2 DEF Reducing, Working, Settled, Added
  <2> QED BY <1>1, <2>1, <2>3, <2>4 DEF ParPreservedFor, HandSaysKey
<1>4. CASE phase # "workers" /\ Add
  <2>1. /\ HandSaysKey(X, j)'
        /\ UNCHANGED <<keys, hash, ordered>>
        /\ \/ UNCHANGED <<coeff_rows, result_rows, n>>
           \/ /\ n \in 1 .. Len(ordered) /\ n' = n + 1 /\ pc' = "next"
              /\ Solves(X, j, StoredEquations')
                   <=> Solves(X, j, StoredEquations) /\ Satisfies(X, j, KeyInHand)
    BY <1>0, <1>4, AddStep DEF ParPreservedFor
  <2>2. n \in Nat \ {0} /\ pc \in {"next", "reduce"}
    BY <1>0, <1>4 DEF StdTypeOK, Add, AddKey, PlaceRow, DropRow, Reject, ReduceRow
  <2>3. /\ Solves(X, j, KeyEquations) => Solves(X, j, StoredEquations)
        /\ Solves(X, j, StoredEquations) =>
             \A k \in Settled : Satisfies(X, j, Equation(hash[k]))
    BY <2>2 DEF ParPreservedFor
  <2>4. /\ KeyEquations' = KeyEquations
        /\ \A k : Equation(hash[k])' = Equation(hash[k])
    BY <2>1 DEF KeyEquations, Equation, RowEquation
  <2>5. /\ Settled = Added \cup (Range(keys) \ Range(ordered))
        /\ Settled' = Added' \cup (Range(keys) \ Range(ordered))
    BY <1>1, <1>4, <2>1 DEF Settled
  <2>6. CASE UNCHANGED <<coeff_rows, result_rows, n>>
    <3>1. StoredEquations' = StoredEquations
      BY <2>6 DEF StoredEquations, Occupied
    <3>2. Settled' = Settled
      BY <2>1, <2>2, <2>5, <2>6, AddedByStep
    <3> QED BY <1>2, <1>4, <2>1, <2>3, <2>4, <3>1, <3>2 DEF ParPreservedFor
  <2>7. CASE /\ n \in 1 .. Len(ordered) /\ n' = n + 1
             /\ Solves(X, j, StoredEquations')
                  <=> Solves(X, j, StoredEquations) /\ Satisfies(X, j, KeyInHand)
    <3>1. Settled' = Settled \cup {ordered[n]}
      BY <2>1, <2>2, <2>5, <2>7, AddedByStep
    <3>2. KeyInHand \in KeyEquations
      <4>1. ordered[n] \in Range(keys)
        BY <1>0, <2>7 DEF StdTypeOK
      <4> QED BY <4>1 DEF KeyInHand, KeyEquations
    <3>3. Solves(X, j, KeyEquations) => Solves(X, j, StoredEquations')
      BY <2>3, <2>7, <3>2 DEF Solves
    <3>4. ASSUME Solves(X, j, StoredEquations'), NEW k \in Settled'
          PROVE  Satisfies(X, j, Equation(hash[k])')
      <4>1. Satisfies(X, j, Equation(hash[k]))
        BY <2>3, <2>7, <3>1, <3>4 DEF KeyInHand
      <4> QED BY <2>4, <4>1
    <3> QED BY <1>2, <1>4, <2>1, <2>4, <3>3, <3>4 DEF ParPreservedFor
  <2> QED BY <2>1, <2>6, <2>7
<1>5. CASE phase # "workers" /\ Order
  <2>1. /\ pc' = "next" /\ coeff_rows = NoRows /\ UNCHANGED <<keys, coeff_rows, n>> /\ n = 1
    BY <1>0, <1>5 DEF Order, callVars, matrixVars, CallInv, StdInv, StdTypeOK, LoopsInv
  <2>2. Range(ordered') = Range(keys)
    BY <1>0, <1>5, OrderKeepsInv
  <2>3. StoredEquations' = {}
    BY <2>1 DEF NoRows, StoredEquations, Occupied
  <2>4. Settled' = {}
    <3>1. Added' = {}
      BY <2>1 DEF Added
    <3> QED BY <1>1, <1>5, <2>1, <2>2, <3>1 DEF Settled
  <2> QED BY <1>2, <1>5, <2>1, <2>3, <2>4 DEF ParPreservedFor, HandSaysKey, Solves
<1>6. CASE phase # "workers" /\ (Reset \/ GiveUp \/ IntoSolution)
  <2>1. pc' \notin {"next", "reduce"}
    BY <1>6 DEF Reset, GiveUp, IntoSolution
  <2> QED BY <1>1, <1>2, <1>6, <2>1 DEF ParPreservedFor, HandSaysKey
<1> QED BY <1>3, <1>4, <1>5, <1>6 DEF Next, FindSeed

(* The workers start from an empty matrix.                                 *)
LEMMA SpawnPreserves ==
  ASSUME StdParInv, Spawn, NEW X, NEW j
  PROVE  ParPreservedFor(X, j)'
<1>1. /\ phase = "caller" /\ pc = "order" /\ phase' = "workers"
      /\ wpc' = [b \in Bases |-> "next"] /\ wn' = [b \in Bases |-> 1]
      /\ UNCHANGED <<vars, threads>>
  BY DEF Spawn
<1>2. UNCHANGED <<window, pc, coeff_rows>>
  BY <1>1 DEF vars, callVars, matrixVars
<1>3. Bases' = Bases
  BY <1>1, <1>2, RangesUnchanged
<1>4. StoredEquations' = {}
  BY <1>1, <1>2 DEF StdParInv, CallInv, NoRows, StoredEquations, Occupied
<1>5. Reducing' = {}
  BY <1>1, <1>3 DEF Reducing, Working
<1>6. Settled' = {}
  <2>1. \A b \in Bases : 1 .. wn'[b] - 1 = {}
    BY <1>1
  <2>2. \A b \in Bases : Dealt(b)' = {}
    BY <2>1 DEF Dealt
  <2> QED BY <1>1, <1>3, <2>2 DEF Settled, Dealt
<1> QED BY <1>1, <1>2, <1>4, <1>5, <1>6 DEF ParPreservedFor, HandSaysKey, Solves

(* Every key that the caller does not get back has been dealt with.        *)
LEMMA JoinSettles ==
  ASSUME StdParInv, Join, ~SeedFails, NEW k \in Range(keys), k \notin Range(ordered')
  PROVE  k \in Settled
<1>0. StdParTypeOK /\ CallInv /\ WorkerInv /\ PlacedInv
  BY DEF StdParInv
<1>1. /\ phase = "workers" /\ ordered' = deferred \o AllSpilled
      /\ \A b \in Bases : wpc[b] # "failed" /\ Returned(b)
  BY DEF Join, SeedFails
<1>2. /\ AllSpilled \in Seq(Range(keys)) /\ deferred \in Seq(Range(keys))
      /\ \A b \in Bases : Range(spilled[b]) \subseteq Range(AllSpilled)
  BY <1>0, <1>1, BasesInTable, SpilledAreCollected DEF StdParTypeOK
<1>3. Range(ordered') = Range(deferred) \cup Range(AllSpilled)
  BY <1>1, <1>2, RangeOfConcat
<1>4. PICK b \in Bases : k \in Range(bucket[b])
  BY <1>0, <1>1, <1>3 DEF PlacedInv
<1>5. k \notin Range(spilled[b])
  BY <1>2, <1>3
<1>6. /\ bucket[b] \in Seq(Range(keys)) /\ wn[b] \in 1 .. Len(bucket[b]) + 1
      /\ wn[b] > Len(bucket[b])
  BY <1>0, <1>1 DEF StdParTypeOK, WorkerInv, Returned
<1>7. k \in Dealt(b)
  <2> DEFINE s == bucket[b]
             w == wn[b]
  <2>1. s \in Seq(Range(keys)) /\ w \in 1 .. Len(s) + 1 /\ w > Len(s)
    BY <1>6
  <2> HIDE DEF s, w
  <2>2. w - 1 = Len(s) /\ DOMAIN s = 1 .. Len(s)
    BY <2>1
  <2>3. PICK m \in 1 .. Len(s) : k = s[m]
    BY <1>4, <2>2 DEF Range, s
  <2> QED BY <2>2, <2>3 DEF Dealt, s, w
<1> QED BY <1>1, <1>5, <1>7, SettledByWorkers

LEMMA JoinPreserves ==
  ASSUME StdParInv, Join, NEW X, NEW j, ParPreservedFor(X, j)
  PROVE  ParPreservedFor(X, j)'
<1>1. /\ phase = "workers" /\ phase' = "caller"
      /\ SeedFails => pc' = "seed"
      /\ pc' \in {"seed", "next"}
      /\ UNCHANGED <<keys, hash, coeff_rows, result_rows, n>>
  BY DEF Join, Joined, callVars, seedVars, matrixVars
<1>2. n = 1
  BY <1>1 DEF StdParInv, StdInv, StdParTypeOK, LoopsInv, StdTypeOK
<1>3. Reducing' = {} /\ HandSaysKey(X, j)'
  BY <1>1 DEF Reducing, Working, HandSaysKey
<1>4. CASE SeedFails
  BY <1>1, <1>3, <1>4 DEF ParPreservedFor
<1>5. CASE ~SeedFails
  <2>1. /\ Solves(X, j, KeyEquations) => Solves(X, j, StoredEquations)
        /\ Solves(X, j, StoredEquations) =>
             \A k \in Settled : Satisfies(X, j, Equation(hash[k]))
    BY <1>1 DEF ParPreservedFor
  <2>2. StoredEquations' = StoredEquations /\ KeyEquations' = KeyEquations
    BY <1>1 DEF StoredEquations, Occupied, KeyEquations
  <2>3. \A k \in Settled' : k \in Settled
    <3>1. Added' = {}
      BY <1>1, <1>2 DEF Added
    <3>2. Settled' = Range(keys) \ Range(ordered')
      BY <1>1, <3>1 DEF Settled
    <3> QED BY <1>5, <3>2, JoinSettles
  <2>4. \A k : Equation(hash[k])' = Equation(hash[k])
    BY <1>1 DEF Equation, RowEquation
  <2> QED BY <1>3, <2>1, <2>2, <2>3, <2>4 DEF ParPreservedFor
<1> QED BY <1>4, <1>5

-----------------------------------------------------------------------------
(* Why a seed is given up, and what holds of the filter returned           *)

(* A worker fails only if the seed has no solution.                        *)
FailedInv ==
  phase = "workers" => \A b \in Bases : wpc[b] = "failed" => ~SeedSolvable

LEMMA RangeFails ==
  ASSUME StdParInv, FailedInv, NEW b \in Slots, BandRange(b),
         \A X \in SUBSET Nat : \A j \in ResultBits : ParPreservedFor(X, j)
  PROVE  FailedInv'
<1>1. /\ phase = "workers" /\ b \in Bases /\ StdParTypeOK /\ StdTypeOK
      /\ UNCHANGED <<keys, hash, phase, threads, window>>
  BY DEF BandRange, callVars, seedVars, StdParInv, StdInv
<1>2. Bases' = Bases
  BY <1>1, RangesUnchanged
<1>3. SeedSolvable' <=> SeedSolvable
  <2>1. KeyEquations' = KeyEquations
    BY <1>1 DEF KeyEquations
  <2> QED BY <2>1 DEF SeedSolvable
<1>4. \A a \in Bases \ {b} : wpc'[a] = wpc[a]
  BY RangeTurns DEF RangeTurn
<1>5. wpc \in [Bases -> {"next", "reduce", "failed"}]
  BY <1>1 DEF StdParTypeOK
<1>6. CASE FailInRange(b)
  <2> DEFINE s == b + wi[b]
  <2>1. /\ wpc[b] = "reduce" /\ wi[b] < Length(b) /\ coeff_rows[s] # {}
        /\ SymDiff(wcr[b], coeff_rows[s]) = {} /\ SymDiff(wrr[b], result_rows[s]) # {}
    BY <1>6 DEF FailInRange, WorkerRowSum, WorkerResultSum
  <2>2. /\ KeyOf(b) \in KeyEquations /\ wrr[b] \in SUBSET ResultBits
        /\ b \in Reducing /\ s \in Slots
    BY <1>1, <2>1, HandOfWorker
  <2>3. \A X \in SUBSET Nat : \A j \in ResultBits :
          /\ Solves(X, j, KeyEquations) => Solves(X, j, StoredEquations)
          /\ Solves(X, j, StoredEquations) =>
               (Satisfies(X, j, RowEquation(s, wcr[b], wrr[b])) <=> Satisfies(X, j, KeyOf(b)))
    BY <1>1, <2>2 DEF ParPreservedFor, RowOf
  <2> HIDE DEF s
  <2>4. Contradicts(s, wcr[b], wrr[b])
    BY <2>1, <2>2 DEF Contradicts
  <2>5. ~SeedSolvable
    BY <1>1, <2>2, <2>3, <2>4, ContradictionIsFinal
  <2> QED BY <1>2, <1>3, <2>5 DEF FailedInv
<1>7. CASE ~FailInRange(b)
  <2>1. wpc'[b] # "failed"
    <3>1. CASE TakeKey(b)
      BY <1>1, <1>5, <3>1 DEF TakeKey
    <3>2. CASE SpillKey(b) \/ PlaceInRange(b) \/ DropInRange(b)
      BY <1>1, <1>5, <3>2 DEF SpillKey, PlaceInRange, DropInRange, NextKey
    <3>3. CASE ReduceInRange(b)
      BY <3>3 DEF ReduceInRange
    <3> QED BY <1>7, <3>1, <3>2, <3>3 DEF BandRange
  <2> QED BY <1>1, <1>2, <1>3, <1>4, <2>1 DEF FailedInv
<1> QED BY <1>6, <1>7

(* A step after which no worker has failed, or nothing has changed         *)
LEMMA NoneFails ==
  ASSUME StdParInv, FailedInv, [ParNext]_allVars, \A b \in Slots : ~BandRange(b)
  PROVE  FailedInv'
<1>1. CASE Spawn
  <2>1. UNCHANGED <<threads, window>> /\ wpc' = [b \in Bases |-> "next"]
    BY <1>1 DEF Spawn, vars, callVars
  <2>2. Bases' = Bases
    BY <2>1, RangesUnchanged
  <2> QED BY <2>1, <2>2 DEF FailedInv
<1>2. CASE Join
  BY <1>2 DEF Join, Joined, FailedInv
<1>3. CASE UNCHANGED parVars /\ (phase = "workers" => UNCHANGED vars)
  <2>1. UNCHANGED <<threads, phase, wpc>>
    BY <1>3 DEF parVars, workerVars
  <2>2. ASSUME phase = "workers" PROVE FailedInv'
    <3>1. UNCHANGED <<keys, window, hash>>
      BY <1>3, <2>2 DEF vars, callVars, seedVars
    <3>2. Bases' = Bases
      BY <2>1, <3>1, RangesUnchanged
    <3>3. KeyEquations' = KeyEquations
      BY <3>1 DEF KeyEquations
    <3>4. SeedSolvable' <=> SeedSolvable
      BY <3>3 DEF SeedSolvable
    <3> QED BY <2>1, <3>2, <3>4 DEF FailedInv
  <2> QED BY <2>1, <2>2 DEF FailedInv
<1> QED BY <1>1, <1>2, <1>3, ParSteps

(* What the parallel builder keeps of the equations, in every column       *)
ParEquationsInv == \A X \in SUBSET Nat : \A j \in ResultBits : ParPreservedFor(X, j)

LEMMA ParNextPreserves ==
  StdParInv /\ ParEquationsInv /\ [ParNext]_allVars => ParEquationsInv'
<1> SUFFICES ASSUME StdParInv, ParEquationsInv, [ParNext]_allVars,
                    NEW X \in SUBSET Nat, NEW j \in ResultBits
             PROVE  ParPreservedFor(X, j)'
  BY DEF ParEquationsInv, ResultBits
<1>1. ParPreservedFor(X, j)
  BY DEF ParEquationsInv
<1> QED BY <1>1, ParSteps, SequentialPreserves, SpawnPreserves, JoinPreserves, RangePreserves

LEMMA ParInitPreserves == ParInit => ParEquationsInv
<1> SUFFICES ASSUME ParInit, NEW X, NEW j PROVE ParPreservedFor(X, j)
  BY DEF ParEquationsInv
<1>1. phase = "caller" /\ pc = "seed"
  BY DEF ParInit, Init
<1> QED BY <1>1 DEF ParPreservedFor, HandSaysKey, Reducing, Working

(* What holds of a built filter                                            *)
ParBuildInv ==
  /\ FailedInv /\ BuiltInv
  /\ \A X \in SUBSET Nat : \A j \in ResultBits : BuiltFor(X, j)

(* When the caller is done with its keys, every key's equation is in.      *)
LEMMA AllKeysAreIn ==
  ASSUME StdParInv, phase = "caller", IntoSolution, NEW X, NEW j, ParPreservedFor(X, j)
  PROVE  BuiltFor(X, j)'
<1>1. /\ pc = "next" /\ n > Len(ordered) /\ UNCHANGED <<keys, hash, coeff_rows, result_rows>>
  BY DEF IntoSolution, callVars, seedVars, matrixVars
<1>2. Added = Range(ordered)
  <2>1. n - 1 = Len(ordered) /\ DOMAIN ordered = 1 .. Len(ordered)
    BY <1>1 DEF StdParInv, StdInv, StdTypeOK
  <2> QED BY <2>1 DEF Added, Range
<1>3. \A k \in Range(keys) : k \in Settled
  BY <1>2 DEF Settled
<1>4. Solves(X, j, StoredEquations) <=> Solves(X, j, KeyEquations)
  <2>1. /\ Solves(X, j, KeyEquations) => Solves(X, j, StoredEquations)
        /\ Solves(X, j, StoredEquations) =>
             \A k \in Settled : Satisfies(X, j, Equation(hash[k]))
    BY <1>1 DEF ParPreservedFor
  <2>2. (\A k \in Range(keys) : Satisfies(X, j, Equation(hash[k]))) => Solves(X, j, KeyEquations)
    BY DEF Solves, KeyEquations
  <2> QED BY <1>3, <2>1, <2>2
<1>5. StoredEquations' = StoredEquations /\ KeyEquations' = KeyEquations
  BY <1>1 DEF StoredEquations, Occupied, KeyEquations
<1> QED BY <1>4, <1>5 DEF BuiltFor

LEMMA ParNextBuilds ==
  StdParInv /\ ParEquationsInv /\ ParBuildInv /\ [ParNext]_allVars => ParBuildInv'
<1> SUFFICES ASSUME StdParInv, ParEquationsInv, ParBuildInv, [ParNext]_allVars
             PROVE  ParBuildInv'
  OBVIOUS
<1>0. FailedInv /\ BuiltInv /\ \A X \in SUBSET Nat : \A j \in ResultBits : BuiltFor(X, j)
  BY DEF ParBuildInv
<1>1. FailedInv'
  BY <1>0, RangeFails, NoneFails DEF ParEquationsInv
<1>2. CASE pc' # "built"
  BY <1>1, <1>2 DEF ParBuildInv, BuiltInv, BuiltFor
<1>3. CASE pc' = "built"
  <2>1. \/ IntoSolution /\ phase = "caller"
        \/ UNCHANGED <<keys, hash, pc, coeff_rows, result_rows, data>>
    <3>1. phase = "workers" => pc # "built"
      BY DEF StdParInv, StdParTypeOK
    <3>2. ~Join /\ ~(\E b \in Slots : BandRange(b))
      <4>1. ~Join
        BY <1>3 DEF Join
      <4>2. ASSUME NEW b \in Slots, BandRange(b) PROVE FALSE
        BY <1>3, <3>1, <4>2 DEF BandRange
      <4> QED BY <4>1, <4>2
    <3>3. CASE Spawn \/ UNCHANGED vars
      BY <3>3 DEF Spawn, vars, callVars, seedVars, matrixVars
    <3>4. CASE Next /\ ~UNCHANGED vars /\ (phase = "workers" => UNCHANGED vars)
      <4>1. phase = "caller"
        BY <3>4 DEF StdParInv, StdParTypeOK
      <4>2. IntoSolution
        BY <1>3, <3>4 DEF Next, FindSeed, Reset, GiveUp, Order, Add, AddKey, PlaceRow, DropRow,
                          Reject, ReduceRow
      <4> QED BY <4>1, <4>2
    <3> QED BY <3>2, <3>3, <3>4, ParSteps
  <2>2. CASE IntoSolution /\ phase = "caller"
    <3>1. BuiltInv'
      <4>1. UNCHANGED <<coeff_rows, result_rows>>
        BY <2>2 DEF IntoSolution, matrixVars
      <4> QED BY <2>2, <4>1, WordsUnchanged DEF BuiltInv, IntoSolution
    <3>2. \A X \in SUBSET Nat : \A j \in ResultBits : BuiltFor(X, j)'
      BY <2>2, AllKeysAreIn DEF ParEquationsInv
    <3> QED BY <1>1, <3>1, <3>2 DEF ParBuildInv, ResultBits
  <2>3. CASE UNCHANGED <<keys, hash, pc, coeff_rows, result_rows, data>>
    <3>1. StoredEquations' = StoredEquations /\ KeyEquations' = KeyEquations
      BY <2>3 DEF StoredEquations, Occupied, KeyEquations
    <3>2. \A X \in SUBSET Nat : \A j \in ResultBits : BuiltFor(X, j)'
      BY <1>0, <2>3, <3>1 DEF BuiltFor
    <3> QED BY <1>0, <1>1, <2>3, <3>2, WordsUnchanged DEF ParBuildInv, BuiltInv, ResultBits
  <2> QED BY <2>1, <2>2, <2>3
<1> QED BY <1>2, <1>3

LEMMA ParInitBuilds == ParInit => ParBuildInv
BY DEF ParInit, Init, ParBuildInv, FailedInv, BuiltInv, BuiltFor

-----------------------------------------------------------------------------
(* In the bounds that StdParEquationsPreserved gives them, candidate       *)
(* columns are sets of slots.                                              *)
LEMMA OnlySlotsMatterInRanges ==
  ASSUME StdParInv
  PROVE  Unknowns(StoredEquations \cup KeyEquations \cup Range([b \in Reducing |-> RowOf(b)]))
           \in SUBSET Nat
<1> DEFINE inHand == [b \in Reducing |-> RowOf(b)]
<1>0. StdTypeOK
  BY DEF StdParInv, StdInv
<1>1. ASSUME NEW s \in Nat, NEW c \in Word, NEW r
      PROVE  RowEquation(s, c, r).on \in SUBSET Nat
  <2>1. RowEquation(s, c, r).on = {s + b : b \in c}
    BY DEF RowEquation
  <2>2. \A b \in c : s + b \in Nat
    BY DEF Word
  <2> QED BY <2>1, <2>2
<1>2. \A e \in StoredEquations : e.on \in SUBSET Nat
  BY <1>0, <1>1 DEF StoredEquations, Occupied, Slots, StdTypeOK
<1>3. \A e \in KeyEquations : e.on \in SUBSET Nat
  <2>1. ASSUME NEW k \in Range(keys) PROVE Equation(hash[k]).on \in SUBSET Nat
    <3>1. hash[k] \in Hashes128
      BY <1>0 DEF StdTypeOK
    <3> QED BY <1>1, <3>1, KeyRow DEF Equation
  <2> QED BY <2>1 DEF KeyEquations
<1>4. ASSUME NEW b \in Reducing PROVE RowOf(b).on \in SUBSET Nat
  <2>1. phase = "workers" /\ b \in Bases /\ wpc[b] = "reduce"
    BY DEF Reducing, Working
  <2>2. b \in Nat /\ wi[b] \in Nat /\ wcr[b] \in Word
    BY <2>1, HandOfWorker
  <2>3. b + wi[b] \in Nat
    BY <2>2
  <2> QED BY <1>1, <2>2, <2>3 DEF RowOf
<1>5. \A e \in Range(inHand) : e.on \in SUBSET Nat
  BY <1>4 DEF Range
<1> HIDE DEF inHand
<1>6. \A e \in StoredEquations \cup KeyEquations \cup Range(inHand) : e.on \in SUBSET Nat
  BY <1>2, <1>3, <1>5
<1>7. Unknowns(StoredEquations \cup KeyEquations \cup Range(inHand)) \in SUBSET Nat
  BY <1>6 DEF Unknowns
<1> QED BY <1>7 DEF inHand

LEMMA EquationsArePreserved ==
  ASSUME StdParInv, ParEquationsInv
  PROVE  StdParEquationsPreserved
<1> DEFINE inHand == [b \in Reducing |-> RowOf(b)]
           U == Unknowns(StoredEquations \cup KeyEquations \cup Range(inHand))
           settled == {Equation(hash[k]) : k \in Settled}
<1> SUFFICES ASSUME phase = "workers" \/ pc \in {"next", "reduce"},
                    NEW X \in SUBSET U, NEW j \in ResultBits
             PROVE  /\ Solves(X, j, KeyEquations) => Solves(X, j, StoredEquations)
                    /\ Solves(X, j, StoredEquations) =>
                         /\ Solves(X, j, settled)
                         /\ \A b \in Reducing :
                              Satisfies(X, j, inHand[b]) <=> Satisfies(X, j, KeyOf(b))
  BY Zenon DEF StdParEquationsPreserved, KeyEquations, RowOf, KeyOf
<1>1. U \in SUBSET Nat
  BY OnlySlotsMatterInRanges
<1>2. X \in SUBSET Nat
  <2> HIDE DEF U
  <2> QED BY <1>1
<1>3. ParPreservedFor(X, j)
  BY <1>2 DEF ParEquationsInv
<1>4. Solves(X, j, StoredEquations) => Solves(X, j, settled)
  BY <1>3 DEF ParPreservedFor, Solves
<1>5. \A b \in Reducing : inHand[b] = RowOf(b)
  OBVIOUS
<1> HIDE DEF U, settled, inHand
<1> QED BY <1>3, <1>4, <1>5 DEF ParPreservedFor

(* However the workers of band_range_128 interleave, in every column the   *)
(* matrix asks for nothing that the keys do not, it implies the equation   *)
(* of every key that was dealt with and not handed back, and no row in a   *)
(* worker's hand loses what its key said: the ranges are disjoint, and     *)
(* what a worker cannot finish in its own it gives to the caller.          *)
THEOREM StdWorkersPreserveEquations == ParSpec => []StdParEquationsPreserved
<1>1. StdParInv /\ ParEquationsInv => StdParEquationsPreserved
  BY EquationsArePreserved
<1> QED BY <1>1, ParInvariant, ParInitPreserves, ParNextPreserves, PTL DEF ParSpec

LEMMA ParBuiltFilter == ParSpec => [](StdParInv /\ ParEquationsInv /\ ParBuildInv)
BY ParInvariant, ParInitPreserves, ParNextPreserves, ParInitBuilds, ParNextBuilds, PTL
   DEF ParSpec

(* No member is reported absent by a filter that build_std128_parallel     *)
(* returns, whatever the number of threads and the order they ran in.      *)
THEOREM StdParallelMembersAreFound == ParSpec => []StdNoFalseNegatives
<1>1. StdParInv /\ ParBuildInv => StdNoFalseNegatives
  BY BuiltAnswers DEF StdParInv, ParBuildInv
<1> QED BY <1>1, ParBuiltFilter, PTL

LEMMA ParBuiltIsCanonical ==
  StdParInv /\ ParBuildInv /\ pc = "built" => Canonical /\ SeedSolvable
BY BuiltIsCanonical, BuiltIsSolvable DEF StdParInv, ParBuildInv

(* While the caller works alone, its steps are those of the sequential     *)
(* construction, whose matrix need not imply what is still before it.      *)
LEMMA CallerIsFilterStep ==
  ASSUME StdParInv, ParEquationsInv, phase = "caller", [Next]_vars,
         (StdParInv /\ ParBuildInv /\ pc = "built" => Canonical /\ SeedSolvable)',
         StdParInv', ParBuildInv'
  PROVE  [Filter!Next]_filterVars
<1>0. StdInv
  BY DEF StdParInv
<1>1. CASE Reset
  BY <1>1, ResetTries DEF Filter!Next
<1>2. CASE GiveUp
  BY <1>2, GiveUpFails DEF Filter!Next
<1>3. CASE Order \/ AddKey \/ PlaceRow \/ DropRow \/ ReduceRow
  <2>1. /\ pc \in {"order", "next", "reduce"} /\ pc' \in {"order", "next", "reduce"}
        /\ UNCHANGED <<keys, tried, hash>>
    BY <1>3 DEF Order, AddKey, PlaceRow, DropRow, ReduceRow, callVars, seedVars
  <2> QED BY <2>1, TrialGoesOn
<1>4. CASE Reject
  <2>1. pc = "reduce" /\ pc' = "seed" /\ UNCHANGED <<keys, tried, hash>>
    BY <1>4 DEF Reject, callVars, seedVars
  <2>2. ordered[n] \in Range(keys)
    BY <1>0, <2>1, AddedAreKeys
  <2>3. \A X \in SUBSET Nat : \A j \in ResultBits :
          /\ Solves(X, j, KeyEquations) => Solves(X, j, StoredEquations)
          /\ HandSaysKey(X, j)
    BY <2>1 DEF ParEquationsInv, ParPreservedFor
  <2>4. ~SeedSolvable
    BY <1>0, <1>4, <2>2, <2>3, RejectedSeed
  <2> QED BY <2>1, <2>4, SeedIsAbandoned DEF Filter!Next
<1>5. CASE IntoSolution
  <2>1. pc' = "built"
    BY <1>5 DEF IntoSolution
  <2>2. Canonical' /\ SeedSolvable'
    BY <2>1
  <2> QED BY <1>5, <2>2, SolutionIsReturned DEF Filter!Next
<1>6. CASE UNCHANGED vars
  BY <1>6, StutterIsStutter DEF vars, callVars, seedVars
<1> QED BY <1>1, <1>2, <1>3, <1>4, <1>5, <1>6 DEF Next, FindSeed, Add

LEMMA ParNextIsFilterStep ==
  ASSUME StdParInv, ParEquationsInv, ParBuildInv, [ParNext]_allVars,
         (StdParInv /\ ParBuildInv /\ pc = "built" => Canonical /\ SeedSolvable)',
         StdParInv', ParBuildInv'
  PROVE  [Filter!Next]_filterVars
<1>1. CASE [Next]_vars /\ (phase = "workers" => UNCHANGED vars)
  <2>1. CASE UNCHANGED vars
    BY <2>1, StutterIsStutter DEF vars, callVars, seedVars
  <2>2. CASE phase = "caller"
    BY <1>1, <2>2, CallerIsFilterStep
  <2> QED BY <1>1, <2>1, <2>2 DEF StdParInv, StdParTypeOK
<1>2. CASE Spawn
  <2>1. UNCHANGED <<keys, tried, hash, pc, data>>
    BY <1>2 DEF Spawn, vars, callVars, seedVars
  <2> QED BY <2>1, StutterIsStutter
<1>3. CASE \E b \in Slots : BandRange(b)
  <2>1. UNCHANGED <<keys, tried, hash, pc, data>>
    BY <1>3 DEF BandRange, callVars, seedVars
  <2> QED BY <2>1, StutterIsStutter
<1>4. CASE Join
  <2>1. /\ phase = "workers" /\ pc = "order" /\ UNCHANGED <<keys, tried, hash>>
        /\ IF SeedFails THEN pc' = "seed" ELSE pc' = "next"
    BY <1>4 DEF Join, callVars, seedVars, StdParInv, StdParTypeOK
  <2>2. CASE SeedFails
    <3>1. ~SeedSolvable
      BY <2>1, <2>2 DEF SeedFails, ParBuildInv, FailedInv
    <3> QED BY <2>1, <2>2, <3>1, SeedIsAbandoned DEF Filter!Next
  <2>3. CASE ~SeedFails
    BY <2>1, <2>3, TrialGoesOn
  <2> QED BY <2>2, <2>3
<1> QED BY <1>1, <1>2, <1>3, <1>4, ParSteps

(* build_std128_parallel implements StdFilter, and so returns the filter   *)
(* that the arrival and the pleated builders return: a seed is given up    *)
(* only if no columns solve it, whichever worker or the caller noticed,    *)
(* the first that has a solution is the one returned, with the one         *)
(* solution that its equations determine, and None is returned only after  *)
(* the last seed.                                                          *)
THEOREM StdParallelFirstSolvableSeed == ParSpec => FirstSolvableSeed
<1>1. (StdParInv /\ ParBuildInv /\ pc = "built" => Canonical /\ SeedSolvable)'
  BY ParBuiltIsCanonical, PTL
<1>2. StdParInv /\ ParEquationsInv /\ ParBuildInv /\ [ParNext]_allVars
        /\ StdParInv' /\ ParBuildInv' => [Filter!Next]_filterVars
  BY <1>1, ParNextIsFilterStep
<1>3. ParInit => Filter!Init
  BY InitIsInit DEF ParInit
<1> QED
  BY <1>2, <1>3, ParBuiltFilter, PTL
  DEF ParSpec, FirstSolvableSeed, Filter!Spec, Filter!vars, filterVars, stage, returned
=============================================================================
