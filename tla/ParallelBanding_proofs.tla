---------------------- MODULE ParallelBanding_proofs -----------------------
(***************************************************************************)
(* Proofs about the parallel construction, for any number of threads,      *)
(* ranges of every shape and every interleaving of the workers: rows stay  *)
(* inside the table, and inside their range if the margin is wide enough;  *)
(* no key is lost or dealt out twice; the matrix the threads fill has the  *)
(* solutions of the keys' equations; and so the filter is, bit by bit, the *)
(* one the sequential construction returns.                                *)
(***************************************************************************)
EXTENDS ParallelBanding, Banding_proofs, SlotRanges_proofs

(* The phases, and the boundaries once there are some *)
PhaseInv ==
  /\ phase = "start" => arrival = 1 /\ deferred = <<>>
  /\ phase \in {"bucket", "band"} => pc = "order"
  /\ phase = "tail" => pc # "order"
  /\ phase \in {"band", "tail"} => arrival = Len(keys) + 1
  /\ phase # "start" => Tiling(bounds)
  /\ phase # "band" /\ pc = "order" => coeff_rows = [s \in Slots |-> {}]

(* A key in the bucket of b starts in b's range and, unless it is the last *)
(* range, not within the margin of its end.                                *)
BelongsTo(b, k) ==
  /\ Start(hash[k]) \in b .. Hi(b) - 1
  /\ Hi(b) # NumSlots => Start(hash[k]) + G < Hi(b)

BucketInv ==
  phase # "start" =>
    \A b \in Bases : \A m \in 1 .. Len(bucket[b]) : BelongsTo(b, bucket[b][m])

(* The loop of worker b *)
WorkerInv ==
  phase \in {"band", "tail"} =>
    \A b \in Bases :
      /\ wn[b] \in 1 .. Len(bucket[b]) + 1
      /\ wpc[b] = "reduce" => wn[b] <= Len(bucket[b]) /\ InBand(b + wi[b], wcr[b])
      /\ phase = "tail" => wpc[b] = "next" /\ wn[b] = Len(bucket[b]) + 1

(* A worker whose range is the last, or whose margin is wide enough, has   *)
(* met no row that sticks out of its range, and has spilled no key.        *)
Confined(b) == G >= W - 1 \/ Hi(b) = NumSlots

ConfinedInv ==
  \A b \in Working : Confined(b) =>
    /\ spilled[b] = <<>>
    /\ phase = "band" => \A s \in b .. Hi(b) - 1 : StaysBelow(s, coeff_rows[s], Hi(b))
    /\ wpc[b] = "reduce" => StaysBelow(b + wi[b], wcr[b], Hi(b))

(* No key is lost: it is in a bucket or deferred, and the tail adds what   *)
(* was deferred and spilled.                                               *)
PlacedInv ==
  /\ phase = "start" => AllOrdered
  /\ phase # "start" =>
       \A m \in 1 .. arrival - 1 :
         keys[m] \in Range(deferred) \cup (UNION {Range(bucket[b]) : b \in Bases})
  /\ phase = "tail" =>
       /\ tail \in bounds
       /\ Range(deferred) \subseteq Range(ordered)
       /\ \A b \in Bases : b < tail => Range(spilled[b]) \subseteq Range(ordered)
       /\ pc \in {"solve", "built"} => tail = NumSlots

(* The inductive invariant of the parallel construction *)
ParInv ==
  /\ BandInv /\ ParTypeOK
  /\ PhaseInv /\ BucketInv /\ WorkerInv /\ ConfinedInv /\ PlacedInv

-----------------------------------------------------------------------------
(* The ranges and the rows                                                 *)

LEMMA BasesInTable ==
  ASSUME PhaseInv, phase # "start", NEW b \in Bases
  PROVE  /\ b \in Slots /\ b \in Nat
         /\ Hi(b) \in bounds /\ Hi(b) \in Nat
         /\ b < Hi(b) /\ Hi(b) <= NumSlots
         /\ \A x \in bounds : b < x => Hi(b) <= x
BY RangeEnds DEF PhaseInv, Bases, Hi

LEMMA KeyHash ==
  ASSUME TypeOK, NEW k \in Range(keys)
  PROVE  /\ hash[k] \in Hashes
         /\ Start(hash[k]) \in Slots /\ Start(hash[k]) \in Nat
         /\ CoeffRow(hash[k]) \in Word
         /\ InBand(Start(hash[k]), CoeffRow(hash[k]))
<1> DEFINE h == hash[k]
<1>1. h \in Hashes
  BY DEF TypeOK
<1> HIDE DEF h
<1>2. /\ CoeffRow(h) \in Word /\ 0 \in CoeffRow(h)
      /\ Start(h) \in Nat
      /\ \A b \in CoeffRow(h) : Start(h) + b < NumSlots
  BY <1>1, RowFits, CoeffRowIsWord
<1>3. Start(h) \in Slots
  <2>1. Start(h) + 0 < NumSlots /\ NumSlots \in Nat
    BY <1>2, TableSize
  <2> QED BY <1>2, <2>1 DEF Slots
<1> QED BY <1>1, <1>2, <1>3 DEF InBand, h

LEMMA InBandStaysBelow ==
  ASSUME NEW s, NEW c
  PROVE  InBand(s, c) <=> 0 \in c /\ StaysBelow(s, c, NumSlots)
BY DEF InBand, StaysBelow

-----------------------------------------------------------------------------
(* A turn of worker b                                                      *)

(* What a turn may do: b moves, the others stand still, and at most one    *)
(* row is written, inside b's range.                                       *)
SliceTurn(b) ==
  /\ /\ wpc' \in [Bases -> {"next", "reduce"}]
     /\ wn' \in [Bases -> Nat \ {0}]
     /\ wi' \in [Bases -> Nat]
     /\ wcr' \in [Bases -> Word]
     /\ spilled' \in [Bases -> Seq(Range(keys))]
  /\ \A a \in Bases \ {b} :
       /\ wpc'[a] = wpc[a] /\ wn'[a] = wn[a] /\ wi'[a] = wi[a]
       /\ wcr'[a] = wcr[a] /\ spilled'[a] = spilled[a]
  /\ wn'[b] \in 1 .. Len(bucket[b]) + 1
  /\ wpc'[b] = "reduce" => wn'[b] <= Len(bucket[b]) /\ InBand(b + wi'[b], wcr'[b])
  /\ Confined(b) =>
       /\ spilled'[b] = <<>>
       /\ wpc'[b] = "reduce" => StaysBelow(b + wi'[b], wcr'[b], Hi(b))
  /\ \/ coeff_rows' = coeff_rows
     \/ \E s \in b .. Hi(b) - 1 : \E c \in Word :
          /\ InBand(s, c)
          /\ Confined(b) => StaysBelow(s, c, Hi(b))
          /\ coeff_rows' = [coeff_rows EXCEPT ![s] = c]

LEMMA SliceTurns ==
  ASSUME ParInv, NEW b \in Slots, BandSlice(b)
  PROVE  SliceTurn(b)
<1>0. /\ TypeOK /\ ParTypeOK /\ PhaseInv /\ BucketInv /\ WorkerInv /\ ConfinedInv
      /\ RowsInBand
      /\ phase = "band" /\ b \in Bases /\ b \in Working
  BY DEF ParInv, BandInv, BandSlice, Working
<1> DEFINE N == Len(bucket[b])
<1>1. /\ b \in Nat /\ Hi(b) \in Nat /\ b < Hi(b) /\ Hi(b) <= NumSlots
      /\ NumSlots \in Nat /\ W \in Nat \ {0} /\ G \in Nat
  BY <1>0, BasesInTable, TableSize, WAssumption, GAssumption
<1>2. /\ wpc \in [Bases -> {"next", "reduce"}]
      /\ wn \in [Bases -> Nat \ {0}]
      /\ wi \in [Bases -> Nat]
      /\ wcr \in [Bases -> Word]
      /\ spilled \in [Bases -> Seq(Range(keys))]
      /\ bucket[b] \in Seq(Range(keys))
      /\ coeff_rows \in [Slots -> Word]
  BY <1>0 DEF ParTypeOK, TypeOK
<1>3. /\ wn[b] \in 1 .. N + 1
      /\ wpc[b] = "reduce" => wn[b] <= N /\ InBand(b + wi[b], wcr[b])
      /\ Confined(b) =>
           /\ spilled[b] = <<>>
           /\ \A s \in b .. Hi(b) - 1 : StaysBelow(s, coeff_rows[s], Hi(b))
           /\ wpc[b] = "reduce" => StaysBelow(b + wi[b], wcr[b], Hi(b))
  BY <1>0 DEF WorkerInv, ConfinedInv
<1>4. N \in Nat /\ \A m \in 1 .. N : bucket[b][m] \in Range(keys) /\ BelongsTo(b, bucket[b][m])
  BY <1>0, <1>2 DEF BucketInv
<1>5. CASE TakeKey(b)
  <2> DEFINE k == bucket[b][wn[b]]
             s == Start(hash[k])
             c == CoeffRow(hash[k])
  <2>1. k \in Range(keys) /\ BelongsTo(b, k) /\ wn[b] <= N
    BY <1>3, <1>4, <1>5 DEF TakeKey
  <2>2. s \in Nat /\ c \in Word /\ InBand(s, c)
    BY <1>0, <2>1, KeyHash
  <2>3. b <= s /\ s < Hi(b) /\ (Hi(b) # NumSlots => s + G < Hi(b))
    BY <1>1, <2>1, <2>2 DEF BelongsTo
  <2>4. /\ wi' = [wi EXCEPT ![b] = s - b] /\ wcr' = [wcr EXCEPT ![b] = c]
        /\ wpc' = [wpc EXCEPT ![b] = "reduce"]
        /\ UNCHANGED <<wn, spilled, coeff_rows>>
    BY <1>5 DEF TakeKey
  <2> HIDE DEF k, s, c
  <2>5. s - b \in Nat /\ b + (s - b) = s
    BY <1>1, <2>2, <2>3
  <2>6. Confined(b) => StaysBelow(s, c, Hi(b))
    <3>1. CASE Hi(b) = NumSlots
      BY <2>2, <3>1 DEF InBand, StaysBelow
    <3>2. CASE Hi(b) # NumSlots /\ G >= W - 1
      <4>1. \A i \in c : i \in Nat /\ i <= W - 1
        BY <1>1, <2>2 DEF Word
      <4> QED BY <1>1, <2>2, <2>3, <3>2, <4>1 DEF StaysBelow
    <3> QED BY <3>1, <3>2 DEF Confined
  <2>7. wi'[b] = s - b /\ wcr'[b] = c /\ b + wi'[b] = s
    BY <1>0, <1>2, <2>4, <2>5
  <2>8. wi' \in [Bases -> Nat] /\ wcr' \in [Bases -> Word]
    BY <1>2, <2>2, <2>4, <2>5
  <2> QED BY <1>0, <1>2, <1>3, <2>1, <2>2, <2>4, <2>6, <2>7, <2>8 DEF SliceTurn
<1>6. CASE SpillKey(b)
  <2>1. /\ wpc[b] = "reduce" /\ wi[b] >= Length(b)
        /\ spilled' = [spilled EXCEPT ![b] = Append(@, bucket[b][wn[b]])]
        /\ wn' = [wn EXCEPT ![b] = @ + 1] /\ wpc' = [wpc EXCEPT ![b] = "next"]
        /\ UNCHANGED <<wi, wcr, coeff_rows>>
    BY <1>6 DEF SpillKey, NextKey
  <2>2. ~Confined(b)
    <3> SUFFICES ASSUME Confined(b) PROVE FALSE
      OBVIOUS
    <3>1. b + wi[b] + 0 < Hi(b) /\ wi[b] \in Nat
      BY <1>0, <1>2, <1>3, <2>1 DEF InBand, StaysBelow
    <3> QED BY <1>1, <2>1, <3>1 DEF Length
  <2>3. bucket[b][wn[b]] \in Range(keys) /\ wn[b] + 1 \in 1 .. N + 1
    BY <1>3, <1>4, <2>1
  <2>4. spilled' \in [Bases -> Seq(Range(keys))]
    BY <1>0, <1>2, <2>1, <2>3
  <2> QED BY <1>0, <1>2, <2>1, <2>2, <2>3, <2>4 DEF SliceTurn
<1>7. CASE PlaceInSlice(b)
  <2> DEFINE s == b + wi[b]
  <2>1. /\ wpc[b] = "reduce" /\ wi[b] < Length(b)
        /\ coeff_rows' = [coeff_rows EXCEPT ![s] = wcr[b]]
        /\ wn' = [wn EXCEPT ![b] = @ + 1] /\ wpc' = [wpc EXCEPT ![b] = "next"]
        /\ UNCHANGED <<wi, wcr, spilled>>
    BY <1>7 DEF PlaceInSlice, NextKey
  <2>2. s \in b .. Hi(b) - 1
    <3>1. wi[b] \in Nat
      BY <1>0, <1>2
    <3> QED BY <1>1, <2>1, <3>1 DEF Length
  <2>3. /\ wcr[b] \in Word /\ InBand(s, wcr[b])
        /\ Confined(b) => StaysBelow(s, wcr[b], Hi(b))
    BY <1>0, <1>2, <1>3, <2>1
  <2>4. wn[b] + 1 \in 1 .. N + 1
    BY <1>3, <1>4, <2>1
  <2> HIDE DEF s
  <2>5. \E t \in b .. Hi(b) - 1 : \E c \in Word :
          /\ InBand(t, c)
          /\ Confined(b) => StaysBelow(t, c, Hi(b))
          /\ coeff_rows' = [coeff_rows EXCEPT ![t] = c]
    BY <2>1, <2>2, <2>3
  <2>6. /\ wpc' \in [Bases -> {"next", "reduce"}] /\ wn' \in [Bases -> Nat \ {0}]
        /\ wpc'[b] = "next" /\ wn'[b] = wn[b] + 1
        /\ \A a \in Bases \ {b} : wpc'[a] = wpc[a] /\ wn'[a] = wn[a]
    BY <1>0, <1>2, <2>1, <2>4
  <2> QED BY <1>0, <1>2, <1>3, <2>1, <2>4, <2>5, <2>6, Zenon DEF SliceTurn
<1>8. CASE DropInSlice(b)
  <2>1. /\ wpc[b] = "reduce"
        /\ wcr' = [wcr EXCEPT ![b] = {}]
        /\ wn' = [wn EXCEPT ![b] = @ + 1] /\ wpc' = [wpc EXCEPT ![b] = "next"]
        /\ UNCHANGED <<wi, spilled, coeff_rows>>
    BY <1>8 DEF DropInSlice, NextKey
  <2>2. wn[b] + 1 \in 1 .. N + 1 /\ {} \in Word
    BY <1>3, <1>4, <2>1 DEF Word
  <2> QED BY <1>0, <1>2, <1>3, <2>1, <2>2 DEF SliceTurn
<1>9. CASE ReduceInSlice(b)
  <2> DEFINE s  == b + wi[b]
             tz == TrailingZeros(SymDiff(wcr[b], coeff_rows[s]))
             r  == ShiftRight(SymDiff(wcr[b], coeff_rows[s]), tz)
  <2>1. /\ wpc[b] = "reduce" /\ wi[b] < Length(b)
        /\ coeff_rows[s] # {} /\ SymDiff(wcr[b], coeff_rows[s]) # {}
        /\ wi' = [wi EXCEPT ![b] = @ + tz]
        /\ wcr' = [wcr EXCEPT ![b] = r]
        /\ UNCHANGED <<wpc, wn, spilled, coeff_rows>>
    BY <1>9 DEF ReduceInSlice
  <2>2. s \in b .. Hi(b) - 1 /\ s \in Slots /\ s \in Nat /\ wi[b] \in Nat
    <3>1. wi[b] \in Nat
      BY <1>0, <1>2
    <3> QED BY <1>1, <2>1, <3>1 DEF Length, Slots
  <2>3. wcr[b] \in Word /\ coeff_rows[s] \in Word
    BY <1>0, <1>2, <2>2
  <2>4. /\ StaysBelow(s, wcr[b], NumSlots) /\ StaysBelow(s, coeff_rows[s], NumSlots)
        /\ Confined(b) => StaysBelow(s, wcr[b], Hi(b)) /\ StaysBelow(s, coeff_rows[s], Hi(b))
    <3>1. StaysBelow(s, wcr[b], NumSlots)
      BY <1>3, <2>1, InBandStaysBelow
    <3>2. StaysBelow(s, coeff_rows[s], NumSlots)
      BY <1>0, <2>1, <2>2, InBandStaysBelow DEF RowsInBand, Occupied
    <3> QED BY <1>3, <2>1, <2>2, <3>1, <3>2
  <2>5. /\ tz \in Nat /\ r \in Word /\ 0 \in r
        /\ \A end \in Nat : StaysBelow(s, wcr[b], end) /\ StaysBelow(s, coeff_rows[s], end)
                              => StaysBelow(s + tz, r, end)
    BY <2>1, <2>2, <2>3, ReducedRow
  <2> HIDE DEF tz, r
  <2>6. /\ InBand(s + tz, r)
        /\ Confined(b) => StaysBelow(s + tz, r, Hi(b))
    BY <1>1, <2>4, <2>5, InBandStaysBelow
  <2>7. wi'[b] = wi[b] + tz /\ wcr'[b] = r /\ b + (wi[b] + tz) = s + tz
    <3>1. b + (wi[b] + tz) = s + tz
      BY <1>1, <2>2, <2>5
    <3> QED BY <1>0, <1>2, <2>1, <3>1
  <2>8. wi' \in [Bases -> Nat] /\ wcr' \in [Bases -> Word]
    BY <1>0, <1>2, <2>1, <2>2, <2>5
  <2> HIDE DEF s
  <2>9. InBand(b + wi'[b], wcr'[b]) /\ (Confined(b) => StaysBelow(b + wi'[b], wcr'[b], Hi(b)))
    BY <2>6, <2>7
  <2> QED BY <1>0, <1>2, <1>3, <2>1, <2>8, <2>9 DEF SliceTurn
<1> QED BY <1>5, <1>6, <1>7, <1>8, <1>9 DEF BandSlice

LEMMA SliceParInv ==
  ASSUME ParInv, NEW b \in Slots, BandSlice(b)
  PROVE  ParInv'
<1>0. /\ BandInv /\ TypeOK /\ RowsInBand /\ LoopsInv
      /\ ParTypeOK /\ PhaseInv /\ BucketInv /\ WorkerInv /\ ConfinedInv /\ PlacedInv
  BY DEF ParInv, BandInv
<1>1. /\ phase = "band" /\ b \in Bases /\ pc = "order"
      /\ UNCHANGED <<keys, hash, pc, ordered, n, pos, cr, slot, state, data, phase,
                     arrival, bounds, bucket, deferred, tail>>
  BY <1>0 DEF BandSlice, solverVars, bucketVars, PhaseInv
<1>2. SliceTurn(b)
  BY SliceTurns
<1>3. Bases' = Bases /\ Working' = Bases /\ Working = Bases
  BY <1>1 DEF Bases, Working
<1>4. \A a : Hi(a)' = Hi(a) /\ Confined(a)' = Confined(a)
  BY <1>1 DEF Hi, Confined
(* The rows of the matrix *)
<1>5. /\ coeff_rows' \in [Slots -> Word]
      /\ \A s \in Slots :
           \/ coeff_rows'[s] = coeff_rows[s]
           \/ /\ s \in b .. Hi(b) - 1 /\ InBand(s, coeff_rows'[s])
              /\ Confined(b) => StaysBelow(s, coeff_rows'[s], Hi(b))
  <2>0. coeff_rows \in [Slots -> Word]
    BY <1>0 DEF TypeOK
  <2>1. CASE coeff_rows' = coeff_rows
    BY <2>0, <2>1
  <2>2. ASSUME NEW t \in b .. Hi(b) - 1, NEW c \in Word,
               InBand(t, c), Confined(b) => StaysBelow(t, c, Hi(b)),
               coeff_rows' = [coeff_rows EXCEPT ![t] = c]
        PROVE  /\ coeff_rows' \in [Slots -> Word]
               /\ \A s \in Slots :
                    \/ coeff_rows'[s] = coeff_rows[s]
                    \/ /\ s \in b .. Hi(b) - 1 /\ InBand(s, coeff_rows'[s])
                       /\ Confined(b) => StaysBelow(s, coeff_rows'[s], Hi(b))
    BY <2>0, <2>2
  <2> QED BY <1>2, <2>1, <2>2 DEF SliceTurn
<1>6. TypeOK' /\ RowsInBand' /\ LoopsInv'
  <2>1. TypeOK'
    BY <1>0, <1>1, <1>5 DEF TypeOK
  <2>2. RowsInBand'
    BY <1>0, <1>1, <1>5 DEF RowsInBand, Occupied
  <2>3. LoopsInv'
    BY <1>0, <1>1 DEF LoopsInv
  <2> QED BY <2>1, <2>2, <2>3
<1>7. ParTypeOK'
  BY <1>0, <1>1, <1>2, <1>3, <1>6 DEF ParTypeOK, SliceTurn
<1>8. PhaseInv' /\ BucketInv' /\ PlacedInv'
  <2>1. PhaseInv'
    BY <1>0, <1>1 DEF PhaseInv
  <2>2. BucketInv'
    BY <1>0, <1>1, <1>3, <1>4 DEF BucketInv, BelongsTo
  <2>3. PlacedInv'
    BY <1>0, <1>1, <1>3 DEF PlacedInv
  <2> QED BY <2>1, <2>2, <2>3
<1>9. WorkerInv'
  BY <1>0, <1>1, <1>2, <1>3 DEF WorkerInv, SliceTurn
<1>10. ConfinedInv'
  <2> SUFFICES ASSUME NEW a \in Bases, Confined(a)
               PROVE  /\ spilled'[a] = <<>>
                      /\ \A s \in a .. Hi(a) - 1 : StaysBelow(s, coeff_rows'[s], Hi(a))
                      /\ wpc'[a] = "reduce" => StaysBelow(a + wi'[a], wcr'[a], Hi(a))
    BY <1>1, <1>3, <1>4 DEF ConfinedInv
  <2>1. /\ spilled'[a] = <<>>
        /\ wpc'[a] = "reduce" => StaysBelow(a + wi'[a], wcr'[a], Hi(a))
    BY <1>0, <1>2, <1>3 DEF ConfinedInv, SliceTurn
  <2>2. ASSUME NEW s \in a .. Hi(a) - 1
        PROVE  StaysBelow(s, coeff_rows'[s], Hi(a))
    <3>1. /\ a \in Nat /\ Hi(a) \in Nat /\ a < Hi(a) /\ Hi(a) <= NumSlots
          /\ b \in Nat /\ Hi(b) \in Nat /\ b < Hi(b) /\ a \in bounds /\ b \in bounds
          /\ a < b => Hi(a) <= b
          /\ b < a => Hi(b) <= a
      BY <1>0, <1>1, BasesInTable DEF Bases, RangesOf
    <3>2. s \in Slots
      BY <3>1, TableSize DEF Slots
    <3>3. CASE a = b
      BY <1>0, <1>1, <1>3, <1>5, <2>2, <3>2, <3>3 DEF ConfinedInv
    <3>4. CASE a # b
      <4>1. s \notin b .. Hi(b) - 1
        BY <3>1, <3>4
      <4> QED BY <1>0, <1>1, <1>3, <1>5, <2>2, <3>2, <4>1 DEF ConfinedInv
    <3> QED BY <3>3, <3>4
  <2> QED BY <2>1, <2>2
<1> QED BY <1>6, <1>7, <1>8, <1>9, <1>10 DEF ParInv, BandInv

-----------------------------------------------------------------------------
(* The caller's steps                                                      *)

LEMMA ParInitInv == ParInit => ParInv
<1> SUFFICES ASSUME ParInit PROVE ParInv
  OBVIOUS
<1>1. BandInv
  BY InitBandInv DEF ParInit
<1>2. /\ phase = "start" /\ pc = "order" /\ arrival = 1 /\ bounds = {}
      /\ bucket = <<>> /\ deferred = <<>> /\ tail = NumSlots
      /\ coeff_rows = [s \in Slots |-> {}] /\ NumSlots \in Nat
      /\ Len(keys) \in Nat
  BY TableSize, InputsAssumption DEF ParInit, Init
<1>3. ParTypeOK
  <2>1. <<>> \in Seq(Range(keys))
    OBVIOUS
  <2> QED BY <1>1, <1>2, <2>1 DEF ParTypeOK, BandInv
<1>4. PhaseInv /\ BucketInv /\ WorkerInv /\ ConfinedInv /\ PlacedInv
  BY <1>2 DEF PhaseInv, BucketInv, WorkerInv, ConfinedInv, Working, PlacedInv, AllOrdered
<1> QED BY <1>1, <1>3, <1>4 DEF ParInv

(* Steps of the sequential construction, before or after the parallel part *)
LEMMA SequentialParInv ==
  ASSUME ParInv, [Next]_vars, UNCHANGED parVars,
         phase \in {"bucket", "band"} => UNCHANGED vars,
         Solve => tail = NumSlots
  PROVE  ParInv'
<1>0. /\ BandInv /\ TypeOK /\ ParTypeOK /\ PhaseInv /\ BucketInv /\ WorkerInv
      /\ ConfinedInv /\ PlacedInv
  BY DEF ParInv, BandInv
<1>1. BandInv' /\ TypeOK'
  BY <1>0, NextBandInv DEF BandInv
<1>2. UNCHANGED <<phase, arrival, bounds, bucket, deferred, wpc, wn, wi, wcr, spilled, tail>>
  BY DEF parVars, bucketVars, workerVars
<1>3. UNCHANGED <<keys, hash>>
  BY DEF Next, FromKeys, FromKeysPleated, Add, AddKey, PlaceRow, DropRow, ReduceRow,
         BackSubstitute, Solve, BackSubstRow, Finish, vars
<1>4. /\ pc # "order" => pc' # "order" /\ ordered' = ordered
      /\ pc' = "order" => pc = "order" /\ coeff_rows' = coeff_rows
      /\ pc' \in {"solve", "built"} => pc \in {"solve", "built"} \/ Solve
  BY DEF Next, FromKeys, FromKeysPleated, Add, AddKey, PlaceRow, DropRow, ReduceRow,
         BackSubstitute, Solve, BackSubstRow, Finish, vars, addVars
<1>5. Bases' = Bases /\ Working' = Working
  BY <1>2 DEF Bases, Working
<1>6. \A a : Hi(a)' = Hi(a) /\ Confined(a)' = Confined(a)
  BY <1>2 DEF Hi, Confined
<1>7. ParTypeOK'
  BY <1>0, <1>1, <1>2, <1>3, <1>5 DEF ParTypeOK
<1>8. PhaseInv'
  BY <1>0, <1>2, <1>3, <1>4 DEF PhaseInv, vars
<1>9. BucketInv'
  BY <1>0, <1>2, <1>3, <1>5, <1>6 DEF BucketInv, BelongsTo
<1>10. WorkerInv'
  BY <1>0, <1>2, <1>5 DEF WorkerInv
<1>11. ConfinedInv'
  <2>1. phase = "band" => coeff_rows' = coeff_rows
    BY DEF vars, addVars
  <2> QED BY <1>0, <1>2, <1>5, <1>6, <2>1 DEF ConfinedInv
<1>12. PlacedInv'
  <2>1. phase = "start" => AllOrdered'
    BY <1>0, NextAllOrdered DEF PlacedInv
  <2>2. phase = "tail" => ordered' = ordered /\ pc # "order"
    BY <1>0, <1>4 DEF PhaseInv
  <2> QED BY <1>0, <1>2, <1>3, <1>4, <1>5, <2>1, <2>2 DEF PlacedInv
<1> QED BY <1>1, <1>7, <1>8, <1>9, <1>10, <1>11, <1>12 DEF ParInv

(* Steps that leave the builder where it is *)
LEMMA BuilderWaits ==
  ASSUME BandInv, UNCHANGED vars
  PROVE  BandInv' /\ TypeOK'
BY NextBandInv DEF BandInv

LEMMA SplitParInv ==
  ASSUME ParInv, NEW threads \in ThreadCounts, NEW window \in WindowSizes,
         Split(threads, window)
  PROVE  ParInv' /\ \A b \in Bases' : bucket'[b] = <<>>
<1>0. BandInv /\ ParTypeOK /\ PhaseInv /\ TypeOK
  BY DEF ParInv, BandInv
<1>1. /\ phase = "start" /\ pc = "order" /\ NumThreads(threads) > 1
      /\ bounds' = Bounds(NumThreads(threads), window)
      /\ bucket' = [b \in Bases' |-> <<>>]
      /\ phase' = "bucket"
      /\ UNCHANGED <<vars, arrival, deferred, workerVars, tail>>
  BY DEF Split
<1>2. BandInv' /\ TypeOK'
  BY <1>0, <1>1, BuilderWaits
<1>3. NumThreads(threads) \in Nat \ {0} /\ window \in Nat \ {0}
  <2>1. threads \in Nat /\ NumBlocks \in Nat
    BY ThreadCountsAssumption, NumBlocksAssumption
  <2>2. {threads, 1} \in SUBSET Nat /\ {threads, 1} # {}
    BY <2>1
  <2> DEFINE m == Max({threads, 1})
  <2>3. m \in Nat
    <3>1. Max({threads, 1}) \in {threads, 1}
      <4>1. \E x \in Nat : \A y \in {threads, 1} : y <= x
        BY <2>1
      <4> QED BY <2>2, <4>1, MaxIsGreatest
    <3> QED BY <2>2, <3>1
  <2> HIDE DEF m
  <2>4. Min({m, NumBlocks}) \in {m, NumBlocks}
    BY <2>1, <2>3, MinIsLeast
  <2> QED BY <1>1, <2>1, <2>3, <2>4, WindowSizesAssumption DEF NumThreads, m
<1>4. Tiling(bounds')
  BY <1>1, <1>3, BoundsAreTiling
<1>5. UNCHANGED <<keys, hash, pc, ordered, coeff_rows>> /\ arrival = 1 /\ deferred = <<>>
      /\ coeff_rows = [s \in Slots |-> {}]
  BY <1>0, <1>1 DEF vars, addVars, PhaseInv
<1>6. ParTypeOK'
  <2>1. bucket' \in [Bases' -> Seq(Range(keys'))]
    BY <1>1
  <2>2. bounds' \in SUBSET (0 .. NumSlots)
    BY <1>4 DEF Tiling
  <2> QED BY <1>0, <1>1, <1>2, <1>5, <2>1, <2>2 DEF ParTypeOK
<1>7. PhaseInv' /\ PlacedInv' /\ ConfinedInv' /\ WorkerInv'
  BY <1>1, <1>4, <1>5 DEF PhaseInv, PlacedInv, ConfinedInv, WorkerInv, Working
<1>8. \A b \in Bases' : bucket'[b] = <<>>
  BY <1>1
<1>9. BucketInv'
  BY <1>8 DEF BucketInv
<1> QED BY <1>2, <1>6, <1>7, <1>8, <1>9 DEF ParInv

(* Where the next key goes                                                 *)
LEMMA KeyGoes ==
  ASSUME ParInv, BucketKey
  PROVE  LET k == keys[arrival]
         IN  /\ arrival \in 1 .. Len(keys) /\ arrival' = arrival + 1
             /\ k \in Range(keys)
             /\ \/ deferred' = Append(deferred, k) /\ UNCHANGED bucket
                \/ /\ UNCHANGED deferred
                   /\ \E b \in Bases :
                        /\ BelongsTo(b, k)
                        /\ bucket' = [bucket EXCEPT ![b] = Append(@, k)]
<1>0. BandInv /\ ParTypeOK /\ PhaseInv /\ TypeOK
  BY DEF ParInv, BandInv
<1> DEFINE k == keys[arrival]
           s == Start(hash[k])
           b == RangeOf(bounds, s)
<1>1. arrival \in 1 .. Len(keys) /\ arrival' = arrival + 1 /\ phase = "bucket"
  BY <1>0 DEF BucketKey, ParTypeOK
<1>2. k \in Range(keys)
  BY <1>0, <1>1, InputsAssumption, RangeOfSeq DEF TypeOK
<1>3. s \in Slots /\ s \in Nat
  BY <1>0, <1>2, KeyHash
<1>4. Tiling(bounds)
  BY <1>0, <1>1 DEF PhaseInv
<1>5. IF IsDeferred(bounds, s)
      THEN deferred' = Append(deferred, k) /\ UNCHANGED bucket
      ELSE /\ bucket' = [bucket EXCEPT ![b] = Append(@, k)]
           /\ UNCHANGED deferred
  BY DEF BucketKey
<1>6. ASSUME ~IsDeferred(bounds, s)
      PROVE  b \in Bases /\ BelongsTo(b, k)
  <2> HIDE DEF s
  <2>1. b \in Bases /\ b <= s /\ s < Hi(b)
    BY <1>3, <1>4, SlotInRange DEF Bases, Hi
  <2>2. Hi(b) # NumSlots => ~(s + G >= Hi(b))
    BY <1>4, <1>6, LastBound DEF IsDeferred, Hi
  <2>3. b \in Nat /\ Hi(b) \in Nat
    BY <1>0, <1>1, <2>1, BasesInTable
  <2>4. s \in b .. Hi(b) - 1 /\ (Hi(b) # NumSlots => s + G < Hi(b))
    <3> HIDE DEF b
    <3> QED BY <1>3, <2>1, <2>2, <2>3, GAssumption
  <2> QED BY <2>1, <2>4 DEF BelongsTo, s
<1> QED BY <1>1, <1>2, <1>5, <1>6

LEMMA RangeOfAppend ==
  ASSUME NEW S, NEW s \in Seq(S), NEW e \in S
  PROVE  Range(Append(s, e)) = Range(s) \cup {e}
<1> DEFINE t == Append(s, e)
<1>1. /\ DOMAIN t = 1 .. Len(s) + 1 /\ DOMAIN s = 1 .. Len(s) /\ Len(s) \in Nat
      /\ t[Len(s) + 1] = e /\ \A m \in 1 .. Len(s) : t[m] = s[m]
  OBVIOUS
<1> HIDE DEF t
<1>2. DOMAIN t = DOMAIN s \cup {Len(s) + 1}
  BY <1>1
<1>3. Range(t) = Range(s) \cup {e}
  BY <1>1, <1>2 DEF Range
<1> QED BY <1>3 DEF t

LEMMA RangeOfConcat ==
  ASSUME NEW S, NEW s \in Seq(S), NEW t \in Seq(S)
  PROVE  Range(s \o t) = Range(s) \cup Range(t)
<1> DEFINE u == s \o t
<1>1. /\ DOMAIN u = 1 .. Len(s) + Len(t) /\ Len(s) \in Nat /\ Len(t) \in Nat
      /\ DOMAIN s = 1 .. Len(s) /\ DOMAIN t = 1 .. Len(t)
      /\ \A m \in 1 .. Len(s) : u[m] = s[m]
      /\ \A m \in 1 .. Len(t) : u[Len(s) + m] = t[m]
  OBVIOUS
<1> HIDE DEF u
<1>2. ASSUME NEW x \in Range(u) PROVE x \in Range(s) \cup Range(t)
  <2>1. PICK m \in 1 .. Len(s) + Len(t) : x = u[m]
    BY <1>1 DEF Range
  <2>2. CASE m <= Len(s)
    BY <1>1, <2>1, <2>2 DEF Range
  <2>3. CASE m > Len(s)
    <3>1. m - Len(s) \in 1 .. Len(t) /\ Len(s) + (m - Len(s)) = m
      BY <1>1, <2>3
    <3> QED BY <1>1, <2>1, <3>1 DEF Range
  <2> QED BY <1>1, <2>2, <2>3
<1>3. ASSUME NEW x \in Range(s) PROVE x \in Range(u)
  <2>1. PICK m \in 1 .. Len(s) : x = s[m]
    BY <1>1 DEF Range
  <2>2. m \in 1 .. Len(s) + Len(t)
    BY <1>1
  <2> QED BY <1>1, <2>1, <2>2 DEF Range
<1>4. ASSUME NEW x \in Range(t) PROVE x \in Range(u)
  <2>1. PICK m \in 1 .. Len(t) : x = t[m]
    BY <1>1 DEF Range
  <2>2. Len(s) + m \in 1 .. Len(s) + Len(t)
    BY <1>1
  <2> QED BY <1>1, <2>1, <2>2 DEF Range
<1>5. Range(u) = Range(s) \cup Range(t)
  BY <1>2, <1>3, <1>4
<1> QED BY <1>5 DEF u

LEMMA BucketParInv ==
  ASSUME ParInv, BucketKey
  PROVE  ParInv'
<1>0. /\ BandInv /\ ParTypeOK /\ PhaseInv /\ TypeOK /\ BucketInv /\ PlacedInv
  BY DEF ParInv, BandInv
<1> DEFINE k == keys[arrival]
<1>1. /\ arrival \in 1 .. Len(keys) /\ arrival' = arrival + 1
      /\ k \in Range(keys)
      /\ \/ deferred' = Append(deferred, k) /\ UNCHANGED bucket
         \/ /\ UNCHANGED deferred
            /\ \E b \in Bases :
                 /\ BelongsTo(b, k)
                 /\ bucket' = [bucket EXCEPT ![b] = Append(@, k)]
  BY KeyGoes
<1>2. /\ phase = "bucket"
      /\ UNCHANGED <<vars, phase, bounds, workerVars, tail>>
  BY DEF BucketKey
<1>3. UNCHANGED <<keys, hash, pc, ordered, coeff_rows>> /\ Len(keys) \in Nat
  BY <1>0, <1>2, InputsAssumption DEF vars, addVars, TypeOK
<1>4. BandInv' /\ TypeOK'
  BY <1>0, <1>2, BuilderWaits
<1>5. Bases' = Bases /\ \A b : Hi(b)' = Hi(b)
  BY <1>2 DEF Bases, Hi
<1>6. bucket \in [Bases -> Seq(Range(keys))] /\ deferred \in Seq(Range(keys))
  BY <1>0, <1>2 DEF ParTypeOK
<1> DEFINE In(d, f) == Range(d) \cup (UNION {Range(f[b]) : b \in Bases})
<1>7. /\ bucket' \in [Bases -> Seq(Range(keys))] /\ deferred' \in Seq(Range(keys))
      /\ \A a \in Bases : \A m \in 1 .. Len(bucket'[a]) : BelongsTo(a, bucket'[a][m])
      /\ In(deferred, bucket) \subseteq In(deferred', bucket') /\ k \in In(deferred', bucket')
  <2>1. CASE deferred' = Append(deferred, k) /\ UNCHANGED bucket
    <3>1. deferred' \in Seq(Range(keys)) /\ Range(deferred') = Range(deferred) \cup {k}
      BY <1>1, <1>6, <2>1, RangeOfAppend
    <3>2. \A a \in Bases : \A m \in 1 .. Len(bucket'[a]) : BelongsTo(a, bucket'[a][m])
      BY <1>0, <1>2, <2>1 DEF BucketInv
    <3> QED BY <1>6, <2>1, <3>1, <3>2
  <2>2. ASSUME NEW b \in Bases, BelongsTo(b, k), UNCHANGED deferred,
               bucket' = [bucket EXCEPT ![b] = Append(@, k)]
        PROVE  /\ bucket' \in [Bases -> Seq(Range(keys))] /\ deferred' \in Seq(Range(keys))
               /\ \A a \in Bases : \A m \in 1 .. Len(bucket'[a]) : BelongsTo(a, bucket'[a][m])
               /\ In(deferred, bucket) \subseteq In(deferred', bucket')
               /\ k \in In(deferred', bucket')
    <3>1. Append(bucket[b], k) \in Seq(Range(keys))
      BY <1>1, <1>6
    <3>2. bucket'[b] = Append(bucket[b], k) /\ \A a \in Bases \ {b} : bucket'[a] = bucket[a]
      BY <1>6, <2>2
    <3>3. Range(bucket'[b]) = Range(bucket[b]) \cup {k}
      BY <1>1, <1>6, <3>2, RangeOfAppend
    <3>4. \A m \in 1 .. Len(bucket'[b]) : BelongsTo(b, bucket'[b][m])
      <4>1. bucket[b] \in Seq(Range(keys)) /\ \A m \in 1 .. Len(bucket[b]) : BelongsTo(b, bucket[b][m])
        BY <1>0, <1>2, <1>6 DEF BucketInv
      <4>2. /\ Len(bucket'[b]) = Len(bucket[b]) + 1 /\ Len(bucket[b]) \in Nat
            /\ bucket'[b][Len(bucket[b]) + 1] = k
            /\ \A m \in 1 .. Len(bucket[b]) : bucket'[b][m] = bucket[b][m]
        BY <3>2, <4>1
      <4> HIDE DEF k
      <4>3. ASSUME NEW m \in 1 .. Len(bucket'[b]) PROVE BelongsTo(b, bucket'[b][m])
        <5>1. m \in 1 .. Len(bucket[b]) \/ m = Len(bucket[b]) + 1
          BY <4>2
        <5> QED BY <2>2, <4>1, <4>2, <5>1
      <4> QED BY <4>3
    <3>5. \A a \in Bases : Range(bucket[a]) \subseteq Range(bucket'[a])
      BY <3>2, <3>3
    <3>6. \A a \in Bases : \A m \in 1 .. Len(bucket'[a]) : BelongsTo(a, bucket'[a][m])
      BY <1>0, <1>2, <3>2, <3>4 DEF BucketInv
    <3> HIDE DEF k
    <3> QED BY <1>6, <2>2, <3>1, <3>3, <3>5, <3>6
  <2> QED BY <1>1, <2>1, <2>2
<1> HIDE DEF k
<1>8. ParTypeOK'
  BY <1>0, <1>1, <1>2, <1>3, <1>4, <1>5, <1>7 DEF ParTypeOK, workerVars
<1>9. PhaseInv'
  BY <1>0, <1>2, <1>3 DEF PhaseInv
<1>10. BucketInv'
  BY <1>2, <1>3, <1>5, <1>7 DEF BucketInv, BelongsTo
<1>11. PlacedInv'
  <2>1. \A m \in 1 .. arrival - 1 : keys[m] \in In(deferred, bucket)
    BY <1>0, <1>2 DEF PlacedInv
  <2>2. ASSUME NEW m \in 1 .. arrival' - 1 PROVE keys[m] \in In(deferred', bucket')
    <3>1. m \in 1 .. arrival - 1 \/ m = arrival
      BY <1>1, <1>3
    <3> QED BY <1>7, <2>1, <3>1 DEF k
  <2> QED BY <1>2, <1>3, <1>5, <2>2 DEF PlacedInv
<1>12. WorkerInv' /\ ConfinedInv'
  BY <1>2 DEF WorkerInv, ConfinedInv, Working
<1> QED BY <1>4, <1>8, <1>9, <1>10, <1>11, <1>12 DEF ParInv

LEMMA SpawnParInv ==
  ASSUME ParInv, Spawn
  PROVE  ParInv'
<1>0. /\ BandInv /\ ParTypeOK /\ PhaseInv /\ TypeOK /\ BucketInv /\ PlacedInv
  BY DEF ParInv, BandInv
<1>1. /\ phase = "bucket" /\ arrival > Len(keys) /\ phase' = "band"
      /\ wpc' = [b \in Bases |-> "next"] /\ wn' = [b \in Bases |-> 1]
      /\ wi' = [b \in Bases |-> 0] /\ wcr' = [b \in Bases |-> {}]
      /\ spilled' = [b \in Bases |-> <<>>]
      /\ UNCHANGED <<vars, arrival, bounds, bucket, deferred, tail>>
  BY DEF Spawn, bucketVars
<1>2. UNCHANGED <<keys, hash, pc, ordered, coeff_rows>> /\ Len(keys) \in Nat
  BY <1>0, <1>1, InputsAssumption DEF vars, addVars, TypeOK
<1>3. BandInv' /\ TypeOK'
  BY <1>0, <1>1, BuilderWaits
<1>4. Bases' = Bases /\ \A b : Hi(b)' = Hi(b)
  BY <1>1 DEF Bases, Hi
<1>5. bucket \in [Bases -> Seq(Range(keys))]
  BY <1>0, <1>1 DEF ParTypeOK
<1>6. ParTypeOK'
  <2>1. /\ wpc' \in [Bases -> {"next", "reduce"}] /\ wn' \in [Bases -> Nat \ {0}]
        /\ wi' \in [Bases -> Nat]
        /\ wcr' \in [Bases -> Word]
        /\ spilled' \in [Bases -> Seq(Range(keys))]
    BY <1>1 DEF Word
  <2> QED BY <1>0, <1>1, <1>2, <1>3, <1>4, <1>5, <2>1 DEF ParTypeOK
<1>7. PhaseInv' /\ BucketInv' /\ PlacedInv'
  <2>1. arrival = Len(keys) + 1
    <3>1. arrival \in 1 .. Len(keys) + 1
      BY <1>0, Zenon DEF ParTypeOK
    <3> QED BY <1>1, <1>2, <3>1
  <2>2. PhaseInv'
    BY <1>0, <1>1, <1>2, <2>1 DEF PhaseInv
  <2>3. BucketInv'
    BY <1>0, <1>1, <1>2, <1>4 DEF BucketInv, BelongsTo
  <2>4. PlacedInv'
    BY <1>0, <1>1, <1>2, <1>4 DEF PlacedInv
  <2> QED BY <2>2, <2>3, <2>4
<1>8. WorkerInv'
  BY <1>1, <1>4, <1>5 DEF WorkerInv
<1>9. ConfinedInv'
  <2>1. \A b \in Bases : \A s \in b .. Hi(b) - 1 : coeff_rows[s] = {}
    <3> SUFFICES ASSUME NEW b \in Bases, NEW s \in b .. Hi(b) - 1 PROVE coeff_rows[s] = {}
      OBVIOUS
    <3>1. /\ b \in Nat /\ Hi(b) \in Nat /\ Hi(b) <= NumSlots /\ NumSlots \in Nat
      BY <1>0, <1>1, BasesInTable, TableSize
    <3>2. s \in Slots
      BY <3>1 DEF Slots
    <3> QED BY <1>0, <1>1, <3>2 DEF PhaseInv
  <2> QED BY <1>1, <1>2, <1>4, <2>1 DEF ConfinedInv, StaysBelow, Working, Confined
<1> QED BY <1>3, <1>6, <1>7, <1>8, <1>9 DEF ParInv

LEMMA JoinParInv ==
  ASSUME ParInv, Join
  PROVE  ParInv'
<1>0. /\ BandInv /\ TypeOK /\ RowsInBand /\ LoopsInv /\ ParTypeOK /\ PhaseInv
      /\ BucketInv /\ PlacedInv /\ WorkerInv /\ ConfinedInv
  BY DEF ParInv, BandInv
<1>1. /\ phase = "band" /\ phase' = "tail" /\ pc' = "next"
      /\ \A b \in Bases : wpc[b] = "next" /\ wn[b] > Len(bucket[b])
      /\ ordered' = deferred /\ tail' = 0
      /\ UNCHANGED <<keys, hash, n, coeff_rows, pos, cr, slot, state, data,
                     arrival, bounds, bucket, deferred, wpc, wn, wi, wcr, spilled>>
  BY DEF Join, solverVars, bucketVars, workerVars
<1>2. pc = "order" /\ n = 1 /\ deferred \in Seq(Range(keys)) /\ 0 \in bounds
      /\ Tiling(bounds) /\ bucket \in [Bases -> Seq(Range(keys))]
  <2>1. pc = "order" /\ ordered = <<>> /\ n \in 1 .. Len(ordered) + 1
    BY <1>0, <1>1 DEF PhaseInv, LoopsInv, TypeOK
  <2>2. n = 1
    BY <2>1
  <2> QED BY <1>0, <1>1, <2>1, <2>2 DEF PhaseInv, ParTypeOK, Tiling
<1>3. Bases' = Bases /\ Working' = Bases /\ Working = Bases
      /\ \A b : Hi(b)' = Hi(b) /\ Confined(b)' = Confined(b)
  BY <1>1 DEF Bases, Hi, Confined, Working
<1>4. TypeOK'
  <2>1. n \in 1 .. Len(deferred) + 1
    BY <1>2
  <2> QED BY <1>0, <1>1, <1>2, <2>1 DEF TypeOK
<1>5. RowsInBand' /\ LoopsInv'
  BY <1>0, <1>1 DEF RowsInBand, Occupied, LoopsInv
<1>6. ParTypeOK'
  BY <1>0, <1>1, <1>3, <1>4, TableSize DEF ParTypeOK
<1>7. PhaseInv' /\ BucketInv'
  BY <1>0, <1>1, <1>3 DEF PhaseInv, BucketInv, BelongsTo
<1>8. WorkerInv'
  <2>1. \A b \in Bases : wn[b] = Len(bucket[b]) + 1
    <3> SUFFICES ASSUME NEW b \in Bases PROVE wn[b] = Len(bucket[b]) + 1
      OBVIOUS
    <3>1. wn[b] \in 1 .. Len(bucket[b]) + 1 /\ wn[b] > Len(bucket[b]) /\ Len(bucket[b]) \in Nat
      BY <1>0, <1>1, <1>2 DEF WorkerInv
    <3> QED BY <3>1
  <2> QED BY <1>0, <1>1, <1>3, <2>1 DEF WorkerInv
<1>9. ConfinedInv'
  BY <1>0, <1>1, <1>3 DEF ConfinedInv
<1>10. PlacedInv'
  <2>1. \A b \in Bases : ~(b < 0)
    BY <1>0, <1>1, BasesInTable
  <2> QED BY <1>0, <1>1, <1>2, <1>3, <2>1 DEF PlacedInv
<1> QED BY <1>4, <1>5, <1>6, <1>7, <1>8, <1>9, <1>10 DEF ParInv, BandInv

LEMMA TailParInv ==
  ASSUME ParInv, AddSpilled
  PROVE  ParInv'
<1>0. /\ BandInv /\ TypeOK /\ RowsInBand /\ LoopsInv /\ ParTypeOK /\ PhaseInv
      /\ BucketInv /\ PlacedInv /\ WorkerInv /\ ConfinedInv
  BY DEF ParInv, BandInv
<1>1. /\ phase = "tail" /\ pc = "next" /\ tail < NumSlots
      /\ ordered' = ordered \o spilled[tail] /\ tail' = Hi(tail)
      /\ UNCHANGED <<keys, hash, pc, n, coeff_rows, pos, cr, slot, state, data, phase,
                     arrival, bounds, bucket, deferred, wpc, wn, wi, wcr, spilled>>
  BY DEF AddSpilled, solverVars, bucketVars, workerVars
<1>2. tail \in Bases
  BY <1>0, <1>1, TableSize DEF PlacedInv, Bases, RangesOf
<1>3. /\ spilled[tail] \in Seq(Range(keys)) /\ ordered \in Seq(Range(keys))
      /\ spilled \in [Bases -> Seq(Range(keys))]
  BY <1>0, <1>1, <1>2 DEF ParTypeOK, TypeOK
<1>4. /\ ordered' \in Seq(Range(keys)) /\ Len(ordered') >= Len(ordered)
      /\ Len(ordered) \in Nat /\ Len(ordered') \in Nat
      /\ Range(ordered') = Range(ordered) \cup Range(spilled[tail])
  BY <1>1, <1>3, RangeOfConcat
<1>5. Bases' = Bases /\ Working' = Working
      /\ \A b : Hi(b)' = Hi(b) /\ Confined(b)' = Confined(b)
  BY <1>1 DEF Bases, Hi, Confined, Working
<1>6. /\ tail \in Nat /\ Hi(tail) \in bounds /\ Hi(tail) \in Nat /\ tail < Hi(tail)
      /\ Hi(tail) <= NumSlots /\ \A x \in bounds : tail < x => Hi(tail) <= x
  BY <1>0, <1>1, <1>2, BasesInTable
<1>7. TypeOK'
  BY <1>0, <1>1, <1>4 DEF TypeOK
<1>8. RowsInBand' /\ LoopsInv'
  BY <1>0, <1>1 DEF RowsInBand, Occupied, LoopsInv
<1>9. ParTypeOK'
  BY <1>0, <1>1, <1>5, <1>6, <1>7, TableSize DEF ParTypeOK
<1>10. PhaseInv' /\ BucketInv' /\ WorkerInv' /\ ConfinedInv'
  BY <1>0, <1>1, <1>5 DEF PhaseInv, BucketInv, BelongsTo, WorkerInv, ConfinedInv
<1>11. PlacedInv'
  <2>1. ASSUME NEW b \in Bases, b < Hi(tail)
        PROVE  Range(spilled[b]) \subseteq Range(ordered')
    <3>1. b \in Nat /\ b \in bounds
      BY <1>0, <1>1, BasesInTable DEF Bases, RangesOf
    <3>2. b < tail \/ b = tail
      BY <1>6, <2>1, <3>1
    <3> QED BY <1>0, <1>1, <1>4, <3>2 DEF PlacedInv
  <2> QED BY <1>0, <1>1, <1>4, <1>5, <1>6, <2>1 DEF PlacedInv
<1> QED BY <1>7, <1>8, <1>9, <1>10, <1>11 DEF ParInv, BandInv

-----------------------------------------------------------------------------
(* What a step of the parallel builder is: one of the sequential builder,  *)
(* or one of the parallel part                                             *)
LEMMA ParSteps ==
  ASSUME ParInv, [ParNext]_allVars
  PROVE  \/ /\ [Next]_vars /\ UNCHANGED parVars
            /\ phase \in {"bucket", "band"} => UNCHANGED vars
            /\ Solve => tail = NumSlots
         \/ \E threads \in ThreadCounts, window \in WindowSizes : Split(threads, window)
         \/ BucketKey
         \/ Spawn
         \/ Join
         \/ AddSpilled
         \/ \E b \in Slots : BandSlice(b)
<1>1. phase \in {"bucket", "band"} => pc = "order"
  BY DEF ParInv, PhaseInv
<1>2. CASE Main
  <2>1. ASSUME NEW threads \in ThreadCounts, SequentialFallback(threads)
        PROVE  FromKeys /\ UNCHANGED parVars /\ phase = "start" /\ pc = "order"
    BY <2>1 DEF SequentialFallback, FromKeys
  <2>2. CASE Add /\ UNCHANGED parVars
    BY <1>1, <2>2 DEF Add, AddKey, PlaceRow, DropRow, ReduceRow, Next, Solve
  <2>3. CASE Solve /\ tail = NumSlots /\ UNCHANGED parVars
    BY <1>1, <2>3 DEF Solve, Next, BackSubstitute
  <2>4. CASE (BackSubstRow \/ Finish) /\ UNCHANGED parVars
    BY <1>1, <2>4 DEF BackSubstRow, Finish, Solve, Next, BackSubstitute
  <2>5. ASSUME NEW threads \in ThreadCounts, SequentialFallback(threads)
        PROVE  /\ [Next]_vars /\ UNCHANGED parVars
               /\ phase \in {"bucket", "band"} => UNCHANGED vars
               /\ Solve => tail = NumSlots
    BY <2>1, <2>5 DEF Next, Solve
  <2> QED BY <1>2, <2>2, <2>3, <2>4, <2>5 DEF Main
<1>3. CASE UNCHANGED allVars
  <2>1. UNCHANGED vars /\ UNCHANGED parVars
    BY <1>3 DEF allVars
  <2>2. ~Solve
    <3>1. pc' = pc
      BY <2>1 DEF vars
    <3> QED BY <3>1 DEF Solve
  <2> QED BY <2>1, <2>2
<1> QED BY <1>2, <1>3 DEF ParNext

LEMMA ParInvariant == ParSpec => []ParInv
<1>1. ParInv /\ [ParNext]_allVars => ParInv'
  BY ParSteps, SequentialParInv, SplitParInv, BucketParInv, SpawnParInv, JoinParInv,
     TailParInv, SliceParInv
<1> QED BY <1>1, ParInitInv, PTL DEF ParSpec

(* The state of the parallel builder is well typed.                        *)
THEOREM ParTypeCorrect == ParSpec => []ParTypeOK
<1>1. ParInv => ParTypeOK
  BY DEF ParInv
<1> QED BY <1>1, ParInvariant, PTL

(* However the workers interleave, the row in hand of each starts and ends *)
(* inside the table, and the worker of the last range spills no key.       *)
THEOREM WorkersStayInBand == ParSpec => []WorkersInBand
<1>1. ParInv => WorkersInBand
  <2> SUFFICES ASSUME ParInv, NEW b \in Working
               PROVE  /\ wpc[b] = "reduce" => InBand(b + wi[b], wcr[b])
                      /\ Hi(b) = NumSlots => spilled[b] = <<>>
    BY DEF WorkersInBand, Reducing
  <2>1. phase \in {"band", "tail"} /\ b \in Bases
    BY DEF Working
  <2> QED BY <2>1 DEF ParInv, WorkerInv, ConfinedInv, Confined
<1> QED BY <1>1, ParInvariant, PTL

(* A margin of W - 1 slots, which the code's 1 << 14 exceeds by far, is    *)
(* enough for all keys to be banded by the workers or deferred: none is    *)
(* spilled.                                                                *)
THEOREM MarginSuffices == ParSpec => []MarginPreventsSpills
<1>1. ParInv => MarginPreventsSpills
  BY DEF ParInv, ConfinedInv, Confined, MarginPreventsSpills
<1> QED BY <1>1, ParInvariant, PTL

-----------------------------------------------------------------------------
(* The equations                                                           *)

(* X satisfies the equation of key k; a row c at slot s; all stored rows   *)
HeldBy(X, k)       == Satisfies(X, 0, Equation(hash[k]))
RowSolved(X, s, c) == Satisfies(X, 0, RowEquation(s, c, {}))
StoredSolved(X)    == \A s \in Occupied : RowSolved(X, s, coeff_rows[s])

(* ParEquationsPreserved for one candidate X, and what the tail has in     *)
(* hand                                                                    *)
ParPreservedFor(X) ==
  /\ (\A k \in Taken : HeldBy(X, k)) => StoredSolved(X)
  /\ StoredSolved(X) =>
       /\ \A k \in Settled : HeldBy(X, k)
       /\ \A b \in Reducing : RowSolved(X, b + wi[b], wcr[b])
                                <=> HeldBy(X, bucket[b][wn[b]])
       /\ pc = "reduce" => (RowSolved(X, pos, cr) <=> HeldBy(X, ordered[n]))

LEMMA PreservedForAll ==
  (\A X \in SUBSET Slots : ParPreservedFor(X)) => ParEquationsPreserved
<1> SUFFICES ASSUME NEW X \in SUBSET Slots, ParPreservedFor(X)
             PROVE  /\ Solves(X, 0, {Equation(hash[k]) : k \in Taken})
                         => Solves(X, 0, StoredEquations)
                    /\ Solves(X, 0, StoredEquations) =>
                         /\ Solves(X, 0, {Equation(hash[k]) : k \in Settled})
                         /\ \A b \in Reducing :
                              Satisfies(X, 0, RowEquation(b + wi[b], wcr[b], {}))
                                <=> Satisfies(X, 0, Equation(hash[bucket[b][wn[b]]]))
  BY Zenon DEF ParEquationsPreserved
<1>1. Solves(X, 0, StoredEquations) <=> StoredSolved(X)
  BY DEF Solves, StoredEquations, StoredSolved, RowSolved
<1>2. \A S : Solves(X, 0, {Equation(hash[k]) : k \in S}) <=> \A k \in S : HeldBy(X, k)
  BY DEF Solves, HeldBy
<1> QED BY <1>1, <1>2, Zenon DEF ParPreservedFor, RowSolved, HeldBy

(* The matrix with one row more *)
LEMMA RowPlaced ==
  ASSUME NEW X, coeff_rows \in [Slots -> Word], NEW s \in Slots, NEW c \in Word,
         coeff_rows[s] = {}, c # {}, coeff_rows' = [coeff_rows EXCEPT ![s] = c]
  PROVE  StoredSolved(X)' <=> StoredSolved(X) /\ RowSolved(X, s, c)
<1>1. Occupied' = Occupied \cup {s} /\ s \notin Occupied /\ coeff_rows'[s] = c
  BY DEF Occupied
<1>2. \A t \in Occupied : coeff_rows'[t] = coeff_rows[t]
  BY <1>1 DEF Occupied
<1>3. StoredSolved(X)' <=> \A t \in Occupied' : RowSolved(X, t, coeff_rows'[t])
  BY DEF StoredSolved, RowSolved
<1> QED BY <1>1, <1>2, <1>3 DEF StoredSolved

LEMMA RowsKept ==
  ASSUME NEW X, UNCHANGED coeff_rows
  PROVE  StoredSolved(X)' <=> StoredSolved(X)
BY DEF StoredSolved, Occupied, RowSolved

LEMMA RowReduced ==
  ASSUME NEW X, NEW s \in Nat, NEW x \in Word, NEW c \in Word,
         SymDiff(x, c) # {}, RowSolved(X, s, c),
         NEW tz, tz = TrailingZeros(SymDiff(x, c)),
         NEW r, r = ShiftRight(SymDiff(x, c), tz)
  PROVE  RowSolved(X, s + tz, r) <=> RowSolved(X, s, x)
BY ReductionStep DEF RowSolved

(* The key worker b has dealt with *)
LEMMA KeyDealt ==
  ASSUME ParInv, NEW b \in Slots, BandSlice(b), wn' = [wn EXCEPT ![b] = @ + 1]
  PROVE  LET k == bucket[b][wn[b]]
         IN  /\ \A x : x \in Taken' <=> x \in Taken \/ x = k
             /\ UNCHANGED spilled => \A x \in Settled' : x \in Settled \/ x = k
             /\ spilled' = [spilled EXCEPT ![b] = Append(@, k)] /\ k \in Range(keys)
                  => \A x \in Settled' : x \in Settled
<1> DEFINE k == bucket[b][wn[b]]
<1>1. /\ phase = "band" /\ b \in Bases
      /\ UNCHANGED <<ordered, n, phase, bounds, bucket>>
  BY DEF BandSlice, bucketVars
<1>2. Working = Bases /\ Working' = Bases /\ Added' = Added
  BY <1>1 DEF Working, Bases, Added
<1>3. wn \in [Bases -> Nat \ {0}] /\ spilled \in [Bases -> Seq(Range(keys))]
  BY <1>1 DEF ParInv, ParTypeOK
<1>4. \A a \in Bases \ {b} : Dealt(a)' = Dealt(a)
  BY <1>1, <1>3 DEF Dealt
<1>5. Dealt(b)' = Dealt(b) \cup {k}
  <2> DEFINE w == wn[b]
  <2>1. w \in Nat \ {0} /\ wn'[b] = w + 1
    BY <1>1, <1>3
  <2> HIDE DEF w
  <2>2. 1 .. wn'[b] - 1 = (1 .. w - 1) \cup {w}
    BY <2>1
  <2> QED BY <1>1, <2>2 DEF Dealt, w
<1> HIDE DEF k
<1>6. \A x : x \in Taken' <=> x \in Taken \/ x = k
  BY <1>1, <1>2, <1>4, <1>5 DEF Taken
<1>7. ASSUME UNCHANGED spilled, NEW x \in Settled'
      PROVE  x \in Settled \/ x = k
  <2>1. x \in Added \/ \E a \in Bases : x \in Dealt(a)' /\ x \notin Range(spilled[a])
    BY <1>2, <1>7 DEF Settled
  <2> QED BY <1>2, <1>4, <1>5, <2>1 DEF Settled
<1>8. ASSUME spilled' = [spilled EXCEPT ![b] = Append(@, k)], k \in Range(keys), NEW x \in Settled'
      PROVE  x \in Settled
  <2>1. Range(spilled'[b]) = Range(spilled[b]) \cup {k}
    BY <1>1, <1>3, <1>8, RangeOfAppend
  <2>2. \A a \in Bases \ {b} : spilled'[a] = spilled[a]
    BY <1>3, <1>8
  <2>3. x \in Added \/ \E a \in Bases : x \in Dealt(a)' /\ x \notin Range(spilled'[a])
    BY <1>2, <1>8 DEF Settled
  <2> QED BY <1>1, <1>2, <1>4, <1>5, <2>1, <2>2, <2>3 DEF Settled
<1> QED BY <1>6, <1>7, <1>8 DEF k

LEMMA SlicePreserved ==
  ASSUME ParInv, NEW b \in Slots, BandSlice(b), NEW X, ParPreservedFor(X)
  PROVE  ParPreservedFor(X)'
<1>0. /\ TypeOK /\ ParTypeOK /\ PhaseInv /\ BucketInv /\ WorkerInv /\ RowsInBand
  BY DEF ParInv, BandInv
<1>1. /\ phase = "band" /\ b \in Bases /\ pc = "order" /\ pc' = "order"
      /\ UNCHANGED <<hash, phase, ordered, n, bounds, bucket>>
  BY <1>0 DEF BandSlice, bucketVars, PhaseInv
<1>2. Working = Bases /\ Working' = Bases /\ Added' = Added
  BY <1>1 DEF Working, Bases, Added
<1>3. \A k : HeldBy(X, k)' <=> HeldBy(X, k)
  BY <1>1 DEF HeldBy, Equation, RowEquation
<1>4. /\ wpc \in [Bases -> {"next", "reduce"}] /\ wn \in [Bases -> Nat \ {0}]
      /\ wi \in [Bases -> Nat] /\ wcr \in [Bases -> Word]
      /\ coeff_rows \in [Slots -> Word] /\ b \in Nat
      /\ \A a \in Bases : Hi(a) \in Nat /\ Hi(a) <= NumSlots
  BY <1>0, <1>1, BasesInTable DEF ParTypeOK, TypeOK
(* A turn that leaves the row in hand, if any, to the others               *)
<1>5. ASSUME wpc'[b] = "next", UNCHANGED <<wi, wcr>>,
             \A a \in Bases \ {b} : wpc'[a] = wpc[a] /\ wn'[a] = wn[a],
             StoredSolved(X)' => StoredSolved(X)
      PROVE  StoredSolved(X)' =>
               \A a \in Reducing' : RowSolved(X, a + wi'[a], wcr'[a])
                                      <=> HeldBy(X, bucket'[a][wn'[a]])
  <2> SUFFICES ASSUME StoredSolved(X)', NEW a \in Reducing'
               PROVE  RowSolved(X, a + wi'[a], wcr'[a]) <=> HeldBy(X, bucket'[a][wn'[a]])
    OBVIOUS
  <2>1. a \in Bases \ {b} /\ a \in Reducing
    BY <1>2, <1>5 DEF Reducing
  <2> QED BY <1>1, <1>5, <2>1 DEF ParPreservedFor
<1>6. \A s, c : RowSolved(X, s, c)' <=> RowSolved(X, s, c)
  BY DEF RowSolved
<1>7. /\ wpc[b] = "reduce" => b \in Reducing /\ InBand(b + wi[b], wcr[b])
      /\ wpc[b] = "reduce" => bucket[b][wn[b]] \in Range(keys)
      /\ wpc[b] = "reduce" /\ wi[b] < Length(b) => b + wi[b] \in Slots /\ b + wi[b] \in Nat
  <2>1. wpc[b] = "reduce" => b \in Reducing /\ InBand(b + wi[b], wcr[b])
    BY <1>0, <1>1, <1>2 DEF WorkerInv, Reducing
  <2>2. ASSUME wpc[b] = "reduce" PROVE bucket[b][wn[b]] \in Range(keys)
    <3>1. bucket[b] \in Seq(Range(keys)) /\ wn[b] \in 1 .. Len(bucket[b])
      BY <1>0, <1>1, <1>4, <2>2 DEF WorkerInv, ParTypeOK
    <3> QED BY <3>1
  <2>3. ASSUME wi[b] < Length(b)
        PROVE  b + wi[b] \in Slots /\ b + wi[b] \in Nat
    <3>1. wi[b] \in Nat /\ Hi(b) \in Nat /\ Hi(b) <= NumSlots /\ NumSlots \in Nat
      BY <1>1, <1>4, TableSize
    <3> QED BY <1>4, <2>3, <3>1 DEF Length, Slots
  <2> QED BY <2>1, <2>2, <2>3
<1> DEFINE k == bucket[b][wn[b]]
           s == b + wi[b]
<1>8. CASE TakeKey(b)
  <2>1. /\ wpc' = [wpc EXCEPT ![b] = "reduce"]
        /\ wi' = [wi EXCEPT ![b] = Start(hash[k]) - b]
        /\ wcr' = [wcr EXCEPT ![b] = CoeffRow(hash[k])]
        /\ UNCHANGED <<wn, spilled, coeff_rows>>
    BY <1>8 DEF TakeKey
  <2>2. UNCHANGED <<Taken, Settled>>
    BY <1>1, <1>2, <2>1 DEF Taken, Settled, Dealt
  <2>3. StoredSolved(X)' <=> StoredSolved(X)
    BY <2>1, RowsKept
  <2>4. RowSolved(X, b + wi'[b], wcr'[b]) <=> HeldBy(X, bucket'[b][wn'[b]])
    <3>1. bucket[b] \in Seq(Range(keys)) /\ wn[b] \in 1 .. Len(bucket[b])
      BY <1>0, <1>1, <1>4, <1>8 DEF TakeKey, ParTypeOK
    <3>2. k \in Range(keys)
      BY <3>1
    <3>3. Start(hash[k]) \in Nat
      BY <1>0, <3>2, KeyHash
    <3>4. b + wi'[b] = Start(hash[k]) /\ wcr'[b] = CoeffRow(hash[k])
      <4>1. b + (Start(hash[k]) - b) = Start(hash[k])
        BY <1>4, <3>3
      <4> QED BY <1>1, <1>4, <2>1, <4>1
    <3>5. bucket'[b][wn'[b]] = k
      BY <1>1, <2>1
    <3> QED BY <3>4, <3>5, Zenon DEF RowSolved, HeldBy, Equation
  <2>5. StoredSolved(X)' =>
          \A a \in Reducing' : RowSolved(X, a + wi'[a], wcr'[a])
                                 <=> HeldBy(X, bucket'[a][wn'[a]])
    <3> SUFFICES ASSUME StoredSolved(X)', NEW a \in Reducing', a # b
                 PROVE  RowSolved(X, a + wi'[a], wcr'[a]) <=> HeldBy(X, bucket'[a][wn'[a]])
      BY <2>4
    <3>1. a \in Reducing /\ wi'[a] = wi[a] /\ wcr'[a] = wcr[a]
      BY <1>2, <1>4, <2>1 DEF Reducing
    <3> QED BY <1>1, <2>1, <2>3, <3>1 DEF ParPreservedFor
  <2> QED BY <1>1, <1>3, <1>6, <2>2, <2>3, <2>5 DEF ParPreservedFor
<1>9. CASE SpillKey(b) \/ PlaceInSlice(b) \/ DropInSlice(b)
  <2>1. /\ wpc[b] = "reduce" /\ wn' = [wn EXCEPT ![b] = @ + 1]
        /\ wpc' = [wpc EXCEPT ![b] = "next"] /\ UNCHANGED wi
        /\ \A a \in Bases \ {b} : wcr'[a] = wcr[a]
    BY <1>4, <1>9 DEF SpillKey, PlaceInSlice, DropInSlice, NextKey
  <2>2. \A x : x \in Taken' <=> x \in Taken \/ x = k
    BY <2>1, KeyDealt
  <2>3. /\ StoredSolved(X)' => StoredSolved(X)
        /\ StoredSolved(X) /\ HeldBy(X, k) => StoredSolved(X)'
        /\ StoredSolved(X)' => \A x \in Settled' : HeldBy(X, x)
    <3>1. CASE SpillKey(b)
      <4>1. \A x \in Settled' : x \in Settled
        BY <1>7, <2>1, <3>1, KeyDealt DEF SpillKey
      <4>2. StoredSolved(X)' <=> StoredSolved(X)
        BY <3>1, RowsKept DEF SpillKey
      <4> QED BY <4>1, <4>2 DEF ParPreservedFor
    <3>2. CASE PlaceInSlice(b)
      <4>1. \A x \in Settled' : x \in Settled \/ x = k
        BY <2>1, <3>2, KeyDealt DEF PlaceInSlice
      <4>2. StoredSolved(X)' <=> StoredSolved(X) /\ RowSolved(X, s, wcr[b])
        <5>1. /\ coeff_rows[s] = {} /\ coeff_rows' = [coeff_rows EXCEPT ![s] = wcr[b]]
              /\ s \in Slots /\ wcr[b] \in Word /\ wcr[b] # {}
          BY <1>1, <1>4, <1>7, <3>2 DEF PlaceInSlice, InBand
        <5> QED BY <1>4, <5>1, RowPlaced
      <4>3. StoredSolved(X) => (RowSolved(X, s, wcr[b]) <=> HeldBy(X, k))
        BY <1>7, <2>1 DEF ParPreservedFor
      <4> HIDE DEF k, s
      <4> QED BY <4>1, <4>2, <4>3 DEF ParPreservedFor
    <3>3. CASE DropInSlice(b)
      <4>1. \A x \in Settled' : x \in Settled \/ x = k
        BY <2>1, <3>3, KeyDealt DEF DropInSlice
      <4>2. StoredSolved(X)' <=> StoredSolved(X)
        BY <3>3, RowsKept DEF DropInSlice
      <4>3. s \in Occupied /\ wcr[b] = coeff_rows[s]
        BY <1>7, <3>3 DEF DropInSlice, SymDiff, Occupied
      <4>4. StoredSolved(X) => HeldBy(X, k)
        BY <1>7, <2>1, <4>3 DEF ParPreservedFor, StoredSolved
      <4> HIDE DEF k, s
      <4> QED BY <4>1, <4>2, <4>4 DEF ParPreservedFor
    <3> QED BY <1>9, <3>1, <3>2, <3>3
  <2>4. StoredSolved(X)' =>
          \A a \in Reducing' : RowSolved(X, a + wi'[a], wcr'[a])
                                 <=> HeldBy(X, bucket'[a][wn'[a]])
    <3> SUFFICES ASSUME StoredSolved(X)', NEW a \in Reducing'
                 PROVE  RowSolved(X, a + wi'[a], wcr'[a]) <=> HeldBy(X, bucket'[a][wn'[a]])
      OBVIOUS
    <3>1. a \in Bases \ {b} /\ a \in Reducing
      BY <1>1, <1>2, <1>4, <2>1 DEF Reducing
    <3>2. wi'[a] = wi[a] /\ wcr'[a] = wcr[a] /\ bucket'[a][wn'[a]] = bucket[a][wn[a]]
      BY <1>1, <1>4, <2>1, <3>1
    <3> QED BY <2>3, <3>1, <3>2 DEF ParPreservedFor
  <2> HIDE DEF k
  <2> QED BY <1>1, <1>3, <1>6, <2>2, <2>3, <2>4 DEF ParPreservedFor
<1>10. CASE ReduceInSlice(b)
  <2> DEFINE tz == TrailingZeros(SymDiff(wcr[b], coeff_rows[s]))
             r  == ShiftRight(SymDiff(wcr[b], coeff_rows[s]), tz)
  <2>1. /\ wpc[b] = "reduce" /\ wi[b] < Length(b)
        /\ coeff_rows[s] # {} /\ SymDiff(wcr[b], coeff_rows[s]) # {}
        /\ wi' = [wi EXCEPT ![b] = @ + tz]
        /\ wcr' = [wcr EXCEPT ![b] = r]
        /\ UNCHANGED <<wpc, wn, spilled, coeff_rows>>
    BY <1>10 DEF ReduceInSlice
  <2>2. /\ s \in Slots /\ s \in Nat /\ wcr[b] \in Word /\ coeff_rows[s] \in Word
        /\ s \in Occupied /\ wi[b] \in Nat
    BY <1>1, <1>4, <1>7, <2>1 DEF Occupied
  <2>3. UNCHANGED <<Taken, Settled, Reducing>>
    BY <1>1, <1>2, <2>1 DEF Taken, Settled, Dealt, Reducing
  <2>4. StoredSolved(X)' <=> StoredSolved(X)
    BY <2>1, RowsKept
  <2>5. StoredSolved(X) => (RowSolved(X, s + tz, r) <=> RowSolved(X, s, wcr[b]))
    BY <2>1, <2>2, RowReduced DEF StoredSolved
  <2>6. b + wi'[b] = s + tz /\ wcr'[b] = r
    <3>1. tz \in Nat
      BY <2>1, <2>2, ReducedRow
    <3> HIDE DEF tz, r
    <3>2. b + (wi[b] + tz) = s + tz
      BY <1>4, <2>2, <3>1
    <3> QED BY <1>1, <1>4, <2>1, <3>2
  <2> HIDE DEF tz, r, s
  <2>7. StoredSolved(X)' =>
          \A a \in Reducing' : RowSolved(X, a + wi'[a], wcr'[a])
                                 <=> HeldBy(X, bucket'[a][wn'[a]])
    <3> SUFFICES ASSUME StoredSolved(X), NEW a \in Reducing
                 PROVE  RowSolved(X, a + wi'[a], wcr'[a]) <=> HeldBy(X, bucket[a][wn[a]])
      BY <1>1, <2>1, <2>3, <2>4
    <3>1. CASE a = b
      BY <1>7, <2>1, <2>5, <2>6, <3>1 DEF ParPreservedFor, s
    <3>2. CASE a # b
      <4>1. wi'[a] = wi[a] /\ wcr'[a] = wcr[a]
        BY <1>2, <1>4, <2>1, <3>2 DEF Reducing
      <4> QED BY <4>1 DEF ParPreservedFor
    <3> QED BY <3>1, <3>2
  <2> QED BY <1>1, <1>3, <1>6, <2>3, <2>4, <2>7 DEF ParPreservedFor
<1> QED BY <1>8, <1>9, <1>10 DEF BandSlice

(* Steps of the caller that add no key to the matrix and leave its rows,   *)
(* and those in hand, as they are                                          *)
LEMMA NothingAdded ==
  ASSUME UNCHANGED <<hash, coeff_rows, Taken, Settled>>,
         Reducing' \subseteq Reducing,
         \A b \in Reducing' : UNCHANGED <<wi[b], wcr[b], bucket[b][wn[b]]>>,
         pc' = "reduce" => pc = "reduce" /\ UNCHANGED <<pos, cr, ordered[n]>>,
         NEW X, ParPreservedFor(X)
  PROVE  ParPreservedFor(X)'
<1>1. StoredSolved(X)' <=> StoredSolved(X)
  BY RowsKept
<1>2. \A k : HeldBy(X, k)' <=> HeldBy(X, k)
  BY DEF HeldBy, Equation, RowEquation
<1>3. \A s, c : RowSolved(X, s, c)' <=> RowSolved(X, s, c)
  BY DEF RowSolved
<1>4. ASSUME StoredSolved(X), NEW b \in Reducing'
      PROVE  RowSolved(X, b + wi'[b], wcr'[b]) <=> HeldBy(X, bucket'[b][wn'[b]])
  BY <1>4 DEF ParPreservedFor
<1> QED BY <1>1, <1>2, <1>3, <1>4 DEF ParPreservedFor

(* Steps of Banding *)
LEMMA SequentialPreserved ==
  ASSUME ParInv, [Next]_vars, UNCHANGED parVars, NEW X, ParPreservedFor(X)
  PROVE  ParPreservedFor(X)'
<1>0. TypeOK /\ RowsInBand /\ LoopsInv
  BY DEF ParInv, BandInv
<1>1. UNCHANGED <<phase, arrival, bounds, bucket, deferred, wpc, wn, wi, wcr, spilled, tail>>
  BY DEF parVars, bucketVars, workerVars
<1>2. /\ Reducing' = Reducing
      /\ \A x : x \in Taken' <=> x \in Added' \/ \E b \in Working : x \in Dealt(b)
      /\ \A x : x \in Taken <=> x \in Added \/ \E b \in Working : x \in Dealt(b)
      /\ \A x : x \in Settled <=> x \in Added \/ \E b \in Working : x \in Dealt(b) \ Range(spilled[b])
      /\ \A x : x \in Settled' <=> x \in Added' \/ \E b \in Working : x \in Dealt(b) \ Range(spilled[b])
  <2>1. Working' = Working /\ \A b : Dealt(b)' = Dealt(b)
    BY <1>1 DEF Working, Bases, Dealt
  <2>2. Reducing' = Reducing
    BY <1>1, <2>1 DEF Reducing
  <2>3. /\ \A x : x \in Taken <=> x \in Added \/ \E b \in Working : x \in Dealt(b)
        /\ \A x : x \in Taken' <=> x \in Added' \/ \E b \in Working : x \in Dealt(b)
    BY <2>1 DEF Taken
  <2>4. /\ \A x : x \in Settled <=> x \in Added \/ \E b \in Working : x \in Dealt(b) \ Range(spilled[b])
        /\ \A x : x \in Settled' <=> x \in Added' \/ \E b \in Working : x \in Dealt(b) \ Range(spilled[b])
    BY <1>1, <2>1 DEF Settled
  <2> QED BY <2>2, <2>3, <2>4
<1>3. \A b : UNCHANGED <<wi[b], wcr[b], bucket[b][wn[b]]>>
  BY <1>1
<1>4. ASSUME Added' = Added, UNCHANGED <<hash, coeff_rows>>,
             pc' = "reduce" => pc = "reduce" /\ UNCHANGED <<pos, cr, ordered[n]>>
      PROVE  ParPreservedFor(X)'
  <2>1. UNCHANGED <<Taken, Settled>>
    BY <1>2, <1>4
  <2> QED BY <1>2, <1>3, <1>4, <2>1, NothingAdded
<1>5. ASSUME UNCHANGED hash PROVE \A k : HeldBy(X, k)' <=> HeldBy(X, k)
  BY <1>5 DEF HeldBy, Equation, RowEquation
<1>6. \A s, c : RowSolved(X, s, c)' <=> RowSolved(X, s, c)
  BY DEF RowSolved
<1> DEFINE Hand == \A b \in Reducing : RowSolved(X, b + wi[b], wcr[b])
                                         <=> HeldBy(X, bucket[b][wn[b]])
<1>7. UNCHANGED hash => (Hand' <=> Hand)
  BY <1>1, <1>2, <1>5, <1>6
<1>8. CASE AddKey
  <2>1. /\ UNCHANGED <<hash, coeff_rows>> /\ Added' = Added /\ pc' = "reduce"
        /\ pos' = Start(hash[ordered[n]]) /\ cr' = CoeffRow(hash[ordered[n]])
        /\ ordered'[n'] = ordered[n]
    BY <1>8 DEF AddKey, Added
  <2>2. UNCHANGED <<Taken, Settled>>
    BY <1>2, <2>1
  <2>3. StoredSolved(X)' <=> StoredSolved(X)
    BY <2>1, RowsKept
  <2>4. RowSolved(X, pos', cr') <=> HeldBy(X, ordered'[n'])
    BY <2>1, Zenon DEF RowSolved, HeldBy, Equation
  <2> HIDE DEF Hand
  <2> QED BY <1>5, <1>6, <1>7, <2>1, <2>2, <2>3, <2>4 DEF ParPreservedFor, Hand
<1>9. CASE PlaceRow \/ DropRow
  <2> DEFINE k == ordered[n]
  <2>1. /\ pc = "reduce" /\ pc' = "next" /\ UNCHANGED <<hash, ordered>> /\ n' = n + 1
        /\ n \in 1 .. Len(ordered) /\ n \in Nat
    BY <1>0, <1>9 DEF PlaceRow, DropRow, LoopsInv, TypeOK
  <2>2. Added' = Added \cup {k}
    <3>1. 1 .. n' - 1 = (1 .. n - 1) \cup {n}
      BY <2>1
    <3> QED BY <2>1, <3>1 DEF Added
  <2>3. pos \in Slots /\ pos \in Nat /\ cr \in Word /\ cr # {} /\ coeff_rows \in [Slots -> Word]
    BY <1>0, <2>1, TableSize DEF RowsInBand, InBand, TypeOK, Slots
  <2>4. StoredSolved(X) => (RowSolved(X, pos, cr) <=> HeldBy(X, k))
    BY <2>1 DEF ParPreservedFor
  <2>5. /\ StoredSolved(X)' => StoredSolved(X) /\ HeldBy(X, k)
        /\ StoredSolved(X) /\ HeldBy(X, k) => StoredSolved(X)'
    <3>1. CASE PlaceRow
      <4>1. StoredSolved(X)' <=> StoredSolved(X) /\ RowSolved(X, pos, cr)
        BY <2>3, <3>1, RowPlaced DEF PlaceRow
      <4> QED BY <2>4, <4>1
    <3>2. CASE DropRow
      <4>1. StoredSolved(X)' <=> StoredSolved(X)
        BY <3>2, RowsKept DEF DropRow
      <4>2. pos \in Occupied /\ cr = coeff_rows[pos]
        BY <2>3, <3>2 DEF DropRow, SymDiff, Occupied
      <4>3. StoredSolved(X) => RowSolved(X, pos, cr)
        BY <4>2 DEF StoredSolved
      <4> QED BY <2>4, <4>1, <4>3
    <3> QED BY <1>9, <3>1, <3>2
  <2> HIDE DEF Hand, k
  <2>6. /\ \A x : x \in Taken' <=> x \in Taken \/ x = k
        /\ \A x \in Settled' : x \in Settled \/ x = k
    BY <1>2, <2>2
  <2> QED BY <1>5, <1>6, <1>7, <2>1, <2>5, <2>6 DEF ParPreservedFor, Hand
<1>10. CASE ReduceRow
  <2> DEFINE tz == TrailingZeros(SymDiff(cr, coeff_rows[pos]))
             r  == ShiftRight(SymDiff(cr, coeff_rows[pos]), tz)
  <2>1. /\ pc = "reduce" /\ pc' = "reduce" /\ UNCHANGED <<hash, ordered, n, coeff_rows>>
        /\ coeff_rows[pos] # {} /\ SymDiff(cr, coeff_rows[pos]) # {}
        /\ pos' = pos + tz /\ cr' = r
    BY <1>10 DEF ReduceRow
  <2>2. Added' = Added
    BY <2>1 DEF Added
  <2>3. UNCHANGED <<Taken, Settled>>
    BY <1>2, <2>2
  <2>4. pos \in Slots /\ pos \in Nat /\ cr \in Word /\ coeff_rows[pos] \in Word
        /\ pos \in Occupied
    BY <1>0, <2>1, TableSize DEF RowsInBand, InBand, TypeOK, Slots, Occupied
  <2>5. StoredSolved(X) => (RowSolved(X, pos', cr') <=> RowSolved(X, pos, cr))
    BY <2>1, <2>4, RowReduced DEF StoredSolved
  <2>6. StoredSolved(X)' <=> StoredSolved(X)
    BY <2>1, RowsKept
  <2> HIDE DEF Hand
  <2> QED BY <1>5, <1>6, <1>7, <2>1, <2>3, <2>5, <2>6 DEF ParPreservedFor, Hand
<1>11. CASE FromKeys \/ \E window \in WindowSizes : FromKeysPleated(window)
  <2>1. pc = "order" /\ pc' # "reduce" /\ UNCHANGED <<coeff_rows, hash, n>>
    BY <1>11 DEF FromKeys, FromKeysPleated
  <2>2. n = 1
    <3>1. n \in 1 .. Len(ordered) + 1 /\ ordered = <<>>
      BY <1>0, <2>1 DEF TypeOK, LoopsInv
    <3> QED BY <3>1
  <2>3. Added = {} /\ Added' = {}
    BY <2>1, <2>2 DEF Added
  <2> QED BY <1>4, <2>1, <2>3
<1>12. CASE BackSubstitute
  <2>1. UNCHANGED <<coeff_rows, hash>> /\ Added' = Added /\ pc' # "reduce"
    BY <1>12 DEF BackSubstitute, Solve, BackSubstRow, Finish, addVars, Added
  <2> QED BY <1>4, <2>1
<1>13. CASE UNCHANGED vars
  <2>1. Added' = Added /\ UNCHANGED <<coeff_rows, hash, pc, pos, cr, ordered, n>>
    BY <1>13 DEF vars, addVars, Added
  <2> QED BY <1>4, <2>1
<1> QED BY <1>8, <1>9, <1>10, <1>11, <1>12, <1>13 DEF Next, Add

LEMMA ParInitPreserved ==
  ASSUME ParInit, NEW X
  PROVE  ParPreservedFor(X)
<1>1. Occupied = {} /\ Added = {} /\ Working = {} /\ pc = "order"
  BY DEF ParInit, Init, Occupied, Added, Working
<1> QED BY <1>1 DEF ParPreservedFor, StoredSolved, Settled, Reducing

LEMMA ParStepPreserved ==
  ASSUME ParInv, [ParNext]_allVars, NEW X, ParPreservedFor(X)
  PROVE  ParPreservedFor(X)'
<1>0. TypeOK /\ ParTypeOK /\ PhaseInv /\ LoopsInv
  BY DEF ParInv, BandInv
<1>1. ASSUME NEW threads \in ThreadCounts, NEW window \in WindowSizes, Split(threads, window)
      PROVE  ParPreservedFor(X)'
  <2>1. /\ phase = "start" /\ phase' = "bucket" /\ pc = "order" /\ pc' = "order"
        /\ UNCHANGED <<hash, coeff_rows, ordered, n>>
    BY <1>1 DEF Split, vars, addVars
  <2>2. Working = {} /\ Working' = {} /\ Added' = Added
    BY <2>1 DEF Working, Added
  <2>3. UNCHANGED <<Taken, Settled, Reducing>> /\ Reducing = {}
    BY <2>2 DEF Taken, Settled, Reducing
  <2> QED BY <2>1, <2>3, NothingAdded
<1>2. CASE BucketKey \/ Spawn
  <2>1. /\ phase = "bucket" /\ phase' \in {"bucket", "band"} /\ pc' = pc /\ pc = "order"
        /\ UNCHANGED <<hash, coeff_rows, ordered, n>>
    BY <1>0, <1>2 DEF BucketKey, Spawn, vars, addVars, PhaseInv
  <2>2. Working = {} /\ Added' = Added
    BY <2>1 DEF Working, Added
  <2>3. \A b \in Working' : Dealt(b)' = {} /\ wpc'[b] = "next"
    <3>1. CASE BucketKey
      BY <3>1 DEF BucketKey, Working
    <3>2. CASE Spawn
      <4>1. \A b \in Bases : wn'[b] = 1 /\ wpc'[b] = "next"
        BY <3>2 DEF Spawn
      <4>2. Working' \subseteq Bases
        BY <3>2 DEF Spawn, bucketVars, Working, Bases
      <4> QED BY <4>1, <4>2 DEF Dealt
    <3> QED BY <1>2, <3>1, <3>2
  <2>4. UNCHANGED <<Taken, Settled>> /\ Reducing' = {}
    <3>1. Reducing' = {}
      BY <2>3 DEF Reducing
    <3>2. Taken = Added /\ Settled = Added
      BY <2>2 DEF Taken, Settled
    <3>3. Taken' = Added /\ Settled' = Added
      BY <2>2, <2>3 DEF Taken, Settled
    <3> QED BY <3>1, <3>2, <3>3
  <2> QED BY <2>1, <2>4, NothingAdded
<1>3. CASE Join \/ AddSpilled
  <2>1. /\ phase \in {"band", "tail"} /\ phase' = "tail" /\ pc' = "next"
        /\ UNCHANGED <<hash, coeff_rows, n, bounds, bucket, wpc, wn, wi, wcr, spilled>>
    BY <1>3 DEF Join, AddSpilled, bucketVars, workerVars
  <2>2. Added' = Added
    <3>1. CASE Join
      <4>1. n = 1
        <5>1. n \in 1 .. Len(ordered) + 1 /\ ordered = <<>>
          BY <1>0, <3>1 DEF TypeOK, LoopsInv, PhaseInv, Join
        <5> QED BY <5>1
      <4> QED BY <2>1, <4>1 DEF Added
    <3>2. CASE AddSpilled
      <4>1. tail \in Bases /\ ordered' = ordered \o spilled[tail]
        BY <1>0, <3>2, TableSize DEF AddSpilled, ParInv, PlacedInv, Bases, RangesOf
      <4>2. ordered \in Seq(Range(keys)) /\ spilled[tail] \in Seq(Range(keys))
            /\ n \in 1 .. Len(ordered) + 1
        BY <1>0, <2>1, <4>1 DEF TypeOK, ParTypeOK
      <4>3. \A m \in 1 .. n - 1 : ordered'[m] = ordered[m]
        BY <4>1, <4>2
      <4> QED BY <2>1, <4>3 DEF Added
    <3> QED BY <1>3, <3>1, <3>2
  <2>3. Working' = Working /\ \A b : Dealt(b)' = Dealt(b)
    BY <2>1 DEF Working, Bases, Dealt
  <2>4. UNCHANGED <<Taken, Settled, Reducing>>
    BY <2>1, <2>2, <2>3 DEF Taken, Settled, Reducing
  <2> QED BY <2>1, <2>4, NothingAdded
<1> QED BY <1>1, <1>2, <1>3, ParSteps, SequentialPreserved, SlicePreserved

(* However the workers interleave, and whatever is deferred or spilled, no *)
(* equation is lost and none invented: the rows stored so far follow from  *)
(* the keys taken and imply the keys settled, and each row in a worker's   *)
(* hand says what its key said.                                            *)
THEOREM WorkersPreserveEquations == ParSpec => []ParEquationsPreserved
<1> DEFINE I == \A X \in SUBSET Slots : ParPreservedFor(X)
<1>1. ParInit => I
  BY ParInitPreserved
<1>2. ParInv /\ I /\ [ParNext]_allVars => I'
  BY ParStepPreserved
<1>3. I => ParEquationsPreserved
  BY PreservedForAll
<1> HIDE DEF I
<1> QED BY <1>1, <1>2, <1>3, ParInvariant, PTL DEF ParSpec

-----------------------------------------------------------------------------
(* The buckets                                                             *)

(* Where key k has arrived, where it is deferred, and where in the buckets *)
Arrived(k) == {m \in 1 .. arrival - 1 : keys[m] = k}
PutOff(k)  == {m \in 1 .. Len(deferred) : deferred[m] = k}
Placed(k)  == UNION {{b} \X {m \in 1 .. Len(bucket[b]) : bucket[b][m] = k} : b \in Bases}

CountInv ==
  phase # "start" =>
    \A k \in Range(keys) :
      /\ IsFiniteSet(Arrived(k)) /\ IsFiniteSet(PutOff(k)) /\ IsFiniteSet(Placed(k))
      /\ Cardinality(Arrived(k)) = Cardinality(PutOff(k)) + Cardinality(Placed(k))

LEMMA OneMore ==
  ASSUME NEW A, NEW x, IsFiniteSet(A), x \notin A
  PROVE  /\ IsFiniteSet(A \cup {x})
         /\ Cardinality(A \cup {x}) = Cardinality(A) + 1
         /\ Cardinality(A) \in Nat
BY FS_AddElement, FS_CardinalityType

(* A sequence's places of a key, after another key is appended             *)
LEMMA AppendPlaces ==
  ASSUME NEW S, NEW s \in Seq(S), NEW e \in S, NEW k
  PROVE  LET P(t) == {m \in 1 .. Len(t) : t[m] = k}
         IN  /\ e = k => P(Append(s, e)) = P(s) \cup {Len(s) + 1}
             /\ e # k => P(Append(s, e)) = P(s)
             /\ Len(s) + 1 \notin P(s)
<1> DEFINE t == Append(s, e)
<1>1. /\ Len(t) = Len(s) + 1 /\ Len(s) \in Nat
      /\ t[Len(s) + 1] = e /\ \A m \in 1 .. Len(s) : t[m] = s[m]
  OBVIOUS
<1> HIDE DEF t
<1>2. 1 .. Len(t) = (1 .. Len(s)) \cup {Len(s) + 1} /\ Len(s) + 1 \notin 1 .. Len(s)
  BY <1>1
<1>3. /\ e = k => {m \in 1 .. Len(t) : t[m] = k} = {m \in 1 .. Len(s) : s[m] = k} \cup {Len(s) + 1}
      /\ e # k => {m \in 1 .. Len(t) : t[m] = k} = {m \in 1 .. Len(s) : s[m] = k}
  BY <1>1, <1>2
<1> QED BY <1>2, <1>3 DEF t

LEMMA BucketCounts ==
  ASSUME ParInv, BucketKey, CountInv
  PROVE  CountInv'
<1>0. ParTypeOK /\ TypeOK /\ phase = "bucket" /\ UNCHANGED <<keys, bounds, phase>>
  BY DEF ParInv, BandInv, BucketKey, vars
<1> SUFFICES ASSUME NEW k \in Range(keys)
             PROVE  /\ IsFiniteSet(Arrived(k)') /\ IsFiniteSet(PutOff(k)')
                    /\ IsFiniteSet(Placed(k)')
                    /\ Cardinality(Arrived(k)')
                         = Cardinality(PutOff(k)') + Cardinality(Placed(k)')
  BY <1>0 DEF CountInv
<1> DEFINE q == keys[arrival]
<1>1. /\ arrival \in 1 .. Len(keys) /\ arrival' = arrival + 1
      /\ q \in Range(keys)
      /\ \/ deferred' = Append(deferred, q) /\ UNCHANGED bucket
         \/ /\ UNCHANGED deferred
            /\ \E b \in Bases : bucket' = [bucket EXCEPT ![b] = Append(@, q)]
  BY KeyGoes
<1>2. /\ IsFiniteSet(Arrived(k)) /\ IsFiniteSet(PutOff(k)) /\ IsFiniteSet(Placed(k))
      /\ Cardinality(Arrived(k)) = Cardinality(PutOff(k)) + Cardinality(Placed(k))
  BY <1>0 DEF CountInv
<1>3. bucket \in [Bases -> Seq(Range(keys))] /\ deferred \in Seq(Range(keys)) /\ Bases' = Bases
  BY <1>0 DEF ParTypeOK, Bases
<1>4. /\ q = k => Arrived(k)' = Arrived(k) \cup {arrival}
      /\ q # k => Arrived(k)' = Arrived(k)
      /\ arrival \notin Arrived(k)
  <2>1. arrival \in Nat /\ Len(keys) \in Nat
    BY <1>1, <1>0, InputsAssumption DEF TypeOK
  <2>2. 1 .. arrival' - 1 = (1 .. arrival - 1) \cup {arrival} /\ arrival \notin 1 .. arrival - 1
    BY <1>1, <2>1
  <2> QED BY <1>0, <2>2 DEF Arrived
<1>5. CASE deferred' = Append(deferred, q) /\ UNCHANGED bucket
  <2> DEFINE y == Len(deferred) + 1
  <2>1. /\ q = k => PutOff(k)' = PutOff(k) \cup {y}
        /\ q # k => PutOff(k)' = PutOff(k)
        /\ y \notin PutOff(k)
    <3> HIDE DEF q
    <3> QED BY <1>1, <1>3, <1>5, AppendPlaces DEF PutOff
  <2>2. Placed(k)' = Placed(k)
    BY <1>3, <1>5 DEF Placed
  <2> HIDE DEF q, y
  <2>3. CASE q = k
    <3>1. /\ IsFiniteSet(Arrived(k)') /\ Cardinality(Arrived(k)') = Cardinality(Arrived(k)) + 1
          /\ IsFiniteSet(PutOff(k)') /\ Cardinality(PutOff(k)') = Cardinality(PutOff(k)) + 1
          /\ Cardinality(Arrived(k)) \in Nat /\ Cardinality(PutOff(k)) \in Nat
      BY <1>2, <1>4, <2>1, <2>3, OneMore
    <3>2. Cardinality(Placed(k)) \in Nat
      BY <1>2, FS_CardinalityType
    <3> QED BY <1>2, <2>2, <3>1, <3>2
  <2>4. CASE q # k
    BY <1>2, <1>4, <2>1, <2>2, <2>4
  <2> QED BY <2>3, <2>4
<1>6. ASSUME UNCHANGED deferred, NEW b \in Bases, bucket' = [bucket EXCEPT ![b] = Append(@, q)]
      PROVE  /\ IsFiniteSet(Arrived(k)') /\ IsFiniteSet(PutOff(k)') /\ IsFiniteSet(Placed(k)')
             /\ Cardinality(Arrived(k)') = Cardinality(PutOff(k)') + Cardinality(Placed(k)')
  <2> DEFINE y == <<b, Len(bucket[b]) + 1>>
             P(a) == {m \in 1 .. Len(bucket[a]) : bucket[a][m] = k}
  <2>1. PutOff(k)' = PutOff(k)
    BY <1>6 DEF PutOff
  <2>2. bucket'[b] = Append(bucket[b], q) /\ \A a \in Bases \ {b} : bucket'[a] = bucket[a]
    BY <1>3, <1>6
  <2>3. /\ q = k => P(b)' = P(b) \cup {Len(bucket[b]) + 1}
        /\ q # k => P(b)' = P(b)
        /\ Len(bucket[b]) + 1 \notin P(b)
    <3> HIDE DEF q
    <3> QED BY <1>1, <1>3, <2>2, AppendPlaces
  <2>4. \A a \in Bases \ {b} : P(a)' = P(a)
    BY <2>2
  <2>5. /\ Placed(k) = UNION {{a} \X P(a) : a \in Bases}
        /\ Placed(k)' = UNION {{a} \X P(a)' : a \in Bases}
    BY <1>3 DEF Placed
  <2> HIDE DEF P, q
  <2>6. /\ q = k => Placed(k)' = Placed(k) \cup {y}
        /\ q # k => Placed(k)' = Placed(k)
        /\ y \notin Placed(k)
    BY <2>3, <2>4, <2>5
  <2> HIDE DEF y
  <2>7. CASE q = k
    <3>1. /\ IsFiniteSet(Arrived(k)') /\ Cardinality(Arrived(k)') = Cardinality(Arrived(k)) + 1
          /\ IsFiniteSet(Placed(k)') /\ Cardinality(Placed(k)') = Cardinality(Placed(k)) + 1
          /\ Cardinality(Arrived(k)) \in Nat /\ Cardinality(Placed(k)) \in Nat
      BY <1>2, <1>4, <2>6, <2>7, OneMore
    <3>2. Cardinality(PutOff(k)) \in Nat
      BY <1>2, FS_CardinalityType
    <3> QED BY <1>2, <2>1, <3>1, <3>2
  <2>8. CASE q # k
    BY <1>2, <1>4, <2>1, <2>6, <2>8
  <2> QED BY <2>7, <2>8
<1> QED BY <1>1, <1>5, <1>6

LEMMA CountsKept ==
  ASSUME CountInv, UNCHANGED <<keys, arrival, bounds, bucket, deferred>>,
         phase' = "start" \/ phase # "start"
  PROVE  CountInv'
<1>1. \A k : UNCHANGED <<Arrived(k), PutOff(k), Placed(k)>>
  BY DEF Arrived, PutOff, Placed, Bases
<1> QED BY <1>1 DEF CountInv

LEMMA StepCounts ==
  ASSUME ParInv, CountInv, [ParNext]_allVars
  PROVE  CountInv'
<1>1. ASSUME NEW threads \in ThreadCounts, NEW window \in WindowSizes, Split(threads, window)
      PROVE  CountInv'
  <2>1. arrival' = 1 /\ deferred' = <<>> /\ \A b \in Bases' : bucket'[b] = <<>>
    BY <1>1, SplitParInv DEF ParInv, PhaseInv, Split
  <2>2. ASSUME NEW k
        PROVE  Arrived(k)' = {} /\ PutOff(k)' = {} /\ Placed(k)' = {}
    BY <2>1 DEF Arrived, PutOff, Placed
  <2>3. IsFiniteSet({}) /\ Cardinality({}) = 0
    BY FS_EmptySet
  <2> QED BY <2>2, <2>3 DEF CountInv
<1>2. CASE Spawn \/ Join \/ AddSpilled \/ \E b \in Slots : BandSlice(b)
  BY <1>2, CountsKept DEF Spawn, Join, AddSpilled, BandSlice, bucketVars, vars
<1>3. CASE [Next]_vars /\ UNCHANGED parVars
  <2>1. UNCHANGED <<keys, phase, arrival, bounds, bucket, deferred>>
    BY <1>3 DEF Next, FromKeys, FromKeysPleated, Add, AddKey, PlaceRow, DropRow, ReduceRow,
                BackSubstitute, Solve, BackSubstRow, Finish, vars, parVars, bucketVars
  <2> QED BY <2>1, CountsKept
<1> QED BY <1>1, <1>2, <1>3, ParSteps, BucketCounts

(* Every key is dealt out once, to the worker in whose range it starts or  *)
(* to the tail: none is lost, none doubled, and no worker computes a       *)
(* negative index from a start slot below its range.                       *)
THEOREM KeysAreDealtOut == ParSpec => []KeysAreBucketed
<1>1. ParInit => CountInv
  BY DEF ParInit, CountInv
<1>2. ParSpec => []CountInv
  BY <1>1, StepCounts, ParInvariant, PTL DEF ParSpec
<1>3. ParInv /\ CountInv => KeysAreBucketed
  <2> SUFFICES ASSUME ParInv, CountInv, phase # "start" PROVE KeysAreBucketed
    BY DEF KeysAreBucketed
  <2>1. {0, NumSlots} \subseteq bounds /\ bucket \in [Bases -> Seq(Range(keys))]
    BY DEF ParInv, PhaseInv, Tiling, ParTypeOK
  <2>2. ASSUME NEW b \in Bases, NEW k \in Range(bucket[b])
        PROVE  Start(hash[k]) \in b .. Hi(b) - 1
    <3>1. DOMAIN bucket[b] = 1 .. Len(bucket[b])
      BY <2>1
    <3>2. PICK m \in 1 .. Len(bucket[b]) : k = bucket[b][m]
      BY <3>1 DEF Range
    <3> QED BY <3>2 DEF ParInv, BucketInv, BelongsTo
  <2>3. \A k \in Range(keys) :
          Cardinality(Arrived(k)) = Cardinality(PutOff(k)) + Cardinality(Placed(k))
    BY DEF CountInv
  <2> QED BY <2>1, <2>2, <2>3, Zenon DEF KeysAreBucketed, Arrived, PutOff, Placed
<1> QED BY <1>2, <1>3, ParInvariant, PTL

-----------------------------------------------------------------------------
(* The finished filter                                                     *)

(* When the solver starts, the keys settled are all the keys.              *)
LEMMA AllSettled ==
  ASSUME ParInv, SolveInv, pc \in {"solve", "built"}
  PROVE  Range(keys) \subseteq Settled /\ Taken \subseteq Range(keys)
<1>0. /\ TypeOK /\ ParTypeOK /\ PhaseInv /\ WorkerInv /\ PlacedInv
  BY DEF ParInv, BandInv
<1>1. /\ n = Len(ordered) + 1 /\ ordered \in Seq(Range(keys)) /\ phase \in {"start", "tail"}
  BY <1>0 DEF SolveInv, TypeOK, PhaseInv, ParTypeOK
<1>2. Added = Range(ordered) /\ Range(ordered) \subseteq Range(keys)
  <2>1. DOMAIN ordered = 1 .. n - 1
    BY <1>1
  <2>2. \A m \in DOMAIN ordered : ordered[m] \in Range(keys)
    BY <1>1
  <2> QED BY <2>1, <2>2 DEF Added, Range
<1>3. CASE phase = "start"
  <2>1. Range(ordered) = Range(keys) /\ Working = {}
    BY <1>0, <1>3 DEF PlacedInv, AllOrdered, Working
  <2> QED BY <1>2, <2>1 DEF Settled, Taken
<1>4. CASE phase = "tail"
  <2>1. /\ Working = Bases /\ arrival = Len(keys) + 1 /\ tail = NumSlots
        /\ bucket \in [Bases -> Seq(Range(keys))]
        /\ \A b \in Bases : wn[b] = Len(bucket[b]) + 1
    BY <1>0, <1>4 DEF Working, PhaseInv, PlacedInv, ParTypeOK, WorkerInv
  <2>2. \A b \in Bases : Dealt(b) = Range(bucket[b]) /\ Range(bucket[b]) \subseteq Range(keys)
    <3> SUFFICES ASSUME NEW b \in Bases
                 PROVE  Dealt(b) = Range(bucket[b]) /\ Range(bucket[b]) \subseteq Range(keys)
      OBVIOUS
    <3>1. bucket[b] \in Seq(Range(keys))
      BY <2>1
    <3>2. DOMAIN bucket[b] = 1 .. wn[b] - 1
      BY <2>1, <3>1
    <3>3. \A m \in DOMAIN bucket[b] : bucket[b][m] \in Range(keys)
      BY <3>1
    <3> QED BY <3>2, <3>3 DEF Dealt, Range
  <2>3. \A b \in Bases : Range(spilled[b]) \subseteq Range(ordered)
    <3>1. \A b \in Bases : b < NumSlots
      BY <1>0, <1>4, BasesInTable, TableSize DEF Slots
    <3> QED BY <1>0, <1>4, <2>1, <3>1 DEF PlacedInv
  <2>4. ASSUME NEW x \in Range(keys) PROVE x \in Settled
    <3>1. PICK m \in 1 .. Len(keys) : x = keys[m]
      BY <1>0, InputsAssumption DEF TypeOK, Range
    <3>2. m \in 1 .. arrival - 1
      <4>1. Len(keys) \in Nat
        BY <1>0, InputsAssumption DEF TypeOK
      <4> QED BY <2>1, <4>1
    <3>3. x \in Range(deferred) \/ \E b \in Bases : x \in Range(bucket[b])
      BY <1>0, <1>4, <3>1, <3>2 DEF PlacedInv
    <3>4. CASE x \in Range(deferred)
      BY <1>0, <1>2, <1>4, <3>4 DEF PlacedInv, Settled
    <3>5. ASSUME NEW b \in Bases, x \in Range(bucket[b]) PROVE x \in Settled
      BY <1>2, <2>1, <2>2, <2>3, <3>5 DEF Settled
    <3> QED BY <3>3, <3>4, <3>5
  <2>5. Taken \subseteq Range(keys)
    BY <1>2, <2>1, <2>2 DEF Taken
  <2> QED BY <2>4, <2>5
<1> QED BY <1>1, <1>3, <1>4

LEMMA ParSolveInv ==
  ASSUME ParInv, SolveInv, [ParNext]_allVars
  PROVE  SolveInv'
<1>0. /\ TypeOK /\ RowsInBand /\ PhaseInv
  BY DEF ParInv, BandInv
<1>1. CASE [Next]_vars
  BY <1>0, <1>1, NextSolveInv
<1>2. CASE BucketKey \/ Spawn \/ \E threads \in ThreadCounts, window \in WindowSizes : Split(threads, window)
  BY <1>2, SolveStutters DEF BucketKey, Spawn, Split, vars, addVars
<1>3. CASE Join \/ AddSpilled
  BY <1>0, <1>3, SolveAwaits DEF Join, AddSpilled, PhaseInv, solverVars
<1>4. ASSUME NEW b \in Slots, BandSlice(b) PROVE SolveInv'
  BY <1>0, <1>4, SolveAwaits DEF BandSlice, PhaseInv, solverVars
<1> QED BY <1>1, <1>2, <1>3, <1>4, ParSteps

(* The matrix the threads have filled is as good as the one of the         *)
(* sequential construction: what was proved of the solver applies to it.   *)
LEMMA ParBuildInvariant == ParSpec => []BuildInv
<1> DEFINE I == \A X \in SUBSET Slots : ParPreservedFor(X)
<1>1. ParInit => SolveInv /\ I
  BY InitSolveInv, ParInitPreserved DEF ParInit
<1>2. ParInv /\ SolveInv /\ I /\ [ParNext]_allVars => SolveInv' /\ I'
  BY ParSolveInv, ParStepPreserved
<1>3. ParInv /\ SolveInv /\ I => BuildInv
  <2> SUFFICES ASSUME ParInv, SolveInv, I PROVE MatrixComplete
    BY DEF ParInv, BandInv, BuildInv
  <2> SUFFICES ASSUME pc \in {"solve", "built"}, NEW X \in SUBSET Slots
               PROVE  Solves(X, 0, StoredEquations) <=> Solves(X, 0, KeyEquations)
    BY DEF MatrixComplete
  <2>1. Range(keys) \subseteq Settled /\ Taken \subseteq Range(keys)
    BY AllSettled
  <2>2. Solves(X, 0, StoredEquations) <=> StoredSolved(X)
    BY DEF Solves, StoredEquations, StoredSolved, RowSolved
  <2>3. Solves(X, 0, KeyEquations) <=> \A k \in Range(keys) : HeldBy(X, k)
    BY DEF Solves, KeyEquations, HeldBy
  <2> QED BY <2>1, <2>2, <2>3 DEF ParPreservedFor
<1> HIDE DEF I
<1> QED BY <1>1, <1>2, <1>3, ParInvariant, PTL DEF ParSpec

(* The keys of a filter built by several threads are reported present.     *)
THEOREM ParMembersAreFound == ParSpec => []NoFalseNegatives
BY ParBuildInvariant, BuiltFindsMembers, PTL

(* Parallel construction returns, bit by bit, the filter that the keys'    *)
(* equations determine, which is the one sequential construction returns:  *)
(* neither the number of threads, the split into ranges, the interleaving  *)
(* of the workers nor what they spill has any influence on it.             *)
THEOREM ParFilterIsDetermined == ParSpec => BitIdentical
<1>1. ParInit => Filter!Init
  BY SameMathematics DEF ParInit, Init, Filter!Init
<1>2. (BuildInv /\ pc = "built" => Canonical)'
  BY ColumnsAreCanonical, PTL
<1>3. ParInv /\ BuildInv' /\ [ParNext]_allVars => [Filter!Return]_<<keys, hash, returned>>
  <2> SUFFICES ASSUME ParInv, BuildInv', [ParNext]_allVars
               PROVE  [Filter!Return]_<<keys, hash, returned>>
    OBVIOUS
  <2>1. CASE Finish
    BY <1>2, <2>1, FinishReturns DEF Finish
  <2>2. CASE UNCHANGED vars
    BY <2>2, OthersReturnNothing DEF vars, solverVars
  <2>3. CASE Next /\ ~Finish
    <3>1. pc # "built" /\ pc' # "built" /\ UNCHANGED <<keys, hash>>
      BY <2>3
      DEF Next, FromKeys, FromKeysPleated, Add, AddKey, PlaceRow, DropRow,
          ReduceRow, BackSubstitute, Solve, BackSubstRow
    <3> QED BY <3>1, OthersReturnNothing
  <2>4. CASE Join \/ AddSpilled \/ \E b \in Slots : BandSlice(b)
    <3>1. pc # "built" /\ pc' # "built" /\ UNCHANGED <<keys, hash>>
      BY <2>4 DEF Join, AddSpilled, BandSlice, ParInv, PhaseInv
    <3> QED BY <3>1, OthersReturnNothing
  <2>5. CASE BucketKey \/ Spawn \/ \E threads \in ThreadCounts, window \in WindowSizes : Split(threads, window)
    <3>1. UNCHANGED vars
      BY <2>5 DEF BucketKey, Spawn, Split
    <3> QED BY <2>2, <3>1
  <2> QED BY <2>1, <2>2, <2>3, <2>4, <2>5, ParSteps
<1> QED
  BY <1>1, <1>3, ParInvariant, ParBuildInvariant, PTL
  DEF ParSpec, BitIdentical, Filter!Spec, returned
=============================================================================
