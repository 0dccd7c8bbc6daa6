---------------------------- MODULE StdParallel ----------------------------
(***************************************************************************)
(* Slot-range parallel construction of a standard filter                   *)
(* (src/src/banding128.rs: build_std128_parallel, band_range_128).  For    *)
(* every seed, the keys are dealt out to one worker thread per range of    *)
(* slots, a worker may find a contradiction and fail the seed, and if none *)
(* does, the caller adds the deferred and spilled keys, which may still    *)
(* fail it, by the actions of StdBanding.                                  *)
(*                                                                         *)
(* A range, and the worker that owns it, is named by its first slot b.     *)
(***************************************************************************)
EXTENDS StdBanding, SlotRanges

CONSTANT ThreadCounts  \* the values callers pass for `threads`

ASSUME ThreadCountsAssumption == ThreadCounts \subseteq Nat

VARIABLES
  threads,          \* the value this caller passed
  phase,            \* who runs: the "caller", whose pc counts, or "workers"
  bucket, deferred, \* the keys of each worker, and those left to the caller
  wpc, wn,          \* where worker b is, and the index of its next key
  wi, wcr, wrr,     \* its `i` (relative to b), `cr` and `rr`
  spilled           \* the keys it returns to the caller

workerVars == <<wpc, wn, wi, wcr, wrr, spilled>>
parVars    == <<threads, phase, bucket, deferred, workerVars>>
allVars    == <<vars, parVars>>

(* At most one thread per window *)
NumThreads == Min({threads, NumWindows(window)})

bounds == Bounds(NumThreads, window)
Bases  == RangesOf(bounds)

Length(b) == RangeEnd(bounds, b) - b

(* Parallel builders always pleat. *)
ParInit ==
  /\ Init
  /\ window \in WindowSizes
  /\ threads \in ThreadCounts
  /\ phase = "caller"
  /\ bucket = <<>> /\ deferred = <<>>
  /\ wpc = <<>> /\ wn = <<>> /\ wi = <<>> /\ wcr = <<>> /\ wrr = <<>>
  /\ spilled = <<>>

-----------------------------------------------------------------------------
(* One thread: build_std128_pleated does it all. *)
PleatedFallback == threads <= 1 /\ Order /\ UNCHANGED parVars

(* Where key k goes: to the worker of its range, or, -1, to the caller.    *)
Place(k) ==
  LET s == Start(hash[k])
  IN  IF IsDeferred(bounds, s) THEN -1 ELSE RangeOf(bounds, s)

(* The first m keys, dealt out in arrival order *)
DealtOut[m \in 0 .. Len(keys)] ==
  IF m = 0 THEN [p \in Bases \cup {-1} |-> <<>>]
  ELSE [DealtOut[m - 1] EXCEPT ![Place(keys[m])] = Append(@, keys[m])]

(* The keys are dealt out, and the workers spawned. *)
Spawn ==
  /\ phase = "caller"
  /\ pc = "order"
  /\ threads > 1
  /\ \E dealt \in {DealtOut[Len(keys)]} :
       deferred' = dealt[-1] /\ bucket' = [b \in Bases |-> dealt[b]]
  /\ phase' = "workers"
  /\ wpc' = [b \in Bases |-> "next"]
  /\ wn' = [b \in Bases |-> 1]
  /\ wi' = [b \in Bases |-> 0]
  /\ wcr' = [b \in Bases |-> {}]
  /\ wrr' = [b \in Bases |-> {}]
  /\ spilled' = [b \in Bases |-> <<>>]
  /\ UNCHANGED <<vars, threads>>

-----------------------------------------------------------------------------
(* band_range_128, run by worker b                                         *)

TakeKey(b) ==
  /\ wpc[b] = "next"
  /\ wn[b] <= Len(bucket[b])
  /\ LET h == hash[bucket[b][wn[b]]]
     IN  /\ wi' = [wi EXCEPT ![b] = Start(h) - b]
         /\ wcr' = [wcr EXCEPT ![b] = CoeffRow128(h)]
         /\ wrr' = [wrr EXCEPT ![b] = ResultRow(h)]
  /\ wpc' = [wpc EXCEPT ![b] = "reduce"]
  /\ UNCHANGED <<wn, spilled, matrixVars>>

(* The key is dealt with: on to the next one. *)
NextKey(b) ==
  /\ wn' = [wn EXCEPT ![b] = @ + 1]
  /\ wpc' = [wpc EXCEPT ![b] = "next"]
  /\ UNCHANGED <<wi, wcr, wrr>>

(* A slip: the key that crosses is forgotten instead of handed back. *)
SpillKeyLost(b) ==
  /\ wpc[b] = "reduce"
  /\ wi[b] >= Length(b)
  /\ NextKey(b)
  /\ UNCHANGED <<matrixVars, spilled>>

(* The reduction crossed the range boundary. *)
SpillKey(b) ==
  /\ wpc[b] = "reduce"
  /\ wi[b] >= Length(b)
  /\ spilled' = [spilled EXCEPT ![b] = Append(@, bucket[b][wn[b]])]
  /\ NextKey(b)
  /\ UNCHANGED matrixVars

(* The row and the result row in hand, reduced by those of the slot *)
WorkerRowSum(b)    == SymDiff(wcr[b], coeff_rows[b + wi[b]])
WorkerResultSum(b) == SymDiff(wrr[b], result_rows[b + wi[b]])

PlaceInRange(b) ==
  /\ wpc[b] = "reduce"
  /\ wi[b] < Length(b)
  /\ coeff_rows[b + wi[b]] = {}
  /\ coeff_rows' = [coeff_rows EXCEPT ![b + wi[b]] = wcr[b]]
  /\ result_rows' = [result_rows EXCEPT ![b + wi[b]] = wrr[b]]
  /\ NextKey(b)
  /\ UNCHANGED spilled

DropInRange(b) ==
  /\ wpc[b] = "reduce"
  /\ wi[b] < Length(b)
  /\ coeff_rows[b + wi[b]] # {}
  /\ WorkerRowSum(b) = {}
  /\ WorkerResultSum(b) = {}
  /\ NextKey(b)
  /\ UNCHANGED <<spilled, matrixVars>>

(* An inconsistent dependence: the worker returns None. *)
FailInRange(b) ==
  /\ wpc[b] = "reduce"
  /\ wi[b] < Length(b)
  /\ coeff_rows[b + wi[b]] # {}
  /\ WorkerRowSum(b) = {}
  /\ WorkerResultSum(b) # {}
  /\ wpc' = [wpc EXCEPT ![b] = "failed"]
  /\ UNCHANGED <<wn, wi, wcr, wrr, spilled, matrixVars>>

(* Slips of the next action: the shift of the row, or the addition of the  *)
(* stored row, is forgotten.                                               *)
ReduceInRangeUnshifted(b) ==
  /\ wpc[b] = "reduce"
  /\ wi[b] < Length(b)
  /\ coeff_rows[b + wi[b]] # {}
  /\ WorkerRowSum(b) # {}
  /\ wi' = [wi EXCEPT ![b] = @ + TrailingZeros(WorkerRowSum(b))]
  /\ wcr' = [wcr EXCEPT ![b] = WorkerRowSum(b)]
  /\ wrr' = [wrr EXCEPT ![b] = WorkerResultSum(b)]
  /\ UNCHANGED <<wpc, wn, spilled, matrixVars>>

ReduceInRangeWithoutSum(b) ==
  /\ wpc[b] = "reduce"
  /\ wi[b] < Length(b)
  /\ coeff_rows[b + wi[b]] # {}
  /\ WorkerRowSum(b) # {}
  /\ wi' = [wi EXCEPT ![b] = @ + TrailingZeros(wcr[b])]
  /\ UNCHANGED <<wpc, wn, wcr, wrr, spilled, matrixVars>>

ReduceInRange(b) ==
  /\ wpc[b] = "reduce"
  /\ wi[b] < Length(b)
  /\ coeff_rows[b + wi[b]] # {}
  /\ LET x  == WorkerRowSum(b)
         tz == TrailingZeros(x)
     IN  /\ x # {}
         /\ wi' = [wi EXCEPT ![b] = @ + tz]
         /\ wcr' = [wcr EXCEPT ![b] = ShiftRight(x, tz)]
         /\ wrr' = [wrr EXCEPT ![b] = WorkerResultSum(b)]
  /\ UNCHANGED <<wpc, wn, spilled, matrixVars>>

BandRange(b) ==
  /\ phase = "workers"
  /\ b \in Bases
  /\ \/ TakeKey(b)
     \/ SpillKey(b)
     \/ PlaceInRange(b)
     \/ DropInRange(b)
     \/ FailInRange(b)
     \/ ReduceInRange(b)
  /\ UNCHANGED <<callVars, seedVars, pc, addVars, data, threads, phase, bucket,
                 deferred>>

-----------------------------------------------------------------------------
Returned(b) == wpc[b] = "failed" \/ (wpc[b] = "next" /\ wn[b] > Len(bucket[b]))

SeedFails == \E b \in Bases : wpc[b] = "failed"

(* The spilled keys of the workers below slot b, in the order of their     *)
(* ranges                                                                  *)
SpilledBelow[b \in 0 .. NumSlots] ==
  IF b = 0 THEN <<>>
  ELSE SpilledBelow[b - 1] \o (IF b - 1 \in Bases THEN spilled[b - 1] ELSE <<>>)

AllSpilled == SpilledBelow[NumSlots]

(* The caller goes on alone; what is not in its variables is dropped. *)
Joined ==
  /\ phase' = "caller"
  /\ bucket' = <<>> /\ deferred' = <<>>
  /\ wpc' = <<>> /\ wn' = <<>> /\ wi' = <<>> /\ wcr' = <<>> /\ wrr' = <<>>
  /\ spilled' = <<>>

(* All workers have returned.  If one failed, so has the seed; if not, the *)
(* deferred keys and then the spilled ones are left for Banding128::add.   *)
(* Slips: failures are not looked at, or the spilled keys are passed over. *)
JoinFailed ==
  /\ phase = "workers"
  /\ \A b \in Bases : Returned(b)
  /\ ordered' = deferred \o AllSpilled /\ pc' = "next"
  /\ Joined
  /\ UNCHANGED <<callVars, seedVars, matrixVars, n, pos, cr, rr, data, threads>>

JoinNoSpilled ==
  /\ phase = "workers"
  /\ \A b \in Bases : Returned(b)
  /\ IF SeedFails THEN pc' = "seed" /\ UNCHANGED ordered
                  ELSE pc' = "next" /\ ordered' = deferred
  /\ Joined
  /\ UNCHANGED <<callVars, seedVars, matrixVars, n, pos, cr, rr, data, threads>>

Join ==
  /\ phase = "workers"
  /\ \A b \in Bases : Returned(b)
  /\ IF SeedFails THEN pc' = "seed" /\ UNCHANGED ordered
                  ELSE pc' = "next" /\ ordered' = deferred \o AllSpilled
  /\ Joined
  /\ UNCHANGED <<callVars, seedVars, matrixVars, n, pos, cr, rr, data, threads>>

-----------------------------------------------------------------------------
Caller ==
  \/ PleatedFallback
  \/ Spawn
  \/ Join
  \/ (Reset \/ GiveUp \/ Add \/ IntoSolution) /\ UNCHANGED parVars

ParNext == Caller \/ \E b \in Slots : BandRange(b)

(* The operating system runs every thread, the caller's included, again    *)
(* and again.                                                              *)
ParSpec ==
  /\ ParInit /\ [][ParNext]_allVars
  /\ WF_allVars(Caller)
  /\ \A b \in Slots : WF_allVars(BandRange(b))
-----------------------------------------------------------------------------
Working == IF phase = "workers" THEN Bases ELSE {}

Reducing == {b \in Working : wpc[b] = "reduce"}

(* The keys of this seed's attempt whose equations the matrix must imply:  *)
(* those a worker has dealt with, and, once the caller is adding the rest, *)
(* all but the ones it has before it.                                      *)
Settled ==
  IF phase = "workers"
  THEN UNION {({bucket[b][m] : m \in 1 .. wn[b] - 1} \ Range(spilled[b])) : b \in Bases}
  ELSE Added \cup (Range(keys) \ Range(ordered))

(* Types *)
StdParTypeOK ==
  /\ StdTypeOK
  /\ threads \in ThreadCounts
  /\ phase \in {"caller", "workers"}
  /\ deferred \in Seq(Range(keys))
  /\ phase = "workers" =>
       /\ pc = "order"
       /\ bucket \in [Bases -> Seq(Range(keys))]
       /\ wpc \in [Bases -> {"next", "reduce", "failed"}]
       /\ wn \in [Bases -> Nat \ {0}]
       /\ wi \in [Bases -> Nat]
       /\ wcr \in [Bases -> Word]
       /\ wrr \in [Bases -> SUBSET ResultBits]
       /\ spilled \in [Bases -> Seq(Range(keys))]

(* A row in a worker's hand stays inside the table, so an index past the   *)
(* slice that spills is still a slot, and the last range never spills.     *)
StdWorkersInBand ==
  /\ \A b \in Reducing : InBand(b + wi[b], wcr[b])
  /\ \A b \in Working : RangeEnd(bounds, b) = NumSlots => spilled[b] = <<>>

(* With a margin of at least W - 1 slots no worker of any attempt spills.  *)
(* (The code's margin is 1 << 14, and W is 128.)                           *)
StdMarginPreventsSpills ==
  G >= W - 1 => \A b \in Working : spilled[b] = <<>>

(* However the workers interleave, in every column the rows stored are     *)
(* implied by the keys' equations, they imply the equation of every key    *)
(* dealt with, and the row in a worker's hand says, given the rows stored, *)
(* what its key said.                                                      *)
StdParEquationsPreserved ==
  LET stored  == StoredEquations
      all     == {Equation(hash[k]) : k \in Range(keys)}
      settled == {Equation(hash[k]) : k \in Settled}
      inHand  == [b \in Reducing |-> RowEquation(b + wi[b], wcr[b], wrr[b])]
  IN  phase = "workers" \/ pc \in {"next", "reduce"} =>
        \A X \in SUBSET Unknowns(stored \cup all \cup Range(inHand)), j \in ResultBits :
          /\ Solves(X, j, all) => Solves(X, j, stored)
          /\ Solves(X, j, stored) =>
               /\ Solves(X, j, settled)
               /\ \A b \in Reducing :
                    Satisfies(X, j, inHand[b])
                      <=> Satisfies(X, j, Equation(hash[bucket[b][wn[b]]]))

(* Every call returns, whichever worker fails. *)
StdParTerminates == <>(pc \in {"built", "failed"})
=============================================================================
