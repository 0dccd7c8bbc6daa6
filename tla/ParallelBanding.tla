-------------------------- MODULE ParallelBanding --------------------------
(***************************************************************************)
(* Slot-range parallel construction of a homogeneous filter                *)
(* (src/src/filter/parallel.rs).  The matrix is split into ranges of       *)
(* slots, one worker thread each; every worker adds the keys that start in *)
(* its range, keys that start close to the upper end of a range are        *)
(* deferred, and a key whose reduction leaves the range is spilled.  After *)
(* the join, deferred and spilled keys are added sequentially, and the     *)
(* matrix is solved, by the actions of Banding.                            *)
(*                                                                         *)
(* A range, and the worker that owns it, is named by its first slot b.     *)
(* Workers interleave at every turn of their reduction loops.              *)
(***************************************************************************)
EXTENDS Banding, SlotRanges

CONSTANT ThreadCounts  \* the values callers pass for `threads`

ASSUME ThreadCountsAssumption == ThreadCounts \subseteq Nat

VARIABLES
  phase,        \* the progress of the parallel part; pc is "order" until the
                \* join and follows the sequential tail after it
  arrival,      \* the index of the key to put in a bucket next
  bounds,       \* the range boundaries, both ends of the table included
  bucket,       \* bucket[b]: the keys of worker b
  deferred,     \* the keys left to the sequential tail
  wpc, wn,      \* where worker b is, and the index of its next key
  wi, wcr,      \* its `i` (relative to b) and `cr`
  spilled,      \* the keys it returns to the caller
  tail          \* the worker whose spilled keys the tail adds next

workerVars == <<wpc, wn, wi, wcr, spilled>>
bucketVars == <<arrival, bounds, bucket, deferred>>
parVars    == <<phase, bucketVars, workerVars, tail>>
allVars    == <<vars, parVars>>

Bases == RangesOf(bounds)

(* The upper end of range b, and the length of its slice *)
Hi(b)     == RangeEnd(bounds, b)
Length(b) == Hi(b) - b

ParInit ==
  /\ Init
  /\ phase = "start"
  /\ arrival = 1
  /\ bounds = {}
  /\ bucket = <<>> /\ deferred = <<>>
  /\ wpc = <<>> /\ wn = <<>> /\ wi = <<>> /\ wcr = <<>> /\ spilled = <<>>
  /\ tail = NumSlots

-----------------------------------------------------------------------------
(* At least one block of slots per thread, and at least one thread *)
NumThreads(threads) == Min({Max({threads, 1}), NumBlocks})

(* One thread is not worth a split: the keys are added in arrival order.   *)
SequentialFallback(threads) ==
  /\ phase = "start"
  /\ NumThreads(threads) <= 1
  /\ FromKeys
  /\ UNCHANGED parVars

Split(threads, window) ==
  /\ phase = "start"
  /\ pc = "order"
  /\ NumThreads(threads) > 1
  /\ bounds' = Bounds(NumThreads(threads), window)
  /\ bucket' = [b \in Bases' |-> <<>>]
  /\ phase' = "bucket"
  /\ UNCHANGED <<vars, arrival, deferred, workerVars, tail>>

(* The next key goes to the worker of its range, or is deferred.           *)
BucketKey ==
  /\ phase = "bucket"
  /\ arrival <= Len(keys)
  /\ LET k == keys[arrival]
         s == Start(hash[k])
     IN  IF IsDeferred(bounds, s)
         THEN deferred' = Append(deferred, k) /\ UNCHANGED bucket
         ELSE /\ bucket' = [bucket EXCEPT ![RangeOf(bounds, s)] = Append(@, k)]
              /\ UNCHANGED deferred
  /\ arrival' = arrival + 1
  /\ UNCHANGED <<vars, phase, bounds, workerVars, tail>>

(* thread::scope spawns one worker per range. *)
Spawn ==
  /\ phase = "bucket"
  /\ arrival > Len(keys)
  /\ wpc' = [b \in Bases |-> "next"]
  /\ wn' = [b \in Bases |-> 1]
  /\ wi' = [b \in Bases |-> 0]
  /\ wcr' = [b \in Bases |-> {}]
  /\ spilled' = [b \in Bases |-> <<>>]
  /\ phase' = "band"
  /\ UNCHANGED <<vars, bucketVars, tail>>

-----------------------------------------------------------------------------
(* band_slice, run by worker b                                             *)

(* The start slot is made relative to the slice. *)
TakeKey(b) ==
  /\ wpc[b] = "next"
  /\ wn[b] <= Len(bucket[b])
  /\ LET h == hash[bucket[b][wn[b]]]
     IN  /\ wi' = [wi EXCEPT ![b] = Start(h) - b]
         /\ wcr' = [wcr EXCEPT ![b] = CoeffRow(h)]
  /\ wpc' = [wpc EXCEPT ![b] = "reduce"]
  /\ UNCHANGED <<wn, spilled, coeff_rows>>

(* The key is dealt with: on to the next one. *)
NextKey(b) ==
  /\ wn' = [wn EXCEPT ![b] = @ + 1]
  /\ wpc' = [wpc EXCEPT ![b] = "next"]
  /\ UNCHANGED wi

(* A slip: the key that crosses is forgotten instead of handed back. *)
SpillKeyLost(b) ==
  /\ wpc[b] = "reduce"
  /\ wi[b] >= Length(b)
  /\ NextKey(b)
  /\ UNCHANGED <<wcr, coeff_rows, spilled>>

(* The reduction crossed the range boundary. *)
SpillKey(b) ==
  /\ wpc[b] = "reduce"
  /\ wi[b] >= Length(b)
  /\ spilled' = [spilled EXCEPT ![b] = Append(@, bucket[b][wn[b]])]
  /\ NextKey(b)
  /\ UNCHANGED <<wcr, coeff_rows>>

PlaceInSlice(b) ==
  /\ wpc[b] = "reduce"
  /\ wi[b] < Length(b)
  /\ coeff_rows[b + wi[b]] = {}
  /\ coeff_rows' = [coeff_rows EXCEPT ![b + wi[b]] = wcr[b]]
  /\ NextKey(b)
  /\ UNCHANGED <<wcr, spilled>>

DropInSlice(b) ==
  /\ wpc[b] = "reduce"
  /\ wi[b] < Length(b)
  /\ coeff_rows[b + wi[b]] # {}
  /\ SymDiff(wcr[b], coeff_rows[b + wi[b]]) = {}
  /\ wcr' = [wcr EXCEPT ![b] = {}]
  /\ NextKey(b)
  /\ UNCHANGED <<spilled, coeff_rows>>

(* Slips of the next action: the shift of the row, or the addition of the  *)
(* stored row, is forgotten.                                               *)
ReduceInSliceUnshifted(b) ==
  /\ wpc[b] = "reduce"
  /\ wi[b] < Length(b)
  /\ coeff_rows[b + wi[b]] # {}
  /\ LET x == SymDiff(wcr[b], coeff_rows[b + wi[b]])
     IN  /\ x # {}
         /\ wi' = [wi EXCEPT ![b] = @ + TrailingZeros(x)]
         /\ wcr' = [wcr EXCEPT ![b] = x]
  /\ UNCHANGED <<wpc, wn, spilled, coeff_rows>>

ReduceInSliceWithoutSum(b) ==
  /\ wpc[b] = "reduce"
  /\ wi[b] < Length(b)
  /\ coeff_rows[b + wi[b]] # {}
  /\ SymDiff(wcr[b], coeff_rows[b + wi[b]]) # {}
  /\ wi' = [wi EXCEPT ![b] = @ + TrailingZeros(wcr[b])]
  /\ UNCHANGED <<wpc, wn, wcr, spilled, coeff_rows>>

ReduceInSlice(b) ==
  /\ wpc[b] = "reduce"
  /\ wi[b] < Length(b)
  /\ coeff_rows[b + wi[b]] # {}
  /\ LET x  == SymDiff(wcr[b], coeff_rows[b + wi[b]])
         tz == TrailingZeros(x)
     IN  /\ x # {}
         /\ wi' = [wi EXCEPT ![b] = @ + tz]
         /\ wcr' = [wcr EXCEPT ![b] = ShiftRight(x, tz)]
  /\ UNCHANGED <<wpc, wn, spilled, coeff_rows>>

BandSlice(b) ==
  /\ phase = "band"
  /\ b \in Bases
  /\ \/ TakeKey(b)
     \/ SpillKey(b)
     \/ PlaceInSlice(b)
     \/ DropInSlice(b)
     \/ ReduceInSlice(b)
  /\ UNCHANGED <<keys, hash, pc, ordered, n, pos, cr, solverVars, phase,
                 bucketVars, tail>>

-----------------------------------------------------------------------------
(* All workers have returned; the deferred keys are added first.           *)
Join ==
  /\ phase = "band"
  /\ \A b \in Bases : wpc[b] = "next" /\ wn[b] > Len(bucket[b])
  /\ ordered' = deferred
  /\ tail' = 0
  /\ phase' = "tail"
  /\ pc' = "next"
  /\ UNCHANGED <<keys, hash, n, coeff_rows, pos, cr, solverVars, bucketVars,
                 workerVars>>

(* A slip: the spilled keys of a worker are passed over. *)
AddSpilledNone ==
  /\ phase = "tail"
  /\ pc = "next"
  /\ n > Len(ordered)
  /\ tail < NumSlots
  /\ tail' = Hi(tail)
  /\ UNCHANGED <<vars, phase, bucketVars, workerVars>>

(* Then the spilled keys, worker by worker. *)
AddSpilled ==
  /\ phase = "tail"
  /\ pc = "next"
  /\ n > Len(ordered)
  /\ tail < NumSlots
  /\ ordered' = ordered \o spilled[tail]
  /\ tail' = Hi(tail)
  /\ UNCHANGED <<keys, hash, pc, n, coeff_rows, pos, cr, solverVars, phase,
                 bucketVars, workerVars>>

-----------------------------------------------------------------------------
Main ==
  \/ \E threads \in ThreadCounts :
       \/ SequentialFallback(threads)
       \/ \E window \in WindowSizes : Split(threads, window)
  \/ BucketKey
  \/ Spawn
  \/ Join
  \/ AddSpilled
  \/ Add /\ UNCHANGED parVars
  \/ Solve /\ tail = NumSlots /\ UNCHANGED parVars
  \/ (BackSubstRow \/ Finish) /\ UNCHANGED parVars

ParNext == Main \/ \E b \in Slots : BandSlice(b)

(* The operating system runs every thread, the caller's included, again    *)
(* and again.                                                              *)
ParSpec ==
  /\ ParInit /\ [][ParNext]_allVars
  /\ WF_allVars(Main)
  /\ \A b \in Slots : WF_allVars(BandSlice(b))
-----------------------------------------------------------------------------
(* Keys a worker has dealt with, and the spilled ones, which still wait to *)
(* be added by the tail                                                    *)
Dealt(b) == {bucket[b][m] : m \in 1 .. wn[b] - 1}

Working == IF phase \in {"band", "tail"} THEN Bases ELSE {}

Taken   == Added \cup (UNION {Dealt(b) : b \in Working})
Settled == Added \cup (UNION {Dealt(b) \ Range(spilled[b]) : b \in Working})

Reducing == {b \in Working : wpc[b] = "reduce"}

ParTypeOK ==
  /\ TypeOK
  /\ phase \in {"start", "bucket", "band", "tail"}
  /\ arrival \in 1 .. Len(keys) + 1
  /\ bounds \in SUBSET (0 .. NumSlots)
  /\ deferred \in Seq(Range(keys))
  /\ tail \in 0 .. NumSlots
  /\ phase = "start" \/ bucket \in [Bases -> Seq(Range(keys))]
  /\ phase \in {"band", "tail"} =>
       /\ wpc \in [Bases -> {"next", "reduce"}]
       /\ wn \in [Bases -> Nat \ {0}]
       /\ wi \in [Bases -> Nat]
       /\ wcr \in [Bases -> Word]
       /\ spilled \in [Bases -> Seq(Range(keys))]

(* The ranges cut the whole table, each key is in the bucket of the range  *)
(* its start lies in (so `start - base` never underflows) unless it is     *)
(* deferred, and no key is in two places or in none.                       *)
KeysAreBucketed ==
  phase # "start" =>
    /\ {0, NumSlots} \subseteq bounds
    /\ \A b \in Bases : \A k \in Range(bucket[b]) :
         Start(hash[k]) \in b .. Hi(b) - 1
    /\ \A k \in Range(keys) :
         Cardinality({m \in 1 .. arrival - 1 : keys[m] = k})
           = Cardinality({m \in 1 .. Len(deferred) : deferred[m] = k})
             + Cardinality(UNION {{b} \X {m \in 1 .. Len(bucket[b]) : bucket[b][m] = k}
                                    : b \in Bases})

(* Where the workers have got to: the row in hand has its low bit set and  *)
(* no bit past the end of the table, so an index that is past the end of   *)
(* the slice, and spills, is still a slot of the table; the last range,    *)
(* which has no boundary to cross, never spills.                           *)
WorkersInBand ==
  /\ \A b \in Reducing : InBand(b + wi[b], wcr[b])
  /\ \A b \in Working : Hi(b) = NumSlots => spilled[b] = <<>>

(* With a margin of at least W - 1 slots no reduction leaves its range: a  *)
(* row and everything it is reduced by lie below the boundary.  The code's *)
(* margin is 1 << 14 and W is 64.                                          *)
MarginPreventsSpills ==
  G >= W - 1 => \A b \in Working : spilled[b] = <<>>

(* The workers' rows and the tail's have the solutions of the keys added,  *)
(* however the threads interleave: no row is stored that the keys taken do *)
(* not imply, the rows imply every key that is not spilled, and what is    *)
(* left of the row in a worker's hand says, given the stored rows, what    *)
(* its key's equation said.                                                *)
ParEquationsPreserved ==
  LET stored  == StoredEquations
      taken   == {Equation(hash[k]) : k \in Taken}
      settled == {Equation(hash[k]) : k \in Settled}
  IN  \A X \in SUBSET Slots :
        /\ Solves(X, 0, taken) => Solves(X, 0, stored)
        /\ Solves(X, 0, stored) =>
             /\ Solves(X, 0, settled)
             /\ \A b \in Reducing :
                  Satisfies(X, 0, RowEquation(b + wi[b], wcr[b], {}))
                    <=> Satisfies(X, 0, Equation(hash[bucket[b][wn[b]]]))

(* No thread waits for another but the caller, which waits for all: every  *)
(* call returns.                                                           *)
ParTerminates == <>(pc = "built")
=============================================================================
