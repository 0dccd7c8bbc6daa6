# TLA+ models of pleat

`pleat` is a Rust library that builds *ribbon filters*: approximate set
membership structures obtained by solving a banded system of linear equations
over GF(2). This directory holds TLA+ modules that model its algorithms, TLC
configurations that check them on small tables, and TLAPS proofs that hold for
tables of every size.

Source paths are relative to the directory that contains `src/`, the
repository; the crate's own sources are in `src/src/`.

## 1. Inventory

| component | source | state | operations | modelled in |
|---|---|---|---|---|
| hashing, homogeneous | `hash.rs` | none | `ribbon_hash`, `start` (fastrange), `coeff_row` | `Hashing` |
| banding, homogeneous, w=64 | `banding.rs` | `coeff_rows` (one word per slot), rolling `state`, `segments` | `new`, `add`, `add_all`, `back_substitute`, `solve` | `Banding` |
| solution, homogeneous | `banding.rs`, `lib.rs` | `segments`, and the caller's slices during a batch | `contains`, `contains_batch`, `prefetch`, `relocate_storage`, `parts`, `from_parts` | `Banding` (`contains`), `FilterHandle` |
| constructors and handles | `filter.rs` | the solution | `from_keys`, `from_keys_pleated`, `from_keys_parallel`, `num_slots_for`; queries, relocation, saving and loading | `Banding`, `ParallelBanding` and their standard counterparts; `Sizing`; `FilterHandle` |
| pleating plan | `lib.rs` | counts, cursors, the reusable output buffer | `pleat`, `pleat_into` | `PleatPlan`, `WindowOrder` |
| parallel construction | `filter/parallel.rs` | ranges, buckets, deferred and spilled keys, one slice per thread | `from_keys_parallel_seeded`, `band_slice` | `SlotRanges`, `ParallelBanding` |
| hashing, standard | `hash128.rs` | none | `coeff_row_128`, `result_row`, `ordinal_to_raw_seed` | `Hashing128`; the seed mixing is any map |
| banding, standard, w=128 | `banding128.rs` | matrix of coefficient and result rows, seed | `add`, `reset`, `find_seed`, `find_seed_pleated`, `into_solution`, `contains` | `StdBanding` |
| parallel construction, standard | `banding128.rs` | as above, and workers that fail | `build_std128_parallel`, `band_range_128` | `SlotRanges`, `StdParallel` |
| solution, standard | `banding128.rs`, `lib.rs` | as of the homogeneous one | the same | `StdBanding` (`contains`), `FilterHandle` |
| serialization | `format.rs`, `filter.rs` | none | `write_header`, `finish`, `decode`, `to_bytes`, `from_bytes` | `Geometry`, `Powers`, `Format` |
| key hashing | `lib.rs` | none | `hash_key` (xxh3) | no: stateless call of an external crate |
| formatting, benches, fuzzing, vectors | several | none | | no: no program state |

What makes each correct:

* homogeneous construction: rows stay in the table; the matrix keeps the
  equations of the keys added; every member is found; the filter is a function
  of the set of keys, whatever the order, the windows or the threads;
* standard construction: the same, and the seed used is the first one whose
  system is solvable, with failure reported only if there is none;
* parallel builders: every key is banded exactly once, by the worker of its own
  range or by the tail; the calls return;
* pleating: a stable sort by window, in bounds for every window size;
* queries: the bits selected are those of the row, across a block boundary too;
  a batch answers every key in its place, and hints for a line before reading it;
* handles: as long as relocation callbacks keep their contract, however often
  the filter is moved, saved and loaded, an answer is the answer of the filter
  that was built; what one failed relocation leaves cannot be saved and loaded;
* sizing: whole blocks, at least two, and a slot for every key;
* serialization: a round trip is the identity, damage is noticed, and what is
  accepted can be queried without leaving the segments.

How they interact. A constructor sizes the table, chooses a banding order (the
arrival order; the pleated order of `PleatPlan`; or ranges of slots given to
threads), adds every key to the one banding matrix, and back-substitutes the
matrix into the interleaved solution that queries read. The order and the
threads must not matter: the README of the repository promises that all
construction variants produce the bit-identical filter. The components share
nothing at run time but the matrix, which worker threads own in disjoint
slices, and the finished solution, which is read-only.

What is hard here:

* *Order independence.* Which rows the matrix holds depends on the order of the
  keys, on the interleaving of the threads and on the deferral of keys; the
  solution must depend on none of them.
* *Boundaries.* A row's index moves up the table while it is reduced; a query's
  row may straddle two blocks, or start at bit 0, or lie in the last block,
  where there is no next one; ranges collapse when there are more threads than
  windows; `start - base` must not underflow.
* *Callbacks.* `relocate_storage` gives the segments away before it calls the
  application, and checks their number after it has stored what came back. An
  application that catches the panic holds a filter without its segments, or
  with too few, too many or other ones, and may query it, save it or relocate
  it again.
* *Partial failure and retry* (standard family): a seed may fail in any worker
  or in the tail after all workers succeeded, and the next attempt must start
  from a clean matrix.
* *Numbers.* Arithmetic on decoded fields (serialization), on windows near the
  largest `usize` (ranges), and on floating-point products (sizing).

`PROJECT.json` lists these hazards line by line with the properties aimed at
them.

## 2. Modules

| module | what it is |
|---|---|
| `BitRows` | machine words as sets of bit positions, shifts and parity |
| `LinearSystem` | equations over GF(2) and their solutions; the reference the builders are compared with |
| `Hashing`, `Hashing128` | start slot, coefficient row and (standard) result row of a hash |
| `WindowOrder` | the order a pleating plan promises: by window, stable |
| `SlotRanges` | how the parallel builders cut the table into ranges and which keys they defer |
| `RibbonFilter` | abstract: a constructor call returns the one filter that the keys' equations and the fill of the free slots determine |
| `Banding` | `banding.rs` and the sequential constructors: one step per turn of the innermost loops; implements `RibbonFilter` |
| `ParallelBanding` | `filter/parallel.rs` on top of `Banding`: one worker per range of slots, interleaved at every turn of their loops; implements `RibbonFilter` |
| `StdFilter` | abstract: seeds are tried in order, the first solvable one gives the filter |
| `StdBanding` | `banding128.rs`: the seed loop, arrival and pleated order; implements `StdFilter` |
| `StdParallel` | `build_std128_parallel` on top of `StdBanding`; implements `StdFilter` |
| `PleatPlan` | `pleat_into`, loop by loop; compared with `WindowOrder` |
| `Geometry` | the arithmetic with which `decode` checks a filter's dimensions |
| `Powers` | powers of a number by a recursive function, which the prover can unroll |
| `Format` | the serialization envelope; extends `Geometry` and `Powers` |
| `FilterHandle` | a finished filter in an application's hands; uses `Geometry` for loading |
| `Sizing` | `num_slots_for` of both families; hands its result to `Geometry`'s check |
| `MC*` | instances for TLC |
| `Hashing_proofs`, `Banding_proofs`, `SlotRanges_proofs`, `ParallelBanding_proofs`, `StdParallel_proofs`, `PleatPlan_proofs`, `Format_proofs`, `FilterHandle_proofs` | theorems and their proofs; `Format_proofs` covers `Geometry`, `Sizing` and `Format`; `Hashing_proofs` also has the lemmas about words, parity and linear systems that the others share, and `StdParallel_proofs` covers `StdBanding` |

### Data

A `w`-bit word is the set of its one bits; 0 is `{}`, XOR is `SymDiff`. A key's
64-bit hash is used twice by the code: its magnitude picks the start slot and
its product with a constant is the coefficient row. The model's hash is a pair
`[hi, lo]` of the two, scaled down: any magnitude below `HashRange` with any
product. `Init` assigns every key an arbitrary hash, so the runs cover every
mixing function, collisions included. Rows are columns of `R` bits; the
pseudorandom bits of empty slots are the constant `EmptyRow`.

### Banding

`pc` is the place in the constructor; `ordered` the keys in banding order, `n`
the index of the next one; `coeff_rows` the matrix; `pos` and `cr` the locals
`i` and `cr` of `Banding::add`; `slot`, `state` and `data` those of
`back_substitute`.

| action | code |
|---|---|
| `FromKeys`, `FromKeysPleated` | the order in which the constructors call `add` |
| `AddKey` | the head of `add`: start slot and coefficient row |
| `PlaceRow`, `DropRow`, `ReduceRow` | the three ways a turn of its loop ends |
| `Solve`, `BackSubstRow`, `Finish` | `back_substitute`, row by row from the last slot, and the `Solution` wrapped around it |
| `Contains` (operator) | `Solution::contains` |

### ParallelBanding

Adds `phase`, the range boundaries `bounds`, the buckets and deferred keys, and
for every worker its program counter, key index, locals `wi` and `wcr`, and
spilled keys. A worker is named by the first slot of its range. `Split`,
`BucketKey` and `Spawn` prepare the ranges; `BandSlice(b)` is a turn of worker
`b`'s loop (`TakeKey`, `PlaceInSlice`, `DropInSlice`, `ReduceInSlice`,
`SpillKey`); `Join` and `AddSpilled` feed the sequential tail, which is
`Banding`'s `Add` and `BackSubstitute`. One thread falls back to `FromKeys`.

Windows are given by their size, `1 << window_shift` in the code, so that
`>> window_shift` is a division.

### StdBanding and StdParallel

The seed mixing and the hash function are abstracted together: `Reset`, which
takes the next ordinal seed, gives every key an arbitrary new hash, so a run
covers every pair of systems that two seeds may produce. One product of a key's
hash gives both its coefficient row and its result row (`CoeffRow128`,
`ResultRow`), as in `hash128.rs`; keys whose rows agree therefore agree in
their result bits too, and contradictions arise from sums of rows.

| action | code |
|---|---|
| `Reset`, `GiveUp` | the head of the seed loop, and the end of it |
| `Order` | arrival order, or the pleated order of this seed's hashes |
| `AddKey`, `PlaceRow`, `DropRow`, `Reject`, `ReduceRow` | the turns of `add`'s loop; `Reject` is the inconsistent key |
| `IntoSolution` | back-substitution, in one step: nothing runs beside it |
| `Spawn`, `BandRange(b)` | ranges and workers of `build_std128_parallel`; a turn of `band_range_128`'s loop |
| `Join` | all workers have returned: the seed fails if one of them did, else deferred and spilled keys go to `Add` |

`StdFilter` sees the seed number, the hashes and the outcome. A seed counts as
solvable only if every bit of the result rows can be met, also those past the R
columns of the filter: the code compares the whole result row.

### PleatPlan

One action per turn of each of the three loops (`CountKey`, `AddOffset`,
`MoveKey`), and one for what stands between them. The output buffer starts with
arbitrary keys: zeros are there at the first seed, and some order of the keys,
whichever the seed before gave them, from the second on.

### Format

Bytes are small (`Base` values), a `u64` is `WordLen` of them, a `usize` is
narrower than a `u64`, as on 32-bit targets. `to_bytes`, `from_le_bytes` and the
checksum work on these bytes as the code does on its own; sums and products
wrap. `Verdict` is `decode` with the seed check of `StdRibbon::from_bytes`: the
first check that fails. `Damage` and `Receive` are the environment: storage that
changes one byte, truncates or extends a buffer, and a buffer with any header
and a checksum that fits.

`Geometry` is a module of its own because `FilterHandle` and `Sizing` use it
too.

XOR, the number that bytes encode and the hash are recursive functions rather
than the operators of a library, so that they can be proved about: `Xor` goes
from bit to bit, `from_le_bytes` and `fnv1a` from byte to byte.

### FilterHandle

One filter of either family, built with any of a few solutions, and one
application that uses it. `segs` is the vector `segments`; `at` says how far
into a cache line it starts, anew after every move; `taken` is what a
relocation callback holds. `breach` is a history variable that changes nothing else:
"none" while every callback has returned what it was given, "caught" after one
that panicked or returned a vector of another length, "lost" after a second
breach or one that keeps the length.

| action | code |
|---|---|
| `Lookup` | `contains` of one key; reading past the storage is the panic of the index |
| `ContainsBatch` | the head of `contains_batch`: it asserts the lengths of the slices, and panics if `out` is longer or shorter |
| `PrefetchKey`, `ProbeKey` | a turn of the first and of the second loop over a chunk; `Advance` goes on to the next key or chunk; `chunk` and `outChunk` are the heads of the chunks of keys and of answers, which the code cuts separately, and `Place` is the place of an answer in its chunk |
| `TakeStorage` | `mem::take` of the segments, and the call |
| `StoreReturned`, `CallbackPanics` | the callback returns, what it returned is stored, and its length compared; or it unwinds, and the segments are gone |
| `GoOn` | the application has read the answers, or catches the panic and keeps the filter |
| `Serialize`, `FromBytes` | `to_bytes` of whatever the storage is; `from_bytes`, which is `Geometry`'s check and the comparison of lengths |

The callback may break its contract, which the docs leave to it: besides the
words it was given it may return any of `Vectors`, a constant that the proofs
leave open (it may be all sequences of words). What holds then depends on what
it did. The code stores the vector before it compares the length, and never
looks at the words. So:

* words missing at the end, or words added there: what is left is in its place
  (`InPlace`), and a query answers as before or panics;
* words missing elsewhere, moved or altered: later queries answer from other
  words than the builder's, wrongly and without a panic, even if the relocation
  itself panicked and the application caught that;
* one failed relocation changes the length (a callback that panics leaves
  none), so a saved copy is refused; a second one may restore the length with
  other words, which `from_bytes` accepts, as it does words altered by a
  callback that keeps the length.

The properties say the first and the third of these, and have the others as
exceptions (`InPlace`, `breach`). The fields and the checksum of the saved buffer
are left to `Format`.

The two `contains` differ when segments are missing: the homogeneous one
indexes column by column and may answer "no" before it meets a missing
segment, the standard one slices both blocks first. `ContainsHomog` and
`ContainsStd` keep this apart.

`prefetch` is modelled by the set of cache lines it names. `Line` is the line of
a segment; `hinted` collects the lines named for the keys of the current chunk.

### Sizing

The factor `1 + (4 + r/4)/w` is a binary fraction that an f64 holds exactly, so
the model multiplies by `(4w + 16 + r) / 4w`. The number of keys and the product
are rounded to nearest-even at `MantissaBits` bits, 53 in an f64; at 8 bits the
effects of rounding begin at 256 keys. With 8 bits or more, two roundings lose
less than the 64th that the property allows. `SizeInit` and `Rebuild` are an
application that builds a filter of a growing set of keys.

Operators whose comment begins with "A slip" are wrong versions of the
definition that follows them. The specification does not use them; they are
there to test that the properties notice.

## 3. Runs

| run | question | bounds |
|---|---|---|
| `sequential` | does arrival and pleated construction give the filter the keys determine, without leaving the table, and are its members found? | W=3, 2 blocks, R=2, three keys or a repeated one, every hash |
| `parallel_spill` | do interleaved workers, deferral and spills preserve the equations, and is the filter the sequential one? | W=3, 2 blocks, two workers, margin 1 < W-1, windows of 1, 2 and 8 slots, the last larger than the table |
| `parallel_ranges` | does every key have one home, for any number of threads and windows of any size; and do workers never spill when the margin is W-1? | W=2, 3 blocks, up to three workers, windows of 1, 2 and 4 slots, a usize up to 7, so that two windows of 4 overflow it |
| `std_reduction` | do rows stay in the table and keep the equations, in every result column, over two seeds? | W=4, 2 blocks, 2 result bits, 2 seeds, arrival order and windows of 2 slots, hashes that reach each of the 5 start slots |
| `std_seeds` | is it the first solvable seed, is failure reported only if there is none, are members found? | the same, with hashes for 4 of the 5 start slots |
| `std_parallel_spill` | do interleaved workers with deferral and spills give the sequential outcome? | W=4, 2 blocks, one seed, two workers, margin 1 < W-1 |
| `std_parallel_seeds` | the same when workers or the tail fail and the seed is retried; no spill with margin W-1 | W=2, 3 blocks, two seeds, zero, two and three threads |
| `pleat_plan` | is the counting sort in bounds and stable? | slices of up to four keys, three of them different, 5 start slots, windows of 1 to 8 slots, every old content of the buffer |
| `format` | round trip, damage, arbitrary headers | 3-bit bytes, 2-byte words, usize up to 31, both families, R up to 3, tables of two and three blocks as far as they fit |
| `filter_handle` | answers, batches, hints, panics and saving of a filter whose storage is moved, shortened at either end, extended, altered or lost, any number of times | both families, W=6, 3 blocks, R=3, three solutions, every start slot, lines of 4 and 2 segments at every alignment, chunks of 2 keys, batches of 0, 1 and 5 keys |
| `prefetch_last_block` | is every line hinted that a query reads, as the docs say? It is not: see Findings | W=14, 2 blocks, R=7, lines of 8 and 4 segments as in the code |
| `sizing` | do the slot counts fit the keys and the decoder? | W=64 and 128, r from 1 to 32, up to 700 keys, 8-bit mantissas |

Properties:

* `RowsInBand`: no row, stored or in hand, has a bit past the last slot.
* `EquationsPreserved`: the stored rows have exactly the solutions of the keys
  added so far, and the row in hand says, given the stored rows, what its key
  said.
* `NoFalseNegatives`: every member is found.
* `BitIdentical`: the construction implements `RibbonFilter`. The abstract
  filter is defined from the *set* of equations alone, so two constructions
  that implement it agree bit for bit.
* `Terminates`, `ParTerminates`: every call returns.
* `KeysAreBucketed`, `WorkersInBand`, `ParEquationsPreserved`: see the comments
  in `ParallelBanding`.
* `MarginPreventsSpills`: with a margin of at least W-1 slots no reduction ever
  leaves its range. The code's margin is 2^14 slots with W=64, so its spill path
  is never taken: see Findings. `parallel_spill` therefore uses a margin below W-1,
  which the code does not, to check that the path would be right if it were
  taken.
* `StdRowsInBand`, `StdEquationsPreserved`, `StdNoFalseNegatives`,
  `StdWorkersInBand`, `StdParEquationsPreserved`,
  `StdMarginPreventsSpills`, `StdTerminates`, `StdParTerminates`: the same of
  the standard family, per result column; `StdRowsInBand` also says that no
  row of an abandoned seed is left. The two `EquationsPreserved` of this family
  range over solutions of the slots that some equation mentions; no other slot
  can make a difference to them.
* `FirstSolvableSeed`: the construction implements `StdFilter`.
* `PleatTypeOK`, `CursorsStayInRuns`, `PleatsStably`: every index of the
  counting sort is in range, no key is written over another, and the result is
  the stable order that the builders' modules take for granted.
* `RoundTrip`: a buffer is read back to the equal filter by the type that wrote
  it, and by no other. `DamageIsDetected`: damage to one byte, truncation and
  extension are noticed. `AcceptedIsSound`: an accepted filter has every
  segment that a query of any start slot reads.

* `AnswersAreOriginal`: while callbacks keep their contract, and as long as the
  words that are left are in their places, an answer that is given is that of the
  filter as built, which `IsMember` defines from the solution slot by slot; so a
  query reads each bit its row selects once, across a block boundary and at start
  bit 0 too, for any solution, not only those of builders.
* `BrokenIsNotPersisted`: after at most one failed relocation what loads is the
  filter as built.
* `BatchAnswersInOrder`: a batch leaves no gap, and leaves the rest alone if it
  panics.
* `WholeFilterAnswers`: a query of a filter whose callbacks kept their contract,
  or whose storage is whole all the same, never panics.
* `HintsPrecedeReads`: each line a probe reads was hinted in its chunk, for keys
  that do not start in the last block's only start slot.
* `TableFits`: no fewer slots than keys, not more than two blocks and a 64th of
  waste, whole blocks, and dimensions that `decode` accepts.

Why the bounds are enough: W=3 has rows that move by one and by two bits in one
turn; two blocks give queries at start bit 0, across the block boundary and in
the last block; three keys give duplicates, pairs with equal rows and triples
whose rows sum to zero. The hash range is not a multiple of the number of start
slots, so fastrange is uneven. The standard family's W=4 leaves room for a result row
that is not the coefficient row; two seeds show one that fails and one that
works, and both failing. Three blocks and three threads put a range between two
others. In `format` the number of slots overflows a u64 and a usize, the number
of segments and the length of the payload overflow a usize, and every error of
`decode` occurs. In `filter_handle` the R segments of a block are no whole number
of lines, so spans straddle lines in every way; five keys are two full chunks
and a short one; three blocks have a first, a middle and a last; storage is cut
inside a block, at a block and before the first segment, loses its first word,
has its words moved by one, gets a word more or another last word; callbacks of
one solution may return what is left of another, and since relocations repeat,
storage that lost a word gets its length back with other words. In `sizing` 700 keys
pass the first two doublings beyond the mantissa, and the products of the factor
many more. (The product of blocks and columns cannot overflow a u64, here
or in the code: R is less than w.)

Fairness. A constructor runs in its caller's thread and never waits, so
`WF_vars(Next)`. With threads, the operating system schedules each of them, and
`thread::scope` waits for all: weak fairness for the caller and for each
worker.

Nothing is fair in `PleatPlan`, `Format`, `FilterHandle` and `Sizing`: their
properties are safety. No application has to call, and no callback to return.

The final states of a call have no successor, so the configurations do not check for
deadlock; `Terminates`, `ParTerminates`, `StdTerminates` and `StdParTerminates`
say that nothing else is final.

## 4. Proofs

Each theorem below holds for tables of every size, words of every width, any
number of columns, every slice of keys and every hash function, and, where there
are threads, any number of them and every interleaving.

### Rows and linear systems

`StartInRange`: fastrange stays below the number of start slots. The lemmas
of `Hashing_proofs` that the rest stands on: a sum with a row that X cancels has
the parity of the other summand (`ParityOfSum`), shifting a row to its lowest bit
while its start moves up as far leaves the slots it selects unchanged
(`RowOfShift`), and neither the shift nor the sum leaves a range that both rows
were in (`ReducedRow`).

### Sequential construction, w=64

* `TypeCorrect`, `RowsStayInBand`: by the inductive invariant `BandInv`. It adds
  `LoopsInv` to the two: types alone are not inductive, since the bound on the
  key index comes from the loop structure.
* `ReductionPreservesEquations`: for each candidate solution X, one turn of the
  loop changes neither what the stored rows nor what the row in hand says about
  X (`ReductionStep`).
* `MembersAreFound`: `BuildInv` says that from the slot on that back-substitution
  has reached every stored row holds in every column, and that the segments
  written so far carry exactly those bits. The rolling `state` is the window of
  the solution above the slot, which is why one parity per slot suffices. When
  all slots are done every stored row holds, so, by the theorem above, every
  key's equation, and `contains` evaluates just that one: its two cases, the row
  inside a block and across a boundary, select the same slots as the row.
* `FilterIsDetermined` (`Spec => BitIdentical`): `Banding` implements
  `RibbonFilter`. A matrix whose rows start with a one at their own slot has one
  solution for each choice of the free slots; which slots are free, and
  therefore the filter, depends only on the solution space of the matrix, which
  is that of the keys' equations, whatever order they were added in. The step that returns
  is the abstract `Return`; every other one is a stutter.

### Parallel construction, w=64

`BoundsTile`, `SlotInItsRange` (`SlotRanges_proofs`): the range boundaries run
from 0 to the end of the table in order, for any number of threads and windows
of any size. A saturated product is never below an earlier one (`SatMulGrows`),
and rounding up twice leaves enough windows for the last range to reach the end
(`CeilDivCovers`). The range of a slot is the one with the greatest boundary not
above it; since the boundaries tile the table, the slot is inside it.

The invariant `ParInv` of `ParallelBanding_proofs` adds to `BandInv`: where the
phases are, that every key of a bucket starts in the bucket's range and not in
its margin (`BucketInv`), the loop of each worker, and that a worker whose range
ends the table or whose margin is wide enough has met no row that leaves it
(`ConfinedInv`). A worker's turn moves that worker only and writes one row at most,
inside its own range (`SliceTurn`), so nothing that is said of another worker is
disturbed.

* `ParTypeCorrect`, `WorkersStayInBand`, `MarginSuffices` follow from `ParInv`.
* `KeysAreDealtOut`: a counting invariant: the places at which a key has arrived
  are as many as those at which it waits or lies in a bucket.
* `WorkersPreserveEquations`: what the stored rows and the row in hand of
  *every* worker say of X is kept by a turn of any one of them.
* `ParMembersAreFound`, `ParFilterIsDetermined`: when the solver starts, every key
  is settled, so the matrix has the solutions of all keys' equations, and what
  was proved of the solver applies to it.

### Standard family, w=128

About the sequential construction `Spec` of `StdBanding`:

* `StdTypeCorrect`, `StdRowsStayInBand`: by `StdInv`, through any number of
  abandoned seeds.
* `StdReductionPreservesEquations`: per result column.
* `StdMembersAreFound`: the recursion that `Words` stands for has one solution
  (`Descent`, from the end of the table to slot 0), each word is the window of
  the column's solution from its slot on, and the segments are the words at the
  starts of the blocks.
* `StdFirstSolvableSeed` (`Spec => FirstSolvableSeed`): `StdBanding` implements
  `StdFilter`. A row that is reduced to zero with a result row that is not is a
  consequence of the keys' equations that nothing satisfies, so a rejected seed
  is not solvable (`ContradictionIsFinal`); a matrix of rows with a leading one
  is always solvable (`EchelonIsSolvable`), so a seed that returns is, and the
  solution it returns is the canonical one.

About the parallel construction `ParSpec` of `StdParallel`, on top of them:

* The two recursions of the model (`DealtOut`, `SpilledBelow`) are unrolled once
  and for all from a witness (`RecursionExists`), and give: no key is lost when
  the keys are dealt out and each goes where its start slot says
  (`DealingIsSound`), and what the caller gets back has the spilled keys of every
  worker (`SpilledAreCollected`).
* `StdParTypeCorrect`, `StdWorkersStayInBand`, `StdMarginSuffices`: by
  `StdParInv`, in the form of `ParInv`: it adds to `StdInv` that every attempt
  starts from an empty matrix (`CallInv`), where the keys of a bucket start
  (`BucketInv`), the loop of each worker (`WorkerInv`), that some workers meet no
  row that leaves their range (`ConfinedInv`), and that no key is in nobody's
  hands (`PlacedInv`). One turn moves one worker and writes at most one row,
  inside its range (`RangeTurn`).
* `StdWorkersPreserveEquations`: for each candidate X and column, `RangeStep` says
  what a turn does to the rows stored and to the hand of every worker; the join
  settles every key that it does not give to the caller (`JoinSettles`).
* `StdParallelMembersAreFound`, `StdParallelFirstSolvableSeed`: a worker that
  fails holds a contradiction, so the seed is not solvable (`FailedInv`; here
  `ContradictionIsFinal` is about a row that no other thread sees), and since the
  seed's equations do not depend on who adds them, that is still true when the
  other workers have returned and the caller looks. When the caller is through
  with the deferred and the spilled keys, every key is settled, and what was
  proved of the solver applies. With `StdFirstSolvableSeed`: all builders of the
  family return the same filter.

### Pleating

`PleatTypeCorrect`, `CursorsKeepToRuns`, `SortIsStable`: by `PleatInv`. The
cursor of a window stands at the start of its run plus the number of its keys
moved, so no cursor passes into the next run, and equal windows keep their
order. Whatever keys the output buffer held before are overwritten: `Init` and
the theorem leave them open.

### Finished filters

`HandleTypeCorrect`, `AnswersOfTheBuilt`, `BatchesAnswerInOrder`,
`WholeFiltersAnswer`, `HintsComeFirst`, `BrokenIsNotLoaded`: by `HandleInv`, for
callbacks that may return any vector. Its core is `Sound`, which holds of the
vector in the filter, of the one a callback holds and of the one in a saved
buffer: it is the solution before the first breach, and after one failed
relocation the solution or a vector of another length. A buffer that is loaded
has the length that its dimensions demand, so then it is the solution. A query
that ends without a panic has read segments that are there; if what is there is
in its place (`InPlace`), it has read the builder's. The hints are shown to cover
the probes for lines of every size at every alignment.

### Serialization

`Format_proofs` is about bytes with any number of values, words of any number of
them, and any filter a builder can return. The three theorems follow from the
inductive invariant `FormatInv`, which says how the buffer relates to the filter
(written from it, with one byte changed, or resized) and the result to the
buffer. What they stand on:

* The recursive functions of the model (`Power`, the value of a sequence of
  bytes, XOR, the hash) are unrolled from a witness (`RecursionExists`), and what
  holds of every prefix is shown by going up from 0 (`Ascent`), which needs only
  the well-foundedness of the naturals.
* `FromToLe`: a number that fits is what its bytes encode; `FromLeChanged`:
  sequences that differ in one byte encode different numbers.
* `XorInjective`: two words XORed with the same byte, or one word with two bytes,
  differ afterwards (`WordIsItsBits`: a word is determined by its bits).
  `PrimeInjective`: multiplication by an odd prime that wraps at a power of two
  loses nothing. Hence `HashChanged`: from the changed byte on the two hashes
  never meet again.
* `HeaderRead`, `SegmentsRead`: the fields and the segments are where the decoder
  looks for them; nothing that was computed of their lengths wraps
  (`BuiltGeometry`).

`WrittenIsReadBack` (`RoundTrip`) and `DamageIsSeen` (`DamageIsDetected`) follow:
a byte changed in the body changes the hash and one in the trailer the number it
is compared with (`ChangedIsRejected`); a buffer cut or extended may have a
checksum that fits, but then its header declares the old length
(`ResizedIsRejected`). That is why the checksum alone is not enough, and why no
property of hashes longer than "injective in each byte" is needed.

`AcceptedFiltersAreSound` (`AcceptedIsSound`) does not depend on the checksum:
`AcceptedGeometry` shows that nothing `decode` has computed of an accepted buffer
wrapped, so the filter has the segments its header declares, and
`AcceptedQueriesInBounds` that these are all a query may read. The checks demand
that the sum of start slots and width does not wrap and is a whole number of
blocks (`SlotsAreBlocks`). The last start slot is therefore the first of the last
block, and a row that crosses a block boundary has a next block.

### Sizing

`TablesFit` (`TableFits`), for floats of `MantissaBits` >= 8 bits, widths up to
128 and any number of keys that memory has room for: rounding moves a number by at most a 256th of it
(`RoundedIsClose`, from `ShiftExists` and `UlpIsSmall`); two roundings and the cut to an integer
therefore stay below the 64th that the property allows, and, since the factor is
at least 1 + 4/w, above the number of keys (`RawBounds`). `SlotsAreWholeBlocks`:
rounding up returns at least two whole blocks and no fewer slots than it was
given, nor more than two blocks more (`RoundingUpIsClose`); whole blocks that fit
memory pass `decode` (`WholeBlocksAreGood`).

### Assumptions

The named assumptions on the constants, each next to its constant: positive
width, two blocks or more, at least one start slot's worth of hashes, inputs that
are sequences of keys, and positive windows. `FilterHandle` has, besides,
`QueriesAssumption` (what is asked for are hashes of the filter's family),
`VectorsAssumption` (what callbacks return are vectors of words, any of them),
positive lines, element sizes and chunks, and `MachineAssumption` (the limits of
the machine's integers are numbers).

`Format`: a `u64` is `WordLen` bytes and `WordBits` bits and no narrower than a
`usize`, the header is as long as its fields, and the prime is odd
(`MachineAssumption`); family and result width name a type, as the decoder takes
for granted (`FamiliesAssumption`); `BuiltAssumption` says what a builder returns:
whole blocks, two or more, with room for the buffer in memory, and the raw seed
that belongs to the ordinal one. That a builder asks for such a table is `TablesFit`; that seeds agree
is what `Solution128::from_parts` and `find_seed` share, `ordinal_to_raw_seed`.
`Sizing`: floats of 8 bits or more (the code has 53), ribbons of at most 128
slots (the code has 64 and 128), and memory for the tables that are built
(`RoomAssumption`). TLC evaluates all of them in runs of the
modules that extend them.

### Only model-checked

Every safety invariant and every refinement that a passing run checks is a theorem. Left to
TLC is termination (`Terminates`, `ParTerminates`, `StdTerminates`,
`StdParTerminates`): liveness under fairness and ENABLED are out of the prover's
reach.

## 5. Findings

`prefetch_last_block`. The doc of `prefetch` says "Hint the CPU to load every
cache line of the solution that a later `contains` for `key` can read"
(`src/src/banding.rs:173`, `src/src/banding128.rs:182`, `src/src/filter.rs:145`).
The code touches the first segment of the key's block, every eighth (fourth) one
after it, and the last one of the next block, each if it exists. A key of the
last block has no next block: the touched segments that exist need not reach the
end of its own block, and if that block straddles a line boundary, the second
line is not hinted. Such keys are those of the one last start slot. No answer
depends on it; a lookup may wait for memory. The same docs count "two lines at
R=7", which holds at some alignments only: 14 segments of 8
bytes can lie in three lines, and the code does name all three.

Spills. `src/src/filter/parallel.rs:88-90` says of keys "whose reduction actually
spilled past a thread's range" that they are "rare, but possible for adversarial
inputs", and `src/src/banding128.rs:389-391` that the margin "makes boundary
crossing very unlikely, but if a reduction would leave the slice the key is
returned as spilled". With the code's margin of 2^14 slots they are not possible,
whatever the inputs: a key is given to a worker only if it starts the margin before the
end of the range, so its whole row of W bits (64 and 128) lies inside, and sums of
such rows do, too. `MarginPreventsSpills` and `StdMarginPreventsSpills` hold of
every margin from W-1 on, and `MarginSuffices` and `StdMarginSuffices` prove it.
The spill paths of both families are dead code that does no harm. That something
is possible is nothing a run can find violated, so this is shown by passing runs.

## 6. Plan

The order has been: the homogeneous core with its first proofs, its parallel
construction, the standard family, pleating, serialization, the finished filter
and sizing, then the proofs, in the same order. Every part of the crate that has
state is modelled, and every safety property is proved. When the code changes:

1. the module of the part that changed, with its run, then its proofs;
2. a new result width, element size or ribbon width is a new value of the
   constants only, as long as it satisfies the assumptions;
3. a new check of `decode` goes into `Verdict`; `VerdictOk` is the one lemma that
   enumerates what an accepted buffer has passed.

## 7. Not modelled

The hash mixing functions and `ordinal_to_raw_seed` (any hash and any seed map is
allowed instead), `hash_key` (a stateless call of xxh3), the relation of saved
filters to hashing on other targets, false positive rates (statistical), the
diagnostics `size_bytes`, `bits_per_key` and `false_positive_rate`, the speed of
the variants, formatting of errors, benches, fuzz targets and test vectors, and
everything outside the crate's sources.
