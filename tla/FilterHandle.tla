---------------------------- MODULE FilterHandle ----------------------------
(***************************************************************************)
(* A finished filter in the hands of an application: queries one by one    *)
(* and in batches with software prefetch, storage relocated through a      *)
(* callback that may misbehave, a panic that the application catches, and  *)
(* the way through to_bytes and from_bytes.  Both families                 *)
(* (src/src/filter.rs, banding.rs, banding128.rs).                         *)
(*                                                                         *)
(* A query is the hash of its key.  Segments are counted from 0 as in the  *)
(* code; segs[i + 1] is segment i.  The cache is seen from the storage:    *)
(* line 0 is the one its first segment lies in, `at` segments into it.     *)
(***************************************************************************)
EXTENDS Hashing128, Sequences

CONSTANTS
  R,                \* result bits: the columns of the solution
  Stride,           \* STRIDE: how many keys of a batch are prefetched at once
  LineLen,          \* segments in a cache line, for each family
  ElemLen,          \* bytes in a segment, for each family
  Solutions,        \* the solutions builders may have left
  Probes, Batches,  \* the queries and the batches of them, for each family
  Vectors,          \* what a callback may return that breaks its contract
  U64, UsizeMax, HeaderLen, ChecksumLen

Columns     == 0 .. R - 1
FamilyNames == {"homog", "std"}

(* The hashes of a family's keys                                           *)
HashesOf(f) == IF f = "std" THEN Hashes128 ELSE Hashes

ASSUME RAssumption == R \in 1 .. ResultWidth
ASSUME StrideAssumption == Stride \in Nat \ {0}
ASSUME LineAssumption == LineLen \in [FamilyNames -> Nat \ {0}]
ASSUME ElemAssumption == ElemLen \in [FamilyNames -> Nat \ {0}]
ASSUME SolutionsAssumption == Solutions \subseteq [1 .. NumBlocks * R -> Word]
ASSUME QueriesAssumption ==
  \A f \in FamilyNames :
    Probes[f] \subseteq HashesOf(f) /\ Batches[f] \subseteq Seq(HashesOf(f))
ASSUME VectorsAssumption == Vectors \subseteq Seq(Word)
ASSUME MachineAssumption == U64 \in Nat \ {0} /\ UsizeMax \in Nat

VARIABLES
  family,    \* "homog" for Ribbon, "std" for StdRibbon
  solution,  \* what the builder left in `segments`
  segs,      \* `segments` now
  at,        \* how many segments into a cache line it starts
  taken,     \* what the callback of relocate_storage has been given
  pc,        \* "idle", "prefetch", "probe", "relocating", "panicked"
  keys, out, \* the slices of the query call
  chunk, n,  \* index of the chunk's first key, and of the next one
  outChunk,  \* index of the chunk's first answer
  hinted,    \* the cache lines hinted for this chunk
  stored,    \* a buffer written by to_bytes
  breach     \* history: how callbacks have broken their contract

filterVars == <<family, solution>>
callVars   == <<keys, out, chunk, n, outChunk, hinted>>
vars       == <<filterVars, segs, at, taken, pc, callVars, stored, breach>>

Geo  == INSTANCE Geometry
Type == [family |-> IF family = "std" THEN 1 ELSE 0,
         r |-> R, elem |-> ElemLen[family], w |-> W]

Nothing == <<>>

-----------------------------------------------------------------------------
(* Queries                                                                 *)

Row(h)      == IF family = "std" THEN CoeffRow128(h) ELSE CoeffRow(h)
Expected(h) == IF family = "std" THEN ResultRow(h) ELSE {}

FirstSegment(h) == (Start(h) \div W) * R

Maybe(h) == IF Start(h) % W # 0 THEN R ELSE 0

(* The segments a query reads for column i *)
ReadsOf(h, i) == {FirstSegment(h) + i, FirstSegment(h) + Maybe(h) + i}

InBounds(i) == i < Len(segs)

(* The column's bits that the row selects do not add up to what they       *)
(* should.                                                                 *)
Disagrees(h, i) ==
  LET start_bit == Start(h) % W
      lo == segs[FirstSegment(h) + i + 1]
      hi == segs[FirstSegment(h) + Maybe(h) + i + 1]
      soln == (lo \cap ShiftLeft(Row(h), start_bit, W))
                \cup (hi \cap ShiftRight(Row(h), (W - start_bit) % W))
  IN  Parity(soln) # (IF i \in Expected(h) THEN 1 ELSE 0)

(* A slip: a column whose segments are missing is passed over. *)
ContainsLenient(h) ==
  LET Missing(i) == \E s \in ReadsOf(h, i) : ~InBounds(s)
  IN  IF \E i \in Columns : ~Missing(i) /\ Disagrees(h, i) THEN "no" ELSE "yes"

(* Solution::contains indexes the segments column by column, and does not  *)
(* go on after a column that disagrees.                                    *)
ContainsHomog(h) ==
  LET Panics(i) == \E s \in ReadsOf(h, i) : ~InBounds(s)
      stops     == {i \in Columns : Panics(i) \/ Disagrees(h, i)}
  IN  IF stops = {} THEN "yes"
      ELSE IF Panics(Min(stops)) THEN "panic" ELSE "no"

(* A slip: the second block is sliced even if no row reaches it. *)
ContainsBothBlocks(h) ==
  IF ~InBounds(FirstSegment(h) + 2 * R - 1) THEN "panic"
  ELSE IF \E i \in Columns : Disagrees(h, i) THEN "no" ELSE "yes"

(* Solution128::contains slices both blocks before the first column.       *)
ContainsStd(h) ==
  IF \E i \in Columns : \E s \in ReadsOf(h, i) : ~InBounds(s) THEN "panic"
  ELSE IF \E i \in Columns : Disagrees(h, i) THEN "no" ELSE "yes"

Contains(h) == IF family = "std" THEN ContainsStd(h) ELSE ContainsHomog(h)

Line(i) == (at + i) \div LineLen[family]

(* The first segment of the key's block, and every segment so many further *)
(* on as a line has                                                        *)
Strided(h) ==
  LET seg == FirstSegment(h)
  IN  {s \in seg .. seg + 2 * R - 2 : (s - seg) % LineLen[family] = 0}

(* The segments to touch: these, and the last one of the next block        *)
Touched(h) == Strided(h) \cup {FirstSegment(h) + 2 * R - 1}

(* A slip: the last segment is not touched. *)
PrefetchLinesButLast(h) == {Line(s) : s \in {s \in Strided(h) : InBounds(s)}}

(* prefetch: the lines of the segments to touch, as far as these exist     *)
PrefetchLines(h) == {Line(s) : s \in {s \in Touched(h) : InBounds(s)}}

-----------------------------------------------------------------------------
Init ==
  /\ family \in FamilyNames
  /\ solution \in Solutions
  /\ segs = solution
  /\ at \in 0 .. LineLen[family] - 1
  /\ taken = Nothing
  /\ pc = "idle"
  /\ keys = <<>> /\ out = <<>>
  /\ chunk = 1 /\ n = 1 /\ outChunk = 1
  /\ hinted = {}
  /\ stored = Nothing
  /\ breach = "none"

Idle == pc = "idle" /\ keys = <<>>

(* contains, for one key *)
Lookup ==
  /\ Idle
  /\ \E h \in Probes[family] :
       /\ keys' = <<h>>
       /\ LET answer == Contains(h)
          IN  IF answer = "panic"
              THEN pc' = "panicked" /\ out' = <<"unwritten">>
              ELSE pc' = "idle" /\ out' = <<answer>>
  /\ UNCHANGED <<filterVars, segs, at, taken, chunk, n, outChunk, hinted, stored, breach>>

(* contains_batch asserts that there are as many places as keys.           *)
ContainsBatch ==
  /\ Idle
  /\ \E ks \in Batches[family], spare \in -1 .. 1 :
       /\ Len(ks) + spare >= 0
       /\ keys' = ks
       /\ out' = [i \in 1 .. Len(ks) + spare |-> "unwritten"]
       /\ pc' = IF spare # 0 THEN "panicked" ELSE IF ks = <<>> THEN "idle" ELSE "prefetch"
  /\ UNCHANGED <<filterVars, segs, at, taken, chunk, n, outChunk, hinted, stored, breach>>

(* A slip: a chunk of one key too many *)
EndOfChunkLate == n = Len(keys) \/ n = chunk + Stride

EndOfChunk == n = Len(keys) \/ n = chunk + Stride - 1

PrefetchKey ==
  /\ pc = "prefetch"
  /\ hinted' = hinted \cup PrefetchLines(keys[n])
  /\ IF EndOfChunk THEN pc' = "probe" /\ n' = chunk
                   ELSE pc' = "prefetch" /\ n' = n + 1
  /\ UNCHANGED <<filterVars, segs, at, taken, keys, out, chunk, outChunk, stored, breach>>

(* A slip: the answers are cut into longer chunks than the keys. *)
AdvanceFurther ==
  IF n = Len(keys) THEN pc' = "idle" /\ UNCHANGED <<chunk, n, outChunk, hinted>>
  ELSE IF EndOfChunk
       THEN /\ pc' = "prefetch" /\ chunk' = n + 1 /\ n' = n + 1 /\ hinted' = {}
            /\ outChunk' = outChunk + Stride + 1
       ELSE pc' = "probe" /\ n' = n + 1 /\ UNCHANGED <<chunk, outChunk, hinted>>

(* The next key of the chunk, or the next chunk of keys and the next of    *)
(* answers                                                                 *)
Advance ==
  IF n = Len(keys) THEN pc' = "idle" /\ UNCHANGED <<chunk, n, outChunk, hinted>>
  ELSE IF EndOfChunk
       THEN /\ pc' = "prefetch" /\ chunk' = n + 1 /\ n' = n + 1 /\ hinted' = {}
            /\ outChunk' = outChunk + Stride
       ELSE pc' = "probe" /\ n' = n + 1 /\ UNCHANGED <<chunk, outChunk, hinted>>

(* The place of the answer to key n: as far into the chunk of answers as   *)
(* the key is into its own                                                 *)
Place == outChunk + (n - chunk)

ProbeKey ==
  /\ pc = "probe"
  /\ LET answer == Contains(keys[n])
     IN  IF answer = "panic"
         THEN pc' = "panicked" /\ UNCHANGED <<out, chunk, n, outChunk, hinted>>
         ELSE out' = [out EXCEPT ![Place] = answer] /\ Advance
  /\ UNCHANGED <<filterVars, segs, at, taken, keys, stored, breach>>

-----------------------------------------------------------------------------
(* relocate_storage: the segments are taken out and given to the callback. *)
TakeStorage ==
  /\ Idle
  /\ taken' = segs /\ segs' = Nothing
  /\ pc' = "relocating"
  /\ UNCHANGED <<filterVars, at, callVars, stored, breach>>

(* What a callback returns: the words it was given, as it must, or any     *)
(* vector.                                                                 *)
Returned == {taken} \cup Vectors

(* It is stored, and then its length is asserted.  The words are not       *)
(* looked at: "lost" is the second breach of the contract, or one that the *)
(* assertion does not see.                                                 *)
StoreReturned ==
  /\ pc = "relocating"
  /\ \E v \in Returned :
       /\ segs' = v
       /\ pc' = IF Len(v) = Len(taken) THEN "idle" ELSE "panicked"
       /\ breach' = IF v = taken THEN breach
                    ELSE IF breach = "none" /\ Len(v) # Len(taken) THEN "caught" ELSE "lost"
  /\ at' \in 0 .. LineLen[family] - 1
  /\ taken' = Nothing
  /\ UNCHANGED <<filterVars, callVars, stored>>

(* The callback panics: what it was given is dropped.                      *)
CallbackPanics ==
  /\ pc = "relocating"
  /\ pc' = "panicked"
  /\ taken' = Nothing
  /\ breach' = IF breach = "none" THEN "caught" ELSE breach
  /\ UNCHANGED <<filterVars, segs, at, callVars, stored>>

(* The application has read the answers, or it catches the panic; it goes  *)
(* on using the filter.                                                    *)
GoOn ==
  /\ pc = "panicked" \/ (pc = "idle" /\ keys # <<>>)
  /\ pc' = "idle"
  /\ keys' = <<>> /\ out' = <<>>
  /\ chunk' = 1 /\ n' = 1 /\ outChunk' = 1 /\ hinted' = {}
  /\ UNCHANGED <<filterVars, segs, at, taken, stored, breach>>

-----------------------------------------------------------------------------
(* to_bytes, without the fields and the checksum that Format is about      *)
ToBytes(s) == [num_starts |-> NumStarts, count |-> Len(s), payload |-> s]

(* A slip: the declared number of segments is not compared. *)
AcceptsAnyCount(buf) ==
  /\ Geo!GoodSlots(buf.num_starts, Type)
  /\ Geo!TotalLen(buf.count, Type)
       = HeaderLen + Len(buf.payload) * Type.elem + ChecksumLen

(* decode *)
Accepts(buf) ==
  /\ Geo!GoodGeometry(buf.num_starts, buf.count, Type)
  /\ Geo!TotalLen(buf.count, Type)
       = HeaderLen + Len(buf.payload) * Type.elem + ChecksumLen

Serialize ==
  /\ Idle
  /\ stored' = ToBytes(segs)
  /\ UNCHANGED <<filterVars, segs, at, taken, pc, callVars, breach>>

(* from_bytes gives a filter with storage of its own, or an error.         *)
FromBytes ==
  /\ Idle /\ stored # Nothing
  /\ IF Accepts(stored)
     THEN segs' = stored.payload /\ at' \in 0 .. LineLen[family] - 1
     ELSE UNCHANGED <<segs, at>>
  /\ stored' = Nothing
  /\ UNCHANGED <<filterVars, taken, pc, callVars, breach>>

Next ==
  \/ Lookup \/ ContainsBatch \/ PrefetchKey \/ ProbeKey
  \/ TakeStorage \/ StoreReturned \/ CallbackPanics \/ GoOn
  \/ Serialize \/ FromBytes

Spec == Init /\ [][Next]_vars
-----------------------------------------------------------------------------
Whole == segs = solution

(* Every word of the solution that is still there is where the builder put *)
(* it: nothing is missing but at the end.                                  *)
InPlace == \A g \in DOMAIN segs \cap DOMAIN solution : segs[g] = solution[g]

(* Types: the indices of a batch stay inside the slices, and storage never *)
(* is anywhere but in the filter or with the callback.                     *)
HandleTypeOK ==
  /\ family \in FamilyNames /\ solution \in Solutions
  /\ segs \in Seq(Word) /\ taken \in Seq(Word)
  /\ at \in 0 .. LineLen[family] - 1
  /\ pc \in {"idle", "prefetch", "probe", "relocating", "panicked"}
  /\ \A i \in DOMAIN out : out[i] \in {"unwritten", "yes", "no"}
  /\ pc \in {"prefetch", "probe"} =>
       /\ Len(out) = Len(keys)
       /\ chunk \in 1 .. Len(keys) /\ n \in chunk .. chunk + Stride - 1
       /\ n \in DOMAIN keys
  /\ pc # "relocating" => taken = Nothing
  /\ breach \in {"none", "caught", "lost"}

(* The bit of the solution that column i has in a slot                     *)
SolutionBit(i, slot) == slot % W \in solution[(slot \div W) * R + i + 1]

(* What the filter says of a key, by the definition of a ribbon filter: in *)
(* every column the bits of the slots the row selects add up to the key's. *)
IsMember(h) ==
  \A i \in Columns :
    Parity({b \in Row(h) : SolutionBit(i, Start(h) + b)})
      = (IF i \in Expected(h) THEN 1 ELSE 0)

(* As long as callbacks keep their contract, however often the filter is   *)
(* relocated, saved and loaded, an answer that is given is the answer of   *)
(* the filter that was built ("Lookups before and after give the same      *)
(* answers", filter.rs).  So it is when a callback, or an earlier panic,   *)
(* left storage that is only cut off or longer: the missing words can make *)
(* a query panic and never answer.  It is not so once words were moved or  *)
(* altered, which the code does not look for.                              *)
AnswersAreOriginal ==
  breach = "none" \/ InPlace =>
    \A i \in DOMAIN out :
      out[i] # "unwritten" => (out[i] = "yes" <=> IsMember(keys[i]))

(* A batch answers its keys in order: no place is passed over, and when it *)
(* returns none is unwritten; when it panics the rest are as they were.    *)
BatchAnswersInOrder ==
  /\ \A i, j \in DOMAIN out :
       i < j /\ out[j] # "unwritten" => out[i] # "unwritten"
  /\ pc = "idle" => \A i \in DOMAIN out : out[i] # "unwritten"

(* No query of a filter whose callbacks kept their contract, or whose      *)
(* storage is whole all the same, panics, on its last start slot, whose    *)
(* row has no second block, as little as elsewhere; the only panic is the  *)
(* assertion on the slices of a batch.                                     *)
WholeFilterAnswers ==
  pc = "panicked" /\ (breach = "none" \/ Whole) /\ keys # <<>> => Len(out) # Len(keys)

LinesRead(h) == {Line(s) : s \in UNION {ReadsOf(h, i) : i \in Columns}}

(* When a key is probed every line its query reads has been hinted, unless *)
(* it starts in the last block.                                            *)
HintsPrecedeReads ==
  pc = "probe" /\ Whole /\ Start(keys[n]) # NumStarts - 1 =>
    LinesRead(keys[n]) \subseteq hinted

(* "Hint the CPU to load every cache line of the solution that a later     *)
(* contains for key can read" (banding.rs:173, banding128.rs:182,          *)
(* filter.rs:145), for every key                                           *)
HintsCoverEveryRead ==
  pc = "probe" /\ Whole => LinesRead(keys[n]) \subseteq hinted

(* The words lost or gained in one failed relocation cannot be saved and   *)
(* loaded: what from_bytes accepts is the filter that was built.  A second *)
(* failure may bring the length back without the words, and a breach that  *)
(* keeps the length shows nowhere.                                         *)
BrokenIsNotPersisted ==
  breach # "lost" /\ stored # Nothing /\ Accepts(stored) => stored.payload = solution
=============================================================================
