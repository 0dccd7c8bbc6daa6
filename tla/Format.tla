------------------------------- MODULE Format -------------------------------
(***************************************************************************)
(* The serialization envelope (src/src/format.rs) and the to_bytes and     *)
(* from_bytes of both filter families (src/src/filter.rs).                 *)
(*                                                                         *)
(* The machine is scaled down: a byte takes Base values, a u64 is WordLen  *)
(* bytes long, a usize is at most UsizeMax, which is below the largest u64 *)
(* as it is on 32-bit targets.  A filter's segments are words of elem      *)
(* bytes each; a query of a start slot reads R or 2 * R of them.           *)
(***************************************************************************)
EXTENDS Geometry, Powers, Sequences

CONSTANTS
  Base,       \* how many values a byte takes
  WordLen,    \* how many bytes a u64 is long
  WordBits,   \* how many bits a u64 is long
  FnvOffset, FnvPrime,
  RawSeed,    \* raw seed of each ordinal seed, ordinal_to_raw_seed
  Families,   \* filter types: [family, r, elem, w], elem in bytes
  Built,      \* filters builders have returned
  Foreign     \* [headers, payloads] of buffers that are not from to_bytes

Byte == 0 .. Base - 1

(* The four bytes of "PLT1" and the two reserved ones are one byte each    *)
(* here.  A usize is no wider than a u64.  The prime of FNV-1a is odd.     *)
ASSUME MachineAssumption ==
  /\ Base \in Nat \ {0, 1} /\ WordLen \in Nat \ {0} /\ WordBits \in Nat
  /\ U64 = Power(Base, WordLen) /\ U64 = Power(2, WordBits) /\ UsizeMax < U64
  /\ HeaderLen = 4 + 3 * WordLen /\ ChecksumLen = WordLen
  /\ FnvOffset \in 0 .. U64 - 1 /\ FnvPrime \in Nat /\ FnvPrime % 2 = 1

(* Family and result width name the filter type; both fit a byte.          *)
ASSUME FamiliesAssumption ==
  /\ Families \subseteq Types
  /\ \A t \in Families : t.r \in Byte
  /\ \A s, t \in Families : s.family = t.family /\ s.r = t.r => s = t

ASSUME SeedsAssumption ==
  \A o \in DOMAIN RawSeed : o \in 0 .. U64 - 1 /\ RawSeed[o] \in 0 .. U64 - 1

(* What a builder returns: a table of whole blocks, two or more, as far as *)
(* memory has room for it and for the buffer.  A standard filter's raw     *)
(* seed is the one its ordinal seed stands for, a homogeneous filter has a *)
(* raw seed only.                                                          *)
ASSUME BuiltAssumption ==
  \A f \in Built :
    /\ f \in [type : Families, num_starts : Nat, segs : Seq(Nat),
              raw_seed : 0 .. U64 - 1, ordinal_seed : 0 .. U64 - 1]
    /\ \A p \in DOMAIN f.segs : f.segs[p] < Power(Base, f.type.elem)
    /\ \E blocks \in 2 .. Len(f.segs) :
         /\ f.num_starts + f.type.w - 1 = blocks * f.type.w
         /\ Len(f.segs) = blocks * f.type.r
    /\ f.num_starts + f.type.w - 1 <= UsizeMax
    /\ HeaderLen + Len(f.segs) * f.type.elem + ChecksumLen <= UsizeMax
    /\ f.type.family = 1 => /\ f.ordinal_seed \in DOMAIN RawSeed
                           /\ f.raw_seed = RawSeed[f.ordinal_seed]
    /\ f.type.family = 0 => f.ordinal_seed = 0

ASSUME ForeignAssumption ==
  Foreign.headers \subseteq Seq(Byte) /\ Foreign.payloads \subseteq Nat

VARIABLES
  filter,   \* the filter that was serialized
  stored,   \* the buffer
  history,  \* how it came about: "empty", "encoded", "damaged", "foreign"
  target,   \* the filter type it is decoded into
  result    \* what from_bytes returned

vars == <<filter, stored, history, target, result>>

-----------------------------------------------------------------------------
(* Writing                                                                 *)

to_le_bytes(n, len) == [p \in 1 .. len |-> (n \div Power(Base, p - 1)) % Base]

Magic == 1

Bit(a, i) == (a \div Power(2, i)) % 2

(* The exclusive or of a word and a byte *)
Xor ==
  [a \in 0 .. U64 - 1 |-> [b \in Byte |->
     LET low[i \in 0 .. WordBits] ==   \* the i lowest bits
           IF i = 0 THEN 0
           ELSE low[i - 1] + ((Bit(a, i - 1) + Bit(b, i - 1)) % 2) * Power(2, i - 1)
     IN  low[WordBits]]]

(* A slip: a factor that loses information *)
fnv1a_even(bytes) ==
  LET h[p \in 0 .. Len(bytes)] ==
        IF p = 0 THEN FnvOffset
        ELSE (Xor[h[p - 1]][bytes[p]] * (FnvPrime + 1)) % U64
  IN  h[Len(bytes)]

(* Every byte is mixed in by XOR and a multiplication that wraps.          *)
fnv1a(bytes) ==
  LET h[p \in 0 .. Len(bytes)] ==
        IF p = 0 THEN FnvOffset
        ELSE (Xor[h[p - 1]][bytes[p]] * FnvPrime) % U64
  IN  h[Len(bytes)]

write_header(family, r, seed, num_starts, segment_count) ==
  <<Magic, family, r, 0>> \o to_le_bytes(seed, WordLen)
    \o to_le_bytes(num_starts, WordLen) \o to_le_bytes(segment_count, WordLen)

finish(buf) == buf \o to_le_bytes(fnv1a(buf), WordLen)

(* The segments, one after the other *)
payload(f) ==
  LET elem == f.type.elem
  IN  [p \in 1 .. Len(f.segs) * elem |->
         to_le_bytes(f.segs[(p - 1) \div elem + 1], elem)[((p - 1) % elem) + 1]]

(* A slip: the raw seed, which the decoder would take for an ordinal one *)
to_bytes_raw_seed(f) ==
  finish(write_header(f.type.family, f.type.r, f.raw_seed, f.num_starts, Len(f.segs))
         \o payload(f))

(* Ribbon::to_bytes writes the raw seed, StdRibbon::to_bytes the ordinal.  *)
to_bytes(f) ==
  finish(write_header(f.type.family, f.type.r,
                      IF f.type.family = 1 THEN f.ordinal_seed ELSE f.raw_seed,
                      f.num_starts, Len(f.segs))
         \o payload(f))

-----------------------------------------------------------------------------
(* Reading                                                                 *)

from_le_bytes(bytes) ==
  LET n[p \in 0 .. Len(bytes)] ==
        IF p = 0 THEN 0 ELSE n[p - 1] + bytes[p] * Power(Base, p - 1)
  IN  n[Len(bytes)]

Word(bytes, at)     == from_le_bytes(SubSeq(bytes, at, at + WordLen - 1))

Family(bytes)       == bytes[2]
Width(bytes)        == bytes[3]
Reserved(bytes)     == bytes[4]
Seed(bytes)         == Word(bytes, 5)
NumStarts(bytes)    == Word(bytes, 5 + WordLen)
SegmentCount(bytes) == Word(bytes, 5 + 2 * WordLen)
Checksum(bytes)     == Word(bytes, Len(bytes) - ChecksumLen + 1)

(* decode, and the seed check of StdRibbon::from_bytes: the first check    *)
(* that fails, or "ok"                                                     *)
Verdict(bytes, t) ==
  IF Len(bytes) < HeaderLen + ChecksumLen THEN "TooShort"
  ELSE IF bytes[1] # Magic THEN "BadMagic"
  ELSE IF fnv1a(SubSeq(bytes, 1, Len(bytes) - ChecksumLen)) # Checksum(bytes)
       THEN "BadChecksum"
  ELSE IF Family(bytes) # t.family THEN "WrongFamily"
  ELSE IF Width(bytes) # t.r THEN "WrongResultWidth"
  ELSE IF Reserved(bytes) # 0 THEN "NonZeroReserved"
  ELSE IF ~GoodGeometry(NumStarts(bytes), SegmentCount(bytes), t) THEN "BadGeometry"
  ELSE IF TotalLen(SegmentCount(bytes), t) # Len(bytes) THEN "LengthMismatch"
  ELSE IF t.family = 1 /\ Seed(bytes) \notin DOMAIN RawSeed THEN "BadSeed"
  ELSE "ok"

(* The filter made of an accepted buffer: the payload in chunks of elem    *)
(* bytes; the raw seed is read, or recomputed from the ordinal one.        *)
Decoded(bytes, t) ==
  LET seed     == Seed(bytes)
      len      == PayloadLen(SegmentCount(bytes), t)
      segments == SubSeq(bytes, HeaderLen + 1, HeaderLen + len)
      Chunk(p) == SubSeq(segments, (p - 1) * t.elem + 1, p * t.elem)
  IN  [type |-> t, num_starts |-> NumStarts(bytes),
       raw_seed |-> IF t.family = 1 THEN RawSeed[seed] ELSE seed,
       ordinal_seed |-> IF t.family = 1 THEN seed ELSE 0,
       segs |-> [p \in 1 .. Len(segments) \div t.elem |-> from_le_bytes(Chunk(p))]]

-----------------------------------------------------------------------------
Nothing == [verdict |-> "none"]

Init ==
  /\ filter = Nothing
  /\ stored = <<>>
  /\ history = "empty"
  /\ target \in Families
  /\ result = Nothing

Serialize ==
  /\ history = "empty"
  /\ filter' \in Built
  /\ stored' = to_bytes(filter')
  /\ history' = "encoded"
  /\ UNCHANGED <<target, result>>

(* A storage medium changes one byte, or cuts the buffer short, or leaves  *)
(* a byte behind it.                                                       *)
Damage ==
  /\ history = "encoded"
  /\ result = Nothing
  /\ \/ \E p \in 1 .. Len(stored), v \in Byte :
          v # stored[p] /\ stored' = [stored EXCEPT ![p] = v]
     \/ \E p \in 0 .. Len(stored) - 1 : stored' = SubSeq(stored, 1, p)
     \/ \E v \in Byte : stored' = Append(stored, v)
  /\ history' = "damaged"
  /\ UNCHANGED <<filter, target, result>>

(* A buffer with any header and a checksum that fits                       *)
Receive ==
  /\ history = "empty"
  /\ \E h \in Foreign.headers, len \in Foreign.payloads :
       stored' = finish(h \o [p \in 1 .. len |-> 0])
  /\ history' = "foreign"
  /\ UNCHANGED <<filter, target, result>>

FromBytes ==
  /\ history # "empty"
  /\ result = Nothing
  /\ LET v == Verdict(stored, target)
     IN  result' = IF v = "ok"
                   THEN [verdict |-> v, filter |-> Decoded(stored, target)]
                   ELSE [verdict |-> v]
  /\ UNCHANGED <<filter, stored, history, target>>

Next == Serialize \/ Damage \/ Receive \/ FromBytes

Spec == Init /\ [][Next]_vars
-----------------------------------------------------------------------------
(* What is written is read back, by the type that wrote it and by no other *)
(* (format.rs: "a homogeneous blob cannot be loaded as a standard one").   *)
RoundTrip ==
  history = "encoded" /\ result # Nothing =>
    IF target = filter.type
    THEN result = [verdict |-> "ok", filter |-> filter]
    ELSE result.verdict \in {"WrongFamily", "WrongResultWidth"}

(* decode rejects corruption (filter.rs): no change of one byte, no        *)
(* truncation and no byte too many goes unnoticed.  The checksum sees      *)
(* every change of one byte; where a change of length happens to leave it  *)
(* right, the declared length is not.                                      *)
DamageIsDetected ==
  history = "damaged" /\ result # Nothing => result.verdict # "ok"

(* Whatever the buffer, a filter that is accepted is sound: every word     *)
(* that contains reads for any start slot is there, up to the second block *)
(* of a row that starts in the last but one.                               *)
AcceptedIsSound ==
  result # Nothing /\ result.verdict = "ok" =>
    LET f == result.filter
    IN  /\ f.type = target
        /\ f.num_starts > target.w
        /\ QueriesInBounds(f.num_starts, Len(f.segs), target)
=============================================================================
